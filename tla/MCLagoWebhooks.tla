-------------------------- MODULE MCLagoWebhooks --------------------------
(* Instances of LagoWebhooks for TLC.                                      *)
EXTENDS LagoWebhooks, TLC

CONSTANTS w1, w2, w3, g1, g2, s1, none

OnTheFirst == s1 :> g1

\* The webhooks may change places.
Symmetry == Permutations(Webhooks)
=============================================================================
