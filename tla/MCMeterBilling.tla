-------------------------- MODULE MCMeterBilling --------------------------
(* Instances of MeterBilling for TLC.                                      *)
EXTENDS MeterBilling, TLC

CONSTANTS t1, t2, t3

KindLive == (t1 :> "explicit")
KindMember == (t1 :> "member")
KindMixed == (t1 :> "explicit") @@ (t2 :> "inherited") @@ (t3 :> "member")
KindAuto == (t1 :> "auto")
===========================================================================
