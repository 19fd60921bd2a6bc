-------------------------- MODULE MCTagActivation --------------------------
(* Instances of TagActivation for TLC.                                     *)
EXTENDS TagActivation, TLC

CONSTANTS k1, k2, a1, a2, meta, none

\* The cards may change places, and so may the calls.
Symmetry == Permutations(Cards) \cup Permutations(Call)
=============================================================================
