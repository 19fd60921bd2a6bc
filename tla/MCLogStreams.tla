--------------------------- MODULE MCLogStreams ---------------------------
(* Instances of LogStreams for TLC.                                        *)
EXTENDS LogStreams, TLC

CONSTANTS s1, s2, s3, s4, dog

\* The connections may change places.
Symmetry == Permutations(Conns)
=============================================================================
