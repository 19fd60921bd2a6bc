--------------------------- MODULE MCScanPairing ---------------------------
(* Instances of ScanPairing for TLC.                                       *)
EXTENDS ScanPairing, TLC

CONSTANTS p1, p2, c1, c2, k1, k2, box, phone, none

\* The pairings may change places, the taps and the cards.
Symmetry == Permutations(Pairings) \cup Permutations(Taps)
            \cup Permutations(Cards)
=============================================================================
