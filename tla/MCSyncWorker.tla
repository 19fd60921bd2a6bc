--------------------------- MODULE MCSyncWorker ---------------------------
(* Instances of SyncWorker for TLC.  One unit of time is the Active period  *)
(* (15 min); the Dormant period is shortened, its ratio to the lookback and *)
(* to the stale timeout is what matters.                                   *)
EXTENDS SyncWorker, TLC

CONSTANTS s1, n1, n2

Periods == [active |-> 1, idle |-> 2, dormant |-> 4]

ASSUME InstanceLookback == LookbackSuffices
===========================================================================
