---------------------------- MODULE BillingLedger ----------------------------
(***************************************************************************)
(* What the post-transaction sweep promises to a customer, with nothing of *)
(* how it keeps the promise: a completed session is charged at most once,  *)
(* for all it used, and settled at most once, when nothing is left to      *)
(* charge; after that neither changes.                                     *)
(*                                                                         *)
(* MeterBilling implements it (Ledger!Spec there).                         *)
(***************************************************************************)
EXTENDS Integers

CONSTANTS
    Session,    \* charging sessions
    Payable,    \* those whose customer is billed by usage
    Known,      \* those that resolve to a customer at all
    Tolerance   \* Wh that may go uncharged

VARIABLES
    used,       \* Wh each session has delivered
    ended,      \* sessions that are over
    charged,    \* Wh each session has been charged for
    settled     \* sessions marked as final

ledgerVars == << used, ended, charged, settled >>

Init ==
    /\ used = [s \in Session |-> 0]
    /\ ended = {}
    /\ charged = [s \in Session |-> 0]
    /\ settled = {}

Use(s) ==
    /\ s \notin ended
    /\ used' = [used EXCEPT ![s] = @ + 1]
    /\ UNCHANGED << ended, charged, settled >>

End(s) ==
    /\ s \notin ended
    /\ ended' = ended \cup {s}
    /\ UNCHANGED << used, charged, settled >>

\* A batch of events: each session of it pays for all it used.
Charge(batch) ==
    /\ batch \subseteq (ended \cap Payable) \ settled
    /\ \A s \in batch : charged[s] = 0
    /\ charged' = [s \in Session |-> IF s \in batch THEN used[s] ELSE charged[s]]
    /\ UNCHANGED << used, ended, settled >>

\* Sessions of which no more than the tolerance is left to pay.
Settle(done) ==
    /\ done \subseteq (ended \cap Known) \ settled
    /\ \A s \in done : used[s] > 0
    /\ \A s \in done \cap Payable : used[s] <= charged[s] + Tolerance
    /\ settled' = settled \cup done
    /\ UNCHANGED << used, ended, charged >>

Next ==
    \/ \E s \in Session : Use(s) \/ End(s)
    \/ \E batch \in SUBSET Session : Charge(batch) \/ Settle(batch)

Spec == Init /\ [][Next]_ledgerVars
=============================================================================
