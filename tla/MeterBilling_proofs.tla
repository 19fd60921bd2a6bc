------------------------ MODULE MeterBilling_proofs ------------------------
(***************************************************************************)
(* Theorems about MeterBilling, for every set of sessions, every bound and *)
(* every choice of faults.                                                 *)
(***************************************************************************)
EXTENDS MeterBilling, TLAPS

USE BoundAssumption DEF FINAL, EventIds

---------------------------------------------------------------------------
(* What the helpers return.                                                *)

\* Posting an event keeps the shape of a ledger.
LEMMA PostType ==
    ASSUME NEW ledger \in Ledgers, NEW id \in EventIds, NEW wh \in Nat
    PROVE  Post(ledger, id, wh) \in Ledgers
BY DEF Post, Ledgers

\* Posting an event records its id, and no other.
LEMMA PostIds ==
    ASSUME NEW ledger \in Ledgers, NEW id \in EventIds, NEW wh \in Nat
    PROVE  Post(ledger, id, wh).ids = ledger.ids \cup {id}
BY DEF Post, Ledgers

\* Posting an event adds at most its energy to the incremental usage.
LEMMA PostInc ==
    ASSUME NEW ledger \in Ledgers, NEW id \in EventIds, NEW wh \in Nat
    PROVE  Post(ledger, id, wh).inc <= ledger.inc + wh
BY DEF Post, Ledgers

\* The higher of two readings is a reading, and at least each of them.
LEMMA HigherFacts ==
    ASSUME NEW a \in Nat, NEW b \in Nat
    PROVE  /\ Higher(a, b) \in Nat
           /\ Higher(a, b) - a \in Nat
           /\ Higher(a, b) - b \in Nat
BY DEF Higher

---------------------------------------------------------------------------
(* Type correctness.                                                       *)

LEMMA InitType == Init => TypeOK
<1> SUFFICES ASSUME Init PROVE TypeOK
    OBVIOUS
<1>1. NoState \in TxStates
    BY DEF NoState, TxStates
<1>2. NoFlush \in Flushes
    BY DEF NoFlush, Flushes
<1>3. EmptyLedger \in Ledgers
    BY DEF EmptyLedger, Ledgers
<1>4. NoRow \in Rows
    BY DEF NoRow, Rows
<1>5. NoSweep \in Sweeps
    BY DEF NoSweep, Sweeps, SyncPcs
<1>6. FlushInterval \in EventIds
    OBVIOUS
<1> QED
    BY <1>1, <1>2, <1>3, <1>4, <1>5, <1>6 DEF Init, TypeOK

LEMMA NextType == TypeOK /\ [Next]_vars => TypeOK'
<1> SUFFICES ASSUME TypeOK, [Next]_vars PROVE TypeOK'
    OBVIOUS
<1>1. NoState \in TxStates /\ NoFlush \in Flushes /\ NoSweep \in Sweeps
    BY DEF NoState, TxStates, NoFlush, Flushes, NoSweep, Sweeps, SyncPcs
<1>2. ASSUME NEW t \in Tx, NEW pending \in Nat, NEW final \in BOOLEAN,
              StartFlush(t, pending, final)
       PROVE  flush' \in [Tx -> Flushes]
  <2>1. [NoFlush EXCEPT !.pc = "resolve", !.final = final] \in Flushes
    BY <1>1 DEF Flushes
  <2> QED
    BY <1>2, <2>1 DEF StartFlush, TypeOK
<1>3. CASE Tick
    BY <1>3 DEF Tick, TypeOK, emitterVars, dbVars
<1>4. ASSUME NEW t \in Tx, Charge(t) PROVE TypeOK'
    BY <1>4 DEF Charge, TypeOK, emitterVars, dbVars
<1>5. ASSUME NEW t \in Tx, Stop(t) PROVE TypeOK'
    BY <1>5 DEF Stop, TypeOK, emitterVars, dbVars
<1>6. ASSUME NEW t \in Tx, NEW wh \in 0 .. MaxMeter, NEW final \in BOOLEAN,
             EnqueueFirst(t, wh, final)
      PROVE  TypeOK'
  <2>1. wh \in Nat
    OBVIOUS
  <2>2. [NoState EXCEPT !.tracked = TRUE, !.start = wh, !.last = wh] \in TxStates
    BY <2>1 DEF NoState, TxStates
  <2>3. mem' \in [Tx -> TxStates]
    BY <1>6, <2>2 DEF EnqueueFirst, TypeOK
  <2>4. seen[t] \in Nat /\ exposure[t] \in Nat
    BY DEF TypeOK
  <2>5. Higher(seen[t], wh) \in Nat /\ Higher(seen[t], wh) - wh \in Nat
    BY <2>1, <2>4, HigherFacts
  <2>6. exposure[t] + (Higher(seen[t], wh) - wh) \in Nat
    BY <2>4, <2>5
  <2>7. seen' \in [Tx -> Nat] /\ exposure' \in [Tx -> Nat]
    BY <1>6, <2>5, <2>6 DEF EnqueueFirst, TypeOK
  <2> QED
    BY <1>6, <2>3, <2>7 DEF EnqueueFirst, TypeOK, dbVars
<1>7. ASSUME NEW t \in Tx, NEW wh \in 0 .. MaxMeter, NEW final \in BOOLEAN,
             EnqueueNext(t, wh, final)
      PROVE  TypeOK'
  <2> DEFINE pending == mem[t].pending + (Higher(mem[t].last, wh) - mem[t].last)
  <2>1. wh \in Nat
    OBVIOUS
  <2>2. /\ mem[t] \in TxStates /\ mem[t].last \in Nat /\ mem[t].pending \in Nat
        /\ seen[t] \in Nat /\ exposure[t] \in Nat
    BY DEF TypeOK, TxStates
  <2>3. /\ Higher(seen[t], wh) \in Nat
        /\ Higher(mem[t].last, wh) - mem[t].last \in Nat
        /\ Higher(mem[t].last, wh) - wh \in Nat
    BY <2>1, <2>2, HigherFacts
  <2>4. pending \in Nat /\ exposure[t] + (Higher(mem[t].last, wh) - wh) \in Nat
    BY <2>2, <2>3
  <2>5. [mem[t] EXCEPT !.last = wh, !.pending = pending] \in TxStates
    BY <2>1, <2>2, <2>4 DEF TxStates
  <2>6. mem' = [mem EXCEPT ![t] = [mem[t] EXCEPT !.last = wh, !.pending = pending]]
    BY <1>7 DEF EnqueueNext, TypeOK
  <2>7. mem' \in [Tx -> TxStates]
    BY <2>5, <2>6 DEF TypeOK
  <2>8. seen' \in [Tx -> Nat] /\ exposure' \in [Tx -> Nat]
    BY <1>7, <2>3, <2>4 DEF EnqueueNext, TypeOK
  <2>9. StartFlush(t, pending, final) \/ UNCHANGED flush
    BY <1>7 DEF EnqueueNext
  <2>10. flush' \in [Tx -> Flushes]
    BY <1>2, <2>4, <2>9 DEF TypeOK
  <2> QED
    BY <1>7, <2>7, <2>8, <2>10 DEF EnqueueNext, TypeOK, dbVars
<1>8. ASSUME NEW t \in Tx, SweepFlush(t) PROVE TypeOK'
  <2>1. mem[t].pending \in Nat
    BY DEF TypeOK, TxStates
  <2>2. flush' \in [Tx -> Flushes]
    BY <1>8, <1>2, <2>1 DEF SweepFlush
  <2> QED
    BY <1>8, <2>2 DEF SweepFlush, TypeOK, worldVars, dbVars
<1>9. ASSUME NEW t \in Tx, Evict(t) PROVE TypeOK'
    BY <1>1, <1>9, FaultAssumption DEF Evict, Fault, TypeOK, worldVars, dbVars
<1>10. ASSUME NEW t \in Tx, NEW resolved \in BOOLEAN, NEW sub \in BOOLEAN,
             NEW billable \in BOOLEAN, Resolved(t, resolved, sub, billable),
             faults' \in Nat
      PROVE  TypeOK'
  <2> DEFINE st == [mem[t] EXCEPT !.resolved = resolved, !.sub = sub,
                      !.pending = IF billable THEN mem[t].pending ELSE 0]
             f == [flush[t] EXCEPT !.pc = "send", !.id = now,
                                   !.wh = mem[t].pending]
  <2>1. mem[t] \in TxStates /\ mem[t].pending \in Nat /\ flush[t] \in Flushes
    BY DEF TypeOK, TxStates
  <2>2. st \in TxStates
    BY <2>1 DEF TxStates
  <2>3. f \in Flushes
    BY <2>1 DEF Flushes, TypeOK
  <2>4. mem' = [mem EXCEPT ![t] = st]
    BY <1>10 DEF Resolved, TypeOK
  <2>5. flush' = [flush EXCEPT ![t] = IF billable THEN f ELSE NoFlush]
    BY <1>10 DEF Resolved
  <2>6. mem' \in [Tx -> TxStates] /\ flush' \in [Tx -> Flushes]
    BY <1>1, <2>2, <2>3, <2>4, <2>5 DEF TypeOK
  <2> QED
    BY <1>10, <2>6 DEF Resolved, TypeOK, worldVars, dbVars
<1>11. ASSUME NEW t \in Tx, FlushStep(t) PROVE TypeOK'
  <2>1. CASE FlushResolveCached(t)
    <3>1. mem[t].sub \in BOOLEAN
        BY DEF TypeOK, TxStates
    <3> QED
        BY <1>10, <2>1, <3>1 DEF FlushResolveCached, TypeOK
  <2>2. CASE FlushResolve(t)
    <3> DEFINE sub == Kind[t] \in {"explicit", "auto", "member"}
               billable == Kind[t] \in {"explicit", "auto"}
    <3>1. sub \in BOOLEAN /\ billable \in BOOLEAN
        OBVIOUS
    <3>2. Resolved(t, TRUE, sub, billable) /\ faults' \in Nat
        BY <2>2 DEF FlushResolve, TypeOK
    <3> HIDE DEF sub, billable
    <3> QED
        BY <1>10, <3>1, <3>2
  <2>3. CASE FlushSend(t)
    <3>1. Post(lago[t], flush[t].id, flush[t].wh) \in Ledgers
        BY PostType DEF TypeOK, Flushes
    <3> QED
        BY <2>3, <3>1 DEF FlushSend, TypeOK, worldVars, dbVars, Flushes
  <2>4. CASE FlushPersist(t)
    <3> DEFINE f == flush[t]
               total == mem[t].total + f.wh
               r == [exists |-> TRUE, total |-> total, final |-> f.final]
               st == [mem[t] EXCEPT !.total = total, !.pending = 0, !.flushedAt = f.id]
    <3>1. /\ mem[t] \in TxStates /\ mem[t].total \in Nat
          /\ f.wh \in Nat /\ f.id \in Nat /\ f.id \in EventIds /\ f.final \in BOOLEAN
        BY DEF TypeOK, TxStates, Flushes
    <3>2. r \in Rows
        BY <3>1 DEF Rows
    <3>3. st \in TxStates
      <4>1. total \in Nat
          BY <3>1
      <4> HIDE DEF total, f
      <4> QED
          BY <3>1, <4>1 DEF TxStates
    <3>4. Post(audit[t], f.id, f.wh) \in Ledgers
        BY <3>1, PostType DEF TypeOK
    <3>5. /\ row' = [row EXCEPT ![t] = r]
          /\ audit' = [audit EXCEPT ![t] = Post(audit[t], f.id, f.wh)]
          /\ mem' = [mem EXCEPT ![t] = IF f.final THEN NoState ELSE st]
          /\ flush' = [flush EXCEPT ![t] = NoFlush]
        BY <2>4 DEF FlushPersist
    <3> HIDE DEF r, st
    <3>6. /\ row' \in [Tx -> Rows] /\ audit' \in [Tx -> Ledgers]
          /\ mem' \in [Tx -> TxStates] /\ flush' \in [Tx -> Flushes]
        BY <1>1, <3>2, <3>3, <3>4, <3>5 DEF TypeOK
    <3> QED
        BY <2>4, <3>6 DEF FlushPersist, TypeOK, worldVars
  <2> QED
    BY <1>11, <2>1, <2>2, <2>3, <2>4 DEF FlushStep
<1>12. ASSUME NEW t \in Tx, FlushFault(t) PROVE TypeOK'
  <2>1. \A k : Fault(k) => faults' \in Nat
    BY DEF Fault, TypeOK
  <2>2. CASE FlushResolveThrows(t)
    BY <1>10, <2>1, <2>2 DEF FlushResolveThrows
  <2>3. CASE FlushLookupFails(t)
    BY <1>10, <2>1, <2>3 DEF FlushLookupFails
  <2>4. CASE FlushSendFails(t)
    BY <1>1, <2>1, <2>4 DEF FlushSendFails, TypeOK, worldVars, dbVars
  <2>5. CASE FlushSendLost(t)
    <3>1. Post(lago[t], flush[t].id, flush[t].wh) \in Ledgers /\ flush[t].wh \in Nat
        BY PostType DEF TypeOK, Flushes
    <3> QED
        BY <1>1, <2>1, <2>5, <3>1 DEF FlushSendLost, TypeOK, worldVars, dbVars
  <2>6. CASE FlushPersistFails(t)
    BY <1>1, <2>1, <2>6 DEF FlushPersistFails, TypeOK, worldVars, dbVars, Flushes
  <2> QED
    BY <1>12, <2>2, <2>3, <2>4, <2>5, <2>6 DEF FlushFault
<1>13. CASE RestartWeb
    BY <1>1, <1>13 DEF RestartWeb, Fault, TypeOK, worldVars, dbVars
<1>14. CASE SyncBegin
    BY <1>1, <1>14
    DEF SyncBegin, TypeOK, worldVars, emitterVars, dbVars, NoSweep, Sweeps, SyncPcs
<1>15. ASSUME NEW outage \in SUBSET Tx, SyncPlan(outage) PROVE TypeOK'
  <2> DEFINE work == {t \in sync.fetched : Unsettled(t)}
             left(t) == meter[t] - row[t].total
             covered == {t \in work : left(t) <= Tolerance}
             send == {t \in work \ covered : UsageBilled(Kind[t])} \ outage
             delta == [t \in Tx |-> IF t \in work \ covered THEN left(t) ELSE 0]
  <2>1. work \in SUBSET Tx /\ send \in SUBSET Tx
    BY DEF TypeOK, Sweeps
  <2>2. delta \in [Tx -> Nat]
    <3> SUFFICES ASSUME NEW t \in Tx, t \in work \ covered PROVE left(t) \in Nat
        OBVIOUS
    <3>1. left(t) \in Int
        BY DEF TypeOK, Rows
    <3>2. ~(left(t) <= Tolerance)
        OBVIOUS
    <3> QED
        BY <3>1, <3>2
  <2>3. [t \in Tx |-> row[t].total + delta[t]] \in [Tx -> Nat]
    BY <2>2 DEF TypeOK, Rows
  <2>4. sync' \in Sweeps
    <3>1. sync' = [sync EXCEPT
                      !.pc = IF send = {} THEN "skipping" ELSE "sending",
                      !.send = send, !.skip = work \ send,
                      !.delta = delta,
                      !.total = [t \in Tx |-> row[t].total + delta[t]]]
        BY <1>15 DEF SyncPlan
    <3> QED
        BY <2>1, <2>2, <2>3, <3>1 DEF TypeOK, Sweeps, SyncPcs
  <2>5. faults' \in Nat
    BY <1>15 DEF SyncPlan, Fault, TypeOK
  <2> QED
    BY <1>15, <2>4, <2>5 DEF SyncPlan, TypeOK, worldVars, emitterVars, dbVars
<1>16. ASSUME NEW b \in SUBSET Tx, PostFinals(b) PROVE lago' \in [Tx -> Ledgers]
    BY <1>16, PostType DEF PostFinals, TypeOK, Sweeps
<1>17. ASSUME NEW b \in SUBSET Tx, SyncSendBatch(b) PROVE TypeOK'
    BY <1>16, <1>17
    DEF SyncSendBatch, TypeOK, worldVars, emitterVars, dbVars, Sweeps
<1>18. ASSUME NEW b \in SUBSET Tx, SyncBatchFails(b) PROVE TypeOK'
    BY <1>16, <1>18
    DEF SyncBatchFails, Fault, TypeOK, worldVars, emitterVars, dbVars, Sweeps
<1>19. ASSUME NEW t \in Tx PROVE SweptRow(t) \in Rows
    BY DEF SweptRow, Rows, TypeOK, Sweeps
<1>20. CASE SyncPersist
  <2>1. ASSUME NEW t \in Tx PROVE Post(audit[t], FINAL, sync.delta[t]) \in Ledgers
    BY PostType DEF TypeOK, Sweeps
  <2>2. row' \in [Tx -> Rows] /\ audit' \in [Tx -> Ledgers]
    BY <1>19, <1>20, <2>1 DEF SyncPersist, TypeOK
  <2>3. sync.ok \cup sync.skip \in SUBSET Tx
    BY DEF TypeOK, Sweeps
  <2>4. sync' \in Sweeps
    BY <1>1, <1>20, <2>3 DEF SyncPersist, Sweeps, SyncPcs
  <2> QED
    BY <1>20, <2>2, <2>4 DEF SyncPersist, TypeOK, worldVars, emitterVars
<1>21. CASE SyncConflict \/ SyncDone
    BY <1>1, <1>21
    DEF SyncConflict, SyncDone, TypeOK, worldVars, emitterVars, dbVars
<1>22. CASE SyncSkippedSaved
    BY <1>22
    DEF SyncSkippedSaved, TypeOK, worldVars, emitterVars, dbVars, Sweeps, SyncPcs
<1>23. ASSUME NEW t \in Tx, SyncSaveSkipped(t) PROVE TypeOK'
    BY <1>19, <1>23
    DEF SyncSaveSkipped, TypeOK, worldVars, emitterVars, Sweeps
<1>24. ASSUME NEW t \in Tx, SyncNotify(t) PROVE TypeOK'
    BY <1>24 DEF SyncNotify, TypeOK, worldVars, emitterVars, Sweeps
<1>25. CASE SyncAborts
    BY <1>1, <1>25 DEF SyncAborts, Fault, TypeOK, worldVars, emitterVars, dbVars
<1>26. CASE UNCHANGED vars
    BY <1>26 DEF vars, TypeOK
<1> QED
  BY <1>3, <1>4, <1>5, <1>6, <1>7, <1>8, <1>9, <1>11, <1>12, <1>13, <1>14, <1>15,
     <1>17, <1>18, <1>20, <1>21, <1>22, <1>23, <1>24, <1>25, <1>26
  DEF Next, Environment, Enqueue, SyncStep, SyncFault

\* Every variable keeps its type.  It holds of the code because a sample that
\* goes back bills nothing and a sweep bills only what is left over.
THEOREM TypeCorrect == Spec => []TypeOK
BY InitType, NextType, PTL DEF Spec

---------------------------------------------------------------------------
(* An audit record is written only for an event that Lago has.             *)

\* A flush that is about to record has had its event accepted.
FlushRecordsSent ==
    \A t \in Tx : flush[t].pc = "persist" => flush[t].id \in lago[t].ids

\* So has the sweep for every session of a batch it counts as sent.
SweepRecordsSent ==
    \A t \in sync.ok : FINAL \in lago[t].ids

SentInv ==
    /\ TypeOK
    /\ AuditedEventsWereSent
    /\ FlushRecordsSent
    /\ SweepRecordsSent

\* Lago forgets nothing: a step adds ids to a ledger, never removes one.
LEMMA PostFinalsIds ==
    ASSUME TypeOK, NEW b \in SUBSET Tx, PostFinals(b)
    PROVE  \A t \in Tx :
              lago'[t].ids = IF t \in b THEN lago[t].ids \cup {FINAL}
                                        ELSE lago[t].ids
<1> SUFFICES ASSUME NEW t \in Tx, t \in b
             PROVE  Post(lago[t], FINAL, sync.delta[t]).ids = lago[t].ids \cup {FINAL}
    BY DEF PostFinals
<1> QED
    BY PostIds DEF TypeOK, Sweeps

LEMMA NextSent == SentInv /\ [Next]_vars => SentInv'
<1> SUFFICES ASSUME SentInv, [Next]_vars PROVE SentInv'
    OBVIOUS
<1> USE DEF SentInv
<1>1. TypeOK'
    BY NextType
<1> DEFINE Sent == /\ AuditedEventsWereSent
                   /\ FlushRecordsSent
                   /\ SweepRecordsSent
<1> SUFFICES Sent'
    BY <1>1
\* Steps that post nothing, record nothing, and put no flush at "persist".
<1>2. ASSUME UNCHANGED << lago, audit >>, sync'.ok \subseteq sync.ok,
             \A t \in Tx : flush'[t].pc = "persist" => flush'[t] = flush[t]
      PROVE  Sent'
    BY <1>2 DEF AuditedEventsWereSent, FlushRecordsSent, SweepRecordsSent
<1>3. CASE Tick \/ \E t \in Tx : Environment(t) \/ Evict(t)
    BY <1>2, <1>3
    DEF Tick, Environment, Charge, Stop, Evict, emitterVars, dbVars
<1>4. ASSUME NEW t \in Tx, NEW pending, NEW final,
             StartFlush(t, pending, final) \/ UNCHANGED flush
      PROVE  \A u \in Tx : flush'[u].pc = "persist" => flush'[u] = flush[u]
  <2> DEFINE begun == [NoFlush EXCEPT !.pc = "resolve", !.final = final]
  <2>1. CASE flush' = [flush EXCEPT ![t] = begun]
    <3>1. begun.pc = "resolve"
      BY DEF NoFlush
    <3> HIDE DEF begun
    <3>2. flush'[t] = begun /\ \A u \in Tx : u # t => flush'[u] = flush[u]
      BY <2>1 DEF TypeOK
    <3> QED
      BY <3>1, <3>2
  <2> QED
    BY <1>4, <2>1 DEF StartFlush
<1>5. CASE \E t \in Tx : Enqueue(t) \/ SweepFlush(t)
  <2>1. ASSUME NEW t \in Tx, NEW wh, NEW final, EnqueueFirst(t, wh, final)
        PROVE  Sent'
    BY <1>2, <2>1 DEF EnqueueFirst, dbVars
  <2>2. ASSUME NEW t \in Tx, NEW wh, NEW final, EnqueueNext(t, wh, final)
        PROVE  Sent'
    <3>1. /\ \E pending : StartFlush(t, pending, final) \/ UNCHANGED flush
          /\ UNCHANGED << lago, audit, sync >>
        BY <2>2 DEF EnqueueNext, dbVars
    <3> QED
        BY <1>2, <1>4, <3>1
  <2>3. ASSUME NEW t \in Tx, SweepFlush(t) PROVE Sent'
    <3>1. /\ \E pending : StartFlush(t, pending, FALSE)
          /\ UNCHANGED << lago, audit, sync >>
        BY <2>3 DEF SweepFlush, dbVars
    <3> QED
        BY <1>2, <1>4, <3>1
  <2> QED
    BY <1>5, <2>1, <2>2, <2>3 DEF Enqueue
<1>6. ASSUME NEW t \in Tx, NEW resolved, NEW sub, NEW billable,
             Resolved(t, resolved, sub, billable)
      PROVE  Sent'
    BY <1>2, <1>6 DEF Resolved, NoFlush, TypeOK, dbVars
<1>7. ASSUME NEW t \in Tx, FlushStep(t) PROVE Sent'
  <2>1. CASE FlushResolveCached(t) \/ FlushResolve(t)
    BY <1>6, <2>1 DEF FlushResolveCached, FlushResolve
  <2>2. CASE FlushSend(t)
    <3>1. Post(lago[t], flush[t].id, flush[t].wh).ids = lago[t].ids \cup {flush[t].id}
        BY PostIds DEF TypeOK, Flushes
    <3> QED
        BY <2>2, <3>1
        DEF FlushSend, TypeOK, dbVars, AuditedEventsWereSent, FlushRecordsSent,
            SweepRecordsSent, Sweeps
  <2>3. CASE FlushPersist(t)
    <3>1. Post(audit[t], flush[t].id, flush[t].wh).ids
             = audit[t].ids \cup {flush[t].id}
        BY PostIds DEF TypeOK, Flushes
    <3>2. /\ audit' = [audit EXCEPT ![t] = Post(audit[t], flush[t].id, flush[t].wh)]
          /\ flush' = [flush EXCEPT ![t] = NoFlush]
          /\ flush[t].pc = "persist"
          /\ UNCHANGED << lago, sync >>
        BY <2>3 DEF FlushPersist
    <3> QED
        BY <3>1, <3>2
        DEF TypeOK, NoFlush, AuditedEventsWereSent, FlushRecordsSent, SweepRecordsSent
  <2> QED
    BY <1>7, <2>1, <2>2, <2>3 DEF FlushStep
<1>8. ASSUME NEW t \in Tx, FlushFault(t) PROVE Sent'
  <2>1. CASE FlushResolveThrows(t) \/ FlushLookupFails(t)
    BY <1>6, <2>1 DEF FlushResolveThrows, FlushLookupFails
  <2>2. CASE FlushSendFails(t) \/ FlushPersistFails(t)
    BY <1>2, <2>2 DEF FlushSendFails, FlushPersistFails, NoFlush, TypeOK, dbVars
  <2>3. CASE FlushSendLost(t)
    <3>1. Post(lago[t], flush[t].id, flush[t].wh).ids = lago[t].ids \cup {flush[t].id}
        BY PostIds DEF TypeOK, Flushes
    <3> QED
        BY <2>3, <3>1
        DEF FlushSendLost, NoFlush, TypeOK, dbVars, AuditedEventsWereSent,
            FlushRecordsSent, SweepRecordsSent, Sweeps
  <2> QED
    BY <1>8, <2>1, <2>2, <2>3 DEF FlushFault
<1>9. CASE RestartWeb
    BY <1>2, <1>9 DEF RestartWeb, NoFlush, dbVars
<1>10. ASSUME NEW b \in SUBSET Tx, PostFinals(b),
              sync'.ok \subseteq sync.ok \cup b, UNCHANGED << audit, flush >>
       PROVE  Sent'
  <2>1. /\ \A t \in Tx : lago[t].ids \subseteq lago'[t].ids
        /\ \A t \in b : FINAL \in lago'[t].ids
    <3>1. \A t \in Tx :
             lago'[t].ids = IF t \in b THEN lago[t].ids \cup {FINAL} ELSE lago[t].ids
      BY <1>10, PostFinalsIds DEF SentInv
    <3> QED
      BY <3>1
  <2>2. sync.ok \subseteq Tx
    BY DEF TypeOK, Sweeps
  <2>3. AuditedEventsWereSent' /\ FlushRecordsSent'
    BY <1>10, <2>1 DEF AuditedEventsWereSent, FlushRecordsSent
  <2>4. SweepRecordsSent'
    BY <1>10, <2>1, <2>2 DEF SweepRecordsSent
  <2> QED
    BY <2>3, <2>4
<1>11. CASE SyncStep
  <2>1. CASE SyncBegin \/ SyncConflict \/ SyncSkippedSaved \/ SyncDone
    <3>1. CASE SyncBegin
        BY <1>2, <3>1 DEF SyncBegin, NoSweep, emitterVars, dbVars
    <3>2. CASE SyncConflict \/ SyncDone
        BY <1>2, <3>2 DEF SyncConflict, SyncDone, NoSweep, emitterVars, dbVars
    <3>3. CASE SyncSkippedSaved
        BY <1>2, <3>3 DEF SyncSkippedSaved, TypeOK, Sweeps, emitterVars, dbVars
    <3> QED
        BY <2>1, <3>1, <3>2, <3>3
  <2>2. CASE SyncPlan({})
    BY <1>2, <2>2 DEF SyncPlan, TypeOK, Sweeps, emitterVars, dbVars
  <2>3. ASSUME NEW b \in SUBSET Tx, SyncSendBatch(b) PROVE Sent'
    BY <1>10, <2>3 DEF SyncSendBatch, TypeOK, Sweeps, emitterVars, dbVars
  <2>4. CASE SyncPersist
    <3>1. ASSUME NEW t \in Tx
          PROVE  Post(audit[t], FINAL, sync.delta[t]).ids = audit[t].ids \cup {FINAL}
        BY PostIds DEF TypeOK, Sweeps
    <3> QED
        BY <2>4, <3>1
        DEF SyncPersist, NoSweep, AuditedEventsWereSent, FlushRecordsSent,
            SweepRecordsSent, emitterVars
  <2>5. ASSUME NEW t \in Tx, SyncSaveSkipped(t) \/ SyncNotify(t) PROVE Sent'
    BY <1>2, <2>5
    DEF SyncSaveSkipped, SyncNotify, TypeOK, Sweeps, emitterVars
  <2> QED
    BY <1>11, <2>1, <2>2, <2>3, <2>4, <2>5 DEF SyncStep
<1>12. CASE SyncFault
  <2>1. ASSUME NEW outage \in SUBSET Tx, SyncPlan(outage) PROVE Sent'
    BY <1>2, <2>1 DEF SyncPlan, TypeOK, Sweeps, emitterVars, dbVars
  <2>2. ASSUME NEW b \in SUBSET Tx, SyncBatchFails(b) PROVE Sent'
    <3>1. /\ UNCHANGED lago \/ PostFinals(b)
          /\ sync'.ok = sync.ok
          /\ UNCHANGED << audit, flush >>
        BY <2>2 DEF SyncBatchFails, TypeOK, Sweeps, emitterVars, dbVars
    <3> QED
        BY <1>2, <1>10, <3>1
  <2>3. CASE SyncAborts
    BY <1>2, <2>3 DEF SyncAborts, NoSweep, emitterVars, dbVars
  <2> QED
    BY <1>12, <2>1, <2>2, <2>3 DEF SyncFault
<1>13. CASE UNCHANGED vars
    BY <1>2, <1>13 DEF vars
<1> QED
    BY <1>3, <1>5, <1>7, <1>8, <1>9, <1>11, <1>12, <1>13 DEF Next

\* No audit record without an accepted event, through every failure of the
\* send, of the commit, and of either process: flush() and runSync write
\* synced_transaction_events only after createBatchEvents has returned.
THEOREM AuditedAreSent == Spec => []AuditedEventsWereSent
<1>1. Init => SentInv
    BY InitType
    DEF Init, SentInv, AuditedEventsWereSent, FlushRecordsSent, SweepRecordsSent,
        NoFlush, EmptyLedger, NoSweep
<1>2. SentInv => AuditedEventsWereSent
    BY DEF SentInv
<1> QED
    BY <1>1, <1>2, NextSent, PTL DEF Spec

---------------------------------------------------------------------------
(* Every Wh the emitter has billed or may still bill was read from the     *)
(* charger, once, up to the exposure.                                      *)

\* What a session's buffer will still add to Lago.  The flush in flight
\* between POST and INSERT has already added its share.
Unsent(t) ==
    IF flush[t].pc = "persist" THEN mem[t].pending - flush[t].wh
                               ELSE mem[t].pending

\* A flush belongs to a buffered session and carries no more than is pending.
FlushFromBuffer ==
    \A t \in Tx : IF flush[t].pc = "none"
                  THEN flush[t].wh = 0
                  ELSE mem[t].tracked /\ flush[t].wh <= mem[t].pending

\* Stated from the last sample while the session is buffered, because that is
\* what the next delta is measured from, and from the highest one after that.
BilledOnce ==
    \A t \in Tx :
        IF mem[t].tracked
        THEN /\ mem[t].last <= seen[t]
             /\ lago[t].inc + Unsent(t) <= mem[t].last + exposure[t]
        ELSE lago[t].inc <= seen[t] + exposure[t]

BillingInv ==
    /\ TypeOK
    /\ FlushFromBuffer
    /\ BilledOnce

\* A true-up of the sweep leaves the incremental usage alone.
LEMMA PostFinalsInc ==
    ASSUME TypeOK, NEW b \in SUBSET Tx, PostFinals(b)
    PROVE  \A t \in Tx : lago'[t].inc = lago[t].inc
<1> SUFFICES ASSUME NEW t \in Tx, t \in b
             PROVE  Post(lago[t], FINAL, sync.delta[t]).inc = lago[t].inc
    BY DEF PostFinals
<1> QED
    BY DEF Post, TypeOK, Ledgers

\* The part of the invariant that is about one session.
BilledOnceOf(t) ==
    /\ IF flush[t].pc = "none"
       THEN flush[t].wh = 0
       ELSE mem[t].tracked /\ flush[t].wh <= mem[t].pending
    /\ IF mem[t].tracked
       THEN /\ mem[t].last <= seen[t]
            /\ lago[t].inc + Unsent(t) <= mem[t].last + exposure[t]
       ELSE lago[t].inc <= seen[t] + exposure[t]

LEMMA SessionTypes ==
    ASSUME TypeOK, NEW t \in Tx
    PROVE  /\ mem[t].last \in Nat /\ mem[t].pending \in Nat
           /\ flush[t].wh \in Nat /\ flush[t].id \in EventIds
           /\ seen[t] \in Nat /\ exposure[t] \in Nat
           /\ lago[t].inc \in Nat /\ lago[t] \in Ledgers
BY DEF TypeOK, TxStates, Flushes, Ledgers

LEMMA NextBilled == BillingInv /\ [Next]_vars => BillingInv'
<1> SUFFICES ASSUME BillingInv, [Next]_vars PROVE BillingInv'
    OBVIOUS
<1>1. TypeOK /\ TypeOK'
    BY NextType DEF BillingInv
<1>2. \A t \in Tx : BilledOnceOf(t)
    BY DEF BilledOnceOf, BillingInv, FlushFromBuffer, BilledOnce
<1> SUFFICES \A t \in Tx : BilledOnceOf(t)'
    BY <1>1 DEF BilledOnceOf, BillingInv, FlushFromBuffer, BilledOnce
\* Steps that leave the buffers and the incremental usage alone.
<1>3. ASSUME UNCHANGED << mem, flush, seen, exposure >>,
             \A t \in Tx : lago'[t].inc = lago[t].inc
      PROVE  \A t \in Tx : BilledOnceOf(t)'
    BY <1>2, <1>3 DEF BilledOnceOf, Unsent
<1>4. CASE Tick \/ \E t \in Tx : Environment(t)
    BY <1>3, <1>4 DEF Tick, Environment, Charge, Stop, emitterVars
<1>5. CASE SyncStep
  <2>1. ASSUME NEW b \in SUBSET Tx, SyncSendBatch(b)
        PROVE  \A t \in Tx : BilledOnceOf(t)'
    BY <1>1, <1>3, <2>1, PostFinalsInc DEF SyncSendBatch, worldVars, emitterVars
  <2>2. CASE \/ SyncBegin \/ SyncPlan({}) \/ SyncPersist \/ SyncConflict
             \/ \E t \in Tx : SyncSaveSkipped(t) \/ SyncNotify(t)
             \/ SyncSkippedSaved \/ SyncDone
    <3>1. UNCHANGED << mem, flush, seen, exposure, lago >>
        BY <2>2
        DEF SyncBegin, SyncPlan, SyncPersist, SyncConflict, SyncSaveSkipped,
            SyncNotify, SyncSkippedSaved, SyncDone, worldVars, emitterVars
    <3> QED
        BY <1>3, <3>1
  <2> QED
    BY <1>5, <2>1, <2>2 DEF SyncStep
<1>6. CASE SyncFault
  <2>1. ASSUME NEW b \in SUBSET Tx, SyncBatchFails(b)
        PROVE  \A t \in Tx : BilledOnceOf(t)'
    BY <1>1, <1>3, <2>1, PostFinalsInc DEF SyncBatchFails, worldVars, emitterVars
  <2>2. CASE SyncAborts \/ \E outage \in SUBSET Tx : SyncPlan(outage)
    BY <1>3, <2>2 DEF SyncAborts, SyncPlan, worldVars, emitterVars
  <2> QED
    BY <1>6, <2>1, <2>2 DEF SyncFault
\* The other steps are those of one session's buffer and flush.
<1>7. ASSUME NEW t \in Tx, BilledOnceOf(t)',
             \A u \in Tx \ {t} : /\ mem'[u] = mem[u] /\ flush'[u] = flush[u]
                                 /\ seen'[u] = seen[u] /\ lago'[u] = lago[u]
                                 /\ exposure'[u] = exposure[u]
      PROVE  \A u \in Tx : BilledOnceOf(u)'
    BY <1>2, <1>7 DEF BilledOnceOf, Unsent
<1>8. ASSUME NEW t \in Tx, NEW wh \in 0 .. MaxMeter, NEW final \in BOOLEAN,
             EnqueueFirst(t, wh, final)
      PROVE  \A u \in Tx : BilledOnceOf(u)'
  <2>1. /\ mem' = [mem EXCEPT ![t] = [NoState EXCEPT !.tracked = TRUE,
                                                     !.start = wh, !.last = wh]]
        /\ seen' = [seen EXCEPT ![t] = Higher(seen[t], wh)]
        /\ exposure' = [exposure EXCEPT
                          ![t] = exposure[t] + (Higher(seen[t], wh) - wh)]
        /\ UNCHANGED << flush, lago >>
        /\ ~mem[t].tracked
    BY <1>8 DEF EnqueueFirst, dbVars
  <2>2. flush[t].pc = "none" /\ flush[t].wh = 0
        /\ lago[t].inc <= seen[t] + exposure[t]
    BY <1>2, <2>1 DEF BilledOnceOf
  <2>3. /\ mem'[t].tracked /\ mem'[t].last = wh /\ mem'[t].pending = 0
        /\ seen'[t] = Higher(seen[t], wh)
        /\ exposure'[t] = exposure[t] + (Higher(seen[t], wh) - wh)
    BY <1>1, <2>1 DEF NoState, TypeOK
  <2>4. /\ Higher(seen[t], wh) \in Nat /\ Higher(seen[t], wh) - wh \in Nat
        /\ Higher(seen[t], wh) - seen[t] \in Nat
    <3>1. wh \in Nat /\ seen[t] \in Nat
        BY <1>1, SessionTypes
    <3> QED
        BY <3>1, HigherFacts
  <2>5. BilledOnceOf(t)'
    BY <1>1, SessionTypes, <2>1, <2>2, <2>3, <2>4 DEF BilledOnceOf, Unsent
  <2> QED
    BY <1>1, <1>7, <2>1, <2>5 DEF TypeOK
\* Starting a flush sends nothing yet.
<1>9. ASSUME NEW t \in Tx, NEW pending \in Nat, NEW final \in BOOLEAN,
             StartFlush(t, pending, final) \/ UNCHANGED flush
      PROVE  /\ flush'[t].wh = flush[t].wh \/ flush'[t].wh = 0
             /\ flush[t].pc # "none" => flush'[t] = flush[t]
             /\ flush'[t].pc = "none" => flush[t].pc = "none" /\ flush'[t] = flush[t]
             /\ flush[t].pc = "none" => flush'[t].wh = 0 /\ flush'[t].pc # "persist"
             /\ \A u \in Tx \ {t} : flush'[u] = flush[u]
  <2>1. flush[t].pc = "none" => flush[t].wh = 0
    BY <1>2 DEF BilledOnceOf
  <2>2. CASE UNCHANGED flush
    BY <2>1, <2>2
  <2>3. CASE flush[t].pc = "none"
              /\ flush' = [flush EXCEPT ![t] = [NoFlush EXCEPT !.pc = "resolve",
                                                             !.final = final]]
    <3>1. /\ flush'[t] = [NoFlush EXCEPT !.pc = "resolve", !.final = final]
          /\ \A u \in Tx \ {t} : flush'[u] = flush[u]
        BY <1>1, <2>3 DEF TypeOK
    <3>2. flush'[t].pc = "resolve" /\ flush'[t].wh = 0
        BY <3>1 DEF NoFlush
    <3> QED
        BY <2>1, <2>3, <3>1, <3>2
  <2> QED
    BY <1>9, <2>2, <2>3 DEF StartFlush
<1>10. ASSUME NEW t \in Tx, NEW wh \in 0 .. MaxMeter, NEW final \in BOOLEAN,
              EnqueueNext(t, wh, final)
       PROVE  \A u \in Tx : BilledOnceOf(u)'
  <2> DEFINE last == mem[t].last
             pending == mem[t].pending + (Higher(last, wh) - last)
  <2>1. /\ mem' = [mem EXCEPT ![t].last = wh, ![t].pending = pending]
        /\ seen' = [seen EXCEPT ![t] = Higher(seen[t], wh)]
        /\ exposure' = [exposure EXCEPT ![t] = exposure[t] + (Higher(last, wh) - wh)]
        /\ StartFlush(t, pending, final) \/ UNCHANGED flush
        /\ UNCHANGED lago /\ mem[t].tracked
    BY <1>10 DEF EnqueueNext
  <2>2. /\ Higher(seen[t], wh) \in Nat /\ Higher(seen[t], wh) - wh \in Nat
        /\ Higher(last, wh) - wh \in Nat /\ Higher(last, wh) - last \in Nat
        /\ Higher(last, wh) \in Nat
    <3>1. wh \in Nat /\ seen[t] \in Nat /\ last \in Nat
        BY <1>1, SessionTypes
    <3> QED
        BY <3>1, HigherFacts
  <2>3. pending \in Nat
    BY <1>1, <2>2, SessionTypes
  <2>4. /\ mem'[t].tracked /\ mem'[t].last = wh /\ mem'[t].pending = pending
        /\ seen'[t] = Higher(seen[t], wh)
        /\ exposure'[t] = exposure[t] + (Higher(last, wh) - wh)
    BY <1>1, <2>1 DEF TypeOK, TxStates
  <2>5. /\ flush[t].pc # "none" => flush'[t] = flush[t]
        /\ flush'[t].pc = "none" => flush'[t] = flush[t]
        /\ flush[t].pc = "none" => flush'[t].wh = 0 /\ flush'[t].pc # "persist"
        /\ \A u \in Tx \ {t} : flush'[u] = flush[u]
    BY <1>9, <2>1, <2>3
  <2>6. /\ lago[t].inc + Unsent(t) <= last + exposure[t]
        /\ flush[t].pc # "none" => flush[t].wh <= mem[t].pending
        /\ flush[t].pc = "none" => flush[t].wh = 0
    BY <1>2, <2>1 DEF BilledOnceOf
  <2>7. Unsent(t)' = Unsent(t) + (Higher(last, wh) - last)
    BY <1>1, <2>2, <2>4, <2>5, SessionTypes DEF Unsent
  <2>8. Unsent(t) \in Int
    BY <1>1, SessionTypes DEF Unsent
  <2>9. wh <= seen'[t] /\ lago'[t].inc = lago[t].inc
    BY <2>1, <2>2, <2>4
  <2>10. lago'[t].inc + Unsent(t)' <= wh + exposure'[t]
    BY <1>1, <2>2, <2>4, <2>6, <2>7, <2>8, <2>9, SessionTypes
  <2>11. IF flush'[t].pc = "none"
         THEN flush'[t].wh = 0
         ELSE mem'[t].tracked /\ flush'[t].wh <= mem'[t].pending
    BY <1>1, <2>2, <2>3, <2>4, <2>5, <2>6, SessionTypes
  <2>12. BilledOnceOf(t)'
    BY <2>4, <2>9, <2>10, <2>11 DEF BilledOnceOf
  <2> QED
    BY <1>1, <1>7, <2>1, <2>5, <2>12 DEF TypeOK
<1>11. ASSUME NEW t \in Tx, SweepFlush(t) PROVE \A u \in Tx : BilledOnceOf(u)'
  <2>1. /\ StartFlush(t, mem[t].pending, FALSE) /\ mem[t].tracked
        /\ flush[t].pc = "none"
        /\ UNCHANGED << mem, seen, exposure, lago >>
    BY <1>11 DEF SweepFlush, worldVars
  <2>2. /\ flush'[t].wh = 0 /\ flush'[t].pc # "persist"
        /\ \A u \in Tx \ {t} : flush'[u] = flush[u]
    BY <1>1, <1>9, <2>1, SessionTypes
  <2>3. BilledOnceOf(t)'
    BY <1>1, <1>2, <2>1, <2>2, SessionTypes DEF BilledOnceOf, Unsent
  <2> QED
    BY <1>7, <2>1, <2>2, <2>3
<1>12. ASSUME NEW t \in Tx, Evict(t) PROVE \A u \in Tx : BilledOnceOf(u)'
  <2>1. /\ mem' = [mem EXCEPT ![t] = NoState] /\ flush[t].pc = "none"
        /\ mem[t].tracked
        /\ UNCHANGED << flush, seen, exposure, lago >>
    BY <1>12 DEF Evict, worldVars
  <2>2. ~mem'[t].tracked
    BY <1>1, <2>1 DEF NoState, TypeOK
  <2>3. BilledOnceOf(t)'
    BY <1>1, <1>2, <2>1, <2>2, SessionTypes DEF BilledOnceOf, Unsent
  <2> QED
    BY <1>1, <1>7, <2>1, <2>3 DEF TypeOK
<1>13. ASSUME NEW t \in Tx, NEW resolved \in BOOLEAN, NEW sub \in BOOLEAN,
              NEW billable \in BOOLEAN, Resolved(t, resolved, sub, billable)
       PROVE  \A u \in Tx : BilledOnceOf(u)'
  <2>1. /\ flush[t].pc = "resolve"
        /\ mem' = [mem EXCEPT ![t].resolved = resolved, ![t].sub = sub,
                              ![t].pending = IF billable THEN mem[t].pending ELSE 0]
        /\ flush' = [flush EXCEPT ![t] =
                        IF billable
                        THEN [flush[t] EXCEPT !.pc = "send", !.id = now,
                                              !.wh = mem[t].pending]
                        ELSE NoFlush]
        /\ UNCHANGED << seen, exposure, lago >>
    BY <1>13 DEF Resolved, worldVars
  <2>2. /\ mem'[t].tracked = mem[t].tracked /\ mem'[t].last = mem[t].last
        /\ mem'[t].pending = IF billable THEN mem[t].pending ELSE 0
    BY <1>1, <2>1 DEF TypeOK, TxStates
  <2>3. /\ flush'[t].pc = IF billable THEN "send" ELSE "none"
        /\ flush'[t].wh = IF billable THEN mem[t].pending ELSE 0
    BY <1>1, <2>1 DEF TypeOK, Flushes, NoFlush
  <2>4. BilledOnceOf(t)'
    BY <1>1, <1>2, <2>1, <2>2, <2>3, SessionTypes DEF BilledOnceOf, Unsent
  <2> QED
    BY <1>1, <1>7, <2>1, <2>4 DEF TypeOK
\* A flush that has posted its event: what Lago got is no longer unsent.
<1>14. ASSUME NEW t \in Tx, FlushSend(t) PROVE \A u \in Tx : BilledOnceOf(u)'
  <2>1. /\ flush[t].pc = "send"
        /\ lago' = [lago EXCEPT ![t] = Post(lago[t], flush[t].id, flush[t].wh)]
        /\ flush' = [flush EXCEPT ![t].pc = "persist"]
        /\ UNCHANGED << mem, seen, exposure >>
    BY <1>14 DEF FlushSend, worldVars
  <2>2. /\ flush'[t].pc = "persist" /\ flush'[t].wh = flush[t].wh
    BY <1>1, <2>1 DEF TypeOK, Flushes
  <2>3. lago'[t].inc <= lago[t].inc + flush[t].wh /\ lago'[t].inc \in Nat
    BY <1>1, <2>1, SessionTypes, PostInc DEF TypeOK, Ledgers
  <2>4. BilledOnceOf(t)'
    BY <1>1, <1>2, <2>1, <2>2, <2>3, SessionTypes DEF BilledOnceOf, Unsent
  <2> QED
    BY <1>1, <1>7, <2>1, <2>4 DEF TypeOK
<1>15. ASSUME NEW t \in Tx, FlushPersist(t) PROVE \A u \in Tx : BilledOnceOf(u)'
  <2> DEFINE f == flush[t]
             st == [mem[t] EXCEPT !.total = mem[t].total + f.wh, !.pending = 0,
                                  !.flushedAt = f.id]
  <2>1. /\ f.pc = "persist"
        /\ mem' = [mem EXCEPT ![t] = IF f.final THEN NoState ELSE st]
        /\ flush' = [flush EXCEPT ![t] = NoFlush]
        /\ UNCHANGED << seen, exposure, lago >>
    BY <1>15 DEF FlushPersist, worldVars
  <2>2. flush'[t].pc = "none" /\ flush'[t].wh = 0
    BY <1>1, <2>1 DEF TypeOK, NoFlush
  <2>3. IF f.final THEN ~mem'[t].tracked
        ELSE /\ mem'[t].tracked = mem[t].tracked /\ mem'[t].last = mem[t].last
             /\ mem'[t].pending = 0
    BY <1>1, <2>1 DEF TypeOK, TxStates, NoState
  <2>4. BilledOnceOf(t)'
    BY <1>1, <1>2, <2>1, <2>2, <2>3, SessionTypes DEF BilledOnceOf, Unsent
  <2> QED
    BY <1>1, <1>7, <2>1, <2>4 DEF TypeOK
<1>16. ASSUME NEW t \in Tx, FlushSendFails(t) PROVE \A u \in Tx : BilledOnceOf(u)'
  <2>1. /\ flush[t].pc = "send" /\ flush' = [flush EXCEPT ![t] = NoFlush]
        /\ UNCHANGED << mem, seen, exposure, lago >>
    BY <1>16 DEF FlushSendFails, worldVars
  <2>2. flush'[t].pc = "none" /\ flush'[t].wh = 0
    BY <1>1, <2>1 DEF TypeOK, NoFlush
  <2>3. BilledOnceOf(t)'
    BY <1>1, <1>2, <2>1, <2>2, SessionTypes DEF BilledOnceOf, Unsent
  <2> QED
    BY <1>1, <1>7, <2>1, <2>3 DEF TypeOK
<1>17. ASSUME NEW t \in Tx, FlushSendLost(t) \/ FlushPersistFails(t)
       PROVE  \A u \in Tx : BilledOnceOf(u)'
  <2>1. /\ flush' = [flush EXCEPT ![t] = NoFlush]
        /\ exposure' = [exposure EXCEPT ![t] = exposure[t] + flush[t].wh]
        /\ UNCHANGED << mem, seen >>
    BY <1>17 DEF FlushSendLost, FlushPersistFails, worldVars
  <2>2. \/ /\ flush[t].pc = "send"
           /\ lago' = [lago EXCEPT ![t] = Post(lago[t], flush[t].id, flush[t].wh)]
        \/ flush[t].pc = "persist" /\ UNCHANGED lago
    BY <1>17 DEF FlushSendLost, FlushPersistFails
  <2>3. /\ flush'[t].pc = "none" /\ flush'[t].wh = 0
        /\ exposure'[t] = exposure[t] + flush[t].wh
    BY <1>1, <2>1 DEF TypeOK, NoFlush
  <2>4. lago'[t].inc \in Nat
    BY <1>1 DEF TypeOK, Ledgers
  <2>5. CASE flush[t].pc = "send"
    <3>1. lago'[t].inc <= lago[t].inc + flush[t].wh
        BY <1>1, <2>2, <2>5, SessionTypes, PostInc DEF TypeOK
    <3>2. BilledOnceOf(t)'
        BY <1>1, <1>2, <2>1, <2>3, <2>4, <2>5, <3>1, SessionTypes
        DEF BilledOnceOf, Unsent
    <3> QED
        BY <1>1, <1>7, <2>1, <2>2, <3>2 DEF TypeOK
  <2>6. CASE flush[t].pc = "persist"
    <3>1. BilledOnceOf(t)'
        BY <1>1, <1>2, <2>1, <2>2, <2>3, <2>6, SessionTypes DEF BilledOnceOf, Unsent
    <3> QED
        BY <1>1, <1>7, <2>1, <2>2, <2>6, <3>1 DEF TypeOK
  <2> QED
    BY <2>2, <2>5, <2>6
<1>18. ASSUME NEW t \in Tx, FlushStep(t) \/ FlushFault(t)
       PROVE  \A u \in Tx : BilledOnceOf(u)'
  <2>1. CASE FlushResolveCached(t)
    <3>1. mem[t].sub \in BOOLEAN
        BY <1>1 DEF TypeOK, TxStates
    <3> QED
        BY <1>13, <2>1, <3>1 DEF FlushResolveCached
  <2>2. CASE FlushResolve(t)
    <3> DEFINE sub == Kind[t] \in {"explicit", "auto", "member"}
               billable == Kind[t] \in {"explicit", "auto"}
    <3>1. sub \in BOOLEAN /\ billable \in BOOLEAN
        OBVIOUS
    <3>2. Resolved(t, TRUE, sub, billable)
        BY <2>2 DEF FlushResolve
    <3> HIDE DEF sub, billable
    <3> QED
        BY <1>13, <3>1, <3>2
  <2>3. CASE FlushResolveThrows(t) \/ FlushLookupFails(t)
    BY <1>13, <2>3 DEF FlushResolveThrows, FlushLookupFails
  <2> QED
    BY <1>14, <1>15, <1>16, <1>17, <1>18, <2>1, <2>2, <2>3 DEF FlushStep, FlushFault
<1>19. CASE RestartWeb
  <2>1. /\ mem' = [t \in Tx |-> NoState] /\ flush' = [t \in Tx |-> NoFlush]
        /\ UNCHANGED << seen, exposure, lago >>
    BY <1>19 DEF RestartWeb, worldVars
  <2> SUFFICES ASSUME NEW t \in Tx PROVE BilledOnceOf(t)'
    OBVIOUS
  <2>2. ~mem'[t].tracked /\ flush'[t].pc = "none" /\ flush'[t].wh = 0
    BY <2>1 DEF NoState, NoFlush
  <2>3. lago[t].inc <= seen[t] + exposure[t]
    BY <1>1, <1>2, SessionTypes DEF BilledOnceOf, Unsent
  <2> QED
    BY <2>1, <2>2, <2>3 DEF BilledOnceOf
<1>20. CASE UNCHANGED vars
    BY <1>3, <1>20 DEF vars
<1> QED
    BY <1>4, <1>5, <1>6, <1>8, <1>10, <1>11, <1>12, <1>18, <1>19, <1>20
    DEF Next, Enqueue

\* Each Wh is billed incrementally at most once, up to the exposure, through
\* every interleaving of samples, flushes, retries, evictions and restarts.
THEOREM BilledAtMostOnce == Spec => []DoubleBillingBounded
<1>1. Init => BillingInv
    BY InitType
    DEF Init, BillingInv, FlushFromBuffer, BilledOnce, NoState, NoFlush, EmptyLedger
<1>2. BillingInv => DoubleBillingBounded
  <2> SUFFICES ASSUME BillingInv, NEW t \in Tx
               PROVE  lago[t].inc <= seen[t] + exposure[t]
    BY DEF DoubleBillingBounded
  <2> QED
    BY SessionTypes DEF BillingInv, FlushFromBuffer, BilledOnce, Unsent
<1> QED
    BY <1>1, <1>2, NextBilled, PTL DEF Spec

---------------------------------------------------------------------------
(* The sweep bills by itself, and correctly, when the emitter has nothing  *)
(* to say: StEvE posts no meter values, and no subscription lookup fails.  *)
(* For every set of sessions, every batch size and any number of rejected  *)
(* batches, lost answers, crashes and failed commits.                      *)

\* The deployments the theorems of this section are about.
SweepAlone == ~LiveMetering /\ "lookup" \notin Faults

---------------------------------------------------------------------------
(* The inductive invariant.                                                *)

EmitterIdle ==
    \A t \in Tx : /\ flush[t].pc = "none" /\ ~mem[t].tracked
                  /\ lago[t].inc = 0

\* A true-up is the whole session, and is sent only for one that has stopped
\* and is billed by usage.
TrueUpIsWhole ==
    \A t \in Tx :
        IF FINAL \in lago[t].ids
        THEN t \in stopped /\ Billable(t) /\ lago[t].trueUp = meter[t]
        ELSE lago[t].trueUp = 0

\* Nothing is left to bill of a session: Lago has its true-up, or it is
\* within the tolerance, or it is not billed by usage.
Settled(t) == FINAL \in lago[t].ids \/ meter[t] <= Tolerance \/ ~Billable(t)

\* A row is finalized only for a settled session; before that it has no total.
RowsSettled ==
    \A t \in Tx : IF row[t].final THEN t \in stopped /\ Settled(t)
                                  ELSE row[t].total = 0

\* What the sweep in progress has computed of its sessions still holds.
SweepHolds ==
    /\ sync.fetched \cup sync.send \cup sync.ok \cup sync.skip \subseteq stopped
    /\ \A t \in sync.send : Billable(t) /\ sync.delta[t] = meter[t]
    /\ \A t \in sync.ok : FINAL \in lago[t].ids
    /\ \A t \in sync.skip : Settled(t)

SweepInv ==
    /\ TypeOK
    /\ EmitterIdle
    /\ TrueUpIsWhole
    /\ RowsSettled
    /\ SweepHolds

---------------------------------------------------------------------------
(* It is inductive.                                                        *)

\* Lago takes the true-ups of a batch: the first of a session counts, and
\* another changes nothing.
LEMMA BatchPosted ==
    ASSUME SweepInv, NEW b \in SUBSET sync.send, PostFinals(b), NEW t \in Tx
    PROVE  /\ lago'[t].inc = 0
           /\ lago[t].ids \subseteq lago'[t].ids
           /\ t \in b => FINAL \in lago'[t].ids
           /\ IF FINAL \in lago'[t].ids
              THEN t \in stopped /\ Billable(t) /\ lago'[t].trueUp = meter[t]
              ELSE lago'[t].trueUp = 0
<1>1. lago[t] \in Ledgers /\ lago[t].inc = 0 /\ meter[t] \in Nat
    BY DEF SweepInv, TypeOK, EmitterIdle
<1>2. CASE t \notin b
  <2>1. lago'[t] = lago[t]
    BY <1>2 DEF PostFinals
  <2> QED
    BY <1>1, <1>2, <2>1 DEF SweepInv, TrueUpIsWhole
<1>3. CASE t \in b
  <2>1. lago'[t] = Post(lago[t], FINAL, meter[t])
    BY <1>3 DEF PostFinals, SweepInv, SweepHolds
  <2>2. t \in stopped /\ Billable(t)
    BY <1>3 DEF SweepInv, SweepHolds
  <2> QED
    BY <1>1, <1>3, <2>1, <2>2 DEF Post, Ledgers, SweepInv, TrueUpIsWhole
<1> QED
    BY <1>2, <1>3

LEMMA NextSwept == SweepAlone /\ SweepInv /\ [Next]_vars => SweepInv'
<1> SUFFICES ASSUME SweepAlone, SweepInv, [Next]_vars PROVE SweepInv'
    OBVIOUS
<1>1. TypeOK /\ TypeOK'
    BY NextType DEF SweepInv
<1> DEFINE Sound == EmitterIdle /\ TrueUpIsWhole /\ RowsSettled /\ SweepHolds
<1>2. Sound
    BY DEF SweepInv
<1> SUFFICES Sound'
    BY <1>1 DEF SweepInv
\* The emitter has no sample to start from.
<1>3. ASSUME NEW t \in Tx PROVE ~(Enqueue(t) \/ SweepFlush(t) \/ Evict(t))
    BY <1>2
    DEF SweepAlone, Enqueue, EnqueueFirst, EnqueueNext, Sample, SweepFlush, Evict,
        EmitterIdle
<1>4. ASSUME NEW t \in Tx PROVE ~(FlushStep(t) \/ FlushFault(t))
    BY <1>2
    DEF FlushStep, FlushFault, FlushResolveCached, FlushResolve, FlushSend,
        FlushPersist, FlushResolveThrows, FlushLookupFails, FlushSendFails,
        FlushSendLost, FlushPersistFails, Resolved, EmitterIdle
\* Steps after which the sweep knows no more than before.
<1>5. ASSUME UNCHANGED << meter, stopped, mem, flush, lago, row >>, SweepHolds'
      PROVE  Sound'
    BY <1>2, <1>5 DEF EmitterIdle, TrueUpIsWhole, RowsSettled, Settled, Billable
<1>6. ASSUME UNCHANGED << meter, stopped, mem, flush, lago, row >>,
             sync'.delta = sync.delta,
             sync'.fetched \subseteq sync.fetched, sync'.send \subseteq sync.send,
             sync'.ok \subseteq sync.ok, sync'.skip \subseteq sync.skip
      PROVE  Sound'
    BY <1>2, <1>5, <1>6 DEF SweepHolds, Settled, Billable
<1>7. ASSUME UNCHANGED << meter, stopped, mem, flush, lago, row >>,
             sync'.fetched \subseteq stopped,
             sync'.send = {}, sync'.ok = {}, sync'.skip = {}
      PROVE  Sound'
    BY <1>5, <1>7 DEF SweepHolds
<1>8. CASE Tick \/ UNCHANGED vars
    BY <1>6, <1>8 DEF Tick, vars, emitterVars, dbVars
<1>9. ASSUME NEW t \in Tx, Charge(t) PROVE Sound'
  <2>1. /\ t \notin stopped /\ \A u \in Tx \ {t} : meter'[u] = meter[u]
        /\ UNCHANGED << stopped, mem, flush, lago, row, sync >>
    BY <1>1, <1>9 DEF Charge, TypeOK, emitterVars, dbVars
  <2>2. sync.send \subseteq Tx /\ sync.skip \subseteq Tx
    BY <1>1 DEF TypeOK, Sweeps
  <2> QED
    BY <1>2, <2>1, <2>2
    DEF EmitterIdle, TrueUpIsWhole, RowsSettled, SweepHolds, Settled, Billable
<1>10. ASSUME NEW t \in Tx, Stop(t) PROVE Sound'
    BY <1>2, <1>10
    DEF Stop, EmitterIdle, TrueUpIsWhole, RowsSettled, SweepHolds, Settled,
        Billable, emitterVars, dbVars
<1>11. CASE RestartWeb
  <2>1. /\ mem' = [t \in Tx |-> NoState] /\ flush' = [t \in Tx |-> NoFlush]
        /\ UNCHANGED << meter, stopped, lago, row, sync >>
    BY <1>11 DEF RestartWeb, worldVars, dbVars
  <2>2. EmitterIdle'
    BY <1>2, <2>1 DEF EmitterIdle, NoState, NoFlush
  <2> QED
    BY <1>2, <2>1, <2>2 DEF TrueUpIsWhole, RowsSettled, SweepHolds, Settled, Billable
<1>12. CASE SyncBegin
    BY <1>7, <1>12 DEF SyncBegin, NoSweep, worldVars, emitterVars, dbVars
<1>13. CASE SyncConflict \/ SyncDone \/ SyncAborts
    BY <1>7, <1>13
    DEF SyncConflict, SyncDone, SyncAborts, NoSweep, worldVars, emitterVars, dbVars
\* processTransaction: what a session still owes is its whole delta, because a
\* row that is not finalized has no total.
<1>14. ASSUME NEW outage \in SUBSET Tx, SyncPlan(outage) PROVE Sound'
  <2> DEFINE work == {t \in sync.fetched : Unsettled(t)}
             left(t) == meter[t] - row[t].total
             covered == {t \in work : left(t) <= Tolerance}
             send == {t \in work \ covered : UsageBilled(Kind[t])} \ outage
             delta == [t \in Tx |-> IF t \in work \ covered THEN left(t) ELSE 0]
  <2>1. outage = {}
    BY <1>14 DEF SyncPlan, SweepAlone, Fault
  <2>2. /\ sync'.fetched = sync.fetched /\ sync'.ok = sync.ok
        /\ sync'.send = send /\ sync'.skip = work \ send /\ sync'.delta = delta
        /\ UNCHANGED << meter, stopped, mem, flush, lago, row >>
    <3>1. PICK pc, total :
             sync' = [sync EXCEPT !.pc = pc, !.send = send, !.skip = work \ send,
                                  !.delta = delta, !.total = total]
      BY <1>14 DEF SyncPlan
    <3>2. UNCHANGED << meter, stopped, mem, flush, lago, row >>
      BY <1>14 DEF SyncPlan, worldVars, emitterVars, dbVars
    <3>3. sync \in Sweeps
      BY <1>1 DEF TypeOK
    <3> HIDE DEF work, send, delta
    <3> QED
      BY <3>1, <3>2, <3>3 DEF Sweeps
  <2>3. work \subseteq Tx /\ work \subseteq stopped
    BY <1>1, <1>2 DEF TypeOK, Sweeps, SweepHolds
  <2>4. ASSUME NEW t \in work PROVE left(t) = meter[t] /\ t \in Tx
    BY <1>1, <1>2, <2>3, <2>4 DEF Unsettled, RowsSettled, TypeOK
  <2>5. ASSUME NEW t \in send PROVE Billable(t) /\ delta[t] = meter[t]
    BY <2>4, <2>5 DEF UsageBilled, Billable
  <2>6. ASSUME NEW t \in work \ send PROVE Settled(t)
    BY <2>1, <2>4, <2>6 DEF UsageBilled, Billable, Settled
  <2>7. send \subseteq work
    OBVIOUS
  <2> HIDE DEF send, work, delta
  <2>8. SweepHolds'
    BY <1>2, <2>2, <2>3, <2>5, <2>6, <2>7
    DEF SweepHolds, Settled, Billable
  <2> QED
    BY <1>5, <2>2, <2>8
<1>15. ASSUME NEW b \in SUBSET sync.send, PostFinals(b),
              sync'.fetched = sync.fetched, sync'.send \subseteq sync.send,
              sync'.ok \subseteq sync.ok \cup b, sync'.skip = sync.skip,
              sync'.delta = sync.delta,
              UNCHANGED << meter, stopped, mem, flush, row >>
       PROVE  Sound'
  <2>1. sync.send \subseteq Tx /\ sync.ok \subseteq Tx /\ sync.skip \subseteq Tx
    BY <1>1 DEF TypeOK, Sweeps
  <2>2. EmitterIdle' /\ TrueUpIsWhole'
    BY <1>2, <1>15, BatchPosted DEF EmitterIdle, TrueUpIsWhole, Billable
  <2>3. RowsSettled'
    BY <1>2, <1>15, BatchPosted DEF RowsSettled, Settled, Billable
  <2>4. SweepHolds'
    BY <1>2, <1>15, <2>1, BatchPosted DEF SweepHolds, Settled, Billable
  <2> QED
    BY <2>2, <2>3, <2>4
<1>16. ASSUME NEW b \in SUBSET Tx, SyncSendBatch(b) \/ SyncBatchFails(b)
       PROVE  Sound'
  <2>1. /\ b \subseteq sync.send
        /\ PostFinals(b) \/ UNCHANGED lago
        /\ PostFinals(b) \/ sync'.ok = sync.ok
        /\ sync'.fetched = sync.fetched /\ sync'.send \subseteq sync.send
        /\ sync'.ok \subseteq sync.ok \cup b /\ sync'.skip = sync.skip
        /\ sync'.delta = sync.delta
        /\ UNCHANGED << meter, stopped, mem, flush, row >>
    <3>1. /\ UNCHANGED << meter, stopped, mem, flush, row >>
          /\ NextBatch(b)
      BY <1>16 DEF SyncSendBatch, SyncBatchFails, worldVars, emitterVars, dbVars
    <3>2. b \subseteq sync.send
      BY <3>1 DEF NextBatch
    <3>3. sync \in Sweeps
      BY <1>1 DEF TypeOK
    <3>4. \/ PostFinals(b)
          \/ lago' = lago /\ sync' = [sync EXCEPT !.send = sync.send \ b]
      BY <1>16 DEF SyncSendBatch, SyncBatchFails
    <3>5. \/ sync' = [sync EXCEPT !.send = sync.send \ b, !.ok = sync.ok \cup b]
          \/ sync' = [sync EXCEPT !.send = sync.send \ b]
      BY <1>16 DEF SyncSendBatch, SyncBatchFails
    <3>6. /\ PostFinals(b) \/ UNCHANGED lago
          /\ PostFinals(b) \/ sync'.ok = sync.ok
      BY <3>3, <3>4 DEF Sweeps
    <3>7. /\ sync'.send \subseteq sync.send /\ sync'.ok \subseteq sync.ok \cup b
          /\ sync'.fetched = sync.fetched /\ sync'.skip = sync.skip
          /\ sync'.delta = sync.delta
      BY <3>3, <3>5 DEF Sweeps
    <3> QED
      BY <3>1, <3>2, <3>6, <3>7
  <2> QED
    BY <1>6, <1>15, <2>1
<1>17. CASE SyncPersist
  <2>1. /\ row' = [t \in Tx |-> IF t \in sync.ok \cup sync.skip THEN SweptRow(t)
                                                               ELSE row[t]]
        /\ sync'.fetched = {} /\ sync'.send = {} /\ sync'.ok = {} /\ sync'.skip = {}
        /\ UNCHANGED << meter, stopped, mem, flush, lago >>
    BY <1>17 DEF SyncPersist, NoSweep, worldVars, emitterVars
  <2>2. RowsSettled'
    BY <1>2, <2>1 DEF RowsSettled, SweptRow, SweepHolds, Settled, Billable
  <2> QED
    BY <1>2, <2>1, <2>2 DEF EmitterIdle, TrueUpIsWhole, SweepHolds, Billable
<1>18. CASE SyncSkippedSaved
    BY <1>1, <1>6, <1>18
    DEF SyncSkippedSaved, TypeOK, Sweeps, worldVars, emitterVars, dbVars
<1>19. ASSUME NEW t \in Tx, SyncSaveSkipped(t) PROVE Sound'
  <2>1. /\ row' = [row EXCEPT ![t] = SweptRow(t)] /\ t \in sync.skip
        /\ sync'.fetched = sync.fetched /\ sync'.send = sync.send
        /\ sync'.ok = sync.ok /\ sync'.skip \subseteq sync.skip
        /\ sync'.delta = sync.delta
        /\ UNCHANGED << meter, stopped, mem, flush, lago >>
    BY <1>1, <1>19 DEF SyncSaveSkipped, TypeOK, Sweeps, worldVars, emitterVars
  <2>2. RowsSettled'
    BY <1>1, <1>2, <2>1
    DEF RowsSettled, SweptRow, SweepHolds, Settled, Billable, TypeOK
  <2> QED
    BY <1>2, <2>1, <2>2 DEF EmitterIdle, TrueUpIsWhole, SweepHolds, Settled, Billable
<1>20. ASSUME NEW t \in Tx, SyncNotify(t) PROVE Sound'
    BY <1>1, <1>6, <1>20
    DEF SyncNotify, TypeOK, Sweeps, worldVars, emitterVars
<1> QED
    BY <1>3, <1>4, <1>8, <1>9, <1>10, <1>11, <1>12, <1>13, <1>14, <1>16, <1>17,
       <1>18, <1>19, <1>20
    DEF Next, Environment, SyncStep, SyncFault

LEMMA InitSwept == Init => SweepInv
<1> SUFFICES ASSUME Init PROVE SweepInv
    OBVIOUS
<1>1. TypeOK
    BY InitType
<1>2. EmitterIdle /\ TrueUpIsWhole /\ RowsSettled
    BY DEF Init, EmitterIdle, TrueUpIsWhole, RowsSettled, NoState, NoFlush,
           EmptyLedger, NoRow
<1>3. SweepHolds
    BY DEF Init, SweepHolds, NoSweep
<1> QED
    BY <1>1, <1>2, <1>3 DEF SweepInv

---------------------------------------------------------------------------
(* What it implies.                                                        *)

\* A session the sweep finalizes is billed for exactly what it delivered, to
\* the tolerance: runSync upserts isFinalized only for sessions whose `_final`
\* event createBatchEvents has acknowledged, or that need none.
THEOREM SweepBillsExactly ==
    ASSUME SweepAlone
    PROVE  Spec => []FinalizedMeansBilled
<1>1. SweepInv => FinalizedMeansBilled
  <2> SUFFICES ASSUME SweepInv, NEW t \in Tx, row[t].final, Billable(t)
               PROVE  /\ Energy(lago[t]) <= meter[t]
                      /\ Energy(lago[t]) + Tolerance >= meter[t]
    BY DEF FinalizedMeansBilled
  <2>1. /\ meter[t] \in Nat /\ lago[t].trueUp \in Nat /\ lago[t].inc = 0
    BY DEF SweepInv, TypeOK, Ledgers, EmitterIdle
  <2>2. lago[t].trueUp = meter[t] \/ (lago[t].trueUp = 0 /\ meter[t] <= Tolerance)
    BY DEF SweepInv, TrueUpIsWhole, RowsSettled, Settled
  <2> QED
    BY <2>1, <2>2, BoundAssumption DEF Energy
<1>2. SweepInv /\ [Next]_vars => SweepInv'
    BY NextSwept
<1> QED
    BY <1>1, <1>2, InitSwept, PTL DEF Spec

\* The sweep never bills a membership by the kWh: processTransaction skips the
\* plans of NON_USAGE_PLAN_CODES.
THEOREM SweepSparesMembers ==
    ASSUME SweepAlone
    PROVE  Spec => []MembersNotBilled
<1>1. SweepInv => MembersNotBilled
    BY DEF SweepInv, EmitterIdle, TrueUpIsWhole, Billable, MembersNotBilled, Energy
<1>2. SweepInv /\ [Next]_vars => SweepInv'
    BY NextSwept
<1> QED
    BY <1>1, <1>2, InitSwept, PTL DEF Spec

---------------------------------------------------------------------------
(* The sweep implements BillingLedger, and with that keeps its books: the  *)
(* row of a session is the sum of its recorded events, its customer hears  *)
(* of it once, and a finalized session stays as it is.                     *)


\* The sessions the sweep in progress has still to commit.
InHand == sync.send \cup sync.ok \cup sync.skip

\* Each is open, has used something and resolves to a customer, and its total
\* is the whole of its delta.
HandIsOpen ==
    \A t \in InHand :
        /\ ~row[t].final
        /\ meter[t] > 0 /\ Kind[t] # "unmapped"
        /\ sync.total[t] = sync.delta[t]

\* A session skipped although it is billed by usage owes nothing.
SkippedOweNothing ==
    \A t \in sync.skip : Billable(t) => sync.delta[t] = 0

\* What is in hand in each stage of a sweep.
StageInHand ==
    /\ sync.pc = "fetched" => InHand = {}
    /\ sync.pc = "skipping" => sync.send = {} /\ sync.ok = {}

\* An open session has no records; a finalized one has the sum of them.
BooksBalance ==
    \A t \in Tx :
        IF row[t].final THEN Billable(t) => row[t].total = Energy(audit[t])
                        ELSE audit[t] = EmptyLedger

\* Only finalized sessions are announced, and not yet to their customer.
AnnouncedOnce ==
    /\ sync.notify \subseteq {t \in Tx : row[t].final /\ notified[t] = 0}
    /\ \A t \in Tx : notified[t] <= 1 /\ (~row[t].final => notified[t] = 0)

OnceInv ==
    /\ SweepInv
    /\ HandIsOpen
    /\ SkippedOweNothing
    /\ StageInHand
    /\ BooksBalance
    /\ AnnouncedOnce

---------------------------------------------------------------------------
(* It is inductive.                                                        *)

LEMMA InitOnce == Init => OnceInv
<1> SUFFICES ASSUME Init PROVE OnceInv
    OBVIOUS
<1>1. SweepInv
    BY InitSwept
<1>2. InHand = {}
    BY DEF Init, InHand, NoSweep
<1> QED
    BY <1>1, <1>2
    DEF OnceInv, Init, HandIsOpen, SkippedOweNothing, StageInHand, BooksBalance,
        AnnouncedOnce, NoSweep, NoRow, EmptyLedger

\* What a sweep plans to send or to skip is open and owes its whole meter.
LEMMA PlannedAreOpen ==
    ASSUME SweepInv, NEW outage \in SUBSET Tx, SyncPlan(outage), "lookup" \notin Faults,
           sync.ok = {}, NEW t \in InHand'
    PROVE  /\ t \in Tx /\ ~row[t].final /\ meter[t] > 0 /\ Kind[t] # "unmapped"
           /\ sync'.total[t] = sync'.delta[t]
           /\ t \in sync'.skip /\ Billable(t) => sync'.delta[t] = 0
<1> DEFINE work == {u \in sync.fetched : Unsettled(u)}
           left(u) == meter[u] - row[u].total
           covered == {u \in work : left(u) <= Tolerance}
           send == {u \in work \ covered : UsageBilled(Kind[u])} \ outage
           delta == [u \in Tx |-> IF u \in work \ covered THEN left(u) ELSE 0]
<1>1. outage = {}
    BY DEF SyncPlan, Fault
<1>2. /\ sync'.ok = {} /\ sync'.send = send /\ sync'.skip = work \ send
      /\ sync'.delta = delta
      /\ sync'.total = [u \in Tx |-> row[u].total + delta[u]]
    BY DEF SyncPlan, SweepInv, TypeOK, Sweeps
<1>3. t \in work
    BY <1>2 DEF InHand
<1>4. t \in Tx /\ Unsettled(t)
    BY <1>3 DEF SweepInv, TypeOK, Sweeps
<1>5. row[t].total = 0 /\ meter[t] \in Nat
    BY <1>4 DEF Unsettled, SweepInv, RowsSettled, TypeOK
<1>6. sync'.total[t] = sync'.delta[t]
    BY <1>2, <1>4, <1>5
<1>7. ASSUME t \in sync'.skip, Billable(t) PROVE sync'.delta[t] = 0
  <2>1. UsageBilled(Kind[t])
    BY <1>7 DEF UsageBilled, Billable
  <2>2. t \in covered
    BY <1>1, <1>2, <1>3, <1>7, <2>1
  <2> QED
    BY <1>2, <1>4, <2>2
<1> QED
    BY <1>4, <1>6, <1>7 DEF Unsettled

LEMMA NextOnce == SweepAlone /\ OnceInv /\ [Next]_vars => OnceInv'
<1> SUFFICES ASSUME SweepAlone, OnceInv, [Next]_vars PROVE OnceInv'
    OBVIOUS
<1>1. SweepInv /\ SweepInv' /\ TypeOK
    BY NextSwept DEF OnceInv, SweepInv
<1> DEFINE Once == /\ HandIsOpen /\ SkippedOweNothing /\ StageInHand
                   /\ BooksBalance /\ AnnouncedOnce
<1>2. Once
    BY DEF OnceInv
<1> SUFFICES Once'
    BY <1>1 DEF OnceInv
<1>3. ASSUME NEW t \in Tx PROVE ~(Enqueue(t) \/ SweepFlush(t) \/ Evict(t))
    BY <1>1
    DEF SweepAlone, Enqueue, EnqueueFirst, EnqueueNext, Sample, SweepFlush, Evict,
        SweepInv, EmitterIdle
<1>4. ASSUME NEW t \in Tx PROVE ~(FlushStep(t) \/ FlushFault(t))
    BY <1>1
    DEF FlushStep, FlushFault, FlushResolveCached, FlushResolve, FlushSend,
        FlushPersist, FlushResolveThrows, FlushLookupFails, FlushSendFails,
        FlushSendLost, FlushPersistFails, Resolved, SweepInv, EmitterIdle
<1>5. sync \in Sweeps /\ InHand \subseteq stopped
    BY <1>1 DEF SweepInv, TypeOK, SweepHolds, InHand
\* Steps that commit and announce nothing, and after which the sweep has no
\* more in hand than before.
<1>6. ASSUME UNCHANGED << row, audit, notified >>, meter' = meter,
             sync'.notify \subseteq sync.notify,
             sync'.send \cup sync'.ok \subseteq sync.send \cup sync.ok,
             sync'.skip \subseteq sync.skip,
             sync'.delta = sync.delta, sync'.total = sync.total, StageInHand'
      PROVE  Once'
    BY <1>2, <1>6
    DEF HandIsOpen, SkippedOweNothing, BooksBalance, AnnouncedOnce, InHand, Billable
<1>7. ASSUME UNCHANGED << row, audit, notified >>,
             sync'.notify = {}, sync'.send = {}, sync'.ok = {}, sync'.skip = {}
      PROVE  Once'
    BY <1>2, <1>7
    DEF HandIsOpen, SkippedOweNothing, StageInHand, BooksBalance, AnnouncedOnce,
        InHand, Billable
<1>8. CASE Tick \/ UNCHANGED vars
    BY <1>2, <1>6, <1>8 DEF Tick, vars, emitterVars, dbVars, StageInHand, InHand
<1>9. ASSUME NEW t \in Tx, Charge(t) PROVE Once'
  <2>1. t \notin InHand
    BY <1>5, <1>9 DEF Charge
  <2>2. /\ \A u \in Tx \ {t} : meter'[u] = meter[u]
        /\ UNCHANGED << row, audit, notified, sync >>
    BY <1>1, <1>9 DEF Charge, TypeOK, dbVars
  <2> QED
    BY <1>2, <1>5, <2>1, <2>2
    DEF HandIsOpen, SkippedOweNothing, StageInHand, BooksBalance, AnnouncedOnce,
        InHand, Billable, Sweeps
<1>10. ASSUME NEW t \in Tx, Stop(t) PROVE Once'
    BY <1>2, <1>6, <1>10 DEF Stop, dbVars, StageInHand, InHand
<1>11. CASE RestartWeb
    BY <1>2, <1>6, <1>11 DEF RestartWeb, worldVars, dbVars, StageInHand, InHand
<1>12. CASE SyncBegin
  <2>1. /\ UNCHANGED << row, audit, notified >>
        /\ sync'.notify = {} /\ sync'.send = {} /\ sync'.ok = {} /\ sync'.skip = {}
    BY <1>12 DEF SyncBegin, NoSweep, dbVars
  <2> QED
    BY <1>7, <2>1
<1>13. CASE SyncConflict \/ SyncDone \/ SyncAborts
  <2>1. UNCHANGED << row, audit, notified >> /\ sync' = NoSweep
    BY <1>13 DEF SyncConflict, SyncDone, SyncAborts, dbVars
  <2> QED
    BY <1>7, <2>1 DEF NoSweep
<1>14. ASSUME NEW outage \in SUBSET Tx, SyncPlan(outage) PROVE Once'
  <2>1. sync.pc = "fetched" /\ InHand = {} /\ sync.ok = {}
    BY <1>2, <1>14 DEF SyncPlan, StageInHand, InHand
  <2>2. /\ UNCHANGED << row, audit, notified, meter >>
        /\ sync'.notify = sync.notify /\ sync'.ok = {}
        /\ sync'.pc \in {"sending", "skipping"}
        /\ sync'.pc = "skipping" => sync'.send = {}
    BY <1>5, <1>14, <2>1 DEF SyncPlan, Sweeps, dbVars, worldVars
  <2>3. ASSUME NEW t \in InHand'
        PROVE  /\ ~row'[t].final /\ meter'[t] > 0 /\ Kind[t] # "unmapped"
               /\ sync'.total[t] = sync'.delta[t]
               /\ t \in sync'.skip /\ Billable(t) => sync'.delta[t] = 0
    BY <1>1, <1>14, <2>1, <2>2, <2>3, PlannedAreOpen DEF SweepAlone
  <2>4. HandIsOpen' /\ SkippedOweNothing'
    BY <2>3 DEF HandIsOpen, SkippedOweNothing, InHand, Billable
  <2> QED
    BY <1>2, <2>2, <2>4 DEF StageInHand, BooksBalance, AnnouncedOnce, Billable
<1>15. ASSUME NEW b \in SUBSET Tx, SyncSendBatch(b) \/ SyncBatchFails(b)
       PROVE  Once'
  <2>1. /\ UNCHANGED << row, audit, notified, meter >>
        /\ sync'.notify = sync.notify /\ sync'.skip = sync.skip
        /\ sync'.send \cup sync'.ok \subseteq sync.send \cup sync.ok
        /\ sync'.delta = sync.delta /\ sync'.total = sync.total
        /\ sync.pc = "sending" /\ sync'.pc = sync.pc
    <3>1. UNCHANGED << row, audit, notified, meter >> /\ NextBatch(b)
      BY <1>15 DEF SyncSendBatch, SyncBatchFails, dbVars, worldVars
    <3>2. b \subseteq sync.send /\ sync.pc = "sending"
      BY <3>1 DEF NextBatch
    <3>3. \/ sync' = [sync EXCEPT !.send = sync.send \ b, !.ok = sync.ok \cup b]
          \/ sync' = [sync EXCEPT !.send = sync.send \ b]
      BY <1>15 DEF SyncSendBatch, SyncBatchFails
    <3>4. sync'.send \cup sync'.ok \subseteq sync.send \cup sync.ok
      BY <1>5, <3>2, <3>3 DEF Sweeps
    <3>5. /\ sync'.notify = sync.notify /\ sync'.skip = sync.skip
          /\ sync'.delta = sync.delta /\ sync'.total = sync.total
          /\ sync'.pc = sync.pc
      BY <1>5, <3>3 DEF Sweeps
    <3> QED
      BY <3>1, <3>2, <3>4, <3>5
  <2> QED
    BY <1>6, <2>1 DEF StageInHand
<1>16. CASE SyncPersist
  <2> DEFINE done == sync.ok \cup sync.skip
  <2>1. /\ row' = [t \in Tx |-> IF t \in done THEN SweptRow(t) ELSE row[t]]
        /\ audit' = [t \in Tx |-> IF t \in sync.ok
                                  THEN Post(audit[t], FINAL, sync.delta[t])
                                  ELSE audit[t]]
        /\ sync'.notify = done /\ sync'.pc = "notifying"
        /\ sync'.send = {} /\ sync'.ok = {} /\ sync'.skip = {}
        /\ notified' = notified /\ done \subseteq Tx
    BY <1>5, <1>16 DEF SyncPersist, NoSweep, Sweeps
  <2>2. ASSUME NEW t \in done
        PROVE  /\ t \in Tx /\ audit[t] = EmptyLedger /\ sync.total[t] = sync.delta[t]
               /\ sync.delta[t] \in Nat /\ notified[t] = 0
    BY <1>2, <1>5, <2>1
    DEF HandIsOpen, InHand, BooksBalance, AnnouncedOnce, Sweeps
  <2>3. ASSUME NEW t \in done
        PROVE  row'[t].final /\ (Billable(t) => row'[t].total = Energy(audit'[t]))
    BY <1>2, <2>1, <2>2
    DEF SweptRow, Post, Energy, EmptyLedger, SkippedOweNothing
  <2>4. BooksBalance'
    BY <1>2, <2>1, <2>3 DEF BooksBalance, Billable
  <2>5. AnnouncedOnce'
    BY <1>2, <2>1, <2>2, <2>3 DEF AnnouncedOnce
  <2> QED
    BY <2>1, <2>4, <2>5 DEF HandIsOpen, SkippedOweNothing, StageInHand, InHand
<1>17. CASE SyncSkippedSaved
  <2>1. /\ UNCHANGED << row, audit, notified, meter >>
        /\ sync' = [sync EXCEPT !.pc = "notifying"]
    BY <1>17 DEF SyncSkippedSaved, dbVars, worldVars
  <2> QED
    BY <1>5, <1>6, <2>1 DEF Sweeps, StageInHand
<1>18. ASSUME NEW t \in Tx, SyncSaveSkipped(t) PROVE Once'
  <2>1. /\ row' = [row EXCEPT ![t] = SweptRow(t)] /\ t \in sync.skip
        /\ sync.pc = "skipping" /\ sync'.pc = "skipping"
        /\ sync'.send = sync.send /\ sync'.ok = sync.ok
        /\ sync'.skip = sync.skip \ {t} /\ sync'.notify = sync.notify \cup {t}
        /\ sync'.delta = sync.delta /\ sync'.total = sync.total
        /\ UNCHANGED << meter, audit, notified >>
    BY <1>5, <1>18 DEF SyncSaveSkipped, Sweeps, worldVars
  <2>2. sync.send = {} /\ sync.ok = {} /\ sync.skip \subseteq Tx
    BY <1>2, <1>5, <2>1 DEF StageInHand, Sweeps
  <2>3. /\ audit[t] = EmptyLedger /\ sync.total[t] = sync.delta[t]
        /\ Billable(t) => sync.delta[t] = 0
        /\ notified[t] = 0
    BY <1>2, <2>1, <2>2
    DEF HandIsOpen, InHand, BooksBalance, AnnouncedOnce, SkippedOweNothing
  <2>4. row'[t].final /\ (Billable(t) => row'[t].total = Energy(audit'[t]))
    BY <1>1, <2>1, <2>2, <2>3 DEF SweptRow, Energy, EmptyLedger, TypeOK
  <2>5. \A u \in Tx \ {t} : row'[u] = row[u]
    BY <1>1, <2>1 DEF TypeOK
  <2>6. BooksBalance'
    BY <1>2, <2>1, <2>4, <2>5 DEF BooksBalance, Billable
  <2>7. AnnouncedOnce'
    BY <1>2, <2>1, <2>2, <2>3, <2>4, <2>5 DEF AnnouncedOnce
  <2>8. HandIsOpen' /\ SkippedOweNothing'
    BY <1>2, <2>1, <2>2, <2>5 DEF HandIsOpen, SkippedOweNothing, InHand, Billable
  <2> QED
    BY <2>1, <2>2, <2>6, <2>7, <2>8 DEF StageInHand
<1>19. ASSUME NEW t \in Tx, SyncNotify(t) PROVE Once'
  <2>1. /\ t \in sync.notify /\ sync'.notify = sync.notify \ {t}
        /\ notified' = [notified EXCEPT ![t] = IF @ < 2 THEN @ + 1 ELSE @]
        /\ sync'.pc = sync.pc /\ sync'.send = sync.send /\ sync'.ok = sync.ok
        /\ sync'.skip = sync.skip /\ sync'.delta = sync.delta
        /\ sync'.total = sync.total
        /\ UNCHANGED << meter, row, audit >>
    BY <1>5, <1>19 DEF SyncNotify, Sweeps, worldVars
  <2>2. AnnouncedOnce'
    BY <1>1, <1>2, <2>1 DEF AnnouncedOnce, TypeOK
  <2> QED
    BY <1>2, <2>1, <2>2
    DEF HandIsOpen, SkippedOweNothing, StageInHand, BooksBalance, InHand, Billable
<1> QED
    BY <1>3, <1>4, <1>8, <1>9, <1>10, <1>11, <1>12, <1>13, <1>14, <1>15, <1>16,
       <1>17, <1>18, <1>19
    DEF Next, Environment, SyncStep, SyncFault

---------------------------------------------------------------------------
(* What it implies.                                                        *)

\* totalKwhBilled of a swept session is the sum of the events recorded for it:
\* the row and the audit records are upserted in one transaction.
THEOREM SweepKeepsRunningSum ==
    ASSUME SweepAlone
    PROVE  Spec => []RowIsRunningSum
<1>1. OnceInv => RowIsRunningSum
    BY DEF OnceInv, BooksBalance, RowIsRunningSum, SweepInv, RowsSettled, Energy,
           EmptyLedger
<1>2. OnceInv /\ [Next]_vars => OnceInv'
    BY NextOnce
<1> QED
    BY <1>1, <1>2, InitOnce, PTL DEF Spec

\* A customer is told once that a session has ended, whatever aborts between
\* the commit and notifyFinalizedTransactions.
THEOREM SweepNotifiesOnce ==
    ASSUME SweepAlone
    PROVE  Spec => []NotifiedAtMostOnce
<1>1. OnceInv => NotifiedAtMostOnce
    BY DEF OnceInv, AnnouncedOnce, NotifiedAtMostOnce
<1>2. OnceInv /\ [Next]_vars => OnceInv'
    BY NextOnce
<1> QED
    BY <1>1, <1>2, InitOnce, PTL DEF Spec

---------------------------------------------------------------------------
(* The refinement.                                                         *)

Charged == [t \in Tx |-> Energy(lago[t])]
Final == {t \in Tx : row[t].final}

LEMMA InitLedger == Init => Ledger!Init
    BY DEF Init, Ledger!Init, Energy, EmptyLedger, NoRow

\* A batch that reaches Lago charges those of its sessions that Lago has no
\* event of, each for its whole meter.
LEMMA BatchCharges ==
    ASSUME OnceInv, NEW b \in SUBSET sync.send, PostFinals(b),
           UNCHANGED << meter, stopped, row >>
    PROVE  \E batch \in SUBSET Tx : Ledger!Charge(batch)
<1> DEFINE batch == {t \in b : FINAL \notin lago[t].ids}
<1>1. b \subseteq Tx
    BY DEF OnceInv, SweepInv, TypeOK, Sweeps
<1>2. ASSUME NEW t \in batch
      PROVE  /\ t \in stopped /\ Billable(t) /\ ~row[t].final
             /\ sync.delta[t] = meter[t] /\ meter[t] \in Nat
             /\ lago[t].inc = 0 /\ lago[t].trueUp = 0
    BY <1>1, <1>2
    DEF OnceInv, HandIsOpen, InHand, SweepInv, SweepHolds, EmitterIdle,
        TrueUpIsWhole, TypeOK
<1>3. ASSUME NEW t \in batch
      PROVE  Energy(lago[t]) = 0 /\ Energy(lago'[t]) = meter[t]
    BY <1>1, <1>2, <1>3 DEF PostFinals, Post, Energy
<1>4. ASSUME NEW t \in Tx \ batch PROVE lago'[t] = lago[t]
    BY <1>4 DEF PostFinals, Post
<1>5. Charged' = [t \in Tx |-> IF t \in batch THEN meter[t] ELSE Charged[t]]
    BY <1>3, <1>4 DEF Charged
<1>6. Ledger!Charge(batch)
    BY <1>1, <1>2, <1>3, <1>5 DEF Ledger!Charge, Charged
<1> QED
    BY <1>1, <1>6

\* Finalizing sessions the sweep has in hand, and has nothing left to bill of,
\* settles them.
LEMMA CommitSettles ==
    ASSUME OnceInv, NEW done \in SUBSET InHand,
           \A t \in done : Settled(t),
           row' = [t \in Tx |-> IF t \in done THEN SweptRow(t) ELSE row[t]],
           UNCHANGED << meter, stopped, lago >>
    PROVE  \E batch \in SUBSET Tx : Ledger!Settle(batch)
<1>1. done \subseteq Tx /\ done \subseteq stopped
    BY DEF OnceInv, SweepInv, TypeOK, Sweeps, SweepHolds, InHand
<1>2. ASSUME NEW t \in done
      PROVE  ~row[t].final /\ meter[t] > 0 /\ Kind[t] # "unmapped"
    BY <1>2 DEF OnceInv, HandIsOpen
<1>3. ASSUME NEW t \in done, Billable(t)
      PROVE  meter[t] <= Energy(lago[t]) + Tolerance
  <2>1. /\ meter[t] \in Nat /\ lago[t].trueUp \in Nat /\ lago[t].inc = 0
        /\ Tolerance \in Nat
    BY <1>1, <1>3, BoundAssumption DEF OnceInv, SweepInv, TypeOK, Ledgers, EmitterIdle
  <2>2. lago[t].trueUp = meter[t] \/ meter[t] <= Tolerance
    BY <1>1, <1>3 DEF OnceInv, SweepInv, TrueUpIsWhole, Settled
  <2> QED
    BY <2>1, <2>2 DEF Energy
<1>4. Final' = Final \cup done
    BY <1>1 DEF Final, SweptRow
<1>5. Ledger!Settle(done)
    BY <1>1, <1>2, <1>3, <1>4 DEF Ledger!Settle, Final
<1> QED
    BY <1>1, <1>5

LEMMA NextLedger ==
    ASSUME SweepAlone, OnceInv, [Next]_vars
    PROVE  [Ledger!Next]_Ledger!ledgerVars
<1>1. SweepInv /\ TypeOK
    BY DEF OnceInv, SweepInv
<1>2. ASSUME UNCHANGED << meter, stopped, lago, row >>
      PROVE  UNCHANGED Ledger!ledgerVars
    BY <1>2 DEF Ledger!ledgerVars, Energy
<1>3. ASSUME NEW t \in Tx PROVE ~(Enqueue(t) \/ SweepFlush(t) \/ Evict(t))
    BY <1>1
    DEF SweepAlone, Enqueue, EnqueueFirst, EnqueueNext, Sample, SweepFlush, Evict,
        SweepInv, EmitterIdle
<1>4. ASSUME NEW t \in Tx PROVE ~(FlushStep(t) \/ FlushFault(t))
    BY <1>1
    DEF FlushStep, FlushFault, FlushResolveCached, FlushResolve, FlushSend,
        FlushPersist, FlushResolveThrows, FlushLookupFails, FlushSendFails,
        FlushSendLost, FlushPersistFails, Resolved, SweepInv, EmitterIdle
<1>5. CASE Tick \/ RestartWeb \/ UNCHANGED vars
    BY <1>2, <1>5 DEF Tick, RestartWeb, vars, worldVars, dbVars
<1>6. ASSUME NEW t \in Tx, Charge(t) PROVE Ledger!Use(t)
    BY <1>6 DEF Charge, Ledger!Use, Energy, dbVars
<1>7. ASSUME NEW t \in Tx, Stop(t) PROVE Ledger!End(t)
    BY <1>7 DEF Stop, Ledger!End, Energy, dbVars
<1>8. CASE SyncBegin \/ SyncConflict \/ SyncDone \/ SyncAborts \/ SyncSkippedSaved
    BY <1>2, <1>8
    DEF SyncBegin, SyncConflict, SyncDone, SyncAborts, SyncSkippedSaved, worldVars,
        dbVars
<1>9. ASSUME NEW outage \in SUBSET Tx, SyncPlan(outage)
      PROVE  UNCHANGED Ledger!ledgerVars
    BY <1>2, <1>9 DEF SyncPlan, worldVars, dbVars
<1>10. ASSUME NEW t \in Tx, SyncNotify(t) PROVE UNCHANGED Ledger!ledgerVars
    BY <1>2, <1>10 DEF SyncNotify, worldVars
<1>11. ASSUME NEW b \in SUBSET Tx, SyncSendBatch(b) \/ SyncBatchFails(b)
       PROVE  [Ledger!Next]_Ledger!ledgerVars
  <2>1. /\ b \subseteq sync.send
        /\ PostFinals(b) \/ UNCHANGED lago
        /\ UNCHANGED << meter, stopped, row >>
    BY <1>11 DEF SyncSendBatch, SyncBatchFails, NextBatch, worldVars, dbVars
  <2> QED
    BY <1>2, <2>1, BatchCharges DEF Ledger!Next
<1>12. CASE SyncPersist
  <2>1. \A t \in sync.ok \cup sync.skip : Settled(t)
    BY <1>1 DEF SweepInv, SweepHolds, Settled
  <2> QED
    BY <1>12, <2>1, CommitSettles DEF SyncPersist, InHand, worldVars, Ledger!Next
<1>13. ASSUME NEW t \in Tx, SyncSaveSkipped(t) PROVE Ledger!Next
  <2>1. row' = [u \in Tx |-> IF u \in {t} THEN SweptRow(u) ELSE row[u]]
    BY <1>1, <1>13 DEF SyncSaveSkipped, TypeOK
  <2>2. t \in sync.skip /\ Settled(t) /\ UNCHANGED << meter, stopped, lago >>
    BY <1>1, <1>13 DEF SyncSaveSkipped, SweepInv, SweepHolds, worldVars
  <2>3. {t} \in SUBSET InHand
    BY <2>2 DEF InHand
  <2>4. \E batch \in SUBSET Tx : Ledger!Settle(batch)
    BY <2>1, <2>2, <2>3, CommitSettles
  <2> QED
    BY <2>4 DEF Ledger!Next
<1> QED
    BY <1>3, <1>4, <1>5, <1>6, <1>7, <1>8, <1>9, <1>10, <1>11, <1>12, <1>13
    DEF Next, Environment, SyncStep, SyncFault, Ledger!Next

\* The sweep implements the ledger: what Lago accepts is what a completed
\* session is charged, once and in full, and is_finalized settles it, once and
\* only then.
THEOREM SweepImplementsLedger ==
    ASSUME SweepAlone
    PROVE  Spec => LedgerKept
<1>1. OnceInv /\ [Next]_vars => OnceInv'
    BY NextOnce
<1>2. OnceInv /\ [Next]_vars => [Ledger!Next]_Ledger!ledgerVars
    BY NextLedger
<1> QED
    BY <1>1, <1>2, InitOnce, InitLedger, PTL DEF Spec, LedgerKept, Ledger!Spec

\* No session is reopened, and none is billed after it was finalized: what the
\* comment on is_finalized in schema.ts says holds of the sweep by itself.
THEOREM SweepFinalizesForever ==
    ASSUME SweepAlone
    PROVE  Spec => FinalizedForever
<1>1. OnceInv /\ [Next]_vars => OnceInv'
    BY NextOnce
<1> DEFINE Forever == \A t \in Tx : row[t].final =>
                          row'[t] = row[t] /\ Energy(lago'[t]) = Energy(lago[t])
<1>2. ASSUME OnceInv, [Next]_vars PROVE [Forever]_vars
  <2> SUFFICES ASSUME NEW t \in Tx, row[t].final
               PROVE  row'[t] = row[t] /\ Energy(lago'[t]) = Energy(lago[t])
    OBVIOUS
  <2>1. SweepInv /\ TypeOK /\ t \notin InHand
    BY <1>2 DEF OnceInv, SweepInv, HandIsOpen
  <2>2. ASSUME NEW u \in Tx
        PROVE  ~(Enqueue(u) \/ SweepFlush(u) \/ Evict(u) \/ FlushStep(u) \/ FlushFault(u))
    BY <2>1
    DEF SweepAlone, Enqueue, EnqueueFirst, EnqueueNext, Sample, SweepFlush, Evict,
        FlushStep, FlushFault, FlushResolveCached, FlushResolve, FlushSend,
        FlushPersist, FlushResolveThrows, FlushLookupFails, FlushSendFails,
        FlushSendLost, FlushPersistFails, Resolved, SweepInv, EmitterIdle
  <2>3. \/ UNCHANGED << row, lago >>
        \/ row' = row /\ \E b \in SUBSET sync.send : PostFinals(b)
        \/ lago' = lago /\ SyncPersist
        \/ lago' = lago /\ \E u \in sync.skip : row' = [row EXCEPT ![u] = SweptRow(u)]
    <3>1. ASSUME NEW u \in Tx, Environment(u) PROVE UNCHANGED << row, lago >>
      BY <3>1 DEF Environment, Charge, Stop, dbVars
    <3>2. ASSUME Tick \/ RestartWeb \/ UNCHANGED vars PROVE UNCHANGED << row, lago >>
      BY <3>2 DEF Tick, RestartWeb, vars, worldVars, dbVars
    <3>3. ASSUME SyncBegin \/ SyncConflict \/ SyncSkippedSaved \/ SyncDone \/ SyncAborts
          PROVE  UNCHANGED << row, lago >>
      BY <3>3
      DEF SyncBegin, SyncConflict, SyncSkippedSaved, SyncDone, SyncAborts, worldVars,
          dbVars
    <3>4. ASSUME NEW outage \in SUBSET Tx, SyncPlan(outage) PROVE UNCHANGED << row, lago >>
      BY <3>4 DEF SyncPlan, worldVars, dbVars
    <3>5. ASSUME NEW b \in SUBSET Tx, SyncSendBatch(b) \/ SyncBatchFails(b)
          PROVE  row' = row /\ (lago' = lago \/ PostFinals(b)) /\ b \in SUBSET sync.send
      BY <3>5 DEF SyncSendBatch, SyncBatchFails, NextBatch, worldVars, dbVars
    <3>6. ASSUME SyncPersist PROVE lago' = lago
      BY <3>6 DEF SyncPersist, worldVars
    <3>7. ASSUME NEW u \in Tx, SyncSaveSkipped(u) \/ SyncNotify(u)
          PROVE  /\ lago' = lago
                 /\ \/ row' = row
                    \/ u \in sync.skip /\ row' = [row EXCEPT ![u] = SweptRow(u)]
      BY <3>7 DEF SyncSaveSkipped, SyncNotify, worldVars
    <3> QED
      BY <1>2, <2>2, <3>1, <3>2, <3>3, <3>4, <3>5, <3>6, <3>7 DEF Next, SyncStep, SyncFault
  <2>4. ASSUME NEW b \in SUBSET sync.send, PostFinals(b) PROVE lago'[t] = lago[t]
    BY <2>1, <2>4 DEF PostFinals, InHand
  <2>5. ASSUME SyncPersist PROVE row'[t] = row[t]
    BY <2>1, <2>5 DEF SyncPersist, InHand
  <2>6. ASSUME NEW u \in sync.skip, row' = [row EXCEPT ![u] = SweptRow(u)]
        PROVE  row'[t] = row[t]
    BY <2>1, <2>6 DEF InHand, TypeOK
  <2> QED
    BY <2>3, <2>4, <2>5, <2>6
<1> QED
    BY <1>1, <1>2, InitOnce, PTL DEF Spec, FinalizedForever
==============================================================================
