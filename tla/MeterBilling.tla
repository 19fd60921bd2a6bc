---------------------------- MODULE MeterBilling ----------------------------
(***************************************************************************)
(* How one charging session's energy reaches Lago, and what Postgres says  *)
(* about it.                                                               *)
(*                                                                         *)
(* Two independent processes bill the same session:                        *)
(*                                                                         *)
(*   - the emitter (incremental-billing.service.ts, in the web process)    *)
(*     buffers webhook meter samples in memory and flushes deltas;         *)
(*   - the sweep (sync.service.ts, in the worker process) bills what is    *)
(*     left of a completed session with one `_final` event.                *)
(*                                                                         *)
(* They meet only in two tables: transaction_sync_state (row) and          *)
(* synced_transaction_events (audit).  Every `await` that another process  *)
(* or another callback can slip into is a boundary between two actions.    *)
(*                                                                         *)
(* Energy is in Wh since the session's startValue.  `now` is the Unix      *)
(* second that names an incremental event.                                 *)
(***************************************************************************)
EXTENDS Integers, FiniteSets

CONSTANTS
    Tx,              \* StEvE transactions
    Kind,            \* Kind[t]: how t's tag resolves to a subscription
    LiveMetering,    \* does StEvE post MeterValues?  (HMAC key configured)
    MaxMeter,        \* bound: Wh a session can deliver
    MaxTime,         \* bound: last second of the run
    Jitter,          \* Wh a sample may go back without being dropped (50)
    FlushInterval,   \* FLUSH_INTERVAL_MS, in the model's seconds
    FlushThreshold,  \* FLUSH_KWH_THRESHOLD, in Wh
    Tolerance,       \* ALREADY_BILLED_TOLERANCE_KWH, in Wh (1)
    BatchSize,       \* BATCH_SIZE
    MaxExposure,     \* bound: Wh by which samples go back, in total
    Faults,          \* the fault classes of this run
    MaxFaults        \* bound: faults in one behaviour

\* How a tag resolves.  explicit: its mapping names a subscription.  auto:
\* the subscription is looked up by customer.  member: likewise, on a plan of
\* NON_USAGE_PLAN_CODES.  nosub: mapped, no active subscription.  inherited:
\* only an ancestor tag is mapped (explicitly).  unmapped: nothing resolves.
Kinds == {"explicit", "auto", "member", "nosub", "inherited", "unmapped"}

FaultKinds == {"restart", "evict", "steve", "lookup", "reject", "lostAck", "db"}

ASSUME KindAssumption == Kind \in [Tx -> Kinds]
ASSUME FaultAssumption == Faults \subseteq FaultKinds /\ MaxFaults \in Nat
ASSUME BoundAssumption ==
    /\ MaxMeter \in Nat /\ MaxTime \in Nat
    /\ Jitter \in Nat /\ Tolerance \in Nat /\ MaxExposure \in Nat
    /\ FlushInterval \in Nat \ {0} /\ FlushThreshold \in Nat \ {0}
    /\ BatchSize \in Nat \ {0} /\ FlushInterval <= MaxTime
ASSUME LiveAssumption == LiveMetering \in BOOLEAN

VARIABLES
    meter,     \* charger: energy register of each session
    stopped,   \* StEvE: sessions with a stop timestamp
    seen,      \* highest sample of each session that reached the emitter
    now,       \* wall clock, in seconds
    mem,       \* emitter: the in-memory `state` map
    flush,     \* emitter: the flush in flight for each session, if any
    lago,      \* Lago: events accepted for each session
    row,       \* Postgres: transaction_sync_state
    audit,     \* Postgres: synced_transaction_events
    sync,      \* worker: the sweep in progress
    notified,  \* Postgres: session.complete notifications (2: two or more)
    exposure,  \* history: Wh the emitter is known to be able to count twice
    faults     \* faults so far

vars == << meter, stopped, seen, now, mem, flush, lago, row, audit, sync,
           notified, exposure, faults >>

emitterVars == << mem, flush >>
worldVars == << meter, stopped, seen, now >>
dbVars == << row, audit, notified >>

---------------------------------------------------------------------------
(* Data.                                                                   *)

\* An event's transaction_id is steve_tx_<t>_<second>, or steve_tx_<t>_final.
FINAL == 0
EventIds == 0 .. MaxTime

\* What has been recorded of a session's events: their ids, and the energy of
\* the incremental ones and of the true-up.
Ledgers == [ids : SUBSET EventIds, inc : Nat, trueUp : Nat]
EmptyLedger == [ids |-> {}, inc |-> 0, trueUp |-> 0]

\* A second event with a known id changes nothing: Lago's own deduplication,
\* and the emitter's ON CONFLICT DO NOTHING.
Post(ledger, id, wh) ==
    IF id \in ledger.ids THEN ledger
    ELSE [ids    |-> ledger.ids \cup {id},
          inc    |-> ledger.inc + (IF id = FINAL THEN 0 ELSE wh),
          trueUp |-> ledger.trueUp + (IF id = FINAL THEN wh ELSE 0)]

Energy(ledger) == ledger.inc + ledger.trueUp

\* TxBillingState.  `sub` stands for lagoSubscriptionExternalId # null.
TxStates == [tracked : BOOLEAN, start : Nat, last : Nat, total : Nat,
             pending : Nat, flushedAt : Nat, resolved : BOOLEAN, sub : BOOLEAN]
NoState == [tracked |-> FALSE, start |-> 0, last |-> 0, total |-> 0,
            pending |-> 0, flushedAt |-> 0, resolved |-> FALSE, sub |-> FALSE]

\* One call of flush(): where it is suspended and what it has captured.
Flushes == [pc : {"none", "resolve", "send", "persist"}, final : BOOLEAN,
            id : EventIds, wh : Nat]
NoFlush == [pc |-> "none", final |-> FALSE, id |-> 0, wh |-> 0]

Rows == [exists : BOOLEAN, total : Nat, final : BOOLEAN]
NoRow == [exists |-> FALSE, total |-> 0, final |-> FALSE]

\* One sweep: transactionsToSend not yet sent, those sent, transactionsSkipped
\* still to be saved, those to notify, and per session the kWh of its event
\* and the total its row will get, both fixed when the row was read.
SyncPcs == {"idle", "fetched", "sending", "skipping", "notifying"}
Sweeps == [pc : SyncPcs, fetched : SUBSET Tx, send : SUBSET Tx,
           ok : SUBSET Tx, skip : SUBSET Tx, notify : SUBSET Tx,
           delta : [Tx -> Nat], total : [Tx -> Nat]]
NoSweep == [pc |-> "idle", fetched |-> {}, send |-> {}, ok |-> {},
            skip |-> {}, notify |-> {}, delta |-> [t \in Tx |-> 0],
            total |-> [t \in Tx |-> 0]]

Init ==
    /\ meter = [t \in Tx |-> 0]
    /\ stopped = {}
    /\ seen = [t \in Tx |-> 0]
    /\ now = FlushInterval
    /\ mem = [t \in Tx |-> NoState]
    /\ flush = [t \in Tx |-> NoFlush]
    /\ lago = [t \in Tx |-> EmptyLedger]
    /\ row = [t \in Tx |-> NoRow]
    /\ audit = [t \in Tx |-> EmptyLedger]
    /\ sync = NoSweep
    /\ notified = [t \in Tx |-> 0]
    /\ exposure = [t \in Tx |-> 0]
    /\ faults = 0

Fault(k) == k \in Faults /\ faults < MaxFaults /\ faults' = faults + 1

---------------------------------------------------------------------------
(* The charger, StEvE and the clock.                                       *)

Charge(t) ==
    /\ t \notin stopped /\ meter[t] < MaxMeter
    /\ meter' = [meter EXCEPT ![t] = @ + 1]
    /\ UNCHANGED << stopped, seen, now, emitterVars, lago, dbVars, sync,
                    exposure, faults >>

Stop(t) ==
    /\ t \notin stopped
    /\ stopped' = stopped \cup {t}
    /\ UNCHANGED << meter, seen, now, emitterVars, lago, dbVars, sync,
                    exposure, faults >>

Tick ==
    /\ now < MaxTime
    /\ now' = now + 1
    /\ UNCHANGED << meter, stopped, seen, emitterVars, lago, dbVars, sync,
                    exposure, faults >>

---------------------------------------------------------------------------
(* The emitter: enqueueMeterSample, called by the MeterValues webhook.      *)
(* A sample carries any value the register has had: deliveries are lost,    *)
(* repeated by StEvE and, because the handler awaits a mapping lookup       *)
(* first, overtaken.  `final` is a Transaction.End sample.                  *)

Sample(t, wh, final) ==
    /\ LiveMetering
    /\ wh <= meter[t]
    /\ final => t \in stopped /\ wh = meter[t]

\* (mutant) The delta of a sample is not clamped at zero.
HigherUnclamped(a, b) == b

Higher(a, b) == IF a < b THEN b ELSE a

\* The first sample of a session the process does not know anchors it: it
\* bills nothing, and does not flush even when it is the final one.
EnqueueFirst(t, wh, final) ==
    /\ Sample(t, wh, final)
    /\ ~mem[t].tracked
    /\ mem' = [mem EXCEPT ![t] = [NoState EXCEPT !.tracked = TRUE,
                                                 !.start = wh, !.last = wh]]
    /\ seen' = [seen EXCEPT ![t] = Higher(@, wh)]
    /\ exposure' = [exposure EXCEPT ![t] = @ + (Higher(seen[t], wh) - wh)]
    /\ exposure'[t] <= MaxExposure
    /\ UNCHANGED << meter, stopped, now, flush, lago, dbVars, sync, faults >>

\* flush() returns at once when another is in flight, or when there is
\* nothing pending and the sample is not final.
StartFlush(t, pending, final) ==
    IF flush[t].pc = "none" /\ (pending > 0 \/ final)
    THEN flush' = [flush EXCEPT ![t] = [NoFlush EXCEPT !.pc = "resolve",
                                                       !.final = final]]
    ELSE UNCHANGED flush

\* A later sample; one more than Jitter below the last is dropped (no step).
EnqueueNext(t, wh, final) ==
    LET st == mem[t]
        pending == st.pending + (Higher(st.last, wh) - st.last)
        due == \/ final
               \/ now - st.flushedAt >= FlushInterval
               \/ pending >= FlushThreshold
    IN  /\ Sample(t, wh, final)
        /\ st.tracked /\ wh + Jitter >= st.last
        /\ mem' = [mem EXCEPT ![t].last = wh, ![t].pending = pending]
        /\ seen' = [seen EXCEPT ![t] = Higher(@, wh)]
        /\ exposure' = [exposure EXCEPT ![t] = @ + (Higher(st.last, wh) - wh)]
        /\ exposure'[t] <= MaxExposure
        /\ IF due THEN StartFlush(t, pending, final) ELSE UNCHANGED flush
        /\ UNCHANGED << meter, stopped, now, lago, dbVars, sync, faults >>

---------------------------------------------------------------------------
(* The emitter: flush(), one action per await, and the 15 s sweep timer.    *)

SweepFlush(t) ==
    /\ mem[t].tracked /\ mem[t].pending > 0
    /\ now - mem[t].flushedAt >= FlushInterval
    /\ flush[t].pc = "none"
    /\ StartFlush(t, mem[t].pending, FALSE)
    /\ UNCHANGED << worldVars, mem, lago, dbVars, sync, exposure, faults >>

\* No sample for STATE_TTL_MS, or the oldest of STATE_CAP sessions.
Evict(t) ==
    /\ Fault("evict")
    /\ mem[t].tracked /\ flush[t].pc = "none"
    /\ mem' = [mem EXCEPT ![t] = NoState]
    /\ UNCHANGED << worldVars, flush, lago, dbVars, sync, exposure >>

\* The end of resolveBillingContext: an unbillable flush drops the delta.
\* The event is built from what is pending now, and named by this second.
Resolved(t, resolved, sub, billable) ==
    /\ flush[t].pc = "resolve"
    /\ mem' = [mem EXCEPT ![t].resolved = resolved, ![t].sub = sub,
                          ![t].pending = IF billable THEN @ ELSE 0]
    /\ flush' = [flush EXCEPT ![t] =
                    IF billable
                    THEN [@ EXCEPT !.pc = "send", !.id = now,
                                   !.wh = mem[t].pending]
                    ELSE NoFlush]
    /\ UNCHANGED << worldVars, lago, dbVars, sync, exposure >>

\* Once resolved, having a subscription is enough; the plan is not asked again.
FlushResolveCached(t) ==
    /\ mem[t].resolved
    /\ Resolved(t, TRUE, mem[t].sub, mem[t].sub)
    /\ UNCHANGED faults

FlushResolve(t) ==
    /\ ~mem[t].resolved
    /\ Resolved(t, TRUE, Kind[t] \in {"explicit", "auto", "member"},
                         Kind[t] \in {"explicit", "auto"})
    /\ UNCHANGED faults

\* StEvE or Postgres threw: the next flush resolves again.
FlushResolveThrows(t) ==
    /\ ~mem[t].resolved /\ Fault("steve")
    /\ Resolved(t, FALSE, FALSE, FALSE)

\* resolveSubscription swallowed a Lago failure: `resolved` stays true.
FlushLookupFails(t) ==
    /\ ~mem[t].resolved /\ Kind[t] \in {"auto", "member"} /\ Fault("lookup")
    /\ Resolved(t, TRUE, FALSE, FALSE)

FlushSend(t) ==
    /\ flush[t].pc = "send"
    /\ lago' = [lago EXCEPT ![t] = Post(@, flush[t].id, flush[t].wh)]
    /\ flush' = [flush EXCEPT ![t].pc = "persist"]
    /\ UNCHANGED << worldVars, mem, dbVars, sync, exposure, faults >>

\* (mutant) The catch block falls through to persistFlush.
FlushSendFailsUnnoticed(t) ==
    /\ flush[t].pc = "send" /\ Fault("reject")
    /\ flush' = [flush EXCEPT ![t].pc = "persist"]
    /\ UNCHANGED << worldVars, mem, lago, dbVars, sync, exposure >>

\* createBatchEvents threw and Lago has nothing: the delta stays pending.
FlushSendFails(t) ==
    /\ flush[t].pc = "send" /\ Fault("reject")
    /\ flush' = [flush EXCEPT ![t] = NoFlush]
    /\ UNCHANGED << worldVars, mem, lago, dbVars, sync, exposure >>

\* createBatchEvents threw after Lago had accepted the event.
FlushSendLost(t) ==
    /\ flush[t].pc = "send" /\ Fault("lostAck")
    /\ lago' = [lago EXCEPT ![t] = Post(@, flush[t].id, flush[t].wh)]
    /\ flush' = [flush EXCEPT ![t] = NoFlush]
    /\ exposure' = [exposure EXCEPT ![t] = @ + flush[t].wh]
    /\ UNCHANGED << worldVars, mem, dbVars, sync >>

\* (mutant) The pending delta survives the flush that billed it.
FlushPersistKeepsPending(t) ==
    LET f == flush[t]
        total == mem[t].total + f.wh
    IN  /\ f.pc = "persist"
        /\ row' = [row EXCEPT ![t] = [exists |-> TRUE, total |-> total,
                                      final |-> f.final]]
        /\ audit' = [audit EXCEPT ![t] = Post(@, f.id, f.wh)]
        /\ mem' = [mem EXCEPT ![t] =
                     IF f.final THEN NoState
                     ELSE [@ EXCEPT !.total = total, !.flushedAt = f.id]]
        /\ flush' = [flush EXCEPT ![t] = NoFlush]
        /\ UNCHANGED << worldVars, lago, notified, sync, exposure, faults >>

\* persistFlush and the bookkeeping after it.  What was queued since the event
\* was built is discarded; a final flush forgets the session.
FlushPersist(t) ==
    LET f == flush[t]
        total == mem[t].total + f.wh
    IN  /\ f.pc = "persist"
        /\ row' = [row EXCEPT ![t] = [exists |-> TRUE, total |-> total,
                                      final |-> f.final]]
        /\ audit' = [audit EXCEPT ![t] = Post(@, f.id, f.wh)]
        /\ mem' = [mem EXCEPT ![t] =
                     IF f.final THEN NoState
                     ELSE [@ EXCEPT !.total = total, !.pending = 0,
                                    !.flushedAt = f.id]]
        /\ flush' = [flush EXCEPT ![t] = NoFlush]
        /\ UNCHANGED << worldVars, lago, notified, sync, exposure, faults >>

FlushPersistFails(t) ==
    /\ flush[t].pc = "persist" /\ Fault("db")
    /\ flush' = [flush EXCEPT ![t] = NoFlush]
    /\ exposure' = [exposure EXCEPT ![t] = @ + flush[t].wh]
    /\ UNCHANGED << worldVars, mem, lago, dbVars, sync >>

\* The web process restarts: the buffers and the flushes in flight are gone.
RestartWeb ==
    /\ Fault("restart")
    /\ mem' = [t \in Tx |-> NoState]
    /\ flush' = [t \in Tx |-> NoFlush]
    /\ UNCHANGED << worldVars, lago, dbVars, sync, exposure >>

---------------------------------------------------------------------------
(* The sweep: runSync.                                                     *)

SyncBegin ==
    /\ sync.pc = "idle"
    /\ sync' = [NoSweep EXCEPT !.pc = "fetched", !.fetched = stopped]
    /\ UNCHANGED << worldVars, emitterVars, lago, dbVars, exposure, faults >>

\* (mutant) Finalized sessions are processed again.
UnsettledOrFinal(t) == Kind[t] # "unmapped" /\ meter[t] > 0

\* Not finalized, mapped (directly or by inheritance), and with usage.
Unsettled(t) == ~row[t].final /\ Kind[t] # "unmapped" /\ meter[t] > 0

\* (mutant) The plan code is not looked at.
SubscribedToAny(k) == k \in {"explicit", "auto", "inherited", "member"}

\* A subscription was found and its plan is billed by usage.
UsageBilled(k) == k \in {"explicit", "auto", "inherited"}

\* getSyncStates, then processTransaction on each.  `outage` are the sessions
\* whose subscription lookup fails, which resolveSubscription reports as none.
SyncPlan(outage) ==
    LET work == {t \in sync.fetched : Unsettled(t)}
        left(t) == meter[t] - row[t].total
        covered == {t \in work : left(t) <= Tolerance}
        send == {t \in work \ covered : UsageBilled(Kind[t])} \ outage
        delta == [t \in Tx |-> IF t \in work \ covered THEN left(t) ELSE 0]
    IN  /\ sync.pc = "fetched"
        /\ outage \subseteq {t \in work : Kind[t] \in {"auto", "member"}}
        /\ IF outage = {} THEN UNCHANGED faults ELSE Fault("lookup")
        /\ sync' = [sync EXCEPT
                      !.pc = IF send = {} THEN "skipping" ELSE "sending",
                      !.send = send, !.skip = work \ send,
                      !.delta = delta,
                      !.total = [t \in Tx |-> row[t].total + delta[t]]]
        /\ UNCHANGED << worldVars, emitterVars, lago, dbVars, exposure >>

NextBatch(b) ==
    /\ sync.pc = "sending"
    /\ b \subseteq sync.send /\ b # {}
    /\ Cardinality(b) = BatchSize \/ (b = sync.send /\ Cardinality(b) < BatchSize)

\* (mutant) An event that is sent again is named by the second it is sent.
PostFinalsFreshly(b) ==
    lago' = [t \in Tx |->
               IF t \in b
               THEN Post(lago[t], IF FINAL \in lago[t].ids THEN now ELSE FINAL,
                         sync.delta[t])
               ELSE lago[t]]

PostFinals(b) ==
    lago' = [t \in Tx |-> IF t \in b THEN Post(lago[t], FINAL, sync.delta[t])
                                     ELSE lago[t]]

SyncSendBatch(b) ==
    /\ NextBatch(b)
    /\ PostFinals(b)
    /\ sync' = [sync EXCEPT !.send = @ \ b, !.ok = @ \cup b]
    /\ UNCHANGED << worldVars, emitterVars, dbVars, exposure, faults >>

\* (mutant) A batch counts as sent once its retries are exhausted.
SyncBatchFailsUnnoticed(b) ==
    /\ NextBatch(b)
    /\ Fault("reject") /\ UNCHANGED lago
    /\ sync' = [sync EXCEPT !.send = @ \ b, !.ok = @ \cup b]
    /\ UNCHANGED << worldVars, emitterVars, dbVars, exposure >>

\* All the attempts of a batch threw; the last may have been accepted.
SyncBatchFails(b) ==
    /\ NextBatch(b)
    /\ \/ Fault("reject") /\ UNCHANGED lago
       \/ Fault("lostAck") /\ PostFinals(b)
    /\ sync' = [sync EXCEPT !.send = @ \ b]
    /\ UNCHANGED << worldVars, emitterVars, dbVars, exposure >>

\* The row a sweep upserts: the total it computed from its snapshot.
SweptRow(t) == [exists |-> TRUE, total |-> sync.total[t], final |-> TRUE]

\* (mutant) The rows are committed without their audit records.
SyncPersistRowsOnly ==
    LET done == sync.ok \cup sync.skip
    IN  /\ sync.pc = "sending" /\ sync.send = {}
        /\ row' = [t \in Tx |-> IF t \in done THEN SweptRow(t) ELSE row[t]]
        /\ sync' = [NoSweep EXCEPT !.pc = "notifying", !.notify = done]
        /\ UNCHANGED << worldVars, emitterVars, lago, audit, notified, exposure,
                        faults >>

\* atomicUpsertSyncStatesAndCreateEvents: rows and audit together, unless an
\* audit id is already there, which aborts the transaction and the run.
SyncPersist ==
    LET done == sync.ok \cup sync.skip
    IN  /\ sync.pc = "sending" /\ sync.send = {}
        /\ \A t \in sync.ok : FINAL \notin audit[t].ids
        /\ row' = [t \in Tx |-> IF t \in done THEN SweptRow(t) ELSE row[t]]
        /\ audit' = [t \in Tx |-> IF t \in sync.ok
                                  THEN Post(audit[t], FINAL, sync.delta[t])
                                  ELSE audit[t]]
        /\ sync' = [NoSweep EXCEPT !.pc = "notifying", !.notify = done]
        /\ UNCHANGED << worldVars, emitterVars, lago, notified, exposure, faults >>

SyncConflict ==
    /\ sync.pc = "sending" /\ sync.send = {}
    /\ \E t \in sync.ok : FINAL \in audit[t].ids
    /\ sync' = NoSweep
    /\ UNCHANGED << worldVars, emitterVars, lago, dbVars, exposure, faults >>

\* With nothing to send the rows are upserted one by one, each committed.
SyncSaveSkipped(t) ==
    /\ sync.pc = "skipping" /\ t \in sync.skip
    /\ row' = [row EXCEPT ![t] = SweptRow(t)]
    /\ sync' = [sync EXCEPT !.skip = @ \ {t}, !.notify = @ \cup {t}]
    /\ UNCHANGED << worldVars, emitterVars, lago, audit, notified, exposure,
                    faults >>

SyncSkippedSaved ==
    /\ sync.pc = "skipping" /\ sync.skip = {}
    /\ sync' = [sync EXCEPT !.pc = "notifying"]
    /\ UNCHANGED << worldVars, emitterVars, lago, dbVars, exposure, faults >>

\* notifyFinalizedTransactions.  The snapshot had none of them finalized.
SyncNotify(t) ==
    /\ sync.pc = "notifying" /\ t \in sync.notify
    /\ notified' = [notified EXCEPT ![t] = IF @ < 2 THEN @ + 1 ELSE @]
    /\ sync' = [sync EXCEPT !.notify = @ \ {t}]
    /\ UNCHANGED << worldVars, emitterVars, lago, row, audit, exposure, faults >>

SyncDone ==
    /\ sync.pc = "notifying" /\ sync.notify = {}
    /\ sync' = NoSweep
    /\ UNCHANGED << worldVars, emitterVars, lago, dbVars, exposure, faults >>

\* (mutant) A failed run reopens the sessions it has just finalized.
SyncAbortsAndReopens ==
    /\ sync.pc # "idle"
    /\ Fault("restart") \/ Fault("db")
    /\ row' = [t \in Tx |-> IF t \in sync.notify
                            THEN [row[t] EXCEPT !.final = FALSE] ELSE row[t]]
    /\ sync' = NoSweep
    /\ UNCHANGED << worldVars, emitterVars, lago, audit, notified, exposure >>

\* (mutant) A failed run stays marked as running.
SyncAbortsLocked ==
    /\ sync.pc # "idle"
    /\ Fault("restart") \/ Fault("db")
    /\ sync' = [NoSweep EXCEPT !.pc = "locked"]
    /\ UNCHANGED << worldVars, emitterVars, lago, dbVars, exposure >>

\* The worker dies, or a database call of the sweep throws: the rest of the
\* run is abandoned.
SyncAborts ==
    /\ sync.pc # "idle"
    /\ Fault("restart") \/ Fault("db")
    /\ sync' = NoSweep
    /\ UNCHANGED << worldVars, emitterVars, lago, dbVars, exposure >>

---------------------------------------------------------------------------
Environment(t) == Charge(t) \/ Stop(t)

Enqueue(t) ==
    \E wh \in 0 .. MaxMeter, final \in BOOLEAN :
        EnqueueFirst(t, wh, final) \/ EnqueueNext(t, wh, final)

FlushStep(t) ==
    \/ FlushResolveCached(t) \/ FlushResolve(t)
    \/ FlushSend(t) \/ FlushPersist(t)

FlushFault(t) ==
    \/ FlushResolveThrows(t) \/ FlushLookupFails(t)
    \/ FlushSendFails(t) \/ FlushSendLost(t) \/ FlushPersistFails(t)

SyncStep ==
    \/ SyncBegin
    \/ SyncPlan({})
    \/ \E b \in SUBSET Tx : SyncSendBatch(b)
    \/ SyncPersist \/ SyncConflict
    \/ \E t \in Tx : SyncSaveSkipped(t) \/ SyncNotify(t)
    \/ SyncSkippedSaved \/ SyncDone

SyncFault ==
    \/ \E outage \in SUBSET Tx : outage # {} /\ SyncPlan(outage)
    \/ \E b \in SUBSET Tx : SyncBatchFails(b)
    \/ SyncAborts

Next ==
    \/ Tick
    \/ \E t \in Tx : Environment(t) \/ Enqueue(t)
    \/ \E t \in Tx : SweepFlush(t) \/ Evict(t) \/ FlushStep(t) \/ FlushFault(t)
    \/ RestartWeb
    \/ SyncStep
    \/ SyncFault

Spec == Init /\ [][Next]_vars

\* The cron keeps firing and a run that is not interrupted goes on.
FairSpec == Spec /\ WF_vars(SyncStep)

---------------------------------------------------------------------------
(* Properties.                                                             *)

TypeOK ==
    /\ meter \in [Tx -> Nat] /\ stopped \in SUBSET Tx
    /\ seen \in [Tx -> Nat] /\ now \in EventIds
    /\ mem \in [Tx -> TxStates] /\ flush \in [Tx -> Flushes]
    /\ lago \in [Tx -> Ledgers] /\ audit \in [Tx -> Ledgers]
    /\ row \in [Tx -> Rows] /\ sync \in Sweeps
    /\ notified \in [Tx -> 0 .. 2] /\ exposure \in [Tx -> Nat]
    /\ faults \in Nat

\* The audit table never claims an event Lago has not accepted, whatever
\* crashes, timeouts and rollbacks come between the POST and the INSERT: both
\* billers record only after the send returned.
AuditedEventsWereSent ==
    \A t \in Tx : audit[t].ids \subseteq lago[t].ids

\* The emitter bills each Wh at most once across flushes, retries, evictions
\* and restarts, except the Wh it re-reads when a sample goes back (the 50 Wh
\* jitter window, or re-anchoring below what a lost buffer had seen) and the
\* flushes whose acknowledgement or commit was lost.
DoubleBillingBounded ==
    \A t \in Tx : lago[t].inc <= seen[t] + exposure[t]

\* Once the sweep has its answer a finalized session is exactly billed, to the
\* 1 Wh tolerance: nothing is billed twice by a retry after a lost answer or a
\* crash before the commit, nothing is finalized before Lago has it.
Billable(t) == Kind[t] \in {"explicit", "auto", "inherited"}

FinalizedMeansBilled ==
    \A t \in Tx : row[t].final /\ Billable(t) =>
        /\ Energy(lago[t]) <= meter[t]
        /\ Energy(lago[t]) + Tolerance >= meter[t]

\* A plan of NON_USAGE_PLAN_CODES is never billed by the kWh.
MembersNotBilled ==
    \A t \in Tx : Kind[t] = "member" => Energy(lago[t]) = 0

\* totalKwhBilled is the sum of the events recorded for the session.
RowIsRunningSum ==
    \A t \in Tx : Billable(t) => row[t].total = Energy(audit[t])

\* A customer is told once that a session has ended.
NotifiedAtMostOnce ==
    \A t \in Tx : notified[t] <= 1

\* "True when the transaction is complete and no more billing will occur": the
\* row stays as it is and Lago's usage for the session no longer moves.
FinalizedForever ==
    [][\A t \in Tx : row[t].final =>
          row'[t] = row[t] /\ Energy(lago'[t]) = Energy(lago[t])]_vars

\* A completed session with a mapping and a meter delta is finalized in the
\* end: failed batches, crashes and aborted runs are taken up by a later run.
StoppedIsFinalized ==
    \A t \in Tx :
        (t \in stopped /\ meter[t] > 0 /\ Kind[t] # "unmapped") ~> row[t].final

\* The abstract ledger, as the sweep keeps it: what Lago has accepted is what
\* a session is charged, and is_finalized is what settles it.
Ledger == INSTANCE BillingLedger WITH
    Session <- Tx,
    Payable <- {t \in Tx : Billable(t)},
    Known   <- {t \in Tx : Kind[t] # "unmapped"},
    used    <- meter,
    ended   <- stopped,
    charged <- [t \in Tx |-> Energy(lago[t])],
    settled <- {t \in Tx : row[t].final}

\* The sweep implements the ledger: batches, retries, lost answers, crashes and
\* aborted commits never charge a session twice, for less than it used or
\* after its settlement.
LedgerKept == Ledger!Spec
=============================================================================
