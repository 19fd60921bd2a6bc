----------------------------- MODULE SyncWorker -----------------------------
(***************************************************************************)
(* When the sweep of MeterBilling runs: the worker process (sync-worker.ts),*)
(* its adaptive scheduler (sync-scheduler.ts), the sync_runs row that keeps *)
(* runs apart (sync-db.ts), and what the admin pages do to them through     *)
(* Postgres (pin.ts, trigger.ts).                                          *)
(*                                                                         *)
(* Three kinds of concurrency meet here.  The worker is one event loop, but *)
(* its handlers suspend at every await, so a cron tick and NOTIFY messages  *)
(* interleave.  The sync_schedule_state row is written by the worker and by *)
(* the admin API.  And the worker dies and restarts with a run half done.   *)
(*                                                                         *)
(* What a run does to a session is MeterBilling's subject; here a run that  *)
(* fetches a session is one that sweeps it.  One unit of time is the Active *)
(* period.  A run takes less than that.                                    *)
(***************************************************************************)
EXTENDS Integers, FiniteSets

CONSTANTS
    Sessions,       \* charging sessions
    Triggers,       \* NOTIFY messages the worker may be handling at once
    Every,          \* Every[tier]: period of the tier's cron pattern
    Lookback,       \* SYNC_LOOKBACK_MINUTES
    StaleAfter,     \* STALE_SYNC_TIMEOUT_MS
    IdleTicks,      \* SYNC_IDLE_HYSTERESIS_TICKS
    PinLength,      \* how long an admin pin lasts
    NoTier,         \* pinned_tier IS NULL, or no cron installed
    MaxTime,        \* bound: last moment of the run
    MaxTriggers,    \* bound: NOTIFY messages and pins
    Faults,         \* the fault classes of this run
    MaxFaults       \* bound: faults in one behaviour

Tiers == {"active", "idle", "dormant"}
Rank == [active |-> 0, idle |-> 1, dormant |-> 2]
FaultKinds == {"crash", "fetch", "probe", "db"}

ASSUME PeriodAssumption ==
    /\ Every \in [Tiers -> Nat \ {0}]
    /\ \A tier \in Tiers : Every[tier] <= Every["dormant"]
ASSUME NoTierAssumption == NoTier \notin Tiers
ASSUME LimitAssumption ==
    /\ Lookback \in Nat /\ StaleAfter \in Nat /\ IdleTicks \in Nat \ {0}
    /\ PinLength \in Nat \ {0} /\ MaxTime \in Nat /\ MaxTriggers \in Nat
    /\ MaxFaults \in Nat /\ Faults \subseteq FaultKinds

VARIABLES
    now,        \* the clock (Postgres's now(); the worker's agrees)
    session,    \* StEvE: "none", "charging" or "stopped"
    stopAt,     \* StEvE: when each session stopped
    recent,     \* Postgres: a tag_change_log row of the last 30 days exists
    sched,      \* Postgres: sync_schedule_state
    lock,       \* Postgres: the sync_runs row with status "running", if any
    swept,      \* sessions a completed fetch has returned
    up,         \* is the worker process running
    cron,       \* worker: the installed Croner job
    isSyncing,  \* worker: module flag of sync-worker.ts
    running,    \* worker: SyncSchedulerImpl.running
    call,       \* worker: the handlers in flight, one per cron tick or NOTIFY
    triggers, faults

vars == << now, session, stopAt, recent, sched, lock, swept, up, cron,
           isSyncing, running, call, triggers, faults >>
world == << session, stopAt, recent >>
procVars == << up, cron, isSyncing, running, call >>

Callers == Triggers \cup {"cron"}

\* One handler: where it is suspended, and the row it read before probing.
\* bump, load, install: onActivityDetected.  run, fetch, finish: runSync.
\* eval to arm: evaluateAndReschedule.
Pcs == {"none", "bump", "load", "install", "run", "create", "fetch",
        "finish", "eval", "probe", "write", "pinned", "arm"}
Calls == [pc : Pcs, tier : Tiers, ticks : Nat, active : BOOLEAN, quiet : BOOLEAN]
NoCall == [pc |-> "none", tier |-> "idle", ticks |-> 0, active |-> FALSE,
           quiet |-> FALSE]

Crons == [tier : Tiers \cup {NoTier}, at : Nat]
NoLock == [held |-> FALSE, since |-> 0]
NoCron == [tier |-> NoTier, at |-> 0]

\* nextRun() of a fresh Cron: the first multiple of the period after now.
NextRun(tier) == ((now \div Every[tier]) + 1) * Every[tier]

PinActive == sched.pin # NoTier /\ sched.pinUntil > now
EffectiveTier == IF PinActive THEN sched.pin ELSE sched.tier

Init ==
    /\ now = 0
    /\ session = [s \in Sessions |-> "none"]
    /\ stopAt = [s \in Sessions |-> 0]
    /\ recent \in BOOLEAN
    /\ sched = [tier |-> "idle", ticks |-> 0, nextAt |-> 0,
                pin |-> NoTier, pinUntil |-> 0]
    /\ lock = NoLock
    /\ swept = {}
    /\ up = TRUE /\ cron = [tier |-> "idle", at |-> Every["idle"]]
    /\ isSyncing = FALSE /\ running = FALSE
    /\ call = [c \in Callers |-> NoCall]
    /\ triggers = 0 /\ faults = 0

Fault(k) == k \in Faults /\ faults < MaxFaults /\ faults' = faults + 1

Quiescent == \A c \in Callers : call[c].pc = "none"

---------------------------------------------------------------------------
(* StEvE, the clock and the admin pages.                                   *)

\* Time does not pass an armed cron, nor a run: a run is shorter than a tick.
\* Nor does a dead worker see a tick: its container restarts it sooner.
Tick ==
    /\ now < MaxTime /\ Quiescent
    /\ up /\ (cron.tier = NoTier \/ now < cron.at)
    /\ now' = now + 1
    /\ UNCHANGED << world, sched, lock, swept, procVars, triggers,
                    faults >>

StartSession(s) ==
    /\ session[s] = "none"
    /\ session' = [session EXCEPT ![s] = "charging"]
    /\ UNCHANGED << now, stopAt, recent, sched, lock, swept, procVars,
                    triggers, faults >>

StopSession(s) ==
    /\ session[s] = "charging"
    /\ session' = [session EXCEPT ![s] = "stopped"]
    /\ stopAt' = [stopAt EXCEPT ![s] = now]
    /\ UNCHANGED << now, recent, sched, lock, swept, procVars, triggers, faults >>

\* The last tag change turns 30 days old.
TagChangeAges ==
    /\ recent
    /\ recent' = FALSE
    /\ UNCHANGED << now, session, stopAt, sched, lock, swept, procVars,
                    triggers, faults >>

Pin(tier) ==
    /\ triggers < MaxTriggers
    /\ triggers' = triggers + 1
    /\ sched' = [sched EXCEPT !.pin = tier, !.pinUntil = now + PinLength]
    /\ UNCHANGED << now, world, lock, swept, procVars, faults >>

Unpin ==
    /\ sched.pin # NoTier
    /\ sched' = [sched EXCEPT !.pin = NoTier, !.pinUntil = 0]
    /\ UNCHANGED << now, world, lock, swept, procVars, triggers,
                    faults >>

\* NOTIFY sync_trigger: lost when nobody listens, else it starts a handler.
Notify(c) ==
    /\ triggers < MaxTriggers
    /\ triggers' = triggers + 1
    /\ IF up THEN /\ call[c].pc = "none"
                  /\ call' = [call EXCEPT ![c].pc = "bump"]
             ELSE UNCHANGED call
    /\ UNCHANGED << now, world, sched, lock, swept, up, cron, isSyncing,
                    running, faults >>

---------------------------------------------------------------------------
(* onActivityDetected: a NOTIFY moves the row to Active, then reads it back *)
(* and re-arms the cron.                                                   *)

Goto(c, pc) == call' = [call EXCEPT ![c].pc = pc]

BumpActive(c) ==
    /\ call[c].pc = "bump"
    /\ sched' = [sched EXCEPT !.tier = "active", !.ticks = 0,
                              !.nextAt = now + Every["active"]]
    /\ Goto(c, "load")
    /\ UNCHANGED << now, world, lock, swept, up, cron, isSyncing, running,
                    triggers, faults >>

BumpLoad(c) ==
    /\ call[c].pc = "load"
    /\ call' = [call EXCEPT ![c].pc = "install", ![c].tier = EffectiveTier]
    /\ UNCHANGED << now, world, sched, lock, swept, up, cron, isSyncing,
                    running, triggers, faults >>

\* (mutant) handleSync does not look at isSyncing.
StartSyncAlways(c) ==
    /\ Goto(c, "run")
    /\ isSyncing' = TRUE
    /\ running' = IF c = "cron" THEN TRUE ELSE running

\* handleSync: nothing to do when a sync is in progress.
StartSync(c) ==
    IF isSyncing
    THEN /\ Goto(c, "none")
         /\ running' = IF c = "cron" THEN FALSE ELSE running
         /\ UNCHANGED isSyncing
    ELSE /\ Goto(c, "run")
         /\ isSyncing' = TRUE
         /\ running' = IF c = "cron" THEN TRUE ELSE running

BumpInstall(c) ==
    /\ call[c].pc = "install"
    /\ cron' = [tier |-> call[c].tier, at |-> NextRun(call[c].tier)]
    /\ StartSync(c)
    /\ UNCHANGED << now, world, sched, lock, swept, up, triggers,
                    faults >>

\* The bump throws: the handler runs all the same.
BumpThrows(c) ==
    /\ call[c].pc \in {"bump", "load"} /\ Fault("db")
    /\ StartSync(c)
    /\ UNCHANGED << now, world, sched, lock, swept, up, cron, triggers >>

\* The cron fires: runHandlerSafe skips the tick when a handler is running.
CronFires ==
    /\ up /\ cron.tier # NoTier /\ now >= cron.at
    /\ cron' = [cron EXCEPT !.at = NextRun(cron.tier)]
    /\ IF running THEN UNCHANGED << call, isSyncing, running >>
                  ELSE StartSync("cron")
    /\ UNCHANGED << now, world, sched, lock, swept, up, triggers,
                    faults >>

---------------------------------------------------------------------------
(* runSync, as far as the lock and the lookback go.                        *)

\* (mutant) A running row turns every run away, however old it is.
CheckLockForever(c) ==
    /\ call[c].pc = "run"
    /\ IF lock.held
       THEN Goto(c, "eval") /\ isSyncing' = FALSE /\ UNCHANGED lock
       ELSE Goto(c, "create") /\ lock' = NoLock /\ UNCHANGED isSyncing
    /\ UNCHANGED << now, world, sched, swept, up, cron, running, triggers,
                    faults >>

\* getRunningSync: a fresh running row turns the run away, a stale one is
\* marked failed.
CheckLock(c) ==
    /\ call[c].pc = "run"
    /\ IF lock.held /\ now - lock.since <= StaleAfter
       THEN Goto(c, "eval") /\ isSyncing' = FALSE /\ UNCHANGED lock
       ELSE Goto(c, "create") /\ lock' = NoLock /\ UNCHANGED isSyncing
    /\ UNCHANGED << now, world, sched, swept, up, cron, running, triggers,
                    faults >>

\* createSyncRun, a separate statement: the row does not exclude by itself.
CreateRun(c) ==
    /\ call[c].pc = "create"
    /\ lock' = [held |-> TRUE, since |-> now]
    /\ Goto(c, "fetch")
    /\ UNCHANGED << now, world, sched, swept, up, cron, isSyncing, running,
                    triggers, faults >>

\* A query on sync_runs throws, in the catch block too: the row stays.
RunThrows(c) ==
    /\ call[c].pc \in {"run", "create", "finish"} /\ Fault("db")
    /\ isSyncing' = FALSE
    /\ Goto(c, "eval")
    /\ UNCHANGED << now, world, sched, lock, swept, up, cron, running, triggers >>

InLookback(s) == session[s] = "stopped" /\ stopAt[s] + Lookback >= now

Fetch(c) ==
    /\ call[c].pc = "fetch"
    /\ swept' = swept \cup {s \in Sessions : InLookback(s)}
    /\ Goto(c, "finish")
    /\ UNCHANGED << now, world, sched, lock, up, cron, isSyncing, running,
                    triggers, faults >>

\* A call to StEvE throws: markSyncFailed.
FetchFails(c) ==
    /\ call[c].pc = "fetch" /\ Fault("fetch")
    /\ Goto(c, "finish")
    /\ UNCHANGED << now, world, sched, lock, swept, up, cron, isSyncing,
                    running, triggers >>

\* markSyncComplete or markSyncFailed, then handleSync's finally block.
FinishRun(c) ==
    /\ call[c].pc = "finish"
    /\ lock' = NoLock
    /\ isSyncing' = FALSE
    /\ Goto(c, "eval")
    /\ UNCHANGED << now, world, sched, swept, up, cron, running, triggers, faults >>

---------------------------------------------------------------------------
(* evaluateAndReschedule: the row is read, StEvE and the log are probed, the *)
(* row is written, the cron is re-armed, with an await between each two.    *)

\* (mutant) The pinned_tier column is taken without asking if it is in force.
EvalLoadRawPin(c) ==
    /\ call[c].pc = "eval"
    /\ call' = [call EXCEPT ![c].pc = IF PinActive THEN "pinned" ELSE "probe",
                            ![c].tier = sched.pin,
                            ![c].ticks = sched.ticks]
    /\ UNCHANGED << now, world, sched, lock, swept, up, cron, isSyncing,
                    running, triggers, faults >>

EvalLoad(c) ==
    /\ call[c].pc = "eval"
    /\ call' = [call EXCEPT ![c].pc = IF PinActive THEN "pinned" ELSE "probe",
                            ![c].tier = EffectiveTier,
                            ![c].ticks = sched.ticks]
    /\ UNCHANGED << now, world, sched, lock, swept, up, cron, isSyncing,
                    running, triggers, faults >>

\* hasActiveSignal, which answers no when its calls throw, and
\* hasRecentActivity, which asks tag_change_log only.
Probed(c, active) ==
    /\ call[c].pc = "probe"
    /\ call' = [call EXCEPT ![c].pc = "write", ![c].active = active,
                            ![c].quiet = ~recent]
    /\ UNCHANGED << now, world, sched, lock, swept, up, cron, isSyncing,
                    running, triggers >>

EvalProbe(c) ==
    /\ Probed(c, \E s \in Sessions : session[s] = "charging")
    /\ UNCHANGED faults

EvalProbeFails(c) == Fault("probe") /\ Probed(c, FALSE)

Target(c) == IF call[c].active THEN "active"
             ELSE IF call[c].quiet THEN "dormant" ELSE "idle"

\* Hysteresis, on the tier and the tick count read before the probes.
EvalWrite(c) ==
    LET demoting == Rank[Target(c)] > Rank[call[c].tier]
        held == demoting /\ call[c].ticks + 1 < IdleTicks
        tier == IF held THEN call[c].tier ELSE Target(c)
    IN  /\ call[c].pc = "write"
        /\ sched' = [sched EXCEPT !.tier = tier,
                                  !.ticks = IF held THEN call[c].ticks + 1 ELSE 0,
                                  !.nextAt = NextRun(tier)]
        /\ call' = [call EXCEPT ![c].pc = "arm", ![c].tier = tier]
        /\ UNCHANGED << now, world, lock, swept, up, cron, isSyncing, running,
                        triggers, faults >>

\* Under a pin the row takes the pinned tier; the tick count stays.
EvalWritePinned(c) ==
    /\ call[c].pc = "pinned"
    /\ sched' = [sched EXCEPT !.tier = call[c].tier,
                              !.nextAt = NextRun(call[c].tier)]
    /\ Goto(c, "arm")
    /\ UNCHANGED << now, world, lock, swept, up, cron, isSyncing, running,
                    triggers, faults >>

EndCall(c) ==
    /\ call' = [call EXCEPT ![c] = NoCall]
    /\ running' = IF c = "cron" THEN FALSE ELSE running

EvalArm(c) ==
    /\ call[c].pc = "arm"
    /\ cron' = [tier |-> call[c].tier, at |-> NextRun(call[c].tier)]
    /\ EndCall(c)
    /\ UNCHANGED << now, world, sched, lock, swept, up, isSyncing, triggers, faults >>

\* (mutant) The old cron was stopped before the evaluation.
EvalThrowsUnarmed(c) ==
    /\ call[c].pc \in {"eval", "probe", "write", "pinned"} /\ Fault("db")
    /\ cron' = NoCron
    /\ EndCall(c)
    /\ UNCHANGED << now, world, sched, lock, swept, up, isSyncing, triggers >>

\* A query of the evaluation throws: the old cron stays.
EvalThrows(c) ==
    /\ call[c].pc \in {"eval", "probe", "write", "pinned"} /\ Fault("db")
    /\ EndCall(c)
    /\ UNCHANGED << now, world, sched, lock, swept, up, cron, isSyncing,
                    triggers >>

---------------------------------------------------------------------------
(* The process.                                                            *)

Crash ==
    /\ up /\ Fault("crash")
    /\ up' = FALSE /\ cron' = NoCron
    /\ isSyncing' = FALSE /\ running' = FALSE
    /\ call' = [c \in Callers |-> NoCall]
    /\ UNCHANGED << now, world, sched, lock, swept, triggers >>

\* SyncScheduler.start: a run that is overdue is started at once.
Boot ==
    /\ ~up
    /\ up' = TRUE
    /\ cron' = [tier |-> EffectiveTier, at |-> NextRun(EffectiveTier)]
    /\ IF sched.nextAt # 0 /\ sched.nextAt <= now
       THEN StartSync("cron")
       ELSE UNCHANGED << call, isSyncing, running >>
    /\ UNCHANGED << now, world, sched, lock, swept, triggers,
                    faults >>

---------------------------------------------------------------------------
Environment ==
    \/ Tick
    \/ \E s \in Sessions : StartSession(s) \/ StopSession(s)
    \/ TagChangeAges
    \/ \E tier \in Tiers : Pin(tier)
    \/ Unpin
    \/ \E c \in Triggers : Notify(c)

Handler(c) ==
    \/ BumpActive(c) \/ BumpLoad(c) \/ BumpInstall(c) \/ BumpThrows(c)
    \/ CheckLock(c) \/ CreateRun(c) \/ RunThrows(c)
    \/ Fetch(c) \/ FetchFails(c) \/ FinishRun(c)
    \/ EvalLoad(c) \/ EvalProbe(c) \/ EvalProbeFails(c)
    \/ EvalWrite(c) \/ EvalWritePinned(c) \/ EvalArm(c) \/ EvalThrows(c)

Next ==
    \/ Environment
    \/ CronFires
    \/ \E c \in Callers : Handler(c)
    \/ Crash \/ Boot

Spec == Init /\ [][Next]_vars

---------------------------------------------------------------------------
(* Properties.                                                             *)

TypeOK ==
    /\ now \in Nat /\ recent \in BOOLEAN /\ up \in BOOLEAN
    /\ session \in [Sessions -> {"none", "charging", "stopped"}]
    /\ stopAt \in [Sessions -> Nat]
    /\ sched \in [tier : Tiers, ticks : Nat, nextAt : Nat,
                  pin : Tiers \cup {NoTier}, pinUntil : Nat]
    /\ lock \in [held : BOOLEAN, since : Nat]
    /\ swept \in SUBSET Sessions /\ cron \in Crons
    /\ isSyncing \in BOOLEAN /\ running \in BOOLEAN
    /\ call \in [Callers -> Calls]
    /\ triggers \in Nat /\ faults \in Nat

\* Runs never overlap: sync.service.ts counts on it ("prevent race
\* conditions") because two runs would bill from the same snapshot.
OneRunAtATime ==
    \A c, d \in Callers :
        call[c].pc \in {"fetch", "finish"} /\ call[d].pc \in {"fetch", "finish"}
        => c = d

\* An abandoned run (getRunningSync meets its row) keeps others out no longer
\* than the stale timeout and, for each fault, one period of the slowest tier.
AbandonedLockBounded ==
    lock.held => now - lock.since <= StaleAfter + faults * Every["dormant"]

\* Every period divides the Dormant one (a quarter of an hour, an hour, a week),
\* a stale run is stale before it, and the lookback has one Dormant period for
\* the session and one for each fault.
LookbackSuffices ==
    /\ \A tier \in Tiers : Every["dormant"] % Every[tier] = 0
    /\ StaleAfter < Every["dormant"]
    /\ Lookback >= (MaxFaults + 1) * Every["dormant"]

\* Every completed session is fetched by a run before the lookback window
\* has moved past it: after that no run ever bills it.
SweptInTime ==
    \A s \in Sessions :
        session[s] = "stopped" /\ now > stopAt[s] + Lookback => s \in swept
=============================================================================
