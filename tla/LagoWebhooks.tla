---------------------------- MODULE LagoWebhooks ----------------------------
(***************************************************************************)
(* Lago's webhooks: each is recorded, then dispatched unless the circuit   *)
(* breaker is open; the end of a subscription or of a prepaid balance sets *)
(* off a sweep that stops the customer's charging sessions.                *)
(*                                                                         *)
(* The requests run concurrently in one process and share the breaker's    *)
(* counters, which are written through to a row of Postgres, and the map   *)
(* of sessions lately stopped.  The process may restart at any time.       *)
(*                                                                         *)
(* One customer with one subscription.  The breaker's deadline is modelled *)
(* by the number of the opening that set it: cooldowns end in order.       *)
(***************************************************************************)
EXTENDS Naturals, FiniteSets

CONSTANTS
    Webhooks,   \* bound: rows of lago_webhook_events, replays included
    Tags,
    Sessions,   \* the customer's charging sessions
    TagOf,      \* the tag of each
    Threshold,  \* CIRCUIT_BREAKER_THRESHOLD
    Kinds,      \* what the webhooks of this run say
    None,
    Faults,     \* the failures of this run
    MaxFaults   \* bound: how many in one behaviour

ASSUME WebhookAssumption ==
    /\ Threshold \in Nat \ {0} /\ MaxFaults \in Nat
    /\ TagOf \in [Sessions -> Tags] /\ None \notin Sessions
    /\ Kinds \subseteq {"quiet", "broken", "depleted", "terminated"}

VARIABLES
    event,      \* Postgres: lago_webhook_events
    stored,     \* Postgres: lago_webhook_breaker_state
    active,     \* Postgres: the tags whose user_mappings row is active
    log,        \* Postgres: charger_operation_log, by webhook and session
    breaker,    \* web process: consecutiveFailures, disabledUntilMs
    hydrated,   \* web process: hydrated
    req,        \* web process: the dispatch of each webhook
    sweep,      \* web process: the sweep it set off
    recent,     \* web process: recentlyStopped
    session,    \* StEvE: which sessions run
    asked,      \* StEvE: accepted RemoteStopTransactions, by session the askers
    openings,   \* history: how often the breaker was tripped
    cooled,     \* the clock: the openings whose cooldown is over
    lost,       \* history: webhooks a restart or a failed query cut short
    excused,    \* history: sessions that may be stopped again
    crossed,    \* history: the latest write of the counters was not alone, or failed
    faults

vars == << event, stored, active, log, breaker, hydrated, req, sweep, recent,
           session, asked, openings, cooled, lost, excused, crossed, faults >>

\* until = 0 stands for null, n for the deadline of the n-th opening.
Closed == [count |-> 0, until |-> 0]

NewEvent == [state |-> "none", kind |-> None, error |-> "none"]
Events == [state : {"none", "stored", "processed"}, kind : Kinds \cup {None},
           error : {"none", "circuit_breaker_open", "threw"}]

NewRequest == [at |-> "idle", row |-> Closed]
Requests == [at : {"idle", "dispatch", "hydrating", "hydrated", "unhydrated", "skipping",
                   "reopening", "reacting", "marking", "succeeding", "failing",
                   "tripping", "over"},
             row : [count : Nat, until : Nat]]

NewSweep == [at |-> "none", tags |-> {}, list |-> {}, now |-> None, ok |-> FALSE]
Sweeps == [at : {"none", "mappings", "next", "logging", "stopping", "settling", "over"},
           tags : SUBSET Tags, list : SUBSET Sessions, now : Sessions \cup {None},
           ok : BOOLEAN]

Init ==
    /\ event = [w \in Webhooks |-> NewEvent]
    /\ stored = Closed /\ breaker = Closed /\ hydrated = FALSE
    /\ active = Tags
    /\ log = [w \in Webhooks |-> [s \in Sessions |-> "none"]]
    /\ req = [w \in Webhooks |-> NewRequest]
    /\ sweep = [w \in Webhooks |-> NewSweep]
    /\ recent = {} /\ session = [s \in Sessions |-> "running"]
    /\ asked = [s \in Sessions |-> {}]
    /\ openings = 0 /\ cooled = 0
    /\ lost = {} /\ excused = {} /\ crossed = FALSE /\ faults = 0

Fault(class) == class \in Faults /\ faults < MaxFaults /\ faults' = faults + 1
NoFault == UNCHANGED faults

Goto(w, stage) == req' = [req EXCEPT ![w] = [@ EXCEPT !.at = stage]]

\* Variables by who touches them.
sweepVars == << log, sweep, recent, session, asked, excused >>
breakerVars == << stored, breaker, hydrated, openings, crossed >>

\* Dispatches whose write of the counters, or whose first read, is under way.
Writers == { w \in Webhooks :
                req[w].at \in {"reopening", "succeeding", "failing", "tripping"} }
Hydrating == { w \in Webhooks : req[w].at \in {"hydrating", "hydrated"} }
Alone(w) == (Writers \cup Hydrating) \ {w} = {}

\* persistBreakerState: the counters m are captured, the write is under way.
Write(w, stage, m) ==
    /\ breaker' = m /\ req' = [req EXCEPT ![w] = [at |-> stage, row |-> m]]
    /\ crossed' = ~Alone(w)

----------------------------------------------------------------------------
(* POST /api/webhook/lago and replay: record, then dispatch.               *)

\* Lago is answered 200 in any case: what is not recorded is gone.
Record(w, kind) ==
    /\ event[w].state = "none" /\ req[w].at = "idle"
    /\ \/ /\ event' = [event EXCEPT ![w] = [@ EXCEPT !.state = "stored", !.kind = kind]]
          /\ Goto(w, "dispatch") /\ NoFault
       \/ Fault("db") /\ Goto(w, "over") /\ UNCHANGED event
    /\ UNCHANGED << breakerVars, active, sweepVars, cooled, lost >>

Receive(w) == \E kind \in Kinds : Record(w, kind)
Replay(w) == \E v \in Webhooks : event[v].state # "none" /\ Record(w, event[v].kind)

\* isDispatchDisabled with the counters m: the first dispatch after the
\* cooldown clears the deadline, and all that follow pass.
GateUnwritten(w, m) ==
    /\ \/ m.until <= cooled /\ breaker' = [m EXCEPT !.until = 0] /\ Goto(w, "reacting")
       \/ m.until > cooled /\ breaker' = m /\ Goto(w, "skipping")
    /\ UNCHANGED crossed

Gate(w, m) ==
    \/ m.until = 0 /\ breaker' = m /\ Goto(w, "reacting") /\ UNCHANGED crossed
    \/ m.until \in 1 .. cooled /\ Write(w, "reopening", [m EXCEPT !.until = 0])
    \/ m.until > cooled /\ breaker' = m /\ Goto(w, "skipping") /\ UNCHANGED crossed

\* hydrateBreakerStateOnce raises its flag before it reads: who comes second
\* does not wait for the counters.
Dispatch(w) ==
    /\ req[w].at = "dispatch"
    /\ \/ hydrated /\ Gate(w, breaker) /\ UNCHANGED hydrated
       \/ /\ ~hydrated /\ hydrated' = TRUE /\ Goto(w, "hydrating") /\ UNCHANGED breaker
          /\ crossed' = (Writers # {})
    /\ UNCHANGED << event, stored, openings, active, sweepVars, cooled, lost, faults >>

HydrateRead(w) ==
    /\ req[w].at = "hydrating"
    /\ \/ /\ req' = [req EXCEPT ![w] = [at |-> "hydrated", row |-> stored]]
          /\ NoFault /\ UNCHANGED << breaker, crossed >>
       \/ /\ Fault("db") /\ crossed' = TRUE /\ UNCHANGED breaker
          /\ Goto(w, "unhydrated")
    /\ UNCHANGED << event, stored, hydrated, openings, active, sweepVars, cooled, lost >>

HydrateApply(w) ==
    /\ \/ req[w].at = "hydrated" /\ Gate(w, req[w].row)
       \/ req[w].at = "unhydrated" /\ Gate(w, breaker)
    /\ UNCHANGED << event, stored, hydrated, openings, active, sweepVars, cooled, lost,
                    faults >>

Skip(w) ==
    /\ req[w].at = "skipping" /\ Goto(w, "over")
    /\ \/ /\ event' = [event EXCEPT ![w] = [@ EXCEPT !.state = "processed",
                                                   !.error = "circuit_breaker_open"]]
          /\ NoFault /\ UNCHANGED lost
       \/ Fault("db") /\ lost' = lost \cup {w} /\ UNCHANGED event
    /\ UNCHANGED << breakerVars, active, sweepVars, cooled >>

----------------------------------------------------------------------------
(* reactTo.                                                                *)

Spawn(w) == sweep' = [sweep EXCEPT ![w] = [@ EXCEPT !.at = "mappings"]]

\* handleSubscriptionStateChange stops sessions only if it flipped a mapping.
React(w) ==
    /\ req[w].at = "reacting" /\ Goto(w, "marking")
    /\ CASE event[w].kind = "depleted" -> Spawn(w) /\ UNCHANGED active
         [] event[w].kind = "terminated" ->
                /\ active' = {}
                /\ IF active # {} THEN Spawn(w) ELSE UNCHANGED sweep
         [] OTHER -> UNCHANGED << active, sweep >>
    /\ UNCHANGED << event, breakerVars, log, recent, session, asked, excused, cooled,
                    lost, faults >>

\* markProcessed, and at once recordDispatchSuccess or recordDispatchFailure up
\* to their write of the row.
CountedDown(w) == [breaker EXCEPT !.count = IF event[w].kind = "broken" THEN @ + 1
                                                                        ELSE @ - 1]
Counted(w) == IF event[w].kind = "broken"
              THEN [breaker EXCEPT !.count = @ + 1] ELSE Closed

Mark(w) ==
    /\ req[w].at = "marking"
    /\ \/ /\ event' = [event EXCEPT ![w] =
                [@ EXCEPT !.state = "processed",
                          !.error = IF event[w].kind = "broken" THEN "threw" ELSE "none"]]
          /\ NoFault
       \/ Fault("db") /\ UNCHANGED event
    /\ Write(w, IF event[w].kind = "broken" THEN "failing" ELSE "succeeding", Counted(w))
    /\ UNCHANGED << stored, hydrated, openings, active, sweepVars, cooled, lost >>

\* recordDispatchFailure after its first write: at or past the threshold, and
\* not yet disabled.
TripsAtThresholdOnly(m) == m.count = Threshold /\ m.until = 0
Trips(m) == m.count >= Threshold /\ m.until = 0

\* A write of the counters lands, with the values of when it was issued, and
\* its dispatch goes on.
Written(w) ==
    /\ req[w].at \in {"reopening", "succeeding", "failing", "tripping"}
    /\ \/ stored' = req[w].row /\ NoFault
       \/ Fault("db") /\ UNCHANGED stored
    /\ \/ /\ req[w].at = "failing" /\ Trips(breaker)
          /\ openings' = openings + 1
          /\ Write(w, "tripping", [breaker EXCEPT !.until = openings + 1])
       \/ /\ ~(req[w].at = "failing" /\ Trips(breaker))
          /\ Goto(w, IF req[w].at = "reopening" THEN "reacting" ELSE "over")
          /\ crossed' = (crossed \/ faults' # faults)
          /\ UNCHANGED << breaker, openings >>
    /\ UNCHANGED << event, hydrated, active, sweepVars, cooled, lost >>

\* resetCircuitBreaker, by an administrator.
ResetBreaker ==
    /\ breaker' = Closed
    /\ \/ stored' = Closed /\ NoFault /\ crossed' = (Writers \cup Hydrating # {})
       \/ Fault("db") /\ crossed' = TRUE /\ UNCHANGED stored
    /\ UNCHANGED << event, hydrated, openings, active, req, sweepVars, cooled, lost >>

Cool ==
    /\ cooled < openings /\ cooled' = cooled + 1
    /\ UNCHANGED << event, breakerVars, active, req, sweepVars, lost, faults >>

----------------------------------------------------------------------------
(* stopActiveTransactionsForCustomer, ...ForSubscription, ...ForMappings.  *)

\* A wallet's webhook is about the active mappings, a subscription's about all.
Swept(w) == IF event[w].kind = "depleted" THEN active ELSE Tags

SweepMappings(w) ==
    /\ sweep[w].at = "mappings"
    /\ \/ /\ sweep' = [sweep EXCEPT ![w] = [@ EXCEPT !.at = "next", !.tags = Swept(w)]]
          /\ NoFault /\ UNCHANGED lost
       \/ /\ sweep' = [sweep EXCEPT ![w] = [@ EXCEPT !.at = "over"]] /\ Fault("db")
          /\ lost' = lost \cup {w}
    /\ UNCHANGED << event, breakerVars, active, req, log, recent, session, asked,
                    excused, cooled >>

\* The tag's running sessions, one tag after the other.
SweepList(w, g) ==
    /\ sweep[w].at = "next" /\ sweep[w].list = {} /\ g \in sweep[w].tags
    /\ \/ /\ sweep' = [sweep EXCEPT ![w] = [sweep[w] EXCEPT !.tags = @ \ {g},
                !.list = { s \in Sessions : TagOf[s] = g /\ session[s] = "running" }]]
          /\ NoFault /\ UNCHANGED lost
       \/ /\ sweep' = [sweep EXCEPT ![w] = [sweep[w] EXCEPT !.tags = @ \ {g}]]
          /\ Fault("steve") /\ lost' = lost \cup {w}
    /\ UNCHANGED << event, breakerVars, active, req, log, recent, session, asked,
                    excused, cooled >>

\* Sweeps that are past their look at recentlyStopped for s.
Stopping(s) == { w \in Webhooks : sweep[w].now = s }

NeverRemembered(w, s) == FALSE
Remembered(w, s) == s \in recent

\* wasRecentlyStopped is asked for each session when its turn comes.
SweepNext(w, s) ==
    /\ sweep[w].at = "next" /\ s \in sweep[w].list
    /\ IF Remembered(w, s)
       THEN /\ sweep' = [sweep EXCEPT ![w] = [sweep[w] EXCEPT !.list = @ \ {s}]]
            /\ UNCHANGED excused
       ELSE /\ sweep' = [sweep EXCEPT ![w] = [sweep[w] EXCEPT !.at = "logging",
                                                     !.now = s, !.list = @ \ {s}]]
            /\ excused' = IF Stopping(s) # {} THEN excused \cup {s} ELSE excused
    /\ UNCHANGED << event, breakerVars, active, req, log, recent, session, asked, cooled,
                    lost, faults >>

\* The audit row; without it the stop goes ahead.
SweepLog(w) ==
    /\ sweep[w].at = "logging"
    /\ sweep' = [sweep EXCEPT ![w] = [@ EXCEPT !.at = "stopping"]]
    /\ \/ log' = [log EXCEPT ![w] = [@ EXCEPT ![sweep[w].now] = "pending"]] /\ NoFault
       \/ Fault("db") /\ UNCHANGED log
    /\ UNCHANGED << event, breakerVars, active, req, recent, session, asked, excused,
                    cooled, lost >>

\* RemoteStopTransaction: accepted, refused, or accepted and the answer lost.
SweepStop(w) ==
    /\ sweep[w].at = "stopping"
    /\ LET s == sweep[w].now
       IN  \/ /\ sweep' = [sweep EXCEPT ![w] = [@ EXCEPT !.at = "settling", !.ok = TRUE]]
              /\ asked' = [asked EXCEPT ![s] = @ \cup {w}]
              /\ NoFault /\ UNCHANGED excused
           \/ /\ sweep' = [sweep EXCEPT ![w] = [@ EXCEPT !.at = "settling", !.ok = FALSE]]
              /\ \/ session[s] = "over" /\ NoFault
                 \/ Fault("steve")
              /\ UNCHANGED << asked, excused >>
           \/ /\ sweep' = [sweep EXCEPT ![w] = [@ EXCEPT !.at = "settling", !.ok = FALSE]]
              /\ Fault("steve") /\ excused' = excused \cup {s}
              /\ asked' = [asked EXCEPT ![s] = @ \cup {w}]
    /\ UNCHANGED << event, breakerVars, active, req, log, recent, session, cooled, lost >>

\* The audit row's outcome, then markRecent.
SettleBlindly(w) == "completed"
Settle(w) == IF sweep[w].ok THEN "completed" ELSE "failed"

SweepSettle(w) ==
    /\ sweep[w].at = "settling"
    /\ LET s == sweep[w].now
       IN  /\ IF log[w][s] = "none" THEN UNCHANGED << log, faults >>
              ELSE \/ /\ log' = [log EXCEPT ![w] = [@ EXCEPT ![s] = Settle(w)]]
                      /\ NoFault
                   \/ Fault("db") /\ UNCHANGED log
           /\ recent' = IF sweep[w].ok THEN recent \cup {s} ELSE recent
    /\ sweep' = [sweep EXCEPT ![w] = [@ EXCEPT !.at = "next", !.now = None]]
    /\ UNCHANGED << event, breakerVars, active, req, session, asked, excused, cooled, lost >>

FinishedEarly(w) == sweep[w].list = {}
Finished(w) == sweep[w].list = {} /\ sweep[w].tags = {}

SweepEnd(w) ==
    /\ sweep[w].at = "next" /\ Finished(w)
    /\ sweep' = [sweep EXCEPT ![w] = [NewSweep EXCEPT !.at = "over"]]
    /\ UNCHANGED << event, breakerVars, active, req, log, recent, session, asked,
                    excused, cooled, lost, faults >>

----------------------------------------------------------------------------
(* The surroundings.                                                       *)

\* The charger obeys, or the driver leaves.
SessionEnds(s) ==
    /\ session[s] = "running" /\ session' = [session EXCEPT ![s] = "over"]
    /\ UNCHANGED << event, breakerVars, active, req, log, sweep, recent, asked, excused,
                    cooled, lost, faults >>

\* A minute later.
Forget(s) ==
    /\ s \in recent /\ Fault("minute")
    /\ recent' = recent \ {s} /\ excused' = excused \cup {s}
    /\ UNCHANGED << event, breakerVars, active, req, log, sweep, session, asked, cooled,
                    lost >>

\* The process starts anew: its counters, its requests and sweeps are gone, and
\* writes under way do not land.
Restart ==
    /\ Fault("restart")
    /\ breaker' = Closed /\ hydrated' = FALSE /\ crossed' = FALSE /\ recent' = {}
    /\ lost' = lost \cup { w \in Webhooks : \/ req[w].at \notin {"idle", "over"}
                                            \/ sweep[w].at \notin {"none", "over"} }
    /\ excused' = excused \cup { s \in Sessions : s \in recent \/ Stopping(s) # {} }
    /\ req' = [w \in Webhooks |-> IF req[w].at = "idle" THEN NewRequest
                                  ELSE [NewRequest EXCEPT !.at = "over"]]
    /\ sweep' = [w \in Webhooks |-> IF sweep[w].at = "none" THEN NewSweep
                                    ELSE [NewSweep EXCEPT !.at = "over"]]
    /\ UNCHANGED << event, stored, openings, active, log, session, asked, cooled >>

----------------------------------------------------------------------------
RequestStep(w) ==
    \/ Dispatch(w) \/ HydrateRead(w) \/ HydrateApply(w) \/ Skip(w)
    \/ React(w) \/ Mark(w) \/ Written(w)

SweepStep(w) ==
    \/ SweepMappings(w) \/ SweepLog(w) \/ SweepStop(w) \/ SweepSettle(w) \/ SweepEnd(w)
    \/ \E g \in Tags : SweepList(w, g)
    \/ \E s \in Sessions : SweepNext(w, s)

Next ==
    \/ \E w \in Webhooks : Receive(w) \/ Replay(w) \/ RequestStep(w) \/ SweepStep(w)
    \/ \E s \in Sessions : SessionEnds(s) \/ Forget(s)
    \/ ResetBreaker \/ Cool \/ Restart

Spec == Init /\ [][Next]_vars

\* The event loop gets to every request and sweep: each await ends.
FairSpec == Spec /\ \A w \in Webhooks : WF_vars(RequestStep(w)) /\ WF_vars(SweepStep(w))

----------------------------------------------------------------------------
(* Properties.                                                             *)

\* Type of every variable.
TypeOK ==
    /\ event \in [Webhooks -> Events] /\ req \in [Webhooks -> Requests]
    /\ stored \in [count : Nat, until : Nat] /\ breaker \in [count : Nat, until : Nat]
    /\ hydrated \in BOOLEAN /\ active \subseteq Tags
    /\ log \in [Webhooks -> [Sessions -> {"none", "pending", "completed", "failed"}]]
    /\ sweep \in [Webhooks -> Sweeps]
    /\ recent \subseteq Sessions /\ session \in [Sessions -> {"running", "over"}]
    /\ asked \in [Sessions -> SUBSET Webhooks]
    /\ openings \in Nat /\ cooled \in Nat /\ cooled <= openings
    /\ lost \subseteq Webhooks /\ excused \subseteq Sessions /\ faults \in 0 .. MaxFaults

\* A dispatch that the breaker has let through and that has yet to report.
Probing(w) ==
    req[w].at \in {"hydrating", "hydrated", "unhydrated", "reopening", "reacting",
                   "marking", "failing"}

\* The breaker never stands at its threshold and yet open to all: counted out,
\* it is disabled, or a dispatch is under way that will close or disable it
\* (recordDispatchFailure: two failures at once may step over the threshold).
TrippedOrProbing ==
    breaker.count >= Threshold /\ breaker.until = 0 => \E w \in Webhooks : Probing(w)

\* The breaker's row follows its counters, so that a restart finds them as they
\* were: it differs only while a write or the first read is under way, or when
\* such statements overlapped or failed (persistBreakerState: transitions "land
\* in order").
StoredFollows ==
    hydrated /\ Writers \cup Hydrating = {} /\ ~crossed => stored = breaker

\* One session is stopped twice only when two sweeps were at it together, the
\* first answer was lost, a minute had passed or the process had restarted
\* (auto-stop.service.ts: "re-firing for the same mapping ... is a no-op").
StoppedAgainExplained ==
    \A s \in Sessions : Cardinality(asked[s]) > 1 => s \in excused

\* The operation log claims no stop that StEvE did not accept.
LogTellsTruth ==
    \A w \in Webhooks, s \in Sessions : log[w][s] = "completed" => w \in asked[s]

\* A recorded depletion is accounted for: in the end every session that ran on
\* an active mapping is over or was asked to stop, or the audit row says the
\* webhook was skipped, or the operation log that the stop failed; unless a
\* restart or a failed query cut it short.
DepletionAnswered ==
    \A w \in Webhooks, s \in Sessions :
        (/\ event[w].state = "stored" /\ event[w].kind = "depleted"
         /\ session[s] = "running" /\ TagOf[s] \in active)
        ~> (\/ session[s] = "over" \/ asked[s] # {} \/ TagOf[s] \notin active
            \/ event[w].error = "circuit_breaker_open" \/ w \in lost
            \/ \E v \in Webhooks : log[v][s] # "completed" /\ log[v][s] # "none")
=============================================================================
