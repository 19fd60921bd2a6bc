------------------------ MODULE LagoWebhooks_proofs ------------------------
(***************************************************************************)
(* For any number of webhooks, tags and sessions and any threshold: types, *)
(* the circuit breaker and its row, and the stops of the sweeps.           *)
(***************************************************************************)
EXTENDS LagoWebhooks, FiniteSetTheorems, TLAPS

Counters == [count : Nat, until : Nat]

LEMMA ClosedType == Closed \in Counters
  BY DEF Closed, Counters

LEMMA GotoType ==
    ASSUME TypeOK, NEW w \in Webhooks, NEW stage, Goto(w, stage),
           stage \in {"dispatch", "hydrating", "unhydrated", "skipping", "reacting",
                      "marking", "over"}
    PROVE  req' \in [Webhooks -> Requests]
  <1>1. req \in [Webhooks -> Requests] /\ req[w] \in Requests
    BY DEF TypeOK
  <1>2. [req[w] EXCEPT !.at = stage] \in Requests
    BY <1>1 DEF Requests
  <1>3. req' = [req EXCEPT ![w] = [req[w] EXCEPT !.at = stage]]
    BY DEF Goto
  <1> QED  BY <1>1, <1>2, <1>3

LEMMA WriteType ==
    ASSUME TypeOK, NEW w \in Webhooks, NEW stage, NEW m \in Counters, Write(w, stage, m),
           stage \in {"reopening", "succeeding", "failing", "tripping"}
    PROVE  breaker' \in Counters /\ req' \in [Webhooks -> Requests]
  <1>1. req \in [Webhooks -> Requests]
    BY DEF TypeOK
  <1>2. [at |-> stage, row |-> m] \in Requests
    BY DEF Requests, Counters
  <1> QED  BY <1>1, <1>2 DEF Write

LEMMA GotoMoves ==
    ASSUME TypeOK, NEW w \in Webhooks, NEW stage, Goto(w, stage)
    PROVE  /\ req'[w].at = stage
           /\ \A v \in Webhooks : v # w => req'[v] = req[v]
  BY DEF TypeOK, Goto, Requests

LEMMA WriteMoves ==
    ASSUME TypeOK, NEW w \in Webhooks, NEW stage, NEW m, Write(w, stage, m)
    PROVE  /\ req'[w].at = stage /\ req'[w].row = m
           /\ \A v \in Webhooks : v # w => req'[v] = req[v]
  BY DEF TypeOK, Write

LEMMA GateType ==
    ASSUME TypeOK, NEW w \in Webhooks, NEW m \in Counters, Gate(w, m)
    PROVE  breaker' \in Counters /\ req' \in [Webhooks -> Requests]
  <1>1. CASE m.until \in 1 .. cooled
    <2>1. [m EXCEPT !.until = 0] \in Counters
      BY DEF Counters
    <2>2. Write(w, "reopening", [m EXCEPT !.until = 0])
      BY <1>1 DEF Gate, Counters, TypeOK
    <2> QED  BY <2>1, <2>2, WriteType
  <1>2. CASE m.until \notin 1 .. cooled
    BY <1>2, GotoType DEF Gate
  <1> QED  BY <1>1, <1>2

LEMMA FaultType ==
    ASSUME TypeOK, NEW class, Fault(class) \/ NoFault
    PROVE  faults' \in 0 .. MaxFaults
  BY WebhookAssumption DEF TypeOK, Fault, NoFault

LEMMA NewSweepType == NewSweep \in Sweeps
  BY DEF NewSweep, Sweeps

LEMMA SweptType ==
    ASSUME TypeOK, NEW w PROVE Swept(w) \in SUBSET Tags
  BY DEF TypeOK, Swept

LEMMA InitType == Init => TypeOK
  <1> SUFFICES ASSUME Init PROVE TypeOK
    OBVIOUS
  <1>1. NewEvent \in Events /\ NewRequest \in Requests
    BY DEF NewEvent, Events, NewRequest, Requests, Closed
  <1>2. event \in [Webhooks -> Events] /\ req \in [Webhooks -> Requests]
    BY <1>1 DEF Init
  <1>3. sweep \in [Webhooks -> Sweeps]
    BY NewSweepType DEF Init
  <1>4. stored \in Counters /\ breaker \in Counters
    BY ClosedType DEF Init
  <1>5. log \in [Webhooks -> [Sessions -> {"none", "pending", "completed", "failed"}]]
    BY DEF Init
  <1>6. /\ session \in [Sessions -> {"running", "over"}]
        /\ asked \in [Sessions -> SUBSET Webhooks]
    BY DEF Init
  <1>7. /\ openings \in Nat /\ cooled \in Nat /\ cooled <= openings
        /\ faults \in 0 .. MaxFaults
    BY WebhookAssumption DEF Init
  <1>8. /\ hydrated \in BOOLEAN /\ active \subseteq Tags /\ recent \subseteq Sessions
        /\ lost \subseteq Webhooks /\ excused \subseteq Sessions
    BY DEF Init
  <1> QED  BY <1>2, <1>3, <1>4, <1>5, <1>6, <1>7, <1>8 DEF TypeOK, Counters

LEMMA SetEventType ==
    ASSUME TypeOK, NEW w \in Webhooks, NEW e \in Events, event' = [event EXCEPT ![w] = e]
    PROVE  event' \in [Webhooks -> Events]
  BY DEF TypeOK

LEMMA SetSweepType ==
    ASSUME TypeOK, NEW w \in Webhooks, NEW r \in Sweeps, sweep' = [sweep EXCEPT ![w] = r]
    PROVE  sweep' \in [Webhooks -> Sweeps]
  BY DEF TypeOK

\* What a step of a request leaves typed.
RequestType ==
    /\ event' \in [Webhooks -> Events] /\ req' \in [Webhooks -> Requests]
    /\ stored' \in Counters /\ breaker' \in Counters /\ hydrated' \in BOOLEAN
    /\ active' \subseteq Tags /\ openings' \in Nat /\ openings' >= openings
    /\ lost' \subseteq Webhooks /\ faults' \in 0 .. MaxFaults

LEMMA RecordType ==
    ASSUME TypeOK, NEW w \in Webhooks, NEW kind \in Kinds \cup {None}, Record(w, kind)
    PROVE  RequestType
  <1>1. req' \in [Webhooks -> Requests]
    BY GotoType DEF Record
  <1>2. event' \in [Webhooks -> Events]
    <2>1. [event[w] EXCEPT !.state = "stored", !.kind = kind] \in Events
      <3>1. event[w] \in Events
        BY DEF TypeOK
      <3> QED  BY <3>1 DEF Events
    <2> QED  BY <2>1, SetEventType DEF Record, TypeOK
  <1>3. faults' \in 0 .. MaxFaults
    BY FaultType DEF Record
  <1> QED  BY <1>1, <1>2, <1>3 DEF Record, RequestType, TypeOK, breakerVars, Counters

LEMMA RequestStepType ==
    ASSUME TypeOK, NEW w \in Webhooks, RequestStep(w)
    PROVE  RequestType /\ (sweep' \in [Webhooks -> Sweeps])
  <1>0. /\ stored \in Counters /\ breaker \in Counters
        /\ req[w].row \in Counters /\ openings \in Nat
    BY DEF TypeOK, Counters, Requests
  <1>1. CASE Dispatch(w)
    <2>1. breaker' \in Counters /\ req' \in [Webhooks -> Requests]
      BY <1>0, <1>1, GateType, GotoType DEF Dispatch
    <2>2. hydrated' \in BOOLEAN
      BY <1>1 DEF Dispatch, TypeOK
    <2> QED  BY <1>0, <1>1, <2>1, <2>2 DEF Dispatch, RequestType, TypeOK, sweepVars
  <1>2. CASE HydrateRead(w)
    <2>1. req' \in [Webhooks -> Requests]
      <3>1. CASE req' = [req EXCEPT ![w] = [at |-> "hydrated", row |-> stored]]
        BY <1>0, <3>1 DEF TypeOK, Requests, Counters
      <3> QED  BY <1>2, <3>1, GotoType DEF HydrateRead
    <2>2. faults' \in 0 .. MaxFaults
      BY <1>2, FaultType DEF HydrateRead
    <2> QED  BY <1>0, <1>2, <2>1, <2>2 DEF HydrateRead, RequestType, TypeOK, sweepVars
  <1>3. CASE HydrateApply(w)
    <2>1. breaker' \in Counters /\ req' \in [Webhooks -> Requests]
      BY <1>0, <1>3, GateType DEF HydrateApply
    <2> QED  BY <1>0, <1>3, <2>1 DEF HydrateApply, RequestType, TypeOK, sweepVars
  <1>4. CASE Skip(w)
    <2>1. req' \in [Webhooks -> Requests]
      BY <1>4, GotoType DEF Skip
    <2>2. event' \in [Webhooks -> Events] /\ lost' \subseteq Webhooks
      <3>1. [event[w] EXCEPT !.state = "processed",
                             !.error = "circuit_breaker_open"] \in Events
        <4>1. event[w] \in Events
          BY DEF TypeOK
        <4> QED  BY <4>1 DEF Events
      <3> QED  BY <1>4, <3>1, SetEventType DEF Skip, TypeOK
    <2>3. faults' \in 0 .. MaxFaults
      BY <1>4, FaultType DEF Skip
    <2> QED  BY <1>0, <1>4, <2>1, <2>2, <2>3
             DEF Skip, RequestType, TypeOK, sweepVars, breakerVars
  <1>5. CASE React(w)
    <2>1. req' \in [Webhooks -> Requests]
      BY <1>5, GotoType DEF React
    <2>2. sweep' \in [Webhooks -> Sweeps] /\ active' \subseteq Tags
      <3>1. [sweep[w] EXCEPT !.at = "mappings"] \in Sweeps
        <4>1. sweep[w] \in Sweeps
          BY DEF TypeOK
        <4> QED  BY <4>1 DEF Sweeps
      <3> QED  BY <1>5, <3>1, SetSweepType DEF React, Spawn, TypeOK
    <2> QED  BY <1>0, <1>5, <2>1, <2>2 DEF React, RequestType, TypeOK, breakerVars
  <1>6. CASE Mark(w)
    <2>1. Counted(w) \in Counters
      BY <1>0, ClosedType DEF Counted, Counters
    <2>2. breaker' \in Counters /\ req' \in [Webhooks -> Requests]
      BY <1>6, <2>1, WriteType DEF Mark
    <2>3. event' \in [Webhooks -> Events]
      <3> DEFINE e == [event[w] EXCEPT
                !.state = "processed",
                !.error = IF event[w].kind = "broken" THEN "threw" ELSE "none"]
      <3>1. e \in Events
        <4>1. event[w] \in Events
          BY DEF TypeOK
        <4> QED  BY <4>1 DEF Events
      <3>2. event' = [event EXCEPT ![w] = e] \/ UNCHANGED event
        BY <1>6 DEF Mark
      <3> HIDE DEF e
      <3> QED  BY <3>1, <3>2, SetEventType DEF TypeOK
    <2>4. faults' \in 0 .. MaxFaults
      BY <1>6, FaultType DEF Mark
    <2> QED  BY <1>0, <1>6, <2>2, <2>3, <2>4 DEF Mark, RequestType, TypeOK, sweepVars
  <1>7. CASE Written(w)
    <2>1. stored' \in Counters
      BY <1>0, <1>7 DEF Written
    <2>2. /\ breaker' \in Counters /\ req' \in [Webhooks -> Requests]
          /\ openings' \in Nat /\ openings' >= openings
      <3>1. CASE req[w].at = "failing" /\ Trips(breaker)
        <4>1. [breaker EXCEPT !.until = openings + 1] \in Counters
          BY <1>0 DEF Counters
        <4> QED  BY <1>0, <1>7, <3>1, <4>1, WriteType DEF Written
      <3>2. CASE ~(req[w].at = "failing" /\ Trips(breaker))
        BY <1>0, <1>7, <3>2, GotoType DEF Written
      <3> QED  BY <3>1, <3>2
    <2>3. faults' \in 0 .. MaxFaults
      BY <1>7, FaultType DEF Written
    <2> QED  BY <1>7, <2>1, <2>2, <2>3 DEF Written, RequestType, TypeOK, sweepVars
  <1> QED  BY <1>1, <1>2, <1>3, <1>4, <1>5, <1>6, <1>7 DEF RequestStep

\* What a step of a sweep leaves typed.
SweepType ==
    /\ log' \in [Webhooks -> [Sessions -> {"none", "pending", "completed", "failed"}]]
    /\ sweep' \in [Webhooks -> Sweeps]
    /\ recent' \subseteq Sessions /\ asked' \in [Sessions -> SUBSET Webhooks]
    /\ lost' \subseteq Webhooks /\ excused' \subseteq Sessions
    /\ faults' \in 0 .. MaxFaults

\* A sweep at a session has one.
Busy == {"logging", "stopping", "settling"}
BusyNow == \A w \in Webhooks : sweep[w].at \in Busy <=> sweep[w].now # None

LEMMA SweepStepType ==
    ASSUME TypeOK, BusyNow, NEW w \in Webhooks, SweepStep(w)
    PROVE  SweepType
  <1>0. sweep[w] \in Sweeps
    BY DEF TypeOK
  <1>1. sweep[w].at \in Busy => sweep[w].now \in Sessions
    BY <1>0 DEF BusyNow, Sweeps
  <1>2. CASE SweepMappings(w)
    <2>1. faults' \in 0 .. MaxFaults
      BY <1>2, FaultType DEF SweepMappings
    <2>2. /\ [sweep[w] EXCEPT !.at = "next", !.tags = Swept(w)] \in Sweeps
          /\ [sweep[w] EXCEPT !.at = "over"] \in Sweeps
      BY <1>0, SweptType DEF Sweeps
    <2>3. sweep' \in [Webhooks -> Sweeps]
      BY <1>2, <2>2, SetSweepType DEF SweepMappings
    <2> QED  BY <1>2, <2>1, <2>3 DEF SweepMappings, SweepType, TypeOK
  <1>3. ASSUME NEW g \in Tags, SweepList(w, g) PROVE SweepType
    <2>1. faults' \in 0 .. MaxFaults
      BY <1>3, FaultType DEF SweepList
    <2> DEFINE l == { s \in Sessions : TagOf[s] = g /\ session[s] = "running" }
           r1 == [sweep[w] EXCEPT !.tags = @ \ {g}, !.list = l]
           r2 == [sweep[w] EXCEPT !.tags = @ \ {g}]
    <2>2. r1 \in Sweeps /\ r2 \in Sweeps
      BY <1>0 DEF Sweeps
    <2>3. CASE sweep' = [sweep EXCEPT ![w] = [sweep[w] EXCEPT !.tags = @ \ {g}, !.list = l]]
      <3>1. sweep' = [sweep EXCEPT ![w] = r1]
        BY <2>3
      <3>2. sweep' \in [Webhooks -> Sweeps]
        <4> HIDE DEF r1
        <4> QED  BY <2>2, <3>1, SetSweepType
      <3> QED  BY <1>3, <2>1, <3>2 DEF SweepList, SweepType, TypeOK
    <2>4. CASE sweep' = [sweep EXCEPT ![w] = [sweep[w] EXCEPT !.tags = @ \ {g}]]
      <3>1. sweep' = [sweep EXCEPT ![w] = r2]
        BY <2>4
      <3>2. sweep' \in [Webhooks -> Sweeps]
        <4> HIDE DEF r2
        <4> QED  BY <2>2, <3>1, SetSweepType
      <3> QED  BY <1>3, <2>1, <3>2 DEF SweepList, SweepType, TypeOK
    <2> HIDE DEF r1, r2
    <2> QED  BY <1>3, <2>3, <2>4 DEF SweepList
  <1>4. ASSUME NEW s \in Sessions, SweepNext(w, s) PROVE SweepType
    <2> DEFINE r1 == [sweep[w] EXCEPT !.list = @ \ {s}]
               r2 == [sweep[w] EXCEPT !.at = "logging", !.now = s, !.list = @ \ {s}]
    <2>1. r1 \in Sweeps /\ r2 \in Sweeps
      BY <1>0 DEF Sweeps
    <2>2. sweep' = [sweep EXCEPT ![w] = IF Remembered(w, s) THEN r1 ELSE r2]
      <3>1. CASE Remembered(w, s)
        BY <1>4, <3>1 DEF SweepNext
      <3>2. CASE ~Remembered(w, s)
        BY <1>4, <3>2 DEF SweepNext
      <3> QED  BY <3>1, <3>2
    <2>3. sweep' \in [Webhooks -> Sweeps]
      <3> HIDE DEF r1, r2
      <3> QED  BY <2>1, <2>2, SetSweepType
    <2> QED  BY <1>4, <2>3 DEF SweepNext, SweepType, TypeOK
  <1>5. CASE SweepLog(w)
    <2>1. faults' \in 0 .. MaxFaults
      BY <1>5, FaultType DEF SweepLog
    <2>2. log[w] \in [Sessions -> {"none", "pending", "completed", "failed"}]
      BY DEF TypeOK
    <2>3. sweep' \in [Webhooks -> Sweeps]
      <3>1. [sweep[w] EXCEPT !.at = "stopping"] \in Sweeps
        BY <1>0 DEF Sweeps
      <3> QED  BY <1>5, <3>1, SetSweepType DEF SweepLog
    <2>4. sweep[w].now \in Sessions
      BY <1>1, <1>5 DEF SweepLog, Busy
    <2>5. log' \in [Webhooks -> [Sessions -> {"none", "pending", "completed", "failed"}]]
      <3>1. [log[w] EXCEPT ![sweep[w].now] = "pending"]
              \in [Sessions -> {"none", "pending", "completed", "failed"}]
        BY <2>2
      <3>2. \/ log' = [log EXCEPT ![w] = [log[w] EXCEPT ![sweep[w].now] = "pending"]]
            \/ log' = log
        BY <1>5 DEF SweepLog
      <3> QED  BY <3>1, <3>2 DEF TypeOK
    <2> QED  BY <1>5, <2>1, <2>3, <2>5 DEF SweepLog, SweepType, TypeOK
  <1>6. CASE SweepStop(w)
    <2>1. faults' \in 0 .. MaxFaults
      BY <1>6, FaultType DEF SweepStop, TypeOK, NoFault
    <2>2. sweep[w].now \in Sessions
      BY <1>1, <1>6 DEF SweepStop, Busy
    <2>3. sweep' \in [Webhooks -> Sweeps]
      <3>1. \A b \in BOOLEAN : [sweep[w] EXCEPT !.at = "settling", !.ok = b] \in Sweeps
        BY <1>0 DEF Sweeps
      <3> QED  BY <1>6, <3>1, SetSweepType DEF SweepStop
    <2>4. asked' \in [Sessions -> SUBSET Webhooks] /\ excused' \subseteq Sessions
      BY <1>6, <2>2 DEF SweepStop, TypeOK
    <2> QED  BY <1>6, <2>1, <2>3, <2>4 DEF SweepStop, SweepType, TypeOK
  <1>7. CASE SweepSettle(w)
    <2>1. faults' \in 0 .. MaxFaults
      BY <1>7, FaultType DEF SweepSettle, TypeOK, NoFault
    <2>2. sweep[w].now \in Sessions
      BY <1>1, <1>7 DEF SweepSettle, Busy
    <2>3. Settle(w) \in {"completed", "failed"}
      BY DEF Settle
    <2>4. log[w] \in [Sessions -> {"none", "pending", "completed", "failed"}]
      BY DEF TypeOK
    <2>5. log' \in [Webhooks -> [Sessions -> {"none", "pending", "completed", "failed"}]]
      BY <1>7, <2>2, <2>3, <2>4 DEF SweepSettle, TypeOK
    <2>6. recent' \subseteq Sessions
      BY <1>7, <2>2 DEF SweepSettle, TypeOK
    <2> QED  BY <1>0, <1>7, <2>1, <2>5, <2>6 DEF SweepSettle, SweepType, TypeOK, Sweeps
  <1>8. CASE SweepEnd(w)
    <2>1. [NewSweep EXCEPT !.at = "over"] \in Sweeps
      BY DEF NewSweep, Sweeps
    <2> QED  BY <1>8, <2>1 DEF SweepEnd, SweepType, TypeOK
  <1> QED  BY <1>2, <1>3, <1>4, <1>5, <1>6, <1>7, <1>8 DEF SweepStep

LEMMA RestartType ==
    ASSUME TypeOK, Restart
    PROVE  TypeOK'
  <1>1. [NewRequest EXCEPT !.at = "over"] \in Requests /\ NewRequest \in Requests
    BY DEF NewRequest, Requests, Closed
  <1>2. [NewSweep EXCEPT !.at = "over"] \in Sweeps
    BY DEF NewSweep, Sweeps
  <1>3. req' \in [Webhooks -> Requests] /\ sweep' \in [Webhooks -> Sweeps]
    BY <1>1, <1>2, NewSweepType DEF Restart
  <1>4. breaker' \in Counters /\ faults' \in 0 .. MaxFaults
    BY ClosedType, FaultType DEF Restart
  <1>5. lost' \subseteq Webhooks /\ excused' \subseteq Sessions
    BY DEF Restart, TypeOK
  <1> QED  BY <1>3, <1>4, <1>5 DEF Restart, TypeOK, Counters

LEMMA OtherTypes ==
    ASSUME TypeOK,
           ResetBreaker \/ Cool \/ \E s \in Sessions : SessionEnds(s) \/ Forget(s)
    PROVE  TypeOK'
  <1>1. ASSUME NEW s \in Sessions, SessionEnds(s) PROVE TypeOK'
    BY <1>1 DEF SessionEnds, TypeOK, breakerVars
  <1>2. ASSUME NEW s \in Sessions, Forget(s) PROVE TypeOK'
    <2>1. faults' \in 0 .. MaxFaults
      BY <1>2, FaultType DEF Forget
    <2> QED  BY <1>2, <2>1 DEF Forget, TypeOK, breakerVars
  <1>3. CASE ResetBreaker
    <2>1. stored' \in Counters /\ breaker' \in Counters
      BY <1>3, ClosedType DEF ResetBreaker, TypeOK, Counters
    <2>2. faults' \in 0 .. MaxFaults
      BY <1>3, FaultType DEF ResetBreaker
    <2> QED  BY <1>3, <2>1, <2>2 DEF ResetBreaker, TypeOK, sweepVars, Counters
  <1>4. CASE Cool
    BY <1>4 DEF Cool, TypeOK, breakerVars, sweepVars
  <1> QED  BY <1>1, <1>2, <1>3, <1>4

\* Every step of the specification, by what it is a step of.
Receipt == \E w \in Webhooks, kind \in Kinds \cup {None} : Record(w, kind)
Other == ResetBreaker \/ Cool \/ \E s \in Sessions : SessionEnds(s) \/ Forget(s)

LEMMA Steps ==
    ASSUME TypeOK, Next
    PROVE  \/ Receipt
           \/ \E w \in Webhooks : RequestStep(w)
           \/ \E w \in Webhooks : SweepStep(w)
           \/ Other \/ Restart
  <1>1. ASSUME NEW w \in Webhooks, Replay(w) PROVE Receipt
    <2>1. \A v \in Webhooks : event[v] \in Events
      BY DEF TypeOK
    <2>2. \A v \in Webhooks : event[v].kind \in Kinds \cup {None}
      BY <2>1 DEF Events
    <2> QED  BY <1>1, <2>2 DEF Replay, Receipt
  <1>2. ASSUME NEW w \in Webhooks, Receive(w) PROVE Receipt
    BY <1>2 DEF Receive, Receipt
  <1> QED  BY <1>1, <1>2 DEF Next, Other

----------------------------------------------------------------------------
(* The sweeps: a request set off its sweep when it had reacted, a sweep at *)
(* a session has one, and an accepted stop is known to have been asked.    *)

Early == {"idle", "dispatch", "hydrating", "hydrated", "unhydrated", "skipping",
          "reopening", "reacting"}
NotYet == \A w \in Webhooks : req[w].at \in Early => sweep[w].at = "none"

SweepInv == TypeOK /\ BusyNow /\ NotYet

LEMMA SweepInvInit == Init => SweepInv
  <1> SUFFICES ASSUME Init PROVE SweepInv
    OBVIOUS
  <1> QED  BY InitType DEF Init, SweepInv, BusyNow, NotYet, Busy, NewSweep

LEMMA RecordSweepInv ==
    ASSUME SweepInv, NEW w \in Webhooks, NEW kind \in Kinds \cup {None}, Record(w, kind)
    PROVE  SweepInv'
  <1>1. RequestType
    BY RecordType DEF SweepInv
  <1>2. UNCHANGED << sweep, log, recent, session, asked, excused, cooled >>
    BY DEF Record, sweepVars
  <1>3. TypeOK'
    BY <1>1, <1>2 DEF SweepInv, TypeOK, RequestType, Counters
  <1>4. req[w].at = "idle" /\ \A v \in Webhooks : v # w => req'[v] = req[v]
    BY DEF Record, Goto, SweepInv, TypeOK
  <1> QED  BY <1>2, <1>3, <1>4 DEF SweepInv, BusyNow, NotYet, Early

\* Only React touches a sweep, and it leaves "reacting" for "marking".
LEMMA RequestSweepInv ==
    ASSUME SweepInv, NEW w \in Webhooks, RequestStep(w)
    PROVE  SweepInv'
  <1>1. RequestType /\ (sweep' \in [Webhooks -> Sweeps])
    BY RequestStepType DEF SweepInv
  <1>2. UNCHANGED << log, recent, session, asked, excused, cooled >>
    BY DEF RequestStep, Dispatch, HydrateRead, HydrateApply, Skip, React, Mark, Written,
           sweepVars
  <1>3. TypeOK'
    BY <1>1, <1>2 DEF SweepInv, TypeOK, RequestType, Counters
  <1>4. req \in [Webhooks -> Requests] /\ sweep \in [Webhooks -> Sweeps]
    BY DEF SweepInv, TypeOK
  <1>5. CASE React(w)
    <2>1. sweep[w].at = "none" /\ sweep[w].now = None
      BY <1>5 DEF React, SweepInv, NotYet, Early, BusyNow, Busy
    <2>2. req'[w].at = "marking" /\ \A v \in Webhooks : v # w => req'[v] = req[v]
      BY <1>4, <1>5 DEF React, Goto
    <2>3. \/ sweep' = sweep
          \/ sweep' = [sweep EXCEPT ![w] = [@ EXCEPT !.at = "mappings"]]
      BY <1>5 DEF React, Spawn
    <2>4. /\ sweep'[w].now = None /\ sweep'[w].at \in {"none", "mappings"}
          /\ \A v \in Webhooks : v # w => sweep'[v] = sweep[v]
      BY <1>4, <2>1, <2>3 DEF Sweeps
    <2> QED  BY <1>3, <2>2, <2>4 DEF SweepInv, NotYet, BusyNow, Early, Busy
  <1>6. CASE ~React(w)
    <2>1. sweep' = sweep
      BY <1>6 DEF RequestStep, Dispatch, HydrateRead, HydrateApply, Skip, Mark, Written,
                  sweepVars
    <2>2. /\ \A v \in Webhooks : v # w => req'[v] = req[v]
          /\ req'[w].at \in Early => req[w].at \in Early
      <3>1. CASE Dispatch(w) \/ HydrateApply(w)
        BY <3>1, GotoMoves, WriteMoves DEF Dispatch, HydrateApply, Gate, SweepInv, Early
      <3>2. CASE HydrateRead(w)
        <4>1. CASE req' = [req EXCEPT ![w] = [at |-> "hydrated", row |-> stored]]
          BY <1>4, <3>2, <4>1 DEF HydrateRead, Early
        <4> QED  BY <3>2, <4>1, GotoMoves DEF HydrateRead, SweepInv, Early
      <3>3. CASE Skip(w)
        BY <3>3, GotoMoves DEF Skip, SweepInv, Early
      <3>4. CASE Mark(w)
        BY <3>4, WriteMoves DEF Mark, SweepInv, Early
      <3>5. CASE Written(w)
        BY <3>5, GotoMoves, WriteMoves DEF Written, SweepInv, Early
      <3> QED  BY <1>6, <3>1, <3>2, <3>3, <3>4, <3>5 DEF RequestStep
    <2> QED  BY <1>3, <2>1, <2>2 DEF SweepInv, NotYet, BusyNow
  <1> QED  BY <1>5, <1>6

\* A sweep's step is its own.
LEMMA SweepMoves ==
    ASSUME TypeOK, BusyNow, NEW w \in Webhooks, SweepStep(w)
    PROVE  /\ sweep'[w].at # "none" /\ sweep[w].at # "none"
           /\ sweep'[w].at \in Busy <=> sweep'[w].now # None
           /\ \A v \in Webhooks : v # w => sweep'[v] = sweep[v]
           /\ UNCHANGED << event, breakerVars, active, req, session, cooled >>
  <1>0. sweep \in [Webhooks -> Sweeps] /\ sweep[w] \in Sweeps
    BY DEF TypeOK
  <1>1. CASE SweepMappings(w)
    <2>1. sweep[w].now = None
      BY <1>1 DEF SweepMappings, BusyNow, Busy
    <2>2. CASE sweep' = [sweep EXCEPT ![w] = [@ EXCEPT !.at = "next", !.tags = Swept(w)]]
      BY <1>0, <1>1, <2>1, <2>2 DEF SweepMappings, Sweeps, Busy
    <2>3. CASE sweep' = [sweep EXCEPT ![w] = [@ EXCEPT !.at = "over"]]
      BY <1>0, <1>1, <2>1, <2>3 DEF SweepMappings, Sweeps, Busy
    <2> QED  BY <1>1, <2>2, <2>3 DEF SweepMappings
  <1>2. ASSUME NEW g \in Tags, SweepList(w, g)
        PROVE  /\ sweep'[w].at = "next" /\ sweep'[w].now = None /\ sweep[w].at = "next"
               /\ \A v \in Webhooks : v # w => sweep'[v] = sweep[v]
    <2>1. sweep[w].at = "next" /\ sweep[w].now = None
      BY <1>2 DEF SweepList, BusyNow, Busy
    <2>2. \E r \in Sweeps : /\ r.at = "next" /\ r.now = None
                           /\ sweep' = [sweep EXCEPT ![w] = r]
      <3> DEFINE l == { s \in Sessions : TagOf[s] = g /\ session[s] = "running" }
                 r1 == [sweep[w] EXCEPT !.tags = @ \ {g}, !.list = l]
                 r2 == [sweep[w] EXCEPT !.tags = @ \ {g}]
      <3>1. r1 \in Sweeps /\ r1.at = "next" /\ r1.now = None
        BY <1>0, <2>1 DEF Sweeps
      <3>2. r2 \in Sweeps /\ r2.at = "next" /\ r2.now = None
        BY <1>0, <2>1 DEF Sweeps
      <3>3. sweep' = [sweep EXCEPT ![w] = r1] \/ sweep' = [sweep EXCEPT ![w] = r2]
        BY <1>2 DEF SweepList
      <3> HIDE DEF r1, r2
      <3> QED  BY <3>1, <3>2, <3>3
    <2> QED  BY <1>0, <2>1, <2>2
  <1>3. ASSUME NEW s \in Sessions, SweepNext(w, s)
        PROVE  /\ sweep[w].at = "next"
               /\ \/ sweep'[w].at = "next" /\ sweep'[w].now = None
                  \/ sweep'[w].at = "logging" /\ sweep'[w].now = s
               /\ \A v \in Webhooks : v # w => sweep'[v] = sweep[v]
    <2>1. sweep[w].at = "next" /\ sweep[w].now = None
      BY <1>3 DEF SweepNext, BusyNow, Busy
    <2>2. CASE Remembered(w, s)
      <3>1. sweep' = [sweep EXCEPT ![w] = [sweep[w] EXCEPT !.list = @ \ {s}]]
        BY <1>3, <2>2 DEF SweepNext
      <3> QED  BY <1>0, <2>1, <3>1 DEF Sweeps
    <2>3. CASE ~Remembered(w, s)
      <3>1. sweep' = [sweep EXCEPT ![w] = [sweep[w] EXCEPT !.at = "logging",
                                                     !.now = s, !.list = @ \ {s}]]
        BY <1>3, <2>3 DEF SweepNext
      <3> QED  BY <1>0, <2>1, <3>1 DEF Sweeps
    <2> QED  BY <2>2, <2>3
  <1>4. CASE SweepLog(w)
    <2>1. sweep[w].now # None
      BY <1>4 DEF SweepLog, BusyNow, Busy
    <2> QED  BY <1>0, <1>4, <2>1 DEF SweepLog, Sweeps, Busy
  <1>5. CASE SweepStop(w)
    <2>1. sweep[w].now # None
      BY <1>5 DEF SweepStop, BusyNow, Busy
    <2>2. \E b \in BOOLEAN :
            sweep' = [sweep EXCEPT ![w] = [sweep[w] EXCEPT !.at = "settling", !.ok = b]]
      BY <1>5 DEF SweepStop
    <2>3. /\ sweep'[w].at = "settling" /\ sweep'[w].now = sweep[w].now
          /\ \A v \in Webhooks : v # w => sweep'[v] = sweep[v]
      BY <1>0, <2>2 DEF Sweeps
    <2> QED  BY <1>5, <2>1, <2>3 DEF SweepStop, Busy
  <1>6. CASE SweepSettle(w)
    BY <1>0, <1>6 DEF SweepSettle, Sweeps, Busy
  <1>7. CASE SweepEnd(w)
    BY <1>0, <1>7 DEF SweepEnd, NewSweep, Busy
  <1>8. UNCHANGED << event, breakerVars, active, req, session, cooled >>
    BY DEF SweepStep, SweepMappings, SweepList, SweepNext, SweepLog, SweepStop, SweepSettle,
           SweepEnd
  <1>9. CASE \E g \in Tags : SweepList(w, g)
    BY <1>2, <1>8, <1>9 DEF Busy
  <1>10. CASE \E s \in Sessions : SweepNext(w, s)
    BY <1>3, <1>8, <1>10, WebhookAssumption DEF Busy
  <1> QED  BY <1>1, <1>4, <1>5, <1>6, <1>7, <1>8, <1>9, <1>10 DEF SweepStep

LEMMA SweepSweepInv ==
    ASSUME SweepInv, NEW w \in Webhooks, SweepStep(w)
    PROVE  SweepInv'
  <1>1. SweepType
    BY SweepStepType DEF SweepInv
  <1>2. /\ sweep'[w].at # "none" /\ sweep[w].at # "none"
        /\ sweep'[w].at \in Busy <=> sweep'[w].now # None
        /\ \A v \in Webhooks : v # w => sweep'[v] = sweep[v]
        /\ UNCHANGED << event, breakerVars, active, req, session, cooled >>
    BY SweepMoves DEF SweepInv
  <1>3. TypeOK'
    BY <1>1, <1>2 DEF SweepInv, TypeOK, SweepType, breakerVars
  <1> QED  BY <1>2, <1>3 DEF SweepInv, BusyNow, NotYet

LEMMA OtherSweepInv ==
    ASSUME SweepInv, Other \/ UNCHANGED vars
    PROVE  SweepInv'
  <1>1. CASE Other
    <2>1. TypeOK'
      BY <1>1, OtherTypes DEF SweepInv, Other
    <2>2. UNCHANGED << req, sweep >>
      BY <1>1 DEF Other, SessionEnds, Forget, ResetBreaker, Cool, sweepVars
    <2> QED  BY <2>1, <2>2 DEF SweepInv, BusyNow, NotYet
  <1>2. CASE UNCHANGED vars
    BY <1>2 DEF vars, SweepInv, TypeOK, BusyNow, NotYet
  <1> QED  BY <1>1, <1>2

LEMMA RestartSweepInv ==
    ASSUME SweepInv, Restart
    PROVE  SweepInv'
  <1>1. TypeOK'
    BY RestartType DEF SweepInv
  <1>2. \A w \in Webhooks : sweep'[w].now = None /\ sweep'[w].at \in {"none", "over"}
    BY DEF Restart, NewSweep
  <1>3. \A w \in Webhooks : req'[w].at \in Early => sweep'[w].at = "none"
    BY DEF Restart, NewSweep, NewRequest, SweepInv, NotYet, Early
  <1> QED  BY <1>1, <1>2, <1>3 DEF SweepInv, BusyNow, NotYet, Busy

LEMMA SweepInvNext == SweepInv /\ [Next]_vars => SweepInv'
  <1> SUFFICES ASSUME SweepInv, [Next]_vars PROVE SweepInv'
    OBVIOUS
  <1>1. CASE Receipt
    BY <1>1, RecordSweepInv DEF Receipt
  <1>2. ASSUME NEW w \in Webhooks, RequestStep(w) PROVE SweepInv'
    BY <1>2, RequestSweepInv
  <1>3. ASSUME NEW w \in Webhooks, SweepStep(w) PROVE SweepInv'
    BY <1>3, SweepSweepInv
  <1>4. CASE Other \/ UNCHANGED vars
    BY <1>4, OtherSweepInv
  <1>5. CASE Restart
    BY <1>5, RestartSweepInv
  <1> QED  BY <1>1, <1>2, <1>3, <1>4, <1>5, Steps DEF SweepInv

\* Every variable keeps its type (the whole service).
THEOREM TypeCorrect == Spec => []TypeOK
  <1> QED  BY SweepInvInit, SweepInvNext, PTL DEF Spec, SweepInv

----------------------------------------------------------------------------
(* What was asked: while no excuse exists for a session, at most one sweep *)
(* is at it, none asked before that sweep has, and when it leaves the      *)
(* session either nothing was asked or the session is remembered.          *)

Stopped(s) ==
    s \notin excused =>
        /\ \A v, w \in Webhooks : sweep[v].now = s /\ sweep[w].now = s => v = w
        /\ \A w \in Webhooks :
              sweep[w].now = s /\ sweep[w].at # "settling" => asked[s] = {}
        /\ \A w \in Webhooks :
              sweep[w].now = s /\ sweep[w].at = "settling"
                => asked[s] = IF sweep[w].ok THEN {w} ELSE {}
        /\ (\A w \in Webhooks : sweep[w].now # s) => asked[s] = {} \/ s \in recent
        /\ \A v, w \in asked[s] : v = w

Settled ==
    \A w \in Webhooks : sweep[w].at = "settling" /\ sweep[w].ok
                            => w \in asked[sweep[w].now]

AskInv ==
    /\ SweepInv /\ Settled /\ LogTellsTruth
    /\ \A s \in Sessions : Stopped(s)

LEMMA AskInvInit == Init => AskInv
  <1> SUFFICES ASSUME Init PROVE AskInv
    OBVIOUS
  <1>1. SweepInv
    BY SweepInvInit
  <1>2. \A w \in Webhooks : sweep[w].now = None /\ sweep[w].at = "none"
    BY DEF Init, NewSweep
  <1> QED  BY <1>1, <1>2, WebhookAssumption
           DEF Init, AskInv, Settled, LogTellsTruth, Stopped

\* Sweeps that stay where they are, as far as the sessions they are at.
Still ==
    \A w \in Webhooks :
        /\ sweep'[w].now = sweep[w].now
        /\ sweep'[w].at = "settling" <=> sweep[w].at = "settling"
        /\ sweep[w].at = "settling" => sweep'[w].ok = sweep[w].ok

LEMMA StillStep ==
    ASSUME AskInv, Still, UNCHANGED << asked, recent, excused >>,
           \A w \in Webhooks, s \in Sessions :
              log'[w][s] = "completed" => log[w][s] = "completed"
    PROVE  Settled' /\ LogTellsTruth' /\ \A s \in Sessions : Stopped(s)'
  <1>1. Settled'
    BY DEF AskInv, Settled, Still
  <1>2. LogTellsTruth'
    BY DEF AskInv, LogTellsTruth
  <1>3. ASSUME NEW s \in Sessions PROVE Stopped(s)'
    <2>1. Stopped(s)
      BY DEF AskInv
    <2> QED  BY <2>1 DEF Stopped, Still
  <1> QED  BY <1>1, <1>2, <1>3

LEMMA NextAsk ==
    ASSUME AskInv, NEW w \in Webhooks, NEW s \in Sessions, SweepNext(w, s)
    PROVE  Settled' /\ LogTellsTruth' /\ \A x \in Sessions : Stopped(x)'
  <1>0. sweep \in [Webhooks -> Sweeps] /\ sweep[w] \in Sweeps /\ s # None
    BY WebhookAssumption DEF AskInv, SweepInv, TypeOK
  <1>1. sweep[w].at = "next" /\ sweep[w].now = None
    BY DEF SweepNext, AskInv, SweepInv, BusyNow, Busy
  <1>2. CASE Remembered(w, s)
    <2>1. sweep' = [sweep EXCEPT ![w] = [sweep[w] EXCEPT !.list = @ \ {s}]]
      BY <1>2 DEF SweepNext
    <2>2. Still
      BY <1>0, <1>1, <2>1 DEF Still, Sweeps
    <2> QED  BY <1>2, <2>2, StillStep DEF SweepNext
  <1>3. CASE ~Remembered(w, s)
    <2>1. sweep' = [sweep EXCEPT ![w] = [sweep[w] EXCEPT !.at = "logging",
                                                   !.now = s, !.list = @ \ {s}]]
      BY <1>3 DEF SweepNext
    <2>2. /\ sweep'[w].now = s /\ sweep'[w].at = "logging"
          /\ \A v \in Webhooks : v # w => sweep'[v] = sweep[v]
      BY <1>0, <2>1 DEF Sweeps
    <2>3. /\ s \notin recent /\ UNCHANGED << asked, recent, log >>
          /\ excused' = IF Stopping(s) # {} THEN excused \cup {s} ELSE excused
      BY <1>3 DEF SweepNext, Remembered
    <2>4. Settled'
      BY <2>2, <2>3 DEF AskInv, Settled
    <2>5. LogTellsTruth'
      BY <2>3 DEF AskInv, LogTellsTruth
    <2>6. ASSUME NEW x \in Sessions, x # s PROVE Stopped(x)'
      <3>1. Stopped(x)
        BY DEF AskInv
      <3>2. x \in excused <=> x \in excused'
        BY <2>3, <2>6
      <3>3. x # None
        BY WebhookAssumption
      <3> QED  BY <1>1, <2>2, <2>3, <2>6, <3>1, <3>2, <3>3 DEF Stopped
    <2>7. Stopped(s)'
      <3>1. CASE Stopping(s) # {}
        BY <2>3, <3>1 DEF Stopped
      <3>2. CASE Stopping(s) = {}
        <4>1. \A v \in Webhooks : sweep[v].now # s
          BY <3>2 DEF Stopping
        <4>2. s \notin excused => asked[s] = {}
          BY <2>3, <4>1 DEF AskInv, Stopped
        <4> QED  BY <2>2, <2>3, <3>2, <4>1, <4>2 DEF Stopped
      <3> QED  BY <3>1, <3>2
    <2> QED  BY <2>4, <2>5, <2>6, <2>7
  <1> QED  BY <1>2, <1>3

LEMMA StopAsk ==
    ASSUME AskInv, NEW w \in Webhooks, SweepStop(w)
    PROVE  Settled' /\ LogTellsTruth' /\ \A x \in Sessions : Stopped(x)'
  <1>0. /\ sweep \in [Webhooks -> Sweeps] /\ sweep[w] \in Sweeps
        /\ asked \in [Sessions -> SUBSET Webhooks]
    BY DEF AskInv, SweepInv, TypeOK
  <1>1. PICK s \in Sessions : s = sweep[w].now
    BY <1>0 DEF SweepStop, AskInv, SweepInv, BusyNow, Busy, Sweeps
  <1>2. sweep[w].at = "stopping" /\ UNCHANGED << recent, log >>
    BY DEF SweepStop
  <1>3. PICK ok \in BOOLEAN :
          /\ sweep' = [sweep EXCEPT ![w] = [sweep[w] EXCEPT !.at = "settling", !.ok = ok]]
          /\ \/ /\ asked' = [asked EXCEPT ![s] = @ \cup {w}]
                /\ (ok /\ excused' = excused) \/ excused' = excused \cup {s}
             \/ ~ok /\ asked' = asked /\ excused' = excused
    BY <1>1 DEF SweepStop
  <1>4. /\ sweep'[w].now = s /\ sweep'[w].at = "settling" /\ sweep'[w].ok = ok
        /\ \A v \in Webhooks : v # w => sweep'[v] = sweep[v]
    BY <1>0, <1>1, <1>3 DEF Sweeps
  <1>5. /\ \A x \in Sessions :
             asked[x] \subseteq asked'[x] /\ (x # s => asked'[x] = asked[x])
        /\ ok => w \in asked'[s]
    BY <1>0, <1>1, <1>3
  <1>6. Settled'
    <2> SUFFICES ASSUME NEW v \in Webhooks, sweep'[v].at = "settling", sweep'[v].ok
                 PROVE  v \in asked'[sweep'[v].now]
      BY DEF Settled
    <2>1. CASE v = w
      BY <1>4, <1>5, <2>1
    <2>2. CASE v # w
      <3>1. sweep[v].now \in Sessions
        BY <1>0, <1>4, <2>2 DEF AskInv, SweepInv, BusyNow, Busy, Sweeps
      <3> QED  BY <1>4, <1>5, <2>2, <3>1 DEF AskInv, Settled
    <2> QED  BY <2>1, <2>2
  <1>7. LogTellsTruth'
    BY <1>1, <1>5, <1>2 DEF AskInv, LogTellsTruth
  <1>8. ASSUME NEW x \in Sessions, x # s PROVE Stopped(x)'
    <2>1. Stopped(x)
      BY DEF AskInv
    <2>2. x \in excused <=> x \in excused'
      BY <1>3, <1>8
    <2> QED  BY <1>1, <1>4, <1>5, <1>8, <1>2, <2>1, <2>2 DEF Stopped
  <1>9. Stopped(s)'
    <2> SUFFICES ASSUME s \notin excused' PROVE Stopped(s)'
      BY DEF Stopped
    <2>1. s \notin excused /\ excused' = excused
      BY <1>3
    <2>2. /\ asked[s] = {}
          /\ \A v \in Webhooks : sweep[v].now = s => v = w
      BY <1>1, <1>2, <2>1 DEF AskInv, Stopped
    <2>3. asked'[s] = IF ok THEN {w} ELSE {}
      BY <1>0, <1>1, <1>3, <2>1, <2>2
    <2> QED  BY <1>4, <2>2, <2>3 DEF Stopped
  <1> QED  BY <1>6, <1>7, <1>8, <1>9

LEMMA SettleAsk ==
    ASSUME AskInv, NEW w \in Webhooks, SweepSettle(w)
    PROVE  Settled' /\ LogTellsTruth' /\ \A x \in Sessions : Stopped(x)'
  <1> DEFINE s == sweep[w].now
  <1>0. /\ sweep \in [Webhooks -> Sweeps] /\ sweep[w] \in Sweeps
        /\ log \in [Webhooks -> [Sessions -> {"none", "pending", "completed", "failed"}]]
    BY DEF AskInv, SweepInv, TypeOK
  <1>1. /\ s \in Sessions /\ sweep[w].at = "settling" /\ UNCHANGED << asked, excused >>
        /\ recent' = IF sweep[w].ok THEN recent \cup {s} ELSE recent
    BY <1>0 DEF SweepSettle, AskInv, SweepInv, BusyNow, Busy, Sweeps
  <1>2. /\ sweep'[w].now = None /\ sweep'[w].at = "next"
        /\ \A v \in Webhooks : v # w => sweep'[v] = sweep[v]
    BY <1>0 DEF SweepSettle, Sweeps
  <1>3. Settled'
    BY <1>1, <1>2 DEF AskInv, Settled
  <1>4. LogTellsTruth'
    <2>1. log' = log \/ log' = [log EXCEPT ![w] = [@ EXCEPT ![s] = Settle(w)]]
      BY DEF SweepSettle
    <2>2. Settle(w) = "completed" => w \in asked[s]
      BY <1>1 DEF AskInv, Settled, Settle
    <2>3. log[w] \in [Sessions -> {"none", "pending", "completed", "failed"}]
      BY <1>0
    <2>4. ASSUME NEW v \in Webhooks, NEW x \in Sessions, log'[v][x] = "completed"
          PROVE  log[v][x] = "completed" \/ (v = w /\ x = s /\ Settle(w) = "completed")
      BY <1>0, <1>1, <2>1, <2>3, <2>4
    <2> QED  BY <1>1, <2>2, <2>4 DEF AskInv, LogTellsTruth
  <1>5. ASSUME NEW x \in Sessions PROVE Stopped(x)'
    <2>1. Stopped(x) /\ x # None
      BY WebhookAssumption DEF AskInv
    <2>2. CASE x # s
      BY <1>1, <1>2, <2>1, <2>2 DEF Stopped
    <2>3. CASE x = s /\ x \notin excused
      <3>1. \A v \in Webhooks : sweep'[v].now # x
        BY <1>1, <1>2, <2>1, <2>3 DEF Stopped
      <3>2. asked'[x] = IF sweep[w].ok THEN {w} ELSE {}
        BY <1>1, <2>1, <2>3 DEF Stopped
      <3>3. asked'[x] = {} \/ x \in recent'
        BY <1>1, <2>3, <3>2
      <3> QED  BY <3>1, <3>2, <3>3 DEF Stopped
    <2>4. CASE x \in excused
      BY <1>1, <2>4 DEF Stopped
    <2> QED  BY <2>2, <2>3, <2>4
  <1> QED  BY <1>3, <1>4, <1>5

\* The sweep's other steps leave the sessions it is at, and so do the requests.
LEMMA SweepStill ==
    ASSUME AskInv, NEW w \in Webhooks,
           \/ SweepMappings(w) \/ SweepLog(w) \/ SweepEnd(w)
           \/ \E g \in Tags : SweepList(w, g)
    PROVE  Still
  <1>0. /\ sweep \in [Webhooks -> Sweeps] /\ sweep[w] \in Sweeps
        /\ \A v \in Webhooks : v # w => sweep'[v] = sweep[v]
        /\ sweep'[w].at \in Busy <=> sweep'[w].now # None
        /\ sweep[w].at \in Busy <=> sweep[w].now # None
    BY SweepMoves DEF AskInv, SweepInv, TypeOK, SweepStep, BusyNow
  <1>1. CASE SweepMappings(w)
    <2>1. sweep[w].at = "mappings" /\ sweep'[w].at \in {"next", "over"}
      <3>1. CASE sweep' = [sweep EXCEPT ![w] = [sweep[w] EXCEPT !.at = "next",
                                                               !.tags = Swept(w)]]
        BY <1>0, <1>1, <3>1 DEF SweepMappings, Sweeps
      <3>2. CASE sweep' = [sweep EXCEPT ![w] = [sweep[w] EXCEPT !.at = "over"]]
        BY <1>0, <1>1, <3>2 DEF SweepMappings, Sweeps
      <3> QED  BY <1>1, <3>1, <3>2 DEF SweepMappings
    <2> QED  BY <1>0, <2>1 DEF Still, Busy
  <1>2. ASSUME NEW g \in Tags, SweepList(w, g) PROVE Still
    <2>1. sweep[w].at = "next"
      BY <1>2 DEF SweepList
    <2>2. sweep'[w].at = "next"
      <3> DEFINE l == { s \in Sessions : TagOf[s] = g /\ session[s] = "running" }
      <3>1. CASE sweep' = [sweep EXCEPT ![w] =
                            [sweep[w] EXCEPT !.tags = @ \ {g}, !.list = l]]
        BY <1>0, <2>1, <3>1 DEF Sweeps
      <3>2. CASE sweep' = [sweep EXCEPT ![w] = [sweep[w] EXCEPT !.tags = @ \ {g}]]
        BY <1>0, <2>1, <3>2 DEF Sweeps
      <3> QED  BY <1>2, <3>1, <3>2 DEF SweepList
    <2> QED  BY <1>0, <2>1, <2>2 DEF Still, Busy
  <1>3. CASE SweepLog(w)
    <2>1. /\ sweep[w].at = "logging" /\ sweep'[w].at = "stopping"
          /\ sweep'[w].now = sweep[w].now
      BY <1>0, <1>3 DEF SweepLog, Sweeps
    <2> QED  BY <1>0, <2>1 DEF Still
  <1>4. CASE SweepEnd(w)
    <2>1. sweep[w].at = "next" /\ sweep'[w].at = "over"
      BY <1>0, <1>4 DEF SweepEnd, NewSweep
    <2> QED  BY <1>0, <2>1 DEF Still, Busy
  <1> QED  BY <1>1, <1>2, <1>3, <1>4

LEMMA ReactStill ==
    ASSUME AskInv, NEW w \in Webhooks, RequestStep(w)
    PROVE  Still /\ UNCHANGED << asked, recent, excused, log >>
  <1>1. CASE React(w)
    <2>1. sweep[w].at = "none" /\ sweep \in [Webhooks -> Sweeps] /\ sweep[w] \in Sweeps
      BY <1>1 DEF React, AskInv, SweepInv, TypeOK, NotYet, Early
    <2>2. \/ sweep' = sweep
          \/ sweep' = [sweep EXCEPT ![w] = [@ EXCEPT !.at = "mappings"]]
      BY <1>1 DEF React, Spawn
    <2>3. /\ sweep'[w].now = sweep[w].now /\ sweep'[w].at \in {"none", "mappings"}
          /\ \A v \in Webhooks : v # w => sweep'[v] = sweep[v]
      BY <2>1, <2>2 DEF Sweeps
    <2> QED  BY <1>1, <2>1, <2>3 DEF React, Still
  <1>2. CASE ~React(w)
    BY <1>2 DEF RequestStep, Dispatch, HydrateRead, HydrateApply, Skip, Mark, Written,
                sweepVars, Still
  <1> QED  BY <1>1, <1>2

LEMMA RestartAsk ==
    ASSUME AskInv, Restart
    PROVE  Settled' /\ LogTellsTruth' /\ \A s \in Sessions : Stopped(s)'
  <1>1. /\ \A w \in Webhooks : sweep'[w].now = None /\ sweep'[w].at \in {"none", "over"}
        /\ UNCHANGED << asked, log >>
        /\ excused' = excused \cup { s \in Sessions : s \in recent \/ Stopping(s) # {} }
    BY DEF Restart, NewSweep
  <1>2. Settled' /\ LogTellsTruth'
    BY <1>1 DEF AskInv, Settled, LogTellsTruth
  <1>3. ASSUME NEW s \in Sessions PROVE Stopped(s)'
    <2> SUFFICES ASSUME s \notin excused' PROVE Stopped(s)'
      BY DEF Stopped
    <2>1. /\ s \notin excused /\ s \notin recent
          /\ \A w \in Webhooks : sweep[w].now # s
      BY <1>1 DEF Stopping
    <2>2. asked[s] = {}
      BY <2>1 DEF AskInv, Stopped
    <2> QED  BY <1>1, <2>2, WebhookAssumption DEF Stopped
  <1> QED  BY <1>2, <1>3

LEMMA AskInvNext == AskInv /\ [Next]_vars => AskInv'
  <1> SUFFICES ASSUME AskInv, [Next]_vars PROVE AskInv'
    OBVIOUS
  <1> DEFINE Goal == Settled' /\ LogTellsTruth' /\ \A s \in Sessions : Stopped(s)'
  <1>1. SweepInv'
    BY SweepInvNext DEF AskInv
  <1>2. CASE Receipt
    <2>1. UNCHANGED << asked, recent, excused, log >> /\ Still
      BY <1>2 DEF Receipt, Record, sweepVars, Still
    <2> QED  BY <1>1, <2>1, StillStep DEF AskInv
  <1>3. ASSUME NEW w \in Webhooks, RequestStep(w) PROVE AskInv'
    BY <1>1, <1>3, ReactStill, StillStep DEF AskInv
  <1>4. ASSUME NEW w \in Webhooks, SweepStep(w) PROVE Goal
    <2>1. CASE SweepMappings(w) \/ SweepEnd(w) \/ \E g \in Tags : SweepList(w, g)
      <3>1. UNCHANGED << asked, recent, excused, log >>
        BY <2>1 DEF SweepMappings, SweepEnd, SweepList
      <3> QED  BY <2>1, <3>1, SweepStill, StillStep
    <2>2. CASE SweepLog(w)
      <3>1. /\ UNCHANGED << asked, recent, excused >>
            /\ \/ log' = log
               \/ log' = [log EXCEPT ![w] = [@ EXCEPT ![sweep[w].now] = "pending"]]
        BY <2>2 DEF SweepLog
      <3>2. log \in [Webhooks -> [Sessions -> {"none", "pending", "completed", "failed"}]]
        BY DEF AskInv, SweepInv, TypeOK
      <3>3. log[w] \in [Sessions -> {"none", "pending", "completed", "failed"}]
        BY <3>2
      <3>4. \A v \in Webhooks, s \in Sessions :
                log'[v][s] = "completed" => log[v][s] = "completed"
        BY <3>1, <3>2, <3>3
      <3> QED  BY <2>2, <3>1, <3>4, SweepStill, StillStep
    <2>3. CASE \E s \in Sessions : SweepNext(w, s)
      BY <2>3, NextAsk
    <2>4. CASE SweepStop(w)
      BY <2>4, StopAsk
    <2>5. CASE SweepSettle(w)
      BY <2>5, SettleAsk
    <2> QED  BY <1>4, <2>1, <2>2, <2>3, <2>4, <2>5 DEF SweepStep
  <1>5. CASE Other
    <2>1. CASE \E s \in Sessions : Forget(s)
      <3>1. PICK s \in Sessions : Forget(s)
        BY <2>1
      <3>2. /\ UNCHANGED << sweep, asked, log >>
            /\ recent' = recent \ {s} /\ excused' = excused \cup {s}
        BY <3>1 DEF Forget
      <3>3. \A x \in Sessions : Stopped(x)'
        BY <3>2 DEF AskInv, Stopped
      <3> QED  BY <1>1, <3>2, <3>3 DEF AskInv, Settled, LogTellsTruth
    <2>2. CASE ~\E s \in Sessions : Forget(s)
      <3>1. UNCHANGED << asked, recent, excused, log >> /\ Still
        BY <1>5, <2>2 DEF Other, SessionEnds, ResetBreaker, Cool, sweepVars, Still
      <3> QED  BY <1>1, <3>1, StillStep DEF AskInv
    <2> QED  BY <2>1, <2>2
  <1>6. CASE Restart
    BY <1>1, <1>6, RestartAsk DEF AskInv
  <1>7. CASE UNCHANGED vars
    <2>1. UNCHANGED << asked, recent, excused, log >> /\ Still
      BY <1>7 DEF vars, Still
    <2> QED  BY <1>1, <2>1, StillStep DEF AskInv
  <1>8. TypeOK
    BY DEF AskInv, SweepInv
  <1> QED  BY <1>1, <1>2, <1>3, <1>4, <1>5, <1>6, <1>7, <1>8, Steps DEF AskInv

\* The operation log never claims a stop that StEvE did not accept
\* (auto-stop.service.ts: the audit row's outcome).
THEOREM LogIsTrue == Spec => []LogTellsTruth
  <1> QED  BY AskInvInit, AskInvNext, PTL DEF Spec, AskInv

\* A second stop of one session always has one of the excuses of excused: two
\* sweeps at it together, a lost answer, a minute gone by, a restart
\* (auto-stop.service.ts: wasRecentlyStopped and markRecent).
THEOREM SecondStopsExplained == Spec => []StoppedAgainExplained
  <1>1. AskInv => StoppedAgainExplained
    <2> SUFFICES ASSUME AskInv, NEW s \in Sessions, s \notin excused
                 PROVE  ~(Cardinality(asked[s]) > 1)
      BY DEF StoppedAgainExplained
    <2>1. \A v, w \in asked[s] : v = w
      BY DEF AskInv, Stopped
    <2>2. CASE asked[s] = {}
      BY <2>2, FS_EmptySet
    <2>3. CASE asked[s] # {}
      <3>1. PICK w \in asked[s] : TRUE
        BY <2>3
      <3>2. asked[s] = {w}
        BY <2>1, <3>1
      <3>3. Cardinality({w}) = 1
        BY FS_Singleton
      <3> QED  BY <3>2, <3>3
    <2> QED  BY <2>2, <2>3
  <1> QED  BY <1>1, AskInvInit, AskInvNext, PTL DEF Spec

----------------------------------------------------------------------------
(* The breaker.                                                            *)

LEMMA QuietBreaker ==
    ASSUME TypeOK,
           \/ Receipt \/ Cool \/ UNCHANGED vars
           \/ \E w \in Webhooks : Skip(w) \/ React(w) \/ SweepStep(w)
           \/ \E s \in Sessions : SessionEnds(s) \/ Forget(s)
    PROVE  UNCHANGED breakerVars
  <1>1. CASE Receipt \/ Cool \/ UNCHANGED vars
    BY <1>1 DEF Receipt, Record, Cool, vars, breakerVars
  <1>2. CASE \E w \in Webhooks : Skip(w) \/ React(w) \/ SweepStep(w)
    BY <1>2 DEF Skip, React, SweepStep, SweepMappings, SweepList, SweepNext, SweepLog,
                SweepStop, SweepSettle, SweepEnd
  <1>3. CASE \E s \in Sessions : SessionEnds(s) \/ Forget(s)
    BY <1>3 DEF SessionEnds, Forget
  <1> QED  BY <1>1, <1>2, <1>3

\* Steps that leave the requests of the others where they are.
LEMMA RequestMoves ==
    ASSUME TypeOK, NEW w \in Webhooks, RequestStep(w)
    PROVE  \A v \in Webhooks : v # w => req'[v] = req[v]
  <1>1. CASE HydrateRead(w)
    <2>1. CASE req' = [req EXCEPT ![w] = [at |-> "hydrated", row |-> stored]]
      BY <2>1 DEF TypeOK
    <2> QED  BY <1>1, <2>1, GotoMoves DEF HydrateRead
  <1>2. CASE Dispatch(w) \/ HydrateApply(w)
    BY <1>2, GotoMoves, WriteMoves DEF Dispatch, HydrateApply, Gate
  <1>3. CASE Skip(w) \/ React(w) \/ Mark(w) \/ Written(w)
    BY <1>3, GotoMoves, WriteMoves DEF Skip, React, Mark, Written
  <1> QED  BY <1>1, <1>2, <1>3 DEF RequestStep

\* The gate leaves its dispatch probing, or the breaker disabled.
LEMMA GateTrips ==
    ASSUME TypeOK, NEW w \in Webhooks, NEW m \in Counters, Gate(w, m)
    PROVE  Probing(w)' \/ breaker'.until # 0
  <1>1. CASE m.until = 0 \/ m.until \in 1 .. cooled
    BY <1>1, GotoMoves, WriteMoves DEF Gate, Probing, TypeOK, Counters
  <1>2. CASE m.until > cooled
    BY <1>2 DEF Gate, TypeOK, Counters
  <1> QED  BY <1>1, <1>2 DEF Gate

LEMMA TrippedStep ==
    ASSUME TypeOK, TrippedOrProbing, [Next]_vars
    PROVE  TrippedOrProbing'
  <1>0. /\ Threshold \in Nat \ {0} /\ Closed.count = 0 /\ Closed.until = 0
        /\ breaker \in Counters /\ openings \in Nat
    BY WebhookAssumption DEF Closed, TypeOK, Counters
  <1>1. CASE UNCHANGED << req, breaker >>
    BY <1>1 DEF TrippedOrProbing, Probing
  <1>2. ASSUME NEW w \in Webhooks, NEW kind \in Kinds \cup {None}, Record(w, kind)
        PROVE  TrippedOrProbing'
    <2>1. breaker' = breaker /\ ~Probing(w)
      BY <1>2 DEF Record, breakerVars, Probing
    <2>2. \A v \in Webhooks : v # w => req'[v] = req[v]
      BY <1>2, GotoMoves DEF Record
    <2> QED  BY <2>1, <2>2 DEF TrippedOrProbing, Probing
  <1>3. ASSUME NEW w \in Webhooks, RequestStep(w) PROVE TrippedOrProbing'
    <2>1. \A v \in Webhooks : v # w => req'[v] = req[v]
      BY <1>3, RequestMoves
    <2>2. SUFFICES \/ Probing(w)' \/ breaker'.until # 0 \/ ~(breaker'.count >= Threshold)
                   \/ ~Probing(w) /\ breaker' = breaker
      <3>1. CASE Probing(w)' \/ breaker'.until # 0 \/ ~(breaker'.count >= Threshold)
        BY <3>1 DEF TrippedOrProbing
      <3>2. CASE ~Probing(w) /\ breaker' = breaker
        <4>1. \A v \in Webhooks : Probing(v) => v # w /\ Probing(v)'
          BY <2>1, <3>2 DEF Probing
        <4> QED  BY <3>2, <4>1 DEF TrippedOrProbing
      <3> QED  BY <3>1, <3>2
    <2>3. CASE Dispatch(w)
      <3>1. CASE hydrated
        BY <1>0, <2>3, <3>1, GateTrips DEF Dispatch
      <3>2. CASE ~hydrated
        BY <2>3, <3>2, GotoMoves DEF Dispatch, Probing
      <3> QED  BY <3>1, <3>2
    <2>4. CASE HydrateRead(w)
      <3>1. CASE req' = [req EXCEPT ![w] = [at |-> "hydrated", row |-> stored]]
        BY <3>1 DEF TypeOK, Probing
      <3> QED  BY <2>4, <3>1, GotoMoves DEF HydrateRead, Probing
    <2>5. CASE HydrateApply(w)
      <3>1. req[w].row \in Counters
        BY DEF TypeOK, Requests, Counters
      <3> QED  BY <1>0, <2>5, <3>1, GateTrips DEF HydrateApply
    <2>6. CASE Skip(w)
      BY <2>6 DEF Skip, breakerVars, Probing
    <2>7. CASE React(w)
      BY <2>7, GotoMoves DEF React, Probing
    <2>8. CASE Mark(w)
      <3>1. CASE event[w].kind = "broken"
        BY <2>8, <3>1, WriteMoves DEF Mark, Probing
      <3>2. CASE event[w].kind # "broken"
        <4>1. breaker' = Closed
          BY <2>8, <3>2 DEF Mark, Write, Counted
        <4> QED  BY <1>0, <4>1
      <3> QED  BY <3>1, <3>2
    <2>9. CASE Written(w)
      <3>1. CASE req[w].at = "failing" /\ Trips(breaker)
        <4>1. breaker' = [breaker EXCEPT !.until = openings + 1]
          BY <2>9, <3>1 DEF Written, Write
        <4>2. breaker'.until = openings + 1
          BY <1>0, <4>1 DEF Counters
        <4> QED  BY <1>0, <4>2
      <3>2. CASE req[w].at = "failing" /\ ~Trips(breaker)
        <4>1. breaker' = breaker
          BY <2>9, <3>2 DEF Written
        <4> QED  BY <1>0, <3>2, <4>1 DEF Trips, Counters
      <3>3. CASE req[w].at = "reopening"
        BY <2>9, <3>3, GotoMoves DEF Written, Probing
      <3>4. CASE req[w].at \in {"succeeding", "tripping"}
        BY <2>9, <3>4 DEF Written, Probing
      <3> QED  BY <2>9, <3>1, <3>2, <3>3, <3>4 DEF Written
    <2> QED  BY <1>3, <2>3, <2>4, <2>5, <2>6, <2>7, <2>8, <2>9 DEF RequestStep
  <1>4. CASE ResetBreaker \/ Restart
    <2>1. breaker' = Closed
      BY <1>4 DEF ResetBreaker, Restart
    <2> QED  BY <1>0, <2>1 DEF TrippedOrProbing
  <1>5. ASSUME NEW w \in Webhooks, SweepStep(w) PROVE TrippedOrProbing'
    <2>1. UNCHANGED << req, breaker >>
      BY <1>5 DEF SweepStep, SweepMappings, SweepList, SweepNext, SweepLog, SweepStop,
                  SweepSettle, SweepEnd, breakerVars
    <2> QED  BY <1>1, <2>1
  <1>6. CASE Other
    <2>1. CASE ResetBreaker
      BY <1>4, <2>1
    <2>2. CASE ~ResetBreaker
      <3>1. UNCHANGED << req, breaker >>
        BY <1>6, <2>2 DEF Other, Cool, SessionEnds, Forget, breakerVars
      <3> QED  BY <1>1, <3>1
    <2> QED  BY <2>1, <2>2
  <1>7. CASE UNCHANGED vars
    BY <1>1, <1>7 DEF vars
  <1> QED  BY <1>2, <1>3, <1>4, <1>5, <1>6, <1>7, Steps DEF Receipt

\* The breaker is never counted out and open to all without a dispatch under
\* way that will settle it (recordDispatchFailure: >= and not =).
THEOREM BreakerNeverWedged == Spec => []TrippedOrProbing
  <1>1. Init => TrippedOrProbing
    BY WebhookAssumption DEF Init, TrippedOrProbing, Closed
  <1>2. SweepInv /\ TrippedOrProbing /\ [Next]_vars => TrippedOrProbing'
    BY TrippedStep DEF SweepInv
  <1> QED  BY <1>1, <1>2, SweepInvInit, SweepInvNext, PTL DEF Spec

----------------------------------------------------------------------------
(* The breaker's row: while statements did not overlap, the one write under *)
(* way carries the counters and the one read under way the row.             *)

Fresh == ~hydrated => \A w \in Webhooks : req[w].at \in {"idle", "dispatch", "over"}

RowInv ==
    hydrated /\ ~crossed =>
        /\ \A w \in Writers : Writers \cup Hydrating = {w} /\ req[w].row = breaker
        /\ \A w \in Webhooks : req[w].at = "hydrated" => req[w].row = stored
        /\ Writers \cup Hydrating = {} => stored = breaker

\* Neither a statement nor a counter moves.
LEMMA RowStill ==
    ASSUME RowInv, UNCHANGED breakerVars, Writers' = Writers, Hydrating' = Hydrating,
           \A w \in Webhooks : req'[w].at \in {"hydrated", "reopening", "succeeding",
                                               "failing", "tripping"}
                                 => req'[w] = req[w]
    PROVE  RowInv'
  <1> SUFFICES ASSUME hydrated, ~crossed PROVE RowInv'
    BY DEF RowInv, breakerVars
  <1>1. \A w \in Webhooks : w \in Writers' => req'[w] = req[w]
    BY DEF Writers
  <1>2. \A w \in Writers' : Writers' \cup Hydrating' = {w} /\ req'[w].row = breaker'
    <2>1. \A w \in Writers : Writers \cup Hydrating = {w} /\ req[w].row = breaker
      BY DEF RowInv
    <2>2. \A w \in Writers : w \in Webhooks
      BY DEF Writers
    <2> QED  BY <1>1, <2>1, <2>2 DEF breakerVars
  <1>3. \A w \in Webhooks : req'[w].at = "hydrated" => req'[w].row = stored'
    BY DEF RowInv, breakerVars
  <1>4. Writers' \cup Hydrating' = {} => stored' = breaker'
    BY DEF RowInv, breakerVars
  <1> QED  BY <1>2, <1>3, <1>4 DEF RowInv

\* A write begins: alone, it is the one write under way.
LEMMA RowWrite ==
    ASSUME TypeOK, NEW w \in Webhooks, NEW m \in Counters, NEW stage, Write(w, stage, m),
           stage \in {"reopening", "succeeding", "failing", "tripping"}
    PROVE  RowInv'
  <1>1. /\ req'[w].at = stage /\ req'[w].row = m /\ breaker' = m
        /\ \A v \in Webhooks : v # w => req'[v] = req[v]
        /\ crossed' = ~Alone(w)
    BY WriteMoves DEF Write
  <1>2. CASE Alone(w)
    <2>1. \A v \in Webhooks : v # w => v \notin Writers /\ v \notin Hydrating
      BY <1>2 DEF Alone
    <2>2. Writers' = {w} /\ Hydrating' = {}
      BY <1>1, <2>1 DEF Writers, Hydrating
    <2>3. \A v \in Webhooks : req'[v].at # "hydrated"
      BY <2>2 DEF Hydrating
    <2> QED  BY <1>1, <2>2, <2>3 DEF RowInv
  <1>3. CASE ~Alone(w)
    BY <1>1, <1>3 DEF RowInv
  <1> QED  BY <1>2, <1>3

\* The gate with the counters of the row or of the process, when these agree.
LEMMA RowGate ==
    ASSUME TypeOK, RowInv, NEW w \in Webhooks, NEW m \in Counters, Gate(w, m),
           w \notin Writers, hydrated, hydrated', stored' = stored,
           ~crossed /\ Writers \cup Hydrating \subseteq {w} => m = stored,
           ~crossed /\ Writers # {} => m = breaker,
           req[w].at \in {"dispatch", "hydrated", "unhydrated"}
    PROVE  RowInv'
  <1>1. CASE m.until \in 1 .. cooled
    <2>1. [m EXCEPT !.until = 0] \in Counters
      BY DEF Counters
    <2>2. Write(w, "reopening", [m EXCEPT !.until = 0])
      BY <1>1 DEF Gate, Counters, TypeOK
    <2> QED  BY <2>1, <2>2, RowWrite
  <1>2. CASE m.until \notin 1 .. cooled
    <2>1. breaker' = m /\ crossed' = crossed
      BY <1>2 DEF Gate
    <2>2. /\ req'[w].at \in {"reacting", "skipping"}
          /\ \A v \in Webhooks : v # w => req'[v] = req[v]
      BY <1>2, GotoMoves DEF Gate
    <2>3. Writers' = Writers /\ Hydrating' = Hydrating \ {w}
      BY <2>2 DEF Writers, Hydrating
    <2> SUFFICES ASSUME ~crossed PROVE RowInv'
      BY <2>1 DEF RowInv
    <2>4. /\ \A v \in Writers : Writers \cup Hydrating = {v} /\ req[v].row = breaker
          /\ \A v \in Webhooks : req[v].at = "hydrated" => req[v].row = stored
      BY DEF RowInv
    <2>5. \A v \in Writers' : Writers' \cup Hydrating' = {v} /\ req'[v].row = breaker'
      BY <2>1, <2>2, <2>3, <2>4 DEF Writers
    <2>6. \A v \in Webhooks : req'[v].at = "hydrated" => req'[v].row = stored'
      BY <2>2, <2>4
    <2>7. Writers' \cup Hydrating' = {} => stored' = breaker'
      BY <2>1, <2>3
    <2> QED  BY <2>5, <2>6, <2>7 DEF RowInv
  <1> QED  BY <1>1, <1>2

LEMMA RowRequest ==
    ASSUME TypeOK, Fresh, RowInv, NEW w \in Webhooks, RequestStep(w)
    PROVE  Fresh' /\ RowInv'
  <1>0. /\ stored \in Counters /\ breaker \in Counters
        /\ req[w].row \in Counters /\ openings \in Nat
    BY DEF TypeOK, Counters, Requests
  <1>1. CASE Dispatch(w)
    <2>1. hydrated'
      BY <1>1 DEF Dispatch, Fresh
    <2>2. CASE hydrated
      <3>1. w \notin Writers /\ w \notin Hydrating /\ stored' = stored /\ Gate(w, breaker)
        BY <1>1, <2>2 DEF Dispatch, Writers, Hydrating
      <3>2. ~crossed /\ Writers \cup Hydrating \subseteq {w} => breaker = stored
        BY <2>2, <3>1 DEF RowInv
      <3>3. RowInv'
        BY <1>0, <1>1, <2>1, <2>2, <3>1, <3>2, RowGate DEF Dispatch
      <3> QED  BY <2>1, <3>3 DEF Fresh
    <2>3. CASE ~hydrated
      <3>1. Writers = {} /\ Hydrating = {}
        BY <2>3 DEF Fresh, Writers, Hydrating
      <3>2. /\ req'[w].at = "hydrating" /\ \A v \in Webhooks : v # w => req'[v] = req[v]
        BY <1>1, <2>3, GotoMoves DEF Dispatch
      <3>3. Writers' = {} /\ Hydrating' = {w} /\ \A v \in Webhooks : req'[v].at # "hydrated"
        BY <3>1, <3>2 DEF Writers, Hydrating
      <3> QED  BY <2>1, <3>3 DEF Fresh, RowInv
    <2> QED  BY <2>2, <2>3
  <1>2. CASE ~Dispatch(w)
    <2>0. hydrated /\ hydrated'
      BY <1>2 DEF RequestStep, HydrateRead, HydrateApply, Skip, React, Mark, Written, Fresh,
                  breakerVars
    <2>1. CASE HydrateRead(w)
      <3>1. CASE req' = [req EXCEPT ![w] = [at |-> "hydrated", row |-> stored]]
        <4>1. /\ req'[w].at = "hydrated" /\ req'[w].row = stored
              /\ \A v \in Webhooks : v # w => req'[v] = req[v]
          BY <3>1 DEF TypeOK
        <4>2. Writers' = Writers /\ Hydrating' = Hydrating /\ w \in Hydrating
          BY <2>1, <4>1 DEF HydrateRead, Writers, Hydrating
        <4>3. UNCHANGED << stored, hydrated, breaker >> /\ (~crossed' => ~crossed)
          BY <2>1 DEF HydrateRead
        <4> SUFFICES ASSUME ~crossed' PROVE RowInv'
          BY <2>0 DEF RowInv, Fresh
        <4>4. Writers = {}
          BY <2>0, <4>2, <4>3 DEF RowInv, Writers, Hydrating
        <4>5. \A v \in Webhooks : req'[v].at = "hydrated" => req'[v].row = stored'
          BY <2>0, <4>1, <4>3 DEF RowInv
        <4> QED  BY <4>2, <4>4, <4>5 DEF RowInv
      <3>2. CASE crossed'
        BY <2>0, <3>2 DEF RowInv, Fresh
      <3> QED  BY <2>1, <3>1, <3>2 DEF HydrateRead
    <2>2. CASE HydrateApply(w)
      <3>1. w \notin Writers /\ stored' = stored
        BY <2>2 DEF HydrateApply, Writers
      <3>2. CASE req[w].at = "hydrated"
        <4>1. /\ ~crossed => req[w].row = stored
              /\ ~crossed => Writers = {}
          BY <2>0, <3>2 DEF RowInv, Hydrating, Writers
        <4> QED  BY <1>0, <2>0, <2>2, <3>1, <3>2, <4>1, RowGate DEF HydrateApply, Fresh
      <3>3. CASE req[w].at = "unhydrated"
        <4>1. w \notin Hydrating
          BY <3>3 DEF Hydrating
        <4>2. ~crossed /\ Writers \cup Hydrating \subseteq {w} => breaker = stored
          BY <2>0, <3>1, <4>1 DEF RowInv
        <4> QED  BY <1>0, <2>0, <2>2, <3>1, <3>3, <4>2, RowGate DEF HydrateApply, Fresh
      <3> QED  BY <2>2, <3>2, <3>3 DEF HydrateApply
    <2>3. CASE Skip(w) \/ React(w)
      <3>1. /\ req[w].at \in {"skipping", "reacting"} /\ req'[w].at \in {"over", "marking"}
            /\ \A v \in Webhooks : v # w => req'[v] = req[v]
        BY <2>3, GotoMoves DEF Skip, React
      <3>2. Writers' = Writers /\ Hydrating' = Hydrating
        BY <3>1 DEF Writers, Hydrating
      <3>3. UNCHANGED breakerVars
        BY <2>3, QuietBreaker
      <3>4. \A v \in Webhooks : req'[v].at \in {"hydrated", "reopening", "succeeding",
                                               "failing", "tripping"}
                                 => req'[v] = req[v]
        BY <3>1
      <3> QED  BY <2>0, <3>2, <3>3, <3>4, RowStill DEF Fresh
    <2>4. CASE Mark(w)
      <3>1. Counted(w) \in Counters
        BY <1>0, ClosedType DEF Counted, Counters
      <3> QED  BY <2>0, <2>4, <3>1, RowWrite DEF Mark, Fresh
    <2>5. CASE Written(w)
      <3>1. CASE req[w].at = "failing" /\ Trips(breaker)
        <4>1. [breaker EXCEPT !.until = openings + 1] \in Counters
          BY <1>0 DEF Counters
        <4>2. Write(w, "tripping", [breaker EXCEPT !.until = openings + 1])
          BY <2>5, <3>1 DEF Written
        <4> QED  BY <2>0, <4>1, <4>2, RowWrite DEF Fresh
      <3>2. CASE ~(req[w].at = "failing" /\ Trips(breaker))
        <4>1. /\ req'[w].at \in {"reacting", "over"} /\ w \in Writers
              /\ \A v \in Webhooks : v # w => req'[v] = req[v]
          BY <2>5, <3>2, GotoMoves DEF Written, Writers
        <4>2. breaker' = breaker /\ crossed' = (crossed \/ faults' # faults)
          BY <2>5, <3>2 DEF Written
        <4>3. ~crossed' => ~crossed /\ stored' = req[w].row
          <5>1. Fault("db") => faults' # faults
            BY WebhookAssumption DEF Fault, TypeOK
          <5> QED  BY <2>5, <4>2, <5>1 DEF Written
        <4> SUFFICES ASSUME ~crossed' PROVE RowInv'
          BY <2>0 DEF RowInv, Fresh
        <4>4. Writers \cup Hydrating = {w} /\ req[w].row = breaker
          BY <2>0, <4>1, <4>3 DEF RowInv
        <4>5. Writers' = {} /\ \A v \in Webhooks : req'[v].at # "hydrated"
          BY <4>1, <4>4 DEF Writers, Hydrating
        <4> QED  BY <4>2, <4>3, <4>4, <4>5 DEF RowInv
      <3> QED  BY <3>1, <3>2
    <2> QED  BY <1>2, <2>1, <2>2, <2>3, <2>4, <2>5 DEF RequestStep
  <1> QED  BY <1>1, <1>2

LEMMA RowStep ==
    ASSUME TypeOK, Fresh, RowInv, [Next]_vars
    PROVE  Fresh' /\ RowInv'
  <1>1. ASSUME NEW w \in Webhooks, NEW kind \in Kinds \cup {None}, Record(w, kind)
        PROVE  Fresh' /\ RowInv'
    <2>1. /\ req[w].at = "idle" /\ req'[w].at \in {"dispatch", "over"}
          /\ \A v \in Webhooks : v # w => req'[v] = req[v]
          /\ UNCHANGED breakerVars
      BY <1>1, GotoMoves DEF Record
    <2>2. Writers' = Writers /\ Hydrating' = Hydrating
      BY <2>1 DEF Writers, Hydrating
    <2>3. \A v \in Webhooks : req'[v].at \in {"hydrated", "reopening", "succeeding",
                                             "failing", "tripping"}
                               => req'[v] = req[v]
      BY <2>1
    <2> QED  BY <2>1, <2>2, <2>3, RowStill DEF Fresh, breakerVars
  <1>2. ASSUME NEW w \in Webhooks, RequestStep(w) PROVE Fresh' /\ RowInv'
    BY <1>2, RowRequest
  <1>3. CASE UNCHANGED << req, breakerVars >>
    BY <1>3 DEF Fresh, RowInv, Writers, Hydrating, breakerVars
  <1>4. ASSUME NEW w \in Webhooks, SweepStep(w) PROVE Fresh' /\ RowInv'
    <2>1. UNCHANGED << req, breakerVars >>
      BY <1>4 DEF SweepStep, SweepMappings, SweepList, SweepNext, SweepLog, SweepStop,
                  SweepSettle, SweepEnd
    <2> QED  BY <1>3, <2>1
  <1>5. CASE Other
    <2>1. CASE ResetBreaker
      <3>1. breaker' = Closed /\ UNCHANGED << req, hydrated >>
        BY <2>1 DEF ResetBreaker
      <3>2. ~crossed' => stored' = Closed /\ Writers \cup Hydrating = {}
        BY <2>1 DEF ResetBreaker
      <3>3. Writers' = Writers /\ Hydrating' = Hydrating
        BY <3>1 DEF Writers, Hydrating
      <3>4. ~crossed' => \A v \in Webhooks : req'[v].at # "hydrated"
        BY <3>1, <3>2 DEF Hydrating
      <3> QED  BY <3>1, <3>2, <3>3, <3>4 DEF Fresh, RowInv
    <2>2. CASE ~ResetBreaker
      <3>1. UNCHANGED << req, breakerVars >>
        BY <1>5, <2>2 DEF Other, Cool, SessionEnds, Forget
      <3> QED  BY <1>3, <3>1
    <2> QED  BY <2>1, <2>2
  <1>6. CASE Restart
    BY <1>6 DEF Restart, NewRequest, Fresh, RowInv
  <1>7. CASE UNCHANGED vars
    BY <1>3, <1>7 DEF vars, breakerVars
  <1> QED  BY <1>1, <1>2, <1>4, <1>5, <1>6, <1>7, Steps DEF Receipt

\* The breaker's row follows its counters unless statements overlapped or
\* failed (persistBreakerState, hydrateBreakerStateOnce).
THEOREM RowFollowsCounters == Spec => []StoredFollows
  <1>1. Init => Fresh /\ RowInv
    BY DEF Init, Fresh, RowInv, NewRequest
  <1>2. SweepInv /\ Fresh /\ RowInv /\ [Next]_vars => Fresh' /\ RowInv'
    BY RowStep DEF SweepInv
  <1>3. RowInv => StoredFollows
    BY DEF RowInv, StoredFollows
  <1> QED  BY <1>1, <1>2, <1>3, SweepInvInit, SweepInvNext, PTL DEF Spec
=============================================================================
