------------------------- MODULE LogStreams_proofs -------------------------
(***************************************************************************)
(* For any finite number of connections and any cap: types, who hears the  *)
(* log, what is left behind, and the number of slots.                      *)
(***************************************************************************)
EXTENDS LogStreams, FiniteSetTheorems, TLAPS

LEMMA PartsFinite ==
    ASSUME NEW X \in SUBSET Conns PROVE IsFiniteSet(X) /\ Cardinality(X) \in Nat
  BY StreamAssumption, FS_Subset, FS_CardinalityType

LEMMA ReleaseType ==
    ASSUME TypeOK, NEW X \in SUBSET Conns PROVE ReleaseSlots(X) \in Nat
  BY PartsFinite DEF TypeOK, ReleaseSlots

\* The state of the stream, and of the connections.
StreamType ==
    /\ subscribers \subseteq Conns \cup {Dog} /\ late \subseteq Conns \cup {Dog}
    /\ broken \subseteq Conns \cup {Dog}
    /\ streamRunning \in BOOLEAN /\ stopRequested \in BOOLEAN

ConnType ==
    /\ conn \in [Conns -> ConnRecords] /\ count \in Nat /\ bus \subseteq Conns
    /\ met \in BOOLEAN /\ early \subseteq Conns
    /\ pin \in {"off", "asking", "pinned", "loose"}

LEMMA TypeParts == TypeOK <=> StreamType /\ ConnType
  BY DEF TypeOK, StreamType, ConnType

\* A connection that moves on to a record of its type.
LEMMA ConnMoves ==
    ASSUME TypeOK, NEW s \in Conns, NEW r \in ConnRecords, conn' = [conn EXCEPT ![s] = r]
    PROVE  /\ conn' \in [Conns -> ConnRecords] /\ conn'[s] = r
           /\ \A x \in Conns : x # s => conn'[x] = conn[x]
  BY DEF TypeOK

LEMMA JoinType ==
    ASSUME TypeOK, NEW x \in Conns \cup {Dog}, Join(x) PROVE StreamType'
  BY DEF TypeOK, Join, StreamType

LEMMA DetachType ==
    ASSUME TypeOK, NEW X, Detach(X) PROVE StreamType'
  <1>1. \A b \in BOOLEAN : (stopRequested \/ b) \in BOOLEAN
    BY DEF TypeOK
  <1>2. (X # {} /\ StopWhenEmpty(subscribers \ X)) \in BOOLEAN
    OBVIOUS
  <1> QED  BY <1>1, <1>2 DEF TypeOK, Detach, StreamType

\* What closing the connections X leaves.
LEMMA ClosingMoves ==
    ASSUME TypeOK, NEW X \in SUBSET Conns, Closing(X)
    PROVE  /\ conn' \in [Conns -> ConnRecords] /\ count' \in Nat /\ bus' \subseteq Conns
           /\ met' \in BOOLEAN
           /\ \A s \in X : /\ conn'[s].at = conn[s].at /\ conn'[s].cur = conn[s].cur
                           /\ conn'[s].closed /\ ~conn'[s].holds
           /\ \A s \in Conns \ X : conn'[s] = conn[s]
  <1>1. conn \in [Conns -> ConnRecords]
    BY DEF TypeOK
  <1>2. \A s \in Conns : /\ [conn[s] EXCEPT !.closed = TRUE, !.holds = FALSE] \in ConnRecords
                         /\ conn[s] \in ConnRecords
    BY <1>1 DEF ConnRecords
  <1>3. conn' = [s \in Conns |->
                   IF s \in X THEN [conn[s] EXCEPT !.closed = TRUE, !.holds = FALSE]
                   ELSE conn[s]]
    BY DEF Closing
  <1>4. conn' \in [Conns -> ConnRecords]
    BY <1>2, <1>3
  <1>5. \A s \in X : /\ conn'[s].at = conn[s].at /\ conn'[s].cur = conn[s].cur
                     /\ conn'[s].closed /\ ~conn'[s].holds
    BY <1>2, <1>3 DEF ConnRecords
  <1>6. \A s \in Conns \ X : conn'[s] = conn[s]
    BY <1>3
  <1>7. count' \in Nat
    BY ReleaseType DEF Closing
  <1>8. bus' \subseteq Conns /\ met' \in BOOLEAN
    BY DEF Closing, TypeOK
  <1> QED  BY <1>4, <1>5, <1>6, <1>7, <1>8

----------------------------------------------------------------------------
(* Each action, as the proofs need it: what it does to one connection.     *)

LEMMA ConnectMoves ==
    ASSUME TypeOK, NEW s \in Conns, Connect(s)
    PROVE  /\ conn' \in [Conns -> ConnRecords] /\ conn[s].at = "idle"
           /\ \/ conn'[s].at = "over"
              \/ conn'[s].at = "looking" /\ conn'[s].cur = count
           /\ conn'[s].closed = conn[s].closed /\ conn'[s].holds = conn[s].holds
           /\ \A x \in Conns : x # s => conn'[x] = conn[x]
  <1>1. conn[s] \in ConnRecords /\ count \in Nat
    BY DEF TypeOK
  <1>2. CASE conn' = [conn EXCEPT ![s] = [conn[s] EXCEPT !.at = "over"]]
    <2>1. [conn[s] EXCEPT !.at = "over"] \in ConnRecords
      BY <1>1 DEF ConnRecords
    <2> QED  BY <1>1, <1>2, <2>1, ConnMoves DEF Connect, ConnRecords
  <1>3. CASE conn' = [conn EXCEPT ![s] = [conn[s] EXCEPT !.at = "looking", !.cur = count]]
    <2> DEFINE r == [conn[s] EXCEPT !.at = "looking", !.cur = count]
    <2>1. /\ r \in ConnRecords /\ r.at = "looking" /\ r.cur = count
          /\ r.closed = conn[s].closed /\ r.holds = conn[s].holds
      BY <1>1 DEF ConnRecords
    <2>2. conn' = [conn EXCEPT ![s] = r]
      BY <1>3
    <2> HIDE DEF r
    <2> QED  BY <2>1, <2>2, ConnMoves DEF Connect
  <1> QED  BY <1>2, <1>3 DEF Connect

LEMMA StageMoves ==
    ASSUME TypeOK, NEW s \in Conns, NEW at \in {"opening", "over"},
           conn' = [conn EXCEPT ![s] = [@ EXCEPT !.at = at]]
    PROVE  /\ conn' \in [Conns -> ConnRecords] /\ conn'[s].at = at
           /\ conn'[s].closed = conn[s].closed /\ conn'[s].holds = conn[s].holds
           /\ \A x \in Conns : x # s => conn'[x] = conn[x]
  <1>1. conn[s] \in ConnRecords
    BY DEF TypeOK
  <1>2. [conn[s] EXCEPT !.at = at] \in ConnRecords
    BY <1>1 DEF ConnRecords
  <1> QED  BY <1>1, <1>2, ConnMoves DEF ConnRecords

LEMMA OpenMoves ==
    ASSUME TypeOK, NEW s \in Conns, Open(s)
    PROVE  /\ conn' \in [Conns -> ConnRecords] /\ conn[s].at = "opening"
           /\ conn'[s].at = "open" /\ conn'[s].closed = conn[s].closed /\ conn'[s].holds
           /\ \A x \in Conns : x # s => conn'[x] = conn[x]
  <1>1. conn[s] \in ConnRecords
    BY DEF TypeOK
  <1>2. [conn[s] EXCEPT !.at = "open", !.holds = TRUE] \in ConnRecords
    BY <1>1 DEF ConnRecords
  <1> QED  BY <1>1, <1>2, ConnMoves DEF ConnRecords, Open

LEMMA NoDockerMoves ==
    ASSUME TypeOK, NEW s \in Conns, NoDocker(s)
    PROVE  /\ conn' \in [Conns -> ConnRecords] /\ conn[s].at = "opening"
           /\ conn'[s].at = "over" /\ conn'[s].closed
           /\ \A x \in Conns : x # s => conn'[x] = conn[x]
           /\ count' \in Nat /\ met' \in BOOLEAN
  <1>1. conn[s] \in ConnRecords
    BY DEF TypeOK
  <1>2. [conn[s] EXCEPT !.at = "over", !.closed = TRUE] \in ConnRecords
    BY <1>1 DEF ConnRecords
  <1>3. count' \in Nat /\ met' \in BOOLEAN
    BY ReleaseType DEF NoDocker, TypeOK
  <1> QED  BY <1>1, <1>2, <1>3, ConnMoves DEF ConnRecords, NoDocker

LEMMA TakingParts ==
    /\ Taking \subseteq Conns /\ Looking \subseteq Conns
    /\ { s \in Taking : s \in subscribers } \subseteq Taking
  BY DEF Taking, Looking

\* Every action of one connection, or of the surroundings.
LEMMA TypeNext == TypeOK /\ [Next]_vars => TypeOK'
  <1> SUFFICES ASSUME TypeOK, [Next]_vars PROVE TypeOK'
    OBVIOUS
  <1>1. ASSUME NEW s \in Conns, Connect(s) PROVE TypeOK'
    <2>1. conn' \in [Conns -> ConnRecords]
      BY <1>1, ConnectMoves
    <2> QED  BY <1>1, <2>1 DEF Connect, docker, TypeOK
  <1>2. ASSUME NEW s \in Conns, Reserve(s) PROVE TypeOK'
    <2>1. conn' \in [Conns -> ConnRecords]
      BY <1>2, StageMoves DEF Reserve
    <2>2. count' \in Nat
      BY <1>2 DEF Reserve, TypeOK, ConnRecords
    <2>3. met' \in BOOLEAN
      BY <1>2 DEF Reserve, TypeOK
    <2> QED  BY <1>2, <2>1, <2>2, <2>3 DEF Reserve, docker, TypeOK
  <1>3. ASSUME NEW s \in Conns, NotFound(s) PROVE TypeOK'
    <2>1. conn' \in [Conns -> ConnRecords]
      BY <1>3, StageMoves DEF NotFound
    <2> QED  BY <1>3, <2>1 DEF NotFound, docker, TypeOK
  <1>4. ASSUME NEW s \in Conns, Open(s) PROVE TypeOK'
    <2>1. StreamType'
      BY <1>4, JoinType DEF Open
    <2>2. ConnType'
      BY <1>4, OpenMoves, TypeParts DEF Open, ConnType
    <2> QED  BY <2>1, <2>2, TypeParts DEF TypeOK, StreamType, ConnType
  <1>5. ASSUME NEW s \in Conns, NoDocker(s) PROVE TypeOK'
    BY <1>5, NoDockerMoves DEF NoDocker, docker, TypeOK
  <1>6. ASSUME NEW s \in Conns, Leave(s) PROVE TypeOK'
    <2>1. StreamType'
      BY <1>6, DetachType DEF Leave
    <2>2. ConnType'
      BY <1>6, ClosingMoves, TypeParts DEF Leave, ConnType
    <2> QED  BY <2>1, <2>2 DEF TypeOK, StreamType, ConnType
  <1>7. CASE StreamFails
    <2>1. PICK X \in SUBSET Conns : X = { s \in Taking : s \in subscribers }
      BY TakingParts
    <2>2. Closing(X) /\ subscribers' = subscribers \ X
      BY <1>7, <2>1 DEF StreamFails
    <2> QED  BY <1>7, <2>2, ClosingMoves DEF StreamFails, TypeOK
  <1>8. CASE Line \/ StreamEnds \/ WatchdogStarts
    BY <1>8 DEF Line, StreamEnds, WatchdogStarts, docker, TypeOK
  <1>9. CASE WatchdogPins
    <2>1. StreamType'
      BY <1>9, JoinType, TypeParts DEF WatchdogPins, docker, StreamType
    <2> QED  BY <1>9, <2>1 DEF WatchdogPins, StreamType, TypeOK
  <1>10. CASE UNCHANGED vars
    BY <1>10 DEF vars, TypeOK
  <1> QED  BY <1>1, <1>2, <1>3, <1>4, <1>5, <1>6, <1>7, <1>8, <1>9, <1>10 DEF Next

LEMMA InitType == Init => TypeOK
  <1> SUFFICES ASSUME Init PROVE TypeOK
    OBVIOUS
  <1>1. NewConn \in ConnRecords
    BY DEF NewConn, ConnRecords
  <1>2. conn \in [Conns -> ConnRecords]
    BY <1>1 DEF Init
  <1> QED  BY <1>2 DEF Init, TypeOK

\* Every variable keeps its type.
THEOREM TypeCorrect == Spec => []TypeOK
  <1> QED  BY InitType, TypeNext, PTL DEF Spec

----------------------------------------------------------------------------
(* Who hears the log: a stream asked to stop has only subscribers that     *)
(* joined it late.                                                         *)

StoppingOnlyLate == streamRunning /\ stopRequested => subscribers \subseteq late

HearInv == TypeOK /\ SubscribersHear /\ StoppingOnlyLate

LEMMA JoinHears ==
    ASSUME HearInv, NEW x, Join(x) PROVE SubscribersHear' /\ StoppingOnlyLate'
  <1>1. SubscribersHear'
    BY DEF Join, SubscribersHear
  <1>2. ASSUME streamRunning, stopRequested PROVE StoppingOnlyLate'
    <2>1. subscribers' = subscribers \cup {x} /\ late' = late \cup {x}
      BY <1>2 DEF Join
    <2> QED  BY <1>2, <2>1 DEF HearInv, StoppingOnlyLate
  <1>3. ASSUME streamRunning, ~stopRequested PROVE StoppingOnlyLate'
    <2>1. stopRequested' = stopRequested
      BY <1>3 DEF Join
    <2> QED  BY <1>3, <2>1 DEF StoppingOnlyLate
  <1>4. ASSUME ~streamRunning PROVE StoppingOnlyLate'
    <2>1. stopRequested' = FALSE
      BY <1>4 DEF Join
    <2> QED  BY <2>1 DEF StoppingOnlyLate
  <1> QED  BY <1>1, <1>2, <1>3, <1>4

LEMMA DetachHears ==
    ASSUME HearInv, NEW X, Detach(X) PROVE SubscribersHear' /\ StoppingOnlyLate'
  <1>1. SubscribersHear'
    BY DEF Detach, HearInv, SubscribersHear
  <1>2. /\ subscribers' \subseteq subscribers
        /\ UNCHANGED << streamRunning, late >>
    BY DEF Detach
  <1>3. stopRequested' => stopRequested \/ subscribers' = {}
    BY DEF Detach, StopWhenEmpty
  <1> QED  BY <1>1, <1>2, <1>3 DEF HearInv, StoppingOnlyLate

LEMMA HearNext == HearInv /\ [Next]_vars => HearInv'
  <1> SUFFICES ASSUME HearInv, [Next]_vars PROVE SubscribersHear' /\ StoppingOnlyLate'
    BY TypeNext DEF HearInv
  <1>1. CASE UNCHANGED docker
    BY <1>1 DEF docker, HearInv, SubscribersHear, StoppingOnlyLate
  <1>2. ASSUME NEW s \in Conns, Connect(s) \/ Reserve(s) \/ NotFound(s) \/ NoDocker(s)
        PROVE  SubscribersHear' /\ StoppingOnlyLate'
    <2>1. UNCHANGED docker
      BY <1>2 DEF Connect, Reserve, NotFound, NoDocker
    <2> QED  BY <1>1, <2>1
  <1>3. ASSUME NEW s \in Conns, Open(s) \/ Leave(s)
        PROVE  SubscribersHear' /\ StoppingOnlyLate'
    BY <1>3, JoinHears, DetachHears DEF Open, Leave
  <1>4. CASE Line
    BY <1>4 DEF Line, HearInv, SubscribersHear, StoppingOnlyLate
  <1>5. CASE StreamEnds \/ StreamFails
    BY <1>5 DEF StreamEnds, StreamFails, SubscribersHear, StoppingOnlyLate
  <1>6. CASE WatchdogStarts \/ WatchdogPins
    BY <1>1, <1>6, JoinHears DEF WatchdogStarts, WatchdogPins
  <1>7. CASE UNCHANGED vars
    BY <1>1, <1>7 DEF vars, docker
  <1> QED  BY <1>2, <1>3, <1>4, <1>5, <1>6, <1>7 DEF Next

LEMMA HearInit == Init => HearInv
  BY InitType DEF Init, HearInv, SubscribersHear, StoppingOnlyLate

\* Whoever is subscribed hears the log, but for those that joined a stopping
\* stream or lost theirs (docker-log-subscriber.ts: subscribe, unsubscribe).
THEOREM SubscribersAreHeard == Spec => []SubscribersHear
  <1> QED  BY HearInit, HearNext, PTL DEF Spec, HearInv

\* The watchdog's subscription keeps the stream open, with the same exceptions
\* (pair-intent-watchdog.ts: "to pin the stream open").
THEOREM PinHoldsAlways == Spec => []PinHolds
  <1>1. HearInv => PinHolds
    BY DEF HearInv, SubscribersHear, StoppingOnlyLate, PinHolds, TypeOK
  <1> QED  BY <1>1, HearInit, HearNext, PTL DEF Spec

----------------------------------------------------------------------------
(* What is left behind: only an open connection is subscribed, it holds    *)
(* its subscription until it closes, and one closed while opening is known.*)

OnlyOpen == \A s \in Conns : s \in subscribers \cup bus => conn[s].at = "open"
OpenHolds == \A s \in Conns : conn[s].at = "open" /\ ~conn[s].closed => conn[s].holds
ClosedEarly == \A s \in Conns : conn[s].at = "opening" /\ conn[s].closed => s \in early
ClosedLater == \A s \in Conns : conn[s].at \in {"idle", "looking"} => ~conn[s].closed

LeakInv ==
    TypeOK /\ NothingLeaks /\ OnlyOpen /\ OpenHolds /\ ClosedEarly /\ ClosedLater

LeakParts == NothingLeaks /\ OnlyOpen /\ OpenHolds /\ ClosedEarly /\ ClosedLater

LEMMA LeakNext == LeakInv /\ [Next]_vars => LeakInv'
  <1> SUFFICES ASSUME LeakInv, [Next]_vars PROVE LeakParts'
    BY TypeNext DEF LeakInv, LeakParts
  <1> USE DEF LeakParts
  <1>0. TypeOK /\ LeakParts
    BY DEF LeakInv
  <1>1. ASSUME NEW s \in Conns, Connect(s) PROVE LeakParts'
    BY <1>0, <1>1, ConnectMoves
       DEF Connect, docker, NothingLeaks, OnlyOpen, OpenHolds, ClosedEarly, ClosedLater
  <1>2. ASSUME NEW s \in Conns, Reserve(s) PROVE LeakParts'
    <2>1. /\ conn[s].at = "looking" /\ conn'[s].at = "opening"
          /\ conn'[s].closed = conn[s].closed
          /\ \A x \in Conns : x # s => conn'[x] = conn[x]
          /\ UNCHANGED << subscribers, bus, early >>
      BY <1>0, <1>2, StageMoves DEF Reserve, docker
    <2> QED  BY <1>0, <2>1
             DEF NothingLeaks, OnlyOpen, OpenHolds, ClosedEarly, ClosedLater
  <1>3. ASSUME NEW s \in Conns, NotFound(s) PROVE LeakParts'
    <2>1. /\ conn[s].at = "looking" /\ conn'[s].at = "over"
          /\ conn'[s].closed = conn[s].closed
          /\ \A x \in Conns : x # s => conn'[x] = conn[x]
          /\ UNCHANGED << subscribers, bus, early >>
      BY <1>0, <1>3, StageMoves DEF NotFound, docker
    <2> QED  BY <1>0, <2>1
             DEF NothingLeaks, OnlyOpen, OpenHolds, ClosedEarly, ClosedLater
  <1>4. ASSUME NEW s \in Conns, Open(s) PROVE LeakParts'
    <2>1. /\ subscribers' = subscribers \cup {s} /\ bus' = bus \cup {s}
          /\ UNCHANGED early
      BY <1>4 DEF Open, Join
    <2> QED  BY <1>0, <1>4, <2>1, OpenMoves
             DEF NothingLeaks, OnlyOpen, OpenHolds, ClosedEarly, ClosedLater
  <1>5. ASSUME NEW s \in Conns, NoDocker(s) PROVE LeakParts'
    BY <1>0, <1>5, NoDockerMoves
       DEF NoDocker, docker, NothingLeaks, OnlyOpen, OpenHolds, ClosedEarly, ClosedLater
  <1>6. ASSUME NEW s \in Conns, Leave(s) PROVE LeakParts'
    <2>1. /\ conn'[s].at = conn[s].at /\ conn'[s].closed /\ ~conn'[s].holds
          /\ \A x \in Conns : x # s => conn'[x] = conn[x]
          /\ conn[s].at \in {"opening", "open"} /\ ~conn[s].closed
      BY <1>0, <1>6, ClosingMoves DEF Leave, Taking
    <2>2. CASE conn[s].at = "open"
      <3>1. /\ subscribers' = subscribers \ {s} /\ bus' = bus \ {s} /\ early' = early
        BY <1>0, <1>6, <2>1, <2>2 DEF Leave, Detach, Closing, Holding, OpenHolds
      <3> QED  BY <1>0, <2>1, <2>2, <3>1
               DEF NothingLeaks, OnlyOpen, OpenHolds, ClosedEarly, ClosedLater
    <2>3. CASE conn[s].at = "opening"
      <3>1. /\ subscribers' \subseteq subscribers /\ bus' \subseteq bus
            /\ early' = early \cup {s}
        BY <1>6, <2>3 DEF Leave, Detach, Closing
      <3> QED  BY <1>0, <2>1, <2>3, <3>1
               DEF NothingLeaks, OnlyOpen, OpenHolds, ClosedEarly, ClosedLater
    <2> QED  BY <2>1, <2>2, <2>3
  <1>7. CASE StreamFails
    <2>1. PICK X \in SUBSET Conns : X = { s \in Taking : s \in subscribers }
      BY TakingParts
    <2>2. Closing(X) /\ subscribers' = subscribers \ X /\ early' = early
      BY <1>7, <2>1 DEF StreamFails
    <2>3. \A s \in X : conn[s].at = "open"
      BY <1>0, <2>1 DEF OnlyOpen
    <2>4. bus' = bus \ X
      BY <2>2, <2>3 DEF Closing
    <2>5. /\ \A s \in X : conn'[s].at = conn[s].at /\ conn'[s].closed
          /\ \A s \in Conns \ X : conn'[s] = conn[s]
      BY <1>0, <2>2, ClosingMoves
    <2> QED  BY <1>0, <2>2, <2>3, <2>4, <2>5
             DEF NothingLeaks, OnlyOpen, OpenHolds, ClosedEarly, ClosedLater
  <1>8. CASE Line \/ StreamEnds \/ WatchdogStarts \/ UNCHANGED vars
    BY <1>0, <1>8 DEF Line, StreamEnds, WatchdogStarts, docker, vars, NothingLeaks, OnlyOpen,
                      OpenHolds, ClosedEarly, ClosedLater
  <1>9. CASE WatchdogPins
    <2>1. /\ UNCHANGED << conn, bus, early >>
          /\ subscribers' = subscribers \/ subscribers' = subscribers \cup {Dog}
      BY <1>9 DEF WatchdogPins, docker, Join
    <2> QED  BY <1>0, <2>1, StreamAssumption
             DEF NothingLeaks, OnlyOpen, OpenHolds, ClosedEarly, ClosedLater
  <1> QED  BY <1>1, <1>2, <1>3, <1>4, <1>5, <1>6, <1>7, <1>8, <1>9 DEF Next

LEMMA LeakInit == Init => LeakInv
  BY InitType DEF Init, NewConn, LeakInv, NothingLeaks, OnlyOpen, OpenHolds, ClosedEarly,
                  ClosedLater

\* No subscription outlives its client, unless that left while subscribing
\* (scan-detect.ts: cleanup).
THEOREM NothingLeaksAlways == Spec => []NothingLeaks
  <1> QED  BY LeakInit, LeakNext, PTL DEF Spec, LeakInv

----------------------------------------------------------------------------
(* The slots: unless numbers met, those who look remember the true number. *)

SlotInv ==
    /\ LeakInv
    /\ ~met => count = Cardinality(Taking) /\ \A s \in Looking : conn[s].cur = count

LEMMA SlotStill ==
    ASSUME SlotInv, Taking' = Taking, UNCHANGED << count, met >>,
           \A s \in Looking' : conn'[s].cur = count \/ (s \in Looking /\ conn'[s] = conn[s])
    PROVE  ~met' => count' = Cardinality(Taking') /\ \A s \in Looking' : conn'[s].cur = count'
  BY DEF SlotInv

\* The slots of X come back.
LEMMA SlotsBack ==
    ASSUME SlotInv, NEW X \in SUBSET Taking, Taking' = Taking \ X, Looking' = Looking,
           count' = ReleaseSlots(X), met' = (met \/ Looking # {})
    PROVE  ~met' => count' = Cardinality(Taking') /\ \A s \in Looking' : conn'[s].cur = count'
  <1> SUFFICES ASSUME ~met, Looking = {} PROVE count' = Cardinality(Taking')
    OBVIOUS
  <1>1. /\ IsFiniteSet(Taking) /\ IsFiniteSet(X) /\ Cardinality(X) \in Nat
        /\ Cardinality(Taking) \in Nat
    BY TakingParts, PartsFinite
  <1>2. Cardinality(Taking \ X) = Cardinality(Taking) - Cardinality(Taking \cap X)
    BY <1>1, FS_Difference
  <1>3. Taking \cap X = X
    OBVIOUS
  <1>4. Cardinality(X) <= Cardinality(Taking)
    BY <1>1, FS_Subset
  <1>5. count = Cardinality(Taking)
    BY DEF SlotInv
  <1> QED  BY <1>1, <1>2, <1>3, <1>4, <1>5 DEF ReleaseSlots

LEMMA SlotNext == SlotInv /\ [Next]_vars => SlotInv'
  <1> DEFINE Goal == ~met' => /\ count' = Cardinality(Taking')
                              /\ \A s \in Looking' : conn'[s].cur = count'
  <1> SUFFICES ASSUME SlotInv, [Next]_vars PROVE Goal
    BY LeakNext DEF SlotInv
  <1>0. /\ TypeOK /\ LeakParts /\ conn \in [Conns -> ConnRecords]
        /\ ~met => count = Cardinality(Taking) /\ \A s \in Looking : conn[s].cur = count
    BY DEF SlotInv, LeakInv, LeakParts, TypeOK
  <1>1. ASSUME NEW s \in Conns, Connect(s) PROVE Goal
    <2>1. /\ conn[s].at = "idle"
          /\ conn'[s].at = "over" \/ (conn'[s].at = "looking" /\ conn'[s].cur = count)
          /\ \A x \in Conns : x # s => conn'[x] = conn[x]
          /\ UNCHANGED << count, met >>
      BY <1>0, <1>1, ConnectMoves DEF Connect
    <2>2. Taking' = Taking
      BY <2>1 DEF Taking
    <2>3. \A x \in Looking' : conn'[x].cur = count \/ (x \in Looking /\ conn'[x] = conn[x])
      BY <2>1 DEF Looking
    <2> QED  BY <2>1, <2>2, <2>3, SlotStill
  <1>2. ASSUME NEW s \in Conns, Reserve(s) PROVE Goal
    <2>1. /\ conn[s].at = "looking" /\ conn'[s].at = "opening"
          /\ conn'[s].closed = conn[s].closed /\ ~conn[s].closed
          /\ \A x \in Conns : x # s => conn'[x] = conn[x]
          /\ count' = conn[s].cur + 1 /\ met' = (met \/ Looking # {s})
      BY <1>0, <1>2, StageMoves DEF Reserve, LeakParts, ClosedLater
    <2> SUFFICES ASSUME ~met, Looking = {s} PROVE Goal
      BY <2>1
    <2>2. Taking' = Taking \cup {s} /\ s \notin Taking
      BY <2>1 DEF Taking
    <2>3. Looking' = {}
      <3>1. \A x \in Conns : x # s => conn[x].at # "looking"
        BY DEF Looking
      <3> QED  BY <2>1, <3>1 DEF Looking
    <2>4. Cardinality(Taking') = Cardinality(Taking) + 1
      BY <2>2, TakingParts, PartsFinite, FS_AddElement
    <2>5. conn[s].cur = count /\ count = Cardinality(Taking)
      BY <1>0
    <2> QED  BY <2>1, <2>3, <2>4, <2>5
  <1>3. ASSUME NEW s \in Conns, NotFound(s) PROVE Goal
    <2>1. /\ conn[s].at = "looking" /\ conn'[s].at = "over"
          /\ \A x \in Conns : x # s => conn'[x] = conn[x]
          /\ UNCHANGED << count, met >>
      BY <1>0, <1>3, StageMoves DEF NotFound
    <2>2. Taking' = Taking
      BY <2>1 DEF Taking
    <2>3. \A x \in Looking' : x \in Looking /\ conn'[x] = conn[x]
      BY <2>1 DEF Looking
    <2> QED  BY <2>1, <2>2, <2>3, SlotStill
  <1>4. ASSUME NEW s \in Conns, Open(s) PROVE Goal
    <2>1. /\ conn[s].at = "opening" /\ conn'[s].at = "open"
          /\ conn'[s].closed = conn[s].closed
          /\ \A x \in Conns : x # s => conn'[x] = conn[x]
          /\ UNCHANGED << count, met >>
      BY <1>0, <1>4, OpenMoves DEF Open
    <2>2. Taking' = Taking
      BY <2>1 DEF Taking
    <2>3. \A x \in Looking' : x \in Looking /\ conn'[x] = conn[x]
      BY <2>1 DEF Looking
    <2> QED  BY <2>1, <2>2, <2>3, SlotStill
  <1>5. ASSUME NEW s \in Conns, NoDocker(s) PROVE Goal
    <2>1. /\ conn[s].at = "opening" /\ conn'[s].at = "over"
          /\ \A x \in Conns : x # s => conn'[x] = conn[x]
      BY <1>0, <1>5, NoDockerMoves
    <2>2. Looking' = Looking
      BY <2>1 DEF Looking
    <2>3. CASE conn[s].closed
      <3>1. UNCHANGED << count, met >>
        BY <1>5, <2>3 DEF NoDocker
      <3>2. Taking' = Taking
        BY <2>1, <2>3 DEF Taking
      <3>3. \A x \in Looking' : x \in Looking /\ conn'[x] = conn[x]
        BY <2>1, <2>2 DEF Looking
      <3> QED  BY <3>1, <3>2, <3>3, SlotStill
    <2>4. CASE ~conn[s].closed
      <3>1. count' = ReleaseSlots({s}) /\ met' = (met \/ Looking # {})
        BY <1>5, <2>4 DEF NoDocker
      <3>2. Taking' = Taking \ {s} /\ {s} \in SUBSET Taking
        BY <2>1, <2>4 DEF Taking
      <3> QED  BY <2>2, <3>1, <3>2, SlotsBack
    <2> QED  BY <2>3, <2>4
  <1>6. ASSUME NEW X \in SUBSET Taking, Closing(X) PROVE Goal
    <2>1. /\ \A s \in X : conn'[s].at = conn[s].at /\ conn'[s].closed
          /\ \A s \in Conns \ X : conn'[s] = conn[s]
          /\ X \subseteq Conns
      BY <1>0, <1>6, TakingParts, ClosingMoves
    <2>2. Taking' = Taking \ X /\ Looking' = Looking
      BY <2>1 DEF Taking, Looking
    <2>3. count' = ReleaseSlots(X) /\ met' = (met \/ Looking # {})
      BY <1>6 DEF Closing
    <2> QED  BY <2>2, <2>3, SlotsBack
  <1>7. ASSUME NEW s \in Conns, Leave(s) PROVE Goal
    BY <1>6, <1>7 DEF Leave
  <1>8. CASE StreamFails
    <2>1. PICK X \in SUBSET Taking : X = { s \in Taking : s \in subscribers }
      BY TakingParts
    <2>2. Closing(X)
      BY <1>8, <2>1 DEF StreamFails
    <2> QED  BY <1>6, <2>2
  <1>9. CASE UNCHANGED << conn, count, met >>
    BY <1>0, <1>9 DEF Taking, Looking
  <1>10. CASE Line \/ StreamEnds \/ WatchdogStarts \/ WatchdogPins \/ UNCHANGED vars
    BY <1>9, <1>10 DEF Line, StreamEnds, WatchdogStarts, WatchdogPins, vars
  <1> QED  BY <1>1, <1>2, <1>3, <1>4, <1>5, <1>7, <1>8, <1>10 DEF Next

\* The address's number of connections is right unless two counts met
\* (scan-detect.ts: concurrentByIp read before, and written after, an await).
THEOREM SlotsAreCounted == Spec => []SlotsCounted
  <1>1. Init => SlotInv
    <2> SUFFICES ASSUME Init PROVE SlotInv
      OBVIOUS
    <2>1. Taking = {} /\ Looking = {}
      BY DEF Init, NewConn, Taking, Looking
    <2> QED  BY <2>1, LeakInit, FS_EmptySet DEF Init, SlotInv
  <1>2. SlotInv => SlotsCounted
    BY DEF SlotInv, SlotsCounted
  <1> QED  BY <1>1, <1>2, SlotNext, PTL DEF Spec
=============================================================================
