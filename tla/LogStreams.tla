----------------------------- MODULE LogStreams -----------------------------
(***************************************************************************)
(* Listening to StEvE's log: one Docker stream shared by everybody who     *)
(* waits for a card, started by the first subscriber and stopped by the    *)
(* last; the scan-detect connections of one address, which may open only   *)
(* so many; and the watchdog, whose subscription pins the stream.          *)
(*                                                                         *)
(* All of it is one process: what runs between two awaits is one action.   *)
(***************************************************************************)
EXTENDS Naturals, FiniteSets

CONSTANTS
    Conns,      \* bound: the connections one address opens in a behaviour
    Dog,        \* the watchdog's subscription
    MaxPerIp    \* MAX_CONCURRENT_PER_IP

ASSUME StreamAssumption ==
    IsFiniteSet(Conns) /\ Dog \notin Conns /\ MaxPerIp \in Nat \ {0}

VARIABLES
    conn,       \* scan-detect: its connections
    count,      \* scan-detect: concurrentByIp of the address
    pin,        \* watchdog: its subscription
    subscribers, bus,          \* docker-log-subscriber's set; event-bus's
    streamRunning, stopRequested,
    met,        \* history: a slot was counted from a number out of date
    early,      \* history: connections closed while they subscribed
    late,       \* history: subscribers that joined a stream asked to stop
    broken      \* history: subscribers whose stream ended or failed

vars == << conn, count, pin, subscribers, bus, streamRunning, stopRequested, met, early,
           late, broken >>

docker == << subscribers, streamRunning, stopRequested, late, broken >>

NewConn == [at |-> "idle", cur |-> 0, closed |-> FALSE, holds |-> FALSE]
ConnRecords == [at : {"idle", "looking", "opening", "open", "over"}, cur : Nat,
                closed : BOOLEAN, holds : BOOLEAN]

Init ==
    /\ conn = [s \in Conns |-> NewConn] /\ count = 0 /\ pin = "off"
    /\ subscribers = {} /\ bus = {} /\ streamRunning = FALSE /\ stopRequested = FALSE
    /\ met = FALSE /\ early = {} /\ late = {} /\ broken = {}

\* Connections that hold a slot, and those about to take one.
Taking == { s \in Conns : conn[s].at \in {"opening", "open"} /\ ~conn[s].closed }
Looking == { s \in Conns : conn[s].at = "looking" }

----------------------------------------------------------------------------
(* docker-log-subscriber.                                                  *)

\* subscribe, once Docker has answered; a stream that is told to stop counts as
\* running.
Join(x) ==
    /\ subscribers' = subscribers \cup {x} /\ streamRunning' = TRUE
    /\ IF streamRunning
       THEN /\ late' = IF stopRequested THEN late \cup {x} ELSE late
            /\ UNCHANGED << stopRequested, broken >>
       ELSE /\ stopRequested' = FALSE /\ late' = {} /\ broken' = {}

\* unsubscribe, which a connection can call only once it holds it.
StopAlways(left) == TRUE
StopWhenEmpty(left) == left = {}

Detach(X) ==
    /\ subscribers' = subscribers \ X
    /\ stopRequested' = (stopRequested \/ (X # {} /\ StopWhenEmpty(subscribers \ X)))
    /\ UNCHANGED << streamRunning, late, broken >>

\* A line of the log; the loop looks at its flag only now.
Line ==
    /\ streamRunning /\ (stopRequested \/ subscribers = {})
    /\ streamRunning' = FALSE /\ stopRequested' = FALSE
    /\ UNCHANGED << conn, count, pin, subscribers, bus, met, early, late, broken >>

\* StEvE's container stops: the stream just ends, and nobody is told.
StreamEnds ==
    /\ streamRunning /\ streamRunning' = FALSE /\ stopRequested' = FALSE
    /\ broken' = broken \cup subscribers
    /\ UNCHANGED << conn, count, pin, subscribers, bus, met, early, late >>

----------------------------------------------------------------------------
(* GET scan-detect.                                                        *)

\* cleanup: the slot comes back; the subscription goes if it is held already.
ReleaseUnclamped(X) == count - Cardinality(X)
KeepSlots(X) == count
ReleaseSlots(X) == IF count > Cardinality(X) THEN count - Cardinality(X) ELSE 0

HoldingNothing(X) == {}
Holding(X) == { s \in X : conn[s].holds }

Closing(X) ==
    /\ conn' = [s \in Conns |->
                   IF s \in X THEN [conn[s] EXCEPT !.closed = TRUE, !.holds = FALSE]
                   ELSE conn[s]]
    /\ count' = ReleaseSlots(X)
    /\ bus' = bus \ { s \in X : conn[s].at = "open" }
    /\ met' = (met \/ Looking # {})

\* The cap is looked at, and the number remembered.
Connect(s) ==
    /\ conn[s].at = "idle"
    /\ conn' = [conn EXCEPT ![s] = IF count >= MaxPerIp
                                   THEN [@ EXCEPT !.at = "over"]
                                   ELSE [@ EXCEPT !.at = "looking", !.cur = count]]
    /\ UNCHANGED << count, pin, docker, bus, met, early >>

\* The pairing is armed: the slot is taken; else 404 or 500.
Reserve(s) ==
    /\ conn[s].at = "looking"
    /\ conn' = [conn EXCEPT ![s] = [@ EXCEPT !.at = "opening"]]
    /\ count' = conn[s].cur + 1
    /\ met' = (met \/ Looking # {s})
    /\ UNCHANGED << pin, docker, bus, early >>

NotFound(s) ==
    /\ conn[s].at = "looking"
    /\ conn' = [conn EXCEPT ![s] = [@ EXCEPT !.at = "over"]]
    /\ UNCHANGED << count, pin, docker, bus, met, early >>

\* Docker answers: subscribed to the log and the bus, whether or not the client
\* is still there.
Open(s) ==
    /\ conn[s].at = "opening" /\ Join(s)
    /\ conn' = [conn EXCEPT ![s] = [@ EXCEPT !.at = "open", !.holds = TRUE]]
    /\ bus' = bus \cup {s}
    /\ UNCHANGED << count, pin, met, early >>

NoDocker(s) ==
    /\ conn[s].at = "opening"
    /\ conn' = [conn EXCEPT ![s] = [@ EXCEPT !.at = "over", !.closed = TRUE]]
    /\ IF conn[s].closed
       THEN UNCHANGED << count, met >>
       ELSE count' = ReleaseSlots({s}) /\ met' = (met \/ Looking # {})
    /\ UNCHANGED << pin, docker, bus, early >>

\* The client leaves, or the minute of the stream is up.
Leave(s) ==
    /\ s \in Taking /\ Closing({s}) /\ Detach(Holding({s}))
    /\ early' = IF conn[s].at = "opening" THEN early \cup {s} ELSE early
    /\ UNCHANGED pin

\* An error of the stream closes the connections that listen; it is over then,
\* and the watchdog, if subscribed, stays in the set without it.
StreamFails ==
    LET told == { s \in Taking : s \in subscribers }
    IN  /\ streamRunning /\ Closing(told)
        /\ subscribers' = subscribers \ told
        /\ streamRunning' = FALSE /\ stopRequested' = FALSE
        /\ broken' = broken \cup subscribers
        /\ UNCHANGED << pin, early, late >>

----------------------------------------------------------------------------
(* startPairIntentWatchdog.                                                *)

WatchdogStarts ==
    /\ pin = "off" /\ pin' = "asking"
    /\ UNCHANGED << conn, count, docker, bus, met, early >>

\* It asks once; without Docker it "relies on other subscribers".
WatchdogPins ==
    /\ pin = "asking"
    /\ \/ pin' = "pinned" /\ Join(Dog)
       \/ pin' = "loose" /\ UNCHANGED docker
    /\ UNCHANGED << conn, count, bus, met, early >>

----------------------------------------------------------------------------
Next ==
    \/ \E s \in Conns : \/ Connect(s) \/ Reserve(s) \/ NotFound(s) \/ Open(s)
                        \/ NoDocker(s) \/ Leave(s)
    \/ Line \/ StreamEnds \/ StreamFails \/ WatchdogStarts \/ WatchdogPins

Spec == Init /\ [][Next]_vars

----------------------------------------------------------------------------
(* Properties.                                                             *)

\* Type of every variable.
TypeOK ==
    /\ conn \in [Conns -> ConnRecords] /\ count \in Nat
    /\ pin \in {"off", "asking", "pinned", "loose"}
    /\ subscribers \subseteq Conns \cup {Dog} /\ bus \subseteq Conns
    /\ streamRunning \in BOOLEAN /\ stopRequested \in BOOLEAN /\ met \in BOOLEAN
    /\ early \subseteq Conns /\ late \subseteq Conns \cup {Dog}
    /\ broken \subseteq Conns \cup {Dog}

\* Whoever is subscribed hears the log, but for a subscriber that joined while
\* the stream was being stopped, or whose stream ended under it ("the first
\* subscriber starts the underlying stream; the last to unsubscribe stops it").
SubscribersHear ==
    ~streamRunning => subscribers \subseteq late \cup broken

\* A pinned watchdog keeps the stream from being stopped, unless it joined one
\* that was stopping ("to pin the stream open").
PinHolds == Dog \in subscribers \ (late \cup broken) => streamRunning /\ ~stopRequested

\* No subscription to the log or the bus survives its client, unless that left
\* while the connection was still subscribing.
NothingLeaks == \A s \in Conns : conn[s].closed /\ s \in subscribers \cup bus => s \in early

\* The address's number is that of its connections, unless one was counted from
\* a number that another connection changed in the meantime.
SlotsCounted == ~met => count = Cardinality(Taking)
=============================================================================
