---------------------------- MODULE EventStreams ----------------------------
(***************************************************************************)
(* The event bus and the pages that listen to it: every worker numbers its *)
(* own events, keeps the latest in a ring, writes them to the streams open *)
(* at it and, with the Postgres transport, to the other workers.  A stream *)
(* that opens with a Last-Event-ID is first sent what the ring holds after *)
(* that number.                                                            *)
(*                                                                         *)
(* publish, fanOut, replay and the opening of a stream run without an      *)
(* await.  Filters by type are left out: every stream wants every event.   *)
(***************************************************************************)
EXTENDS Naturals, Sequences, FiniteSets, SequencesExt

CONSTANTS
    Workers,
    Clients,     \* who listens
    WorkerOf,    \* the worker that serves each
    Asks,        \* clients that reconnect with a Last-Event-ID
    RingMax,     \* BUFFER_MAX
    MaxPending,  \* SSE_MAX_PENDING_PER_CLIENT
    MaxEvents,   \* bound: events published in a behaviour
    Faults, MaxFaults   \* bound: the failures of a behaviour

ASSUME EventAssumption ==
    /\ WorkerOf \in [Clients -> Workers] /\ Asks \subseteq Clients
    /\ RingMax \in Nat \ {0} /\ MaxPending \in Nat \ {0} /\ MaxEvents \in Nat
    /\ MaxFaults \in Nat

VARIABLES
    seq,        \* worker: its numbering
    run,        \* worker: how often it has restarted, each time to number from 1
    ring,       \* worker: the buffer; each entry with the place it came in
    arrived,    \* history: how many events the worker has recorded, restarts or not
    published,  \* history: how many all have published
    channel,    \* Postgres: notifications on their way to each worker
    client,     \* page: its stream, what is written and not yet received, what it got
    faults

vars == << seq, run, ring, arrived, published, channel, client, faults >>

Fault(class) == class \in Faults /\ faults < MaxFaults /\ faults' = faults + 1

\* An event as a worker records it: its number, whose numbering that is, and its
\* place among all the worker has recorded.
Sources == Workers \X Nat
Entries == [seq : Nat, source : Sources, place : Nat]

\* last: the Last-Event-ID the client would send.  History: whose number that is
\* and whose it has got; first, the place of the first event after it came;
\* missed, the places it may lack.
NewClient == [at |-> "new", pending |-> << >>, last |-> 0, heard |-> << >>, got |-> {},
              first |-> 0, missed |-> {}]
ClientRecords == [at : {"new", "open", "away"}, pending : Seq(Entries), last : Nat,
                  heard : Seq(Sources), got : SUBSET Nat, first : Nat, missed : SUBSET Nat]

Init ==
    /\ seq = [w \in Workers |-> 0] /\ run = [w \in Workers |-> 0]
    /\ ring = [w \in Workers |-> << >>]
    /\ arrived = [w \in Workers |-> 0] /\ published = 0
    /\ channel = [w \in Workers |-> << >>]
    /\ client = [c \in Clients |-> NewClient]
    /\ faults = 0

----------------------------------------------------------------------------
\* writeEvent, of each of these in turn: a client with too much unwritten loses
\* the event.
Written(k, events) ==
    LET all == k.pending \o events
        kept == IF Len(all) > MaxPending THEN MaxPending ELSE Len(all)
    IN  [k EXCEPT !.pending = SubSeq(all, 1, kept),
                  !.missed = @ \cup { all[i].place : i \in kept + 1 .. Len(all) }]

\* The buffer, after an event: the latest RingMax.
TrimmedLate(s) == IF Len(s) > RingMax + 1 THEN Tail(s) ELSE s
Trimmed(s) == IF Len(s) > RingMax THEN Tail(s) ELSE s

\* Recorded in the ring, then to every stream open at the worker.
RecordAndFanOut(w, n, source) ==
    LET e == [seq |-> n, source |-> source, place |-> arrived[w] + 1]
    IN  /\ ring' = [ring EXCEPT ![w] = Trimmed(Append(@, e))]
        /\ arrived' = [arrived EXCEPT ![w] = @ + 1]
        /\ client' = [c \in Clients |->
                         IF WorkerOf[c] = w /\ client[c].at = "open"
                         THEN Written(client[c], << e >>) ELSE client[c]]

Publish(w) ==
    /\ published < MaxEvents /\ published' = published + 1
    /\ seq' = [seq EXCEPT ![w] = @ + 1]
    /\ RecordAndFanOut(w, seq[w] + 1, << w, run[w] >>)
    /\ channel' = [v \in Workers |->
                      IF v = w THEN channel[v]
                      ELSE Append(channel[v], << seq[w] + 1, << w, run[w] >> >>)]
    /\ UNCHANGED << run, faults >>

\* onTransportEvent: another's event keeps the number its worker gave it.
Arrive(w) ==
    /\ channel[w] # << >> /\ channel' = [channel EXCEPT ![w] = Tail(@)]
    /\ \/ /\ RecordAndFanOut(w, Head(channel[w])[1], Head(channel[w])[2])
          /\ UNCHANGED faults
       \/ Fault("notify") /\ UNCHANGED << ring, arrived, client >>
    /\ UNCHANGED << seq, run, published >>

RingAges(w) ==
    /\ ring[w] # << >> /\ Fault("age") /\ ring' = [ring EXCEPT ![w] = Tail(@)]
    /\ UNCHANGED << seq, run, arrived, published, channel, client >>

\* A worker restarts: its numbering starts over, its streams break.
Restart(w) ==
    /\ Fault("restart")
    /\ seq' = [seq EXCEPT ![w] = 0] /\ run' = [run EXCEPT ![w] = @ + 1]
    /\ ring' = [ring EXCEPT ![w] = << >>]
    /\ channel' = [channel EXCEPT ![w] = << >>]
    /\ client' = [c \in Clients |->
                     IF WorkerOf[c] = w /\ client[c].at # "new"
                     THEN [client[c] EXCEPT !.at = "away", !.pending = << >>]
                     ELSE client[c]]
    /\ UNCHANGED << arrived, published >>

----------------------------------------------------------------------------
\* The members of s at these positions, in their order.
Rank(I, i) == Cardinality({ h \in I : h <= i })
Picked(s, I) == [j \in 1 .. Cardinality(I) |-> s[CHOOSE i \in I : Rank(I, i) = j]]

\* replay: what the ring holds after a number.
ReplayFromThere(w, n) == Picked(ring[w], { i \in DOMAIN ring[w] : ring[w][i].seq >= n })
ReplayPastNext(w, n) == Picked(ring[w], { i \in DOMAIN ring[w] : ring[w][i].seq > n + 1 })
ReplayOf(w, n) == Picked(ring[w], { i \in DOMAIN ring[w] : ring[w][i].seq > n })

\* What the client may lack of the time it was away, replay or not: all of it
\* without a number, what has left the ring, and what has a number of another
\* source than the client's.
Unrecoverable(c) ==
    LET k == client[c]
        w == WorkerOf[c]
    IN  { p \in k.first .. arrived[w] :
             \/ c \notin Asks \/ k.last = 0
             \/ ~\E e \in ToSet(ring[w]) : e.place = p /\ e.source = Last(k.heard) }

\* openSseStream: replay, then subscribe, in one go.
Open(c) ==
    LET k == client[c]
        w == WorkerOf[c]
        replayed == IF c \in Asks /\ k.last > 0 THEN ReplayOf(w, k.last) ELSE << >>
        opened == [k EXCEPT !.at = "open",
                            !.first = IF k.at = "new" THEN arrived[w] + 1 ELSE @,
                            !.missed = @ \cup IF k.at = "new" THEN {} ELSE Unrecoverable(c)]
    IN  /\ k.at \in {"new", "away"}
        /\ client' = [client EXCEPT ![c] = Written(opened, replayed)]
        /\ UNCHANGED << seq, run, ring, arrived, published, channel, faults >>

Heard(h, source) == IF h # << >> /\ Last(h) = source THEN h ELSE Append(h, source)

\* A frame reaches the page, whose Last-Event-ID it becomes.
Receive(c) ==
    LET k == client[c]
        e == Head(k.pending)
    IN  /\ k.pending # << >>
        /\ client' = [client EXCEPT ![c] =
                         [k EXCEPT !.pending = Tail(@), !.last = e.seq,
                                   !.got = @ \cup {e.place},
                                   !.heard = Heard(@, e.source)]]
        /\ UNCHANGED << seq, run, ring, arrived, published, channel, faults >>

\* The connection breaks; frames on their way are lost.
Cut(c) ==
    /\ client[c].at = "open" /\ Fault("cut")
    /\ client' = [client EXCEPT ![c] = [@ EXCEPT !.at = "away", !.pending = << >>]]
    /\ UNCHANGED << seq, run, ring, arrived, published, channel >>

----------------------------------------------------------------------------
Next ==
    \/ \E w \in Workers : Publish(w) \/ Arrive(w) \/ RingAges(w) \/ Restart(w)
    \/ \E c \in Clients : Open(c) \/ Receive(c) \/ Cut(c)

Spec == Init /\ [][Next]_vars

----------------------------------------------------------------------------
(* Properties.                                                             *)

\* Type of every variable; neither buffer outgrows its limit.
TypeOK ==
    /\ seq \in [Workers -> Nat] /\ arrived \in [Workers -> Nat]
    /\ published \in 0 .. MaxEvents
    /\ run \in [Workers -> Nat] /\ ring \in [Workers -> Seq(Entries)]
    /\ channel \in [Workers -> Seq(Nat \X Sources)]
    /\ client \in [Clients -> ClientRecords]
    /\ \A w \in Workers : Len(ring[w]) <= RingMax
    /\ \A c \in Clients : Len(client[c].pending) <= MaxPending
    /\ faults \in 0 .. MaxFaults

\* No event twice and none before an earlier one, across reconnects too, as long
\* as the client has seen numbers of one run of one worker only ("Monotonic seq id per
\* emitted event, used as the SSE id: line").
OnceInOrder ==
    \A c \in Clients :
        LET sent == client[c].pending
            sources == ToSet(client[c].heard) \cup { e.source : e \in ToSet(sent) }
        IN  Cardinality(sources) <= 1 =>
                /\ \A i \in DOMAIN sent, p \in client[c].got : p < sent[i].place
                /\ \A i, j \in DOMAIN sent : i < j => sent[i].place < sent[j].place

\* A client lacks an event only if it was too slow for it, or was away without
\* a number, or too long, or with a number of another source ("SSE endpoints can
\* honor Last-Event-ID replay on reconnect").
GapsExplained ==
    \A c \in Clients :
        client[c].at = "open" =>
            \A p \in client[c].first .. arrived[WorkerOf[c]] :
                \/ p \in client[c].got \cup client[c].missed
                \/ \E i \in DOMAIN client[c].pending : client[c].pending[i].place = p
=============================================================================
