------------------------ MODULE EventStreams_proofs ------------------------
(***************************************************************************)
(* What the event bus promises a page, for any number of workers, clients, *)
(* buffers and faults.                                                     *)
(***************************************************************************)
EXTENDS EventStreams, FiniteSetTheorems, SequenceTheorems, TLAPS

\* In the buffer and in every stream, events lie in the order they came in; a
\* stream that is not open holds nothing.
InPlace(s, n) ==
    /\ \A i \in DOMAIN s : s[i].place <= n
    /\ \A i, j \in DOMAIN s : i < j => s[i].place < s[j].place

StreamInPlace(k, n) ==
    /\ k.at # "open" => k.pending = << >>
    /\ InPlace(k.pending, n)
    /\ \A p \in k.got : p <= n
    /\ k.heard = << >> => k.last = 0 /\ k.got = {}

Places ==
    /\ \A w \in Workers : InPlace(ring[w], arrived[w])
    /\ \A c \in Clients : StreamInPlace(client[c], arrived[WorkerOf[c]])

\* What a worker has in its buffer or in a stream of its own.
Queued(w) == { c \in Clients : WorkerOf[c] = w }
Kept(w) == ToSet(ring[w]) \cup UNION { ToSet(client[c].pending) : c \in Queued(w) }

\* A number that its source has already given.
Issued(source, n) ==
    /\ source[2] <= run[source[1]]
    /\ source[2] = run[source[1]] => n <= seq[source[1]]

\* What a client last heard is a number somebody gave.
LastIssued ==
    \A c \in Clients : client[c].heard # << >> => Issued(Last(client[c].heard), client[c].last)

\* One place, one event; one source, numbers in the order of the places.
Consistent(e, f) ==
    /\ e.place = f.place => e = f
    /\ e.source = f.source /\ e.place < f.place => e.seq < f.seq

Numbers ==
    \A w \in Workers : \A e \in Kept(w) :
        Issued(e.source, e.seq) /\ \A f \in Kept(w) : Consistent(e, f)

\* A number later than all of its source that this worker has and its clients heard.
After(w, n, source) ==
    /\ source[1] # w /\ Issued(source, n)
    /\ \A e \in Kept(w) : e.source = source => e.seq < n
    /\ \A c \in Queued(w) :
          client[c].heard # << >> /\ Last(client[c].heard) = source => client[c].last < n

Increasing(ch) ==
    \A i, j \in DOMAIN ch : i < j /\ ch[i][2] = ch[j][2] => ch[i][1] < ch[j][1]

\* Notifications carry such numbers, and those of a source in their order.
Channels ==
    \A w \in Workers :
        /\ \A m \in ToSet(channel[w]) : After(w, m[1], m[2])
        /\ Increasing(channel[w])

Ordered == TypeOK /\ Places /\ LastIssued /\ Numbers /\ Channels

\* To a client that has heard no source but this one, what is still to come of
\* it came in after all the client has got.
HeardOnly(k, source) == \A i \in DOMAIN k.heard : k.heard[i] = source
Ahead(k, e) == \A p \in k.got : p < e.place

ToCome(k, b, source) ==
    HeardOnly(k, source) =>
        /\ \A e \in ToSet(k.pending) : e.source = source => Ahead(k, e)
        /\ \A e \in ToSet(b) : e.source = source /\ e.seq > k.last => Ahead(k, e)

\* Of the numbering a client would ask by, what the buffer has up to its number
\* the client has got, or is known to lack.
UpToLast(k, b) ==
    k.heard # << >> =>
        \A e \in ToSet(b) : e.source = Last(k.heard) /\ e.place >= k.first /\ e.seq <= k.last
                             => e.place \in k.got \cup k.missed

\* What has come in since a client first came it has got, or is to get, or may lack.
Explained(k, n) ==
    k.at = "open" =>
        \A p \in k.first .. n : p \in k.got \cup k.missed \/ \E e \in ToSet(k.pending) : e.place = p

\* All that is claimed of a client, a buffer, and the place of the last event.
ClientWell(k, b, n) ==
    (\A source \in Sources : ToCome(k, b, source)) /\ UpToLast(k, b) /\ Explained(k, n)

ClientsWell == \A c \in Clients : ClientWell(client[c], ring[WorkerOf[c]], arrived[WorkerOf[c]])

----------------------------------------------------------------------------
(* Picking members of a sequence by their positions.                       *)

\* Positions are ranked 1, 2, ... in their order.
LEMMA Ranks ==
    ASSUME NEW n \in Nat, NEW I \in SUBSET (1 .. n)
    PROVE  /\ Cardinality(I) \in Nat
           /\ \A i \in I : Rank(I, i) \in 1 .. Cardinality(I)
           /\ \A i, j \in I : i < j => Rank(I, i) < Rank(I, j)
           /\ \A r \in 1 .. Cardinality(I) : \E i \in I : Rank(I, i) = r
<1> DEFINE upTo(i) == { h \in I : h <= i }
           rank == [i \in I |-> Rank(I, i)]
<1>1. IsFiniteSet(I) /\ Cardinality(I) \in Nat
  <2>1. IsFiniteSet(1 .. n)
    BY FS_Interval
  <2>2. IsFiniteSet(I)
    BY <2>1, FS_Subset
  <2>3. QED
    BY <2>2, FS_CardinalityType
<1>2. ASSUME NEW i \in I
      PROVE  Rank(I, i) \in 1 .. Cardinality(I)
  <2>1. upTo(i) \in SUBSET I /\ i \in upTo(i)
    OBVIOUS
  <2>2. IsFiniteSet(upTo(i)) /\ Cardinality(upTo(i)) <= Cardinality(I)
    BY <1>1, <2>1, FS_Subset
  <2>3. Cardinality(upTo(i)) \in Nat /\ Cardinality(upTo(i)) # 0
    BY <2>1, <2>2, FS_CardinalityType, FS_EmptySet
  <2>4. QED
    BY <1>1, <2>2, <2>3 DEF Rank
<1>3. ASSUME NEW i \in I, NEW j \in I, i < j
      PROVE  Rank(I, i) < Rank(I, j)
  <2>1. upTo(i) \in SUBSET upTo(j) /\ j \in upTo(j) /\ j \notin upTo(i)
    <3>1. \A h \in I : h \in Int
      OBVIOUS
    <3>2. \A h \in I : h <= i => h <= j
      BY <1>3, <3>1
    <3>3. j <= j /\ ~(j <= i)
      BY <1>3, <3>1
    <3>4. QED
      BY <3>2, <3>3
  <2>2. IsFiniteSet(upTo(j))
    BY <1>1, FS_Subset
  <2>3. Cardinality(upTo(i)) <= Cardinality(upTo(j))
        /\ Cardinality(upTo(i)) # Cardinality(upTo(j))
    BY <2>1, <2>2, FS_Subset
  <2>4. Cardinality(upTo(i)) \in Nat /\ Cardinality(upTo(j)) \in Nat
    BY <2>1, <2>2, FS_Subset, FS_CardinalityType
  <2>5. QED
    BY <2>3, <2>4 DEF Rank
<1>4. ASSUME NEW r \in 1 .. Cardinality(I)
      PROVE  \E i \in I : Rank(I, i) = r
  <2>1. rank \in [I -> 1 .. Cardinality(I)]
    BY <1>2
  <2>2. \A i, j \in I : rank[i] = rank[j] => i = j
    <3> SUFFICES ASSUME NEW i \in I, NEW j \in I, Rank(I, i) = Rank(I, j), i # j
                 PROVE  FALSE
      OBVIOUS
    <3>1. i < j \/ j < i
      OBVIOUS
    <3>2. Rank(I, i) \in Nat /\ Rank(I, j) \in Nat
      BY <1>1, <1>2
    <3>3. QED
      BY <1>3, <3>1, <3>2
  <2>3. rank \in Injection(I, 1 .. Cardinality(I))
    BY <2>1, <2>2 DEF Injection, IsInjective
  <2>4. IsFiniteSet(1 .. Cardinality(I)) /\ Cardinality(1 .. Cardinality(I)) = Cardinality(I)
    BY <1>1, FS_Interval
  <2>5. rank \in Surjection(I, 1 .. Cardinality(I))
    BY <2>3, <2>4, FS_Injection
  <2>6. \E i \in I : rank[i] = r
    BY <2>5 DEF Surjection
  <2>7. QED
    BY <2>6
<1>5. QED
  BY <1>1, <1>2, <1>3, <1>4

\* p is the members of s at these positions, all of them, in their order.
Picks(p, s, I) ==
    \E at \in [DOMAIN p -> I] :
        /\ \A j \in DOMAIN p : p[j] = s[at[j]]
        /\ \A j, k \in DOMAIN p : j < k => at[j] < at[k]
        /\ \A i \in I : \E j \in DOMAIN p : at[j] = i

LEMMA PickedInOrder ==
    ASSUME NEW S, NEW s \in Seq(S), NEW I \in SUBSET DOMAIN s
    PROVE  Picked(s, I) \in Seq(S) /\ Picks(Picked(s, I), s, I)
<1> DEFINE n == Cardinality(I)
           at == [j \in 1 .. n |-> CHOOSE i \in I : Rank(I, i) = j]
<1>1. Len(s) \in Nat /\ DOMAIN s = 1 .. Len(s) /\ \A i \in DOMAIN s : s[i] \in S
  BY LenProperties, ElementOfSeq
<1>2. /\ n \in Nat
      /\ \A i \in I : Rank(I, i) \in 1 .. n
      /\ \A i, j \in I : i < j => Rank(I, i) < Rank(I, j)
      /\ \A r \in 1 .. n : \E i \in I : Rank(I, i) = r
  BY <1>1, Ranks
<1>3. ASSUME NEW j \in 1 .. n
      PROVE  at[j] \in I /\ Rank(I, at[j]) = j
  BY <1>2
<1>4. DOMAIN Picked(s, I) = 1 .. n /\ \A j \in 1 .. n : Picked(s, I)[j] = s[at[j]]
  BY DEF Picked
<1>5. Picked(s, I) \in Seq(S)
  <2>1. \A j \in 1 .. n : Picked(s, I)[j] \in S
    BY <1>1, <1>3, <1>4
  <2>2. Picked(s, I) = [j \in 1 .. n |-> Picked(s, I)[j]]
    BY <1>4 DEF Picked
  <2>3. Picked(s, I) \in [1 .. n -> S]
    BY <2>1, <2>2
  <2>4. QED
    BY <1>2, <2>3, SeqDef
<1>6. ASSUME NEW j \in 1 .. n, NEW k \in 1 .. n, j < k
      PROVE  at[j] < at[k]
  <2>1. at[j] \in Nat /\ at[k] \in Nat
    BY <1>1, <1>3
  <2>2. CASE at[k] < at[j]
    BY <1>2, <1>3, <1>6, <2>2
  <2>3. CASE at[k] = at[j]
    BY <1>3, <1>6, <2>3
  <2>4. QED
    BY <2>1, <2>2, <2>3
<1>7. ASSUME NEW i \in I
      PROVE  \E j \in 1 .. n : at[j] = i
  <2> DEFINE j == Rank(I, i)
  <2>1. j \in 1 .. n
    BY <1>2
  <2>2. at[j] \in I /\ Rank(I, at[j]) = Rank(I, i)
    BY <1>3, <2>1
  <2>3. at[j] \in Nat /\ i \in Nat
    BY <1>1, <2>2
  <2>4. Rank(I, i) \in Nat
    BY <1>2, <2>1
  <2>5. at[j] = i
    BY <1>2, <2>2, <2>3, <2>4
  <2>6. QED
    BY <2>1, <2>5
<1>8. at \in [1 .. n -> I]
  BY <1>3
<1>9. QED
  <2> HIDE DEF at, n
  <2>1. DOMAIN Picked(s, I) = 1 .. n
    BY <1>4
  <2> DEFINE p == Picked(s, I)
  <2>2. /\ at \in [DOMAIN p -> I]
        /\ \A j \in DOMAIN p : p[j] = s[at[j]]
        /\ \A j, k \in DOMAIN p : j < k => at[j] < at[k]
        /\ \A i \in I : \E j \in DOMAIN p : at[j] = i
    BY <1>4, <1>6, <1>7, <1>8, <2>1
  <2> HIDE DEF p
  <2>3. Picks(p, s, I)
    BY <2>2 DEF Picks
  <2>4. QED
    BY <1>5, <2>3 DEF p

----------------------------------------------------------------------------
(* What is written to a client, and what the buffer keeps.                 *)

LEMMA RecordFields ==
    ASSUME NEW k \in ClientRecords
    PROVE  /\ k.at \in {"new", "open", "away"} /\ k.pending \in Seq(Entries)
           /\ k.last \in Nat /\ k.heard \in Seq(Sources) /\ k.got \in SUBSET Nat
           /\ k.first \in Nat /\ k.missed \in SUBSET Nat
  BY DEF ClientRecords

LEMMA EntryFields ==
    ASSUME NEW e \in Entries
    PROVE  e.seq \in Nat /\ e.source \in Sources /\ e.place \in Nat
  BY DEF Entries

\* A sequence and its positions.
LEMMA Positions ==
    ASSUME NEW S, NEW s \in Seq(S)
    PROVE  Len(s) \in Nat /\ DOMAIN s = 1 .. Len(s) /\ \A i \in 1 .. Len(s) : s[i] \in S
  BY LenProperties, ElementOfSeq

\* Of the events written to a stream, in their order, those that fit follow
\* what was pending; the others are missed.
LEMMA WrittenInOrder ==
    ASSUME NEW k \in ClientRecords, Len(k.pending) <= MaxPending, NEW s \in Seq(Entries)
    PROVE  LET r == Written(k, s)
               n == Len(k.pending)
           IN  /\ r \in ClientRecords /\ Len(r.pending) <= MaxPending
               /\ r.at = k.at /\ r.last = k.last /\ r.heard = k.heard
               /\ r.got = k.got /\ r.first = k.first /\ k.missed \subseteq r.missed
               /\ Len(r.pending) \in n .. n + Len(s)
               /\ \A i \in 1 .. n : r.pending[i] = k.pending[i]
               /\ \A i \in 1 .. Len(s) :
                     IF n + i <= Len(r.pending) THEN r.pending[n + i] = s[i]
                                                ELSE s[i].place \in r.missed
<1> DEFINE n == Len(k.pending)
           all == k.pending \o s
           kept == IF Len(all) > MaxPending THEN MaxPending ELSE Len(all)
           pending == SubSeq(all, 1, kept)
           missed == k.missed \cup { all[i].place : i \in kept + 1 .. Len(all) }
           r == [k EXCEPT !.pending = pending, !.missed = missed]
<1>1. Written(k, s) = r
  BY DEF Written
<1>2. n \in Nat /\ Len(s) \in Nat /\ n <= MaxPending /\ MaxPending \in Nat
  BY RecordFields, Positions, EventAssumption
<1>3. /\ all \in Seq(Entries) /\ Len(all) = n + Len(s)
      /\ \A i \in 1 .. n : all[i] = k.pending[i]
      /\ \A i \in 1 .. Len(s) : all[n + i] = s[i]
  <2>1. k.pending \in Seq(Entries)
    BY RecordFields
  <2> HIDE DEF all
  <2>2. /\ all \in Seq(Entries) /\ Len(all) = n + Len(s)
        /\ \A i \in 1 .. n + Len(s) : all[i] = IF i <= n THEN k.pending[i] ELSE s[i - n]
    BY <2>1, ConcatProperties DEF all
  <2> HIDE DEF n
  <2>3. \A i \in 1 .. n : all[i] = k.pending[i]
    BY <1>2, <2>2
  <2>4. ASSUME NEW i \in 1 .. Len(s)
        PROVE  all[n + i] = s[i]
    <3>1. n + i \in 1 .. n + Len(s) /\ ~(n + i <= n) /\ (n + i) - n = i
      BY <1>2
    <3>2. QED
      BY <2>2, <3>1
  <2>5. QED
    BY <2>2, <2>3, <2>4
<1> HIDE DEF all, n
<1>4. \A i \in 1 .. Len(all) : all[i] \in Entries
  BY <1>3, Positions
<1>5. kept \in n .. n + Len(s) /\ kept <= MaxPending /\ kept <= Len(all)
  BY <1>2, <1>3
<1> HIDE DEF kept
<1>6. /\ pending \in Seq(Entries) /\ Len(pending) = kept
      /\ \A i \in 1 .. kept : pending[i] = all[i]
  <2>1. \A i \in 1 .. kept : all[i] \in Entries
    BY <1>2, <1>3, <1>4, <1>5
  <2>2. kept \in Nat /\ kept \in Int /\ 1 \in Int
    BY <1>2, <1>5
  <2>3. /\ pending \in Seq(Entries) /\ Len(pending) = IF 1 <= kept THEN kept - 1 + 1 ELSE 0
        /\ \A i \in 1 .. kept - 1 + 1 : pending[i] = all[1 + i - 1]
    BY <2>1, <2>2, SubSeqProperties
  <2> HIDE DEF pending
  <2>4. kept - 1 + 1 = kept /\ \A i \in 1 .. kept : 1 + i - 1 = i
    BY <2>2
  <2>5. Len(pending) = kept
    BY <2>2, <2>3, <2>4
  <2>6. QED
    BY <2>3, <2>4, <2>5
<1> HIDE DEF pending
<1>7. missed \in SUBSET Nat /\ k.missed \subseteq missed
      /\ \A i \in kept + 1 .. Len(all) : all[i].place \in missed
  <2>1. \A i \in kept + 1 .. Len(all) : i \in 1 .. Len(all)
    BY <1>2, <1>3, <1>5
  <2>2. \A i \in kept + 1 .. Len(all) : all[i].place \in Nat
    BY <1>4, <2>1, EntryFields
  <2>3. k.missed \in SUBSET Nat
    BY RecordFields
  <2>4. QED
    BY <2>2, <2>3
<1> HIDE DEF missed
<1>8. /\ r \in ClientRecords
      /\ r.at = k.at /\ r.last = k.last /\ r.heard = k.heard /\ r.got = k.got
      /\ r.first = k.first /\ r.pending = pending /\ r.missed = missed
  BY <1>6, <1>7 DEF ClientRecords
<1> HIDE DEF r
<1>9. \A i \in 1 .. n : r.pending[i] = k.pending[i]
  <2>1. \A i \in 1 .. n : i \in 1 .. kept
    BY <1>2, <1>5
  <2>2. QED
    BY <1>3, <1>6, <1>8, <2>1
<1>10. ASSUME NEW i \in 1 .. Len(s)
       PROVE  IF n + i <= Len(r.pending) THEN r.pending[n + i] = s[i]
                                         ELSE s[i].place \in r.missed
  <2>1. all[n + i] = s[i]
    BY <1>3
  <2>2. CASE n + i <= kept
    <3>1. n + i \in 1 .. kept
      BY <1>2, <2>2
    <3>2. r.pending[n + i] = s[i]
      BY <1>6, <1>8, <2>1, <3>1
    <3>3. QED
      BY <1>6, <1>8, <2>2, <3>2
  <2>3. CASE ~(n + i <= kept)
    <3>1. n + i \in kept + 1 .. Len(all)
      BY <1>2, <1>3, <1>5, <2>3
    <3>2. s[i].place \in r.missed
      BY <1>7, <1>8, <2>1, <3>1
    <3>3. QED
      BY <1>6, <1>8, <2>3, <3>2
  <2>4. QED
    BY <2>2, <2>3
<1>11. QED
  BY <1>1, <1>5, <1>6, <1>7, <1>8, <1>9, <1>10 DEF n

\* One event written to a stream follows what was pending, or is missed.
LEMMA WrittenOne ==
    ASSUME NEW k \in ClientRecords, Len(k.pending) <= MaxPending, NEW e \in Entries
    PROVE  LET r == Written(k, << e >>)
               m == Len(k.pending)
           IN  /\ r \in ClientRecords
               /\ r.at = k.at /\ r.last = k.last /\ r.heard = k.heard
               /\ r.got = k.got /\ r.first = k.first /\ k.missed \subseteq r.missed
               /\ Len(r.pending) \in {m, m + 1}
               /\ \A i \in 1 .. m : r.pending[i] = k.pending[i]
               /\ Len(r.pending) = m => e.place \in r.missed
               /\ Len(r.pending) = m + 1 => r.pending[m + 1] = e
<1> DEFINE one == << e >>
           r == Written(k, one)
           m == Len(k.pending)
<1>1. one \in Seq(Entries) /\ Len(one) = 1 /\ one[1] = e
  OBVIOUS
<1> HIDE DEF one
<1>2. /\ r \in ClientRecords
      /\ r.at = k.at /\ r.last = k.last /\ r.heard = k.heard /\ r.got = k.got
      /\ r.first = k.first /\ k.missed \subseteq r.missed
      /\ Len(r.pending) \in m .. m + Len(one)
      /\ \A i \in 1 .. m : r.pending[i] = k.pending[i]
      /\ \A i \in 1 .. Len(one) :
            IF m + i <= Len(r.pending) THEN r.pending[m + i] = one[i]
                                       ELSE one[i].place \in r.missed
  BY <1>1, WrittenInOrder
<1> HIDE DEF r
<1>3. m \in Nat /\ 1 \in 1 .. Len(one)
  BY <1>1, RecordFields, Positions
<1>4. IF m + 1 <= Len(r.pending) THEN r.pending[m + 1] = e ELSE e.place \in r.missed
  BY <1>1, <1>2, <1>3
<1> HIDE DEF m
<1>5. Len(r.pending) = m \/ Len(r.pending) = m + 1
  BY <1>1, <1>2, <1>3
<1>6. /\ Len(r.pending) = m => e.place \in r.missed
      /\ Len(r.pending) = m + 1 => r.pending[m + 1] = e
  BY <1>3, <1>4
<1>7. QED
  BY <1>2, <1>5, <1>6 DEF r, m, one

\* The buffer after an event: members of it, in their order, and the event last.
LEMMA TrimmedInOrder ==
    ASSUME NEW s \in Seq(Entries), NEW e \in Entries, Len(s) <= RingMax
    PROVE  LET t == Trimmed(Append(s, e))
           IN  /\ t \in Seq(Entries) /\ Len(t) \in 1 .. RingMax /\ t[Len(t)] = e
               /\ \E d \in {0, 1} : \A i \in 1 .. Len(t) - 1 :
                     i + d \in 1 .. Len(s) /\ t[i] = s[i + d]
<1> DEFINE a == Append(s, e)
<1>1. Len(s) \in Nat /\ RingMax \in Nat /\ RingMax # 0
  BY Positions, EventAssumption
<1>2. /\ a \in Seq(Entries) /\ a # << >> /\ Len(a) = Len(s) + 1
      /\ \A i \in 1 .. Len(s) : a[i] = s[i]
      /\ a[Len(s) + 1] = e
  BY AppendProperties
<1>3. CASE Len(a) > RingMax
  <2>1. Trimmed(a) = Tail(a)
    BY <1>3 DEF Trimmed
  <2> HIDE DEF a
  <2> DEFINE t == Tail(a)
  <2>2. /\ t \in Seq(Entries) /\ Len(t) = Len(a) - 1
        /\ \A i \in 1 .. Len(t) : t[i] = a[i + 1]
    BY <1>2, HeadTailProperties
  <2> HIDE DEF t
  <2>3. Len(t) = Len(s) /\ Len(t) \in 1 .. RingMax
    BY <1>1, <1>2, <1>3, <2>2
  <2>4. t[Len(t)] = e
    BY <1>1, <1>2, <2>2, <2>3
  <2>5. \A i \in 1 .. Len(t) - 1 : i + 1 \in 1 .. Len(s) /\ t[i] = s[i + 1]
    <3> SUFFICES ASSUME NEW i \in 1 .. Len(t) - 1
                 PROVE  i + 1 \in 1 .. Len(s) /\ t[i] = s[i + 1]
      OBVIOUS
    <3>1. i + 1 \in 1 .. Len(s) /\ i \in 1 .. Len(t)
      BY <1>1, <2>3
    <3>2. QED
      BY <1>2, <2>2, <3>1
  <2>6. QED
    BY <2>1, <2>2, <2>3, <2>4, <2>5 DEF t, a
<1>4. CASE ~(Len(a) > RingMax)
  <2>1. Trimmed(a) = a
    BY <1>4 DEF Trimmed
  <2> HIDE DEF a
  <2>2. Len(a) \in 1 .. RingMax /\ Len(a) - 1 = Len(s) /\ a[Len(a)] = e
    BY <1>1, <1>2, <1>4
  <2>3. \A i \in 1 .. Len(a) - 1 : i + 0 \in 1 .. Len(s) /\ a[i] = s[i + 0]
    <3> SUFFICES ASSUME NEW i \in 1 .. Len(a) - 1
                 PROVE  i + 0 \in 1 .. Len(s) /\ a[i] = s[i + 0]
      OBVIOUS
    <3>1. i + 0 = i /\ i \in 1 .. Len(s)
      BY <2>2
    <3>2. QED
      BY <1>2, <3>1
  <2>4. QED
    BY <1>2, <2>1, <2>2, <2>3 DEF a
<1>5. QED
  BY <1>3, <1>4

----------------------------------------------------------------------------
(* Types.                                                                  *)

Event(w, n, source) == [seq |-> n, source |-> source, place |-> arrived[w] + 1]
Listens(c, w) == WorkerOf[c] = w /\ client[c].at = "open"

\* What recording an event does to a worker's buffer and to each client.
LEMMA FanOut ==
    ASSUME TypeOK, NEW w \in Workers, NEW n \in Nat, NEW source \in Sources,
           RecordAndFanOut(w, n, source)
    PROVE  /\ Event(w, n, source) \in Entries /\ << Event(w, n, source) >> \in Seq(Entries)
           /\ arrived' \in [Workers -> Nat] /\ arrived'[w] = arrived[w] + 1
           /\ \A v \in Workers : v # w => arrived'[v] = arrived[v] /\ ring'[v] = ring[v]
           /\ DOMAIN ring' = Workers
           /\ ring'[w] = Trimmed(Append(ring[w], Event(w, n, source)))
           /\ DOMAIN client' = Clients
           /\ \A c \in Clients : Listens(c, w) =>
                 client'[c] = Written(client[c], << Event(w, n, source) >>)
           /\ \A c \in Clients : ~Listens(c, w) => client'[c] = client[c]
           /\ client' = [c \in Clients |-> client'[c]] /\ ring' = [v \in Workers |-> ring'[v]]
<1> DEFINE e == Event(w, n, source)
<1>1. arrived \in [Workers -> Nat] /\ ring \in [Workers -> Seq(Entries)]
  BY DEF TypeOK
<1>2. e \in Entries
  BY <1>1 DEF Event, Entries
<1>3. << e >> \in Seq(Entries)
  BY <1>2
<1>4. /\ ring' = [ring EXCEPT ![w] = Trimmed(Append(ring[w], e))]
      /\ arrived' = [arrived EXCEPT ![w] = @ + 1]
      /\ client' = [c \in Clients |->
                       IF Listens(c, w) THEN Written(client[c], << e >>) ELSE client[c]]
  BY DEF RecordAndFanOut, Event, Listens
<1> HIDE DEF e
<1>5. \A c \in Clients : Listens(c, w) => client'[c] = Written(client[c], << e >>)
  BY <1>4
<1>6. \A c \in Clients : ~Listens(c, w) => client'[c] = client[c]
  BY <1>4
<1>7. DOMAIN client' = Clients /\ client' = [c \in Clients |-> client'[c]]
  BY <1>4
<1>8. /\ arrived' \in [Workers -> Nat] /\ arrived'[w] = arrived[w] + 1
      /\ \A v \in Workers : v # w => arrived'[v] = arrived[v]
  BY <1>1, <1>4
<1> DEFINE t == Trimmed(Append(ring[w], e))
<1>9. ring' = [ring EXCEPT ![w] = t]
  BY <1>4
<1> HIDE DEF t
<1>10. /\ ring'[w] = t /\ DOMAIN ring' = Workers
       /\ \A v \in Workers : v # w => ring'[v] = ring[v]
       /\ ring' = [v \in Workers |-> ring'[v]]
  BY <1>1, <1>9
<1>11. QED
  BY <1>2, <1>3, <1>5, <1>6, <1>7, <1>8, <1>10 DEF e, t

BufferTypes ==
    /\ ring \in [Workers -> Seq(Entries)] /\ arrived \in [Workers -> Nat]
    /\ client \in [Clients -> ClientRecords]
    /\ \A w \in Workers : Len(ring[w]) <= RingMax
    /\ \A c \in Clients : Len(client[c].pending) <= MaxPending

LEMMA FanOutTypes ==
    ASSUME TypeOK, NEW w \in Workers, NEW n \in Nat, NEW source \in Sources,
           RecordAndFanOut(w, n, source)
    PROVE  BufferTypes'
<1> DEFINE e == Event(w, n, source)
<1>1. /\ ring \in [Workers -> Seq(Entries)] /\ client \in [Clients -> ClientRecords]
      /\ \A v \in Workers : Len(ring[v]) <= RingMax
      /\ \A c \in Clients : Len(client[c].pending) <= MaxPending
  BY DEF TypeOK
<1>2. e \in Entries /\ << e >> \in Seq(Entries)
  BY FanOut
<1>3. \A v \in Workers : ring'[v] \in Seq(Entries) /\ Len(ring'[v]) <= RingMax
  <2> SUFFICES ASSUME NEW v \in Workers
               PROVE  ring'[v] \in Seq(Entries) /\ Len(ring'[v]) <= RingMax
    OBVIOUS
  <2>1. CASE v # w
    <3>1. ring'[v] = ring[v]
      BY <2>1, FanOut
    <3>2. QED
      BY <1>1, <3>1
  <2>2. CASE v = w
    <3>1. ring[w] \in Seq(Entries) /\ Len(ring[w]) <= RingMax
      BY <1>1
    <3>2. ring'[w] = Trimmed(Append(ring[w], e))
      BY FanOut
    <3> HIDE DEF e
    <3>3. Trimmed(Append(ring[w], e)) \in Seq(Entries)
          /\ Len(Trimmed(Append(ring[w], e))) \in 1 .. RingMax
      BY <1>2, <3>1, TrimmedInOrder
    <3>4. QED
      BY <2>2, <3>2, <3>3
  <2>3. QED
    BY <2>1, <2>2
<1>4. \A c \in Clients :
         client'[c] \in ClientRecords /\ Len(client'[c].pending) <= MaxPending
  <2> SUFFICES ASSUME NEW c \in Clients
               PROVE  client'[c] \in ClientRecords /\ Len(client'[c].pending) <= MaxPending
    OBVIOUS
  <2>1. client[c] \in ClientRecords /\ Len(client[c].pending) <= MaxPending
    BY <1>1
  <2>2. CASE ~Listens(c, w)
    <3>1. client'[c] = client[c]
      BY <2>2, FanOut
    <3>2. QED
      BY <2>1, <3>1
  <2>3. CASE Listens(c, w)
    <3>1. client'[c] = Written(client[c], << e >>)
      BY <2>3, FanOut
    <3> HIDE DEF e
    <3>2. QED
      BY <1>2, <2>1, <3>1, WrittenInOrder
  <2>4. QED
    BY <2>2, <2>3
<1>5. client' \in [Clients -> ClientRecords]
  <2>1. client' = [c \in Clients |-> client'[c]]
    BY FanOut
  <2>2. QED
    BY <1>4, <2>1
<1>6. ring' \in [Workers -> Seq(Entries)]
  <2>1. ring' = [v \in Workers |-> ring'[v]]
    BY FanOut
  <2>2. QED
    BY <1>3, <2>1
<1>7. arrived' \in [Workers -> Nat]
  BY FanOut
<1>8. QED
  BY <1>3, <1>4, <1>5, <1>6, <1>7 DEF BufferTypes

\* A client's record replaced by one of the type.
LEMMA ClientReplaced ==
    ASSUME TypeOK, NEW c \in Clients, NEW r \in ClientRecords,
           Len(r.pending) <= MaxPending, client' = [client EXCEPT ![c] = r]
    PROVE  /\ client' \in [Clients -> ClientRecords]
           /\ \A d \in Clients : Len(client'[d].pending) <= MaxPending
           /\ client'[c] = r /\ \A d \in Clients : d # c => client'[d] = client[d]
<1>1. client \in [Clients -> ClientRecords]
      /\ \A d \in Clients : Len(client[d].pending) <= MaxPending
  BY DEF TypeOK
<1>2. client'[c] = r /\ \A d \in Clients : d # c => client'[d] = client[d]
  BY <1>1
<1>3. client' \in [Clients -> ClientRecords]
  BY <1>1
<1>4. QED
  <2> SUFFICES ASSUME NEW d \in Clients
               PROVE  Len(client'[d].pending) <= MaxPending
    BY <1>2, <1>3
  <2>1. CASE d = c
    BY <1>2, <2>1
  <2>2. CASE d # c
    BY <1>1, <1>2, <2>2
  <2>3. QED
    BY <2>1, <2>2

\* A stream that breaks loses what is pending and nothing else.
Broken(k) == [k EXCEPT !.at = "away", !.pending = << >>]

LEMMA BrokenFields ==
    ASSUME NEW k \in ClientRecords
    PROVE  LET r == Broken(k)
           IN  /\ r \in ClientRecords /\ r.at = "away" /\ r.pending = << >>
               /\ r.last = k.last /\ r.heard = k.heard /\ r.got = k.got
               /\ r.first = k.first /\ r.missed = k.missed
<1>1. << >> \in Seq(Entries)
  OBVIOUS
<1>2. QED
  BY <1>1 DEF Broken, ClientRecords

\* The frame a client receives, and what becomes of the client.
Received(k) ==
    [k EXCEPT !.pending = Tail(k.pending), !.last = Head(k.pending).seq,
              !.got = @ \cup {Head(k.pending).place},
              !.heard = Heard(@, Head(k.pending).source)]

LEMMA ReceivedFields ==
    ASSUME NEW k \in ClientRecords, k.pending # << >>
    PROVE  LET r == Received(k)
               e == k.pending[1]
           IN  /\ e \in Entries /\ 1 \in DOMAIN k.pending
               /\ r \in ClientRecords /\ r.at = k.at /\ r.first = k.first /\ r.missed = k.missed
               /\ Len(r.pending) = Len(k.pending) - 1
               /\ \A i \in 1 .. Len(r.pending) : r.pending[i] = k.pending[i + 1]
               /\ r.last = e.seq /\ r.got = k.got \cup {e.place}
               /\ r.heard = Heard(k.heard, e.source)
               /\ r.heard # << >> /\ Last(r.heard) = e.source
               /\ \A i \in DOMAIN k.heard : i \in DOMAIN r.heard /\ r.heard[i] = k.heard[i]
               /\ \E i \in DOMAIN r.heard : r.heard[i] = e.source
<1> DEFINE e == k.pending[1]
           rest == Tail(k.pending)
           heard == Heard(k.heard, e.source)
<1>1. k.pending \in Seq(Entries) /\ k.heard \in Seq(Sources) /\ k.got \in SUBSET Nat
  BY RecordFields
<1>2. Len(k.pending) \in Nat /\ Len(k.pending) # 0 /\ DOMAIN k.pending = 1 .. Len(k.pending)
  BY <1>1, Positions, EmptySeq
<1>3. Head(k.pending) = e /\ e \in Entries /\ 1 \in DOMAIN k.pending
  BY <1>1, <1>2, Positions
<1>4. /\ rest \in Seq(Entries) /\ Len(rest) = Len(k.pending) - 1
      /\ \A i \in 1 .. Len(rest) : rest[i] = k.pending[i + 1]
  BY <1>1, HeadTailProperties
<1>5. e.seq \in Nat /\ e.source \in Sources /\ e.place \in Nat
  BY <1>3, EntryFields
<1> HIDE DEF e, rest
<1>6. /\ heard \in Seq(Sources) /\ heard # << >> /\ Last(heard) = e.source
      /\ \A i \in DOMAIN k.heard : i \in DOMAIN heard /\ heard[i] = k.heard[i]
  <2>1. CASE k.heard # << >> /\ Last(k.heard) = e.source
    <3>1. heard = k.heard
      BY <2>1 DEF Heard
    <3>2. QED
      BY <1>1, <2>1, <3>1
  <2>2. CASE ~(k.heard # << >> /\ Last(k.heard) = e.source)
    <3>1. heard = Append(k.heard, e.source)
      BY <2>2 DEF Heard
    <3>2. /\ heard \in Seq(Sources) /\ heard # << >> /\ Len(heard) = Len(k.heard) + 1
          /\ \A i \in 1 .. Len(k.heard) : heard[i] = k.heard[i]
          /\ heard[Len(k.heard) + 1] = e.source
      BY <1>1, <1>5, <3>1, AppendProperties
    <3> HIDE DEF heard
    <3>3. DOMAIN k.heard = 1 .. Len(k.heard) /\ Len(k.heard) \in Nat
          /\ DOMAIN heard = 1 .. Len(k.heard) + 1
      BY <1>1, <3>2, Positions
    <3>4. Last(heard) = e.source
      BY <3>2, <3>3 DEF Last
    <3>5. \A i \in DOMAIN k.heard : i \in DOMAIN heard
      BY <3>3
    <3>6. QED
      BY <3>2, <3>3, <3>4, <3>5
  <2>3. QED
    BY <2>1, <2>2
<1> HIDE DEF heard
<1>7. \E i \in DOMAIN heard : heard[i] = e.source
  <2>1. Len(heard) \in Nat /\ Len(heard) # 0 /\ DOMAIN heard = 1 .. Len(heard)
    BY <1>6, Positions, EmptySeq
  <2>2. heard[Len(heard)] = e.source /\ Len(heard) \in DOMAIN heard
    BY <1>6, <2>1 DEF Last
  <2>3. QED
    BY <2>2
<1> DEFINE got == k.got \cup {e.place}
           r == [k EXCEPT !.pending = rest, !.last = e.seq, !.got = got, !.heard = heard]
<1>8. Received(k) = r
  BY <1>3 DEF Received, rest, heard, e
<1>9. got \in SUBSET Nat
  BY <1>1, <1>5
<1> HIDE DEF got
<1>10. /\ r \in ClientRecords /\ r.at = k.at /\ r.first = k.first /\ r.missed = k.missed
       /\ r.pending = rest /\ r.last = e.seq /\ r.got = got /\ r.heard = heard
  BY <1>4, <1>5, <1>6, <1>9 DEF ClientRecords
<1> HIDE DEF r
<1>11. QED
  BY <1>3, <1>4, <1>6, <1>7, <1>8, <1>10 DEF e, heard, got

\* A replay: what the buffer holds after the number, in the buffer's order.
LEMMA ReplayInOrder ==
    ASSUME TypeOK, NEW w \in Workers, NEW n \in Nat
    PROVE  LET s == ReplayOf(w, n)
           IN  /\ s \in Seq(Entries)
               /\ \A j \in DOMAIN s : \E i \in DOMAIN ring[w] :
                     ring[w][i].seq > n /\ s[j] = ring[w][i]
               /\ \A i \in DOMAIN ring[w] : ring[w][i].seq > n =>
                     \E j \in DOMAIN s : s[j] = ring[w][i]
               /\ InPlace(ring[w], arrived[w]) => InPlace(s, arrived[w])
<1> DEFINE b == ring[w]
           I == { i \in DOMAIN b : b[i].seq > n }
           s == ReplayOf(w, n)
<1>1. b \in Seq(Entries)
  BY DEF TypeOK
<1>3. s = Picked(b, I)
  BY DEF ReplayOf
<1> HIDE DEF b, s
<1>4. I \in SUBSET DOMAIN b
  OBVIOUS
<1>5. s \in Seq(Entries) /\ Picks(s, b, I)
  BY <1>1, <1>3, <1>4, PickedInOrder
<1>6. PICK at \in [DOMAIN s -> I] :
         /\ \A j \in DOMAIN s : s[j] = b[at[j]]
         /\ \A j, k \in DOMAIN s : j < k => at[j] < at[k]
         /\ \A i \in I : \E j \in DOMAIN s : at[j] = i
  BY <1>5 DEF Picks
<1>7. \A j \in DOMAIN s : at[j] \in DOMAIN b /\ b[at[j]].seq > n
  BY <1>6
<1>8. \A j \in DOMAIN s : \E i \in DOMAIN b : b[i].seq > n /\ s[j] = b[i]
  BY <1>6, <1>7
<1>9. \A i \in DOMAIN b : b[i].seq > n => \E j \in DOMAIN s : s[j] = b[i]
  BY <1>6
<1>10. InPlace(b, arrived[w]) => InPlace(s, arrived[w])
  BY <1>6, <1>7 DEF InPlace
<1>11. QED
  BY <1>5, <1>8, <1>9, <1>10 DEF b, s

\* A client as its stream opens, before anything is written to it, and what is.
Opened(c) ==
    [client[c] EXCEPT !.at = "open",
                      !.first = IF client[c].at = "new" THEN arrived[WorkerOf[c]] + 1 ELSE @,
                      !.missed = @ \cup IF client[c].at = "new" THEN {} ELSE Unrecoverable(c)]
ReplayedTo(c) ==
    IF c \in Asks /\ client[c].last > 0 THEN ReplayOf(WorkerOf[c], client[c].last) ELSE << >>

LEMMA OpenedFields ==
    ASSUME TypeOK, NEW c \in Clients
    PROVE  LET k == client[c]
               r == Opened(c)
           IN  /\ r \in ClientRecords /\ ReplayedTo(c) \in Seq(Entries)
               /\ r.at = "open" /\ r.pending = k.pending /\ r.last = k.last
               /\ r.heard = k.heard /\ r.got = k.got
               /\ k.at = "new" => r.first = arrived[WorkerOf[c]] + 1
               /\ k.at # "new" => r.first = k.first /\ Unrecoverable(c) \subseteq r.missed
               /\ k.missed \subseteq r.missed
<1> DEFINE k == client[c]
           w == WorkerOf[c]
           first == IF k.at = "new" THEN arrived[w] + 1 ELSE k.first
           missed == k.missed \cup IF k.at = "new" THEN {} ELSE Unrecoverable(c)
           r == [k EXCEPT !.at = "open", !.first = first, !.missed = missed]
<1>1. w \in Workers /\ k \in ClientRecords /\ arrived[w] \in Nat
  BY EventAssumption DEF TypeOK
<1>2. k.last \in Nat /\ k.first \in Nat /\ k.missed \in SUBSET Nat
  BY <1>1, RecordFields
<1>3. Unrecoverable(c) \in SUBSET Nat
  <2>1. Unrecoverable(c) \subseteq k.first .. arrived[w]
    BY DEF Unrecoverable
  <2>2. k.first .. arrived[w] \subseteq Nat
    BY <1>1, <1>2
  <2>3. QED
    BY <2>1, <2>2
<1>4. first \in Nat /\ missed \in SUBSET Nat
  BY <1>1, <1>2, <1>3
<1>5. Opened(c) = r
  BY DEF Opened
<1>6. ReplayedTo(c) \in Seq(Entries)
  <2>1. CASE c \in Asks /\ k.last > 0
    BY <1>1, <1>2, <2>1, ReplayInOrder DEF ReplayedTo
  <2>2. CASE ~(c \in Asks /\ k.last > 0)
    BY <2>2 DEF ReplayedTo
  <2>3. QED
    BY <2>1, <2>2
<1> HIDE DEF k
<1>7. /\ k.at = "new" => first = arrived[w] + 1
      /\ k.at # "new" => first = k.first /\ Unrecoverable(c) \subseteq missed
      /\ k.missed \subseteq missed
  OBVIOUS
<1> HIDE DEF first, missed
<1>8. /\ r \in ClientRecords /\ r.at = "open" /\ r.pending = k.pending /\ r.last = k.last
      /\ r.heard = k.heard /\ r.got = k.got /\ r.first = first /\ r.missed = missed
  BY <1>1, <1>4 DEF ClientRecords
<1> HIDE DEF r
<1>9. QED
  BY <1>5, <1>6, <1>7, <1>8 DEF k

\* What opening a stream does to the clients.
LEMMA OpenStep ==
    ASSUME NEW c \in Clients, Open(c)
    PROVE  /\ client' = [client EXCEPT ![c] = Written(Opened(c), ReplayedTo(c))]
           /\ client[c].at \in {"new", "away"}
           /\ UNCHANGED << seq, run, ring, arrived, published, channel, faults >>
  BY DEF Open, Opened, ReplayedTo

LEMMA ReceiveStep ==
    ASSUME NEW c \in Clients, Receive(c)
    PROVE  /\ client' = [client EXCEPT ![c] = Received(client[c])]
           /\ client[c].pending # << >>
           /\ UNCHANGED << seq, run, ring, arrived, published, channel, faults >>
  BY DEF Receive, Received

LEMMA CutStep ==
    ASSUME NEW c \in Clients, Cut(c)
    PROVE  /\ client' = [client EXCEPT ![c] = Broken(client[c])]
           /\ client[c].at = "open"
           /\ UNCHANGED << seq, run, ring, arrived, published, channel >>
  BY DEF Cut, Broken

LEMMA FaultTypes ==
    ASSUME TypeOK, NEW class, Fault(class)
    PROVE  faults' \in 0 .. MaxFaults
  BY EventAssumption DEF TypeOK, Fault

LEMMA InitTypes == Init => TypeOK
<1> SUFFICES ASSUME Init PROVE TypeOK
  OBVIOUS
<1> USE DEF Init
<1>1. NewClient \in ClientRecords /\ Len(NewClient.pending) = 0
  BY DEF NewClient, ClientRecords
<1> HIDE DEF NewClient
<1>2. client \in [Clients -> ClientRecords]
      /\ \A c \in Clients : Len(client[c].pending) <= MaxPending
  BY <1>1, EventAssumption
<1>3. ring \in [Workers -> Seq(Entries)] /\ \A w \in Workers : Len(ring[w]) <= RingMax
  BY EventAssumption
<1>4. channel \in [Workers -> Seq(Nat \X Sources)]
  OBVIOUS
<1>5. seq \in [Workers -> Nat] /\ arrived \in [Workers -> Nat] /\ run \in [Workers -> Nat]
  OBVIOUS
<1>6. published \in 0 .. MaxEvents /\ faults \in 0 .. MaxFaults
  BY EventAssumption
<1>7. QED
  BY <1>2, <1>3, <1>4, <1>5, <1>6 DEF TypeOK

\* Number, source: what a worker tells the others of an event it publishes.
LEMMA PublishStep ==
    ASSUME TypeOK, NEW w \in Workers, Publish(w)
    PROVE  /\ seq[w] + 1 \in Nat /\ << w, run[w] >> \in Sources
           /\ RecordAndFanOut(w, seq[w] + 1, << w, run[w] >>)
           /\ seq' = [seq EXCEPT ![w] = @ + 1] /\ UNCHANGED << run, faults >>
           /\ published' \in 0 .. MaxEvents
           /\ channel' = [v \in Workers |->
                             IF v = w THEN channel[v]
                             ELSE Append(channel[v], << seq[w] + 1, << w, run[w] >> >>)]
<1>1. seq[w] + 1 \in Nat /\ << w, run[w] >> \in Sources
  BY DEF TypeOK, Sources
<1>2. published' \in 0 .. MaxEvents
  BY EventAssumption DEF Publish, TypeOK
<1>3. QED
  BY <1>1, <1>2 DEF Publish

LEMMA ArriveStep ==
    ASSUME TypeOK, NEW w \in Workers, Arrive(w)
    PROVE  /\ channel[w] # << >> /\ channel[w][1][1] \in Nat /\ channel[w][1][2] \in Sources
           /\ channel' = [channel EXCEPT ![w] = Tail(channel[w])]
           /\ UNCHANGED << seq, run, published >>
           /\ \/ RecordAndFanOut(w, channel[w][1][1], channel[w][1][2]) /\ UNCHANGED faults
              \/ Fault("notify") /\ UNCHANGED << ring, arrived, client >>
<1>1. channel[w] \in Seq(Nat \X Sources) /\ channel[w] # << >>
  BY DEF Arrive, TypeOK
<1>2. Head(channel[w]) = channel[w][1] /\ channel[w][1] \in Nat \X Sources
  BY <1>1, EmptySeq, Positions
<1>3. channel[w][1][1] \in Nat /\ channel[w][1][2] \in Sources
  BY <1>2
<1>4. QED
  BY <1>1, <1>2, <1>3 DEF Arrive

LEMMA RestartStep ==
    ASSUME TypeOK, NEW w \in Workers, Restart(w)
    PROVE  /\ seq' = [seq EXCEPT ![w] = 0] /\ run' = [run EXCEPT ![w] = @ + 1]
           /\ ring' = [ring EXCEPT ![w] = << >>] /\ channel' = [channel EXCEPT ![w] = << >>]
           /\ UNCHANGED << arrived, published >> /\ faults' \in 0 .. MaxFaults
           /\ client' = [c \in Clients |->
                            IF WorkerOf[c] = w /\ client[c].at # "new"
                            THEN Broken(client[c]) ELSE client[c]]
<1>1. faults' \in 0 .. MaxFaults
  BY FaultTypes DEF Restart
<1>2. QED
  BY <1>1 DEF Restart, Broken

LEMMA NextTypes == TypeOK /\ [Next]_vars => TypeOK'
<1> SUFFICES ASSUME TypeOK, [Next]_vars PROVE TypeOK'
  OBVIOUS
<1>1. ASSUME NEW w \in Workers, Publish(w)
      PROVE  TypeOK'
  <2>1. BufferTypes'
    BY <1>1, PublishStep, FanOutTypes
  <2>2. seq' \in [Workers -> Nat] /\ run' \in [Workers -> Nat] /\ published' \in 0 .. MaxEvents
        /\ faults' \in 0 .. MaxFaults
    BY <1>1, PublishStep DEF TypeOK
  <2>3. channel' \in [Workers -> Seq(Nat \X Sources)]
    <3> DEFINE m == << seq[w] + 1, << w, run[w] >> >>
    <3>1. m \in Nat \X Sources
      BY <1>1, PublishStep
    <3>2. channel' = [v \in Workers |-> IF v = w THEN channel[v] ELSE Append(channel[v], m)]
      BY <1>1, PublishStep
    <3> HIDE DEF m
    <3>3. \A v \in Workers : channel[v] \in Seq(Nat \X Sources)
      BY DEF TypeOK
    <3>4. \A v \in Workers : Append(channel[v], m) \in Seq(Nat \X Sources)
      BY <3>1, <3>3, AppendProperties
    <3>5. QED
      BY <3>2, <3>3, <3>4
  <2>4. QED
    BY <2>1, <2>2, <2>3 DEF TypeOK, BufferTypes
<1>2. ASSUME NEW w \in Workers, Arrive(w)
      PROVE  TypeOK'
  <2>1. BufferTypes'
    <3>1. CASE RecordAndFanOut(w, channel[w][1][1], channel[w][1][2])
      BY <1>2, <3>1, ArriveStep, FanOutTypes
    <3>2. CASE UNCHANGED << ring, arrived, client >>
      BY <3>2 DEF TypeOK, BufferTypes
    <3>3. QED
      BY <1>2, <3>1, <3>2, ArriveStep
  <2>2. channel' \in [Workers -> Seq(Nat \X Sources)]
    <3>1. channel[w] \in Seq(Nat \X Sources) /\ channel[w] # << >>
      BY <1>2, ArriveStep DEF TypeOK
    <3>2. Tail(channel[w]) \in Seq(Nat \X Sources)
      BY <3>1, HeadTailProperties
    <3>3. QED
      BY <1>2, <3>2, ArriveStep DEF TypeOK
  <2>3. faults' \in 0 .. MaxFaults
    BY <1>2, ArriveStep, FaultTypes DEF TypeOK
  <2>4. UNCHANGED << seq, run, published >>
    BY <1>2, ArriveStep
  <2>5. QED
    BY <2>1, <2>2, <2>3, <2>4 DEF TypeOK, BufferTypes
<1>3. ASSUME NEW w \in Workers, RingAges(w)
      PROVE  TypeOK'
  <2>1. faults' \in 0 .. MaxFaults
    BY <1>3, FaultTypes DEF RingAges
  <2> DEFINE t == Tail(ring[w])
  <2>2. ring[w] \in Seq(Entries) /\ ring[w] # << >> /\ Len(ring[w]) <= RingMax
    BY <1>3 DEF RingAges, TypeOK
  <2>3. t \in Seq(Entries) /\ Len(t) <= RingMax
    BY <2>2, HeadTailProperties, Positions, EventAssumption
  <2>4. ring' = [ring EXCEPT ![w] = t]
    BY <1>3 DEF RingAges
  <2> HIDE DEF t
  <2>5. ring' \in [Workers -> Seq(Entries)] /\ \A v \in Workers : Len(ring'[v]) <= RingMax
    BY <2>3, <2>4 DEF TypeOK
  <2>6. UNCHANGED << seq, run, arrived, published, channel, client >>
    BY <1>3 DEF RingAges
  <2>7. QED
    BY <2>1, <2>5, <2>6 DEF TypeOK
<1>4. ASSUME NEW w \in Workers, Restart(w)
      PROVE  TypeOK'
  <2>1. \A c \in Clients : client'[c] \in ClientRecords /\ Len(client'[c].pending) <= MaxPending
    <3> SUFFICES ASSUME NEW c \in Clients
                 PROVE  client'[c] \in ClientRecords /\ Len(client'[c].pending) <= MaxPending
      OBVIOUS
    <3>1. client[c] \in ClientRecords /\ Len(client[c].pending) <= MaxPending
      BY DEF TypeOK
    <3>2. Broken(client[c]) \in ClientRecords /\ Len(Broken(client[c]).pending) <= MaxPending
      BY <3>1, BrokenFields, EventAssumption
    <3>3. client'[c] = Broken(client[c]) \/ client'[c] = client[c]
      BY <1>4, RestartStep
    <3>4. QED
      BY <3>1, <3>2, <3>3
  <2>2. client' \in [Clients -> ClientRecords]
    <3>1. client' = [c \in Clients |-> client'[c]]
      BY <1>4, RestartStep
    <3>2. QED
      BY <2>1, <3>1
  <2> DEFINE none == << >>
  <2>3. ring' \in [Workers -> Seq(Entries)] /\ \A v \in Workers : Len(ring'[v]) <= RingMax
    <3>1. none \in Seq(Entries) /\ Len(none) <= RingMax
      BY EmptySeq, EventAssumption
    <3>2. ring' = [ring EXCEPT ![w] = none]
      BY <1>4, RestartStep
    <3> HIDE DEF none
    <3>3. QED
      BY <3>1, <3>2 DEF TypeOK
  <2>4. channel' \in [Workers -> Seq(Nat \X Sources)]
    <3>1. none \in Seq(Nat \X Sources)
      BY EmptySeq
    <3>2. channel' = [channel EXCEPT ![w] = none]
      BY <1>4, RestartStep
    <3> HIDE DEF none
    <3>3. QED
      BY <3>1, <3>2 DEF TypeOK
  <2>5. seq' \in [Workers -> Nat] /\ run' \in [Workers -> Nat]
    <3>1. seq' = [seq EXCEPT ![w] = 0] /\ run' = [run EXCEPT ![w] = @ + 1]
      BY <1>4, RestartStep
    <3>2. seq' \in [Workers -> Nat]
      BY <3>1 DEF TypeOK
    <3>3. run' \in [Workers -> Nat]
      BY <3>1 DEF TypeOK
    <3>4. QED
      BY <3>2, <3>3
  <2>6. UNCHANGED << arrived, published >> /\ faults' \in 0 .. MaxFaults
    BY <1>4, RestartStep
  <2>7. QED
    BY <2>1, <2>2, <2>3, <2>4, <2>5, <2>6 DEF TypeOK
<1>5. ASSUME NEW c \in Clients, Open(c)
      PROVE  TypeOK'
  <2> DEFINE r == Written(Opened(c), ReplayedTo(c))
  <2>1. Len(client[c].pending) <= MaxPending
    BY DEF TypeOK
  <2>2. r \in ClientRecords /\ Len(r.pending) <= MaxPending
    BY <2>1, OpenedFields, WrittenInOrder
  <2>3. client' = [client EXCEPT ![c] = r]
    BY <1>5, OpenStep
  <2> HIDE DEF r
  <2>4. QED
    BY <1>5, <2>2, <2>3, ClientReplaced, OpenStep DEF TypeOK
<1>6. ASSUME NEW c \in Clients, Receive(c)
      PROVE  TypeOK'
  <2> DEFINE r == Received(client[c])
  <2>1. client[c] \in ClientRecords /\ Len(client[c].pending) <= MaxPending
        /\ client[c].pending # << >>
    BY <1>6, ReceiveStep DEF TypeOK
  <2>2. r \in ClientRecords /\ Len(r.pending) <= MaxPending
    BY <2>1, ReceivedFields, RecordFields, Positions, EventAssumption
  <2>3. client' = [client EXCEPT ![c] = r]
    BY <1>6, ReceiveStep
  <2> HIDE DEF r
  <2>4. QED
    BY <1>6, <2>2, <2>3, ClientReplaced, ReceiveStep DEF TypeOK
<1>7. ASSUME NEW c \in Clients, Cut(c)
      PROVE  TypeOK'
  <2> DEFINE r == Broken(client[c])
  <2>1. client[c] \in ClientRecords
    BY DEF TypeOK
  <2>2. r \in ClientRecords /\ Len(r.pending) <= MaxPending
    BY <2>1, BrokenFields, EventAssumption
  <2>3. client' = [client EXCEPT ![c] = r]
    BY <1>7, CutStep
  <2>4. faults' \in 0 .. MaxFaults
    BY <1>7, FaultTypes DEF Cut
  <2> HIDE DEF r
  <2>5. QED
    BY <1>7, <2>2, <2>3, <2>4, ClientReplaced, CutStep DEF TypeOK
<1>8. CASE UNCHANGED vars
  BY <1>8 DEF vars, TypeOK
<1>9. QED
  BY <1>1, <1>2, <1>3, <1>4, <1>5, <1>6, <1>7, <1>8 DEF Next

\* Every variable keeps its type, and neither the buffer nor a stream outgrows
\* its limit, however events, replays and faults fall together.
THEOREM TypeCorrect == Spec => []TypeOK
  BY InitTypes, NextTypes, PTL DEF Spec

----------------------------------------------------------------------------
(* Places: in the buffer and in every stream, in the order they came in.   *)

LEMMA InPlaceTail ==
    ASSUME NEW s \in Seq(Entries), s # << >>, NEW n \in Nat, InPlace(s, n)
    PROVE  InPlace(Tail(s), n)
<1> DEFINE t == Tail(s)
<1>1. Len(s) \in Nat /\ DOMAIN s = 1 .. Len(s)
  BY Positions
<1>2. t \in Seq(Entries) /\ Len(t) = Len(s) - 1 /\ \A i \in 1 .. Len(t) : t[i] = s[i + 1]
  BY HeadTailProperties
<1> HIDE DEF t
<1>3. DOMAIN t = 1 .. Len(t) /\ \A i \in DOMAIN t : i + 1 \in DOMAIN s /\ t[i] = s[i + 1]
  BY <1>1, <1>2, Positions
<1>4. \A i \in DOMAIN t : t[i].place <= n
  BY <1>3 DEF InPlace
<1>5. ASSUME NEW i \in DOMAIN t, NEW j \in DOMAIN t, i < j
      PROVE  t[i].place < t[j].place
  <2>1. i + 1 < j + 1
    BY <1>1, <1>2, <1>3, <1>5
  <2>2. QED
    BY <1>3, <2>1 DEF InPlace
<1>6. QED
  BY <1>4, <1>5 DEF InPlace, t

LEMMA InPlaceLater ==
    ASSUME NEW s \in Seq(Entries), NEW n \in Nat, InPlace(s, n)
    PROVE  InPlace(s, n + 1)
<1>1. \A i \in DOMAIN s : s[i].place \in Nat
  BY Positions, EntryFields
<1>2. QED
  BY <1>1 DEF InPlace

\* A sequence in place, with the next event, stays in place.
LEMMA InPlaceNext ==
    ASSUME NEW s \in Seq(Entries), NEW n \in Nat, InPlace(s, n),
           NEW e \in Entries, e.place = n + 1,
           NEW t \in Seq(Entries), Len(t) \in Nat \ {0}, t[Len(t)] = e,
           NEW d \in Nat,
           \A i \in 1 .. Len(t) - 1 : i + d \in 1 .. Len(s) /\ t[i] = s[i + d]
    PROVE  InPlace(t, n + 1)
<1>1. DOMAIN s = 1 .. Len(s) /\ DOMAIN t = 1 .. Len(t)
  BY Positions
<1>2. \A i \in DOMAIN s : s[i].place <= n /\ s[i].place \in Nat
  BY <1>1, Positions, EntryFields DEF InPlace
<1>3. \A i \in 1 .. Len(t) - 1 : t[i].place \in Nat /\ t[i].place <= n
  BY <1>1, <1>2
<1>4. \A i \in DOMAIN t : i = Len(t) \/ i \in 1 .. Len(t) - 1
  BY <1>1
<1>5. \A i \in DOMAIN t : t[i].place <= n + 1
  BY <1>3, <1>4
<1>6. ASSUME NEW i \in DOMAIN t, NEW j \in DOMAIN t, i < j
      PROVE  t[i].place < t[j].place
  <2>1. i \in 1 .. Len(t) - 1
    BY <1>1, <1>6
  <2>2. CASE j = Len(t)
    BY <1>3, <2>1, <2>2
  <2>3. CASE j \in 1 .. Len(t) - 1
    <3>1. i + d < j + d
      BY <1>1, <1>6
    <3>2. i + d \in DOMAIN s /\ j + d \in DOMAIN s /\ t[i] = s[i + d] /\ t[j] = s[j + d]
      BY <1>1, <2>1, <2>3
    <3>3. QED
      BY <3>1, <3>2 DEF InPlace
  <2>4. QED
    BY <1>4, <2>2, <2>3
<1>7. QED
  BY <1>5, <1>6 DEF InPlace

LEMMA BufferInPlace ==
    ASSUME NEW s \in Seq(Entries), Len(s) <= RingMax, NEW n \in Nat, InPlace(s, n),
           NEW e \in Entries, e.place = n + 1
    PROVE  InPlace(Trimmed(Append(s, e)), n + 1)
<1> DEFINE t == Trimmed(Append(s, e))
<1>1. t \in Seq(Entries) /\ Len(t) \in 1 .. RingMax /\ t[Len(t)] = e
      /\ \E d \in {0, 1} : \A i \in 1 .. Len(t) - 1 :
            i + d \in 1 .. Len(s) /\ t[i] = s[i + d]
  BY TrimmedInOrder
<1> HIDE DEF t
<1>2. PICK d \in {0, 1} :
         \A i \in 1 .. Len(t) - 1 : i + d \in 1 .. Len(s) /\ t[i] = s[i + d]
  BY <1>1
<1>3. d \in Nat /\ Len(t) \in Nat \ {0}
  BY <1>1, Positions
<1>4. InPlace(t, n + 1)
  BY <1>1, <1>2, <1>3, InPlaceNext
<1>5. QED
  BY <1>4 DEF t

LEMMA StreamWritten ==
    ASSUME NEW k \in ClientRecords, Len(k.pending) <= MaxPending, k.at = "open",
           NEW n \in Nat, StreamInPlace(k, n), NEW e \in Entries, e.place = n + 1
    PROVE  StreamInPlace(Written(k, << e >>), n + 1)
<1> DEFINE r == Written(k, << e >>)
           m == Len(k.pending)
<1>1. /\ r \in ClientRecords
      /\ r.at = k.at /\ r.last = k.last /\ r.heard = k.heard /\ r.got = k.got
      /\ Len(r.pending) \in {m, m + 1}
      /\ \A i \in 1 .. m : r.pending[i] = k.pending[i]
      /\ Len(r.pending) = m + 1 => r.pending[m + 1] = e
  BY WrittenOne
<1> HIDE DEF r
<1>2. k.pending \in Seq(Entries) /\ r.pending \in Seq(Entries) /\ m \in Nat
      /\ k.got \in SUBSET Nat
  BY <1>1, RecordFields, Positions
<1>3. InPlace(k.pending, n)
  BY DEF StreamInPlace
<1>4. InPlace(r.pending, n + 1)
  <2>1. CASE Len(r.pending) = m
    <3>1. \A i \in DOMAIN r.pending : i \in DOMAIN k.pending /\ r.pending[i] = k.pending[i]
      BY <1>1, <1>2, <2>1, Positions
    <3>2. InPlace(r.pending, n)
      BY <1>3, <3>1 DEF InPlace
    <3>3. QED
      BY <1>2, <3>2, InPlaceLater
  <2>2. CASE Len(r.pending) = m + 1
    <3>1. r.pending[Len(r.pending)] = e /\ Len(r.pending) \in Nat \ {0}
      BY <1>1, <1>2, <2>2
    <3>2. \A i \in 1 .. Len(r.pending) - 1 :
             i + 0 \in 1 .. Len(k.pending) /\ r.pending[i] = k.pending[i + 0]
      BY <1>1, <1>2, <2>2
    <3>3. QED
      BY <1>2, <1>3, <3>1, <3>2, InPlaceNext
  <2>3. QED
    BY <1>1, <1>2, <2>1, <2>2
<1>5. \A p \in k.got : p <= n + 1
  BY <1>2 DEF StreamInPlace
<1>6. QED
  <2>1. StreamInPlace(r, n + 1)
    BY <1>1, <1>4, <1>5 DEF StreamInPlace
  <2>2. QED
    BY <2>1 DEF r

LEMMA StreamLater ==
    ASSUME NEW k \in ClientRecords, NEW n \in Nat, StreamInPlace(k, n)
    PROVE  StreamInPlace(k, n + 1)
<1>1. k.pending \in Seq(Entries) /\ k.got \in SUBSET Nat
  BY RecordFields
<1>2. InPlace(k.pending, n + 1)
  BY <1>1, InPlaceLater DEF StreamInPlace
<1>3. \A p \in k.got : p <= n + 1
  BY <1>1 DEF StreamInPlace
<1>4. QED
  BY <1>2, <1>3 DEF StreamInPlace

LEMMA StreamBroken ==
    ASSUME NEW k \in ClientRecords, NEW n \in Nat, StreamInPlace(k, n)
    PROVE  StreamInPlace(Broken(k), n)
<1>1. InPlace(<< >>, n)
  BY DEF InPlace
<1>2. QED
  BY <1>1, BrokenFields DEF StreamInPlace

LEMMA StreamReceived ==
    ASSUME NEW k \in ClientRecords, k.pending # << >>, NEW n \in Nat, StreamInPlace(k, n)
    PROVE  StreamInPlace(Received(k), n)
<1> DEFINE r == Received(k)
           e == k.pending[1]
<1>1. /\ e \in Entries /\ 1 \in DOMAIN k.pending /\ r.at = k.at
      /\ r.got = k.got \cup {e.place} /\ r.heard # << >>
      /\ r.pending = Tail(k.pending)
  <2>1. r.pending = Tail(k.pending)
    BY DEF Received, ClientRecords
  <2>2. QED
    BY <2>1, ReceivedFields
<1> HIDE DEF r
<1>2. InPlace(k.pending, n) /\ k.at = "open"
  BY DEF StreamInPlace
<1>3. InPlace(r.pending, n)
  BY <1>1, <1>2, InPlaceTail, RecordFields
<1>4. e.place <= n
  BY <1>1, <1>2 DEF InPlace
<1>5. \A p \in r.got : p <= n
  BY <1>1, <1>4 DEF StreamInPlace
<1>6. QED
  <2>1. StreamInPlace(r, n)
    BY <1>1, <1>2, <1>3, <1>5 DEF StreamInPlace
  <2>2. QED
    BY <2>1 DEF r

\* A client whose stream has opened: what is pending is what the buffer holds
\* after its number, in place, as far as it fits; the rest is missed.
LEMMA OpenOutcome ==
    ASSUME TypeOK, Places, NEW c \in Clients, Open(c)
    PROVE  LET k == client[c]
               w == WorkerOf[c]
               r == Written(Opened(c), ReplayedTo(c))
           IN  /\ client' = [client EXCEPT ![c] = r]
               /\ r \in ClientRecords /\ Len(r.pending) <= MaxPending
               /\ r.at = "open" /\ r.last = k.last /\ r.heard = k.heard /\ r.got = k.got
               /\ k.missed \subseteq r.missed
               /\ k.at = "new" => r.first = arrived[w] + 1
               /\ k.at # "new" => r.first = k.first /\ Unrecoverable(c) \subseteq r.missed
               /\ InPlace(r.pending, arrived[w])
               /\ \A i \in DOMAIN r.pending : \E j \in DOMAIN ring[w] :
                     ring[w][j].seq > k.last /\ r.pending[i] = ring[w][j]
               /\ c \in Asks /\ k.last > 0 =>
                     \A j \in DOMAIN ring[w] : ring[w][j].seq > k.last =>
                        \/ ring[w][j].place \in r.missed
                        \/ \E i \in DOMAIN r.pending : r.pending[i] = ring[w][j]
<1> DEFINE k == client[c]
           w == WorkerOf[c]
           o == Opened(c)
           s == ReplayedTo(c)
           r == Written(o, s)
           asks == c \in Asks /\ k.last > 0
<1>1. w \in Workers /\ k \in ClientRecords /\ k.last \in Nat /\ k.at \in {"new", "away"}
  BY OpenStep, EventAssumption, RecordFields DEF TypeOK
<1>2. k.pending = << >>
  BY <1>1 DEF Places, StreamInPlace
<1>3. /\ o \in ClientRecords /\ s \in Seq(Entries)
      /\ o.at = "open" /\ o.pending = << >> /\ o.last = k.last
      /\ o.heard = k.heard /\ o.got = k.got /\ k.missed \subseteq o.missed
      /\ k.at = "new" => o.first = arrived[w] + 1
      /\ k.at # "new" => o.first = k.first /\ Unrecoverable(c) \subseteq o.missed
  BY <1>2, OpenedFields
<1>4. /\ ~asks => s = << >>
      /\ asks => s = ReplayOf(w, k.last)
  BY DEF ReplayedTo
<1>5. client' = [client EXCEPT ![c] = r]
  BY OpenStep
<1> HIDE DEF o, s
<1>6. Len(o.pending) = 0 /\ Len(o.pending) <= MaxPending
  BY <1>3, EmptySeq, EventAssumption
<1>7. /\ r \in ClientRecords /\ Len(r.pending) <= MaxPending
      /\ r.at = "open" /\ r.last = k.last /\ r.heard = k.heard /\ r.got = k.got
      /\ r.first = o.first /\ o.missed \subseteq r.missed
      /\ Len(r.pending) \in Len(o.pending) .. Len(o.pending) + Len(s)
      /\ \A i \in 1 .. Len(s) :
            IF Len(o.pending) + i <= Len(r.pending)
            THEN r.pending[Len(o.pending) + i] = s[i] ELSE s[i].place \in r.missed
  BY <1>3, <1>6, WrittenInOrder
<1> HIDE DEF r
<1>8. r.pending \in Seq(Entries) /\ Len(r.pending) \in Nat /\ Len(s) \in Nat
      /\ DOMAIN r.pending = 1 .. Len(r.pending) /\ DOMAIN s = 1 .. Len(s)
  BY <1>3, <1>7, RecordFields, Positions
<1>9. Len(r.pending) <= Len(s)
  BY <1>6, <1>7, <1>8
<1>10. \A i \in 1 .. Len(s) :
          IF i <= Len(r.pending) THEN r.pending[i] = s[i] ELSE s[i].place \in r.missed
  BY <1>6, <1>7, <1>8
<1>11. \A i \in DOMAIN r.pending : i \in DOMAIN s /\ r.pending[i] = s[i]
  BY <1>8, <1>9, <1>10
<1>12. /\ \A j \in DOMAIN s : \E i \in DOMAIN ring[w] :
             ring[w][i].seq > k.last /\ s[j] = ring[w][i]
       /\ asks => \A i \in DOMAIN ring[w] : ring[w][i].seq > k.last =>
                     \E j \in DOMAIN s : s[j] = ring[w][i]
       /\ InPlace(s, arrived[w])
  <2>1. CASE asks
    <3>1. InPlace(ring[w], arrived[w])
      BY <1>1 DEF Places
    <3>2. QED
      BY <1>1, <1>4, <2>1, <3>1, ReplayInOrder
  <2>2. CASE ~asks
    <3>1. s = << >>
      BY <1>4, <2>2
    <3>2. DOMAIN s = {}
      BY <3>1
    <3>3. QED
      BY <2>2, <3>2 DEF InPlace
  <2>3. QED
    BY <2>1, <2>2
<1>13. InPlace(r.pending, arrived[w])
  BY <1>11, <1>12 DEF InPlace
<1>14. \A i \in DOMAIN r.pending : \E j \in DOMAIN ring[w] :
          ring[w][j].seq > k.last /\ r.pending[i] = ring[w][j]
  BY <1>11, <1>12
<1>15. ASSUME asks, NEW j \in DOMAIN ring[w], ring[w][j].seq > k.last
       PROVE  \/ ring[w][j].place \in r.missed
              \/ \E i \in DOMAIN r.pending : r.pending[i] = ring[w][j]
  <2>1. PICK i \in DOMAIN s : s[i] = ring[w][j]
    BY <1>12, <1>15
  <2>2. CASE i <= Len(r.pending)
    BY <1>8, <1>10, <2>1, <2>2
  <2>3. CASE ~(i <= Len(r.pending))
    BY <1>8, <1>10, <2>1, <2>3
  <2>4. QED
    BY <2>2, <2>3
<1>16. k.missed \subseteq r.missed /\ (k.at = "new" => r.first = arrived[w] + 1)
       /\ (k.at # "new" => r.first = k.first /\ Unrecoverable(c) \subseteq r.missed)
  BY <1>3, <1>7
<1>17. QED
  BY <1>5, <1>7, <1>13, <1>14, <1>15, <1>16 DEF r, o, s

LEMMA PlacesKept ==
    ASSUME TypeOK, [Next]_vars, Places
    PROVE  Places'
<1>1. /\ client \in [Clients -> ClientRecords] /\ ring \in [Workers -> Seq(Entries)]
      /\ arrived \in [Workers -> Nat] /\ WorkerOf \in [Clients -> Workers]
      /\ \A w \in Workers : Len(ring[w]) <= RingMax
      /\ \A c \in Clients : Len(client[c].pending) <= MaxPending
  BY EventAssumption DEF TypeOK
<1>2. ASSUME NEW w \in Workers, NEW n \in Nat, NEW source \in Sources,
             RecordAndFanOut(w, n, source)
      PROVE  Places'
  <2> DEFINE e == Event(w, n, source)
  <2>1. e \in Entries /\ e.place = arrived[w] + 1
    BY <1>2, FanOut DEF Event
  <2>2. arrived'[w] = arrived[w] + 1 /\ ring'[w] = Trimmed(Append(ring[w], e))
        /\ \A v \in Workers : v # w => arrived'[v] = arrived[v] /\ ring'[v] = ring[v]
    BY <1>2, FanOut
  <2>3. \A c \in Clients : (Listens(c, w) => client'[c] = Written(client[c], << e >>))
                           /\ (~Listens(c, w) => client'[c] = client[c])
    BY <1>2, FanOut
  <2> HIDE DEF e
  <2>4. ASSUME NEW v \in Workers
        PROVE  InPlace(ring'[v], arrived'[v])
    <3>1. CASE v = w
      BY <1>1, <2>1, <2>2, <3>1, BufferInPlace DEF Places
    <3>2. CASE v # w
      BY <2>2, <3>2 DEF Places
    <3>3. QED
      BY <3>1, <3>2
  <2>5. ASSUME NEW c \in Clients
        PROVE  StreamInPlace(client'[c], arrived'[WorkerOf[c]])
    <3>1. StreamInPlace(client[c], arrived[WorkerOf[c]]) /\ client[c] \in ClientRecords
          /\ WorkerOf[c] \in Workers /\ arrived[w] \in Nat
      BY <1>1 DEF Places
    <3>2. CASE Listens(c, w)
      BY <1>1, <2>1, <2>2, <2>3, <3>1, <3>2, StreamWritten DEF Listens
    <3>3. CASE ~Listens(c, w) /\ WorkerOf[c] = w
      BY <2>2, <2>3, <3>1, <3>3, StreamLater
    <3>4. CASE ~Listens(c, w) /\ WorkerOf[c] # w
      BY <2>2, <2>3, <3>1, <3>4
    <3>5. QED
      BY <3>2, <3>3, <3>4 DEF Listens
  <2>6. QED
    BY <2>4, <2>5 DEF Places
<1>3. ASSUME NEW w \in Workers, Publish(w)
      PROVE  Places'
  BY <1>2, <1>3, PublishStep
<1>4. ASSUME NEW w \in Workers, Arrive(w)
      PROVE  Places'
  <2>1. CASE UNCHANGED << ring, arrived, client >>
    BY <2>1 DEF Places
  <2>2. QED
    BY <1>2, <1>4, <2>1, ArriveStep
<1>5. ASSUME NEW w \in Workers, RingAges(w)
      PROVE  Places'
  <2>1. ring[w] # << >> /\ ring' = [ring EXCEPT ![w] = Tail(ring[w])]
        /\ UNCHANGED << arrived, client >>
    BY <1>5 DEF RingAges
  <2>2. ASSUME NEW v \in Workers
        PROVE  InPlace(ring'[v], arrived[v])
    <3>1. CASE v = w
      <4>1. ring'[v] = Tail(ring[w])
        BY <1>1, <2>1, <3>1
      <4>2. InPlace(ring[w], arrived[w])
        BY DEF Places
      <4>3. QED
        BY <1>1, <2>1, <3>1, <4>1, <4>2, InPlaceTail
    <3>2. CASE v # w
      BY <1>1, <2>1, <3>2 DEF Places
    <3>3. QED
      BY <3>1, <3>2
  <2>3. QED
    BY <2>1, <2>2 DEF Places
<1>6. ASSUME NEW w \in Workers, Restart(w)
      PROVE  Places'
  <2>1. /\ ring' = [ring EXCEPT ![w] = << >>] /\ arrived' = arrived
        /\ \A c \in Clients : client'[c] = Broken(client[c]) \/ client'[c] = client[c]
    BY <1>6, RestartStep
  <2>2. \A v \in Workers : ring'[v] = ring[v] \/ ring'[v] = << >>
    BY <1>1, <2>1
  <2>3. \A v \in Workers : InPlace(<< >>, arrived[v])
    BY DEF InPlace
  <2>4. \A v \in Workers : InPlace(ring'[v], arrived'[v])
    BY <2>1, <2>2, <2>3 DEF Places
  <2>5. ASSUME NEW c \in Clients
        PROVE  StreamInPlace(client'[c], arrived'[WorkerOf[c]])
    <3>1. StreamInPlace(client[c], arrived[WorkerOf[c]]) /\ client[c] \in ClientRecords
          /\ arrived[WorkerOf[c]] \in Nat
      BY <1>1 DEF Places
    <3>2. StreamInPlace(Broken(client[c]), arrived[WorkerOf[c]])
      BY <3>1, StreamBroken
    <3>3. QED
      BY <2>1, <3>1, <3>2
  <2>6. QED
    BY <2>4, <2>5 DEF Places
<1>7. ASSUME NEW c \in Clients, NEW r, client' = [client EXCEPT ![c] = r],
             StreamInPlace(r, arrived[WorkerOf[c]]), UNCHANGED << ring, arrived >>
      PROVE  Places'
  <2>1. client'[c] = r /\ \A d \in Clients : d # c => client'[d] = client[d]
    BY <1>1, <1>7
  <2>2. \A d \in Clients : StreamInPlace(client'[d], arrived[WorkerOf[d]])
    BY <1>7, <2>1 DEF Places
  <2>3. QED
    BY <1>7, <2>2 DEF Places
<1>8. ASSUME NEW c \in Clients
      PROVE  /\ StreamInPlace(client[c], arrived[WorkerOf[c]]) /\ client[c] \in ClientRecords
             /\ arrived[WorkerOf[c]] \in Nat
  BY <1>1 DEF Places
<1>9. ASSUME NEW c \in Clients, Open(c)
      PROVE  Places'
  <2> DEFINE r == Written(Opened(c), ReplayedTo(c))
             n == arrived[WorkerOf[c]]
  <2>1. /\ client' = [client EXCEPT ![c] = r] /\ r.at = "open" /\ InPlace(r.pending, n)
        /\ r.last = client[c].last /\ r.heard = client[c].heard /\ r.got = client[c].got
    BY <1>9, OpenOutcome
  <2>2. UNCHANGED << ring, arrived >>
    BY <1>9, OpenStep
  <2> HIDE DEF r
  <2>3. StreamInPlace(r, n)
    BY <1>8, <2>1 DEF StreamInPlace
  <2>4. QED
    BY <1>7, <2>1, <2>2, <2>3
<1>10. ASSUME NEW c \in Clients, Receive(c)
       PROVE  Places'
  <2>1. StreamInPlace(Received(client[c]), arrived[WorkerOf[c]])
    BY <1>8, <1>10, ReceiveStep, StreamReceived
  <2>2. QED
    BY <1>7, <1>10, <2>1, ReceiveStep
<1>11. ASSUME NEW c \in Clients, Cut(c)
       PROVE  Places'
  <2>1. StreamInPlace(Broken(client[c]), arrived[WorkerOf[c]])
    BY <1>8, StreamBroken
  <2>2. QED
    BY <1>7, <1>11, <2>1, CutStep
<1>12. CASE UNCHANGED vars
  BY <1>12 DEF vars, Places
<1>13. QED
  BY <1>3, <1>4, <1>5, <1>6, <1>9, <1>10, <1>11, <1>12 DEF Next

----------------------------------------------------------------------------
(* Numbers: what a worker keeps, and what each step makes of it.           *)

\* What a worker keeps is in the buffer or pending on a stream of its own.
LEMMA KeptEntries ==
    ASSUME TypeOK, Places, NEW w \in Workers, NEW e \in Kept(w)
    PROVE  e \in Entries /\ e.place <= arrived[w]
<1>1. CASE e \in ToSet(ring[w])
  <2>1. PICK i \in DOMAIN ring[w] : e = ring[w][i]
    BY <1>1 DEF ToSet
  <2>2. ring[w] \in Seq(Entries)
    BY DEF TypeOK
  <2>3. e \in Entries
    BY <2>1, <2>2, Positions
  <2>4. QED
    BY <2>1, <2>3 DEF Places, InPlace
<1>2. CASE e \in UNION { ToSet(client[c].pending) : c \in Queued(w) }
  <2>1. PICK c \in Queued(w) : e \in ToSet(client[c].pending)
    BY <1>2
  <2>2. PICK i \in DOMAIN client[c].pending : e = client[c].pending[i]
    BY <2>1 DEF ToSet
  <2>3. c \in Clients /\ WorkerOf[c] = w /\ client[c] \in ClientRecords
    BY DEF Queued, TypeOK
  <2>4. client[c].pending \in Seq(Entries)
    BY <2>3, RecordFields
  <2>5. e \in Entries
    BY <2>2, <2>4, Positions
  <2>6. QED
    BY <2>2, <2>3, <2>5 DEF Places, StreamInPlace, InPlace
<1>3. QED
  BY <1>1, <1>2 DEF Kept

LEMMA KeptFromRing ==
    ASSUME NEW w \in Workers, NEW i \in DOMAIN ring[w]
    PROVE  ring[w][i] \in Kept(w)
  BY DEF Kept, ToSet

LEMMA KeptFromStream ==
    ASSUME NEW c \in Clients, NEW i \in DOMAIN client[c].pending
    PROVE  client[c].pending[i] \in Kept(WorkerOf[c])
<1>1. client[c].pending[i] \in ToSet(client[c].pending) /\ c \in Queued(WorkerOf[c])
  BY DEF ToSet, Queued
<1>2. QED
  BY <1>1 DEF Kept

\* Where an event a worker keeps after a step comes from.
LEMMA KeptNext ==
    ASSUME NEW w \in Workers, NEW e \in Kept(w)'
    PROVE  \/ \E i \in DOMAIN ring'[w] : e = ring'[w][i]
           \/ \E c \in Clients : WorkerOf[c] = w
                                 /\ \E i \in DOMAIN client'[c].pending : e = client'[c].pending[i]
  BY DEF Kept, ToSet, Queued

\* A step that adds nothing to what any worker keeps.
NothingNew == \A w \in Workers : \A e \in Kept(w)' : e \in Kept(w)

\* A step by which a client hears nothing, or one event its worker kept for it.
HearsKept ==
    \A c \in Clients :
        \/ client'[c].heard = client[c].heard /\ client'[c].last = client[c].last
        \/ \E e \in Kept(WorkerOf[c]) :
              /\ client'[c].heard # << >> /\ Last(client'[c].heard) = e.source
              /\ client'[c].last = e.seq

LEMMA NothingNewFrom ==
    ASSUME \A w \in Workers : \A i \in DOMAIN ring'[w] : ring'[w][i] \in Kept(w),
           \A c \in Clients : \A i \in DOMAIN client'[c].pending :
               client'[c].pending[i] \in Kept(WorkerOf[c])
    PROVE  NothingNew
  BY KeptNext DEF NothingNew

\* A client r is what becomes of k when its worker records this event: if it
\* listens, the event is pending or missed, and nothing else is new.
Gains(k, r, listens, new) ==
    /\ \A e \in ToSet(r.pending) : e \in ToSet(k.pending) \/ (listens /\ e = new)
    /\ ToSet(k.pending) \subseteq ToSet(r.pending)
    /\ listens => new \in ToSet(r.pending) \/ new.place \in r.missed
    /\ r.at = k.at /\ r.last = k.last /\ r.heard = k.heard
    /\ r.got = k.got /\ r.first = k.first /\ k.missed \subseteq r.missed

\* A recorded event is the only one that may be new in its worker's buffer, and
\* on the streams open at it, where it is pending or missed.
LEMMA FanOutEntries ==
    ASSUME TypeOK, NEW w \in Workers, NEW n \in Nat, NEW source \in Sources,
           RecordAndFanOut(w, n, source)
    PROVE  LET new == Event(w, n, source)
           IN  /\ \A v \in Workers : \A e \in ToSet(ring'[v]) :
                     e \in ToSet(ring[v]) \/ (v = w /\ e = new)
               /\ \A c \in Clients : Gains(client[c], client'[c], Listens(c, w), new)
<1> DEFINE new == Event(w, n, source)
<1>1. /\ client \in [Clients -> ClientRecords] /\ ring \in [Workers -> Seq(Entries)]
      /\ \A v \in Workers : Len(ring[v]) <= RingMax
      /\ \A c \in Clients : Len(client[c].pending) <= MaxPending
  BY DEF TypeOK
<1>2. new \in Entries /\ ring'[w] = Trimmed(Append(ring[w], new))
      /\ \A v \in Workers : v # w => ring'[v] = ring[v]
  BY FanOut
<1>3. \A c \in Clients : (Listens(c, w) => client'[c] = Written(client[c], << new >>))
                         /\ (~Listens(c, w) => client'[c] = client[c])
  BY FanOut
<1> HIDE DEF new
<1>4. ASSUME NEW v \in Workers, NEW e \in ToSet(ring'[v])
      PROVE  e \in ToSet(ring[v]) \/ (v = w /\ e = new)
  <2>1. CASE v # w
    BY <1>2, <1>4, <2>1
  <2>2. CASE v = w
    <3> DEFINE t == Trimmed(Append(ring[w], new))
    <3>1. /\ t \in Seq(Entries) /\ Len(t) \in 1 .. RingMax /\ t[Len(t)] = new
          /\ \E d \in {0, 1} : \A j \in 1 .. Len(t) - 1 :
                j + d \in 1 .. Len(ring[w]) /\ t[j] = ring[w][j + d]
      BY <1>1, <1>2, TrimmedInOrder
    <3>2. ring'[w] = t
      BY <1>2
    <3> HIDE DEF t
    <3>3. DOMAIN ring[w] = 1 .. Len(ring[w]) /\ DOMAIN t = 1 .. Len(t)
      BY <1>1, <3>1, Positions
    <3>4. PICK i \in DOMAIN t : e = t[i]
      BY <1>4, <2>2, <3>2 DEF ToSet
    <3>5. i = Len(t) \/ i \in 1 .. Len(t) - 1
      BY <3>1, <3>3, <3>4
    <3>6. CASE i = Len(t)
      BY <2>2, <3>1, <3>4, <3>6
    <3>7. CASE i \in 1 .. Len(t) - 1
      <4>1. PICK j \in DOMAIN ring[w] : t[i] = ring[w][j]
        BY <3>1, <3>3, <3>7
      <4>2. QED
        BY <2>2, <3>4, <4>1 DEF ToSet
    <3>8. QED
      BY <3>5, <3>6, <3>7
  <2>3. QED
    BY <2>1, <2>2
<1>5. ASSUME NEW c \in Clients
      PROVE  Gains(client[c], client'[c], Listens(c, w), new)
  <2>1. CASE ~Listens(c, w)
    BY <1>3, <2>1 DEF Gains
  <2>2. CASE Listens(c, w)
    <3> DEFINE k == client[c]
               m == Len(k.pending)
               r == Written(k, << new >>)
    <3>1. /\ r \in ClientRecords
          /\ r.at = k.at /\ r.last = k.last /\ r.heard = k.heard
          /\ r.got = k.got /\ r.first = k.first /\ k.missed \subseteq r.missed
          /\ Len(r.pending) \in {m, m + 1}
          /\ \A j \in 1 .. m : r.pending[j] = k.pending[j]
          /\ Len(r.pending) = m => new.place \in r.missed
          /\ Len(r.pending) = m + 1 => r.pending[m + 1] = new
      BY <1>1, <1>2, WrittenOne
    <3>2. client'[c] = r
      BY <1>3, <2>2
    <3> HIDE DEF r
    <3>3. k.pending \in Seq(Entries) /\ r.pending \in Seq(Entries)
      BY <1>1, <3>1, RecordFields
    <3>4. DOMAIN k.pending = 1 .. m /\ DOMAIN r.pending = 1 .. Len(r.pending) /\ m \in Nat
      BY <3>3, Positions
    <3> HIDE DEF m
    <3>5. \A i \in DOMAIN k.pending : i \in DOMAIN r.pending /\ r.pending[i] = k.pending[i]
      BY <3>1, <3>4
    <3>6. \A i \in DOMAIN r.pending : i \in DOMAIN k.pending \/ r.pending[i] = new
      BY <3>1, <3>4
    <3>7. Len(r.pending) = m + 1 => m + 1 \in DOMAIN r.pending
      BY <3>4
    <3>8. new \in ToSet(r.pending) \/ new.place \in r.missed
      BY <3>1, <3>7 DEF ToSet
    <3>9. ToSet(k.pending) \subseteq ToSet(r.pending)
      BY <3>5 DEF ToSet
    <3>10. \A e \in ToSet(r.pending) : e \in ToSet(k.pending) \/ e = new
      BY <3>5, <3>6 DEF ToSet
    <3>11. QED
      BY <2>2, <3>1, <3>2, <3>8, <3>9, <3>10 DEF Gains
  <2>3. QED
    BY <2>1, <2>2
<1>6. QED
  BY <1>4, <1>5 DEF new

\* Of a recorded event: the worker keeps it and otherwise only what it kept.
LEMMA FanOutKept ==
    ASSUME TypeOK, NEW w \in Workers, NEW n \in Nat, NEW source \in Sources,
           RecordAndFanOut(w, n, source)
    PROVE  /\ \A v \in Workers : \A e \in Kept(v)' :
                 e \in Kept(v) \/ (v = w /\ e = Event(w, n, source))
           /\ HearsKept
<1> DEFINE new == Event(w, n, source)
<1>1. \A v \in Workers : \A e \in ToSet(ring'[v]) : e \in ToSet(ring[v]) \/ (v = w /\ e = new)
  BY FanOutEntries
<1>2. \A c \in Clients : Gains(client[c], client'[c], Listens(c, w), new)
  BY FanOutEntries
<1> HIDE DEF new
<1>3. \A v \in Workers : \A e \in Kept(v)' : e \in Kept(v) \/ (v = w /\ e = new)
  <2> SUFFICES ASSUME NEW v \in Workers, NEW e \in Kept(v)'
               PROVE  e \in Kept(v) \/ (v = w /\ e = new)
    OBVIOUS
  <2>1. CASE e \in ToSet(ring'[v])
    BY <1>1, <2>1 DEF Kept
  <2>2. CASE \E c \in Queued(v) : e \in ToSet(client'[c].pending)
    BY <1>2, <2>2 DEF Kept, Queued, Listens, Gains
  <2>3. QED
    BY <2>1, <2>2 DEF Kept, Queued
<1>4. HearsKept
  BY <1>2 DEF HearsKept, Gains
<1>5. QED
  BY <1>3, <1>4 DEF new

\* A buffer gains an entry only when its worker records an event.
LEMMA RingShrinks ==
    ASSUME TypeOK,
           \/ \E w \in Workers : RingAges(w) \/ Restart(w)
           \/ \E c \in Clients : Open(c) \/ Receive(c) \/ Cut(c)
    PROVE  \A v \in Workers : ToSet(ring'[v]) \subseteq ToSet(ring[v])
<1>1. ring \in [Workers -> Seq(Entries)]
  BY DEF TypeOK
<1>2. ASSUME NEW w \in Workers, RingAges(w)
      PROVE  \A v \in Workers : ToSet(ring'[v]) \subseteq ToSet(ring[v])
  <2> DEFINE t == Tail(ring[w])
  <2>1. ring[w] # << >> /\ ring' = [ring EXCEPT ![w] = t]
    BY <1>2 DEF RingAges
  <2>2. t \in Seq(Entries) /\ Len(t) = Len(ring[w]) - 1
        /\ \A j \in 1 .. Len(t) : t[j] = ring[w][j + 1]
    BY <1>1, <2>1, HeadTailProperties
  <2> HIDE DEF t
  <2>3. DOMAIN t = 1 .. Len(t) /\ DOMAIN ring[w] = 1 .. Len(ring[w]) /\ Len(ring[w]) \in Nat
    BY <1>1, <2>2, Positions
  <2>4. \A i \in DOMAIN t : i + 1 \in DOMAIN ring[w] /\ t[i] = ring[w][i + 1]
    BY <2>2, <2>3
  <2>5. ToSet(t) \subseteq ToSet(ring[w])
    BY <2>4 DEF ToSet
  <2>6. \A v \in Workers : ring'[v] = ring[v] \/ (v = w /\ ring'[v] = t)
    BY <1>1, <2>1
  <2>7. QED
    BY <2>5, <2>6
<1>3. ASSUME NEW w \in Workers, Restart(w)
      PROVE  \A v \in Workers : ToSet(ring'[v]) \subseteq ToSet(ring[v])
  <2>1. \A v \in Workers : ring'[v] = ring[v] \/ ring'[v] = << >>
    BY <1>1, <1>3, RestartStep
  <2>2. ToSet(<< >>) = {}
    BY DEF ToSet
  <2>3. QED
    BY <2>1, <2>2
<1>4. CASE \E c \in Clients : Open(c) \/ Receive(c) \/ Cut(c)
  BY <1>4, OpenStep, ReceiveStep, CutStep
<1>5. QED
  BY <1>2, <1>3, <1>4

\* One client's record replaced by one that keeps nothing new.
LEMMA ReplacedKept ==
    ASSUME TypeOK, NEW c \in Clients, NEW r, client' = [client EXCEPT ![c] = r],
           UNCHANGED ring,
           \A i \in DOMAIN r.pending : r.pending[i] \in Kept(WorkerOf[c]),
           \/ r.heard = client[c].heard /\ r.last = client[c].last
           \/ \E e \in Kept(WorkerOf[c]) :
                 r.heard # << >> /\ Last(r.heard) = e.source /\ r.last = e.seq
    PROVE  NothingNew /\ HearsKept
<1>1. client'[c] = r /\ \A d \in Clients : d # c => client'[d] = client[d]
  BY DEF TypeOK
<1>2. ASSUME NEW d \in Clients, NEW i \in DOMAIN client'[d].pending
      PROVE  client'[d].pending[i] \in Kept(WorkerOf[d])
  BY <1>1, <1>2, KeptFromStream
<1>3. \A w \in Workers : \A i \in DOMAIN ring'[w] : ring'[w][i] \in Kept(w)
  BY KeptFromRing
<1>4. NothingNew
  BY <1>2, <1>3, NothingNewFrom
<1>5. HearsKept
  BY <1>1 DEF HearsKept
<1>6. QED
  BY <1>4, <1>5

\* Every step but a recording adds nothing to what the workers keep.
LEMMA QuietSteps ==
    ASSUME TypeOK, Places,
           \/ \E w \in Workers : RingAges(w) \/ Restart(w)
           \/ \E c \in Clients : Open(c) \/ Receive(c) \/ Cut(c)
    PROVE  NothingNew /\ HearsKept
<1>1. client \in [Clients -> ClientRecords] /\ ring \in [Workers -> Seq(Entries)]
      /\ WorkerOf \in [Clients -> Workers]
  BY EventAssumption DEF TypeOK
<1>2. ASSUME NEW w \in Workers, RingAges(w)
      PROVE  NothingNew /\ HearsKept
  <2>1. client' = client
    BY <1>2 DEF RingAges
  <2>2. \A v \in Workers : ToSet(ring'[v]) \subseteq ToSet(ring[v])
    BY <1>2, RingShrinks
  <2>3. NothingNew
    BY <2>1, <2>2 DEF NothingNew, Kept, Queued
  <2>4. QED
    BY <2>1, <2>3 DEF HearsKept
<1>3. ASSUME NEW w \in Workers, Restart(w)
      PROVE  NothingNew /\ HearsKept
  <2>1. \A c \in Clients : client'[c] = Broken(client[c]) \/ client'[c] = client[c]
    BY <1>3, RestartStep
  <2>2. \A c \in Clients : Broken(client[c]).pending = << >>
           /\ Broken(client[c]).heard = client[c].heard
           /\ Broken(client[c]).last = client[c].last
    BY <1>1, BrokenFields
  <2>3. \A v \in Workers : ToSet(ring'[v]) \subseteq ToSet(ring[v])
    BY <1>3, RingShrinks
  <2>4. \A c \in Clients : ToSet(client'[c].pending) \subseteq ToSet(client[c].pending)
    BY <2>1, <2>2 DEF ToSet
  <2>5. NothingNew
    BY <2>3, <2>4 DEF NothingNew, Kept, Queued
  <2>6. HearsKept
    BY <2>1, <2>2 DEF HearsKept
  <2>7. QED
    BY <2>5, <2>6
<1>4. ASSUME NEW c \in Clients, Open(c)
      PROVE  NothingNew /\ HearsKept
  <2> DEFINE r == Written(Opened(c), ReplayedTo(c))
  <2>1. /\ client' = [client EXCEPT ![c] = r]
        /\ r.last = client[c].last /\ r.heard = client[c].heard
        /\ \A i \in DOMAIN r.pending : \E j \in DOMAIN ring[WorkerOf[c]] :
              r.pending[i] = ring[WorkerOf[c]][j]
    BY <1>4, OpenOutcome
  <2>2. UNCHANGED ring
    BY <1>4, OpenStep
  <2> HIDE DEF r
  <2>3. \A i \in DOMAIN r.pending : r.pending[i] \in Kept(WorkerOf[c])
    BY <1>1, <2>1, KeptFromRing
  <2>4. QED
    BY <2>1, <2>2, <2>3, ReplacedKept
<1>5. ASSUME NEW c \in Clients, Receive(c)
      PROVE  NothingNew /\ HearsKept
  <2> DEFINE k == client[c]
             r == Received(k)
  <2>1. client' = [client EXCEPT ![c] = r] /\ k.pending # << >> /\ UNCHANGED ring
    BY <1>5, ReceiveStep
  <2>2. k \in ClientRecords
    BY <1>1
  <2>3. /\ 1 \in DOMAIN k.pending /\ r \in ClientRecords
        /\ Len(r.pending) = Len(k.pending) - 1
        /\ \A i \in 1 .. Len(r.pending) : r.pending[i] = k.pending[i + 1]
        /\ r.last = k.pending[1].seq /\ r.heard # << >>
        /\ Last(r.heard) = k.pending[1].source
    BY <2>1, <2>2, ReceivedFields
  <2> HIDE DEF r
  <2>4. /\ DOMAIN k.pending = 1 .. Len(k.pending) /\ DOMAIN r.pending = 1 .. Len(r.pending)
        /\ Len(k.pending) \in Nat
    BY <2>2, <2>3, RecordFields, Positions
  <2>5. ASSUME NEW i \in DOMAIN r.pending
        PROVE  r.pending[i] \in Kept(WorkerOf[c])
    <3>1. i + 1 \in DOMAIN k.pending /\ r.pending[i] = k.pending[i + 1]
      BY <2>3, <2>4, <2>5
    <3>2. QED
      BY <3>1, KeptFromStream
  <2>6. k.pending[1] \in Kept(WorkerOf[c])
    BY <2>3, KeptFromStream
  <2>7. QED
    BY <2>1, <2>3, <2>5, <2>6, ReplacedKept
<1>6. ASSUME NEW c \in Clients, Cut(c)
      PROVE  NothingNew /\ HearsKept
  <2> DEFINE r == Broken(client[c])
  <2>1. client' = [client EXCEPT ![c] = r] /\ UNCHANGED ring
    BY <1>6, CutStep
  <2>2. r.pending = << >> /\ r.heard = client[c].heard /\ r.last = client[c].last
    BY <1>1, BrokenFields
  <2> HIDE DEF r
  <2>3. \A i \in DOMAIN r.pending : r.pending[i] \in Kept(WorkerOf[c])
    BY <2>2
  <2>4. QED
    BY <2>1, <2>2, <2>3, ReplacedKept
<1>7. QED
  BY <1>2, <1>3, <1>4, <1>5, <1>6

\* No step takes back a number.
IssuedStays == \A source \in Sources, n \in Nat : Issued(source, n) => Issued(source, n)'

LEMMA IssuedKept ==
    ASSUME TypeOK, [Next]_vars
    PROVE  IssuedStays
<1> SUFFICES ASSUME NEW source \in Sources, NEW n \in Nat, Issued(source, n)
             PROVE  Issued(source, n)'
  BY DEF IssuedStays
<1> DEFINE v == source[1]
           r == source[2]
<1>1. v \in Workers /\ r \in Nat /\ seq[v] \in Nat /\ run[v] \in Nat
  BY DEF Sources, TypeOK
<1>2. r <= run[v] /\ (r = run[v] => n <= seq[v])
  BY DEF Issued
<1>3. r <= run'[v] /\ (r = run'[v] => n <= seq'[v])
  <2>1. CASE UNCHANGED << seq, run >>
    BY <1>2, <2>1
  <2>2. ASSUME NEW w \in Workers, Publish(w)
        PROVE  r <= run'[v] /\ (r = run'[v] => n <= seq'[v])
    <3>1. seq' = [seq EXCEPT ![w] = @ + 1] /\ run' = run
      BY <2>2, PublishStep
    <3>2. seq'[v] = seq[v] \/ seq'[v] = seq[v] + 1
      BY <1>1, <3>1 DEF TypeOK
    <3>3. QED
      BY <1>1, <1>2, <3>1, <3>2
  <2>3. ASSUME NEW w \in Workers, Restart(w)
        PROVE  r <= run'[v] /\ (r = run'[v] => n <= seq'[v])
    <3>1. seq' = [seq EXCEPT ![w] = 0] /\ run' = [run EXCEPT ![w] = @ + 1]
      BY <2>3, RestartStep
    <3>2. CASE v # w
      BY <1>1, <1>2, <3>1, <3>2 DEF TypeOK
    <3>3. CASE v = w
      <4>1. run'[v] = run[v] + 1
        BY <1>1, <3>1, <3>3 DEF TypeOK
      <4>2. QED
        BY <1>1, <1>2, <4>1
    <3>4. QED
      BY <3>2, <3>3
  <2>4. \/ UNCHANGED << seq, run >>
        \/ \E w \in Workers : Publish(w) \/ Restart(w)
    BY DEF Next, vars, Arrive, RingAges, Open, Receive, Cut
  <2>5. QED
    BY <2>1, <2>2, <2>3, <2>4
<1>4. QED
  BY <1>3 DEF Issued

LEMMA LastIssuedKept ==
    ASSUME TypeOK, Places, LastIssued, Numbers, IssuedStays, HearsKept
    PROVE  LastIssued'
<1> SUFFICES ASSUME NEW c \in Clients, client'[c].heard # << >>
             PROVE  \E source, n : source = Last(client'[c].heard) /\ n = client'[c].last
                                   /\ Issued(source, n)'
  BY DEF LastIssued
<1>1. WorkerOf[c] \in Workers /\ client[c] \in ClientRecords
  BY EventAssumption DEF TypeOK
<1>2. CASE client'[c].heard = client[c].heard /\ client'[c].last = client[c].last
  <2> DEFINE h == client[c].heard
  <2>1. h \in Seq(Sources) /\ h # << >> /\ client[c].last \in Nat
    BY <1>1, <1>2, RecordFields
  <2>2. Last(h) \in Sources
    BY <2>1, Positions, EmptySeq DEF Last
  <2>3. Issued(Last(h), client[c].last)
    BY <2>1 DEF LastIssued
  <2>4. PICK source \in Sources, n \in Nat : source = Last(h) /\ n = client[c].last
    BY <2>1, <2>2
  <2>5. Issued(source, n)'
    BY <2>3, <2>4 DEF IssuedStays
  <2>6. QED
    BY <1>2, <2>4, <2>5
<1>3. CASE \E e \in Kept(WorkerOf[c]) :
              Last(client'[c].heard) = e.source /\ client'[c].last = e.seq
  <2>1. PICK e \in Kept(WorkerOf[c]) :
           Last(client'[c].heard) = e.source /\ client'[c].last = e.seq
    BY <1>3
  <2>2. Issued(e.source, e.seq) /\ e.source \in Sources /\ e.seq \in Nat
    BY <1>1, KeptEntries, EntryFields DEF Numbers
  <2>3. PICK source \in Sources, n \in Nat : source = e.source /\ n = e.seq
    BY <2>2
  <2>4. Issued(source, n)'
    BY <2>2, <2>3 DEF IssuedStays
  <2>5. QED
    BY <2>1, <2>3, <2>4
<1>4. QED
  BY <1>2, <1>3 DEF HearsKept

\* A worker keeps what it kept, and perhaps a new event, numbered after all of
\* its source that is kept.
LEMMA NumbersKept ==
    ASSUME TypeOK, Places, Numbers, IssuedStays,
           NEW w \in Workers, NEW new \in Entries, new.place = arrived[w] + 1,
           Issued(new.source, new.seq)',
           \A f \in Kept(w) : f.source = new.source => f.seq < new.seq,
           \A v \in Workers : \A e \in Kept(v)' : e \in Kept(v) \/ (v = w /\ e = new)
    PROVE  Numbers'
<1>1. ASSUME NEW v \in Workers, NEW e \in Kept(v)'
      PROVE  Issued(e.source, e.seq)'
  <2>1. CASE e \in Kept(v)
    <3>1. Issued(e.source, e.seq) /\ e.source \in Sources /\ e.seq \in Nat
      BY <2>1, KeptEntries, EntryFields DEF Numbers
    <3>2. QED
      BY <3>1 DEF IssuedStays
  <2>2. CASE e = new
    BY <2>2
  <2>3. QED
    BY <1>1, <2>1, <2>2
<1>2. ASSUME NEW v \in Workers, NEW e \in Kept(v)', NEW f \in Kept(v)'
      PROVE  Consistent(e, f)
  <2>1. CASE e \in Kept(v) /\ f \in Kept(v)
    BY <2>1 DEF Numbers
  <2>2. CASE e \in Kept(v) /\ f = new /\ v = w
    <3>1. e \in Entries /\ e.place <= arrived[w] /\ (e.source = new.source => e.seq < new.seq)
      BY <2>2, KeptEntries
    <3>2. e.place \in Nat /\ arrived[w] \in Nat
      BY <3>1, EntryFields DEF TypeOK
    <3>3. e.place < new.place
      BY <3>1, <3>2
    <3>4. QED
      BY <2>2, <3>1, <3>2, <3>3 DEF Consistent
  <2>3. CASE e = new /\ f \in Kept(v) /\ v = w
    <3>1. f \in Entries /\ f.place <= arrived[w]
      BY <2>3, KeptEntries
    <3>2. f.place \in Nat /\ arrived[w] \in Nat
      BY <3>1, EntryFields DEF TypeOK
    <3>3. e.place # f.place /\ ~(e.place < f.place)
      BY <2>3, <3>1, <3>2
    <3>4. QED
      BY <3>3 DEF Consistent
  <2>4. CASE e = new /\ f = new
    <3>1. ~(e.place < f.place)
      BY <2>4 DEF TypeOK
    <3>2. QED
      BY <2>4, <3>1 DEF Consistent
  <2>5. QED
    BY <1>2, <2>1, <2>2, <2>3, <2>4
<1>3. QED
  BY <1>1, <1>2 DEF Numbers

LEMMA NumbersQuiet ==
    ASSUME TypeOK, Places, Numbers, IssuedStays, NothingNew
    PROVE  Numbers'
<1>1. ASSUME NEW v \in Workers, NEW e \in Kept(v)'
      PROVE  Issued(e.source, e.seq)'
  <2>1. e \in Kept(v)
    BY <1>1 DEF NothingNew
  <2>2. Issued(e.source, e.seq) /\ e.source \in Sources /\ e.seq \in Nat
    BY <2>1, KeptEntries, EntryFields DEF Numbers
  <2>3. QED
    BY <2>2 DEF IssuedStays
<1>2. ASSUME NEW v \in Workers, NEW e \in Kept(v)', NEW f \in Kept(v)'
      PROVE  Consistent(e, f)
  BY <1>2 DEF Numbers, NothingNew
<1>3. QED
  BY <1>1, <1>2 DEF Numbers

\* A number stays later than all a worker has of its source, unless the worker
\* records a later one.
LEMMA AfterStays ==
    ASSUME TypeOK, IssuedStays, HearsKept,
           NEW v \in Workers, NEW n \in Nat, NEW source \in Sources, After(v, n, source),
           \A e \in Kept(v)' : e \in Kept(v) \/ (e.source = source => e.seq < n)
    PROVE  After(v, n, source)'
<1>1. source[1] # v /\ Issued(source, n)'
  BY DEF After, IssuedStays
<1>2. \A e \in Kept(v)' : e.source = source => e.seq < n
  BY DEF After
<1>3. ASSUME NEW c \in Queued(v), client'[c].heard # << >>, Last(client'[c].heard) = source
      PROVE  client'[c].last < n
  <2>1. c \in Clients /\ WorkerOf[c] = v
    BY DEF Queued
  <2>2. CASE client'[c].heard = client[c].heard /\ client'[c].last = client[c].last
    BY <1>3, <2>2 DEF After
  <2>3. CASE \E e \in Kept(WorkerOf[c]) :
                Last(client'[c].heard) = e.source /\ client'[c].last = e.seq
    BY <1>3, <2>1, <2>3 DEF After
  <2>4. QED
    BY <2>1, <2>2, <2>3 DEF HearsKept
<1>4. QED
  BY <1>1, <1>2, <1>3 DEF After, Queued

\* The entries of a channel.
LEMMA ChannelFields ==
    ASSUME TypeOK, NEW w \in Workers
    PROVE  /\ channel[w] \in Seq(Nat \X Sources) /\ Len(channel[w]) \in Nat
           /\ DOMAIN channel[w] = 1 .. Len(channel[w])
           /\ \A i \in DOMAIN channel[w] : channel[w][i][1] \in Nat /\ channel[w][i][2] \in Sources
           /\ \A m \in ToSet(channel[w]) : m[1] \in Nat /\ m[2] \in Sources
<1>1. channel[w] \in Seq(Nat \X Sources)
  BY DEF TypeOK
<1>2. Len(channel[w]) \in Nat /\ DOMAIN channel[w] = 1 .. Len(channel[w])
      /\ \A i \in 1 .. Len(channel[w]) : channel[w][i] \in Nat \X Sources
  BY <1>1, Positions
<1>3. \A m \in ToSet(channel[w]) : m \in Nat \X Sources
  BY <1>2 DEF ToSet
<1>4. QED
  BY <1>1, <1>2, <1>3

\* What a worker numbers next comes after all it has sent out.
LEMMA NextNumber ==
    ASSUME TypeOK, Places, Numbers, LastIssued, Channels, NEW w \in Workers,
           NEW v \in Workers
    PROVE  /\ \A e \in Kept(v) : e.source = << w, run[w] >> => e.seq < seq[w] + 1
           /\ \A c \in Clients :
                 client[c].heard # << >> /\ Last(client[c].heard) = << w, run[w] >>
                    => client[c].last < seq[w] + 1
           /\ \A m \in ToSet(channel[v]) : m[2] = << w, run[w] >> => m[1] < seq[w] + 1
<1>1. seq[w] \in Nat
  BY DEF TypeOK
<1>2. ASSUME NEW n \in Nat, Issued(<< w, run[w] >>, n)
      PROVE  n < seq[w] + 1
  BY <1>1, <1>2 DEF Issued
<1>3. ASSUME NEW e \in Kept(v), e.source = << w, run[w] >>
      PROVE  e.seq < seq[w] + 1
  <2>1. e.seq \in Nat
    BY KeptEntries, EntryFields
  <2>2. Issued(e.source, e.seq)
    BY DEF Numbers
  <2>3. QED
    BY <1>2, <1>3, <2>1, <2>2
<1>4. ASSUME NEW c \in Clients, client[c].heard # << >>,
             Last(client[c].heard) = << w, run[w] >>
      PROVE  client[c].last < seq[w] + 1
  <2>1. client[c].last \in Nat
    BY RecordFields DEF TypeOK
  <2>2. Issued(Last(client[c].heard), client[c].last)
    BY <1>4 DEF LastIssued
  <2>3. QED
    BY <1>2, <1>4, <2>1, <2>2
<1>5. ASSUME NEW m \in ToSet(channel[v]), m[2] = << w, run[w] >>
      PROVE  m[1] < seq[w] + 1
  <2>1. m[1] \in Nat
    BY ChannelFields
  <2>2. Issued(m[2], m[1])
    BY DEF Channels, After
  <2>3. QED
    BY <1>2, <1>5, <2>1, <2>2
<1>6. QED
  BY <1>3, <1>4, <1>5

\* A notification still on its way stays later than what its worker has, in a
\* step that records nothing of its source.
LEMMA NotificationStays ==
    ASSUME TypeOK, Channels, IssuedStays, HearsKept, NEW v \in Workers,
           NEW m \in ToSet(channel[v]),
           \A e \in Kept(v)' : e \in Kept(v) \/ (e.source = m[2] => e.seq < m[1])
    PROVE  After(v, m[1], m[2])'
<1>1. PICK n \in Nat, source \in Sources : n = m[1] /\ source = m[2]
  BY ChannelFields
<1>2. After(v, n, source)
  BY <1>1 DEF Channels
<1>3. \A e \in Kept(v)' : e \in Kept(v) \/ (e.source = source => e.seq < n)
  BY <1>1
<1>4. After(v, n, source)'
  BY <1>2, <1>3, AfterStays
<1>5. QED
  BY <1>1, <1>4

LEMMA PublishChannels ==
    ASSUME Ordered, IssuedStays, NEW w \in Workers, Publish(w)
    PROVE  Channels'
<1> USE DEF Ordered
<1>1. /\ RecordAndFanOut(w, seq[w] + 1, << w, run[w] >>)
      /\ seq' = [seq EXCEPT ![w] = @ + 1] /\ run' = run
      /\ channel' = [v \in Workers |->
                        IF v = w THEN channel[v]
                        ELSE Append(channel[v], << seq[w] + 1, << w, run[w] >> >>)]
  BY PublishStep
<1>2. PICK n \in Nat, source \in Sources : n = seq[w] + 1 /\ source = << w, run[w] >>
  BY PublishStep
<1>3. /\ \A v \in Workers : \A e \in Kept(v)' :
            e \in Kept(v) \/ (v = w /\ e = Event(w, n, source))
      /\ HearsKept
  BY <1>1, <1>2, FanOutKept
<1>4. Issued(source, n)'
  <2>1. run[w] \in Nat /\ seq'[w] = seq[w] + 1 /\ n <= n
    BY <1>1 DEF TypeOK
  <2>2. source[1] = w /\ source[2] = run[w]
    BY <1>2
  <2>3. QED
    BY <1>1, <1>2, <2>1, <2>2 DEF Issued
<1>5. ASSUME NEW v \in Workers
      PROVE  (\A m \in ToSet(channel'[v]) : After(v, m[1], m[2])') /\ Increasing(channel'[v])
  <2>1. /\ channel[v] \in Seq(Nat \X Sources) /\ Len(channel[v]) \in Nat
        /\ DOMAIN channel[v] = 1 .. Len(channel[v])
    BY ChannelFields
  <2>2. Increasing(channel[v])
    BY DEF Channels
  <2>3. CASE v = w
    <3>1. channel'[v] = channel[v]
      BY <1>1, <2>3
    <3>2. ASSUME NEW m \in ToSet(channel[v])
          PROVE  After(v, m[1], m[2])'
      <4>1. m[2][1] # w
        BY <2>3 DEF Channels, After
      <4>2. Event(w, n, source).source[1] = w
        BY <1>2 DEF Event
      <4>3. \A e \in Kept(v)' : e \in Kept(v) \/ (e.source = m[2] => e.seq < m[1])
        BY <1>3, <4>1, <4>2
      <4>4. QED
        BY <1>3, <4>3, NotificationStays
    <3>3. QED
      BY <2>2, <3>1, <3>2
  <2>4. CASE v # w
    <3> DEFINE new == << n, source >>
    <3>1. \A e \in Kept(v)' : e \in Kept(v)
      BY <1>3, <2>4
    <3>2. channel'[v] = Append(channel[v], new) /\ new \in Nat \X Sources
      BY <1>1, <1>2, <2>4
    <3>3. new[1] = n /\ new[2] = source
      OBVIOUS
    <3> HIDE DEF new
    <3>4. /\ channel'[v] \in Seq(Nat \X Sources)
          /\ Len(channel'[v]) = Len(channel[v]) + 1
          /\ \A i \in 1 .. Len(channel[v]) : channel'[v][i] = channel[v][i]
          /\ channel'[v][Len(channel[v]) + 1] = new
      BY <2>1, <3>2, AppendProperties
    <3>5. DOMAIN channel'[v] = 1 .. Len(channel[v]) + 1
      BY <3>4, Positions
    <3>6. \A i \in DOMAIN channel'[v] :
             \/ i \in DOMAIN channel[v] /\ channel'[v][i] = channel[v][i]
             \/ i = Len(channel[v]) + 1 /\ channel'[v][i] = new
      BY <2>1, <3>4, <3>5
    <3>7. /\ \A e \in Kept(v) : e.source = source => e.seq < n
          /\ \A c \in Clients : client[c].heard # << >> /\ Last(client[c].heard) = source
                                  => client[c].last < n
          /\ \A m \in ToSet(channel[v]) : m[2] = source => m[1] < n
      BY <1>2, NextNumber
    <3>8. After(v, n, source)'
      <4>1. source[1] # v
        BY <1>2, <2>4
      <4>2. \A c \in Clients : client'[c].heard # << >> /\ Last(client'[c].heard) = source
                /\ WorkerOf[c] = v => client'[c].last < n
        <5> SUFFICES ASSUME NEW c \in Clients, client'[c].heard # << >>, WorkerOf[c] = v,
                            Last(client'[c].heard) = source
                     PROVE  client'[c].last < n
          OBVIOUS
        <5>1. CASE client'[c].heard = client[c].heard /\ client'[c].last = client[c].last
          BY <3>7, <5>1
        <5>2. CASE \E e \in Kept(WorkerOf[c]) :
                      Last(client'[c].heard) = e.source /\ client'[c].last = e.seq
          BY <3>7, <5>2
        <5>3. QED
          BY <1>3, <5>1, <5>2 DEF HearsKept
      <4>3. QED
        BY <1>4, <3>1, <3>7, <4>1, <4>2 DEF After, Queued
    <3>9. ASSUME NEW m \in ToSet(channel'[v])
          PROVE  After(v, m[1], m[2])'
      <4>1. CASE m \in ToSet(channel[v])
        BY <1>3, <3>1, <4>1, NotificationStays
      <4>2. CASE m = new
        BY <3>3, <3>8, <4>2
      <4>3. m \in ToSet(channel[v]) \/ m = new
        BY <3>6, <3>9 DEF ToSet
      <4>4. QED
        BY <4>1, <4>2, <4>3
    <3>10. ASSUME NEW i \in DOMAIN channel'[v], NEW j \in DOMAIN channel'[v],
                  i < j, channel'[v][i][2] = channel'[v][j][2]
           PROVE  channel'[v][i][1] < channel'[v][j][1]
      <4>1. i \in DOMAIN channel[v] /\ channel'[v][i] = channel[v][i]
        BY <2>1, <3>5, <3>6, <3>10
      <4>2. CASE j \in DOMAIN channel[v] /\ channel'[v][j] = channel[v][j]
        BY <2>2, <3>10, <4>1, <4>2 DEF Increasing
      <4>3. CASE channel'[v][j] = new
        <5>1. channel[v][i] \in ToSet(channel[v]) /\ channel[v][i][2] = source
          BY <3>3, <3>10, <4>1, <4>3 DEF ToSet
        <5>2. QED
          BY <3>3, <3>7, <4>1, <4>3, <5>1
      <4>4. QED
        BY <3>6, <4>2, <4>3
    <3>11. QED
      BY <3>9, <3>10 DEF Increasing
  <2>5. QED
    BY <2>3, <2>4
<1>6. QED
  BY <1>5 DEF Channels

\* In a step that records nothing, channels stay in order as they stay or empty.
LEMMA QuietChannels ==
    ASSUME Ordered, IssuedStays, HearsKept, NothingNew,
           \A v \in Workers : channel'[v] = channel[v] \/ channel'[v] = << >>
    PROVE  Channels'
<1> USE DEF Ordered
<1>1. ASSUME NEW v \in Workers
      PROVE  (\A m \in ToSet(channel'[v]) : After(v, m[1], m[2])') /\ Increasing(channel'[v])
  <2>1. CASE channel'[v] = channel[v]
    <3>1. \A m \in ToSet(channel[v]) : After(v, m[1], m[2])'
      BY NotificationStays DEF NothingNew
    <3>2. QED
      BY <2>1, <3>1 DEF Channels
  <2>2. CASE channel'[v] = << >>
    BY <2>2 DEF ToSet, Increasing
  <2>3. QED
    BY <2>1, <2>2
<1>2. QED
  BY <1>1 DEF Channels

\* The entries left when the first is taken off, and how they stand to it.
LEMMA ChannelTail ==
    ASSUME Ordered, NEW w \in Workers, channel[w] # << >>
    PROVE  /\ Increasing(Tail(channel[w]))
           /\ channel[w][1] \in ToSet(channel[w])
           /\ \A m \in ToSet(Tail(channel[w])) :
                 m \in ToSet(channel[w]) /\ (m[2] = channel[w][1][2] => channel[w][1][1] < m[1])
<1> DEFINE t == Tail(channel[w])
<1>1. channel[w] \in Seq(Nat \X Sources) /\ Len(channel[w]) \in Nat
      /\ DOMAIN channel[w] = 1 .. Len(channel[w]) /\ Increasing(channel[w])
  BY ChannelFields DEF Ordered, Channels
<1>2. t \in Seq(Nat \X Sources) /\ Len(t) = Len(channel[w]) - 1
      /\ \A i \in 1 .. Len(t) : t[i] = channel[w][i + 1]
  BY <1>1, HeadTailProperties
<1> HIDE DEF t
<1>3. DOMAIN t = 1 .. Len(t)
  BY <1>2, Positions
<1>4. ASSUME NEW i \in DOMAIN t
      PROVE  i + 1 \in DOMAIN channel[w] /\ t[i] = channel[w][i + 1] /\ 1 < i + 1
  <2>1. i \in 1 .. Len(channel[w]) - 1
    BY <1>2, <1>3
  <2>2. i + 1 \in 1 .. Len(channel[w]) /\ 1 < i + 1
    BY <1>1, <2>1
  <2>3. QED
    BY <1>1, <1>2, <1>3, <2>2
<1>5. 1 \in DOMAIN channel[w]
  BY <1>1, EmptySeq
<1>6. ASSUME NEW i \in DOMAIN t, NEW j \in DOMAIN t, i < j, t[i][2] = t[j][2]
      PROVE  t[i][1] < t[j][1]
  <2>1. i + 1 < j + 1
    BY <1>1, <1>2, <1>3, <1>6
  <2>2. QED
    BY <1>1, <1>4, <1>6, <2>1 DEF Increasing
<1>7. ASSUME NEW m \in ToSet(t)
      PROVE  m \in ToSet(channel[w]) /\ (m[2] = channel[w][1][2] => channel[w][1][1] < m[1])
  <2>1. PICK i \in DOMAIN t : m = t[i]
    BY <1>7 DEF ToSet
  <2>2. QED
    BY <1>1, <1>4, <1>5, <2>1 DEF ToSet, Increasing
<1>8. QED
  BY <1>5, <1>6, <1>7 DEF ToSet, Increasing, t

LEMMA ArriveChannels ==
    ASSUME Ordered, IssuedStays, NEW w \in Workers, Arrive(w)
    PROVE  Channels' /\ Numbers' /\ HearsKept
<1> USE DEF Ordered
<1>1. /\ channel[w] # << >> /\ channel' = [channel EXCEPT ![w] = Tail(channel[w])]
      /\ \/ RecordAndFanOut(w, channel[w][1][1], channel[w][1][2])
         \/ UNCHANGED << ring, arrived, client >>
  BY ArriveStep
<1>2. PICK n \in Nat, source \in Sources : n = channel[w][1][1] /\ source = channel[w][1][2]
  BY ArriveStep
<1>3. After(w, n, source)
  BY <1>1, <1>2, ChannelTail DEF Channels
<1>4. /\ \A v \in Workers : \A e \in Kept(v)' :
            \/ e \in Kept(v)
            \/ v = w /\ e.source = source /\ e.seq = n
      /\ HearsKept /\ Numbers'
  <2>1. CASE RecordAndFanOut(w, n, source)
    <3> DEFINE new == Event(w, n, source)
    <3>1. (\A v \in Workers : \A e \in Kept(v)' : e \in Kept(v) \/ (v = w /\ e = new))
          /\ HearsKept
      BY <2>1, FanOutKept
    <3>2. new \in Entries /\ new.source = source /\ new.seq = n /\ new.place = arrived[w] + 1
      BY <2>1, FanOut DEF Event
    <3> HIDE DEF new
    <3>3. PICK e \in Entries : e = new
      BY <3>2
    <3>4. Issued(source, n)'
      BY <1>3 DEF After, IssuedStays
    <3>5. Issued(e.source, e.seq)'
      <4>1. e.source = source /\ e.seq = n
        BY <3>2, <3>3
      <4>2. QED
        BY <3>4, <4>1
    <3>6. \A f \in Kept(w) : f.source = e.source => f.seq < e.seq
      BY <1>3, <3>2, <3>3 DEF After
    <3>7. Numbers'
      BY <3>1, <3>2, <3>3, <3>5, <3>6, NumbersKept
    <3>8. QED
      BY <3>1, <3>2, <3>7
  <2>2. CASE UNCHANGED << ring, arrived, client >>
    <3>1. NothingNew
      BY <2>2 DEF NothingNew, Kept, Queued
    <3>2. HearsKept
      BY <2>2 DEF HearsKept
    <3>3. QED
      BY <3>1, <3>2, NumbersQuiet DEF NothingNew
  <2>3. QED
    BY <1>1, <1>2, <2>1, <2>2
<1>5. ASSUME NEW v \in Workers
      PROVE  (\A m \in ToSet(channel'[v]) : After(v, m[1], m[2])') /\ Increasing(channel'[v])
  <2>1. CASE v # w
    <3>1. channel'[v] = channel[v]
      BY <1>1, <2>1 DEF TypeOK
    <3>2. \A m \in ToSet(channel[v]) : After(v, m[1], m[2])'
      BY <1>4, <2>1, NotificationStays
    <3>3. QED
      BY <3>1, <3>2 DEF Channels
  <2>2. CASE v = w
    <3>1. channel'[w] = Tail(channel[w])
      BY <1>1 DEF TypeOK
    <3>2. \A m \in ToSet(Tail(channel[w])) :
             m \in ToSet(channel[w]) /\ (source = m[2] => n < m[1])
      BY <1>1, <1>2, ChannelTail
    <3>3. ASSUME NEW m \in ToSet(Tail(channel[w]))
          PROVE  After(w, m[1], m[2])'
      <4>1. m \in ToSet(channel[w]) /\ (source = m[2] => n < m[1])
        BY <3>2
      <4>2. \A e \in Kept(w)' : e \in Kept(w) \/ (e.source = m[2] => e.seq < m[1])
        BY <1>4, <4>1
      <4>3. QED
        BY <1>4, <4>1, <4>2, NotificationStays
    <3>4. Increasing(Tail(channel[w]))
      BY <1>1, ChannelTail
    <3>5. QED
      BY <2>2, <3>1, <3>3, <3>4
  <2>3. QED
    BY <2>1, <2>2
<1>6. QED
  BY <1>4, <1>5 DEF Channels

LEMMA PublishNumbers ==
    ASSUME Ordered, IssuedStays, NEW w \in Workers, Publish(w)
    PROVE  Numbers' /\ HearsKept
<1> USE DEF Ordered
<1>1. /\ RecordAndFanOut(w, seq[w] + 1, << w, run[w] >>)
      /\ seq' = [seq EXCEPT ![w] = @ + 1] /\ run' = run
  BY PublishStep
<1>2. PICK n \in Nat, source \in Sources : n = seq[w] + 1 /\ source = << w, run[w] >>
  BY PublishStep
<1> DEFINE new == Event(w, n, source)
<1>3. (\A v \in Workers : \A e \in Kept(v)' : e \in Kept(v) \/ (v = w /\ e = new)) /\ HearsKept
  BY <1>1, <1>2, FanOutKept
<1>4. new \in Entries /\ new.source = source /\ new.seq = n /\ new.place = arrived[w] + 1
  BY <1>1, <1>2, FanOut DEF Event
<1> HIDE DEF new
<1>5. PICK e \in Entries : e = new
  BY <1>4
<1>6. Issued(e.source, e.seq)'
  <2>1. run[w] \in Nat /\ seq'[w] = seq[w] + 1 /\ n <= n
    BY <1>1 DEF TypeOK
  <2>2. e.source[1] = w /\ e.source[2] = run[w] /\ e.seq = n
    BY <1>2, <1>4, <1>5
  <2>3. QED
    BY <1>1, <1>2, <2>1, <2>2 DEF Issued
<1>7. \A f \in Kept(w) : f.source = e.source => f.seq < e.seq
  BY <1>2, <1>4, <1>5, NextNumber
<1>8. Numbers'
  BY <1>3, <1>4, <1>5, <1>6, <1>7, NumbersKept
<1>9. QED
  BY <1>3, <1>8

\* The inductive invariant of the numbering.
LEMMA OrderedInductive ==
    /\ Init => Ordered
    /\ Ordered /\ [Next]_vars => Ordered'
<1>1. ASSUME Init
      PROVE  Ordered
  <2> USE DEF Init
  <2>1. TypeOK
    BY <1>1, InitTypes
  <2>2. \A c \in Clients : client[c].pending = << >> /\ client[c].heard = << >>
           /\ client[c].last = 0 /\ client[c].got = {}
    BY <1>1 DEF NewClient
  <2>3. \A w \in Workers : ring[w] = << >> /\ channel[w] = << >>
    BY <1>1
  <2>4. \A n : InPlace(<< >>, n)
    BY DEF InPlace
  <2>5. Places
    BY <2>2, <2>3, <2>4 DEF Places, StreamInPlace
  <2>6. \A w \in Workers : Kept(w) = {}
    BY <2>2, <2>3 DEF Kept, ToSet, Queued
  <2>7. Numbers /\ LastIssued
    BY <2>2, <2>6 DEF Numbers, LastIssued
  <2>8. Channels
    BY <2>3 DEF Channels, ToSet, Increasing
  <2>9. QED
    BY <2>1, <2>5, <2>7, <2>8 DEF Ordered
<1>2. ASSUME Ordered, [Next]_vars
      PROVE  Ordered'
  <2> USE DEF Ordered
  <2>1. TypeOK' /\ Places' /\ IssuedStays
    BY <1>2, NextTypes, PlacesKept, IssuedKept
  <2>2. ASSUME NEW w \in Workers, Publish(w)
        PROVE  Numbers' /\ Channels' /\ HearsKept
    BY <1>2, <2>1, <2>2, PublishNumbers, PublishChannels
  <2>3. ASSUME NEW w \in Workers, Arrive(w)
        PROVE  Numbers' /\ Channels' /\ HearsKept
    BY <1>2, <2>1, <2>3, ArriveChannels
  <2>4. ASSUME \/ \E w \in Workers : RingAges(w) \/ Restart(w)
               \/ \E c \in Clients : Open(c) \/ Receive(c) \/ Cut(c)
        PROVE  Numbers' /\ Channels' /\ HearsKept
    <3>1. NothingNew /\ HearsKept
      BY <1>2, <2>4, QuietSteps
    <3>2. Numbers'
      BY <1>2, <2>1, <3>1, NumbersQuiet
    <3>3. \A v \in Workers : channel'[v] = channel[v] \/ channel'[v] = << >>
      <4>1. CASE \E w \in Workers : Restart(w)
        BY <1>2, <4>1, RestartStep DEF TypeOK
      <4>2. CASE ~\E w \in Workers : Restart(w)
        BY <2>4, <4>2, OpenStep, ReceiveStep, CutStep DEF RingAges
      <4>3. QED
        BY <4>1, <4>2
    <3>4. QED
      BY <1>2, <2>1, <3>1, <3>2, <3>3, QuietChannels
  <2>5. ASSUME UNCHANGED vars
        PROVE  Numbers' /\ Channels' /\ HearsKept
    <3>1. NothingNew /\ HearsKept
      BY <2>5 DEF vars, NothingNew, HearsKept, Kept, Queued
    <3>2. \A v \in Workers : channel'[v] = channel[v] \/ channel'[v] = << >>
      BY <2>5 DEF vars
    <3>3. Numbers'
      BY <1>2, <2>1, <3>1, NumbersQuiet
    <3>4. Channels'
      BY <1>2, <2>1, <3>1, <3>2, QuietChannels
    <3>5. QED
      BY <3>1, <3>3, <3>4
  <2>6. Numbers' /\ Channels' /\ HearsKept
    <3>1. \/ \E w \in Workers : Publish(w)
          \/ \E w \in Workers : Arrive(w)
          \/ \E w \in Workers : RingAges(w) \/ Restart(w)
          \/ \E c \in Clients : Open(c) \/ Receive(c) \/ Cut(c)
          \/ UNCHANGED vars
      BY <1>2 DEF Next
    <3>2. QED
      BY <2>2, <2>3, <2>4, <2>5, <3>1
  <2>7. LastIssued'
    BY <1>2, <2>1, <2>6, LastIssuedKept
  <2>8. QED
    BY <2>1, <2>6, <2>7
<1>3. QED
  BY <1>1, <1>2

----------------------------------------------------------------------------
(* Each client, against what its worker keeps.                             *)

\* What the invariant of the numbering says of one client and of two events its
\* worker has for it.
LEMMA ClientFacts ==
    ASSUME Ordered, NEW c \in Clients
    PROVE  /\ client[c] \in ClientRecords /\ WorkerOf[c] \in Workers
           /\ arrived[WorkerOf[c]] \in Nat
           /\ StreamInPlace(client[c], arrived[WorkerOf[c]])
           /\ \A e \in ToSet(ring[WorkerOf[c]]) \cup ToSet(client[c].pending) :
                 /\ e \in Entries /\ e.seq \in Nat /\ e.source \in Sources /\ e.place \in Nat
                 /\ e.place <= arrived[WorkerOf[c]]
                 /\ \A f \in ToSet(ring[WorkerOf[c]]) \cup ToSet(client[c].pending) :
                       Consistent(e, f)
<1> USE DEF Ordered
<1>1. client[c] \in ClientRecords /\ WorkerOf[c] \in Workers /\ arrived[WorkerOf[c]] \in Nat
  BY EventAssumption DEF TypeOK
<1>2. StreamInPlace(client[c], arrived[WorkerOf[c]])
  BY DEF Places
<1>3. ToSet(ring[WorkerOf[c]]) \cup ToSet(client[c].pending) \subseteq Kept(WorkerOf[c])
  BY DEF Kept, Queued
<1>4. \A e \in Kept(WorkerOf[c]) :
         /\ e \in Entries /\ e.seq \in Nat /\ e.source \in Sources /\ e.place \in Nat
         /\ e.place <= arrived[WorkerOf[c]]
         /\ \A f \in Kept(WorkerOf[c]) : Consistent(e, f)
  BY <1>1, KeptEntries, EntryFields DEF Numbers
<1>5. QED
  BY <1>1, <1>2, <1>3, <1>4

\* Of a client and a buffer that only lose entries.
LEMMA LossesKept ==
    ASSUME NEW k \in ClientRecords, NEW r \in ClientRecords, NEW b, NEW d,
           ToSet(d) \subseteq ToSet(b), ToSet(r.pending) \subseteq ToSet(k.pending),
           r.last = k.last, r.heard = k.heard, r.got = k.got, r.first = k.first,
           k.missed \subseteq r.missed
    PROVE  /\ \A source : ToCome(k, b, source) => ToCome(r, d, source)
           /\ UpToLast(k, b) => UpToLast(r, d)
<1>1. ASSUME NEW source, ToCome(k, b, source)
      PROVE  ToCome(r, d, source)
  BY <1>1 DEF ToCome, HeardOnly, Ahead
<1>2. ASSUME UpToLast(k, b)
      PROVE  UpToLast(r, d)
  BY <1>2 DEF UpToLast
<1>3. QED
  BY <1>1, <1>2

\* Of an event that comes in after all a client has got, with a number later than
\* its client heard of that source.
LEMMA ArrivalKept ==
    ASSUME NEW k \in ClientRecords, NEW r \in ClientRecords, NEW b, NEW d,
           NEW n \in Nat, NEW new \in Entries, new.place = n + 1, StreamInPlace(k, n),
           ToSet(d) \subseteq ToSet(b) \cup {new},
           ToSet(r.pending) \subseteq ToSet(k.pending) \cup {new},
           r.last = k.last, r.heard = k.heard, r.got = k.got, r.first = k.first,
           k.missed \subseteq r.missed,
           k.heard # << >> /\ Last(k.heard) = new.source => k.last < new.seq
    PROVE  /\ \A source : ToCome(k, b, source) => ToCome(r, d, source)
           /\ UpToLast(k, b) => UpToLast(r, d)
<1>1. Ahead(r, new)
  <2>1. \A p \in k.got : p <= n /\ p \in Nat
    BY RecordFields DEF StreamInPlace
  <2>2. QED
    BY <2>1 DEF Ahead
<1>2. ASSUME NEW source, ToCome(k, b, source)
      PROVE  ToCome(r, d, source)
  BY <1>1, <1>2 DEF ToCome, HeardOnly, Ahead
<1>3. ASSUME UpToLast(k, b)
      PROVE  UpToLast(r, d)
  <2> SUFFICES ASSUME r.heard # << >>, NEW e \in ToSet(d), e.source = Last(r.heard),
                      e.place >= r.first, e.seq <= r.last
               PROVE  e.place \in r.got \cup r.missed
    BY DEF UpToLast
  <2>1. k.last \in Nat /\ new.seq \in Nat
    BY RecordFields, EntryFields
  <2>2. e # new
    BY <2>1
  <2>3. e \in ToSet(b)
    BY <2>2
  <2>4. QED
    BY <1>3, <2>3 DEF UpToLast
<1>4. QED
  BY <1>2, <1>3

\* What is left when a frame is received came in after it.
LEMMA ReceivedPending ==
    ASSUME NEW k \in ClientRecords, k.pending # << >>, NEW n \in Nat, StreamInPlace(k, n)
    PROVE  LET e == k.pending[1]
           IN  /\ e \in ToSet(k.pending)
               /\ \A f \in ToSet(k.pending) :
                     f = e \/ (f \in ToSet(Received(k).pending) /\ e.place < f.place)
               /\ \A f \in ToSet(Received(k).pending) :
                     f \in ToSet(k.pending) /\ e.place < f.place
<1> DEFINE s == k.pending
           t == Received(k).pending
<1>1. s \in Seq(Entries) /\ t \in Seq(Entries) /\ 1 \in DOMAIN s
      /\ Len(t) = Len(s) - 1 /\ \A i \in 1 .. Len(t) : t[i] = s[i + 1]
  BY ReceivedFields, RecordFields
<1>2. \A i, j \in DOMAIN s : i < j => s[i].place < s[j].place
  BY DEF StreamInPlace, InPlace
<1> HIDE DEF s, t
<1>3. DOMAIN s = 1 .. Len(s) /\ DOMAIN t = 1 .. Len(t) /\ Len(s) \in Nat
  BY <1>1, Positions
<1>4. ASSUME NEW i \in DOMAIN t
      PROVE  i + 1 \in DOMAIN s /\ t[i] = s[i + 1] /\ s[1].place < s[i + 1].place
  <2>1. i + 1 \in DOMAIN s /\ 1 < i + 1 /\ t[i] = s[i + 1]
    BY <1>1, <1>3
  <2>2. QED
    BY <1>1, <1>2, <2>1
<1>5. ASSUME NEW i \in DOMAIN s, i # 1
      PROVE  \E j \in DOMAIN t : t[j] = s[i]
  <2>1. i - 1 \in DOMAIN t /\ (i - 1) + 1 = i
    BY <1>1, <1>3, <1>5
  <2>2. QED
    BY <1>4, <2>1
<1>6. s[1] \in ToSet(s)
  BY <1>1 DEF ToSet
<1>7. ASSUME NEW f \in ToSet(t)
      PROVE  f \in ToSet(s) /\ s[1].place < f.place
  BY <1>4, <1>7 DEF ToSet
<1>8. ASSUME NEW f \in ToSet(s)
      PROVE  f = s[1] \/ (f \in ToSet(t) /\ s[1].place < f.place)
  <2>1. PICK i \in DOMAIN s : f = s[i]
    BY <1>8 DEF ToSet
  <2>2. CASE i = 1
    BY <2>1, <2>2
  <2>3. CASE i # 1
    BY <1>5, <1>7, <2>1, <2>3 DEF ToSet
  <2>4. QED
    BY <2>2, <2>3
<1>9. QED
  BY <1>6, <1>7, <1>8 DEF s, t

\* Of a client that receives a frame: what is to come stays after what it has
\* got; up to the number it now has, it has got or misses all; nothing it is to
\* get is left unexplained.
LEMMA ReceiveKept ==
    ASSUME Ordered, NEW c \in Clients, client[c].pending # << >>
    PROVE  LET k == client[c]
               b == ring[WorkerOf[c]]
               n == arrived[WorkerOf[c]]
               r == Received(k)
           IN  /\ \A source \in Sources : ToCome(k, b, source) => ToCome(r, b, source)
               /\ Explained(k, n) => UpToLast(r, b) /\ Explained(r, n)
<1> DEFINE k == client[c]
           b == ring[WorkerOf[c]]
           n == arrived[WorkerOf[c]]
           r == Received(k)
           e == k.pending[1]
<1>1. /\ k \in ClientRecords /\ n \in Nat /\ StreamInPlace(k, n)
      /\ \A f \in ToSet(b) \cup ToSet(k.pending) :
            /\ f \in Entries /\ f.seq \in Nat /\ f.source \in Sources /\ f.place \in Nat
            /\ f.place <= n
            /\ \A g \in ToSet(b) \cup ToSet(k.pending) : Consistent(f, g)
  BY ClientFacts
<1>2. k.pending # << >>
  OBVIOUS
<1>3. /\ r \in ClientRecords /\ r.at = k.at /\ r.first = k.first /\ r.missed = k.missed
      /\ r.last = e.seq /\ r.got = k.got \cup {e.place}
      /\ r.heard # << >> /\ Last(r.heard) = e.source
      /\ \A i \in DOMAIN k.heard : i \in DOMAIN r.heard /\ r.heard[i] = k.heard[i]
      /\ \E i \in DOMAIN r.heard : r.heard[i] = e.source
  BY <1>1, <1>2, ReceivedFields
<1>4. /\ e \in ToSet(k.pending)
      /\ \A f \in ToSet(k.pending) : f = e \/ (f \in ToSet(r.pending) /\ e.place < f.place)
      /\ \A f \in ToSet(r.pending) : f \in ToSet(k.pending) /\ e.place < f.place
  BY <1>1, <1>2, ReceivedPending
<1> HIDE DEF k, b, n, r, e
<1>5. k.at = "open"
  BY <1>1, <1>2 DEF StreamInPlace
<1>6. e.place \in Nat /\ e.seq \in Nat /\ k.got \in SUBSET Nat /\ k.first \in Nat
  BY <1>1, <1>4, RecordFields
<1>7. ASSUME NEW source \in Sources, ToCome(k, b, source)
      PROVE  ToCome(r, b, source)
  <2> SUFFICES ASSUME HeardOnly(r, source)
               PROVE  /\ \A f \in ToSet(r.pending) : f.source = source => Ahead(r, f)
                      /\ \A f \in ToSet(b) : f.source = source /\ f.seq > r.last => Ahead(r, f)
    BY DEF ToCome
  <2>1. HeardOnly(k, source) /\ e.source = source
    BY <1>3 DEF HeardOnly
  <2>2. Ahead(k, e)
    BY <1>4, <1>7, <2>1 DEF ToCome
  <2>3. ASSUME NEW f, f.place \in Nat, e.place < f.place
        PROVE  Ahead(r, f)
    BY <1>3, <1>6, <2>2, <2>3 DEF Ahead
  <2>4. \A f \in ToSet(r.pending) : Ahead(r, f)
    BY <1>1, <1>4, <2>3
  <2>5. ASSUME NEW f \in ToSet(b), f.source = source, f.seq > r.last
        PROVE  Ahead(r, f)
    <3>1. f.place \in Nat /\ f.seq \in Nat /\ f.seq > e.seq /\ f # e /\ f.source = e.source
      BY <1>1, <1>3, <1>6, <2>1, <2>5
    <3>2. Consistent(f, e)
      BY <1>1, <1>4
    <3>3. f.place # e.place /\ ~(f.place < e.place)
      BY <1>6, <3>1, <3>2 DEF Consistent
    <3>4. QED
      BY <1>6, <2>3, <3>1, <3>3
  <2>6. QED
    BY <2>4, <2>5
<1>8. ASSUME Explained(k, n)
      PROVE  UpToLast(r, b)
  <2> SUFFICES ASSUME NEW f \in ToSet(b), f.source = e.source, f.place >= k.first,
                      f.seq <= e.seq
               PROVE  f.place \in r.got \cup r.missed
    BY <1>3 DEF UpToLast
  <2>1. f.place \in Nat /\ f.seq \in Nat /\ f.place <= n /\ Consistent(e, f)
    BY <1>1, <1>4
  <2>2. ~(e.place < f.place)
    BY <1>6, <2>1 DEF Consistent
  <2>3. f.place \in k.first .. n
    BY <1>1, <1>6, <2>1
  <2>4. f.place \in k.got \cup k.missed \/ \E g \in ToSet(k.pending) : g.place = f.place
    BY <1>5, <1>8, <2>3 DEF Explained
  <2>5. ASSUME NEW g \in ToSet(k.pending), g.place = f.place
        PROVE  g = e
    BY <1>1, <1>4, <1>6, <2>1, <2>2, <2>5
  <2>6. QED
    BY <1>3, <2>4, <2>5
<1>9. ASSUME Explained(k, n)
      PROVE  Explained(r, n)
  <2> SUFFICES ASSUME NEW p \in k.first .. n
               PROVE  p \in r.got \cup r.missed \/ \E f \in ToSet(r.pending) : f.place = p
    BY <1>3 DEF Explained
  <2>1. p \in k.got \cup k.missed \/ \E f \in ToSet(k.pending) : f.place = p
    BY <1>5, <1>9 DEF Explained
  <2>2. QED
    BY <1>3, <1>4, <2>1
<1>10. QED
  BY <1>7, <1>8, <1>9 DEF k, b, n, r

\* Of a client whose stream opens: what is replayed to it is after what it has
\* got, and all that has come in while it was away is replayed or accounted for.
LEMMA OpenKept ==
    ASSUME Ordered, NEW c \in Clients, Open(c)
    PROVE  LET k == client[c]
               b == ring[WorkerOf[c]]
               n == arrived[WorkerOf[c]]
               r == Written(Opened(c), ReplayedTo(c))
           IN  /\ \A source \in Sources : ToCome(k, b, source) => ToCome(r, b, source)
               /\ UpToLast(k, b) => UpToLast(r, b) /\ Explained(r, n)
<1> DEFINE k == client[c]
           w == WorkerOf[c]
           b == ring[w]
           n == arrived[w]
           r == Written(Opened(c), ReplayedTo(c))
<1>1. /\ r \in ClientRecords /\ r.at = "open"
      /\ r.last = k.last /\ r.heard = k.heard /\ r.got = k.got /\ k.missed \subseteq r.missed
      /\ k.at = "new" => r.first = n + 1
      /\ k.at # "new" => r.first = k.first /\ Unrecoverable(c) \subseteq r.missed
      /\ \A i \in DOMAIN r.pending : \E j \in DOMAIN b :
            b[j].seq > k.last /\ r.pending[i] = b[j]
      /\ c \in Asks /\ k.last > 0 =>
            \A j \in DOMAIN b : b[j].seq > k.last =>
               b[j].place \in r.missed \/ \E i \in DOMAIN r.pending : r.pending[i] = b[j]
  BY OpenOutcome DEF Ordered
<1>2. \A p \in k.first .. n : p \in Unrecoverable(c)
         \/ /\ c \in Asks /\ k.last # 0
            /\ \E e \in ToSet(b) : e.place = p /\ e.source = Last(k.heard)
  BY DEF Unrecoverable
<1>3. /\ k \in ClientRecords /\ n \in Nat /\ StreamInPlace(k, n)
      /\ \A e \in ToSet(b) : e.seq \in Nat /\ e.place \in Nat /\ e.place <= n
  BY ClientFacts
<1> HIDE DEF k, w, b, n, r
<1>4. k.last \in Nat /\ k.first \in Nat
  BY <1>3, RecordFields
<1>5. \A e \in ToSet(r.pending) : e \in ToSet(b) /\ e.seq > k.last
  BY <1>1 DEF ToSet
<1>6. c \in Asks /\ k.last > 0 =>
         \A e \in ToSet(b) : e.seq > k.last => e.place \in r.missed \/ e \in ToSet(r.pending)
  BY <1>1 DEF ToSet
<1>7. ASSUME NEW source \in Sources, ToCome(k, b, source)
      PROVE  ToCome(r, b, source)
  BY <1>1, <1>5, <1>7 DEF ToCome, HeardOnly, Ahead
<1>8. ASSUME UpToLast(k, b)
      PROVE  UpToLast(r, b)
  <2>1. CASE k.at = "new"
    <3>1. \A e \in ToSet(b) : ~(e.place >= r.first)
      BY <1>1, <1>3, <2>1
    <3>2. QED
      BY <3>1 DEF UpToLast
  <2>2. CASE k.at # "new"
    BY <1>1, <1>8, <2>2 DEF UpToLast
  <2>3. QED
    BY <2>1, <2>2
<1>9. ASSUME UpToLast(k, b)
      PROVE  Explained(r, n)
  <2> SUFFICES ASSUME NEW p \in r.first .. n
               PROVE  p \in r.got \cup r.missed \/ \E e \in ToSet(r.pending) : e.place = p
    BY DEF Explained
  <2>1. CASE k.at = "new"
    <3>1. r.first .. n = {}
      BY <1>1, <1>3, <2>1
    <3>2. QED
      BY <3>1
  <2>2. CASE k.at # "new"
    <3>1. p \in k.first .. n
      BY <1>1, <2>2
    <3>2. CASE p \in Unrecoverable(c)
      BY <1>1, <2>2, <3>2
    <3>3. CASE p \notin Unrecoverable(c)
      <4>1. PICK e \in ToSet(b) : e.place = p /\ e.source = Last(k.heard)
        BY <1>2, <3>1, <3>3
      <4>2. c \in Asks /\ k.last > 0
        BY <1>2, <1>4, <3>1, <3>3
      <4>3. k.heard # << >>
        BY <1>3, <1>4, <4>2 DEF StreamInPlace
      <4>4. CASE e.seq > k.last
        BY <1>6, <4>1, <4>2, <4>4
      <4>5. CASE ~(e.seq > k.last)
        <5>1. e.seq <= k.last /\ e.place >= k.first
          BY <1>3, <1>4, <3>1, <4>1, <4>5
        <5>2. p \in k.got \cup k.missed
          BY <1>9, <4>1, <4>3, <5>1 DEF UpToLast
        <5>3. QED
          BY <1>1, <5>2
      <4>6. QED
        BY <4>4, <4>5
    <3>4. QED
      BY <3>2, <3>3
  <2>3. QED
    BY <2>1, <2>2
<1>10. QED
  BY <1>7, <1>8, <1>9 DEF k, b, n, r, w

LEMMA LossesWell ==
    ASSUME NEW k \in ClientRecords, NEW b, NEW d, NEW n, ToSet(d) \subseteq ToSet(b),
           ClientWell(k, b, n)
    PROVE  ClientWell(k, d, n)
  BY DEF ClientWell, ToCome, UpToLast

LEMMA FanOutWell ==
    ASSUME Ordered, ClientsWell,
           NEW w \in Workers, NEW n \in Nat, NEW source \in Sources,
           RecordAndFanOut(w, n, source),
           \A c \in Queued(w) :
              client[c].heard # << >> /\ Last(client[c].heard) = source => client[c].last < n
    PROVE  ClientsWell'
<1> USE DEF Ordered
<1> DEFINE new == Event(w, n, source)
<1>1. /\ \A v \in Workers : \A e \in ToSet(ring'[v]) :
            e \in ToSet(ring[v]) \/ (v = w /\ e = new)
      /\ \A c \in Clients : Gains(client[c], client'[c], Listens(c, w), new)
  BY FanOutEntries
<1>2. /\ new \in Entries /\ new.source = source /\ new.seq = n /\ new.place = arrived[w] + 1
      /\ arrived'[w] = arrived[w] + 1
      /\ \A v \in Workers : v # w => arrived'[v] = arrived[v]
      /\ \A c \in Clients : ~Listens(c, w) => client'[c] = client[c]
  BY FanOut DEF Event
<1>3. \A c \in Clients : client'[c] \in ClientRecords
  BY FanOutTypes DEF BufferTypes
<1> HIDE DEF new
<1> SUFFICES ASSUME NEW c \in Clients
             PROVE  ClientWell(client'[c], ring'[WorkerOf[c]], arrived'[WorkerOf[c]])
  BY DEF ClientsWell
<1> DEFINE k == client[c]
           r == client'[c]
           v == WorkerOf[c]
<1>4. /\ k \in ClientRecords /\ v \in Workers /\ arrived[v] \in Nat
      /\ StreamInPlace(k, arrived[v]) /\ ClientWell(k, ring[v], arrived[v])
  BY ClientFacts DEF ClientsWell
<1>5. CASE v # w
  <2>1. r = k /\ arrived'[v] = arrived[v] /\ ToSet(ring'[v]) \subseteq ToSet(ring[v])
    BY <1>1, <1>2, <1>4, <1>5 DEF Listens
  <2>2. QED
    BY <1>4, <2>1, LossesWell
<1>6. CASE v = w
  <2>1. /\ ToSet(ring'[v]) \subseteq ToSet(ring[v]) \cup {new}
        /\ ToSet(r.pending) \subseteq ToSet(k.pending) \cup {new}
        /\ r.last = k.last /\ r.heard = k.heard /\ r.got = k.got /\ r.first = k.first
        /\ k.missed \subseteq r.missed /\ r.at = k.at
    BY <1>1, <1>4 DEF Gains
  <2>2. k.heard # << >> /\ Last(k.heard) = new.source => k.last < new.seq
    BY <1>2, <1>6 DEF Queued
  <2>3. (\A s \in Sources : ToCome(r, ring'[v], s)) /\ UpToLast(r, ring'[v])
    BY <1>2, <1>3, <1>4, <1>6, <2>1, <2>2, ArrivalKept DEF ClientWell
  <2>4. ASSUME r.at = "open", NEW p \in r.first .. arrived'[v]
        PROVE  p \in r.got \cup r.missed \/ \E e \in ToSet(r.pending) : e.place = p
    <3>1. k.at = "open" /\ Listens(c, w)
      BY <1>6, <2>1, <2>4 DEF Listens
    <3>2. k.first \in Nat /\ arrived'[v] = arrived[v] + 1 /\ new.place = arrived[v] + 1
      BY <1>2, <1>4, <1>6, RecordFields
    <3>3. p = arrived[v] + 1 \/ p \in k.first .. arrived[v]
      BY <1>4, <2>1, <2>4, <3>2
    <3>4. CASE p = arrived[v] + 1
      BY <1>1, <3>1, <3>2, <3>4 DEF Gains
    <3>5. CASE p \in k.first .. arrived[v]
      <4>1. p \in k.got \cup k.missed \/ \E e \in ToSet(k.pending) : e.place = p
        BY <1>4, <3>1, <3>5 DEF ClientWell, Explained
      <4>2. QED
        BY <1>1, <2>1, <4>1 DEF Gains
    <3>6. QED
      BY <3>3, <3>4, <3>5
  <2>5. QED
    BY <2>3, <2>4 DEF ClientWell, Explained
<1>7. QED
  BY <1>5, <1>6

\* One client's record replaced by one that is well; buffers as they were.
LEMMA ReplacedWell ==
    ASSUME Ordered, ClientsWell, NEW c \in Clients, NEW r,
           client' = [client EXCEPT ![c] = r], UNCHANGED << ring, arrived >>,
           ClientWell(r, ring[WorkerOf[c]], arrived[WorkerOf[c]])
    PROVE  ClientsWell'
<1>1. client'[c] = r /\ \A d \in Clients : d # c => client'[d] = client[d]
  BY DEF Ordered, TypeOK
<1>2. ASSUME NEW d \in Clients
      PROVE  ClientWell(client'[d], ring'[WorkerOf[d]], arrived'[WorkerOf[d]])
  BY <1>1 DEF ClientsWell
<1>3. QED
  BY <1>2 DEF ClientsWell

\* A broken stream is well: it has nothing pending, and nothing is said of what
\* has come in until it opens again.
LEMMA BrokenWell ==
    ASSUME NEW k \in ClientRecords, NEW b, NEW d, NEW n, ToSet(d) \subseteq ToSet(b),
           ClientWell(k, b, n)
    PROVE  ClientWell(Broken(k), d, n)
<1> DEFINE r == Broken(k)
<1>1. /\ r \in ClientRecords /\ r.at = "away" /\ r.pending = << >>
      /\ r.last = k.last /\ r.heard = k.heard /\ r.got = k.got
      /\ r.first = k.first /\ r.missed = k.missed
  BY BrokenFields
<1> HIDE DEF r
<1>2. ToSet(r.pending) = {}
  BY <1>1 DEF ToSet
<1>3. (\A source : ToCome(k, b, source) => ToCome(r, d, source))
      /\ (UpToLast(k, b) => UpToLast(r, d))
  BY <1>1, <1>2, LossesKept
<1>4. Explained(r, n)
  BY <1>1 DEF Explained
<1>5. QED
  BY <1>3, <1>4 DEF ClientWell, r

LEMMA WellInductive ==
    /\ Init => ClientsWell
    /\ Ordered /\ ClientsWell /\ [Next]_vars => ClientsWell'
<1>1. ASSUME Init
      PROVE  ClientsWell
  <2> SUFFICES ASSUME NEW c \in Clients
               PROVE  ClientWell(client[c], ring[WorkerOf[c]], arrived[WorkerOf[c]])
    BY DEF ClientsWell
  <2>1. /\ client[c].pending = << >> /\ client[c].heard = << >> /\ client[c].at = "new"
        /\ ring[WorkerOf[c]] = << >>
    BY <1>1, EventAssumption DEF Init, NewClient
  <2>2. ToSet(<< >>) = {}
    BY DEF ToSet
  <2>3. QED
    BY <2>1, <2>2 DEF ClientWell, ToCome, UpToLast, Explained
<1>2. ASSUME Ordered, ClientsWell, [Next]_vars
      PROVE  ClientsWell'
  <2> USE <1>2
  <2>1. TypeOK /\ Places
    BY DEF Ordered
  <2>2. \A c \in Clients :
           /\ client[c] \in ClientRecords /\ WorkerOf[c] \in Workers
           /\ ClientWell(client[c], ring[WorkerOf[c]], arrived[WorkerOf[c]])
    BY ClientFacts DEF ClientsWell
  <2>3. ASSUME NEW w \in Workers, Publish(w)
        PROVE  ClientsWell'
    <3>1. PICK n \in Nat, source \in Sources : n = seq[w] + 1 /\ source = << w, run[w] >>
      BY <2>1, <2>3, PublishStep
    <3>2. RecordAndFanOut(w, n, source)
      BY <2>1, <2>3, <3>1, PublishStep
    <3>3. \A c \in Queued(w) :
             client[c].heard # << >> /\ Last(client[c].heard) = source => client[c].last < n
      BY <3>1, NextNumber DEF Ordered, Queued
    <3>4. QED
      BY <3>2, <3>3, FanOutWell
  <2>4. ASSUME NEW w \in Workers, Arrive(w)
        PROVE  ClientsWell'
    <3>1. PICK n \in Nat, source \in Sources :
             n = channel[w][1][1] /\ source = channel[w][1][2]
      BY <2>1, <2>4, ArriveStep
    <3>2. CASE RecordAndFanOut(w, n, source)
      <4>1. channel[w] # << >>
        BY <2>1, <2>4, ArriveStep
      <4>2. channel[w][1] \in ToSet(channel[w])
        BY <4>1, ChannelTail
      <4>3. After(w, n, source)
        BY <3>1, <4>2 DEF Ordered, Channels
      <4>4. QED
        BY <3>2, <4>3, FanOutWell DEF After
    <3>3. CASE UNCHANGED << ring, arrived, client >>
      BY <3>3 DEF ClientsWell
    <3>4. QED
      BY <2>1, <2>4, <3>1, <3>2, <3>3, ArriveStep
  <2>5. ASSUME NEW w \in Workers, RingAges(w)
        PROVE  ClientsWell'
    <3>1. UNCHANGED << arrived, client >>
      BY <2>5 DEF RingAges
    <3>2. \A v \in Workers : ToSet(ring'[v]) \subseteq ToSet(ring[v])
      BY <2>1, <2>5, RingShrinks
    <3>3. QED
      BY <2>2, <3>1, <3>2, LossesWell DEF ClientsWell
  <2>6. ASSUME NEW w \in Workers, Restart(w)
        PROVE  ClientsWell'
    <3>1. \A v \in Workers : ToSet(ring'[v]) \subseteq ToSet(ring[v])
      BY <2>1, <2>6, RingShrinks
    <3>2. arrived' = arrived
          /\ \A c \in Clients : client'[c] = Broken(client[c]) \/ client'[c] = client[c]
      BY <2>1, <2>6, RestartStep
    <3>3. ASSUME NEW c \in Clients
          PROVE  ClientWell(client'[c], ring'[WorkerOf[c]], arrived[WorkerOf[c]])
      <4>1. ClientWell(client[c], ring'[WorkerOf[c]], arrived[WorkerOf[c]])
        BY <2>2, <3>1, LossesWell
      <4>2. ClientWell(Broken(client[c]), ring'[WorkerOf[c]], arrived[WorkerOf[c]])
        BY <2>2, <3>1, BrokenWell
      <4>3. QED
        BY <3>2, <4>1, <4>2
    <3>4. QED
      BY <3>2, <3>3 DEF ClientsWell
  <2>7. ASSUME NEW c \in Clients, Open(c)
        PROVE  ClientsWell'
    <3> DEFINE r == Written(Opened(c), ReplayedTo(c))
    <3>1. client' = [client EXCEPT ![c] = r] /\ UNCHANGED << ring, arrived >>
      BY <2>7, OpenStep
    <3>2. ClientWell(r, ring[WorkerOf[c]], arrived[WorkerOf[c]])
      BY <2>2, <2>7, OpenKept DEF ClientWell
    <3> HIDE DEF r
    <3>3. QED
      BY <3>1, <3>2, ReplacedWell
  <2>8. ASSUME NEW c \in Clients, Receive(c)
        PROVE  ClientsWell'
    <3> DEFINE r == Received(client[c])
    <3>1. /\ client' = [client EXCEPT ![c] = r] /\ UNCHANGED << ring, arrived >>
          /\ client[c].pending # << >>
      BY <2>8, ReceiveStep
    <3>2. ClientWell(r, ring[WorkerOf[c]], arrived[WorkerOf[c]])
      BY <2>2, <3>1, ReceiveKept DEF ClientWell
    <3> HIDE DEF r
    <3>3. QED
      BY <3>1, <3>2, ReplacedWell
  <2>9. ASSUME NEW c \in Clients, Cut(c)
        PROVE  ClientsWell'
    <3> DEFINE r == Broken(client[c])
    <3>1. client' = [client EXCEPT ![c] = r] /\ UNCHANGED << ring, arrived >>
      BY <2>9, CutStep
    <3>2. ClientWell(r, ring[WorkerOf[c]], arrived[WorkerOf[c]])
      BY <2>2, BrokenWell
    <3> HIDE DEF r
    <3>3. QED
      BY <3>1, <3>2, ReplacedWell
  <2>10. CASE UNCHANGED vars
    BY <2>10 DEF vars, ClientsWell
  <2>11. QED
    BY <2>3, <2>4, <2>5, <2>6, <2>7, <2>8, <2>9, <2>10 DEF Next
<1>3. QED
  BY <1>1, <1>2

----------------------------------------------------------------------------
(* The theorems.                                                           *)

LEMMA FiniteValues ==
    ASSUME NEW S, NEW s \in Seq(S)
    PROVE  IsFiniteSet(ToSet(s))
<1>1. Len(s) \in Nat /\ s \in [1 .. Len(s) -> S] /\ DOMAIN s = 1 .. Len(s)
  BY LenProperties
<1>2. s \in Surjection(1 .. Len(s), ToSet(s))
  BY <1>1 DEF Surjection, ToSet
<1>3. IsFiniteSet(1 .. Len(s))
  BY <1>1, FS_Interval
<1>4. QED
  BY <1>2, <1>3, FS_Surjection

LEMMA FiniteSources ==
    ASSUME NEW s \in Seq(Entries)
    PROVE  IsFiniteSet({ e.source : e \in ToSet(s) })
<1> DEFINE T == { e.source : e \in ToSet(s) }
           f == [i \in 1 .. Len(s) |-> s[i].source]
<1>1. Len(s) \in Nat /\ DOMAIN s = 1 .. Len(s)
  BY Positions
<1>2. f \in Surjection(1 .. Len(s), T)
  <2>1. f \in [1 .. Len(s) -> T]
    BY <1>1 DEF ToSet
  <2>2. \A t \in T : \E i \in 1 .. Len(s) : f[i] = t
    BY <1>1 DEF ToSet
  <2> HIDE DEF f, T
  <2>3. QED
    BY <2>1, <2>2 DEF Surjection
<1>3. IsFiniteSet(1 .. Len(s))
  BY <1>1, FS_Interval
<1> HIDE DEF f, T
<1>4. IsFiniteSet(T)
  BY <1>2, <1>3, FS_Surjection
<1>5. QED
  BY <1>4 DEF T

LEMMA OnceInOrderFrom == Ordered /\ ClientsWell => OnceInOrder
<1> SUFFICES ASSUME Ordered, ClientsWell, NEW c \in Clients
             PROVE  LET sent == client[c].pending
                        sources == ToSet(client[c].heard) \cup { e.source : e \in ToSet(sent) }
                    IN  Cardinality(sources) <= 1 =>
                           /\ \A i \in DOMAIN sent, p \in client[c].got : p < sent[i].place
                           /\ \A i, j \in DOMAIN sent : i < j => sent[i].place < sent[j].place
  BY DEF OnceInOrder
<1> DEFINE k == client[c]
           sent == k.pending
           sources == ToSet(k.heard) \cup { e.source : e \in ToSet(sent) }
<1>1. /\ k \in ClientRecords /\ StreamInPlace(k, arrived[WorkerOf[c]])
      /\ \A source \in Sources : ToCome(k, ring[WorkerOf[c]], source)
      /\ \A e \in ToSet(sent) : e.source \in Sources
  BY ClientFacts DEF ClientsWell, ClientWell
<1>2. sent \in Seq(Entries) /\ k.heard \in Seq(Sources)
  BY <1>1, RecordFields
<1>3. \A i, j \in DOMAIN sent : i < j => sent[i].place < sent[j].place
  BY <1>1 DEF StreamInPlace, InPlace
<1>4. IsFiniteSet(sources)
  <2>1. IsFiniteSet(ToSet(k.heard)) /\ IsFiniteSet({ e.source : e \in ToSet(sent) })
    BY <1>2, FiniteValues, FiniteSources
  <2>2. QED
    BY <2>1, FS_Union
<1>5. ASSUME Cardinality(sources) <= 1, NEW i \in DOMAIN sent, NEW p \in k.got
      PROVE  p < sent[i].place
  <2> DEFINE source == sent[i].source
  <2>1. sent[i] \in ToSet(sent)
    BY <1>5 DEF ToSet
  <2>2. source \in sources
    BY <2>1
  <2>3. \A h \in ToSet(k.heard) : h \in sources
    OBVIOUS
  <2> HIDE DEF sources
  <2>4. Cardinality(sources) = 1
    BY <1>4, <1>5, <2>2, FS_CardinalityType, FS_EmptySet
  <2>5. PICK x : sources = {x}
    BY <1>4, <2>4, FS_Singleton
  <2>6. HeardOnly(k, source)
    BY <2>2, <2>3, <2>5 DEF HeardOnly, ToSet
  <2>7. Ahead(k, sent[i])
    BY <1>1, <2>1, <2>6 DEF ToCome
  <2>8. QED
    BY <2>7 DEF Ahead
<1>6. QED
  BY <1>3, <1>5

LEMMA GapsExplainedFrom == ClientsWell => GapsExplained
<1> SUFFICES ASSUME ClientsWell, NEW c \in Clients, client[c].at = "open",
                    NEW p \in client[c].first .. arrived[WorkerOf[c]]
             PROVE  \/ p \in client[c].got \cup client[c].missed
                    \/ \E i \in DOMAIN client[c].pending : client[c].pending[i].place = p
  BY DEF GapsExplained
<1>1. Explained(client[c], arrived[WorkerOf[c]])
  BY DEF ClientsWell, ClientWell
<1>2. QED
  BY <1>1 DEF Explained, ToSet

LEMMA AllWell == Spec => [](Ordered /\ ClientsWell)
<1>1. Init => Ordered /\ ClientsWell
  BY OrderedInductive, WellInductive
<1>2. Ordered /\ ClientsWell /\ [Next]_vars => (Ordered /\ ClientsWell)'
  BY OrderedInductive, WellInductive
<1>3. QED
  BY <1>1, <1>2, PTL DEF Spec

\* A page that has heard the numbers of one run of one worker gets no event
\* twice and none before an earlier one, though streams break and are replayed,
\* events are lost between the workers, and buffers age.
THEOREM EachOnceInOrder == Spec => []OnceInOrder
  BY AllWell, OnceInOrderFrom, PTL

\* What a page with an open stream has not got of the events recorded since it
\* first came is on its way to it, or is known to be beyond its reach: it was too
\* slow, or was away without a number, or too long, or with another's number.
THEOREM NoSilentGap == Spec => []GapsExplained
  BY AllWell, GapsExplainedFrom, PTL
=============================================================================
