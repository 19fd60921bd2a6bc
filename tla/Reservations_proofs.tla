------------------------ MODULE Reservations_proofs ------------------------
(***************************************************************************)
(* Theorems about Reservations, for every set of bookings and clients,     *)
(* every choice of windows and every fault.                                *)
(***************************************************************************)
EXTENDS Reservations, TLAPS

---------------------------------------------------------------------------
(* Type correctness.                                                       *)

LEMMA Constants ==
    /\ NoRow \in Rows /\ NoCreate \in Creates /\ NoCall \in Calls
    /\ \A w \in Windows : w.from \in 0 .. Horizon /\ w.to \in 0 .. Horizon
BY BookingAssumption
   DEF NoRow, Rows, Statuses, NoCreate, Creates, Outcomes, NoCall, Calls

LEMMA InitType == Init => TypeOK
BY Constants, BookingAssumption DEF Init, TypeOK, Outcomes

\* Excusing pairs of bookings leaves a set of sets of bookings.
LEMMA ExcuseType ==
    ASSUME TypeOK, NEW b \in Bookings, NEW others \in SUBSET Bookings,
           Excuse(b, others)
    PROVE  excused' \subseteq SUBSET Bookings /\ excused \subseteq excused'
BY DEF Excuse, TypeOK

LEMMA CheckedType ==
    ASSUME TypeOK
    PROVE  Checked \subseteq Bookings
BY DEF TypeOK, Checked, Calls

LEMMA ExcusesType ==
    ASSUME TypeOK, NEW b \in Bookings, NEW force \in BOOLEAN, Excuses(b, force)
    PROVE  excused' \subseteq SUBSET Bookings /\ excused \subseteq excused'
<1>1. (IF force THEN Bookings ELSE Checked) \in SUBSET Bookings
    BY CheckedType
<1> QED
    BY <1>1, ExcuseType DEF Excuses

LEMMA CreateType ==
    ASSUME TypeOK, NEW b \in Bookings, Create(b)
    PROVE  TypeOK'
<1>1. ASSUME NEW connector \in Connectors \cup {0}, NEW w \in Windows,
             NEW force \in {FALSE, Forcing}, CreateCheck(b, connector, w, force)
      PROVE  TypeOK'
  <2>1. force \in BOOLEAN
    BY BookingAssumption
  <2>2. excused' \subseteq SUBSET Bookings
    BY <1>1, <2>1, ExcusesType DEF CreateCheck
  <2>3. create' \in [Bookings -> Creates]
    BY <1>1, Constants DEF CreateCheck, TypeOK, Creates, NoCreate, Outcomes
  <2> QED
    BY <1>1, <2>2, <2>3 DEF CreateCheck, TypeOK, steveVars
<1>2. CASE CreateInsert(b)
  <2>1. create[b] \in Creates
    BY DEF TypeOK
  <2>2. row' \in [Bookings -> Rows]
    BY <1>2, <2>1, Constants DEF CreateInsert, TypeOK, Rows, Creates, NoRow, Statuses
  <2>3. create' \in [Bookings -> Creates]
    BY <1>2, Constants DEF CreateInsert, TypeOK, Creates, NoCreate, Outcomes
  <2> QED
    BY <1>2, <2>2, <2>3 DEF CreateInsert, TypeOK, steveVars, history
<1>3. CASE CreateThrows(b)
    BY <1>3, Constants DEF CreateThrows, Fault, TypeOK, steveVars, history
<1>4. ASSUME NEW answer \in Answers, CreateReserve(b, answer)
      PROVE  TypeOK'
  <2>1. answer \in Outcomes
    BY DEF Answers, Outcomes
  <2> DEFINE saving == [create[b] EXCEPT !.pc = "save", !.answer = answer]
  <2>2. saving \in Creates
    <3>1. create[b] \in Creates
      BY DEF TypeOK
    <3> QED
      BY <2>1, <3>1 DEF Creates
  <2>3. create' = [create EXCEPT ![b] = saving]
    BY <1>4 DEF CreateReserve, TypeOK, Creates
  <2> HIDE DEF saving
  <2>4. create' \in [Bookings -> Creates]
    BY <2>2, <2>3 DEF TypeOK
  <2> QED
    BY <1>4, <2>1, <2>4 DEF CreateReserve, TypeOK, history
<1>5. CASE CreateReserveLost(b)
    BY <1>5, Constants DEF CreateReserveLost, Fault, TypeOK, history
<1>6. CASE CreateSave(b)
  <2>0. PICK status \in Statuses :
           row' = [row EXCEPT ![b] = [row[b] EXCEPT !.task = TRUE, !.status = status]]
    BY <1>6 DEF CreateSave, TypeOK, Rows, Statuses
  <2> DEFINE saved == [row[b] EXCEPT !.task = TRUE, !.status = status]
  <2>3. saved \in Rows
    <3>1. row[b] \in Rows
      BY DEF TypeOK
    <3> QED
      BY <3>1 DEF Rows
  <2>1. row' \in [Bookings -> Rows]
    BY <2>0, <2>3 DEF TypeOK
  <2>2. excused' \subseteq SUBSET Bookings
    BY <1>6, ExcuseType DEF CreateSave, TypeOK
  <2> QED
    BY <1>6, <2>1, <2>2, Constants DEF CreateSave, TypeOK, steveVars
<1>7. CASE CreateSaveFails(b)
    BY <1>7, Constants DEF CreateSaveFails, Fault, TypeOK, steveVars, history
<1> QED
    BY <1>1, <1>2, <1>3, <1>4, <1>5, <1>6, <1>7 DEF Create

LEMMA CallType ==
    ASSUME TypeOK, NEW c \in Clients, Call(c)
    PROVE  TypeOK'
<1>0. client[c] \in Calls /\ client[c].booking \in Bookings
    BY DEF TypeOK, Calls
<1>1. ASSUME NEW b \in Bookings, CancelRead(c, b) PROVE TypeOK'
  <2>1. client' \in [Clients -> Calls]
    BY <1>1, Constants DEF CancelRead, TypeOK, Calls, NoCall
  <2> QED
    BY <1>1, <2>1 DEF CancelRead, Request, TypeOK, steveVars
<1>2. CASE CancelDispatch(c)
  <2>1. client' \in [Clients -> Calls]
    BY <1>2 DEF CancelDispatch, TypeOK, Calls
  <2> QED
    BY <1>0, <1>2, <2>1 DEF CancelDispatch, TypeOK
<1>3. CASE CancelDispatchFails(c)
  <2>1. client' \in [Clients -> Calls]
    BY <1>3 DEF CancelDispatchFails, TypeOK, Calls
  <2> QED
    BY <1>0, <1>3, <2>1 DEF CancelDispatchFails, Fault, TypeOK, steveVars
<1>4. CASE CancelWrite(c)
  <2>1. row' \in [Bookings -> Rows]
    BY <1>0, <1>4 DEF CancelWrite, TypeOK, Rows, Statuses
  <2> QED
    BY <1>4, <2>1, Constants DEF CancelWrite, TypeOK, steveVars, history
<1>5. ASSUME NEW b \in Bookings, NEW w \in Windows,
             NEW force \in {FALSE, Forcing}, MoveRead(c, b, w, force)
      PROVE  TypeOK'
  <2>1. force \in BOOLEAN
    BY BookingAssumption
  <2>2. excused' \subseteq SUBSET Bookings
    BY <1>5, <2>1, ExcusesType DEF MoveRead
  <2>3. client' \in [Clients -> Calls]
    BY <1>5, Constants DEF MoveRead, TypeOK, Calls, NoCall
  <2> QED
    BY <1>5, <2>2, <2>3 DEF MoveRead, Request, TypeOK, steveVars
<1>6. CASE MoveWrite(c)
  <2> DEFINE b == client[c].booking
             moved == [row[b] EXCEPT !.from = client[c].from, !.to = client[c].to]
  <2>2. moved \in Rows
    <3>1. row[b] \in Rows
      BY <1>0 DEF TypeOK
    <3> QED
      BY <1>0, <3>1 DEF Rows, Calls
  <2>3. row' = [row EXCEPT ![b] = moved]
    BY <1>0, <1>6 DEF MoveWrite, TypeOK, Rows
  <2>1. row' \in [Bookings -> Rows]
    BY <1>0, <2>2, <2>3 DEF TypeOK
  <2> QED
    BY <1>6, <2>1, Constants DEF MoveWrite, TypeOK, steveVars, history
<1>7. CASE CallThrows(c)
    BY <1>7, Constants DEF CallThrows, Fault, TypeOK, steveVars, history
<1> QED
    BY <1>1, <1>2, <1>3, <1>4, <1>5, <1>6, <1>7 DEF Call

LEMMA NextType == TypeOK /\ [Next]_vars => TypeOK'
<1> SUFFICES ASSUME TypeOK, [Next]_vars PROVE TypeOK'
    OBVIOUS
<1>1. CASE Tick
    BY <1>1, BookingAssumption DEF Tick, TypeOK, steveVars, history
<1>2. ASSUME NEW b \in Bookings, Create(b) PROVE TypeOK'
    BY <1>2, CreateType
<1>3. ASSUME NEW c \in Clients, Call(c) PROVE TypeOK'
    BY <1>3, CallType
<1>4. CASE BulkCancel
  <2>1. row' \in [Bookings -> Rows]
    BY <1>4 DEF BulkCancel, TypeOK, Rows, Statuses
  <2> QED
    BY <1>4, <2>1, BookingAssumption DEF BulkCancel, Request, TypeOK, steveVars
<1>5. ASSUME NEW b \in Bookings, NEW answer \in Answers \ {"running"},
             LateAnswer(b, answer)
      PROVE  TypeOK'
    BY <1>5 DEF LateAnswer, Answers, Outcomes, TypeOK, history
<1>6. CASE PollBegin
    BY <1>6 DEF PollBegin, TypeOK, steveVars, history
<1>7. CASE PollEnd
    BY <1>7 DEF PollEnd, TypeOK, steveVars, history
<1>8. CASE PollAborts
    BY <1>8 DEF PollAborts, Fault, TypeOK, steveVars, history
<1>9. ASSUME NEW b \in Bookings, Poll(b) PROVE TypeOK'
  <2>1. CASE PollSettles(b)
    <3>1. row' \in [Bookings -> Rows]
      BY <2>1 DEF PollSettles, TypeOK, Rows, Statuses
    <3> QED
      BY <2>1, <3>1 DEF PollSettles, PollDone, TypeOK, steveVars, history
  <2>2. CASE PollSkips(b)
    BY <2>2 DEF PollSkips, PollDone, TypeOK, steveVars, history
  <2>3. CASE PollGetTaskFails(b)
    BY <2>3 DEF PollGetTaskFails, PollDone, Fault, TypeOK, steveVars, history
  <2> QED
    BY <1>9, <2>1, <2>2, <2>3 DEF Poll
<1>10. CASE RestartWeb
    BY <1>10, Constants DEF RestartWeb, Fault, TypeOK, steveVars, history
<1>11. CASE UNCHANGED vars
    BY <1>11 DEF vars, TypeOK, steveVars, history
<1> QED
    BY <1>1, <1>2, <1>3, <1>4, <1>5, <1>6, <1>7, <1>8, <1>9, <1>10, <1>11 DEF Next

\* Every variable keeps its type: rows have a status of the schema's list and a
\* call never holds a window outside the bounds.
THEOREM TypeCorrect == Spec => []TypeOK
BY InitType, NextType, PTL DEF Spec

---------------------------------------------------------------------------
(* Double bookings.                                                        *)

\* A creator inserts into an empty row; until ReserveNow's answer is stored
\* its row is pending or cancelled and has no task, so no poll touches it; a
\* call is about a row that exists.
CallsInOrder ==
    /\ \A b \in Bookings :
          /\ create[b].pc = "insert" => row[b].status = "none"
          /\ create[b].pc \in {"reserve", "save"}
             => row[b].status \in {"pending", "cancelled"} /\ ~row[b].task
    /\ \A c \in Clients :
          client[c].pc # "idle" => row[client[c].booking].status # "none"
    /\ \A b \in poll.todo : row[b].task /\ row[b].status # "none"

\* Two windows checked at the same time are excused.
RacesExcused == \A a, b \in Checked : a # b => {a, b} \in excused

\* The bookings that stand in the way of this window are excused.
ClearFor(b, connector, from, to) ==
    \A d \in Conflicts(b, connector, from, to) : {b, d} \in excused

\* What was checked before an insert, or before a move, still holds.
ChecksHold == \A b \in Bookings :
    create[b].pc = "insert"
    => ClearFor(b, create[b].connector, create[b].from, create[b].to)
MovesHold == \A c \in Clients :
    client[c].pc = "move"
    => ClearFor(client[c].booking, row[client[c].booking].connector,
                client[c].from, client[c].to)

RowsClear == \A b \in Bookings :
    row[b].status \in Blocking
    => ClearFor(b, row[b].connector, row[b].from, row[b].to)

BookingInv == TypeOK /\ CallsInOrder /\ RacesExcused /\ ChecksHold /\ MovesHold
              /\ RowsClear

\* A shared connector and slot is what checkConflicts looks for.
LEMMA SharedSpaceConflicts ==
    ASSUME TypeOK, NEW a \in Bookings, NEW b \in Bookings, DoubleBooked(a, b)
    PROVE  b \in Conflicts(a, row[a].connector, row[a].from, row[a].to)
<1>1. row[a] \in Rows /\ row[b] \in Rows
    BY DEF TypeOK
<1>2. PICK p \in Space(a) : p \in Space(b)
    BY DEF DoubleBooked
<1>3. p[2] \in row[a].from .. row[a].to - 1 /\ p[2] \in row[b].from .. row[b].to - 1
    BY <1>2 DEF Space
<1>4. row[b].from < row[a].to /\ row[b].to > row[a].from
    BY <1>1, <1>3, BookingAssumption DEF Rows
<1>5. p[1] \in (IF row[a].connector = 0 THEN Connectors ELSE {row[a].connector})
      /\ p[1] \in (IF row[b].connector = 0 THEN Connectors ELSE {row[b].connector})
    BY <1>2 DEF Space
<1>6. row[a].connector = 0 \/ row[b].connector \in {row[a].connector, 0}
    BY <1>5
<1> QED
    BY <1>4, <1>6 DEF Conflicts, DoubleBooked

\* A step that books nothing new and starts no check keeps every clearance:
\* windows stay, no status becomes blocking, checks in progress only end.
LEMMA QuietStep ==
    ASSUME TypeOK, RacesExcused, ChecksHold, MovesHold, RowsClear,
           excused \subseteq excused',
           \A d \in Bookings : /\ row'[d].connector = row[d].connector
                               /\ row'[d].from = row[d].from
                               /\ row'[d].to = row[d].to
                               /\ row'[d].status \in Blocking
                                  => row[d].status \in Blocking,
           \A b \in Bookings : create'[b].pc = "insert" => create'[b] = create[b],
           \A c \in Clients : client'[c].pc = "move" => client'[c] = client[c]
    PROVE  RacesExcused' /\ ChecksHold' /\ MovesHold' /\ RowsClear'
<1>1. Checked' \subseteq Checked
    BY DEF Checked
<1>2. RacesExcused'
    BY <1>1 DEF RacesExcused
<1>3. ASSUME NEW b \in Bookings, NEW connector, NEW from, NEW to,
             ClearFor(b, connector, from, to)
      PROVE  ClearFor(b, connector, from, to)'
    BY <1>3 DEF ClearFor, Conflicts
<1>4. ChecksHold'
    BY <1>3 DEF ChecksHold
<1>5. \A c \in Clients : client[c].booking \in Bookings
    BY DEF TypeOK, Calls
<1>6. MovesHold'
    BY <1>3, <1>5 DEF MovesHold
<1>7. RowsClear'
    BY <1>3 DEF RowsClear
<1> QED
    BY <1>2, <1>4, <1>6, <1>7

\* A check that begins finds no obstacle, or excuses them all; the windows
\* checked meanwhile are excused with it.
LEMMA CheckBegins ==
    ASSUME TypeOK, RacesExcused, NEW b \in Bookings, NEW force \in BOOLEAN,
           NEW connector, NEW from, NEW to,
           force \/ Conflicts(b, connector, from, to) = {},
           row' = row, Excuses(b, force), Checked' \subseteq Checked \cup {b}
    PROVE  RacesExcused' /\ ClearFor(b, connector, from, to)'
<1>1. excused \subseteq excused'
    BY ExcusesType
<1>2. ASSUME NEW d \in Checked, d # b PROVE {b, d} \in excused'
  <2>1. d \in Bookings
    BY CheckedType
  <2> QED
    BY <1>2, <2>1 DEF Excuses, Excuse
<1>3. RacesExcused'
  <2> SUFFICES ASSUME NEW a \in Checked', NEW d \in Checked', a # d
               PROVE  {a, d} \in excused'
    BY DEF RacesExcused
  <2>1. CASE a # b /\ d # b
    BY <1>1, <2>1 DEF RacesExcused
  <2>2. CASE a = b
    BY <1>2, <2>2
  <2>3. CASE d = b
    <3>1. {b, a} = {a, d}
      BY <2>3
    <3> QED
      BY <1>2, <2>3, <3>1
  <2> QED
    BY <2>1, <2>2, <2>3
<1>4. ASSUME NEW d \in Conflicts(b, connector, from, to)' PROVE {b, d} \in excused'
  <2>1. d \in Conflicts(b, connector, from, to) /\ d \in Bookings /\ d # b
    BY <1>4 DEF Conflicts
  <2>2. force
    BY <2>1
  <2> QED
    BY <2>1, <2>2 DEF Excuses, Excuse
<1> QED
    BY <1>3, <1>4 DEF ClearFor

\* Writing a checked window leaves every other booking clear: the two were
\* either seen by one check or checked at the same time.
LEMMA WindowWritten ==
    ASSUME BookingInv, NEW b \in Bookings, b \in Checked,
           excused' = excused,
           row'[b].status \in Blocking =>
              ClearFor(b, row'[b].connector, row'[b].from, row'[b].to),
           \A d \in Bookings \ {b} : row'[d] = row[d],
           \A d \in Bookings : create'[d].pc = "insert" => create'[d] = create[d] /\ d # b,
           \A c \in Clients : client'[c].pc = "move" => client'[c] = client[c],
           \A c \in Clients : client'[c].pc = "move" /\ client[c].booking = b
               => row'[b].connector = row[b].connector
    PROVE  RacesExcused' /\ ChecksHold' /\ MovesHold' /\ RowsClear'
<1> USE DEF BookingInv
<1>1. Checked' \subseteq Checked
    BY DEF Checked
<1>2. RacesExcused'
    BY <1>1 DEF RacesExcused
<1>3. ASSUME NEW d \in Bookings, NEW connector, NEW from, NEW to,
             ClearFor(d, connector, from, to), d = b \/ {d, b} \in excused
      PROVE  ClearFor(d, connector, from, to)'
  <2> SUFFICES ASSUME NEW e \in Conflicts(d, connector, from, to)'
               PROVE  {d, e} \in excused
    BY DEF ClearFor
  <2>1. CASE e = b
    BY <1>3, <2>1 DEF Conflicts
  <2>2. CASE e # b
    BY <1>3, <2>2 DEF Conflicts, ClearFor
  <2> QED
    BY <2>1, <2>2
<1>4. \A d \in Checked : d = b \/ {d, b} \in excused
    BY DEF RacesExcused
<1>5. ChecksHold'
  <2> SUFFICES ASSUME NEW d \in Bookings, create'[d].pc = "insert"
               PROVE  ClearFor(d, create[d].connector, create[d].from, create[d].to)'
    BY DEF ChecksHold
  <2>1. create'[d] = create[d] /\ d \in Checked
    BY DEF Checked
  <2> QED
    BY <1>3, <1>4, <2>1 DEF ChecksHold
<1>6. MovesHold'
  <2> SUFFICES ASSUME NEW c \in Clients, client'[c].pc = "move"
               PROVE  ClearFor(client[c].booking, row[client[c].booking].connector,
                               client[c].from, client[c].to)'
    BY DEF MovesHold
  <2> DEFINE d == client[c].booking
  <2>1. client'[c] = client[c] /\ d \in Checked /\ d \in Bookings
    BY DEF Checked, TypeOK, Calls
  <2>2. row'[d].connector = row[d].connector
    BY <2>1
  <2>3. ClearFor(d, row[d].connector, client[c].from, client[c].to)
    BY <2>1 DEF MovesHold
  <2> QED
    BY <1>3, <1>4, <2>1, <2>2, <2>3
<1>7. RowsClear'
  <2> SUFFICES ASSUME NEW d \in Bookings, row'[d].status \in Blocking
               PROVE  ClearFor(d, row[d].connector, row[d].from, row[d].to)'
    BY DEF RowsClear
  <2>1. CASE d = b
    BY <1>3, <2>1
  <2>2. CASE d # b
    <3>1. row'[d] = row[d]
      BY <2>2
    <3>2. ClearFor(d, row[d].connector, row[d].from, row[d].to)
      BY <3>1 DEF RowsClear
    <3> SUFFICES ASSUME NEW e \in Conflicts(d, row[d].connector, row[d].from, row[d].to)'
                 PROVE  {d, e} \in excused
      BY <3>1 DEF ClearFor
    <3>3. CASE e # b
      BY <3>2, <3>3 DEF Conflicts, ClearFor
    <3>4. CASE e = b
      <4>1. d \in Conflicts(b, row'[b].connector, row'[b].from, row'[b].to)
        BY <2>2, <3>1, <3>4 DEF Conflicts
      <4>2. {b, d} \in excused
        BY <3>4, <4>1 DEF ClearFor, Conflicts
      <4>3. {b, d} = {d, e}
        BY <3>4
      <4> QED
        BY <4>2, <4>3
    <3> QED
      BY <3>3, <3>4
  <2> QED
    BY <2>1, <2>2
<1> QED
    BY <1>2, <1>5, <1>6, <1>7

\* One step of a creator keeps the invariant.
LEMMA CreateKeeps ==
    ASSUME BookingInv, NEW b \in Bookings, Create(b)
    PROVE  CallsInOrder' /\ RacesExcused' /\ ChecksHold' /\ MovesHold' /\ RowsClear'
<1> USE DEF BookingInv
<1>0. TypeOK' /\ row[b] \in Rows /\ create[b] \in Creates /\ NoCreate.pc = "idle"
    BY CreateType DEF TypeOK, NoCreate
<1>1. ASSUME NEW connector \in Connectors \cup {0}, NEW w \in Windows,
             NEW force \in {FALSE, Forcing}, CreateCheck(b, connector, w, force)
      PROVE  CallsInOrder' /\ RacesExcused' /\ ChecksHold' /\ MovesHold' /\ RowsClear'
  <2>1. force \in BOOLEAN /\ row' = row /\ client' = client
    BY <1>1, BookingAssumption DEF CreateCheck
  <2>2. excused \subseteq excused'
    BY <1>1, <2>1, ExcusesType DEF CreateCheck
  <2>3. /\ create'[b].pc = "insert" /\ create'[b].connector = connector
        /\ create'[b].from = w.from /\ create'[b].to = w.to
        /\ \A d \in Bookings \ {b} : create'[d] = create[d]
    BY <1>1 DEF CreateCheck, TypeOK, NoCreate
  <2>4. Checked' \subseteq Checked \cup {b}
    BY <2>1, <2>3 DEF Checked
  <2>5. RacesExcused' /\ ClearFor(b, connector, w.from, w.to)'
    BY <1>1, <2>1, <2>4, CheckBegins DEF CreateCheck
  <2>6. ASSUME NEW d \in Bookings, NEW k, NEW from, NEW to, ClearFor(d, k, from, to)
        PROVE  ClearFor(d, k, from, to)'
    BY <2>1, <2>2, <2>6 DEF ClearFor, Conflicts
  <2>7. ChecksHold'
    BY <2>3, <2>5, <2>6 DEF ChecksHold
  <2>8. MovesHold' /\ RowsClear'
    <3>1. \A c \in Clients : client[c].booking \in Bookings
      BY DEF TypeOK, Calls
    <3> QED
      BY <2>1, <2>6, <3>1 DEF MovesHold, RowsClear
  <2>9. CallsInOrder'
    BY <1>1, <2>1, <2>3 DEF CreateCheck, CallsInOrder
  <2> QED
    BY <2>5, <2>7, <2>8, <2>9
<1>2. CASE CreateInsert(b)
  <2>1. /\ create[b].pc = "insert" /\ client' = client /\ excused' = excused
        /\ poll' = poll /\ row[b].status = "none"
    BY <1>2 DEF CreateInsert, history, CallsInOrder
  <2>2. /\ row'[b].status = "pending" /\ row'[b].connector = create[b].connector
        /\ row'[b].from = create[b].from /\ row'[b].to = create[b].to
        /\ row'[b].task = FALSE
        /\ \A d \in Bookings \ {b} : row'[d] = row[d]
    BY <1>2 DEF CreateInsert, TypeOK, NoRow
  <2>3. create'[b].pc = "reserve" /\ \A d \in Bookings \ {b} : create'[d] = create[d]
    BY <1>2 DEF CreateInsert, TypeOK, NoCreate
  <2>4. b \in Checked /\ ClearFor(b, row'[b].connector, row'[b].from, row'[b].to)
    BY <2>1, <2>2 DEF Checked, ChecksHold
  <2>5. \A c \in Clients : client[c].pc = "move" => client[c].booking # b
    BY <2>1 DEF CallsInOrder
  <2>6. RacesExcused' /\ ChecksHold' /\ MovesHold' /\ RowsClear'
    BY <2>1, <2>2, <2>3, <2>4, <2>5, WindowWritten
  <2>7. b \notin poll.todo
    BY <2>1 DEF CallsInOrder
  <2>8. CallsInOrder'
    <3>1. \A d \in poll'.todo : row'[d].task /\ row'[d].status # "none"
      BY <2>1, <2>2, <2>7 DEF CallsInOrder, TypeOK
    <3>2. \A c \in Clients :
             client'[c].pc # "idle" => row'[client'[c].booking].status # "none"
      BY <2>1, <2>2 DEF CallsInOrder, TypeOK, Calls
    <3> QED
      BY <2>2, <2>3, <3>1, <3>2 DEF CallsInOrder
  <2> QED
    BY <2>6, <2>8
<1>3. CASE CreateThrows(b)
  <2>1. /\ row' = row /\ client' = client /\ excused' = excused /\ poll' = poll
        /\ create'[b].pc = "idle" /\ \A d \in Bookings \ {b} : create'[d] = create[d]
    BY <1>0, <1>3 DEF CreateThrows, history, TypeOK
  <2>2. RacesExcused' /\ ChecksHold' /\ MovesHold' /\ RowsClear'
    BY <2>1, QuietStep
  <2>3. CallsInOrder'
    BY <2>1 DEF CallsInOrder
  <2> QED
    BY <2>2, <2>3
<1>4. ASSUME NEW answer \in Answers, CreateReserve(b, answer)
      PROVE  CallsInOrder' /\ RacesExcused' /\ ChecksHold' /\ MovesHold' /\ RowsClear'
  <2>1. /\ row' = row /\ client' = client /\ excused' = excused /\ poll' = poll
        /\ create[b].pc = "reserve" /\ create'[b].pc = "save"
        /\ \A d \in Bookings \ {b} : create'[d] = create[d]
    BY <1>0, <1>4 DEF CreateReserve, history, TypeOK, Creates
  <2>2. RacesExcused' /\ ChecksHold' /\ MovesHold' /\ RowsClear'
    BY <2>1, QuietStep
  <2>3. CallsInOrder'
    BY <2>1 DEF CallsInOrder
  <2> QED
    BY <2>2, <2>3
<1>5. CASE CreateReserveLost(b) \/ CreateSaveFails(b)
  <2>1. /\ row' = row /\ client' = client /\ excused' = excused /\ poll' = poll
        /\ create'[b].pc = "idle" /\ \A d \in Bookings \ {b} : create'[d] = create[d]
    BY <1>0, <1>5 DEF CreateReserveLost, CreateSaveFails, history, TypeOK
  <2>2. RacesExcused' /\ ChecksHold' /\ MovesHold' /\ RowsClear'
    BY <2>1, QuietStep
  <2>3. CallsInOrder'
    BY <2>1 DEF CallsInOrder
  <2> QED
    BY <2>2, <2>3
<1>6. CASE CreateSave(b)
  <2>1. /\ client' = client /\ poll' = poll /\ create[b].pc = "save"
        /\ create'[b].pc = "idle"
        /\ \A d \in Bookings \ {b} : create'[d] = create[d] /\ row'[d] = row[d]
    BY <1>0, <1>6 DEF CreateSave, TypeOK
  <2>2. row[b].status \in {"pending", "cancelled"} /\ b \notin poll.todo
    BY <2>1 DEF CallsInOrder
  <2>3. /\ row'[b].connector = row[b].connector /\ row'[b].from = row[b].from
        /\ row'[b].to = row[b].to /\ row'[b].status \in {"confirmed", "conflicted", row[b].status}
    BY <1>0, <1>6 DEF CreateSave, TypeOK, Rows
  <2>4. CallsInOrder'
    <3>1. row'[b].status # "none"
      BY <2>2, <2>3
    <3> QED
      BY <2>1, <2>2, <3>1 DEF CallsInOrder, TypeOK, Calls
  <2>5. CASE row[b].status = "pending" \/ row'[b].status \notin Blocking
    <3>1. excused' = excused
      BY <1>6, <2>5 DEF CreateSave, TypeOK, Rows
    <3>2. row'[b].status \in Blocking => row[b].status \in Blocking
      BY <2>5 DEF Blocking
    <3> QED
      BY <2>1, <2>3, <2>4, <3>1, <3>2, QuietStep
  <2>6. CASE row[b].status = "cancelled" /\ row'[b].status \in Blocking
    <3>1. excused' = excused \cup {{b, d} : d \in Bookings \ {b}}
      BY <1>0, <1>6, <2>6 DEF CreateSave, TypeOK, Rows, Excuse
    <3>2. ASSUME NEW d \in Bookings \ {b}
          PROVE  {b, d} \in excused' /\ {d, b} \in excused'
      <4>1. {d, b} = {b, d}
        OBVIOUS
      <4> QED
        BY <3>1, <4>1
    <3>3. excused \subseteq excused'
      BY <3>1
    <3> HIDE <1>6, <3>1
    <3>4. ASSUME NEW d \in Bookings, NEW k, NEW from, NEW to,
                 d = b \/ ClearFor(d, k, from, to)
          PROVE  ClearFor(d, k, from, to)'
      <4> SUFFICES ASSUME NEW e \in Conflicts(d, k, from, to)'
                   PROVE  {d, e} \in excused'
        BY DEF ClearFor
      <4>1. e \in Bookings /\ e # d
        BY DEF Conflicts
      <4>2. CASE d = b \/ e = b
        BY <3>2, <4>1, <4>2
      <4>3. CASE d # b /\ e # b
        <5>1. row'[e] = row[e]
          BY <2>1, <4>1, <4>3
        <5>2. e \in Conflicts(d, k, from, to)
          BY <4>1, <5>1 DEF Conflicts
        <5> QED
          BY <3>3, <3>4, <4>3, <5>2 DEF ClearFor
      <4> QED
        BY <4>2, <4>3
    <3>5. \A d \in Bookings : row'[d].connector = row[d].connector
                               /\ row'[d].from = row[d].from /\ row'[d].to = row[d].to
      BY <2>1, <2>3
    <3>6. RacesExcused'
      <4>1. Checked' \subseteq Checked
        BY <2>1 DEF Checked
      <4> QED
        BY <3>3, <4>1 DEF RacesExcused
    <3>7. ChecksHold'
      <4>1. \A d \in Bookings : create'[d].pc = "insert" => create'[d] = create[d]
        BY <2>1
      <4> QED
        BY <3>4, <4>1 DEF ChecksHold
    <3>8. MovesHold'
      <4>1. \A c \in Clients : client[c].booking \in Bookings
        BY DEF TypeOK, Calls
      <4> QED
        BY <2>1, <3>4, <3>5, <4>1 DEF MovesHold
    <3>9. RowsClear'
      <4>1. \A d \in Bookings \ {b} :
               row'[d].status \in Blocking => row[d].status \in Blocking
        BY <2>1
      <4> QED
        BY <3>4, <3>5, <4>1 DEF RowsClear
    <3> QED
      BY <2>4, <3>6, <3>7, <3>8, <3>9
  <2> QED
    BY <2>2, <2>5, <2>6
<1> QED
    BY <1>1, <1>2, <1>3, <1>4, <1>5, <1>6 DEF Create
\* One step of a cancel or a reschedule keeps the invariant.
LEMMA CallKeeps ==
    ASSUME BookingInv, NEW c \in Clients, Call(c)
    PROVE  CallsInOrder' /\ RacesExcused' /\ ChecksHold' /\ MovesHold' /\ RowsClear'
<1> USE DEF BookingInv
<1>0. /\ client[c] \in Calls /\ client[c].booking \in Bookings
      /\ NoCall.pc = "idle" /\ NoCall \in Calls
      /\ \A d \in Clients : client[d].booking \in Bookings
    BY Constants DEF TypeOK, Calls, NoCall
<1>1. ASSUME NEW b \in Bookings, CancelRead(c, b)
      PROVE  CallsInOrder' /\ RacesExcused' /\ ChecksHold' /\ MovesHold' /\ RowsClear'
  <2>1. /\ row' = row /\ create' = create /\ excused' = excused /\ poll' = poll
        /\ row[b].status # "none" /\ client'[c].booking = b
        /\ client'[c].pc \in {"dispatch", "cancel"}
        /\ \A d \in Clients \ {c} : client'[d] = client[d]
    BY <1>1 DEF CancelRead, TypeOK, NoCall
  <2>2. RacesExcused' /\ ChecksHold' /\ MovesHold' /\ RowsClear'
    BY <2>1, QuietStep
  <2>3. CallsInOrder'
    BY <2>1 DEF CallsInOrder
  <2> QED
    BY <2>2, <2>3
<1>2. CASE CancelDispatch(c) \/ CancelDispatchFails(c)
  <2>1. /\ row' = row /\ create' = create /\ excused' = excused /\ poll' = poll
        /\ client[c].pc = "dispatch" /\ client'[c].booking = client[c].booking
        /\ client'[c].pc = "cancel"
        /\ \A d \in Clients \ {c} : client'[d] = client[d]
    BY <1>0, <1>2 DEF CancelDispatch, CancelDispatchFails, steveVars, TypeOK, Calls
  <2>2. RacesExcused' /\ ChecksHold' /\ MovesHold' /\ RowsClear'
    BY <2>1, QuietStep
  <2>3. CallsInOrder'
    BY <2>1 DEF CallsInOrder
  <2> QED
    BY <2>2, <2>3
<1>3. CASE CancelWrite(c)
  <2> DEFINE b == client[c].booking
  <2>1. /\ create' = create /\ excused' = excused /\ poll' = poll
        /\ client[c].pc = "cancel" /\ client'[c].pc = "idle"
        /\ \A d \in Clients \ {c} : client'[d] = client[d]
        /\ row' = [row EXCEPT ![b].status = "cancelled"]
    BY <1>0, <1>3 DEF CancelWrite, history, TypeOK
  <2>2. row[b].status # "none"
    BY <2>1 DEF CallsInOrder
  <2>3. /\ row'[b].status = "cancelled" /\ row'[b].connector = row[b].connector
        /\ row'[b].from = row[b].from /\ row'[b].to = row[b].to
        /\ row'[b].task = row[b].task
        /\ \A d \in Bookings \ {b} : row'[d] = row[d]
    BY <1>0, <2>1 DEF TypeOK, Rows
  <2>4. "cancelled" \notin Blocking
    BY DEF Blocking
  <2>5. RacesExcused' /\ ChecksHold' /\ MovesHold' /\ RowsClear'
    <3>1. \A d \in Bookings : /\ row'[d].connector = row[d].connector
                              /\ row'[d].from = row[d].from
                              /\ row'[d].to = row[d].to
                              /\ row'[d].status \in Blocking
                                 => row[d].status \in Blocking
      BY <2>3, <2>4
    <3> QED
      BY <2>1, <3>1, QuietStep
  <2>6. CallsInOrder'
    <3>1. \A d \in Bookings : /\ row'[d].task = row[d].task
                              /\ row'[d].status \in {row[d].status, "cancelled"}
                              /\ row[d].status # "none" => row'[d].status # "none"
                              /\ row[d].status = "none" => row'[d].status = "none"
      BY <2>2, <2>3
    <3> HIDE DEF b
    <3>2. \A d \in poll.todo : d \in Bookings
      BY DEF TypeOK
    <3> QED
      BY <1>0, <2>1, <3>1, <3>2 DEF CallsInOrder
  <2> QED
    BY <2>5, <2>6
<1>4. ASSUME NEW b \in Bookings, NEW w \in Windows,
             NEW force \in {FALSE, Forcing}, MoveRead(c, b, w, force)
      PROVE  CallsInOrder' /\ RacesExcused' /\ ChecksHold' /\ MovesHold' /\ RowsClear'
  <2>1. /\ force \in BOOLEAN /\ row' = row /\ create' = create /\ poll' = poll
        /\ row[b].status # "none"
        /\ client'[c].pc = "move" /\ client'[c].booking = b
        /\ client'[c].from = w.from /\ client'[c].to = w.to
        /\ \A d \in Clients \ {c} : client'[d] = client[d]
    BY <1>4, BookingAssumption DEF MoveRead, TypeOK, NoCall
  <2>2. excused \subseteq excused'
    BY <1>4, <2>1, ExcusesType DEF MoveRead
  <2>3. Checked' \subseteq Checked \cup {b}
    BY <2>1 DEF Checked
  <2>4. RacesExcused' /\ ClearFor(b, row[b].connector, w.from, w.to)'
    <3>1. RacesExcused' /\ \A e \in Conflicts(b, row[b].connector, w.from, w.to)' :
                              {b, e} \in excused'
      <4>1. Conflicts(b, row[b].connector, w.from, w.to)'
            = Conflicts(b, row[b].connector, w.from, w.to)
        BY <2>1 DEF Conflicts
      <4>2. RacesExcused'
        BY <1>4, <2>1, <2>3, CheckBegins DEF MoveRead
      <4>3. ASSUME NEW e \in Conflicts(b, row[b].connector, w.from, w.to)
            PROVE  {b, e} \in excused'
        <5>1. force /\ e \in Bookings \ {b}
          BY <1>4, <4>3 DEF MoveRead, Conflicts
        <5> QED
          BY <1>4, <5>1 DEF MoveRead, Excuses, Excuse
      <4> QED
        BY <4>1, <4>2, <4>3
    <3> QED
      BY <3>1 DEF ClearFor
  <2>5. ASSUME NEW d \in Bookings, NEW k, NEW from, NEW to, ClearFor(d, k, from, to)
        PROVE  ClearFor(d, k, from, to)'
    BY <2>1, <2>2, <2>5 DEF ClearFor, Conflicts
  <2>6. ChecksHold' /\ RowsClear'
    BY <2>1, <2>5 DEF ChecksHold, RowsClear
  <2>7. MovesHold'
    <3> SUFFICES ASSUME NEW d \in Clients, client'[d].pc = "move"
                 PROVE  ClearFor(client[d].booking, row[client[d].booking].connector,
                                 client[d].from, client[d].to)'
      BY DEF MovesHold
    <3>1. CASE d = c
      BY <2>1, <2>4, <3>1
    <3>2. CASE d # c
      BY <1>0, <2>1, <2>5, <3>2 DEF MovesHold
    <3> QED
      BY <3>1, <3>2
  <2>8. CallsInOrder'
    BY <2>1 DEF CallsInOrder
  <2> QED
    BY <2>4, <2>6, <2>7, <2>8
<1>5. CASE MoveWrite(c)
  <2> DEFINE b == client[c].booking
  <2>1. /\ create' = create /\ excused' = excused /\ poll' = poll
        /\ client[c].pc = "move" /\ client'[c].pc = "idle"
        /\ \A d \in Clients \ {c} : client'[d] = client[d]
        /\ row' = [row EXCEPT ![b].from = client[c].from, ![b].to = client[c].to]
    BY <1>0, <1>5 DEF MoveWrite, history, TypeOK
  <2>2. /\ row'[b].status = row[b].status /\ row'[b].connector = row[b].connector
        /\ row'[b].from = client[c].from /\ row'[b].to = client[c].to
        /\ row'[b].task = row[b].task
        /\ \A d \in Bookings \ {b} : row'[d] = row[d]
    BY <1>0, <2>1 DEF TypeOK, Rows
  <2>3. b \in Bookings /\ b \in Checked /\ row[b].status # "none"
    BY <1>0, <2>1 DEF Checked, CallsInOrder
  <2>4. ClearFor(b, row'[b].connector, row'[b].from, row'[b].to)
    BY <2>1, <2>2 DEF MovesHold
  <2>5. RacesExcused' /\ ChecksHold' /\ MovesHold' /\ RowsClear'
    <3>1. \A d \in Bookings : create'[d].pc = "insert" => create'[d] = create[d] /\ d # b
      BY <2>1, <2>3 DEF CallsInOrder
    <3>3. row'[b].connector = row[b].connector
      BY <2>2
    <3>2. \A d \in Clients : client'[d].pc = "move" => client'[d] = client[d]
      BY <2>1
    <3> HIDE DEF b
    <3> QED
      BY <2>1, <2>2, <2>3, <2>4, <3>1, <3>2, <3>3, WindowWritten
  <2>6. CallsInOrder'
    <3>1. \A d \in Bookings : row'[d].task = row[d].task /\ row'[d].status = row[d].status
      BY <2>2
    <3> HIDE DEF b
    <3>2. \A d \in poll.todo : d \in Bookings
      BY DEF TypeOK
    <3>3. \A d \in Bookings :
             /\ create'[d].pc = "insert" => row'[d].status = "none"
             /\ create'[d].pc \in {"reserve", "save"}
                => row'[d].status \in {"pending", "cancelled"} /\ ~row'[d].task
      BY <2>1, <3>1 DEF CallsInOrder
    <3>4. ASSUME NEW d \in Clients, client'[d].pc # "idle"
          PROVE  row'[client'[d].booking].status # "none"
      <4>1. client'[d] = client[d]
        BY <2>1, <3>4
      <4>2. row[client[d].booking].status # "none" /\ client[d].booking \in Bookings
        BY <1>0, <3>4, <4>1 DEF CallsInOrder
      <4> QED
        BY <3>1, <4>1, <4>2
    <3>5. \A d \in poll'.todo : row'[d].task /\ row'[d].status # "none"
      BY <2>1, <3>1, <3>2 DEF CallsInOrder
    <3> QED
      BY <3>3, <3>4, <3>5 DEF CallsInOrder
  <2> QED
    BY <2>5, <2>6
<1>6. CASE CallThrows(c)
  <2>1. /\ row' = row /\ create' = create /\ excused' = excused /\ poll' = poll
        /\ client'[c].pc = "idle"
        /\ \A d \in Clients \ {c} : client'[d] = client[d]
    BY <1>0, <1>6 DEF CallThrows, history, TypeOK
  <2>2. RacesExcused' /\ ChecksHold' /\ MovesHold' /\ RowsClear'
    BY <2>1, QuietStep
  <2>3. CallsInOrder'
    BY <2>1 DEF CallsInOrder
  <2> QED
    BY <2>2, <2>3
<1> QED
    BY <1>1, <1>2, <1>3, <1>4, <1>5, <1>6 DEF Call

LEMMA NextKeeps == BookingInv /\ [Next]_vars => BookingInv'
<1> SUFFICES ASSUME BookingInv, [Next]_vars PROVE BookingInv'
    OBVIOUS
<1> USE DEF BookingInv
<1>0. TypeOK'
    BY NextType
<1>1. ASSUME NEW b \in Bookings, Create(b) PROVE BookingInv'
    BY <1>0, <1>1, CreateKeeps
<1>2. ASSUME NEW c \in Clients, Call(c) PROVE BookingInv'
    BY <1>0, <1>2, CallKeeps
<1>3. CASE Tick \/ UNCHANGED vars
           \/ \E b \in Bookings, answer \in Answers \ {"running"} : LateAnswer(b, answer)
  <2>1. /\ row' = row /\ create' = create /\ client' = client
        /\ excused' = excused /\ poll' = poll
    BY <1>3 DEF Tick, LateAnswer, history, vars
  <2>2. RacesExcused' /\ ChecksHold' /\ MovesHold' /\ RowsClear'
    BY <2>1, QuietStep
  <2>3. CallsInOrder'
    BY <2>1 DEF CallsInOrder
  <2> QED
    BY <1>0, <2>2, <2>3
<1>4. CASE BulkCancel
  <2>1. /\ create' = create /\ client' = client /\ excused' = excused
        /\ poll' = poll
        /\ \A d \in Bookings : /\ row'[d].connector = row[d].connector
                               /\ row'[d].from = row[d].from
                               /\ row'[d].to = row[d].to
                               /\ row'[d].task = row[d].task
                               /\ \/ row'[d].status = row[d].status
                                  \/ /\ row[d].status \in Blocking
                                     /\ row'[d].status = "cancelled"
    BY <1>4 DEF BulkCancel, TypeOK, Rows
  <2>2. RacesExcused' /\ ChecksHold' /\ MovesHold' /\ RowsClear'
    <3>1. "cancelled" \notin Blocking
      BY DEF Blocking
    <3> QED
      BY <2>1, <3>1, QuietStep
  <2>3. CallsInOrder'
    <3>1. /\ \A d \in poll.todo : d \in Bookings
          /\ \A c \in Clients : client[c].booking \in Bookings
          /\ "none" \notin Blocking
      BY DEF TypeOK, Calls, Blocking
    <3>2. \A d \in Bookings :
             /\ create'[d].pc = "insert" => row'[d].status = "none"
             /\ create'[d].pc \in {"reserve", "save"}
                => row'[d].status \in {"pending", "cancelled"} /\ ~row'[d].task
      BY <2>1, <3>1 DEF CallsInOrder
    <3>3. ASSUME NEW d \in Clients, client'[d].pc # "idle"
          PROVE  row'[client'[d].booking].status # "none"
      BY <2>1, <3>1, <3>3 DEF CallsInOrder
    <3>4. \A d \in poll'.todo : row'[d].task /\ row'[d].status # "none"
      BY <2>1, <3>1 DEF CallsInOrder
    <3> QED
      BY <3>2, <3>3, <3>4 DEF CallsInOrder
  <2> QED
    BY <1>0, <2>2, <2>3
<1>5. CASE PollBegin \/ PollEnd \/ PollAborts
  <2>1. /\ row' = row /\ create' = create /\ client' = client
        /\ excused' = excused
        /\ \A d \in poll'.todo : \/ d \in poll.todo
                                 \/ row[d].status = "pending" /\ row[d].task
    <3>1. CASE PollBegin
      BY <3>1 DEF PollBegin, history
    <3>2. CASE PollEnd \/ PollAborts
      BY <3>2 DEF PollEnd, PollAborts, history, TypeOK
    <3> QED
      BY <1>5, <3>1, <3>2
  <2>2. RacesExcused' /\ ChecksHold' /\ MovesHold' /\ RowsClear'
    BY <2>1, QuietStep
  <2>3. CallsInOrder'
    BY <2>1 DEF CallsInOrder
  <2> QED
    BY <1>0, <2>2, <2>3
<1>6. ASSUME NEW b \in Bookings, Poll(b) PROVE BookingInv'
  <2>1. /\ create' = create /\ client' = client /\ excused' = excused
        /\ poll'.todo \subseteq poll.todo
        /\ b \in poll.todo
    BY <1>6 DEF Poll, PollSettles, PollSkips, PollGetTaskFails, PollDone,
                history, TypeOK
  <2>2. \A d \in Bookings \ {b} : row'[d] = row[d]
    BY <1>6 DEF Poll, PollSettles, PollSkips, PollGetTaskFails, TypeOK
  <2>3. /\ row'[b].connector = row[b].connector /\ row'[b].from = row[b].from
        /\ row'[b].to = row[b].to /\ row'[b].task = row[b].task
        /\ \/ row'[b].status = row[b].status
           \/ /\ row[b].status = "pending"
              /\ row'[b].status \in {"conflicted", "confirmed"}
    BY <1>6 DEF Poll, PollSettles, PollSkips, PollGetTaskFails, TypeOK, Rows
  <2>4. RacesExcused' /\ ChecksHold' /\ MovesHold' /\ RowsClear'
    <3>1. "pending" \in Blocking
      BY DEF Blocking
    <3>2. \A d \in Bookings : /\ row'[d].connector = row[d].connector
                              /\ row'[d].from = row[d].from
                              /\ row'[d].to = row[d].to
                              /\ row'[d].status \in Blocking
                                 => row[d].status \in Blocking
      BY <2>2, <2>3, <3>1
    <3> QED
      BY <2>1, <3>2, QuietStep
  <2>5. CallsInOrder'
    <3>1. row[b].task /\ row[b].status # "none"
      BY <2>1 DEF CallsInOrder
    <3>2. \A d \in Bookings :
             /\ row'[d].task = row[d].task
             /\ row'[d].status = "none" <=> row[d].status = "none"
             /\ ~row[d].task => row'[d].status = row[d].status
      BY <2>2, <2>3, <3>1
    <3>3. \A d \in poll.todo : d \in Bookings
      BY DEF TypeOK
    <3>4. \A d \in Bookings :
             /\ create'[d].pc = "insert" => row'[d].status = "none"
             /\ create'[d].pc \in {"reserve", "save"}
                => row'[d].status \in {"pending", "cancelled"} /\ ~row'[d].task
      BY <2>1, <3>2 DEF CallsInOrder
    <3>5. ASSUME NEW d \in Clients, client'[d].pc # "idle"
          PROVE  row'[client'[d].booking].status # "none"
      <4>1. client[d].booking \in Bookings
        BY DEF TypeOK, Calls
      <4> QED
        BY <2>1, <3>2, <3>5, <4>1 DEF CallsInOrder
    <3>6. \A d \in poll'.todo : row'[d].task /\ row'[d].status # "none"
      BY <2>1, <3>2, <3>3 DEF CallsInOrder
    <3> QED
      BY <3>4, <3>5, <3>6 DEF CallsInOrder
  <2> QED
    BY <1>0, <2>4, <2>5
<1>7. CASE RestartWeb
  <2>1. /\ row' = row /\ excused' = excused /\ poll' = poll
        /\ \A b \in Bookings : create'[b].pc = "idle"
        /\ \A c \in Clients : client'[c].pc = "idle"
    BY <1>7 DEF RestartWeb, history, NoCreate, NoCall
  <2>2. RacesExcused' /\ ChecksHold' /\ MovesHold' /\ RowsClear'
    BY <2>1, QuietStep
  <2>3. CallsInOrder'
    BY <2>1 DEF CallsInOrder
  <2> QED
    BY <1>0, <2>2, <2>3
<1> QED
    BY <1>1, <1>2, <1>3, <1>4, <1>5, <1>6, <1>7 DEF Next

LEMMA InitClear == Init => BookingInv
<1> SUFFICES ASSUME Init PROVE BookingInv
    OBVIOUS
<1>1. TypeOK
    BY InitType
<1>2. /\ \A b \in Bookings : row[b].status = "none" /\ create[b].pc = "idle"
      /\ \A c \in Clients : client[c].pc = "idle"
      /\ poll.todo = {}
    BY DEF Init, NoRow, NoCreate, NoCall
<1>3. "none" \notin Blocking
    BY DEF Blocking
<1>4. Checked = {}
    BY <1>2 DEF Checked
<1> QED
    BY <1>1, <1>2, <1>3, <1>4
       DEF BookingInv, CallsInOrder, RacesExcused, ChecksHold, MovesHold, RowsClear

\* Nothing locks the table between checkConflicts and the write, so double
\* bookings do happen; but only when an admin forced one, when two checks
\* overlapped, or when a late ReserveNow answer revived a cancelled row.
THEOREM DoubleBookingsAreExplained == Spec => []DoubleBookingExplained
<1>1. BookingInv => DoubleBookingExplained
  <2> SUFFICES ASSUME BookingInv, NEW a \in Bookings, NEW b \in Bookings,
                      DoubleBooked(a, b)
               PROVE  {a, b} \in excused
    BY DEF DoubleBookingExplained
  <2>1. b \in Conflicts(a, row[a].connector, row[a].from, row[a].to)
    BY SharedSpaceConflicts DEF BookingInv
  <2>2. row[a].status \in Blocking
    BY DEF DoubleBooked
  <2> QED
    BY <2>1, <2>2 DEF BookingInv, RowsClear, ClearFor
<1> QED
    BY <1>1, InitClear, NextKeeps, PTL DEF Spec

---------------------------------------------------------------------------
(* The connectors a charger keeps, for every set of bookings and clients.  *)

\* Nothing is held for b, or to be held by a late answer, unless a cancel
\* missed the charger.
Released(b) ==
    b \in stray \/ (row[b].task /\ b \notin held /\ task[b] # "running")

\* What ties a row to its ReserveNow: before it was sent nothing is held; once
\* its answer is known only an accepted one holds; a conflicted row was
\* refused; a cancelled one is released.
RowHolds(b) ==
    /\ row[b].status # "active"
    /\ row[b].status = "none" \/ create[b].pc = "reserve"
       => b \notin held /\ task[b] = "none"
    /\ row[b].task \/ create[b].pc = "save"
       => (b \in held => task[b] = "accepted")
    /\ create[b].pc = "save" => /\ create[b].answer \in {task[b], "running"}
                                /\ create[b].answer # "none"
    /\ row[b].status = "conflicted" => row[b].task /\ task[b] \in {"refused", "error"}
    /\ row[b].status = "cancelled" => Released(b)

\* A cancel is about to tell the charger, or has, or need not.
CallHolds(c) ==
    /\ client[c].pc = "dispatch" => row[client[c].booking].task
    /\ client[c].pc = "cancel" => Released(client[c].booking)

HoldInv == (\A b \in Bookings : RowHolds(b)) /\ (\A c \in Clients : CallHolds(c))

LEMMA InitHolds == Init => HoldInv
BY DEF Init, HoldInv, RowHolds, CallHolds, NoRow, NoCreate, NoCall

\* A step that keeps what is known of b, whose row exists or is created.
Keeps(b) ==
    /\ RowHolds(b)'
    /\ row[b].status # "none" => (Released(b) => Released(b)')
                                 /\ (row[b].task => row'[b].task)

LEMMA CreateHolds ==
    ASSUME BookingInv, HoldInv, NEW b \in Bookings, Create(b)
    PROVE  HoldInv'
<1> USE DEF BookingInv
<1>0. /\ row[b] \in Rows /\ create[b] \in Creates /\ NoCreate.pc = "idle"
      /\ \A c \in Clients : client[c].booking \in Bookings
      /\ RowHolds(b)
    BY DEF TypeOK, NoCreate, Calls, HoldInv
<1>1. /\ client' = client /\ stray' = stray
      /\ \A d \in Bookings \ {b} :
            /\ row'[d] = row[d] /\ create'[d] = create[d] /\ task'[d] = task[d]
            /\ d \in held' <=> d \in held
    BY DEF Create, CreateCheck, CreateInsert, CreateThrows, CreateReserve,
           CreateReserveLost, CreateSave, CreateSaveFails, steveVars, history,
           TypeOK
<1>2. /\ create[b].pc = "insert" => row[b].status = "none"
      /\ create[b].pc \in {"reserve", "save"}
         => row[b].status \in {"pending", "cancelled"} /\ ~row[b].task
    BY DEF CallsInOrder
<1>3. ASSUME NEW connector \in Connectors \cup {0}, NEW w \in Windows,
             NEW force \in {FALSE, Forcing}, CreateCheck(b, connector, w, force)
      PROVE  Keeps(b)
  <2>1. row' = row /\ task' = task /\ held' = held /\ create'[b].pc = "insert"
        /\ row[b].status = "none"
    BY <1>3 DEF CreateCheck, steveVars, TypeOK, NoCreate
  <2> QED
    BY <1>0, <1>1, <2>1 DEF Keeps, RowHolds, Released
<1>4. ASSUME CreateInsert(b) PROVE Keeps(b)
  <2>1. /\ task' = task /\ held' = held /\ create'[b].pc = "reserve"
        /\ row'[b].status = "pending" /\ row'[b].task = FALSE
        /\ row[b].status = "none"
    BY <1>2, <1>4 DEF CreateInsert, steveVars, TypeOK, NoCreate, NoRow
  <2> QED
    BY <1>0, <1>1, <2>1 DEF Keeps, RowHolds, Released
<1>5. ASSUME CreateThrows(b) PROVE Keeps(b)
  <2>1. row' = row /\ task' = task /\ held' = held /\ create'[b].pc = "idle"
    BY <1>0, <1>5 DEF CreateThrows, steveVars, TypeOK
  <2> QED
    BY <1>0, <1>1, <2>1 DEF Keeps, RowHolds, Released
<1>6. ASSUME NEW answer \in Answers, CreateReserve(b, answer) PROVE Keeps(b)
  <2>1. /\ row' = row /\ task'[b] = answer /\ create[b].pc = "reserve"
        /\ create'[b].pc = "save" /\ create'[b].answer = answer
        /\ b \in held' <=> b \in held \/ answer = "accepted"
    BY <1>0, <1>6 DEF CreateReserve, TypeOK, Creates
  <2> QED
    BY <1>0, <1>1, <1>2, <2>1 DEF Keeps, RowHolds, Released, Answers
<1>7. ASSUME CreateReserveLost(b) PROVE Keeps(b)
  <2>1. /\ row' = row /\ task' = task /\ create[b].pc = "reserve"
        /\ create'[b].pc = "idle"
    BY <1>0, <1>7 DEF CreateReserveLost, TypeOK
  <2> QED
    BY <1>0, <1>1, <1>2, <2>1 DEF Keeps, RowHolds, Released
<1>8. ASSUME CreateSave(b) PROVE Keeps(b)
  <2> DEFINE answer == create[b].answer
  <2>1. /\ task' = task /\ held' = held /\ create[b].pc = "save"
        /\ create'[b].pc = "idle" /\ row'[b].task = TRUE
        /\ row'[b].status = IF answer = "accepted" THEN "confirmed"
                            ELSE IF answer = "running" THEN row[b].status
                            ELSE "conflicted"
    BY <1>0, <1>8 DEF CreateSave, steveVars, TypeOK, Rows
  <2>2. /\ row[b].status \in {"pending", "cancelled"} /\ ~row[b].task
        /\ row[b].status = "cancelled" => b \in stray
        /\ b \in held => task[b] = "accepted"
        /\ answer = task[b] \/ answer = "running"
    BY <1>0, <1>2, <2>1 DEF RowHolds, Released
  <2>3. answer \in {"none", "running", "accepted", "refused", "error"}
    BY <1>0 DEF Creates, Outcomes
  <2>4. answer # "none"
    BY <1>0, <2>1 DEF RowHolds
  <2> QED
    BY <1>0, <1>1, <2>1, <2>2, <2>3, <2>4 DEF Keeps, RowHolds, Released
<1>9. ASSUME CreateSaveFails(b) PROVE Keeps(b)
  <2>1. row' = row /\ task' = task /\ held' = held /\ create'[b].pc = "idle"
    BY <1>0, <1>9 DEF CreateSaveFails, steveVars, TypeOK
  <2> QED
    BY <1>0, <1>1, <2>1 DEF Keeps, RowHolds, Released
<1>10. Keeps(b)
  BY <1>3, <1>4, <1>5, <1>6, <1>7, <1>8, <1>9 DEF Create
<1>11. \A d \in Bookings : RowHolds(d)'
  <2>1. ASSUME NEW d \in Bookings \ {b} PROVE RowHolds(d)'
    BY <1>1 DEF HoldInv, RowHolds, Released
  <2> QED
    BY <1>10, <2>1 DEF Keeps
<1>12. ASSUME NEW c \in Clients PROVE CallHolds(c)'
  <2>1. client[c].pc # "idle" => row[client[c].booking].status # "none"
    BY DEF CallsInOrder
  <2>2. CallHolds(c)
    BY DEF HoldInv
  <2>3. CASE client[c].booking = b
    BY <1>1, <1>10, <2>1, <2>2, <2>3 DEF CallHolds, Keeps
  <2>4. CASE client[c].booking # b
    BY <1>0, <1>1, <2>2, <2>4 DEF CallHolds, Released
  <2> QED
    BY <2>3, <2>4
<1> QED
    BY <1>11, <1>12 DEF HoldInv

LEMMA CallKeepsHolds ==
    ASSUME BookingInv, HoldInv, NEW c \in Clients, Call(c)
    PROVE  HoldInv'
<1> DEFINE b == client[c].booking
<1> USE DEF BookingInv
<1>0. /\ NoCall.pc = "idle"
      /\ \A d \in Clients : client[d].booking \in Bookings
      /\ \A d \in Clients : client[d] \in Calls
    BY DEF TypeOK, NoCall, Calls
<1>1. /\ task' = task /\ create' = create
      /\ stray \subseteq stray' /\ held' \subseteq held
      /\ \A d \in Clients \ {c} : client'[d] = client[d]
    BY DEF Call, CancelRead, CancelDispatch, CancelDispatchFails, CancelWrite,
           MoveRead, MoveWrite, CallThrows, steveVars, history, TypeOK
\* A row keeps its status and its task, unless it is the cancelled one.
<1>2. \A d \in Bookings :
         /\ row'[d].task = row[d].task
         /\ \/ row'[d].status = row[d].status
            \/ /\ client[c].pc = "cancel" /\ d = b
               /\ row'[d].status = "cancelled"
  <2>1. ASSUME NEW e \in Bookings, CancelRead(c, e) \/ CancelDispatch(c)
                                   \/ CancelDispatchFails(c) \/ CallThrows(c)
        PROVE  row' = row
    BY <2>1 DEF CancelRead, CancelDispatch, CancelDispatchFails, CallThrows
  <2>2. ASSUME NEW e \in Bookings, NEW w \in Windows,
               NEW force \in {FALSE, Forcing}, MoveRead(c, e, w, force)
        PROVE  row' = row
    BY <2>2 DEF MoveRead
  <2>3. CASE CancelWrite(c)
    BY <1>0, <2>3 DEF CancelWrite, TypeOK, Rows
  <2>4. CASE MoveWrite(c)
    BY <1>0, <2>4 DEF MoveWrite, TypeOK, Rows
  <2> HIDE DEF b
  <2> QED
    BY <2>1, <2>2, <2>3, <2>4 DEF Call
<1>3. \A d \in Bookings : Released(d) => Released(d)'
    BY <1>1, <1>2 DEF Released
<1>4. client[c].pc = "cancel" => Released(b) /\ row[b].status # "none"
    BY DEF HoldInv, CallHolds, CallsInOrder
<1>5. ASSUME NEW d \in Bookings PROVE RowHolds(d)'
  <2> HIDE DEF b
  <2>1. RowHolds(d)
    BY DEF HoldInv
  <2>2. row'[d].status = "cancelled" => Released(d)'
    BY <1>2, <1>3, <1>4, <2>1 DEF RowHolds
  <2>3. row'[d].status = "none" => row[d].status = "none"
    BY <1>2
  <2>4. row'[d].status \in {"active", "conflicted"} => row'[d].status = row[d].status
    BY <1>2
  <2>5. row'[d].task = row[d].task
    BY <1>2
  <2> QED
    BY <1>1, <2>1, <2>2, <2>3, <2>4, <2>5 DEF RowHolds
<1>6. CallHolds(c)'
  <2>1. ASSUME NEW e \in Bookings, CancelRead(c, e) PROVE CallHolds(c)'
    <3> DEFINE dispatch == row[e].task /\ row[e].status \in {"pending", "confirmed"}
    <3>1. /\ client'[c].booking = e
          /\ client'[c].pc = IF dispatch THEN "dispatch" ELSE "cancel"
          /\ row' = row /\ held' = held
          /\ row[e].status \notin {"none", "cancelled"}
          /\ row[e].task \/ e \in stray'
      BY <2>1 DEF CancelRead, TypeOK, NoCall, steveVars
    <3>2. RowHolds(e) /\ row[e].status \in Statuses
      BY DEF HoldInv, TypeOK, Rows
    <3>3. ~dispatch => Released(e)'
      <4>1. ASSUME ~dispatch, row[e].task
            PROVE  e \notin held /\ task[e] \in {"refused", "error"}
        <5>1. row[e].status = "conflicted"
          BY <3>1, <3>2, <4>1 DEF Statuses, RowHolds
        <5> QED
          BY <3>2, <4>1, <5>1 DEF RowHolds
      <4> HIDE DEF dispatch
      <4> QED
        BY <1>1, <3>1, <4>1 DEF Released
    <3> QED
      BY <3>1, <3>3 DEF CallHolds
  <2>2. ASSUME CancelDispatch(c) PROVE CallHolds(c)'
    <3>1. /\ client'[c].booking = b /\ client'[c].pc = "cancel" /\ row' = row
          /\ row[b].task /\ b \notin held'
          /\ task[b] = "running" => b \in stray'
      BY <1>0, <2>2 DEF CancelDispatch, TypeOK, Calls, HoldInv, CallHolds
    <3> HIDE DEF b
    <3> QED
      BY <1>1, <3>1 DEF CallHolds, Released
  <2>3. ASSUME CancelDispatchFails(c) PROVE CallHolds(c)'
    <3>1. client'[c].booking = b /\ client'[c].pc = "cancel" /\ b \in stray'
      BY <1>0, <2>3 DEF CancelDispatchFails, TypeOK, Calls
    <3> QED
      BY <3>1 DEF CallHolds, Released
  <2>4. ASSUME CancelWrite(c) \/ MoveWrite(c) \/ CallThrows(c) PROVE CallHolds(c)'
    BY <1>0, <2>4 DEF CancelWrite, MoveWrite, CallThrows, TypeOK, CallHolds
  <2>5. ASSUME NEW e \in Bookings, NEW w \in Windows,
               NEW force \in {FALSE, Forcing}, MoveRead(c, e, w, force)
        PROVE  CallHolds(c)'
    BY <2>5 DEF MoveRead, TypeOK, CallHolds, NoCall
  <2> QED
    BY <2>1, <2>2, <2>3, <2>4, <2>5 DEF Call
<1>7. ASSUME NEW d \in Clients \ {c} PROVE CallHolds(d)'
  <2>1. CallHolds(d) /\ client'[d] = client[d]
    BY <1>1 DEF HoldInv
  <2> QED
    BY <1>0, <1>2, <1>3, <2>1 DEF CallHolds
<1> QED
    BY <1>5, <1>6, <1>7 DEF HoldInv

LEMMA NextHolds == BookingInv /\ HoldInv /\ [Next]_vars => HoldInv'
<1> SUFFICES ASSUME BookingInv, HoldInv, [Next]_vars PROVE HoldInv'
    OBVIOUS
<1> USE DEF BookingInv
<1>0. \A c \in Clients : client[c].booking \in Bookings
    BY DEF TypeOK, Calls
<1>1. ASSUME NEW b \in Bookings, Create(b) PROVE HoldInv'
    BY <1>1, CreateHolds
<1>2. ASSUME NEW c \in Clients, Call(c) PROVE HoldInv'
    BY <1>2, CallKeepsHolds
\* Only the resolver's bookkeeping, the clock and history move.
<1>3. CASE Tick \/ PollBegin \/ PollEnd \/ PollAborts \/ UNCHANGED vars
  <2>1. /\ row' = row /\ create' = create /\ client' = client
        /\ task' = task /\ held' = held /\ stray' = stray
    BY <1>3 DEF Tick, PollBegin, PollEnd, PollAborts, steveVars, history, vars
  <2> QED
    BY <2>1 DEF HoldInv, RowHolds, CallHolds, Released
<1>4. CASE BulkCancel
  <2>1. /\ create' = create /\ client' = client /\ task' = task /\ held' = held
        /\ stray \subseteq stray'
        /\ \A d \in Bookings : /\ row'[d].task = row[d].task
                               /\ \/ row'[d].status = row[d].status
                                  \/ row'[d].status = "cancelled" /\ d \in stray'
    BY <1>4 DEF BulkCancel, TypeOK, Rows, steveVars
  <2>2. \A d \in Bookings : Released(d) => Released(d)'
    BY <2>1 DEF Released
  <2>3. ASSUME NEW d \in Bookings PROVE RowHolds(d)'
    <3>1. RowHolds(d)
      BY DEF HoldInv
    <3>2. CASE row'[d].status = row[d].status
      BY <2>1, <2>2, <3>1, <3>2 DEF RowHolds
    <3>3. CASE row'[d].status = "cancelled" /\ d \in stray'
      BY <2>1, <3>1, <3>3 DEF RowHolds, Released
    <3> QED
      BY <2>1, <3>2, <3>3
  <2>4. ASSUME NEW c \in Clients PROVE CallHolds(c)'
    BY <1>0, <2>1, <2>2 DEF HoldInv, CallHolds
  <2> QED
    BY <2>3, <2>4 DEF HoldInv
<1>5. ASSUME NEW b \in Bookings, NEW answer \in Answers \ {"running"},
             LateAnswer(b, answer)
      PROVE  HoldInv'
  <2>1. /\ row' = row /\ create' = create /\ client' = client /\ stray' = stray
        /\ task[b] = "running" /\ task'[b] = answer
        /\ b \in held' => b \in held \/ answer = "accepted"
        /\ \A d \in Bookings \ {b} : /\ task'[d] = task[d]
                                     /\ d \in held' <=> d \in held
    BY <1>5 DEF LateAnswer, TypeOK, history
  <2>2. \A d \in Bookings : Released(d) => Released(d)'
    BY <2>1 DEF Released
  <2>3. ASSUME NEW d \in Bookings \ {b} PROVE RowHolds(d)'
    <3>1. RowHolds(d)
      BY DEF HoldInv
    <3> QED
      BY <2>1, <2>2, <3>1 DEF RowHolds
  <2>4. RowHolds(b)'
    <3>1. RowHolds(b)
      BY DEF HoldInv
    <3> QED
      BY <2>1, <2>2, <3>1 DEF RowHolds
  <2>5. ASSUME NEW c \in Clients PROVE CallHolds(c)'
    BY <1>0, <2>1, <2>2 DEF HoldInv, CallHolds
  <2> QED
    BY <2>3, <2>4, <2>5 DEF HoldInv
<1>6. ASSUME NEW b \in Bookings, Poll(b) PROVE HoldInv'
  <2>1. /\ create' = create /\ client' = client
        /\ task' = task /\ held' = held /\ stray' = stray
        /\ b \in poll.todo
        /\ \A d \in Bookings \ {b} : row'[d] = row[d]
    BY <1>6 DEF Poll, PollSettles, PollSkips, PollGetTaskFails, steveVars,
                history, TypeOK
  <2>2. /\ row'[b].task = row[b].task
        /\ \/ row'[b].status = row[b].status
           \/ /\ row[b].status = "pending" /\ row'[b].status = "confirmed"
           \/ /\ row[b].status = "pending" /\ row'[b].status = "conflicted"
              /\ task[b] = "error"
    BY <1>6 DEF Poll, PollSettles, PollSkips, PollGetTaskFails, TypeOK, Rows
  <2>3. row[b].task
    BY <2>1 DEF CallsInOrder
  <2>4. \A d \in Bookings : Released(d) => Released(d)'
    BY <2>1, <2>2 DEF Released
  <2>5. ASSUME NEW d \in Bookings \ {b} PROVE RowHolds(d)'
    <3>1. RowHolds(d)
      BY DEF HoldInv
    <3> QED
      BY <2>1, <2>4, <3>1 DEF RowHolds
  <2>6. RowHolds(b)'
    <3>1. RowHolds(b)
      BY DEF HoldInv
    <3> QED
      BY <2>1, <2>2, <2>3, <2>4, <3>1 DEF RowHolds
  <2>7. ASSUME NEW c \in Clients PROVE CallHolds(c)'
    <3>1. CallHolds(c) /\ client[c].booking \in Bookings
      BY <1>0 DEF HoldInv
    <3>2. row'[client[c].booking].task = row[client[c].booking].task
      BY <2>1, <2>2, <3>1
    <3> QED
      BY <2>1, <2>4, <3>1, <3>2 DEF CallHolds
  <2> QED
    BY <2>5, <2>6, <2>7 DEF HoldInv
<1>7. CASE RestartWeb
  <2>1. /\ row' = row /\ task' = task /\ held' = held /\ stray' = stray
        /\ \A d \in Bookings : create'[d].pc = "idle"
        /\ \A c \in Clients : client'[c].pc = "idle"
    BY <1>7 DEF RestartWeb, steveVars, history, NoCreate, NoCall
  <2>2. ASSUME NEW d \in Bookings PROVE RowHolds(d)'
    <3>1. RowHolds(d)
      BY DEF HoldInv
    <3> QED
      BY <2>1, <3>1 DEF RowHolds, Released
  <2> QED
    BY <2>1, <2>2 DEF HoldInv, CallHolds
<1> QED
    BY <1>1, <1>2, <1>3, <1>4, <1>5, <1>6, <1>7 DEF Next

\* A connector stays reserved for a booking that was cancelled or refused only
\* when the cancel could not reach the charger: cancelReservation sends
\* CancelReservation first whenever it knows a task to undo.
THEOREM CancelsRelease == Spec => []HoldsReleased
<1>1. BookingInv /\ HoldInv => HoldsReleased
  <2> SUFFICES ASSUME BookingInv, HoldInv, NEW b \in held, b \notin stray
               PROVE  row[b].status \in Blocking
    BY DEF HoldsReleased
  <2>1. b \in Bookings /\ row[b].status \in Statuses
    BY DEF BookingInv, TypeOK, Rows
  <2>2. RowHolds(b)
    BY <2>1 DEF HoldInv
  <2> QED
    BY <2>1, <2>2 DEF RowHolds, Released, Statuses, Blocking
<1> QED
    BY <1>1, InitClear, NextKeeps, InitHolds, NextHolds, PTL DEF Spec
==============================================================================
