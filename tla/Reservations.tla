---------------------------- MODULE Reservations ----------------------------
(***************************************************************************)
(* The bookings of one charger: reservation.service.ts, its callers, and   *)
(* the resolver cron of reservation-resolver.service.ts.                   *)
(*                                                                         *)
(* A booking is a row.  Its creator checks for conflicts, inserts it,      *)
(* sends ReserveNow and writes the answer, with an await between each two; *)
(* customers and admins cancel and reschedule it meanwhile; a tag unlink   *)
(* cancels every booking of its customer; the cron settles the rows whose  *)
(* charger did not answer in time.  Nothing locks the table.               *)
(*                                                                         *)
(* Time is in slots.  A window is half-open: from <= slot < to.            *)
(***************************************************************************)
EXTENDS Integers, FiniteSets

CONSTANTS
    Bookings,      \* the rows that may be created
    Clients,       \* concurrent calls of cancel and reschedule
    Connectors,    \* the charger's connectors; 0 is the charger itself
    Horizon,       \* bound: last slot a window may reach
    MaxTime,       \* bound: last slot we live to
    Windows,       \* the windows that are asked for
    Unlinked,      \* bookings of the customer whose tag an admin unlinks
    TaskEndpoint,  \* does StEvE answer GET tasks/<id>?
    PollLimit,     \* POLL_BATCH_LIMIT
    Forcing,       \* may admins pass force?
    MaxRequests,   \* bound: cancels, reschedules and unlinks
    Faults,        \* the fault classes of this run
    MaxFaults      \* bound: faults in one behaviour

ASSUME BookingAssumption ==
    /\ IsFiniteSet(Bookings) /\ Bookings # {} /\ Unlinked \subseteq Bookings
    /\ Connectors \subseteq Nat \ {0} /\ Connectors # {}
    /\ Horizon \in Nat /\ MaxTime \in Nat /\ PollLimit \in Nat \ {0}
    /\ Windows \subseteq [from : 0 .. Horizon, to : 0 .. Horizon]
    /\ \A w \in Windows : w.from < w.to
    /\ MaxRequests \in Nat /\ MaxFaults \in Nat
    /\ TaskEndpoint \in BOOLEAN /\ Forcing \in BOOLEAN

VARIABLES
    now,       \* the slot we are in
    row,       \* Postgres: reservations
    create,    \* the call of createReservation for each booking
    client,    \* the calls of cancelReservation and rescheduleReservation
    task,      \* StEvE: the outcome of each booking's ReserveNow task
    held,      \* charger: the bookings it keeps a connector for
    poll,      \* worker: the resolver's tick
    excused,   \* history: pairs of bookings that may share a slot, and why below
    stray,     \* history: bookings cancelled without the charger being told
    requests, faults

vars == << now, row, create, client, task, held, poll, excused,
           stray, requests, faults >>
steveVars == << task, held >>
history == << excused, stray >>

Statuses == {"none", "pending", "confirmed", "active", "cancelled", "conflicted"}
Blocking == {"pending", "confirmed", "active"}

Rows == [status : Statuses, connector : Connectors \cup {0},
         from : 0 .. Horizon, to : 0 .. Horizon, task : BOOLEAN]
NoRow == [status |-> "none", connector |-> 0, from |-> 0, to |-> 0,
          task |-> FALSE]

Outcomes == {"none", "running", "accepted", "refused", "error"}
Answers == {"accepted", "refused", "error", "running"}

Creates == [pc : {"idle", "insert", "reserve", "save"}, connector : Connectors \cup {0},
            from : 0 .. Horizon, to : 0 .. Horizon, answer : Outcomes]
NoCreate == [pc |-> "idle", connector |-> 0, from |-> 0, to |-> 0,
             answer |-> "none"]

Calls == [pc : {"idle", "dispatch", "cancel", "move"},
          booking : Bookings, from : 0 .. Horizon, to : 0 .. Horizon]
NoCall == [pc |-> "idle", booking |-> CHOOSE b \in Bookings : TRUE,
           from |-> 0, to |-> 0]

Init ==
    /\ now = 0
    /\ row = [b \in Bookings |-> NoRow]
    /\ create = [b \in Bookings |-> NoCreate]
    /\ client = [c \in Clients |-> NoCall]
    /\ task = [b \in Bookings |-> "none"]
    /\ held = {}
    /\ poll = [busy |-> FALSE, todo |-> {}]
    /\ excused = {} /\ stray = {}
    /\ requests = 0 /\ faults = 0

Fault(k) == k \in Faults /\ faults < MaxFaults /\ faults' = faults + 1

Request == requests < MaxRequests /\ requests' = requests + 1

Tick ==
    /\ now < MaxTime
    /\ now' = now + 1
    /\ UNCHANGED << row, create, client, steveVars, poll, history,
                    requests, faults >>

---------------------------------------------------------------------------
(* checkConflicts.                                                         *)

\* (mutant) A booking of the whole charger does not block its connectors.
ConflictsSameConnector(b, connector, from, to) ==
    {d \in Bookings \ {b} :
        /\ row[d].status \in Blocking
        /\ connector = 0 \/ row[d].connector = connector
        /\ row[d].from < to /\ row[d].to > from}

Conflicts(b, connector, from, to) ==
    {d \in Bookings \ {b} :
        /\ row[d].status \in Blocking
        /\ connector = 0 \/ row[d].connector \in {connector, 0}
        /\ row[d].from < to /\ row[d].to > from}

\* Bookings whose window has been checked and not yet written.
Checked == {b \in Bookings : create[b].pc = "insert"}
           \cup {client[c].booking : c \in {d \in Clients : client[d].pc = "move"}}

Excuse(b, others) == excused' = excused \cup {{b, d} : d \in others \ {b}}

\* A checked window races with those that are checked and not yet written; a
\* forced one is not checked at all.
Excuses(b, force) == Excuse(b, IF force THEN Bookings ELSE Checked)

---------------------------------------------------------------------------
(* createReservation.                                                      *)

CreateCheck(b, connector, w, force) ==
    /\ create[b].pc = "idle" /\ row[b].status = "none"
    /\ force \/ Conflicts(b, connector, w.from, w.to) = {}
    /\ create' = [create EXCEPT ![b] =
          [NoCreate EXCEPT !.pc = "insert", !.connector = connector,
                           !.from = w.from, !.to = w.to]]
    /\ Excuses(b, force)
    /\ UNCHANGED << now, row, client, steveVars, poll, stray,
                    requests, faults >>

CreateInsert(b) ==
    LET c == create[b]
    IN  /\ c.pc = "insert"
        /\ row' = [row EXCEPT ![b] =
              [NoRow EXCEPT !.status = "pending", !.connector = c.connector,
                            !.from = c.from, !.to = c.to]]
        /\ create' = [create EXCEPT ![b] = [NoCreate EXCEPT !.pc = "reserve"]]
        /\ UNCHANGED << now, client, steveVars, poll, history,
                        requests, faults >>

\* The insert throws, or the update that stores the charging-profile task:
\* the call ends, and in the second case the row stays.
CreateThrows(b) ==
    /\ create[b].pc \in {"insert", "reserve"} /\ Fault("db")
    /\ create' = [create EXCEPT ![b] = NoCreate]
    /\ UNCHANGED << now, row, client, steveVars, poll, history,
                    requests >>

\* ReserveNow reaches the charger, which answers at once or not in time.
CreateReserve(b, answer) ==
    /\ create[b].pc = "reserve"
    /\ task' = [task EXCEPT ![b] = answer]
    /\ held' = IF answer = "accepted" THEN held \cup {b} ELSE held
    /\ create' = [create EXCEPT ![b].pc = "save", ![b].answer = answer]
    /\ UNCHANGED << now, row, client, poll, history, requests, faults >>

\* The call to StEvE throws, before or after it reached the charger, or the
\* update that stores its answer does: the row stays pending, without a task.
CreateReserveLost(b) ==
    /\ create[b].pc = "reserve" /\ Fault("steve")
    /\ held' \in {held, held \cup {b}}
    /\ create' = [create EXCEPT ![b] = NoCreate]
    /\ UNCHANGED << now, row, client, task, poll, history, requests >>

CreateSaveFails(b) ==
    /\ create[b].pc = "save" /\ Fault("db")
    /\ create' = [create EXCEPT ![b] = NoCreate]
    /\ UNCHANGED << now, row, client, steveVars, poll, history,
                    requests >>

\* (mutant) The charger's answer is stored as it came.
CreateSaveRaw(b) ==
    /\ create[b].pc = "save"
    /\ row' = [row EXCEPT ![b].task = TRUE,
                          ![b].status = create[b].answer]
    /\ create' = [create EXCEPT ![b] = NoCreate]
    /\ UNCHANGED << now, client, steveVars, poll, history, requests,
                    faults >>

\* The answer is written whatever has become of the row.
CreateSave(b) ==
    LET answer == create[b].answer
        status == IF answer = "accepted" THEN "confirmed"
                  ELSE IF answer = "running" THEN row[b].status
                  ELSE "conflicted"
    IN  /\ create[b].pc = "save"
        /\ row' = [row EXCEPT ![b].task = TRUE, ![b].status = status]
        /\ create' = [create EXCEPT ![b] = NoCreate]
        /\ IF row[b].status = "cancelled" /\ status \in Blocking
           THEN Excuse(b, Bookings) ELSE UNCHANGED excused
        /\ UNCHANGED << now, client, steveVars, poll, stray, requests,
                        faults >>

---------------------------------------------------------------------------
(* cancelReservation.                                                      *)

\* (mutant) Only a confirmed booking is cancelled at the charger.
CancelReadConfirmed(c, b) ==
    LET dispatch == row[b].task /\ row[b].status = "confirmed"
    IN  /\ client[c].pc = "idle" /\ Request
        /\ row[b].status \notin {"none", "cancelled"}
        /\ client' = [client EXCEPT ![c] =
              [NoCall EXCEPT !.pc = IF dispatch THEN "dispatch" ELSE "cancel",
                             !.booking = b]]
        /\ stray' = IF row[b].task THEN stray ELSE stray \cup {b}
        /\ UNCHANGED << now, row, create, steveVars, poll, excused, faults >>

\* The charger is told only of a pending or confirmed row that has its task.
CancelRead(c, b) ==
    LET dispatch == row[b].task /\ row[b].status \in {"pending", "confirmed"}
    IN  /\ client[c].pc = "idle" /\ Request
        /\ row[b].status \notin {"none", "cancelled"}
        /\ client' = [client EXCEPT ![c] =
              [NoCall EXCEPT !.pc = IF dispatch THEN "dispatch" ELSE "cancel",
                             !.booking = b]]
        /\ stray' = IF row[b].task THEN stray ELSE stray \cup {b}
        /\ UNCHANGED << now, row, create, steveVars, poll, excused, faults >>

\* CancelReservation.  A charger still working on ReserveNow has nothing to
\* cancel yet.
CancelDispatch(c) ==
    LET b == client[c].booking
    IN  /\ client[c].pc = "dispatch"
        /\ held' = held \ {b}
        /\ stray' = IF task[b] = "running" THEN stray \cup {b} ELSE stray
        /\ client' = [client EXCEPT ![c].pc = "cancel"]
        /\ UNCHANGED << now, row, create, task, poll, excused, requests, faults >>

CancelDispatchFails(c) ==
    /\ client[c].pc = "dispatch" /\ Fault("steve")
    /\ stray' = stray \cup {client[c].booking}
    /\ client' = [client EXCEPT ![c].pc = "cancel"]
    /\ UNCHANGED << now, row, create, steveVars, poll, excused, requests >>

CancelWrite(c) ==
    /\ client[c].pc = "cancel"
    /\ row' = [row EXCEPT ![client[c].booking].status = "cancelled"]
    /\ client' = [client EXCEPT ![c] = NoCall]
    /\ UNCHANGED << now, create, steveVars, poll, history, requests,
                    faults >>

\* The update throws.
CallThrows(c) ==
    /\ client[c].pc \in {"cancel", "move"} /\ Fault("db")
    /\ client' = [client EXCEPT ![c] = NoCall]
    /\ UNCHANGED << now, row, create, steveVars, poll, history,
                    requests >>

---------------------------------------------------------------------------
(* rescheduleReservation, of a booking in any status, and                  *)
(* bulkCancelFutureReservationsForUser, one UPDATE that tells no charger.  *)

MoveRead(c, b, w, force) ==
    /\ client[c].pc = "idle" /\ Request
    /\ row[b].status # "none"
    /\ force \/ Conflicts(b, row[b].connector, w.from, w.to) = {}
    /\ client' = [client EXCEPT ![c] =
          [NoCall EXCEPT !.pc = "move", !.booking = b, !.from = w.from,
                         !.to = w.to]]
    /\ Excuses(b, force)
    /\ UNCHANGED << now, row, create, steveVars, poll, stray,
                    faults >>

MoveWrite(c) ==
    LET b == client[c].booking
    IN  /\ client[c].pc = "move"
        /\ row' = [row EXCEPT ![b].from = client[c].from, ![b].to = client[c].to]
        /\ client' = [client EXCEPT ![c] = NoCall]
        /\ UNCHANGED << now, create, steveVars, poll, history,
                        requests, faults >>

BulkCancel ==
    LET future == {b \in Unlinked : row[b].status \in Blocking /\ row[b].to >= now}
    IN  /\ Request
        /\ row' = [b \in Bookings |->
              IF b \in future THEN [row[b] EXCEPT !.status = "cancelled"]
              ELSE row[b]]
        /\ stray' = stray \cup future
        /\ UNCHANGED << now, create, client, steveVars, poll, excused, faults >>

---------------------------------------------------------------------------
(* The charger's late answer and the resolver cron (protect: one tick at a *)
(* time).                                                                  *)

LateAnswer(b, answer) ==
    /\ task[b] = "running"
    /\ task' = [task EXCEPT ![b] = answer]
    /\ held' = IF answer = "accepted" THEN held \cup {b} ELSE held
    /\ UNCHANGED << now, row, create, client, poll, history,
                    requests, faults >>

Least(m, n) == IF m < n THEN m ELSE n

\* SELECT ... LIMIT, in no particular order.
PollBegin ==
    LET due == {b \in Bookings : /\ row[b].status = "pending" /\ row[b].task
                                 /\ row[b].to > now}
    IN  /\ ~poll.busy /\ due # {}
        /\ \E todo \in SUBSET due :
              /\ Cardinality(todo) = Least(PollLimit, Cardinality(due))
              /\ poll' = [busy |-> TRUE, todo |-> todo]
        /\ UNCHANGED << now, row, create, client, steveVars, history,
                        requests, faults >>

PollDone(b) == poll' = [poll EXCEPT !.todo = @ \ {b}]

\* (mutant) A task without errors is left for the next tick.
PollSettlesErrors(b) ==
    /\ b \in poll.todo /\ TaskEndpoint
    /\ task[b] \in {"accepted", "refused", "error"}
    /\ row' = IF row[b].status = "pending" /\ task[b] = "error"
              THEN [row EXCEPT ![b].status = "conflicted"]
              ELSE row
    /\ PollDone(b)
    /\ UNCHANGED << now, create, client, steveVars, history,
                    requests, faults >>

\* A finished task settles a row that is still pending; only an error or an
\* exception makes it conflicted, a refusal does not.
PollSettles(b) ==
    /\ b \in poll.todo /\ TaskEndpoint
    /\ task[b] \in {"accepted", "refused", "error"}
    /\ row' = IF row[b].status = "pending"
              THEN [row EXCEPT ![b].status = IF task[b] = "error"
                                             THEN "conflicted" ELSE "confirmed"]
              ELSE row
    /\ PollDone(b)
    /\ UNCHANGED << now, create, client, steveVars, history,
                    requests, faults >>

\* No endpoint, or the task is running.
PollSkips(b) ==
    /\ b \in poll.todo
    /\ ~TaskEndpoint \/ task[b] = "running"
    /\ PollDone(b)
    /\ UNCHANGED << now, row, create, client, steveVars, history,
                    requests, faults >>

PollGetTaskFails(b) ==
    /\ b \in poll.todo /\ Fault("steve")
    /\ PollDone(b)
    /\ UNCHANGED << now, row, create, client, steveVars, history,
                    requests >>

PollEnd ==
    /\ poll.busy /\ poll.todo = {}
    /\ poll' = [poll EXCEPT !.busy = FALSE]
    /\ UNCHANGED << now, row, create, client, steveVars, history,
                    requests, faults >>

\* An update throws, or the worker restarts.
PollAborts ==
    /\ poll.busy /\ Fault("restart")
    /\ poll' = [busy |-> FALSE, todo |-> {}]
    /\ UNCHANGED << now, row, create, client, steveVars, history,
                    requests >>

\* The web process restarts: every call it was serving is gone.
RestartWeb ==
    /\ Fault("restart")
    /\ create' = [b \in Bookings |-> NoCreate]
    /\ client' = [c \in Clients |-> NoCall]
    /\ UNCHANGED << now, row, steveVars, poll, history, requests >>

---------------------------------------------------------------------------
Create(b) ==
    \/ \E connector \in Connectors \cup {0}, w \in Windows,
          force \in {FALSE, Forcing} : CreateCheck(b, connector, w, force)
    \/ CreateInsert(b) \/ CreateThrows(b)
    \/ \E answer \in Answers : CreateReserve(b, answer)
    \/ CreateReserveLost(b) \/ CreateSave(b) \/ CreateSaveFails(b)

Call(c) ==
    \/ \E b \in Bookings : CancelRead(c, b)
    \/ CancelDispatch(c) \/ CancelDispatchFails(c)
    \/ CancelWrite(c)
    \/ \E b \in Bookings, w \in Windows, force \in {FALSE, Forcing} :
          MoveRead(c, b, w, force)
    \/ MoveWrite(c) \/ CallThrows(c)

Poll(b) == PollSettles(b) \/ PollSkips(b) \/ PollGetTaskFails(b)

Next ==
    \/ Tick
    \/ \E b \in Bookings : Create(b)
    \/ \E c \in Clients : Call(c)
    \/ BulkCancel
    \/ \E b \in Bookings, answer \in Answers \ {"running"} : LateAnswer(b, answer)
    \/ PollBegin \/ PollEnd \/ PollAborts
    \/ \E b \in Bookings : Poll(b)
    \/ RestartWeb

Spec == Init /\ [][Next]_vars

\* The cron keeps firing and a tick goes on.
FairSpec ==
    /\ Spec
    /\ WF_vars(PollBegin) /\ WF_vars(PollEnd)
    /\ \A b \in Bookings : WF_vars(Poll(b))

---------------------------------------------------------------------------
(* Properties.                                                             *)

TypeOK ==
    /\ now \in 0 .. MaxTime
    /\ row \in [Bookings -> Rows]
    /\ create \in [Bookings -> Creates]
    /\ client \in [Clients -> Calls]
    /\ task \in [Bookings -> Outcomes]
    /\ held \subseteq Bookings
    /\ poll \in [busy : BOOLEAN, todo : SUBSET Bookings]
    /\ excused \subseteq SUBSET Bookings /\ stray \subseteq Bookings
    /\ requests \in Nat /\ faults \in Nat

\* What a booking keeps for itself: connectors by slots.
Space(b) == (IF row[b].connector = 0 THEN Connectors ELSE {row[b].connector})
            \X (row[b].from .. row[b].to - 1)

DoubleBooked(a, b) ==
    /\ a # b
    /\ row[a].status \in Blocking /\ row[b].status \in Blocking
    /\ Space(a) \cap Space(b) # {}

\* Two bookings share a connector and a slot only if an admin overrode the
\* check, or both windows were checked before either was written, or one of
\* them was cancelled and its late ReserveNow answer brought it back.
DoubleBookingExplained ==
    \A a, b \in Bookings : DoubleBooked(a, b) => {a, b} \in excused

\* The charger keeps a connector for a booking nobody has any more only if
\* the cancel did not reach it: no task known yet, ReserveNow unanswered,
\* StEvE down, or a bulk cancel.
HoldsReleased ==
    \A b \in held : row[b].status \in Blocking \/ b \in stray

\* A row whose ReserveNow finished late is settled by the resolver before its
\* window ends, however it is cancelled and rescheduled meanwhile.
PendingSettles ==
    \A b \in Bookings :
        /\ row[b].status = "pending" /\ row[b].task
        /\ task[b] \in {"accepted", "refused", "error"}
        ~> row[b].status # "pending" \/ row[b].to <= now
=============================================================================
