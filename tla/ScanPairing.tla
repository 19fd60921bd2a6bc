---------------------------- MODULE ScanPairing ----------------------------
(***************************************************************************)
(* Tap-to-scan pairings: a web page arms a reader (a charger or a phone),  *)
(* waits on a stream for the card that is tapped there, and signs its      *)
(* owner in (or, for an administrator, shows whose card it is).            *)
(*                                                                         *)
(* A pairing is one row of verifications.  The pages, StEvE's              *)
(* pre-authorize hook, the phone, scan-login and the watchdog meet only in *)
(* single statements on that row, and through the event bus.  A charge     *)
(* that slips past the hook is the watchdog's to stop.                     *)
(*                                                                         *)
(* A pairing stands for its code: every arming makes a new one.  Clocks    *)
(* are left out: a row may expire, and its update cease to be recent, at   *)
(* any time.                                                               *)
(***************************************************************************)
EXTENDS Naturals, FiniteSets

CONSTANTS
    Chargers, Phones,
    Pairings,    \* bound: the armings of one behaviour
    Cards,
    Taps,        \* bound: the taps on chargers, each its own transaction
    MaxCopies,   \* bound: how often one tx.started is delivered
    None,
    Purposes,    \* why pages arm
    Faults,      \* what may go wrong in this run, windows that run out included
    MaxFaults    \* bound: how often in one behaviour

Readers == Chargers \cup Phones
Copies == 1 .. MaxCopies

ASSUME ScanAssumption ==
    /\ Chargers \cap Phones = {} /\ None \notin Readers \cup Cards \cup Pairings
    /\ Purposes \subseteq {"login", "link"} /\ MaxFaults \in Nat /\ MaxCopies \in Nat \ {0}

VARIABLES
    row,         \* Postgres: the pairing rows of verifications
    born,        \* Postgres: created_at, as the rows each was inserted no earlier than
    page,        \* the page behind each pairing, its request in flight, its stream,
                 \* and what the event bus holds for it of the last five seconds
    lines,       \* Docker: rejections StEvE has logged and nobody has read
    tap,         \* the taps on chargers and what became of them
    watch,       \* watchdog: the tx.started events of each tap
    recent,      \* watchdog: recentlyStopped
    sessions,    \* sign-ins: which card signed in which pairing's page
    met,         \* history: pairs of arm requests that overlapped
    touched,     \* history: taps made or still handled while a pairing wanted them
    taken,       \* history: the pairing that intercepted a tap
    faults

vars == << row, born, page, lines, tap, watch, recent, sessions, met,
           touched, taken, faults >>

Rows == [status : {"none", "armed", "matched", "consumed"},
         card : Cards \cup {None}, recent : BOOLEAN]
NoRow == [status |-> "none", card |-> None, recent |-> FALSE]

Pages == [at : {"idle", "inserting", "armed", "opening", "watching", "login",
                "lookup", "cleaning", "releasing", "over"},
          reader : Readers \cup {None}, purpose : Purposes \cup {None},
          ring : SUBSET Cards, seen : SUBSET Cards,
          card : Cards \cup {None}]
NewPage == [at |-> "idle", reader |-> None, purpose |-> None, ring |-> {}, seen |-> {},
            card |-> None]

TapRecords == [at : {"unused", "asking", "blocked", "passed", "over"},
               reader : Chargers \cup {None}, card : Cards \cup {None},
               charge : {"none", "running", "stopped"}]
NewTap == [at |-> "unused", reader |-> None, card |-> None, charge |-> "none"]

Init ==
    /\ row = [p \in Pairings |-> NoRow] /\ born = [p \in Pairings |-> {}]
    /\ page = [p \in Pairings |-> NewPage]
    /\ lines = {}
    /\ tap = [k \in Taps |-> NewTap]
    /\ watch = [k \in Taps |-> [d \in Copies |-> "none"]]
    /\ recent = {} /\ sessions = {}
    /\ met = {} /\ touched = {} /\ taken = [k \in Taps |-> None]
    /\ faults = 0

Fault(class) == class \in Faults /\ faults < MaxFaults /\ faults' = faults + 1

Goto(p, stage) == page' = [page EXCEPT ![p].at = stage]
Leave(p) == page' = [page EXCEPT ![p].at = "over", ![p].card = None, ![p].ring = {}]
At(r) == { p \in Pairings : page[p].reader = r }
ArmedAt(r) == { p \in At(r) : row[p].status = "armed" }

Insert(p) ==
    /\ row' = [row EXCEPT ![p] = [NoRow EXCEPT !.status = "armed"]]
    /\ born' = [born EXCEPT
          ![p] = {p} \cup { q \in Pairings : row[q].status # "none" }]

Delete(p) ==
    /\ row' = [row EXCEPT ![p] = NoRow]
    /\ born' = [q \in Pairings |-> IF q = p THEN {} ELSE born[q] \ {p}]

\* Taps whose card StEvE has not dealt with, or whose charge runs.
Live(k) == tap[k].at \in {"asking", "blocked", "passed"} \/ tap[k].charge = "running"

----------------------------------------------------------------------------
(* Arming: POST scan-pair, tag/scan-arm and devices/{id}/scan-arm.         *)

\* findArmedChargerPairing, findArmedDevicePairing: a failed query counts as
\* "nothing armed".
ArmFindBlindly(p, r, why) ==
    /\ page[p].at = "idle"
    /\ page' = [page EXCEPT ![p].at = "inserting", ![p].reader = r, ![p].purpose = why]
    /\ UNCHANGED << row, born, lines, tap, watch, recent, sessions, met, touched,
                    taken, faults >>

ArmFind(p, r, why) ==
    /\ page[p].at = "idle"
    /\ \/ /\ ArmedAt(r) = {} /\ UNCHANGED << faults, met >>
          /\ page' = [page EXCEPT ![p].at = "inserting", ![p].reader = r,
                                  ![p].purpose = why]
       \/ /\ ArmedAt(r) # {} /\ UNCHANGED << faults, met >>
          /\ page' = [page EXCEPT ![p].at = "over", ![p].purpose = why]
       \/ /\ Fault("db")
          /\ page' = [page EXCEPT ![p].at = "inserting", ![p].reader = r,
                                  ![p].purpose = why]
          /\ met' = met \cup { {p, q} : q \in ArmedAt(r) }
    /\ UNCHANGED << row, born, lines, tap, watch, recent, sessions, touched,
                    taken >>

\* insertChargerPairingRow, insertDevicePairingRow.  The page may be gone, or
\* have started over, when the answer comes: then nobody owns the row.
ArmInsert(p) ==
    /\ page[p].at = "inserting"
    /\ \/ /\ Insert(p)
          /\ met' = met \cup { {p, q} : q \in { q \in At(page[p].reader) \ {p} :
                                                page[q].at = "inserting" } }
          /\ touched' = touched \cup
                { k \in Taps : Live(k) /\ tap[k].reader = page[p].reader }
          /\ Goto(p, "armed") \/ Leave(p)
          /\ UNCHANGED faults
       \/ /\ Fault("db") /\ Leave(p) /\ UNCHANGED << row, born, met, touched >>
    /\ UNCHANGED << lines, tap, watch, recent, sessions, taken >>

----------------------------------------------------------------------------
(* The stream: GET scan-detect, and the page listening to it.              *)

\* The page opens its stream; a row that is no longer armed is a 404, on which
\* the page releases.
StreamLookup(p) ==
    /\ page[p].at = "armed"
    /\ \/ row[p].status = "armed" /\ Goto(p, "opening") /\ UNCHANGED faults
       \/ row[p].status # "armed" /\ Goto(p, "releasing") /\ UNCHANGED faults
       \/ Fault("db") /\ Goto(p, "releasing")
    /\ UNCHANGED << row, born, lines, tap, watch, recent, sessions, met, touched,
                    taken >>

\* Subscribed to the log and the bus, then what the ring still holds.
StreamSubscribe(p) ==
    /\ page[p].at = "opening"
    /\ page' = [page EXCEPT ![p].at = "watching",
                            ![p].seen = page[p].ring]
    /\ UNCHANGED << row, born, lines, tap, watch, recent, sessions, met, touched,
                    taken, faults >>

\* The connection breaks and EventSource tries again.
StreamDrops(p) ==
    /\ page[p].at \in {"opening", "watching"} /\ Fault("stream")
    /\ page' = [page EXCEPT ![p].at = "armed", ![p].seen = {}]
    /\ UNCHANGED << row, born, lines, tap, watch, recent, sessions, met, touched,
                    taken >>

\* publish of scan.intercepted: into the ring, where it is kept for a page that
\* may yet open its stream, and to the page's stream if it listens.
Publish(p, c) ==
    page' = [page EXCEPT
        ![p].ring = IF page[p].at \in {"armed", "opening", "watching"}
                    THEN @ \cup {c} ELSE @,
        ![p].seen = IF page[p].at = "watching" THEN @ \cup {c} ELSE @]

RingAges(p, c) ==
    /\ c \in page[p].ring /\ page' = [page EXCEPT ![p].ring = @ \ {c}]
    /\ UNCHANGED << row, born, lines, tap, watch, recent, sessions, met, touched,
                    taken, faults >>

\* A rejection in StEvE's log goes to every stream bound to its charger.
LineReadersAnywhere(r) == { p \in Pairings : page[p].at = "watching" }
LineReaders(r) == { p \in At(r) : page[p].at = "watching" }

ReadLine(r, c) ==
    /\ << r, c >> \in lines /\ lines' = lines \ {<< r, c >>}
    /\ page' = [p \in Pairings |->
                  IF p \in LineReaders(r)
                  THEN [page[p] EXCEPT !.seen = @ \cup {c}] ELSE page[p]]
    /\ UNCHANGED << row, born, tap, watch, recent, sessions, met, touched, taken, faults >>

\* The first message ends the wait.  A customer's page posts scan-login; an
\* administrator's looks the card up and leaves the row to its TTL.
PageDetects(p, c) ==
    /\ page[p].at = "watching" /\ c \in page[p].seen
    /\ page' = [page EXCEPT ![p].seen = {}, ![p].ring = {},
                            ![p].card = IF page[p].purpose = "login" THEN c ELSE None,
                            ![p].at = IF page[p].purpose = "login" THEN "login"
                                                                   ELSE "over"]
    /\ UNCHANGED << row, born, lines, tap, watch, recent, sessions, met, touched,
                    taken, faults >>

\* Cancelled by the user, or out of time.
PageGivesUp(p) ==
    /\ page[p].at \in {"armed", "opening", "watching"}
    /\ page' = [page EXCEPT ![p].at = "releasing", ![p].seen = {},
                            ![p].ring = {}]
    /\ UNCHANGED << row, born, lines, tap, watch, recent, sessions, met, touched,
                    taken, faults >>

\* DELETE scan-pair and both scan-arms: whatever the row's status.
Release(p) ==
    /\ page[p].at = "releasing" /\ Leave(p)
    /\ \/ Delete(p) /\ UNCHANGED faults
       \/ Fault("db") /\ UNCHANGED << row, born >>
    /\ UNCHANGED << lines, tap, watch, recent, sessions, met, touched, taken >>

Expire(p) ==
    /\ row[p].status # "none" /\ Fault("ttl") /\ Delete(p)
    /\ UNCHANGED << page, lines, tap, watch, recent, sessions, met, touched,
                    taken >>

\* Ten seconds since the row was updated.
Lapse(p) ==
    /\ row[p].recent /\ Fault("window") /\ row' = [row EXCEPT ![p].recent = FALSE]
    /\ UNCHANGED << born, page, lines, tap, watch, recent, sessions, met, touched,
                    taken >>

----------------------------------------------------------------------------
(* A card on a charger: StEvE's hook, and the charge it may start.         *)

Wants(p, c) ==
    \/ row[p].status = "armed"
    \/ row[p].status \in {"matched", "consumed"} /\ row[p].card = c

Tap(k, r, c) ==
    /\ tap[k].at = "unused"
    /\ \/ /\ tap' = [tap EXCEPT ![k] = [NewTap EXCEPT !.at = "asking", !.reader = r,
                                                      !.card = c]]
          /\ UNCHANGED faults
       \/ /\ Fault("cache")    \* the charger authorizes the card by itself
          /\ tap' = [tap EXCEPT ![k] = [NewTap EXCEPT !.at = "passed", !.reader = r,
                                                      !.card = c]]
    /\ touched' = IF \E p \in At(r) : Wants(p, c) THEN touched \cup {k} ELSE touched
    /\ UNCHANGED << row, born, page, lines, watch, recent, sessions, met, taken >>

\* The rows the steal may take: armed, or matched to this very card.
Stealable(k) ==
    { p \in At(tap[k].reader) :
        \/ row[p].status = "armed"
        \/ row[p].status = "matched" /\ row[p].card = tap[k].card }

\* Rows another request may hold locked at this moment, which SKIP LOCKED skips.
Contended(k) ==
    { p \in At(tap[k].reader) :
        \/ page[p].at \in {"login", "releasing"}
        \/ \E j \in Taps \ {k} : tap[j].at = "asking" /\ tap[j].reader = tap[k].reader }

NewestOf(p, S) == p \in S /\ S \subseteq born[p]

\* pre-authorize: the newest such row is matched to the card and the card
\* blocked; only a row that was armed is announced.  StEvE waits 200 ms for the
\* answer and then lets the card through.
HookSteals(k) ==
    /\ tap[k].at = "asking"
    /\ \E skip \in SUBSET (Contended(k) \cap Stealable(k)), p \in Stealable(k) :
          /\ NewestOf(p, Stealable(k) \ skip)
          /\ IF row[p].status = "armed" THEN Publish(p, tap[k].card) ELSE UNCHANGED page
          /\ row' = [row EXCEPT ![p] = [status |-> "matched", card |-> tap[k].card,
                                        recent |-> TRUE]]
          /\ taken' = [taken EXCEPT ![k] = p]
    /\ \/ tap' = [tap EXCEPT ![k].at = "blocked"] /\ UNCHANGED faults
       \/ tap' = [tap EXCEPT ![k].at = "passed"] /\ Fault("late")
    /\ touched' = touched \cup
          { j \in Taps : /\ Live(j) /\ tap[j].reader = tap[k].reader
                         /\ tap[j].card = tap[k].card }
    /\ UNCHANGED << born, lines, watch, recent, sessions, met >>

\* Nothing armed here; or the hook does not answer, and StEvE lets the card be.
HookMisses(k) ==
    /\ tap[k].at = "asking"
    /\ \/ Stealable(k) \subseteq Contended(k) /\ UNCHANGED faults
       \/ Fault("db")
    /\ tap' = [tap EXCEPT ![k].at = "passed"]
    /\ UNCHANGED << row, born, page, lines, watch, recent, sessions, met, touched,
                    taken >>

\* StEvE rejects a blocked card, or one it does not accept, and logs it.
Reject(k) ==
    /\ tap[k].at \in {"blocked", "passed"}
    /\ tap' = [tap EXCEPT ![k].at = "over"]
    /\ lines' = lines \cup {<< tap[k].reader, tap[k].card >>}
    /\ UNCHANGED << row, born, page, watch, recent, sessions, met, touched, taken, faults >>

\* Or accepts it and starts the transaction; the log line becomes a tx.started
\* event.
Start(k) ==
    /\ tap[k].at = "passed"
    /\ tap' = [tap EXCEPT ![k].at = "over", ![k].charge = "running"]
    /\ watch' = [watch EXCEPT ![k] = [@ EXCEPT ![1] = "due"]]
    /\ UNCHANGED << row, born, page, lines, recent, sessions, met, touched, taken,
                    faults >>

\* The charger repeats its StartTransaction, and with it the event.
StartAgain(k, d) ==
    /\ tap[k].charge # "none" /\ watch[k][d] = "none" /\ Fault("repeat")
    /\ watch' = [watch EXCEPT ![k] = [@ EXCEPT ![d] = "due"]]
    /\ UNCHANGED << row, born, page, lines, tap, recent, sessions, met, touched, taken >>

----------------------------------------------------------------------------
(* The watchdog: handleTxStarted.                                          *)

\* A transaction in recentlyStopped, where it stays for a minute, is left alone.
WatchHear(k, d) ==
    /\ watch[k][d] = "due"
    /\ \/ watch' = [watch EXCEPT ![k] = [@ EXCEPT ![d] = "asking"]]
       \/ k \in recent /\ watch' = [watch EXCEPT ![k] = [@ EXCEPT ![d] = "done"]]
    /\ UNCHANGED << row, born, page, lines, tap, recent, sessions, met, touched, taken,
                    faults >>

\* The row the watchdog's query finds: armed for whatever card, or lately
\* matched or consumed with this one.
IntentOfAnyCard(p, c) == row[p].status = "armed" \/ row[p].recent
Intent(p, c) ==
    \/ row[p].status = "armed"
    \/ row[p].status \in {"matched", "consumed"} /\ row[p].recent /\ row[p].card = c

WatchQuery(k, d) ==
    /\ watch[k][d] = "asking"
    /\ LET found == \E p \in At(tap[k].reader) : Intent(p, tap[k].card)
       IN  \/ /\ found /\ UNCHANGED faults /\ recent' = recent \cup {k}
              /\ watch' = [watch EXCEPT ![k] = [@ EXCEPT ![d] = "stopping"]]
           \/ /\ ~found /\ UNCHANGED << faults, recent >>
              /\ watch' = [watch EXCEPT ![k] = [@ EXCEPT ![d] = "done"]]
           \/ /\ Fault("db") /\ UNCHANGED recent
              /\ watch' = [watch EXCEPT ![k] = [@ EXCEPT ![d] = "done"]]
    /\ UNCHANGED << row, born, page, lines, tap, sessions, met, touched, taken >>

\* remoteStop, once: a failure is recorded and not retried.
WatchStop(k, d) ==
    /\ watch[k][d] = "stopping"
    /\ watch' = [watch EXCEPT ![k] = [@ EXCEPT ![d] = "done"]]
    /\ \/ tap' = [tap EXCEPT ![k].charge = "stopped"] /\ UNCHANGED faults
       \/ Fault("stop") /\ UNCHANGED tap
    /\ UNCHANGED << row, born, page, lines, recent, sessions, met, touched, taken >>

----------------------------------------------------------------------------
(* A card on a phone: POST scan-result and scan-cancel.                    *)

PhoneScans(p, c) ==
    /\ page[p].reader \in Phones /\ row[p].status = "armed"
    /\ row' = [row EXCEPT ![p] = [status |-> "consumed", card |-> c, recent |-> TRUE]]
    /\ Publish(p, c)
    /\ UNCHANGED << born, lines, tap, watch, recent, sessions, met, touched, taken, faults >>

\* The row goes and device.scan.cancelled closes the page that listens.
PhoneCancels(p) ==
    /\ page[p].reader \in Phones /\ row[p].status # "none"
    /\ Delete(p)
    /\ page' = IF page[p].at = "watching"
               THEN [page EXCEPT ![p].at = "over", ![p].seen = {}, ![p].ring = {}]
               ELSE page
    /\ UNCHANGED << lines, tap, watch, recent, sessions, met, touched, taken, faults >>

----------------------------------------------------------------------------
(* POST scan-login.                                                        *)

\* Rate limit, nonce too old: before the row is touched.
LoginTurnedAway(p) ==
    /\ page[p].at = "login" /\ Leave(p)
    /\ UNCHANGED << row, born, lines, tap, watch, recent, sessions, met, touched,
                    taken, faults >>

\* The statement that consumes the row: armed, or matched to the posted card.
ConsumableWhateverStatus(p) == row[p].card \in {None, page[p].card}
Consumable(p) ==
    \/ row[p].status = "armed"
    \/ row[p].status = "matched" /\ row[p].card = page[p].card

LoginConsume(p) ==
    /\ page[p].at = "login"
    /\ \/ /\ Consumable(p) /\ Goto(p, "lookup") /\ UNCHANGED faults
          /\ row' = [row EXCEPT ![p].status = "consumed", ![p].recent = TRUE]
       \/ ~Consumable(p) /\ Leave(p) /\ UNCHANGED << row, faults >>
       \/ Fault("db") /\ Leave(p) /\ UNCHANGED row
    /\ UNCHANGED << born, lines, tap, watch, recent, sessions, met, touched, taken >>

\* The card's mapping and its user, then createCustomerSession; or no active
\* mapping, no customer, or a query that failed.
LoginMint(p) ==
    /\ page[p].at = "lookup"
    /\ \/ Goto(p, "cleaning") /\ sessions' = sessions \cup {<< p, page[p].card >>}
       \/ Leave(p) /\ UNCHANGED sessions
    /\ UNCHANGED << row, born, lines, tap, watch, recent, met, touched, taken, faults >>

\* The consumed row is deleted, not awaited.
LoginClean(p) ==
    /\ page[p].at = "cleaning" /\ Leave(p)
    /\ \/ Delete(p) /\ UNCHANGED faults
       \/ Fault("db") /\ UNCHANGED << row, born >>
    /\ UNCHANGED << lines, tap, watch, recent, sessions, met, touched, taken >>

----------------------------------------------------------------------------
PageStep(p) ==
    \/ \E r \in Readers, why \in Purposes : ArmFind(p, r, why)
    \/ ArmInsert(p) \/ StreamLookup(p) \/ StreamSubscribe(p) \/ StreamDrops(p)
    \/ PageGivesUp(p) \/ Release(p)
    \/ \E c \in Cards : PageDetects(p, c)
    \/ LoginTurnedAway(p) \/ LoginConsume(p) \/ LoginMint(p) \/ LoginClean(p)

PairingStep(p) ==
    \/ Expire(p) \/ Lapse(p) \/ PhoneCancels(p)
    \/ \E c \in Cards : PhoneScans(p, c) \/ RingAges(p, c)

TapStep(k) ==
    \/ \E r \in Chargers, c \in Cards : Tap(k, r, c)
    \/ HookSteals(k) \/ HookMisses(k) \/ Reject(k) \/ Start(k)
    \/ \E d \in Copies : StartAgain(k, d)

WatchStep(k) ==
    \E d \in Copies : WatchHear(k, d) \/ WatchQuery(k, d) \/ WatchStop(k, d)

Next ==
    \/ \E p \in Pairings : PageStep(p) \/ PairingStep(p)
    \/ \E k \in Taps : TapStep(k) \/ WatchStep(k)
    \/ \E r \in Chargers, c \in Cards : ReadLine(r, c)

Spec == Init /\ [][Next]_vars

----------------------------------------------------------------------------
(* Properties.                                                             *)

\* Type of every variable; a row is there from its insertion to its deletion.
TypeOK ==
    /\ row \in [Pairings -> Rows] /\ page \in [Pairings -> Pages]
    /\ born \in [Pairings -> SUBSET Pairings]
    /\ \A p \in Pairings : row[p].status # "none" <=> p \in born[p]
    /\ lines \subseteq Chargers \X Cards
    /\ tap \in [Taps -> TapRecords]
    /\ watch \in [Taps -> [Copies -> {"none", "due", "asking", "stopping", "done"}]]
    /\ recent \subseteq Taps /\ sessions \subseteq Pairings \X Cards
    /\ touched \subseteq Taps /\ taken \in [Taps -> Pairings \cup {None}]
    /\ faults \in 0 .. MaxFaults

\* "One armed intent per charger at a time" (scan-arm.ts): two pairings are
\* armed at one reader only when the requests that armed them overlapped, or
\* one of them could not look.
SingleFlight ==
    \A p, q \in Pairings :
        p # q /\ page[p].reader = page[q].reader
              /\ row[p].status = "armed" /\ row[q].status = "armed" => {p, q} \in met

\* A page is signed in by a card tapped at the reader it armed, and once the
\* hook has matched its pairing to a card, by no other card, whatever the log
\* and the bus show the page (scan-login's WHERE, scan-detect's filters).
SignedInByItsTap ==
    \A s \in sessions :
        /\ \E k \in Taps : tap[k].card = s[2] /\ tap[k].reader = page[s[1]].reader
        /\ \A k \in Taps : taken[k] = s[1] => tap[k].card = s[2]

\* The watchdog stops no charge that no pairing wanted: one that, from its tap
\* to the watchdog's look, met no armed pairing at its charger and no pairing
\* matched to its card ("charges normally", pre-authorize.ts).
StopsOnlyWanted ==
    \A k \in Taps : tap[k].charge = "stopped" => k \in touched
=============================================================================
