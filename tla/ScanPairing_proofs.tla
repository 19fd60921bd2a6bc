------------------------- MODULE ScanPairing_proofs -------------------------
(***************************************************************************)
(* For any pairings, readers, cards and taps, and any number of faults:    *)
(* types, the one armed intent per reader, whose card signs a page in, and *)
(* which charges the watchdog stops.                                       *)
(***************************************************************************)
EXTENDS ScanPairing, TLAPS

Armable == {"idle", "inserting"}
Spent(p) == row[p].status \in {"consumed", "none"}

\* The cards a page has been shown, or posts.
HeardOf(p) ==
    page[p].ring \cup page[p].seen
        \cup (IF page[p].at = "login" THEN {page[p].card} ELSE {})

----------------------------------------------------------------------------
(* Types, in parts.                                                        *)

PageType == page \in [Pairings -> Pages]
RowType ==
    /\ row \in [Pairings -> Rows] /\ born \in [Pairings -> SUBSET Pairings]
    /\ \A p \in Pairings : row[p].status # "none" <=> p \in born[p]
TapType ==
    /\ tap \in [Taps -> TapRecords] /\ taken \in [Taps -> Pairings \cup {None}]
    /\ watch \in [Taps -> [Copies -> {"none", "due", "asking", "stopping", "done"}]]
RestType ==
    /\ lines \subseteq Chargers \X Cards /\ recent \subseteq Taps
    /\ sessions \subseteq Pairings \X Cards /\ touched \subseteq Taps
    /\ faults \in 0 .. MaxFaults

LEMMA TypeParts == TypeOK <=> PageType /\ RowType /\ TapType /\ RestType
  BY DEF TypeOK, PageType, RowType, TapType, RestType

LEMMA FaultType ==
    ASSUME TypeOK, NEW class, Fault(class) PROVE faults' \in 0 .. MaxFaults
  BY ScanAssumption DEF TypeOK, Fault

----------------------------------------------------------------------------
(* What a step leaves as it was: of the pages, the rows and the taps.      *)

PageFrame ==
    /\ PageType'
    /\ \A p \in Pairings :
          /\ page'[p].reader = page[p].reader
          /\ page'[p].at \in Armable => page'[p].at = page[p].at
          /\ HeardOf(p)' \subseteq HeardOf(p)
          /\ page'[p].at \in {"lookup", "cleaning"} =>
                page[p].at \in {"lookup", "cleaning"} /\ page'[p].card = page[p].card

RowFrame ==
    /\ RowType'
    /\ \A p \in Pairings :
          \/ row'[p].status = "none"
          \/ row'[p].status = row[p].status /\ row'[p].card = row[p].card
          \/ /\ row'[p].status = "consumed" /\ row'[p].card = row[p].card
             /\ row[p].status \in {"armed", "matched"}

TapFrame ==
    /\ tap' \in [Taps -> TapRecords]
    /\ \A k \in Taps :
          /\ tap'[k].reader = tap[k].reader /\ tap'[k].card = tap[k].card
          /\ tap'[k].at = "unused" <=> tap[k].at = "unused"
          /\ tap[k].at = "unused" => tap'[k] = tap[k]
          /\ Live(k)' => Live(k)
          /\ tap[k].charge # "none" => tap'[k].charge # "none"
          /\ tap'[k].charge = "stopped" => tap[k].charge = "stopped"

LEMMA PageStays == ASSUME TypeOK, page' = page PROVE PageFrame
  BY DEF TypeOK, PageFrame, PageType, HeardOf

LEMMA RowStays == ASSUME TypeOK, UNCHANGED << row, born >> PROVE RowFrame
  BY DEF TypeOK, RowFrame, RowType

LEMMA TapStays ==
    ASSUME TypeOK, tap' = tap PROVE TapFrame
  BY DEF TypeOK, TapFrame, Live

\* A page that goes on to a record r.
LEMMA PageMoves ==
    ASSUME TypeOK, NEW p \in Pairings, NEW r \in Pages,
           page' = [page EXCEPT ![p] = r],
           r.reader = page[p].reader, r.at \notin Armable,
           r.ring \cup r.seen \subseteq HeardOf(p),
           r.at = "login" => r.card \in HeardOf(p),
           r.at \in {"lookup", "cleaning"} =>
               page[p].at \in {"lookup", "cleaning"} /\ r.card = page[p].card
    PROVE  PageFrame
  <1>1. /\ page' \in [Pairings -> Pages] /\ page'[p] = r
        /\ \A q \in Pairings : q # p => page'[q] = page[q]
    BY DEF TypeOK
  <1>2. HeardOf(p)' \subseteq HeardOf(p)
    BY <1>1 DEF HeardOf
  <1>3. \A q \in Pairings : q # p => HeardOf(q)' = HeardOf(q)
    BY <1>1 DEF HeardOf
  <1> QED
    BY <1>1, <1>2, <1>3 DEF PageFrame, PageType

LEMMA GotoRecord ==
    ASSUME TypeOK, NEW p \in Pairings, NEW stage, Goto(p, stage),
           stage \in {"armed", "opening", "watching", "login", "lookup", "cleaning",
                      "releasing", "over"}
    PROVE  \E r \in Pages :
              /\ page' = [page EXCEPT ![p] = r] /\ r.at = stage
              /\ r.reader = page[p].reader /\ r.card = page[p].card
              /\ r.ring = page[p].ring /\ r.seen = page[p].seen
  <1> DEFINE r == [page[p] EXCEPT !.at = stage]
  <1>1. page[p] \in Pages
    BY DEF TypeOK
  <1>2. /\ r \in Pages /\ r.at = stage
        /\ r.reader = page[p].reader /\ r.card = page[p].card
        /\ r.ring = page[p].ring /\ r.seen = page[p].seen
    BY <1>1 DEF Pages
  <1>3. page' = [page EXCEPT ![p] = r]
    BY DEF Goto
  <1> HIDE DEF r
  <1> QED  BY <1>2, <1>3

LEMMA LeaveRecord ==
    ASSUME TypeOK, NEW p \in Pairings, Leave(p)
    PROVE  \E r \in Pages :
              /\ page' = [page EXCEPT ![p] = r] /\ r.at = "over"
              /\ r.reader = page[p].reader /\ r.ring = {} /\ r.seen = page[p].seen
  <1> DEFINE r == [page[p] EXCEPT !.at = "over", !.card = None, !.ring = {}]
  <1>1. page[p] \in Pages
    BY DEF TypeOK
  <1>2. /\ r \in Pages /\ r.at = "over"
        /\ r.reader = page[p].reader /\ r.ring = {} /\ r.seen = page[p].seen
    BY <1>1 DEF Pages
  <1>3. page' = [page EXCEPT ![p] = r]
    BY <1>1 DEF Leave, TypeOK
  <1> HIDE DEF r
  <1> QED  BY <1>2, <1>3

LEMMA GotoFrame ==
    ASSUME TypeOK, NEW p \in Pairings, NEW stage, Goto(p, stage),
           \/ stage \in {"armed", "opening", "watching", "releasing", "over"}
           \/ stage = "cleaning" /\ page[p].at = "lookup"
    PROVE  PageFrame
  <1>1. PICK r \in Pages :
              /\ page' = [page EXCEPT ![p] = r] /\ r.at = stage
              /\ r.reader = page[p].reader /\ r.card = page[p].card
              /\ r.ring = page[p].ring /\ r.seen = page[p].seen
    BY GotoRecord
  <1>2. r.ring \cup r.seen \subseteq HeardOf(p)
    BY <1>1 DEF HeardOf
  <1> QED  BY <1>1, <1>2, PageMoves DEF Armable

LEMMA LeaveFrame ==
    ASSUME TypeOK, NEW p \in Pairings, Leave(p) PROVE PageFrame
  <1>1. PICK r \in Pages :
              /\ page' = [page EXCEPT ![p] = r] /\ r.at = "over"
              /\ r.reader = page[p].reader /\ r.ring = {} /\ r.seen = page[p].seen
    BY LeaveRecord
  <1>2. r.ring \cup r.seen \subseteq HeardOf(p)
    BY <1>1 DEF HeardOf
  <1> QED  BY <1>1, <1>2, PageMoves DEF Armable

LEMMA StreamSubscribeFrame ==
    ASSUME TypeOK, NEW p \in Pairings, StreamSubscribe(p) PROVE PageFrame
  <1> DEFINE r == [page[p] EXCEPT !.at = "watching", !.seen = page[p].ring]
  <1>1. page[p] \in Pages
    BY DEF TypeOK
  <1>2. /\ r \in Pages /\ r.at = "watching" /\ r.reader = page[p].reader
        /\ r.ring = page[p].ring /\ r.seen = page[p].ring
    BY <1>1 DEF Pages
  <1>3. page' = [page EXCEPT ![p] = r]
    BY <1>1 DEF StreamSubscribe, TypeOK
  <1>4. r.ring \cup r.seen \subseteq HeardOf(p)
    BY <1>2 DEF HeardOf
  <1> HIDE DEF r
  <1> QED  BY <1>2, <1>3, <1>4, PageMoves DEF Armable

LEMMA StreamDropsFrame ==
    ASSUME TypeOK, NEW p \in Pairings, StreamDrops(p) PROVE PageFrame
  <1> DEFINE r == [page[p] EXCEPT !.at = "armed", !.seen = {}]
  <1>1. page[p] \in Pages
    BY DEF TypeOK
  <1>2. /\ r \in Pages /\ r.at = "armed" /\ r.reader = page[p].reader
        /\ r.ring = page[p].ring /\ r.seen = {}
    BY <1>1 DEF Pages
  <1>3. page' = [page EXCEPT ![p] = r]
    BY <1>1 DEF StreamDrops, TypeOK
  <1>4. r.ring \cup r.seen \subseteq HeardOf(p)
    BY <1>2 DEF HeardOf
  <1> HIDE DEF r
  <1> QED  BY <1>2, <1>3, <1>4, PageMoves DEF Armable

LEMMA PageDetectsFrame ==
    ASSUME TypeOK, NEW p \in Pairings, NEW c \in Cards, PageDetects(p, c)
    PROVE  PageFrame
  <1> DEFINE login == page[p].purpose = "login"
             r == [page[p] EXCEPT !.seen = {}, !.ring = {},
                                  !.card = IF login THEN c ELSE None,
                                  !.at = IF login THEN "login" ELSE "over"]
  <1>1. page[p] \in Pages
    BY DEF TypeOK
  <1>2. /\ r \in Pages /\ r.reader = page[p].reader
        /\ r.at \in {"login", "over"} /\ r.ring = {} /\ r.seen = {}
        /\ r.at = "login" => r.card = c
    BY <1>1 DEF Pages
  <1>3. page' = [page EXCEPT ![p] = r]
    BY <1>1 DEF PageDetects, TypeOK
  <1>4. c \in HeardOf(p)
    BY DEF PageDetects, HeardOf
  <1> HIDE DEF r
  <1> QED  BY <1>2, <1>3, <1>4, PageMoves DEF Armable

LEMMA PageGivesUpFrame ==
    ASSUME TypeOK, NEW p \in Pairings, PageGivesUp(p) PROVE PageFrame
  <1> DEFINE r == [page[p] EXCEPT !.at = "releasing", !.seen = {}, !.ring = {}]
  <1>1. page[p] \in Pages
    BY DEF TypeOK
  <1>2. /\ r \in Pages /\ r.at = "releasing" /\ r.reader = page[p].reader
        /\ r.ring = {} /\ r.seen = {}
    BY <1>1 DEF Pages
  <1>3. page' = [page EXCEPT ![p] = r]
    BY <1>1 DEF PageGivesUp, TypeOK
  <1> HIDE DEF r
  <1> QED  BY <1>2, <1>3, PageMoves DEF Armable

LEMMA PhoneCancelsFrame ==
    ASSUME TypeOK, NEW p \in Pairings, PhoneCancels(p) PROVE PageFrame
  <1> DEFINE r == [page[p] EXCEPT !.at = "over", !.seen = {}, !.ring = {}]
  <1>1. page[p] \in Pages
    BY DEF TypeOK
  <1>2. /\ r \in Pages /\ r.at = "over" /\ r.reader = page[p].reader
        /\ r.ring = {} /\ r.seen = {}
    BY <1>1 DEF Pages
  <1>3. page' = page \/ page' = [page EXCEPT ![p] = r]
    BY <1>1 DEF PhoneCancels, TypeOK
  <1> HIDE DEF r
  <1> QED  BY <1>2, <1>3, PageStays, PageMoves DEF Armable

LEMMA RingAgesFrame ==
    ASSUME TypeOK, NEW p \in Pairings, NEW c, RingAges(p, c)
    PROVE  PageFrame
  <1>1. page \in [Pairings -> Pages] /\ page[p] \in Pages
    BY DEF TypeOK
  <1> DEFINE r == [page[p] EXCEPT !.ring = @ \ {c}]
  <1>2. /\ r \in Pages /\ r.at = page[p].at /\ r.reader = page[p].reader
        /\ r.card = page[p].card /\ r.seen = page[p].seen /\ r.ring \subseteq page[p].ring
    BY <1>1 DEF Pages
  <1>3. page' = [page EXCEPT ![p] = r]
    BY <1>1 DEF RingAges
  <1> HIDE DEF r
  <1>4. /\ page' \in [Pairings -> Pages] /\ page'[p] = r
        /\ \A q \in Pairings : q # p => page'[q] = page[q]
    BY <1>1, <1>2, <1>3
  <1>5. \A q \in Pairings : HeardOf(q)' \subseteq HeardOf(q)
    BY <1>2, <1>4 DEF HeardOf
  <1> QED  BY <1>2, <1>4, <1>5 DEF PageFrame, PageType

\* The pages that a step may show a card: what is published to one page.
LEMMA PublishMoves ==
    ASSUME TypeOK, NEW p \in Pairings, NEW c \in Cards, Publish(p, c)
    PROVE  /\ PageType'
           /\ \A q \in Pairings :
                 /\ page'[q].reader = page[q].reader /\ page'[q].at = page[q].at
                 /\ page'[q].card = page[q].card
                 /\ HeardOf(q)' \subseteq HeardOf(q) \cup {c}
                 /\ q # p \/ page[q].at \in Armable => page'[q] = page[q]
  <1> DEFINE r == [page[p] EXCEPT
                     !.ring = IF page[p].at \in {"armed", "opening", "watching"}
                              THEN @ \cup {c} ELSE @,
                     !.seen = IF page[p].at = "watching" THEN @ \cup {c} ELSE @]
  <1>1. page \in [Pairings -> Pages] /\ page[p] \in Pages
    BY DEF TypeOK
  <1>2. /\ r \in Pages /\ r.at = page[p].at /\ r.reader = page[p].reader
        /\ r.card = page[p].card
        /\ r.ring \subseteq page[p].ring \cup {c} /\ r.seen \subseteq page[p].seen \cup {c}
    BY <1>1 DEF Pages
  <1>3. page[p].at \in Armable => r = page[p]
    BY <1>1 DEF Armable, Pages
  <1>4. page' = [page EXCEPT ![p] = r]
    BY <1>1 DEF Publish
  <1> HIDE DEF r
  <1>5. /\ page' \in [Pairings -> Pages] /\ page'[p] = r
        /\ \A q \in Pairings : q # p => page'[q] = page[q]
    BY <1>1, <1>2, <1>4
  <1>6. \A q \in Pairings : HeardOf(q)' \subseteq HeardOf(q) \cup {c}
    BY <1>2, <1>5 DEF HeardOf
  <1> QED  BY <1>2, <1>3, <1>5, <1>6 DEF PageType

LEMMA ReadLineMoves ==
    ASSUME TypeOK, NEW x \in Chargers, NEW c \in Cards, ReadLine(x, c)
    PROVE  /\ PageType'
           /\ \A q \in Pairings :
                 /\ page'[q].reader = page[q].reader /\ page'[q].at = page[q].at
                 /\ page'[q].card = page[q].card
                 /\ \/ HeardOf(q)' \subseteq HeardOf(q)
                    \/ page[q].reader = x /\ HeardOf(q)' \subseteq HeardOf(q) \cup {c}
                 /\ page[q].at \in Armable => page'[q] = page[q]
  <1>1. \A q \in Pairings :
           /\ [page[q] EXCEPT !.seen = @ \cup {c}] \in Pages /\ page[q] \in Pages
    <2> SUFFICES ASSUME NEW q \in Pairings
                 PROVE  /\ page[q] \in Pages
                        /\ [page[q] EXCEPT !.seen = @ \cup {c}] \in Pages
      OBVIOUS
    <2>1. page[q] \in Pages
      BY DEF TypeOK
    <2> QED  BY <2>1 DEF Pages
  <1>2. page' = [q \in Pairings |->
                  IF q \in LineReaders(x)
                  THEN [page[q] EXCEPT !.seen = @ \cup {c}] ELSE page[q]]
    BY DEF ReadLine
  <1>3. PageType'
    BY <1>1, <1>2 DEF PageType
  <1>4. ASSUME NEW q \in LineReaders(x)
        PROVE  /\ q \in Pairings /\ page[q].at = "watching" /\ page[q].reader = x
               /\ page'[q].reader = page[q].reader /\ page'[q].at = page[q].at
               /\ page'[q].card = page[q].card /\ page'[q].ring = page[q].ring
               /\ page'[q].seen = page[q].seen \cup {c}
    BY <1>1, <1>2 DEF LineReaders, At, Pages
  <1>5. ASSUME NEW q \in Pairings, q \notin LineReaders(x) PROVE page'[q] = page[q]
    BY <1>2, <1>5
  <1>6. ASSUME NEW q \in LineReaders(x)
        PROVE  HeardOf(q)' \subseteq HeardOf(q) \cup {c}
    BY <1>4 DEF HeardOf
  <1>7. ASSUME NEW q \in Pairings, q \notin LineReaders(x) PROVE HeardOf(q)' = HeardOf(q)
    BY <1>5, <1>7 DEF HeardOf
  <1> QED  BY <1>3, <1>4, <1>5, <1>6, <1>7 DEF Armable

LEMMA ArmFindMoves ==
    ASSUME TypeOK, NEW p \in Pairings, NEW x \in Readers, NEW why \in Purposes,
           ArmFind(p, x, why)
    PROVE  /\ PageType' /\ page[p].at = "idle"
           /\ \A q \in Pairings : q # p => page'[q] = page[q]
           /\ page'[p].ring = page[p].ring /\ page'[p].seen = page[p].seen
           /\ \/ page'[p].at = "inserting" /\ page'[p].reader = x
              \/ page'[p].at = "over" /\ page'[p].reader = page[p].reader
  <1>1. page \in [Pairings -> Pages] /\ page[p] \in Pages
    BY DEF TypeOK
  <1>2. CASE page' = [page EXCEPT ![p].at = "inserting", ![p].reader = x,
                                  ![p].purpose = why]
    <2> DEFINE r == [page[p] EXCEPT !.at = "inserting", !.reader = x, !.purpose = why]
    <2>1. /\ r \in Pages /\ r.at = "inserting" /\ r.reader = x
          /\ r.ring = page[p].ring /\ r.seen = page[p].seen
      BY <1>1 DEF Pages
    <2>2. page' = [page EXCEPT ![p] = r]
      BY <1>1, <1>2
    <2> HIDE DEF r
    <2> QED  BY <1>1, <2>1, <2>2 DEF ArmFind, PageType
  <1>3. CASE page' = [page EXCEPT ![p].at = "over", ![p].purpose = why]
    <2> DEFINE r == [page[p] EXCEPT !.at = "over", !.purpose = why]
    <2>1. /\ r \in Pages /\ r.at = "over" /\ r.reader = page[p].reader
          /\ r.ring = page[p].ring /\ r.seen = page[p].seen
      BY <1>1 DEF Pages
    <2>2. page' = [page EXCEPT ![p] = r]
      BY <1>1, <1>3
    <2> HIDE DEF r
    <2> QED  BY <1>1, <2>1, <2>2 DEF ArmFind, PageType
  <1> QED  BY <1>2, <1>3 DEF ArmFind

----------------------------------------------------------------------------
(* The rows.                                                               *)

\* A row that stays a row, whatever is written in it.
LEMMA RowWrite ==
    ASSUME TypeOK, NEW p \in Pairings, NEW r \in Rows, row[p].status # "none",
           r.status # "none", row' = [row EXCEPT ![p] = r], born' = born
    PROVE  /\ RowType' /\ row'[p] = r
           /\ \A q \in Pairings : q # p => row'[q] = row[q]
  BY DEF TypeOK, RowType

LEMMA DeleteFrame ==
    ASSUME TypeOK, NEW p \in Pairings, Delete(p) PROVE RowFrame
  <1>1. NoRow \in Rows /\ NoRow.status = "none"
    BY DEF NoRow, Rows
  <1>2. /\ row' \in [Pairings -> Rows] /\ row'[p] = NoRow
        /\ \A q \in Pairings : q # p => row'[q] = row[q]
    BY <1>1 DEF TypeOK, Delete
  <1>3. /\ born' \in [Pairings -> SUBSET Pairings] /\ born'[p] = {}
        /\ \A q \in Pairings : q # p => born'[q] = born[q] \ {p}
    BY DEF TypeOK, Delete
  <1>4. \A q \in Pairings : row'[q].status # "none" <=> q \in born'[q]
    BY <1>1, <1>2, <1>3 DEF TypeOK
  <1> QED  BY <1>1, <1>2, <1>3, <1>4 DEF RowFrame, RowType

LEMMA InsertMoves ==
    ASSUME TypeOK, NEW p \in Pairings, Insert(p)
    PROVE  /\ RowType' /\ row'[p].status = "armed"
           /\ \A q \in Pairings : q # p => row'[q] = row[q]
  <1> DEFINE r == [NoRow EXCEPT !.status = "armed"]
  <1>1. r \in Rows /\ r.status = "armed"
    BY DEF NoRow, Rows
  <1>2. row' = [row EXCEPT ![p] = r]
    BY DEF Insert
  <1> HIDE DEF r
  <1>3. /\ row' \in [Pairings -> Rows] /\ row'[p] = r
        /\ \A q \in Pairings : q # p => row'[q] = row[q]
    BY <1>1, <1>2 DEF TypeOK
  <1>4. /\ born' \in [Pairings -> SUBSET Pairings] /\ p \in born'[p]
        /\ \A q \in Pairings : q # p => born'[q] = born[q]
    BY DEF TypeOK, Insert
  <1>5. \A q \in Pairings : row'[q].status # "none" <=> q \in born'[q]
    BY <1>1, <1>3, <1>4 DEF TypeOK
  <1> QED  BY <1>1, <1>3, <1>4, <1>5 DEF RowType

LEMMA LapseFrame ==
    ASSUME TypeOK, NEW p \in Pairings, Lapse(p) PROVE RowFrame
  <1> DEFINE r == [row[p] EXCEPT !.recent = FALSE]
  <1>1. row[p] \in Rows
    BY DEF TypeOK
  <1>2. r \in Rows /\ r.status = row[p].status /\ r.card = row[p].card
    BY <1>1 DEF Rows
  <1>3. row' = [row EXCEPT ![p] = r] /\ born' = born
    BY DEF Lapse
  <1> HIDE DEF r
  <1>4. /\ row' \in [Pairings -> Rows] /\ row'[p] = r
        /\ \A q \in Pairings : q # p => row'[q] = row[q]
    BY <1>2, <1>3 DEF TypeOK
  <1>5. RowType'
    BY <1>2, <1>3, <1>4 DEF TypeOK, RowType
  <1> QED  BY <1>2, <1>4, <1>5 DEF RowFrame

LEMMA ConsumeFrame ==
    ASSUME TypeOK, NEW p \in Pairings, row[p].status \in {"armed", "matched"},
           row' = [row EXCEPT ![p].status = "consumed", ![p].recent = TRUE],
           born' = born
    PROVE  RowFrame /\ row'[p].status = "consumed"
  <1> DEFINE r == [row[p] EXCEPT !.status = "consumed", !.recent = TRUE]
  <1>1. row[p] \in Rows
    BY DEF TypeOK
  <1>2. r \in Rows /\ r.status = "consumed" /\ r.card = row[p].card
    BY <1>1 DEF Rows
  <1>3. row' = [row EXCEPT ![p] = r]
    BY <1>1 DEF TypeOK
  <1> HIDE DEF r
  <1>4. /\ RowType' /\ row'[p] = r
        /\ \A q \in Pairings : q # p => row'[q] = row[q]
    BY <1>2, <1>3, RowWrite
  <1> QED  BY <1>2, <1>4 DEF RowFrame

\* The row is matched to a card, by the hook, or consumed with it, by the phone.
LEMMA CardWritten ==
    ASSUME TypeOK, NEW p \in Pairings, NEW status \in {"matched", "consumed"},
           NEW c \in Cards, row[p].status # "none", born' = born,
           row' = [row EXCEPT ![p] = [status |-> status, card |-> c, recent |-> TRUE]]
    PROVE  /\ RowType' /\ row'[p].status = status /\ row'[p].card = c
           /\ \A q \in Pairings : q # p => row'[q] = row[q]
  <1> DEFINE r == [status |-> status, card |-> c, recent |-> TRUE]
  <1>1. r \in Rows /\ r.status = status /\ r.card = c
    BY DEF Rows
  <1>2. row' = [row EXCEPT ![p] = r]
    OBVIOUS
  <1> HIDE DEF r
  <1> QED  BY <1>1, <1>2, RowWrite

----------------------------------------------------------------------------
(* The taps and the watchdog.                                              *)

LEMMA TapMoves ==
    ASSUME TypeOK, NEW k \in Taps, NEW r \in TapRecords, tap' = [tap EXCEPT ![k] = r],
           r.reader = tap[k].reader, r.card = tap[k].card, tap[k].at # "unused",
           r.at # "unused",
           r.at \in {"asking", "blocked", "passed"} \/ r.charge = "running" => Live(k),
           tap[k].charge # "none" => r.charge # "none",
           r.charge = "stopped" => tap[k].charge = "stopped"
    PROVE  TapFrame /\ tap'[k] = r
  <1>1. /\ tap' \in [Taps -> TapRecords] /\ tap'[k] = r
        /\ \A j \in Taps : j # k => tap'[j] = tap[j]
    BY DEF TypeOK
  <1>2. Live(k)' => Live(k)
    BY <1>1 DEF Live
  <1>3. \A j \in Taps : j # k => (Live(j)' <=> Live(j))
    BY <1>1 DEF Live
  <1> QED  BY <1>1, <1>2, <1>3 DEF TapFrame

LEMMA TapGoes ==
    ASSUME TypeOK, NEW k \in Taps, NEW stage \in {"blocked", "passed", "over"},
           tap[k].at \in {"asking", "blocked", "passed"},
           tap' = [tap EXCEPT ![k].at = stage]
    PROVE  TapFrame
  <1> DEFINE r == [tap[k] EXCEPT !.at = stage]
  <1>1. tap[k] \in TapRecords
    BY DEF TypeOK
  <1>2. /\ r \in TapRecords /\ r.at = stage /\ r.reader = tap[k].reader
        /\ r.card = tap[k].card /\ r.charge = tap[k].charge
    BY <1>1 DEF TapRecords
  <1>3. tap' = [tap EXCEPT ![k] = r] /\ Live(k)
    BY DEF Live
  <1> HIDE DEF r
  <1> QED  BY <1>2, <1>3, TapMoves

LEMMA StartMoves ==
    ASSUME TypeOK, NEW k \in Taps, Start(k)
    PROVE  TapFrame /\ tap'[k].charge = "running"
  <1> DEFINE r == [tap[k] EXCEPT !.at = "over", !.charge = "running"]
  <1>1. tap[k] \in TapRecords
    BY DEF TypeOK
  <1>2. /\ r \in TapRecords /\ r.at = "over" /\ r.reader = tap[k].reader
        /\ r.card = tap[k].card /\ r.charge = "running"
    BY <1>1 DEF TapRecords
  <1>3. tap' = [tap EXCEPT ![k] = r] /\ Live(k) /\ tap[k].at # "unused"
    BY <1>1 DEF Live, Start, TypeOK
  <1> HIDE DEF r
  <1> QED  BY <1>2, <1>3, TapMoves

\* The watchdog's stop is the one step that a charge's end may come from.
LEMMA StopMoves ==
    ASSUME TypeOK, NEW k \in Taps, tap[k].at # "unused",
           tap' = [tap EXCEPT ![k].charge = "stopped"]
    PROVE  /\ tap' \in [Taps -> TapRecords]
           /\ tap'[k].at = tap[k].at /\ tap'[k].charge = "stopped"
           /\ tap'[k].reader = tap[k].reader /\ tap'[k].card = tap[k].card
           /\ Live(k)' => Live(k)
           /\ \A j \in Taps : j # k => tap'[j] = tap[j]
  <1> DEFINE r == [tap[k] EXCEPT !.charge = "stopped"]
  <1>1. tap[k] \in TapRecords
    BY DEF TypeOK
  <1>2. /\ r \in TapRecords /\ r.at = tap[k].at /\ r.reader = tap[k].reader
        /\ r.card = tap[k].card /\ r.charge = "stopped"
    BY <1>1 DEF TapRecords
  <1>3. tap' = [tap EXCEPT ![k] = r]
    OBVIOUS
  <1> HIDE DEF r
  <1>4. /\ tap' \in [Taps -> TapRecords] /\ tap'[k] = r
        /\ \A j \in Taps : j # k => tap'[j] = tap[j]
    BY <1>2, <1>3 DEF TypeOK
  <1> QED  BY <1>2, <1>4 DEF Live

LEMMA TapMade ==
    ASSUME TypeOK, NEW k \in Taps, NEW x \in Chargers, NEW c \in Cards, Tap(k, x, c)
    PROVE  /\ tap' \in [Taps -> TapRecords] /\ tap[k].at = "unused"
           /\ tap'[k].at \in {"asking", "passed"} /\ tap'[k].charge = "none"
           /\ tap'[k].reader = x /\ tap'[k].card = c
           /\ \A j \in Taps : j # k => tap'[j] = tap[j]
  <1>1. PICK stage \in {"asking", "passed"} :
           tap' = [tap EXCEPT ![k] = [NewTap EXCEPT !.at = stage, !.reader = x,
                                                    !.card = c]]
    BY DEF Tap
  <1> DEFINE r == [NewTap EXCEPT !.at = stage, !.reader = x, !.card = c]
  <1>2. /\ r \in TapRecords /\ r.at = stage /\ r.reader = x /\ r.card = c
        /\ r.charge = "none"
    BY DEF TapRecords, NewTap
  <1>3. tap' = [tap EXCEPT ![k] = r]
    BY <1>1
  <1> HIDE DEF r
  <1> QED  BY <1>2, <1>3 DEF TypeOK, Tap

WatchType ==
    watch \in [Taps -> [Copies -> {"none", "due", "asking", "stopping", "done"}]]

LEMMA WatchMoves ==
    ASSUME TypeOK, NEW k \in Taps, NEW d \in Copies,
           NEW stage \in {"due", "asking", "stopping", "done"},
           watch' = [watch EXCEPT ![k] = [@ EXCEPT ![d] = stage]]
    PROVE  /\ WatchType' /\ watch'[k][d] = stage
           /\ \A j \in Taps, e \in Copies :
                 j # k \/ e # d => watch'[j][e] = watch[j][e]
  BY DEF TypeOK, WatchType

----------------------------------------------------------------------------
(* Steps of one kind: of a page or a row that show no card and match none; *)
(* of the taps that StEvE has answered; of the watchdog.                   *)

QuietStep(p) ==
    \/ StreamLookup(p) \/ StreamSubscribe(p) \/ StreamDrops(p) \/ PageGivesUp(p)
    \/ Release(p) \/ LoginTurnedAway(p) \/ LoginMint(p) \/ LoginClean(p)
    \/ Expire(p) \/ Lapse(p) \/ PhoneCancels(p)
    \/ \E c \in Cards : PageDetects(p, c) \/ RingAges(p, c)

LEMMA QuietMoves ==
    ASSUME TypeOK, NEW p \in Pairings, QuietStep(p)
    PROVE  /\ PageFrame /\ RowFrame /\ faults' \in 0 .. MaxFaults
           /\ UNCHANGED << lines, tap, watch, recent, met, touched, taken >>
           /\ \/ sessions' = sessions
              \/ /\ page[p].at = "lookup"
                 /\ sessions' = sessions \cup {<< p, page[p].card >>}
  <1>1. faults \in 0 .. MaxFaults
    BY DEF TypeOK
  <1>2. CASE StreamLookup(p)
    <2>1. PageFrame
      BY <1>2, GotoFrame DEF StreamLookup
    <2> QED  BY <1>1, <1>2, <2>1, RowStays, FaultType DEF StreamLookup
  <1>3. CASE StreamSubscribe(p)
    BY <1>1, <1>3, StreamSubscribeFrame, RowStays DEF StreamSubscribe
  <1>4. CASE StreamDrops(p)
    BY <1>4, StreamDropsFrame, RowStays, FaultType DEF StreamDrops
  <1>5. CASE PageGivesUp(p)
    BY <1>1, <1>5, PageGivesUpFrame, RowStays DEF PageGivesUp
  <1>6. CASE Release(p)
    <2>1. PageFrame
      BY <1>6, LeaveFrame DEF Release
    <2>2. RowFrame /\ faults' \in 0 .. MaxFaults
      BY <1>1, <1>6, DeleteFrame, RowStays, FaultType DEF Release
    <2> QED  BY <1>6, <2>1, <2>2 DEF Release
  <1>7. CASE LoginTurnedAway(p)
    BY <1>1, <1>7, LeaveFrame, RowStays DEF LoginTurnedAway
  <1>8. CASE LoginMint(p)
    <2>1. PageFrame
      BY <1>8, LeaveFrame, GotoFrame DEF LoginMint
    <2> QED  BY <1>1, <1>8, <2>1, RowStays DEF LoginMint
  <1>9. CASE LoginClean(p)
    <2>1. PageFrame
      BY <1>9, LeaveFrame DEF LoginClean
    <2>2. RowFrame /\ faults' \in 0 .. MaxFaults
      BY <1>1, <1>9, DeleteFrame, RowStays, FaultType DEF LoginClean
    <2> QED  BY <1>9, <2>1, <2>2 DEF LoginClean
  <1>10. CASE Expire(p)
    BY <1>10, DeleteFrame, PageStays, FaultType DEF Expire
  <1>11. CASE Lapse(p)
    BY <1>11, LapseFrame, PageStays, FaultType DEF Lapse
  <1>12. CASE PhoneCancels(p)
    BY <1>1, <1>12, PhoneCancelsFrame, DeleteFrame DEF PhoneCancels
  <1>13. ASSUME NEW c \in Cards, PageDetects(p, c)
         PROVE  /\ PageFrame /\ RowFrame /\ faults' \in 0 .. MaxFaults
                /\ UNCHANGED << lines, tap, watch, recent, met, touched, taken, sessions >>
    BY <1>1, <1>13, PageDetectsFrame, RowStays DEF PageDetects
  <1>14. ASSUME NEW c \in Cards, RingAges(p, c)
         PROVE  /\ PageFrame /\ RowFrame /\ faults' \in 0 .. MaxFaults
                /\ UNCHANGED << lines, tap, watch, recent, met, touched, taken, sessions >>
    BY <1>1, <1>14, RingAgesFrame, RowStays DEF RingAges
  <1> QED
    BY <1>2, <1>3, <1>4, <1>5, <1>6, <1>7, <1>8, <1>9, <1>10, <1>11, <1>12, <1>13,
       <1>14
    DEF QuietStep

\* A tap, once StEvE asked, until its charge.
AnsweredStep(k) ==
    \/ HookMisses(k) \/ Reject(k) \/ Start(k) \/ \E d \in Copies : StartAgain(k, d)

LEMMA AnsweredMoves ==
    ASSUME TypeOK, NEW k \in Taps, AnsweredStep(k)
    PROVE  /\ TapFrame /\ WatchType' /\ faults' \in 0 .. MaxFaults
           /\ UNCHANGED << row, born, page, recent, sessions, met, touched, taken >>
           /\ \/ lines' = lines
              \/ /\ tap[k].at # "unused"
                 /\ lines' = lines \cup {<< tap[k].reader, tap[k].card >>}
           /\ \A j \in Taps, e \in Copies :
                 \/ watch'[j][e] = watch[j][e]
                 \/ watch'[j][e] = "due" /\ tap'[j].charge # "none"
  <1>1. faults \in 0 .. MaxFaults /\ WatchType
    BY DEF TypeOK, WatchType
  <1>2. CASE HookMisses(k)
    <2>1. TapFrame
      BY <1>2, TapGoes DEF HookMisses
    <2> QED  BY <1>1, <1>2, <2>1, FaultType DEF HookMisses, WatchType
  <1>3. CASE Reject(k)
    <2>1. TapFrame /\ tap[k].at # "unused"
      BY <1>3, TapGoes DEF Reject
    <2> QED  BY <1>1, <1>3, <2>1 DEF Reject, WatchType
  <1>4. CASE Start(k)
    <2>1. TapFrame /\ tap'[k].charge = "running"
      BY <1>4, StartMoves
    <2>2. 1 \in Copies
      BY ScanAssumption DEF Copies
    <2>3. /\ WatchType' /\ watch'[k][1] = "due"
          /\ \A j \in Taps, e \in Copies : j # k \/ e # 1 => watch'[j][e] = watch[j][e]
      BY <1>4, <2>2, WatchMoves DEF Start
    <2> QED  BY <1>1, <1>4, <2>1, <2>3 DEF Start
  <1>5. ASSUME NEW d \in Copies, StartAgain(k, d)
        PROVE  /\ TapFrame /\ WatchType' /\ faults' \in 0 .. MaxFaults
               /\ UNCHANGED << row, born, page, recent, sessions, met, touched, taken,
                               lines >>
               /\ \A j \in Taps, e \in Copies :
                     \/ watch'[j][e] = watch[j][e]
                     \/ watch'[j][e] = "due" /\ tap'[j].charge # "none"
    <2>1. /\ WatchType' /\ watch'[k][d] = "due"
          /\ \A j \in Taps, e \in Copies : j # k \/ e # d => watch'[j][e] = watch[j][e]
      BY <1>5, WatchMoves DEF StartAgain
    <2>2. tap' = tap /\ tap[k].charge # "none" /\ faults' \in 0 .. MaxFaults
      BY <1>5, FaultType DEF StartAgain
    <2> QED  BY <1>5, <2>1, <2>2, TapStays DEF StartAgain
  <1> QED  BY <1>2, <1>3, <1>4, <1>5 DEF AnsweredStep

----------------------------------------------------------------------------
(* The steps that arm, match or consume.                                   *)

LEMMA ArmInsertMoves ==
    ASSUME TypeOK, NEW p \in Pairings, ArmInsert(p)
    PROVE  /\ page[p].at = "inserting"
           /\ PageFrame /\ page'[p].at \notin Armable /\ faults' \in 0 .. MaxFaults
           /\ UNCHANGED << lines, tap, watch, recent, sessions, taken >>
           /\ \/ RowFrame /\ UNCHANGED << met, touched >>
              \/ /\ RowType' /\ row'[p].status = "armed"
                 /\ \A q \in Pairings : q # p => row'[q] = row[q]
                 /\ met' = met \cup { {p, q} : q \in { q \in At(page[p].reader) \ {p} :
                                                       page[q].at = "inserting" } }
                 /\ touched' = touched \cup
                       { k \in Taps : Live(k) /\ tap[k].reader = page[p].reader }
  <1>1. page[p].at = "inserting" /\ (Goto(p, "armed") \/ Leave(p))
    BY DEF ArmInsert
  <1>2. PageFrame
    BY <1>1, GotoFrame, LeaveFrame
  <1>3. page'[p].at \notin Armable
    <2>1. CASE Goto(p, "armed")
      BY <2>1, GotoRecord DEF Armable, TypeOK
    <2>2. CASE Leave(p)
      BY <2>2, LeaveRecord DEF Armable, TypeOK
    <2> QED  BY <1>1, <2>1, <2>2
  <1>4. faults' \in 0 .. MaxFaults
    BY FaultType DEF ArmInsert, TypeOK
  <1>5. CASE /\ Insert(p)
             /\ met' = met \cup { {p, q} : q \in { q \in At(page[p].reader) \ {p} :
                                                   page[q].at = "inserting" } }
             /\ touched' = touched \cup
                   { k \in Taps : Live(k) /\ tap[k].reader = page[p].reader }
    BY <1>1, <1>2, <1>3, <1>4, <1>5, InsertMoves DEF ArmInsert
  <1>6. CASE UNCHANGED << row, born, met, touched >>
    BY <1>1, <1>2, <1>3, <1>4, <1>6, RowStays DEF ArmInsert
  <1> QED  BY <1>5, <1>6 DEF ArmInsert

LEMMA LoginConsumeMoves ==
    ASSUME TypeOK, NEW p \in Pairings, LoginConsume(p)
    PROVE  /\ RowFrame /\ PageType' /\ faults' \in 0 .. MaxFaults
           /\ UNCHANGED << lines, tap, watch, recent, sessions, met, touched, taken >>
           /\ \/ PageFrame
              \/ /\ page[p].at = "login" /\ Consumable(p) /\ row'[p].status = "consumed"
                 /\ page'[p].at = "lookup" /\ page'[p].card = page[p].card
                 /\ page'[p].reader = page[p].reader
                 /\ HeardOf(p)' \subseteq HeardOf(p)
                 /\ \A q \in Pairings : q # p => page'[q] = page[q]
  <1>1. CASE Leave(p) /\ row' = row /\ faults' \in 0 .. MaxFaults
    BY <1>1, LeaveFrame, RowStays DEF LoginConsume, PageFrame
  <1>2. CASE /\ Consumable(p) /\ Goto(p, "lookup") /\ UNCHANGED faults
             /\ row' = [row EXCEPT ![p].status = "consumed", ![p].recent = TRUE]
    <2>1. RowFrame /\ row'[p].status = "consumed"
      BY <1>2, ConsumeFrame DEF LoginConsume, Consumable
    <2>2. PICK r \in Pages :
              /\ page' = [page EXCEPT ![p] = r] /\ r.at = "lookup"
              /\ r.reader = page[p].reader /\ r.card = page[p].card
              /\ r.ring = page[p].ring /\ r.seen = page[p].seen
      BY <1>2, GotoRecord
    <2>3. /\ page' \in [Pairings -> Pages] /\ page'[p] = r
          /\ \A q \in Pairings : q # p => page'[q] = page[q]
      BY <2>2 DEF TypeOK
    <2>4. HeardOf(p)' \subseteq HeardOf(p)
      BY <2>2, <2>3 DEF HeardOf
    <2>5. faults' \in 0 .. MaxFaults
      BY <1>2 DEF TypeOK
    <2> QED  BY <1>2, <2>1, <2>2, <2>3, <2>4, <2>5 DEF LoginConsume, PageType
  <1>3. \/ Leave(p) /\ row' = row /\ (UNCHANGED faults \/ Fault("db"))
        \/ /\ Consumable(p) /\ Goto(p, "lookup") /\ UNCHANGED faults
           /\ row' = [row EXCEPT ![p].status = "consumed", ![p].recent = TRUE]
    BY DEF LoginConsume
  <1> QED  BY <1>1, <1>2, <1>3, FaultType DEF TypeOK

\* A tap has a charger and a card, once it is made.
TapsMade ==
    \A k \in Taps :
        IF tap[k].at = "unused" THEN tap[k] = NewTap /\ taken[k] = None
        ELSE tap[k].reader \in Chargers /\ tap[k].card \in Cards

\* What the hook's statement does, and its announcement.
HookMatches(k, p) ==
    /\ p \in Stealable(k) /\ page[p].reader = tap[k].reader /\ tap[k].at = "asking"
    /\ row'[p].status = "matched" /\ row'[p].card = tap[k].card
    /\ \A q \in Pairings : q # p => row'[q] = row[q] /\ page'[q] = page[q]
    /\ page'[p].reader = page[p].reader /\ page'[p].at = page[p].at
    /\ page'[p].card = page[p].card
    /\ HeardOf(p)' \subseteq HeardOf(p) \cup {tap[k].card}
    /\ page[p].at \in Armable => page'[p] = page[p]
    /\ taken' = [taken EXCEPT ![k] = p]
    /\ touched' = touched \cup
          { j \in Taps : /\ Live(j) /\ tap[j].reader = tap[k].reader
                         /\ tap[j].card = tap[k].card }
    /\ UNCHANGED << lines, watch, recent, sessions, met >>

LEMMA HookMoves ==
    ASSUME TypeOK, TapsMade, NEW k \in Taps, HookSteals(k)
    PROVE  /\ PageType' /\ RowType' /\ TapFrame /\ faults' \in 0 .. MaxFaults
           /\ \E p \in Pairings : HookMatches(k, p)
  <1>1. PICK p \in Stealable(k) :
           /\ IF row[p].status = "armed" THEN Publish(p, tap[k].card) ELSE UNCHANGED page
           /\ row' = [row EXCEPT ![p] = [status |-> "matched", card |-> tap[k].card,
                                         recent |-> TRUE]]
           /\ taken' = [taken EXCEPT ![k] = p]
    BY DEF HookSteals
  <1>2. /\ p \in Pairings /\ page[p].reader = tap[k].reader /\ row[p].status # "none"
    BY DEF Stealable, At
  <1>3. tap[k].at = "asking" /\ tap[k].card \in Cards
    BY DEF HookSteals, TapsMade
  <1>4. /\ RowType' /\ row'[p].status = "matched" /\ row'[p].card = tap[k].card
        /\ \A q \in Pairings : q # p => row'[q] = row[q]
    BY <1>1, <1>2, <1>3, CardWritten DEF HookSteals
  <1>5. /\ PageType'
        /\ page'[p].reader = page[p].reader /\ page'[p].at = page[p].at
        /\ page'[p].card = page[p].card
        /\ HeardOf(p)' \subseteq HeardOf(p) \cup {tap[k].card}
        /\ page[p].at \in Armable => page'[p] = page[p]
        /\ \A q \in Pairings : q # p => page'[q] = page[q]
    <2>1. CASE Publish(p, tap[k].card)
      BY <1>2, <1>3, <2>1, PublishMoves
    <2>2. CASE page' = page
      BY <1>2, <2>2, PageStays DEF PageFrame
    <2> QED  BY <1>1, <2>1, <2>2
  <1>6. TapFrame
    BY <1>3, TapGoes DEF HookSteals
  <1>7. faults' \in 0 .. MaxFaults
    BY FaultType DEF HookSteals, TypeOK
  <1>8. HookMatches(k, p)
    BY <1>1, <1>2, <1>3, <1>4, <1>5 DEF HookSteals, HookMatches
  <1> QED  BY <1>2, <1>4, <1>5, <1>6, <1>7, <1>8

LEMMA PhoneMoves ==
    ASSUME TypeOK, NEW p \in Pairings, NEW c \in Cards, PhoneScans(p, c)
    PROVE  /\ PageType' /\ RowType' /\ page[p].reader \in Phones
           /\ row[p].status = "armed" /\ row'[p].status = "consumed" /\ row'[p].card = c
           /\ \A q \in Pairings :
                 /\ page'[q].reader = page[q].reader /\ page'[q].at = page[q].at
                 /\ page'[q].card = page[q].card
                 /\ page[q].at \in Armable => page'[q] = page[q]
           /\ HeardOf(p)' \subseteq HeardOf(p) \cup {c}
           /\ \A q \in Pairings : q # p => row'[q] = row[q] /\ page'[q] = page[q]
           /\ UNCHANGED << lines, tap, watch, recent, sessions, met, touched, taken,
                           faults >>
  <1>1. /\ RowType' /\ row'[p].status = "consumed" /\ row'[p].card = c
        /\ \A q \in Pairings : q # p => row'[q] = row[q]
    BY CardWritten DEF PhoneScans
  <1>2. Publish(p, c)
    BY DEF PhoneScans
  <1> QED  BY <1>1, <1>2, PublishMoves DEF PhoneScans

LEMMA WatchStepMoves ==
    ASSUME TypeOK, TapsMade, NEW k \in Taps, WatchStep(k)
    PROVE  /\ WatchType' /\ faults' \in 0 .. MaxFaults /\ recent' \subseteq Taps
           /\ UNCHANGED << row, born, page, lines, sessions, met, touched, taken >>
           /\ \A j \in Taps, e \in Copies :
                 watch'[j][e] # "none" => watch[j][e] # "none"
           /\ \/ /\ tap' = tap
                 /\ \A j \in Taps, e \in Copies :
                       watch'[j][e] = "stopping" =>
                          \/ watch[j][e] = "stopping"
                          \/ /\ watch[j][e] = "asking"
                             /\ \E p \in At(tap[j].reader) : Intent(p, tap[j].card)
              \/ /\ \E d \in Copies : watch[k][d] = "stopping"
                 /\ tap' = [tap EXCEPT ![k].charge = "stopped"]
                 /\ \A j \in Taps, e \in Copies :
                       watch'[j][e] = "stopping" => watch[j][e] = "stopping"
  <1>1. PICK d \in Copies : WatchHear(k, d) \/ WatchQuery(k, d) \/ WatchStop(k, d)
    BY DEF WatchStep
  <1>2. PICK stage \in {"due", "asking", "stopping", "done"} :
           /\ watch[k][d] # "none"
           /\ watch' = [watch EXCEPT ![k] = [@ EXCEPT ![d] = stage]]
           /\ stage = "stopping" => WatchQuery(k, d) /\ \E p \in At(tap[k].reader) :
                                                           Intent(p, tap[k].card)
    BY <1>1 DEF WatchHear, WatchQuery, WatchStop
  <1>3. /\ WatchType' /\ watch'[k][d] = stage
        /\ \A j \in Taps, e \in Copies : j # k \/ e # d => watch'[j][e] = watch[j][e]
    <2>1. watch' = [watch EXCEPT ![k] = [@ EXCEPT ![d] = stage]]
      BY <1>2
    <2> QED  BY <2>1 DEF TypeOK, WatchType
  <1>4. recent' \subseteq Taps
    BY <1>1 DEF WatchHear, WatchQuery, WatchStop, TypeOK
  <1>5. faults' \in 0 .. MaxFaults
    BY <1>1, FaultType DEF WatchHear, WatchQuery, WatchStop, TypeOK
  <1>6. UNCHANGED << row, born, page, lines, sessions, met, touched, taken >>
    BY <1>1 DEF WatchHear, WatchQuery, WatchStop
  <1>7. \/ tap' = tap
        \/ /\ watch[k][d] = "stopping" /\ tap' = [tap EXCEPT ![k].charge = "stopped"]
           /\ WatchStop(k, d)
    BY <1>1 DEF WatchHear, WatchQuery, WatchStop
  <1>8. stage = "stopping" => watch[k][d] = "asking"
    BY <1>2 DEF WatchQuery
  <1>9. CASE tap' = tap
    BY <1>2, <1>3, <1>4, <1>5, <1>6, <1>8, <1>9
  <1>10. CASE /\ watch[k][d] = "stopping" /\ tap' = [tap EXCEPT ![k].charge = "stopped"]
              /\ WatchStop(k, d)
    BY <1>2, <1>3, <1>4, <1>5, <1>6, <1>8, <1>10
  <1> QED  BY <1>7, <1>9, <1>10

LEMMA StepKinds ==
    ASSUME Next
    PROVE  \/ \E p \in Pairings :
                 \/ \E x \in Readers, why \in Purposes : ArmFind(p, x, why)
                 \/ ArmInsert(p) \/ LoginConsume(p) \/ QuietStep(p)
                 \/ \E c \in Cards : PhoneScans(p, c)
           \/ \E k \in Taps :
                 \/ \E x \in Chargers, c \in Cards : Tap(k, x, c)
                 \/ HookSteals(k) \/ AnsweredStep(k) \/ WatchStep(k)
           \/ \E x \in Chargers, c \in Cards : ReadLine(x, c)
  <1>1. ASSUME NEW p \in Pairings, PageStep(p)
        PROVE  \/ \E x \in Readers, why \in Purposes : ArmFind(p, x, why)
               \/ ArmInsert(p) \/ LoginConsume(p) \/ QuietStep(p)
    BY <1>1 DEF PageStep, QuietStep
  <1>2. ASSUME NEW p \in Pairings, PairingStep(p)
        PROVE  QuietStep(p) \/ \E c \in Cards : PhoneScans(p, c)
    BY <1>2 DEF PairingStep, QuietStep
  <1>3. ASSUME NEW k \in Taps, TapStep(k)
        PROVE  \/ \E x \in Chargers, c \in Cards : Tap(k, x, c)
               \/ HookSteals(k) \/ AnsweredStep(k)
    BY <1>3 DEF TapStep, AnsweredStep
  <1> QED  BY <1>1, <1>2, <1>3 DEF Next

----------------------------------------------------------------------------
(* Types.  A card is posted only once the page has been shown it, and a    *)
(* page is shown none before it has armed its reader: both are needed for  *)
(* the type of sessions, and by everything below.                          *)

Begun ==
    \A p \in Pairings :
        page[p].at \in Armable => row[p].status = "none" /\ HeardOf(p) = {}
Posting ==
    \A p \in Pairings :
        /\ HeardOf(p) \subseteq Cards
        /\ page[p].at \in {"lookup", "cleaning"} => page[p].card \in Cards
Charged ==
    \A k \in Taps, d \in Copies : watch[k][d] # "none" => tap[k].charge # "none"

PairInv == TypeOK /\ TapsMade /\ Begun /\ Posting /\ Charged

LEMMA InitPair == Init => PairInv
<1> SUFFICES ASSUME Init PROVE PairInv
    OBVIOUS
<1>1. NoRow \in Rows /\ NewPage \in Pages /\ NewTap \in TapRecords
    BY DEF NoRow, Rows, NewPage, Pages, NewTap, TapRecords
<1>2. TypeOK
    BY <1>1, ScanAssumption DEF Init, TypeOK, NoRow
<1>3. \A p \in Pairings : HeardOf(p) = {} /\ row[p].status = "none" /\ page[p].at = "idle"
    BY DEF Init, HeardOf, NoRow, NewPage
<1>4. TapsMade /\ Charged
    BY DEF Init, TapsMade, Charged, NewTap
<1> QED
    BY <1>2, <1>3, <1>4 DEF PairInv, Begun, Posting

\* The parts of the invariant that one kind of step may disturb.
LEMMA PagesKept ==
    ASSUME PairInv, PageFrame, RowFrame PROVE Begun' /\ Posting'
  <1>1. Begun'
    BY DEF PairInv, Begun, PageFrame, RowFrame, TypeOK, Rows
  <1>2. \A p \in Pairings : HeardOf(p)' \subseteq Cards
    BY DEF PairInv, Posting, PageFrame
  <1>3. \A p \in Pairings :
           page'[p].at \in {"lookup", "cleaning"} => page'[p].card \in Cards
    BY DEF PairInv, Posting, PageFrame
  <1> QED  BY <1>2, <1>1, <1>3 DEF Posting

LEMMA TapsKept ==
    ASSUME PairInv, TapFrame, taken' = taken PROVE TapsMade'
  BY DEF PairInv, TapsMade, TapFrame

LEMMA ChargedKept ==
    ASSUME PairInv, TapFrame,
           \A k \in Taps, d \in Copies :
              watch'[k][d] # "none" => watch[k][d] # "none" \/ tap'[k].charge # "none"
    PROVE  Charged'
  BY DEF PairInv, Charged, TapFrame

LEMMA NextPair == PairInv /\ [Next]_vars => PairInv'
<1> SUFFICES ASSUME PairInv, [Next]_vars PROVE PairInv'
    OBVIOUS
<1>1. TypeOK /\ TapsMade /\ Begun /\ Posting /\ Charged
    BY DEF PairInv
<1>2. PageType /\ RowType /\ TapType /\ RestType
    BY <1>1, TypeParts
<1>3. ASSUME NEW p \in Pairings, NEW x \in Readers, NEW why \in Purposes,
             ArmFind(p, x, why)
      PROVE  PairInv'
  <2>1. /\ PageType' /\ page[p].at = "idle"
        /\ \A q \in Pairings : q # p => page'[q] = page[q]
        /\ page'[p].ring = page[p].ring /\ page'[p].seen = page[p].seen
        /\ page'[p].at \in {"inserting", "over"}
    BY <1>1, <1>3, ArmFindMoves
  <2>2. /\ UNCHANGED << row, born, lines, tap, watch, recent, sessions, touched, taken >>
        /\ faults' \in 0 .. MaxFaults
    BY <1>1, <1>3, FaultType DEF ArmFind, TypeOK
  <2>3. TypeOK'
    BY <1>2, <2>1, <2>2, TypeParts DEF RowType, TapType, RestType, TypeOK, PageType
  <2>4. HeardOf(p) = {} /\ HeardOf(p)' = {} /\ row[p].status = "none"
    BY <1>1, <2>1 DEF Begun, Armable, HeardOf
  <2>5. \A q \in Pairings : q # p => HeardOf(q)' = HeardOf(q)
    BY <2>1 DEF HeardOf
  <2>6. Begun' /\ Posting'
    BY <1>1, <2>1, <2>2, <2>4, <2>5 DEF Begun, Posting
  <2>7. TapsMade' /\ Charged'
    BY <1>1, <2>2 DEF TapsMade, Charged
  <2> QED  BY <2>3, <2>6, <2>7 DEF PairInv
<1>4. ASSUME NEW p \in Pairings, ArmInsert(p) PROVE PairInv'
  <2>1. /\ page[p].at = "inserting"
        /\ PageFrame /\ page'[p].at \notin Armable /\ faults' \in 0 .. MaxFaults
        /\ UNCHANGED << lines, tap, watch, recent, sessions, taken >>
        /\ touched' \subseteq Taps
        /\ \/ RowFrame
           \/ RowType' /\ \A q \in Pairings : q # p => row'[q] = row[q]
    BY <1>1, <1>4, ArmInsertMoves DEF TypeOK
  <2>2. PageType' /\ RowType' /\ TapType' /\ RestType'
    BY <1>2, <2>1 DEF PageFrame, RowFrame, TapType, RestType
  <2>3. TypeOK'
    BY <2>2, TypeParts DEF TypeOK, PageType, RowType, TapType, RestType
  <2>4. Posting'
    BY <1>1, <2>1 DEF Posting, PageFrame
  <2>5. Begun'
    <3>1. CASE RowFrame
      BY <2>1, <3>1, PagesKept
    <3>2. CASE \A q \in Pairings : q # p => row'[q] = row[q]
      BY <1>1, <2>1, <3>2 DEF Begun, PageFrame
    <3> QED  BY <2>1, <3>1, <3>2
  <2>6. TapsMade' /\ Charged'
    BY <1>1, <2>1 DEF TapsMade, Charged
  <2> QED  BY <2>3, <2>4, <2>5, <2>6 DEF PairInv
<1>5. ASSUME NEW p \in Pairings, LoginConsume(p) PROVE PairInv'
  <2>1. /\ RowFrame /\ PageType' /\ faults' \in 0 .. MaxFaults
        /\ UNCHANGED << lines, tap, watch, recent, sessions, met, touched, taken >>
        /\ \/ PageFrame
           \/ /\ page[p].at = "login"
              /\ page'[p].at = "lookup" /\ page'[p].card = page[p].card
              /\ HeardOf(p)' \subseteq HeardOf(p)
              /\ \A q \in Pairings : q # p => page'[q] = page[q]
    BY <1>1, <1>5, LoginConsumeMoves
  <2>2. RowType' /\ TapType' /\ RestType'
    BY <1>2, <2>1 DEF RowFrame, TapType, RestType
  <2>3. TypeOK'
    BY <2>1, <2>2, TypeParts DEF TypeOK, PageType, RowType, TapType, RestType
  <2>4. Begun' /\ Posting'
    <3>1. CASE PageFrame
      BY <2>1, <3>1, PagesKept
    <3>2. CASE /\ page[p].at = "login"
               /\ page'[p].at = "lookup" /\ page'[p].card = page[p].card
               /\ HeardOf(p)' \subseteq HeardOf(p)
               /\ \A q \in Pairings : q # p => page'[q] = page[q]
      <4>1. page[p].card \in Cards
        BY <1>1, <3>2 DEF Posting, HeardOf
      <4>2. \A q \in Pairings : q # p => HeardOf(q)' = HeardOf(q)
        BY <3>2 DEF HeardOf
      <4>3. Posting'
        BY <1>1, <3>2, <4>1, <4>2 DEF Posting
      <4>4. Begun'
        BY <1>1, <2>1, <3>2, <4>2 DEF Begun, RowFrame, Armable
      <4> QED  BY <4>3, <4>4
    <3> QED  BY <2>1, <3>1, <3>2
  <2>5. TapsMade' /\ Charged'
    BY <1>1, <2>1 DEF TapsMade, Charged
  <2> QED  BY <2>3, <2>4, <2>5 DEF PairInv
<1>6. ASSUME NEW p \in Pairings, QuietStep(p) PROVE PairInv'
  <2>1. /\ PageFrame /\ RowFrame /\ faults' \in 0 .. MaxFaults
        /\ UNCHANGED << lines, tap, watch, recent, met, touched, taken >>
        /\ \/ sessions' = sessions
           \/ /\ page[p].at = "lookup"
              /\ sessions' = sessions \cup {<< p, page[p].card >>}
    BY <1>1, <1>6, QuietMoves
  <2>2. sessions' \subseteq Pairings \X Cards
    BY <1>1, <1>2, <2>1 DEF Posting, RestType
  <2>3. PageType' /\ RowType' /\ TapType' /\ RestType'
    BY <1>2, <2>1, <2>2 DEF PageFrame, RowFrame, TapType, RestType
  <2>4. TypeOK'
    BY <2>3, TypeParts DEF TypeOK, PageType, RowType, TapType, RestType
  <2>5. Begun' /\ Posting'
    BY <2>1, PagesKept
  <2>6. TapsMade' /\ Charged'
    BY <1>1, <2>1 DEF TapsMade, Charged
  <2> QED  BY <2>4, <2>5, <2>6 DEF PairInv
<1>7. ASSUME NEW p \in Pairings, NEW c \in Cards, PhoneScans(p, c) PROVE PairInv'
  <2>1. /\ PageType' /\ RowType' /\ row[p].status = "armed"
        /\ \A q \in Pairings :
              /\ page'[q].at = page[q].at /\ page'[q].card = page[q].card
        /\ HeardOf(p)' \subseteq HeardOf(p) \cup {c}
        /\ \A q \in Pairings : q # p => row'[q] = row[q] /\ page'[q] = page[q]
        /\ UNCHANGED << lines, tap, watch, recent, sessions, met, touched, taken,
                        faults >>
    BY <1>1, <1>7, PhoneMoves
  <2>2. TapType' /\ RestType'
    BY <1>2, <2>1 DEF TapType, RestType
  <2>3. TypeOK'
    BY <2>1, <2>2, TypeParts DEF TypeOK, PageType, RowType, TapType, RestType
  <2>4. \A q \in Pairings : q # p => HeardOf(q)' = HeardOf(q)
    BY <2>1 DEF HeardOf
  <2>5. page[p].at \notin Armable
    BY <1>1, <2>1 DEF Begun
  <2>6. Begun' /\ Posting'
    BY <1>1, <2>1, <2>4, <2>5 DEF Begun, Posting
  <2>7. TapsMade' /\ Charged'
    BY <1>1, <2>1 DEF TapsMade, Charged
  <2> QED  BY <2>3, <2>6, <2>7 DEF PairInv
<1>8. ASSUME NEW k \in Taps, NEW x \in Chargers, NEW c \in Cards, Tap(k, x, c)
      PROVE  PairInv'
  <2>1. /\ tap' \in [Taps -> TapRecords] /\ tap[k].at = "unused"
        /\ tap'[k].at \in {"asking", "passed"} /\ tap'[k].charge = "none"
        /\ tap'[k].reader = x /\ tap'[k].card = c
        /\ \A j \in Taps : j # k => tap'[j] = tap[j]
    BY <1>1, <1>8, TapMade
  <2>2. /\ UNCHANGED << row, born, page, lines, watch, recent, sessions, met, taken >>
        /\ touched' \subseteq Taps /\ faults' \in 0 .. MaxFaults
    BY <1>1, <1>8, FaultType DEF Tap, TypeOK
  <2>3. PageType' /\ RowType' /\ TapType' /\ RestType'
    BY <1>2, <2>1, <2>2 DEF PageType, RowType, TapType, RestType
  <2>4. TypeOK'
    BY <2>3, TypeParts DEF TypeOK, PageType, RowType, TapType, RestType
  <2>5. Begun' /\ Posting'
    BY <1>1, <2>2 DEF Begun, Posting, HeardOf
  <2>6. TapsMade'
    BY <1>1, <2>1, <2>2 DEF TapsMade
  <2>7. \A d \in Copies : watch[k][d] = "none"
    BY <1>1, <2>1 DEF Charged, TapsMade, NewTap
  <2>8. Charged'
    BY <1>1, <2>1, <2>2, <2>7 DEF Charged
  <2> QED  BY <2>4, <2>5, <2>6, <2>8 DEF PairInv
<1>9. ASSUME NEW k \in Taps, HookSteals(k) PROVE PairInv'
  <2>1. PageType' /\ RowType' /\ TapFrame /\ faults' \in 0 .. MaxFaults
    BY <1>1, <1>9, HookMoves
  <2>2. PICK p \in Pairings : HookMatches(k, p)
    BY <1>1, <1>9, HookMoves
  <2>3. TapType' /\ RestType'
    BY <1>2, <2>1, <2>2 DEF HookMatches, TapFrame, TapType, RestType
  <2>4. TypeOK'
    BY <2>1, <2>3, TypeParts DEF TypeOK, PageType, RowType, TapType, RestType
  <2>5. tap[k].card \in Cards /\ row[p].status # "none"
    BY <1>1, <2>2 DEF HookMatches, TapsMade, Stealable
  <2>6. page[p].at \notin Armable
    BY <1>1, <2>5 DEF Begun
  <2>7. \A q \in Pairings : q # p => HeardOf(q)' = HeardOf(q)
    BY <2>2 DEF HookMatches, HeardOf
  <2>8. Begun' /\ Posting'
    BY <1>1, <2>2, <2>5, <2>6, <2>7 DEF Begun, Posting, HookMatches
  <2>9. TapsMade'
    BY <1>1, <2>1, <2>2 DEF TapsMade, TapFrame, HookMatches, TypeOK
  <2>10. Charged'
    BY <2>1, <2>2, ChargedKept DEF HookMatches
  <2> QED  BY <2>4, <2>8, <2>9, <2>10 DEF PairInv
<1>10. ASSUME NEW k \in Taps, AnsweredStep(k) PROVE PairInv'
  <2>1. /\ TapFrame /\ WatchType' /\ faults' \in 0 .. MaxFaults
        /\ UNCHANGED << row, born, page, recent, sessions, met, touched, taken >>
        /\ \/ lines' = lines
           \/ /\ tap[k].at # "unused"
              /\ lines' = lines \cup {<< tap[k].reader, tap[k].card >>}
        /\ \A j \in Taps, e \in Copies :
              \/ watch'[j][e] = watch[j][e]
              \/ watch'[j][e] = "due" /\ tap'[j].charge # "none"
    BY <1>1, <1>10, AnsweredMoves
  <2>2. lines' \subseteq Chargers \X Cards
    BY <1>1, <1>2, <2>1 DEF TapsMade, RestType
  <2>3. PageType' /\ RowType' /\ TapType' /\ RestType'
    BY <1>2, <2>1, <2>2 DEF PageType, RowType, TapType, RestType, TapFrame, WatchType
  <2>4. TypeOK'
    BY <2>3, TypeParts DEF TypeOK, PageType, RowType, TapType, RestType
  <2>5. Begun' /\ Posting'
    BY <1>1, <2>1 DEF Begun, Posting, HeardOf
  <2>6. TapsMade' /\ Charged'
    BY <2>1, TapsKept, ChargedKept
  <2> QED  BY <2>4, <2>5, <2>6 DEF PairInv
<1>11. ASSUME NEW k \in Taps, WatchStep(k) PROVE PairInv'
  <2>1. /\ WatchType' /\ faults' \in 0 .. MaxFaults /\ recent' \subseteq Taps
        /\ UNCHANGED << row, born, page, lines, sessions, met, touched, taken >>
        /\ \A j \in Taps, e \in Copies : watch'[j][e] # "none" => watch[j][e] # "none"
        /\ \/ tap' = tap
           \/ /\ \E d \in Copies : watch[k][d] = "stopping"
              /\ tap' = [tap EXCEPT ![k].charge = "stopped"]
    BY <1>1, <1>11, WatchStepMoves
  <2>2. CASE tap' = tap
    <3>1. PageType' /\ RowType' /\ TapType' /\ RestType'
      BY <1>2, <2>1, <2>2 DEF PageType, RowType, TapType, RestType, WatchType
    <3>2. TypeOK'
      BY <3>1, TypeParts DEF TypeOK, PageType, RowType, TapType, RestType
    <3>3. Begun' /\ Posting'
      BY <1>1, <2>1 DEF Begun, Posting, HeardOf
    <3>4. TapsMade' /\ Charged'
      BY <1>1, <2>1, <2>2 DEF TapsMade, Charged
    <3> QED  BY <3>2, <3>3, <3>4 DEF PairInv
  <2>3. CASE /\ \E d \in Copies : watch[k][d] = "stopping"
             /\ tap' = [tap EXCEPT ![k].charge = "stopped"]
    <3>1. tap[k].charge # "none"
      BY <1>1, <2>3 DEF Charged
    <3>2. tap[k].at # "unused"
      BY <1>1, <3>1 DEF TapsMade, NewTap
    <3>3. /\ tap' \in [Taps -> TapRecords]
          /\ tap'[k].at = tap[k].at /\ tap'[k].charge = "stopped"
          /\ tap'[k].reader = tap[k].reader /\ tap'[k].card = tap[k].card
          /\ \A j \in Taps : j # k => tap'[j] = tap[j]
      BY <1>1, <2>3, <3>2, StopMoves
    <3>4. PageType' /\ RowType' /\ TapType' /\ RestType'
      BY <1>2, <2>1, <3>3 DEF PageType, RowType, TapType, RestType, WatchType
    <3>5. TypeOK'
      BY <3>4, TypeParts DEF TypeOK, PageType, RowType, TapType, RestType
    <3>6. Begun' /\ Posting'
      BY <1>1, <2>1 DEF Begun, Posting, HeardOf
    <3>7. TapsMade' /\ Charged'
      BY <1>1, <2>1, <3>2, <3>3 DEF TapsMade, Charged
    <3> QED  BY <3>5, <3>6, <3>7 DEF PairInv
  <2> QED  BY <2>1, <2>2, <2>3
<1>12. ASSUME NEW x \in Chargers, NEW c \in Cards, ReadLine(x, c) PROVE PairInv'
  <2>1. /\ PageType'
        /\ \A q \in Pairings :
              /\ page'[q].at = page[q].at /\ page'[q].card = page[q].card
              /\ HeardOf(q)' \subseteq HeardOf(q) \cup {c}
              /\ page[q].at \in Armable => page'[q] = page[q]
    BY <1>1, <1>12, ReadLineMoves
  <2>2. /\ UNCHANGED << row, born, tap, watch, recent, sessions, met, touched, taken, faults >>
        /\ lines' \subseteq lines
    BY <1>12 DEF ReadLine
  <2>3. RowType' /\ TapType' /\ RestType'
    BY <1>2, <2>2 DEF RowType, TapType, RestType
  <2>4. TypeOK'
    BY <2>1, <2>3, TypeParts DEF TypeOK, PageType, RowType, TapType, RestType
  <2>5. \A q \in Pairings : page[q].at \in Armable => HeardOf(q)' = HeardOf(q)
    BY <2>1 DEF HeardOf
  <2>6. Begun' /\ Posting'
    BY <1>1, <2>1, <2>2, <2>5 DEF Begun, Posting
  <2>7. TapsMade' /\ Charged'
    BY <1>1, <2>2 DEF TapsMade, Charged
  <2> QED  BY <2>4, <2>6, <2>7 DEF PairInv
<1>13. CASE UNCHANGED vars
  <2>1. TypeOK'
    BY <1>1, <1>13 DEF TypeOK, vars
  <2>2. Begun' /\ Posting'
    BY <1>1, <1>13 DEF Begun, Posting, HeardOf, vars
  <2> QED  BY <1>1, <1>13, <2>1, <2>2 DEF PairInv, TapsMade, Charged, vars
<1> QED
    BY <1>3, <1>4, <1>5, <1>6, <1>7, <1>8, <1>9, <1>10, <1>11, <1>12, <1>13, StepKinds

\* Every pairing, tap, page and queue of the system is of its type, and a row
\* is there exactly from its insertion to its deletion.
THEOREM TypeCorrect == Spec => []TypeOK
<1>1. PairInv => TypeOK
    BY DEF PairInv
<1> QED
    BY <1>1, InitPair, NextPair, PTL DEF Spec

----------------------------------------------------------------------------
(* One armed intent per reader.  A request that is about to insert has     *)
(* looked already: a row that is armed by then, it has met.                *)

Overlapped ==
    \A p, q \in Pairings :
        p # q /\ page[p].reader = page[q].reader /\ row[q].status = "armed"
              /\ (page[p].at = "inserting" \/ row[p].status = "armed")
        => {p, q} \in met

LEMMA OverlapKept ==
    ASSUME Overlapped, met' = met,
           \A p \in Pairings :
              /\ page'[p].reader = page[p].reader
              /\ page'[p].at = "inserting" => page[p].at = "inserting"
              /\ row'[p].status = "armed" => row[p].status = "armed"
    PROVE  Overlapped'
  BY DEF Overlapped

LEMMA NextOverlapped == PairInv /\ Overlapped /\ [Next]_vars => Overlapped'
<1> SUFFICES ASSUME PairInv, Overlapped, [Next]_vars PROVE Overlapped'
    OBVIOUS
<1>1. TypeOK /\ TapsMade /\ Begun
    BY DEF PairInv
<1>2. ASSUME PageFrame, RowFrame, met' = met PROVE Overlapped'
  <2>1. \A p \in Pairings :
           /\ page'[p].reader = page[p].reader
           /\ page'[p].at = "inserting" => page[p].at = "inserting"
           /\ row'[p].status = "armed" => row[p].status = "armed"
    BY <1>2 DEF PageFrame, RowFrame, Armable
  <2> QED  BY <1>2, <2>1, OverlapKept
<1>3. ASSUME NEW p \in Pairings, NEW x \in Readers, NEW why \in Purposes,
             ArmFind(p, x, why)
      PROVE  Overlapped'
  <2>1. /\ page[p].at = "idle"
        /\ \A q \in Pairings : q # p => page'[q] = page[q]
        /\ \/ page'[p].at = "inserting" /\ page'[p].reader = x
           \/ page'[p].at = "over" /\ page'[p].reader = page[p].reader
    BY <1>1, <1>3, ArmFindMoves
  <2>2. row' = row /\ row[p].status = "none" /\ met \subseteq met'
    BY <1>1, <1>3, <2>1 DEF ArmFind, Begun, Armable
  <2>3. CASE page'[p].at = "over"
    BY <2>1, <2>2, <2>3 DEF Overlapped
  <2>4. CASE page'[p].at = "inserting" /\ page'[p].reader = x
    <3>1. \A q \in ArmedAt(x) : {p, q} \in met'
      <4>1. \/ ArmedAt(x) = {}
            \/ page' = [page EXCEPT ![p].at = "over", ![p].purpose = why]
            \/ met' = met \cup { {p, q} : q \in ArmedAt(x) }
        BY <1>3 DEF ArmFind
      <4>2. page' # [page EXCEPT ![p].at = "over", ![p].purpose = why]
        BY <1>1, <2>4 DEF TypeOK, Pages
      <4> QED  BY <4>1, <4>2
    <3>2. \A q \in Pairings :
             q # p /\ page[q].reader = x /\ row[q].status = "armed" => {p, q} \in met'
      BY <3>1 DEF ArmedAt, At
    <3> QED  BY <2>1, <2>2, <2>4, <3>2 DEF Overlapped
  <2> QED  BY <2>1, <2>3, <2>4
<1>4. ASSUME NEW p \in Pairings, ArmInsert(p) PROVE Overlapped'
  <2>1. /\ page[p].at = "inserting" /\ PageFrame
        /\ page'[p].at \notin Armable
        /\ \/ RowFrame /\ UNCHANGED met
           \/ /\ row'[p].status = "armed"
              /\ \A q \in Pairings : q # p => row'[q] = row[q]
              /\ met' = met \cup { {p, q} : q \in { q \in At(page[p].reader) \ {p} :
                                                    page[q].at = "inserting" } }
    BY <1>1, <1>4, ArmInsertMoves
  <2>2. CASE /\ row'[p].status = "armed"
             /\ \A q \in Pairings : q # p => row'[q] = row[q]
             /\ met' = met \cup { {p, q} : q \in { q \in At(page[p].reader) \ {p} :
                                                   page[q].at = "inserting" } }
    <3>1. \A q \in Pairings :
             q # p /\ page[q].reader = page[p].reader
                   /\ (page[q].at = "inserting" \/ row[q].status = "armed")
             => {p, q} \in met'
      BY <2>1, <2>2 DEF Overlapped, At
    <3>2. \A q \in Pairings :
             /\ page'[q].reader = page[q].reader
             /\ page'[q].at = "inserting" => page[q].at = "inserting"
      BY <2>1 DEF PageFrame, Armable
    <3>3. page'[p].at # "inserting"
      BY <2>1 DEF Armable
    <3> SUFFICES ASSUME NEW q \in Pairings, NEW s \in Pairings, q # s,
                        page'[q].reader = page'[s].reader, row'[s].status = "armed",
                        page'[q].at = "inserting" \/ row'[q].status = "armed"
                 PROVE  {q, s} \in met'
      BY DEF Overlapped
    <3>4. CASE q = p
      <4>1. {p, s} \in met'
        BY <2>2, <3>1, <3>2, <3>4
      <4> QED  BY <3>4, <4>1
    <3>5. CASE s = p
      <4>1. {p, q} \in met'
        BY <2>2, <3>1, <3>2, <3>5
      <4>2. {p, q} = {q, s}
        BY <3>5
      <4> QED  BY <4>1, <4>2
    <3>6. CASE q # p /\ s # p
      BY <2>2, <3>2, <3>6 DEF Overlapped
    <3> QED  BY <3>4, <3>5, <3>6
  <2> QED  BY <1>2, <2>1, <2>2
<1>5. ASSUME NEW p \in Pairings, LoginConsume(p) PROVE Overlapped'
  <2>1. /\ RowFrame /\ met' = met
        /\ \/ PageFrame
           \/ /\ page'[p].at = "lookup" /\ page'[p].reader = page[p].reader
              /\ \A q \in Pairings : q # p => page'[q] = page[q]
    BY <1>1, <1>5, LoginConsumeMoves
  <2>2. \A q \in Pairings : row'[q].status = "armed" => row[q].status = "armed"
    BY <2>1 DEF RowFrame
  <2> QED  BY <1>2, <2>1, <2>2, OverlapKept
<1>6. ASSUME NEW p \in Pairings, QuietStep(p) PROVE Overlapped'
    BY <1>1, <1>2, <1>6, QuietMoves
<1>7. ASSUME NEW p \in Pairings, NEW c \in Cards, PhoneScans(p, c) PROVE Overlapped'
  <2>1. /\ row[p].status = "armed" /\ met' = met
        /\ \A q \in Pairings :
              page'[q].reader = page[q].reader /\ page'[q].at = page[q].at
        /\ \A q \in Pairings : q # p => row'[q] = row[q]
    BY <1>1, <1>7, PhoneMoves
  <2> QED  BY <2>1, OverlapKept
<1>8. ASSUME NEW k \in Taps, HookSteals(k) PROVE Overlapped'
  <2>1. PICK p \in Pairings : HookMatches(k, p)
    BY <1>1, <1>8, HookMoves
  <2> QED  BY <2>1, OverlapKept DEF HookMatches
<1>9. ASSUME NEW k \in Taps,
             \/ \E x \in Chargers, c \in Cards : Tap(k, x, c)
             \/ AnsweredStep(k) \/ WatchStep(k)
      PROVE  Overlapped'
  <2>1. UNCHANGED << row, page, met >>
    BY <1>1, <1>9, AnsweredMoves, WatchStepMoves DEF Tap
  <2> QED  BY <2>1, OverlapKept
<1>10. ASSUME NEW x \in Chargers, NEW c \in Cards, ReadLine(x, c) PROVE Overlapped'
  <2>1. \A q \in Pairings : page'[q].reader = page[q].reader /\ page'[q].at = page[q].at
    BY <1>1, <1>10, ReadLineMoves
  <2> QED  BY <1>10, <2>1, OverlapKept DEF ReadLine
<1>11. CASE UNCHANGED vars
    BY <1>11, OverlapKept DEF vars
<1> QED
    BY <1>3, <1>4, <1>5, <1>6, <1>7, <1>8, <1>9, <1>10, <1>11, StepKinds

\* Two pairings are armed at one reader only if the requests that armed them
\* overlapped, or one of them could not look: however many pages arm, and
\* whatever becomes of their rows.
THEOREM OneArmedIntent == Spec => []SingleFlight
<1>1. Init => Overlapped
    BY DEF Init, Overlapped, NoRow
<1>2. Overlapped => SingleFlight
    BY DEF Overlapped, SingleFlight
<1> QED
    BY <1>1, <1>2, InitPair, NextPair, NextOverlapped, PTL DEF Spec

----------------------------------------------------------------------------
(* The watchdog's stops.  While a card is being dealt with or charges, the *)
(* pairings that want it have touched its tap: so has then the one that    *)
(* the watchdog finds.                                                     *)

WantedTouched ==
    \A k \in Taps, p \in Pairings :
        Live(k) /\ page[p].reader = tap[k].reader /\ Wants(p, tap[k].card) => k \in touched
StopsTouched ==
    \A k \in Taps :
        /\ tap[k].charge = "stopped" => k \in touched
        /\ \A d \in Copies : watch[k][d] = "stopping" => k \in touched

\* What rows want after a step, given a step that lets no tap want more.
LEMMA WantedKept ==
    ASSUME TypeOK, WantedTouched, StopsTouched, TapFrame, touched \subseteq touched',
           \A k \in Taps, d \in Copies :
              watch'[k][d] = "stopping" => watch[k][d] = "stopping",
           \A k \in Taps, p \in Pairings, c \in Cards \cup {None} :
              Live(k) /\ c = tap[k].card /\ page'[p].reader = tap[k].reader /\ Wants(p, c)'
              => k \in touched' \/ (page[p].reader = tap[k].reader /\ Wants(p, c))
    PROVE  WantedTouched' /\ StopsTouched'
  <1>1. \A k \in Taps :
           /\ tap'[k].reader = tap[k].reader /\ tap'[k].card = tap[k].card
           /\ tap[k].card \in Cards \cup {None}
           /\ Live(k)' => Live(k)
           /\ tap'[k].charge = "stopped" => tap[k].charge = "stopped"
    BY DEF TapFrame, TypeOK, TapRecords
  <1>2. ASSUME NEW k \in Taps, NEW p \in Pairings, Live(k)',
               page'[p].reader = tap'[k].reader, Wants(p, tap[k].card)'
        PROVE  k \in touched'
    <2> DEFINE c == tap'[k].card
    <2>1. c \in Cards \cup {None} /\ c = tap[k].card
      BY <1>1
    <2>2. /\ Live(k) /\ page'[p].reader = tap[k].reader
          /\ \/ row'[p].status = "armed"
             \/ row'[p].status \in {"matched", "consumed"} /\ row'[p].card = c
      BY <1>1, <1>2 DEF Wants
    <2>3. k \in touched' \/ (page[p].reader = tap[k].reader /\ Wants(p, tap[k].card))
      BY <2>1, <2>2 DEF Wants
    <2> QED  BY <2>2, <2>3 DEF WantedTouched
  <1>3. WantedTouched'
    BY <1>2 DEF WantedTouched
  <1> QED  BY <1>1, <1>3 DEF StopsTouched

\* The rows as most steps leave them want no card that they did not want.
LEMMA RowsWant ==
    ASSUME RowFrame, NEW p \in Pairings, NEW c, Wants(p, c)' PROVE Wants(p, c)
  BY DEF RowFrame, Wants

LEMMA QuietlyWanted ==
    ASSUME PairInv, WantedTouched, StopsTouched, TapFrame, RowFrame,
           \A p \in Pairings : page'[p].reader = page[p].reader,
           touched' = touched,
           \A k \in Taps, d \in Copies :
              watch'[k][d] = "stopping" => watch[k][d] = "stopping"
    PROVE  WantedTouched' /\ StopsTouched'
  BY RowsWant, WantedKept DEF PairInv

LEMMA NextWanted ==
    PairInv /\ WantedTouched /\ StopsTouched /\ [Next]_vars
    => WantedTouched' /\ StopsTouched'
<1> SUFFICES ASSUME PairInv, WantedTouched, StopsTouched, [Next]_vars
             PROVE  WantedTouched' /\ StopsTouched'
    OBVIOUS
<1>1. TypeOK /\ TapsMade /\ Begun /\ Charged
    BY DEF PairInv
<1>2. \A k \in Taps : Live(k) => tap[k].reader \in Chargers
    BY <1>1 DEF TapsMade, Live, NewTap
<1>3. ASSUME NEW p \in Pairings, NEW x \in Readers, NEW why \in Purposes,
             ArmFind(p, x, why)
      PROVE  WantedTouched' /\ StopsTouched'
  <2>1. /\ page[p].at = "idle" /\ row' = row
        /\ \A q \in Pairings : q # p => page'[q] = page[q]
    <3>1. page[p].at = "idle" /\ \A q \in Pairings : q # p => page'[q] = page[q]
      BY <1>1, <1>3, ArmFindMoves
    <3>2. row' = row
      BY <1>3 DEF ArmFind
    <3> QED  BY <3>1, <3>2
  <2>2. row[p].status = "none"
    BY <1>1, <2>1 DEF Begun, Armable
  <2>3. \A q \in Pairings, c \in Cards \cup {None} :
           Wants(q, c)' => page'[q].reader = page[q].reader /\ Wants(q, c)
    BY <2>1, <2>2 DEF Wants
  <2>4. UNCHANGED << tap, watch, touched >>
    BY <1>3 DEF ArmFind
  <2> QED  BY <1>1, <2>3, <2>4, TapStays, WantedKept
<1>4. ASSUME NEW p \in Pairings, ArmInsert(p) PROVE WantedTouched' /\ StopsTouched'
  <2>1. /\ PageFrame /\ UNCHANGED << tap, watch >>
        /\ \/ RowFrame /\ UNCHANGED touched
           \/ /\ \A q \in Pairings : q # p => row'[q] = row[q]
              /\ touched' = touched \cup
                    { k \in Taps : Live(k) /\ tap[k].reader = page[p].reader }
    BY <1>1, <1>4, ArmInsertMoves
  <2>2. \A q \in Pairings : page'[q].reader = page[q].reader
    BY <2>1 DEF PageFrame
  <2>3. TapFrame
    BY <1>1, <2>1, TapStays
  <2>4. CASE RowFrame /\ UNCHANGED touched
    BY <2>1, <2>2, <2>3, <2>4, QuietlyWanted
  <2>5. CASE /\ \A q \in Pairings : q # p => row'[q] = row[q]
             /\ touched' = touched \cup
                   { k \in Taps : Live(k) /\ tap[k].reader = page[p].reader }
    <3>1. \A k \in Taps, q \in Pairings, c \in Cards \cup {None} :
             Live(k) /\ page'[q].reader = tap[k].reader /\ Wants(q, c)'
             => k \in touched' \/ (page[q].reader = tap[k].reader /\ Wants(q, c))
      <4>1. \A k \in Taps :
               Live(k) /\ page'[p].reader = tap[k].reader => k \in touched'
        BY <2>2, <2>5
      <4>2. \A q \in Pairings, c \in Cards \cup {None} :
               q # p /\ Wants(q, c)' => Wants(q, c)
        BY <2>5 DEF Wants
      <4>3. ASSUME NEW k \in Taps, NEW q \in Pairings, NEW c \in Cards \cup {None},
                   Live(k), page'[q].reader = tap[k].reader, Wants(q, c)'
            PROVE  k \in touched' \/ (page[q].reader = tap[k].reader /\ Wants(q, c))
        <5>1. CASE q = p
          BY <4>1, <4>3, <5>1 DEF Live
        <5>2. CASE q # p
          <6>1. Wants(q, c)
            BY <4>2, <4>3, <5>2, Zenon
          <6>2. page[q].reader = tap[k].reader
            BY <2>2, <4>3
          <6> QED  BY <6>1, <6>2
        <5> QED  BY <5>1, <5>2
      <4> QED  BY <4>3, Zenon
    <3> QED  BY <1>1, <2>1, <2>3, <2>5, <3>1, WantedKept
  <2> QED  BY <2>1, <2>4, <2>5
<1>5. ASSUME NEW p \in Pairings, LoginConsume(p) PROVE WantedTouched' /\ StopsTouched'
  <2>1. /\ RowFrame /\ UNCHANGED << tap, watch, touched >>
        /\ \/ PageFrame
           \/ /\ page'[p].reader = page[p].reader
              /\ \A q \in Pairings : q # p => page'[q] = page[q]
    BY <1>1, <1>5, LoginConsumeMoves
  <2>2. \A q \in Pairings : page'[q].reader = page[q].reader
    BY <2>1 DEF PageFrame
  <2> QED  BY <1>1, <2>1, <2>2, TapStays, QuietlyWanted
<1>6. ASSUME NEW p \in Pairings, QuietStep(p) PROVE WantedTouched' /\ StopsTouched'
  <2>1. PageFrame /\ RowFrame /\ UNCHANGED << tap, watch, touched >>
    BY <1>1, <1>6, QuietMoves
  <2>2. \A q \in Pairings : page'[q].reader = page[q].reader
    BY <2>1 DEF PageFrame
  <2> QED  BY <1>1, <2>1, <2>2, TapStays, QuietlyWanted
<1>7. ASSUME NEW p \in Pairings, NEW c \in Cards, PhoneScans(p, c)
      PROVE  WantedTouched' /\ StopsTouched'
  <2>1. /\ page[p].reader \in Phones
        /\ \A q \in Pairings : page'[q].reader = page[q].reader
        /\ \A q \in Pairings : q # p => row'[q] = row[q]
        /\ UNCHANGED << tap, watch, touched >>
    BY <1>1, <1>7, PhoneMoves
  <2>2. \A k \in Taps : Live(k) => page[p].reader # tap[k].reader
    BY <1>2, <2>1, ScanAssumption
  <2>3. \A k \in Taps, q \in Pairings, d \in Cards \cup {None} :
           Live(k) /\ page'[q].reader = tap[k].reader /\ Wants(q, d)'
           => page[q].reader = tap[k].reader /\ Wants(q, d)
    BY <2>1, <2>2 DEF Wants
  <2> QED  BY <1>1, <2>1, <2>3, TapStays, WantedKept
<1>8. ASSUME NEW k \in Taps, NEW x \in Chargers, NEW c \in Cards, Tap(k, x, c)
      PROVE  WantedTouched' /\ StopsTouched'
  <2>1. /\ tap[k].at = "unused" /\ tap'[k].charge = "none"
        /\ tap'[k].reader = x /\ tap'[k].card = c
        /\ \A j \in Taps : j # k => tap'[j] = tap[j]
    BY <1>1, <1>8, TapMade
  <2>2. /\ UNCHANGED << row, page, watch >> /\ touched \subseteq touched'
        /\ \A p \in Pairings : page[p].reader = x /\ Wants(p, c) => k \in touched'
    BY <1>8 DEF Tap, At
  <2>3. \A d \in Copies : watch[k][d] = "none"
    BY <1>1, <2>1 DEF Charged, TapsMade, NewTap
  <2>4. StopsTouched'
    BY <2>1, <2>2, <2>3 DEF StopsTouched
  <2>5. \A j \in Taps : j # k => (Live(j)' <=> Live(j))
    BY <2>1 DEF Live
  <2>6. ASSUME NEW p \in Pairings, page'[p].reader = tap'[k].reader,
               Wants(p, tap[k].card)'
        PROVE  k \in touched'
    BY <2>1, <2>2, <2>6 DEF Wants
  <2>7. ASSUME NEW j \in Taps, j # k, NEW p \in Pairings, Live(j),
               page'[p].reader = tap'[j].reader, Wants(p, tap[j].card)'
        PROVE  j \in touched'
    BY <2>1, <2>2, <2>7 DEF Wants, WantedTouched
  <2> QED  BY <2>4, <2>5, <2>6, <2>7 DEF WantedTouched
<1>9. ASSUME NEW k \in Taps, HookSteals(k) PROVE WantedTouched' /\ StopsTouched'
  <2>1. TapFrame
    BY <1>1, <1>9, HookMoves
  <2>2. PICK p \in Pairings : HookMatches(k, p)
    BY <1>1, <1>9, HookMoves
  <2>3. /\ \A q \in Pairings : page'[q].reader = page[q].reader
        /\ page[p].reader = tap[k].reader /\ touched \subseteq touched' /\ watch' = watch
    BY <2>2 DEF HookMatches
  <2>4. \A j \in Taps :
           Live(j) /\ tap[j].reader = tap[k].reader /\ tap[j].card = tap[k].card
           => j \in touched'
    BY <2>2 DEF HookMatches
  <2>5. \A c \in Cards \cup {None} : Wants(p, c)' => c = tap[k].card
    BY <2>2 DEF HookMatches, Wants
  <2>6. \A q \in Pairings, c \in Cards \cup {None} : q # p /\ Wants(q, c)' => Wants(q, c)
    BY <2>2 DEF HookMatches, Wants
  <2>7. \A j \in Taps, q \in Pairings, c \in Cards \cup {None} :
           Live(j) /\ c = tap[j].card /\ page'[q].reader = tap[j].reader /\ Wants(q, c)'
           => j \in touched' \/ (page[q].reader = tap[j].reader /\ Wants(q, c))
    <3> SUFFICES ASSUME NEW j \in Taps, NEW q \in Pairings, NEW c \in Cards \cup {None},
                        Live(j), c = tap[j].card, page'[q].reader = tap[j].reader,
                        Wants(q, c)'
                 PROVE  j \in touched' \/ (page[q].reader = tap[j].reader /\ Wants(q, c))
      BY Zenon
    <3>1. page[q].reader = tap[j].reader
      BY <2>3
    <3>2. CASE q = p
      <4>1. c = tap[k].card
        BY <2>5, <3>2 DEF Wants
      <4> QED  BY <2>3, <2>4, <3>1, <3>2, <4>1 DEF Live
    <3>3. CASE q # p
      BY <2>6, <3>1, <3>3, Zenon
    <3> QED  BY <3>2, <3>3
  <2> QED  BY <1>1, <2>1, <2>3, <2>7, WantedKept
<1>10. ASSUME NEW k \in Taps, AnsweredStep(k) PROVE WantedTouched' /\ StopsTouched'
  <2>1. /\ TapFrame /\ UNCHANGED << row, born, page, touched >>
        /\ \A j \in Taps, e \in Copies :
              watch'[j][e] = "stopping" => watch[j][e] = "stopping"
    BY <1>1, <1>10, AnsweredMoves
  <2> QED  BY <1>1, <2>1, RowStays, QuietlyWanted
<1>11. ASSUME NEW k \in Taps, WatchStep(k) PROVE WantedTouched' /\ StopsTouched'
  <2>1. UNCHANGED << row, page, touched >>
    BY <1>1, <1>11, WatchStepMoves
  <2>2. CASE /\ tap' = tap
             /\ \A j \in Taps, e \in Copies :
                   watch'[j][e] = "stopping" =>
                      \/ watch[j][e] = "stopping"
                      \/ /\ watch[j][e] = "asking"
                         /\ \E p \in At(tap[j].reader) : Intent(p, tap[j].card)
    <3>1. ASSUME NEW j \in Taps, NEW e \in Copies, watch'[j][e] = "stopping"
          PROVE  j \in touched
      <4>1. CASE watch[j][e] = "stopping"
        BY <4>1 DEF StopsTouched
      <4>2. CASE /\ watch[j][e] = "asking"
                 /\ \E p \in At(tap[j].reader) : Intent(p, tap[j].card)
        <5>1. tap[j].charge # "none"
          BY <1>1, <4>2 DEF Charged
        <5>2. tap[j].charge = "stopped" \/ Live(j)
          BY <1>1, <5>1 DEF TypeOK, TapRecords, Live
        <5>3. \E p \in Pairings : page[p].reader = tap[j].reader /\ Wants(p, tap[j].card)
          BY <4>2 DEF At, Intent, Wants
        <5> QED  BY <5>2, <5>3 DEF StopsTouched, WantedTouched
      <4> QED  BY <2>2, <3>1, <4>1, <4>2
    <3>2. StopsTouched'
      BY <2>1, <2>2, <3>1 DEF StopsTouched
    <3>3. WantedTouched'
      BY <2>1, <2>2 DEF WantedTouched, Live, Wants
    <3> QED  BY <3>2, <3>3
  <2>3. CASE /\ \E d \in Copies : watch[k][d] = "stopping"
             /\ tap' = [tap EXCEPT ![k].charge = "stopped"]
             /\ \A j \in Taps, e \in Copies :
                   watch'[j][e] = "stopping" => watch[j][e] = "stopping"
    <3>1. k \in touched
      BY <2>3 DEF StopsTouched
    <3>2. tap[k].charge # "none"
      BY <1>1, <2>3 DEF Charged
    <3>3. tap[k].at # "unused"
      BY <1>1, <3>2 DEF TapsMade, NewTap
    <3>4. \A j \in Taps : j # k => tap'[j] = tap[j]
      BY <1>1, <2>3, <3>3, StopMoves
    <3>5. StopsTouched'
      BY <2>1, <2>3, <3>1, <3>4 DEF StopsTouched
    <3>6. WantedTouched'
      BY <2>1, <3>1, <3>4 DEF WantedTouched, Live, Wants
    <3> QED  BY <3>5, <3>6
  <2> QED  BY <1>1, <1>11, <2>2, <2>3, WatchStepMoves
<1>12. ASSUME NEW x \in Chargers, NEW c \in Cards, ReadLine(x, c)
       PROVE  WantedTouched' /\ StopsTouched'
  <2>1. \A q \in Pairings : page'[q].reader = page[q].reader
    BY <1>1, <1>12, ReadLineMoves
  <2>2. UNCHANGED << row, born, tap, watch, touched >>
    BY <1>12 DEF ReadLine
  <2> QED  BY <1>1, <2>1, <2>2, RowStays, TapStays, QuietlyWanted
<1>13. CASE UNCHANGED vars
    BY <1>13 DEF WantedTouched, StopsTouched, Live, Wants, vars
<1> QED
    BY <1>3, <1>4, <1>5, <1>6, <1>7, <1>8, <1>9, <1>10, <1>11, <1>12, <1>13, StepKinds

\* The watchdog stops a charge only if a pairing wanted it, whatever repeats,
\* races and outages it met: nobody's ordinary charge.
THEOREM StopsAreWanted == Spec => []StopsOnlyWanted
<1>1. Init => WantedTouched /\ StopsTouched
  <2>1. ASSUME Init PROVE \A k \in Taps : ~Live(k) /\ tap[k].charge = "none"
    BY <2>1 DEF Init, Live, NewTap
  <2>2. ASSUME Init PROVE \A k \in Taps, d \in Copies : watch[k][d] = "none"
    BY <2>2 DEF Init
  <2> QED  BY <2>1, <2>2 DEF WantedTouched, StopsTouched
<1>2. StopsTouched => StopsOnlyWanted
    BY DEF StopsTouched, StopsOnlyWanted
<1> QED
    BY <1>1, <1>2, InitPair, NextPair, NextWanted, PTL DEF Spec

----------------------------------------------------------------------------
(* Whose card signs a page in.  Three things are carried from the tap to   *)
(* the session: every card a page is shown was tapped at its reader (or    *)
(* its row is spent, on a phone); a row the hook took names the card of    *)
(* the tap it was taken for; and a page that consumed its row posted that  *)
(* very card.                                                              *)

Tapped(p, c) == \E k \in Taps : tap[k].card = c /\ tap[k].reader = page[p].reader

SignedBy(p, c) ==
    /\ Spent(p) /\ page[p].at \notin Armable
    /\ Tapped(p, c)
    /\ \A k \in Taps : taken[k] = p => tap[k].card = c

LoggedTaps ==
    \A l \in lines : \E k \in Taps : tap[k].reader = l[1] /\ tap[k].card = l[2]
CardsHeard ==
    \A p \in Pairings, c \in Cards :
        c \in HeardOf(p) => Tapped(p, c) \/ (page[p].reader \in Phones /\ Spent(p))
TakenRows ==
    \A k \in Taps, p \in Pairings :
        taken[k] = p =>
            /\ page[p].at \notin Armable /\ row[p].status # "armed"
            /\ row[p].status = "matched" => tap[k].card = row[p].card
Consumed ==
    \A p \in Pairings, c \in Cards :
        page[p].at \in {"lookup", "cleaning"} /\ page[p].card = c => SignedBy(p, c)
SignedIn == \A p \in Pairings, c \in Cards : << p, c >> \in sessions => SignedBy(p, c)

SignInv == LoggedTaps /\ CardsHeard /\ TakenRows /\ Consumed /\ SignedIn

\* Taps that were made are as they were.
TapsStay ==
    \A k \in Taps : tap[k].at # "unused" =>
        tap'[k].reader = tap[k].reader /\ tap'[k].card = tap[k].card

LEMMA TappedKept ==
    ASSUME PairInv, TapsStay, NEW p \in Pairings, NEW c \in Cards, Tapped(p, c),
           page'[p].reader = page[p].reader
    PROVE  Tapped(p, c)'
  <1>1. PICK k \in Taps : tap[k].card = c /\ tap[k].reader = page[p].reader
    BY DEF Tapped
  <1>2. tap[k].at # "unused"
    BY <1>1, ScanAssumption DEF PairInv, TapsMade, NewTap
  <1>3. tap'[k].card = c /\ tap'[k].reader = page'[p].reader
    BY <1>1, <1>2 DEF TapsStay
  <1> QED  BY <1>3 DEF Tapped

LEMMA SignedKept ==
    ASSUME PairInv, TapsStay, NEW p \in Pairings, NEW c \in Cards, SignedBy(p, c),
           page'[p].reader = page[p].reader, page'[p].at \notin Armable, Spent(p)',
           \A k \in Taps : taken'[k] = p => taken[k] = p
    PROVE  SignedBy(p, c)'
  <1>1. Tapped(p, c)'
    BY TappedKept DEF SignedBy
  <1>2. \A k \in Taps : taken'[k] = p => tap'[k].card = c
    <2> SUFFICES ASSUME NEW k \in Taps, taken'[k] = p PROVE tap'[k].card = c
      OBVIOUS
    <2>1. taken[k] = p /\ tap[k].card = c
      BY DEF SignedBy
    <2>2. tap[k].at # "unused"
      BY <2>1, ScanAssumption DEF PairInv, TapsMade, NewTap
    <2> QED  BY <2>1, <2>2 DEF TapsStay
  <1> QED  BY <1>1, <1>2 DEF SignedBy

LEMMA LoggedKept ==
    ASSUME PairInv, LoggedTaps, TapsStay,
           \/ lines' \subseteq lines
           \/ \E k \in Taps : /\ tap[k].at # "unused"
                              /\ lines' = lines \cup {<< tap[k].reader, tap[k].card >>}
    PROVE  LoggedTaps'
  <1>1. ASSUME NEW l \in lines
        PROVE  \E k \in Taps : tap'[k].reader = l[1] /\ tap'[k].card = l[2]
    <2>1. PICK k \in Taps : tap[k].reader = l[1] /\ tap[k].card = l[2]
      BY DEF LoggedTaps
    <2>2. l[2] \in Cards
      BY DEF PairInv, TypeOK
    <2>3. tap[k].at # "unused"
      BY <2>1, <2>2, ScanAssumption DEF PairInv, TapsMade, NewTap
    <2> QED  BY <2>1, <2>3 DEF TapsStay
  <1>2. ASSUME NEW k \in Taps, tap[k].at # "unused"
        PROVE  /\ tap'[k].reader = << tap[k].reader, tap[k].card >>[1]
               /\ tap'[k].card = << tap[k].reader, tap[k].card >>[2]
    BY <1>2 DEF TapsStay
  <1>3. CASE lines' \subseteq lines
    BY <1>1, <1>3 DEF LoggedTaps
  <1>4. ASSUME NEW k \in Taps, tap[k].at # "unused",
               lines' = lines \cup {<< tap[k].reader, tap[k].card >>}
        PROVE  LoggedTaps'
    BY <1>1, <1>2, <1>4 DEF LoggedTaps
  <1> QED  BY <1>3, <1>4

\* A tap that was made goes on, or a new one is made.
LEMMA TapFrameStays == ASSUME TapFrame PROVE TapsStay
  BY DEF TapFrame, TapsStay

LEMMA RowFrameSpends ==
    ASSUME RowFrame, NEW p \in Pairings, Spent(p) PROVE Spent(p)'
  BY DEF RowFrame, Spent

LEMMA RowFrameTakes ==
    ASSUME PairInv, TakenRows, RowFrame, TapsStay, taken' = taken,
           \A p \in Pairings : page'[p].at \in Armable => page[p].at \in Armable
    PROVE  TakenRows'
  <1> SUFFICES ASSUME NEW k \in Taps, NEW p \in Pairings, taken[k] = p
               PROVE  /\ page'[p].at \notin Armable /\ row'[p].status # "armed"
                      /\ row'[p].status = "matched" => tap'[k].card = row'[p].card
    BY DEF TakenRows
  <1>1. /\ page[p].at \notin Armable /\ row[p].status # "armed"
        /\ row[p].status = "matched" => tap[k].card = row[p].card
    BY DEF TakenRows
  <1>2. tap[k].at # "unused"
    BY ScanAssumption DEF PairInv, TapsMade
  <1>3. tap'[k].card = tap[k].card
    BY <1>2 DEF TapsStay
  <1> QED  BY <1>1, <1>3 DEF RowFrame

LEMMA QuietlySigned ==
    ASSUME PairInv, SignInv, PageFrame, RowFrame, TapsStay, taken' = taken, LoggedTaps',
           \/ sessions' = sessions
           \/ \E p \in Pairings :
                 /\ page[p].at = "lookup"
                 /\ sessions' = sessions \cup {<< p, page[p].card >>}
    PROVE  SignInv'
  <1>1. \A p \in Pairings :
           /\ page'[p].reader = page[p].reader
           /\ page'[p].at \in Armable => page[p].at \in Armable
    BY DEF PageFrame
  <1>2. ASSUME NEW p \in Pairings, NEW c \in Cards, SignedBy(p, c) PROVE SignedBy(p, c)'
    <2>1. page'[p].at \notin Armable /\ Spent(p)'
      BY <1>1, <1>2, RowFrameSpends DEF SignedBy
    <2> QED  BY <1>1, <1>2, <2>1, SignedKept
  <1>3. ASSUME NEW p \in Pairings, NEW c \in Cards, c \in HeardOf(p)'
        PROVE  Tapped(p, c)' \/ (page'[p].reader \in Phones /\ Spent(p)')
    <2>1. c \in HeardOf(p)
      BY <1>3 DEF PageFrame
    <2>2. Tapped(p, c) \/ (page[p].reader \in Phones /\ Spent(p))
      BY <2>1 DEF SignInv, CardsHeard
    <2>3. CASE Tapped(p, c)
      BY <1>1, <2>3, TappedKept
    <2>4. CASE page[p].reader \in Phones /\ Spent(p)
      BY <1>1, <2>4, RowFrameSpends
    <2> QED  BY <2>2, <2>3, <2>4
  <1>4. CardsHeard'
    BY <1>3 DEF CardsHeard
  <1>5. TakenRows'
    BY <1>1, RowFrameTakes DEF SignInv
  <1>6. ASSUME NEW p \in Pairings, NEW c \in Cards,
               page'[p].at \in {"lookup", "cleaning"}, page'[p].card = c
        PROVE  SignedBy(p, c)'
    <2>1. page[p].at \in {"lookup", "cleaning"} /\ page[p].card = c
      BY <1>6 DEF PageFrame
    <2>2. SignedBy(p, c)
      BY <2>1 DEF SignInv, Consumed
    <2> QED  BY <1>2, <2>2
  <1>7. Consumed'
    BY <1>6 DEF Consumed
  <1>8. ASSUME NEW p \in Pairings, NEW c \in Cards, << p, c >> \in sessions'
        PROVE  SignedBy(p, c)'
    <2>1. << p, c >> \in sessions \/ (page[p].at = "lookup" /\ page[p].card = c)
      BY <1>8
    <2>2. SignedBy(p, c)
      BY <2>1 DEF SignInv, Consumed, SignedIn
    <2> QED  BY <1>2, <2>2
  <1>9. SignedIn'
    BY <1>8 DEF SignedIn
  <1> QED  BY <1>4, <1>5, <1>7, <1>9 DEF SignInv

\* A step of one pairing p, that is not signed in and at which none is tapped in
\* vain: the others are as they were.
LEMMA OneSigned ==
    ASSUME PairInv, SignInv, NEW p \in Pairings,
           \A c \in Cards : ~SignedBy(p, c), TapsStay, LoggedTaps', sessions' = sessions,
           \A q \in Pairings : q # p => page'[q] = page[q] /\ row'[q] = row[q],
           \A k \in Taps, q \in Pairings : q # p /\ taken'[k] = q => taken[k] = q,
           page'[p].at \notin {"lookup", "cleaning"},
           \A c \in Cards : c \in HeardOf(p)' =>
              Tapped(p, c)' \/ (page'[p].reader \in Phones /\ Spent(p)'),
           \A k \in Taps : taken'[k] = p =>
              /\ page'[p].at \notin Armable /\ row'[p].status # "armed"
              /\ row'[p].status = "matched" => tap'[k].card = row'[p].card
    PROVE  SignInv'
  <1>1. ASSUME NEW q \in Pairings, NEW c \in Cards, SignedBy(q, c) PROVE SignedBy(q, c)'
    <2>1. q # p
      BY <1>1
    <2>2. page'[q] = page[q] /\ row'[q] = row[q]
      BY <2>1
    <2>3. page'[q].reader = page[q].reader /\ page'[q].at \notin Armable /\ Spent(q)'
      BY <1>1, <2>2 DEF SignedBy, Spent
    <2>4. \A k \in Taps : taken'[k] = q => taken[k] = q
      BY <2>1
    <2> QED  BY <1>1, <2>3, <2>4, SignedKept
  <1>2. ASSUME NEW q \in Pairings, q # p, NEW c \in Cards, c \in HeardOf(q)'
        PROVE  Tapped(q, c)' \/ (page'[q].reader \in Phones /\ Spent(q)')
    <2>1. page'[q] = page[q] /\ row'[q] = row[q]
      BY <1>2
    <2>2. c \in HeardOf(q)
      BY <1>2, <2>1 DEF HeardOf
    <2>3. Tapped(q, c) \/ (page[q].reader \in Phones /\ Spent(q))
      BY <2>2 DEF SignInv, CardsHeard
    <2>4. Tapped(q, c) => Tapped(q, c)'
      BY <2>1, TappedKept
    <2>5. Spent(q) => Spent(q)'
      BY <2>1 DEF Spent
    <2> QED  BY <2>1, <2>3, <2>4, <2>5
  <1>3. CardsHeard'
    <2> SUFFICES ASSUME NEW q \in Pairings, NEW c \in Cards, c \in HeardOf(q)'
                 PROVE  Tapped(q, c)' \/ (page'[q].reader \in Phones /\ Spent(q)')
      BY DEF CardsHeard
    <2>1. CASE q = p
      BY <2>1 DEF HeardOf, Tapped, Spent
    <2>2. CASE q # p
      BY <1>2, <2>2
    <2> QED  BY <2>1, <2>2
  <1>4. ASSUME NEW k \in Taps, NEW q \in Pairings, q # p, taken'[k] = q
        PROVE  /\ page'[q].at \notin Armable /\ row'[q].status # "armed"
               /\ row'[q].status = "matched" => tap'[k].card = row'[q].card
    <2>1. taken[k] = q /\ page'[q] = page[q] /\ row'[q] = row[q]
      BY <1>4
    <2>2. tap[k].at # "unused"
      BY <2>1, ScanAssumption DEF PairInv, TapsMade
    <2>3. tap'[k].card = tap[k].card
      BY <2>2 DEF TapsStay
    <2> QED  BY <2>1, <2>3 DEF SignInv, TakenRows
  <1>5. TakenRows'
    BY <1>4 DEF TakenRows
  <1>6. ASSUME NEW q \in Pairings, NEW c \in Cards,
               page'[q].at \in {"lookup", "cleaning"}, page'[q].card = c
        PROVE  SignedBy(q, c)'
    <2>1. q # p
      BY <1>6
    <2>2. SignedBy(q, c)
      BY <1>6, <2>1 DEF SignInv, Consumed
    <2> QED  BY <1>1, <2>2
  <1>7. Consumed'
    BY <1>6 DEF Consumed
  <1>8. SignedIn'
    BY <1>1 DEF SignedIn, SignInv
  <1> QED  BY <1>3, <1>5, <1>7, <1>8 DEF SignInv

LEMMA NextSigned == PairInv /\ SignInv /\ [Next]_vars => SignInv'
<1> SUFFICES ASSUME PairInv, SignInv, [Next]_vars PROVE SignInv'
    OBVIOUS
<1>1. TypeOK /\ TapsMade /\ Begun /\ Charged
    BY DEF PairInv
<1>2. LoggedTaps /\ CardsHeard /\ TakenRows /\ Consumed /\ SignedIn
    BY DEF SignInv
<1>3. ASSUME NEW p \in Pairings, NEW x \in Readers, NEW why \in Purposes,
             ArmFind(p, x, why)
      PROVE  SignInv'
  <2>1. /\ page[p].at = "idle" /\ page'[p].at \in {"inserting", "over"}
        /\ page'[p].ring = page[p].ring /\ page'[p].seen = page[p].seen
        /\ \A q \in Pairings : q # p => page'[q] = page[q]
    BY <1>1, <1>3, ArmFindMoves
  <2>2. UNCHANGED << row, lines, tap, taken, sessions >>
    BY <1>3 DEF ArmFind
  <2>3. HeardOf(p)' = {}
    BY <1>1, <2>1 DEF Begun, Armable, HeardOf
  <2>4. \A c \in Cards : ~SignedBy(p, c)
    BY <2>1 DEF SignedBy, Armable
  <2>5. \A k \in Taps : taken[k] # p
    BY <1>2, <2>1 DEF TakenRows, Armable
  <2>6. TapsStay /\ LoggedTaps'
    BY <1>2, <2>2 DEF TapsStay, LoggedTaps
  <2> QED  BY <2>1, <2>2, <2>3, <2>4, <2>5, <2>6, OneSigned
<1>4. ASSUME NEW p \in Pairings, ArmInsert(p) PROVE SignInv'
  <2>1. /\ page[p].at = "inserting" /\ PageFrame /\ page'[p].at \notin Armable
        /\ UNCHANGED << lines, tap, sessions, taken >>
        /\ \/ RowFrame
           \/ \A q \in Pairings : q # p => row'[q] = row[q]
    BY <1>1, <1>4, ArmInsertMoves
  <2>2. TapsStay /\ LoggedTaps'
    BY <1>2, <2>1 DEF TapsStay, LoggedTaps
  <2>3. CASE RowFrame
    BY <2>1, <2>2, <2>3, QuietlySigned
  <2>4. CASE \A q \in Pairings : q # p => row'[q] = row[q]
    <3>1. HeardOf(p)' = {}
      BY <1>1, <2>1 DEF Begun, Armable, PageFrame
    <3>2. \A c \in Cards : ~SignedBy(p, c)
      BY <2>1 DEF SignedBy, Armable
    <3>3. \A k \in Taps : taken[k] # p
      BY <1>2, <2>1 DEF TakenRows, Armable
    <3>4. page'[p].at \notin {"lookup", "cleaning"}
      BY <2>1 DEF PageFrame
    <3>5. \A q \in Pairings : q # p => page'[q] = page[q]
      <4>1. Goto(p, "armed") \/ Leave(p)
        BY <1>4 DEF ArmInsert
      <4>2. CASE Goto(p, "armed")
        BY <1>1, <4>2, GotoRecord DEF TypeOK
      <4>3. CASE Leave(p)
        BY <1>1, <4>3, LeaveRecord DEF TypeOK
      <4> QED  BY <4>1, <4>2, <4>3
    <3> QED  BY <2>1, <2>2, <2>4, <3>1, <3>2, <3>3, <3>4, <3>5, OneSigned
  <2> QED  BY <2>1, <2>3, <2>4
<1>5. ASSUME NEW p \in Pairings, LoginConsume(p) PROVE SignInv'
  <2>1. /\ RowFrame
        /\ UNCHANGED << lines, tap, watch, recent, sessions, met, touched, taken >>
        /\ \/ PageFrame
           \/ /\ page[p].at = "login" /\ Consumable(p) /\ row'[p].status = "consumed"
              /\ page'[p].at = "lookup" /\ page'[p].card = page[p].card
              /\ page'[p].reader = page[p].reader
              /\ HeardOf(p)' \subseteq HeardOf(p)
              /\ \A q \in Pairings : q # p => page'[q] = page[q]
    BY <1>1, <1>5, LoginConsumeMoves
  <2>2. TapsStay /\ LoggedTaps'
    BY <1>2, <2>1 DEF TapsStay, LoggedTaps
  <2>3. CASE PageFrame
    BY <2>1, <2>2, <2>3, QuietlySigned
  <2>4. CASE /\ page[p].at = "login" /\ Consumable(p) /\ row'[p].status = "consumed"
             /\ page'[p].at = "lookup" /\ page'[p].card = page[p].card
             /\ page'[p].reader = page[p].reader
             /\ HeardOf(p)' \subseteq HeardOf(p)
             /\ \A q \in Pairings : q # p => page'[q] = page[q]
    <3> DEFINE c == page[p].card
    <3>1. c \in HeardOf(p) /\ c \in Cards
      BY <2>4 DEF HeardOf, PairInv, Posting
    <3>2. Tapped(p, c)
      BY <1>2, <2>4, <3>1 DEF CardsHeard, Consumable, Spent
    <3>3. \A k \in Taps : taken[k] = p => tap[k].card = c
      BY <1>2, <2>4 DEF TakenRows, Consumable
    <3>4. \A d \in Cards : Tapped(p, d)' <=> Tapped(p, d)
      BY <2>1, <2>4 DEF Tapped
    <3>5. \A d \in Cards : page'[p].card = d => SignedBy(p, d)'
      BY <2>1, <2>4, <3>2, <3>3, <3>4 DEF SignedBy, Spent, Armable
    <3>6. \A q \in Pairings :
             /\ page'[q].reader = page[q].reader
             /\ page'[q].at \in Armable => page[q].at \in Armable
      BY <2>4 DEF Armable
    <3>7. ASSUME NEW q \in Pairings, NEW d \in Cards, SignedBy(q, d)
          PROVE  SignedBy(q, d)'
      <4>1. page'[q].at \notin Armable /\ Spent(q)'
        BY <2>1, <3>6, <3>7, RowFrameSpends DEF SignedBy
      <4> QED  BY <2>1, <2>2, <3>6, <3>7, <4>1, SignedKept
    <3>8. \A q \in Pairings : HeardOf(q)' \subseteq HeardOf(q)
      BY <2>4 DEF HeardOf
    <3>9. ASSUME NEW q \in Pairings, NEW d \in Cards, d \in HeardOf(q)'
          PROVE  Tapped(q, d)' \/ (page'[q].reader \in Phones /\ Spent(q)')
      <4>1. Tapped(q, d) \/ (page[q].reader \in Phones /\ Spent(q))
        BY <1>2, <3>8, <3>9 DEF CardsHeard
      <4>2. Tapped(q, d) => Tapped(q, d)'
        BY <2>2, <3>6, TappedKept
      <4>3. Spent(q) => Spent(q)'
        BY <2>1, RowFrameSpends
      <4> QED  BY <3>6, <4>1, <4>2, <4>3
    <3>10. CardsHeard'
      BY <3>9 DEF CardsHeard
    <3>11. TakenRows'
      BY <2>1, <2>2, <1>2, <3>6, RowFrameTakes
    <3>12. ASSUME NEW q \in Pairings, NEW d \in Cards,
                  page'[q].at \in {"lookup", "cleaning"}, page'[q].card = d
           PROVE  SignedBy(q, d)'
      <4>1. CASE q = p
        BY <3>5, <3>12, <4>1 DEF SignedBy, Tapped, Spent
      <4>2. CASE q # p
        <5>1. page'[q] = page[q]
          BY <2>4, <4>2
        <5>2. SignedBy(q, d)
          BY <1>2, <3>12, <5>1 DEF Consumed
        <5> QED  BY <3>7, <5>2
      <4> QED  BY <4>1, <4>2
    <3>13. Consumed'
      BY <3>12 DEF Consumed
    <3>14. SignedIn'
      BY <1>2, <2>1, <3>7 DEF SignedIn
    <3> QED  BY <2>2, <3>10, <3>11, <3>13, <3>14 DEF SignInv
  <2> QED  BY <2>1, <2>3, <2>4
<1>6. ASSUME NEW p \in Pairings, QuietStep(p) PROVE SignInv'
  <2>1. /\ PageFrame /\ RowFrame /\ UNCHANGED << lines, tap, taken >>
        /\ \/ sessions' = sessions
           \/ /\ page[p].at = "lookup"
              /\ sessions' = sessions \cup {<< p, page[p].card >>}
    BY <1>1, <1>6, QuietMoves
  <2>2. TapsStay /\ LoggedTaps'
    BY <1>2, <2>1 DEF TapsStay, LoggedTaps
  <2> QED  BY <2>1, <2>2, QuietlySigned
<1>7. ASSUME NEW p \in Pairings, NEW c \in Cards, PhoneScans(p, c) PROVE SignInv'
  <2>1. /\ page[p].reader \in Phones
        /\ row[p].status = "armed" /\ row'[p].status = "consumed"
        /\ page'[p].reader = page[p].reader /\ page'[p].at = page[p].at
        /\ \A q \in Pairings : q # p => row'[q] = row[q] /\ page'[q] = page[q]
        /\ UNCHANGED << lines, tap, sessions, taken >>
    BY <1>1, <1>7, PhoneMoves
  <2>2. TapsStay /\ LoggedTaps'
    BY <1>2, <2>1 DEF TapsStay, LoggedTaps
  <2>3. \A c0 \in Cards : ~SignedBy(p, c0)
    BY <2>1 DEF SignedBy, Spent
  <2>4. \A k \in Taps : taken[k] # p
    BY <1>2, <2>1 DEF TakenRows
  <2>5. page'[p].at \notin {"lookup", "cleaning"}
    <3>1. page[p].at \in {"lookup", "cleaning"} => page[p].card \in Cards
      BY DEF PairInv, Posting
    <3> QED  BY <1>2, <2>1, <2>3, <3>1 DEF Consumed
  <2>6. page'[p].reader \in Phones /\ Spent(p)'
    BY <2>1 DEF Spent
  <2> QED  BY <2>1, <2>2, <2>3, <2>4, <2>5, <2>6, OneSigned
<1>8. ASSUME NEW k \in Taps, NEW x \in Chargers, NEW c \in Cards, Tap(k, x, c)
      PROVE  SignInv'
  <2>1. tap[k].at = "unused" /\ \A j \in Taps : j # k => tap'[j] = tap[j]
    BY <1>1, <1>8, TapMade
  <2>2. UNCHANGED << row, born, page, lines, sessions, taken >>
    BY <1>8 DEF Tap
  <2>3. TapsStay
    BY <2>1 DEF TapsStay
  <2>4. LoggedTaps'
    BY <1>2, <2>2, <2>3, LoggedKept
  <2> QED  BY <1>1, <2>2, <2>3, <2>4, PageStays, RowStays, QuietlySigned
<1>9. ASSUME NEW k \in Taps, HookSteals(k) PROVE SignInv'
  <2>1. TapFrame
    BY <1>1, <1>9, HookMoves
  <2>2. PICK p \in Pairings : HookMatches(k, p)
    BY <1>1, <1>9, HookMoves
  <2>3. /\ page[p].reader = tap[k].reader /\ tap[k].at = "asking"
        /\ row[p].status \in {"armed", "matched"}
        /\ row[p].status = "matched" => row[p].card = tap[k].card
        /\ row'[p].status = "matched" /\ row'[p].card = tap[k].card
        /\ page'[p].reader = page[p].reader /\ page'[p].at = page[p].at
        /\ HeardOf(p)' \subseteq HeardOf(p) \cup {tap[k].card}
        /\ \A q \in Pairings : q # p => row'[q] = row[q] /\ page'[q] = page[q]
        /\ taken' = [taken EXCEPT ![k] = p]
        /\ UNCHANGED << lines, sessions >>
    BY <2>2 DEF HookMatches, Stealable
  <2>4. /\ taken'[k] = p /\ \A j \in Taps : j # k => taken'[j] = taken[j]
        /\ tap[k].card \in Cards /\ \A j \in Taps : tap'[j].card = tap[j].card
        /\ \A j \in Taps : tap'[j].reader = tap[j].reader
    BY <1>1, <2>1, <2>3 DEF TypeOK, TapsMade, TapFrame
  <2>5. TapsStay /\ LoggedTaps'
    BY <1>2, <2>1, <2>3, TapFrameStays, LoggedKept
  <2>6. \A c \in Cards : ~SignedBy(p, c)
    BY <2>3 DEF SignedBy, Spent
  <2>7. page'[p].at \notin {"lookup", "cleaning"}
    <3>1. page[p].at \in {"lookup", "cleaning"} => page[p].card \in Cards
      BY DEF PairInv, Posting
    <3> QED  BY <1>2, <2>3, <2>6, <3>1 DEF Consumed
  <2>8. ASSUME NEW c \in Cards, c \in HeardOf(p)' PROVE Tapped(p, c)'
    <3>1. CASE c = tap[k].card
      BY <2>3, <2>4, <3>1 DEF Tapped
    <3>2. CASE c \in HeardOf(p)
      <4>1. Tapped(p, c)
        BY <1>2, <2>3, <3>2 DEF CardsHeard, Spent
      <4> QED  BY <2>3, <2>5, <4>1, TappedKept
    <3> QED  BY <2>3, <2>8, <3>1, <3>2
  <2>9. ASSUME NEW j \in Taps, taken'[j] = p
        PROVE  /\ page'[p].at \notin Armable /\ row'[p].status # "armed"
               /\ row'[p].status = "matched" => tap'[j].card = row'[p].card
    <3>1. page[p].at \notin Armable
      BY <1>1, <2>3 DEF Begun
    <3>2. tap[j].card = tap[k].card
      BY <1>2, <2>3, <2>4, <2>9 DEF TakenRows
    <3> QED  BY <2>3, <2>4, <3>1, <3>2
  <2>10. \A j \in Taps, q \in Pairings : q # p /\ taken'[j] = q => taken[j] = q
    BY <2>4
  <2> QED  BY <2>3, <2>5, <2>6, <2>7, <2>8, <2>9, <2>10, OneSigned
<1>10. ASSUME NEW k \in Taps, AnsweredStep(k) PROVE SignInv'
  <2>1. /\ TapFrame /\ UNCHANGED << row, born, page, sessions, taken >>
        /\ \/ lines' = lines
           \/ /\ tap[k].at # "unused"
              /\ lines' = lines \cup {<< tap[k].reader, tap[k].card >>}
    BY <1>1, <1>10, AnsweredMoves
  <2>2. TapsStay /\ LoggedTaps'
    BY <1>2, <2>1, TapFrameStays, LoggedKept
  <2> QED  BY <1>1, <2>1, <2>2, PageStays, RowStays, QuietlySigned
<1>11. ASSUME NEW k \in Taps, WatchStep(k) PROVE SignInv'
  <2>1. /\ UNCHANGED << row, born, page, lines, sessions, taken >>
        /\ \/ tap' = tap
           \/ /\ \E d \in Copies : watch[k][d] = "stopping"
              /\ tap' = [tap EXCEPT ![k].charge = "stopped"]
    BY <1>1, <1>11, WatchStepMoves
  <2>2. TapsStay
    <3>1. CASE tap' = tap
      BY <3>1 DEF TapsStay
    <3>2. CASE /\ \E d \in Copies : watch[k][d] = "stopping"
               /\ tap' = [tap EXCEPT ![k].charge = "stopped"]
      <4>1. tap[k].at # "unused"
        BY <1>1, <3>2 DEF Charged, TapsMade, NewTap
      <4> QED  BY <1>1, <3>2, <4>1, StopMoves DEF TapsStay
    <3> QED  BY <2>1, <3>1, <3>2
  <2>3. LoggedTaps'
    BY <1>2, <2>1, <2>2, LoggedKept
  <2> QED  BY <1>1, <2>1, <2>2, <2>3, PageStays, RowStays, QuietlySigned
<1>12. ASSUME NEW x \in Chargers, NEW c \in Cards, ReadLine(x, c) PROVE SignInv'
  <2>1. \A q \in Pairings :
           /\ page'[q].reader = page[q].reader /\ page'[q].at = page[q].at
           /\ page'[q].card = page[q].card
           /\ \/ HeardOf(q)' \subseteq HeardOf(q)
              \/ page[q].reader = x /\ HeardOf(q)' \subseteq HeardOf(q) \cup {c}
    BY <1>1, <1>12, ReadLineMoves
  <2>2. /\ UNCHANGED << row, tap, sessions, taken >>
        /\ lines' \subseteq lines /\ << x, c >> \in lines
    BY <1>12 DEF ReadLine
  <2>3. TapsStay
    BY <2>2 DEF TapsStay
  <2>4. LoggedTaps'
    BY <1>2, <2>2, <2>3, LoggedKept
  <2>5. \A q \in Pairings, d \in Cards : Tapped(q, d)' <=> Tapped(q, d)
    BY <2>1, <2>2 DEF Tapped
  <2>6. \A q \in Pairings, d \in Cards : SignedBy(q, d) => SignedBy(q, d)'
    BY <2>1, <2>2 DEF SignedBy, Spent, Tapped
  <2>7. CardsHeard'
    <3> SUFFICES ASSUME NEW q \in Pairings, NEW d \in Cards, d \in HeardOf(q)'
                 PROVE  Tapped(q, d)' \/ (page'[q].reader \in Phones /\ Spent(q)')
      BY DEF CardsHeard
    <3>1. CASE d \in HeardOf(q)
      <4>1. Tapped(q, d) \/ (page[q].reader \in Phones /\ Spent(q))
        BY <1>2, <3>1 DEF CardsHeard
      <4> QED  BY <2>1, <2>2, <4>1 DEF Tapped, Spent
    <3>2. CASE page[q].reader = x /\ d = c
      <4>1. PICK k \in Taps : tap[k].reader = x /\ tap[k].card = c
        BY <1>2, <2>2 DEF LoggedTaps
      <4> QED  BY <2>1, <2>2, <3>2, <4>1 DEF Tapped
    <3> QED  BY <2>1, <3>1, <3>2
  <2>8. TakenRows'
    BY <1>2, <2>1, <2>2 DEF TakenRows
  <2>9. Consumed'
    BY <1>2, <2>1, <2>6 DEF Consumed
  <2>10. SignedIn'
    BY <1>2, <2>2, <2>6 DEF SignedIn
  <2> QED  BY <2>4, <2>7, <2>8, <2>9, <2>10 DEF SignInv
<1>13. CASE UNCHANGED vars
  <2>1. UNCHANGED << row, born, page, lines, tap, sessions, taken >>
    BY <1>13 DEF vars
  <2>2. TapsStay /\ LoggedTaps'
    BY <1>2, <2>1 DEF TapsStay, LoggedTaps
  <2> QED  BY <1>1, <2>1, <2>2, PageStays, RowStays, QuietlySigned
<1> QED
    BY <1>3, <1>4, <1>5, <1>6, <1>7, <1>8, <1>9, <1>10, <1>11, <1>12, <1>13, StepKinds

\* A page is signed in only by a card tapped at the reader it armed, and only by
\* the card its row was matched to, whatever its stream, the log and the bus
\* have shown it, in whatever order.
THEOREM SignedInByTap == Spec => []SignedInByItsTap
<1>1. Init => SignInv
  <2> SUFFICES ASSUME Init PROVE SignInv
    OBVIOUS
  <2>1. \A p \in Pairings : HeardOf(p) = {} /\ page[p].at = "idle"
    BY DEF Init, HeardOf, NewPage
  <2>2. lines = {} /\ sessions = {} /\ \A k \in Taps : taken[k] \notin Pairings
    BY ScanAssumption DEF Init
  <2> QED  BY <2>1, <2>2
      DEF SignInv, LoggedTaps, CardsHeard, TakenRows, Consumed, SignedIn
<1>2. PairInv /\ SignInv => SignedInByItsTap
  <2> SUFFICES ASSUME PairInv, SignInv, NEW s \in sessions
               PROVE  /\ \E k \in Taps : /\ tap[k].card = s[2]
                                         /\ tap[k].reader = page[s[1]].reader
                      /\ \A k \in Taps : taken[k] = s[1] => tap[k].card = s[2]
    BY DEF SignedInByItsTap
  <2>1. s[1] \in Pairings /\ s[2] \in Cards /\ s = << s[1], s[2] >>
    BY DEF PairInv, TypeOK
  <2>2. SignedBy(s[1], s[2])
    BY <2>1 DEF SignInv, SignedIn
  <2> QED  BY <2>2 DEF SignedBy, Tapped
<1> QED
    BY <1>1, <1>2, InitPair, NextPair, NextSigned, PTL DEF Spec
=============================================================================
