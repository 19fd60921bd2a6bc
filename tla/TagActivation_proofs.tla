------------------------ MODULE TagActivation_proofs ------------------------
(***************************************************************************)
(* For any number of cards and calls: types, what a sync pass that nobody  *)
(* disturbs leaves behind, and the parents that the PUTs keep.             *)
(***************************************************************************)
EXTENDS TagActivation, TLAPS

LEMMA LimitType == \A on : Limit(on) \in {-1, 0}
  BY DEF Limit

LEMMA PutOfType ==
    ASSUME NEW t \in Tag, NEW r \in Rows
    PROVE  PutOf(t, r) \in Put
  BY LimitType DEF PutOf, Put, Rows, Limits

LEMMA SetRowsType ==
    ASSUME TypeOK, NEW tags, NEW on \in BOOLEAN, SetRows(tags, on)
    PROVE  row' \in [Tag -> Rows]
  <1>1. \A t \in Tag : [row[t] EXCEPT !.active = on] \in Rows
    BY DEF TypeOK, Rows
  <1> QED  BY <1>1 DEF SetRows, TypeOK

LEMMA PutsOfType ==
    ASSUME row' \in [Tag -> Rows], NEW tags \in SUBSET Tag
    PROVE  PutsOf(tags) \in SUBSET Put
  <1>1. \A t \in tags : PutOf(t, row'[t]) \in Put
    BY PutOfType
  <1> QED  BY <1>1 DEF PutsOf

WebType ==
    /\ web \in [Call -> Calls]
    /\ \A c \in Call : web[c].at \in {"insert", "mirror", "cascade", "unlink", "lost"}
                        => web[c].tag \in Tag

\* A call that moves on to a typed record keeps the type of all.
LEMMA MoveType ==
    ASSUME TypeOK, NEW c \in Call, NEW w \in Calls, web' = [web EXCEPT ![c] = w],
           w.at \in {"insert", "mirror", "cascade", "unlink", "lost"} => w.tag \in Tag
    PROVE  WebType'
  BY DEF TypeOK, WebType

LEMMA NewCallType == NewCall \in Calls
  BY DEF NewCall, Calls, Parent

LEMMA DoneType ==
    ASSUME TypeOK, NEW c \in Call, NEW puts \in SUBSET Put, Done(c, puts)
    PROVE  WebType'
  <1>1. [NewCall EXCEPT !.at = "done", !.puts = puts] \in Calls
    BY NewCallType DEF Calls
  <1>2. [NewCall EXCEPT !.at = "done", !.puts = puts].at = "done"
    BY DEF NewCall
  <1> QED  BY <1>1, <1>2 DEF Done, TypeOK, WebType

LEMMA WatchType ==
    ASSUME TypeOK, Watch
    PROVE  pass' \in Passes
  <1>1. \A b \in BOOLEAN : [pass EXCEPT !.calm = b] \in Passes
    BY DEF TypeOK, Passes
  <1>2. (pass.calm /\ row' = row /\ steve' = steve) \in BOOLEAN
    OBVIOUS
  <1>3. [pass EXCEPT !.calm = @ /\ row' = row /\ steve' = steve]
          = [pass EXCEPT !.calm = (pass.calm /\ row' = row /\ steve' = steve)]
    OBVIOUS
  <1> QED  BY <1>1, <1>2, <1>3 DEF Watch, TypeOK

LEMMA FaultType ==
    ASSUME TypeOK, NEW kind, Fault(kind)
    PROVE  faults' \in 0 .. MaxFaults
  BY TagAssumption DEF TypeOK, Fault

LEMMA NoPassType == NoPass \in Passes
  BY DEF NoPass, Passes, StEvETag, Limits, Parent

LEMMA DescendantsType == \A t, up : Descendants(t, up) \in SUBSET Tag
  BY DEF Descendants

LEMMA ReactivatedType ==
    ASSUME TypeOK, NEW tags, NEW on, Reactivated(tags, on)
    PROVE  lost' \subseteq Tag
  BY DEF TypeOK, Reactivated

LEMMA InitType == Init => TypeOK
  <1> SUFFICES ASSUME Init PROVE TypeOK
    OBVIOUS
  <1>1. row \in [Tag -> Rows] /\ steve \in [Tag -> StEvETag]
    <2>1. PICK up \in [Cards -> Cards \cup {NoTag}] :
            /\ row = [t \in Tag |->
                IF t = Meta
                THEN [NoRow EXCEPT !.here = TRUE, !.customer = TRUE,
                                   !.active = subscribed, !.sub = subscribed]
                ELSE IF Links THEN NoRow
                ELSE [here |-> TRUE, active |-> TRUE, customer |-> TRUE,
                      sub |-> TRUE, mirror |-> Meta]]
            /\ steve = [t \in Tag |->
                IF t = Meta
                THEN [limit |-> IF subscribed THEN 1 ELSE 0, parent |-> NoTag]
                ELSE IF Links THEN [limit |-> 0, parent |-> up[t]]
                ELSE [limit |-> -1, parent |-> Meta]]
      BY DEF Init
    <2>2. [NoRow EXCEPT !.here = TRUE, !.customer = TRUE,
                        !.active = subscribed, !.sub = subscribed] \in Rows
      BY DEF Init, NoRow, Rows, Parent
    <2>3. NoRow \in Rows /\ [here |-> TRUE, active |-> TRUE, customer |-> TRUE,
                      sub |-> TRUE, mirror |-> Meta] \in Rows
      BY DEF NoRow, Rows, Parent, Tag
    <2>4. \A t \in Tag : t # Meta => up[t] \in Parent
      BY DEF Tag, Parent
    <2> QED  BY <2>1, <2>2, <2>3, <2>4 DEF StEvETag, Limits, Parent, Tag
  <1>2. WebType /\ pass \in Passes
    BY NewCallType, NoPassType DEF Init, WebType, NewCall
  <1>3. /\ subscribed \in BOOLEAN /\ lost \subseteq Tag /\ blurred \subseteq Tag
        /\ faults \in 0 .. MaxFaults
    BY TagAssumption DEF Init
  <1> QED  BY <1>1, <1>2, <1>3 DEF TypeOK, WebType

----------------------------------------------------------------------------
(* One lemma per group of actions: types after a step of a call, of a new  *)
(* request, of the pass.                                                   *)

LEMMA LinkInsertType ==
    ASSUME TypeOK, NEW c \in Call, LinkInsert(c)
    PROVE  TypeOK'
  <1> DEFINE w == web[c]
             new(t) == [here |-> TRUE, active |-> TRUE, customer |-> TRUE, sub |-> w.on,
                        mirror |-> IF t = w.tag THEN w.from ELSE w.tag]
             kids == w.kids \ {w.tag}
  <1>1. /\ UNCHANGED << steve, subscribed, faults >> /\ pass' \in Passes
    BY WatchType DEF LinkInsert
  <1>2. w \in Calls
    BY DEF TypeOK
  <1>3. CASE \E t \in {w.tag} \cup kids : row[t].here
    <2>1. Done(c, {}) /\ UNCHANGED << row, lost, blurred >>
      BY <1>3 DEF LinkInsert
    <2>2. {} \in SUBSET Put
      OBVIOUS
    <2> QED  BY <2>1, <2>2, <1>1, DoneType DEF TypeOK, WebType
  <1>4. CASE ~ \E t \in {w.tag} \cup kids : row[t].here
    <2>1. /\ row' = [t \in Tag |-> IF t \in {w.tag} \cup kids THEN new(t) ELSE row[t]]
          /\ web' = [web EXCEPT ![c].at = "ask",
                                ![c].puts = { PutOf(t, new(t)) : t \in kids }]
          /\ lost' = lost \ ({w.tag} \cup kids)
          /\ blurred' = blurred \cup { t \in kids \cup {w.tag} : HeldElsewhere(t, c) }
      BY <1>4 DEF LinkInsert
    <2>2. \A t \in Tag : new(t) \in Rows
      BY <1>2 DEF Rows, Calls
    <2>3. row' \in [Tag -> Rows]
      BY <2>1, <2>2 DEF TypeOK
    <2>4. kids \subseteq Tag
      BY <1>2 DEF Calls
    <2>5. { PutOf(t, new(t)) : t \in kids } \in SUBSET Put
      <3>1. \A t \in kids : PutOf(t, new(t)) \in Put
        BY <2>2, <2>4, PutOfType
      <3> QED  BY <3>1
    <2>6. WebType'
      <3> DEFINE v == [w EXCEPT !.at = "ask", !.puts = { PutOf(t, new(t)) : t \in kids }]
      <3>1. v \in Calls /\ v.at = "ask"
        BY <1>2, <2>5 DEF Calls
      <3>2. web' = [web EXCEPT ![c] = v]
        BY <2>1
      <3> HIDE DEF v
      <3> QED  BY <3>1, <3>2, MoveType
    <2>7. w.tag \in Tag
      BY DEF LinkInsert, TypeOK
    <2> QED  BY <1>1, <2>1, <2>3, <2>4, <2>6, <2>7 DEF TypeOK, WebType
  <1> QED  BY <1>3, <1>4

LEMMA EnsureType ==
    ASSUME TypeOK, NEW c \in Call,
           EnsureAsk(c) \/ EnsureTag(c) \/ EnsureRow(c) \/ LinkMirror(c)
    PROVE  TypeOK'
  <1> USE DEF TypeOK
  <1>0. web[c] \in Calls
    OBVIOUS
  <1>1. CASE EnsureAsk(c)
    <2>1. PICK on \in BOOLEAN :
            /\ web' = [web EXCEPT ![c] = [@ EXCEPT !.on = on, !.at = "meta"]]
            /\ (faults' = faults \/ Fault("lago"))
      BY <1>1 DEF EnsureAsk
    <2> DEFINE v == [web[c] EXCEPT !.on = on, !.at = "meta"]
    <2>5. v \in Calls /\ v.at = "meta"
      BY <1>0 DEF Calls
    <2>2. web' = [web EXCEPT ![c] = v]
      BY <2>1
    <2>3. WebType'
      <3> HIDE DEF v
      <3> QED  BY <2>5, <2>2, MoveType
    <2>4. faults' \in 0 .. MaxFaults
      BY <2>1, FaultType
    <2> QED  BY <1>1, <2>3, <2>4 DEF EnsureAsk, WebType
  <1>2. CASE EnsureTag(c)
    <2>1. steve' \in [Tag -> StEvETag]
      BY <1>2 DEF EnsureTag, StEvETag, Limits
    <2>2. [web[c] EXCEPT !.at = "metaRow"] \in Calls
      BY <1>0 DEF Calls
    <2>3. WebType'
      BY <1>2, <2>2 DEF EnsureTag, WebType
    <2>4. faults' \in 0 .. MaxFaults
      BY <1>2, FaultType DEF EnsureTag
    <2> QED  BY <1>2, <2>1, <2>3, <2>4, WatchType DEF EnsureTag, WebType
  <1>3. CASE EnsureRow(c)
    <2>1. row' \in [Tag -> Rows]
      <3>1. Meta \in Tag /\ row[Meta] \in Rows /\ web[c].on \in BOOLEAN
        BY <1>0 DEF Calls, Tag
      <3>2. [row[Meta] EXCEPT !.active = web[c].on, !.sub = web[c].on] \in Rows
        BY <3>1 DEF Rows
      <3>3. row' = row \/ row' = [row EXCEPT ![Meta] =
                [row[Meta] EXCEPT !.active = web[c].on, !.sub = web[c].on]]
        BY <1>3, <3>1 DEF EnsureRow
      <3> QED  BY <3>1, <3>2, <3>3
    <2>2. WebType'
      <3>1. CASE web[c].tag = NoTag
        <4>1. Done(c, web[c].puts) /\ web[c].puts \in SUBSET Put
          BY <1>0, <1>3, <3>1 DEF EnsureRow, Calls
        <4> QED  BY <4>1, DoneType
      <3>2. CASE web[c].tag # NoTag
        <4>1. web[c].tag \in Tag
          BY <1>0, <3>2 DEF Calls, Parent
        <4> DEFINE v == [web[c] EXCEPT !.at = "mirror"]
        <4>2. v \in Calls /\ v.tag \in Tag
          BY <1>0, <4>1 DEF Calls
        <4>3. web' = [web EXCEPT ![c] = v]
          BY <1>3, <3>2 DEF EnsureRow
        <4> HIDE DEF v
        <4> QED  BY <4>2, <4>3, MoveType
      <3> QED  BY <3>1, <3>2
    <2>3. faults' \in 0 .. MaxFaults
      BY <1>3, FaultType DEF EnsureRow
    <2> QED  BY <1>3, <2>1, <2>2, <2>3, WatchType DEF EnsureRow, WebType
  <1>4. CASE LinkMirror(c)
    <2> DEFINE t == web[c].tag
    <2>1. t \in Tag
      BY <1>4 DEF LinkMirror
    <2>2. row' \in [Tag -> Rows]
      <3>1. [row[t] EXCEPT !.mirror = Meta] \in Rows
        BY <2>1 DEF Rows, Parent, Tag
      <3> QED  BY <1>4, <3>1 DEF LinkMirror
    <2>3. WebType'
      <3>1. Done(c, web[c].puts \cup {PutOf(t, row'[t])})
        BY <1>4 DEF LinkMirror
      <3>2. web[c].puts \cup {PutOf(t, row'[t])} \in SUBSET Put
        BY <1>0, <2>1, <2>2, PutOfType DEF Calls
      <3> HIDE DEF t
      <3> QED  BY <3>1, <3>2, DoneType
    <2> QED  BY <1>4, <2>1, <2>2, <2>3, WatchType DEF LinkMirror, WebType
  <1> QED  BY <1>1, <1>2, <1>3, <1>4

LEMMA CallType ==
    ASSUME TypeOK, NEW c \in Call,
           Cascade(c) \/ UnlinkWrite(c) \/ LostWrite(c) \/ Event(c)
    PROVE  TypeOK'
  <1> USE DEF TypeOK
  <1>0. web[c] \in Calls
    OBVIOUS
  <1>1. CASE Cascade(c)
    <2> DEFINE tags == Descendants(web[c].tag, Parents(steve))
    <2>0. tags \in SUBSET Tag
      BY DescendantsType
    <2>1. row' \in [Tag -> Rows]
      BY <1>0, <1>1, SetRowsType DEF Cascade, Calls
    <2>2. WebType'
      <3>1. PICK more \in SUBSET Put : Done(c, web[c].puts \cup more)
        <4>1. PutsOf(tags) \in SUBSET Put
          BY <2>0, <2>1, PutsOfType
        <4>2. Done(c, web[c].puts \cup PutsOf(tags)) \/ Done(c, web[c].puts \cup {})
          BY <1>1 DEF Cascade
        <4> QED  BY <4>1, <4>2
      <3>2. web[c].puts \cup more \in SUBSET Put
        BY <1>0 DEF Calls
      <3> QED  BY <3>1, <3>2, DoneType
    <2>3. lost' \subseteq Tag /\ faults' \in 0 .. MaxFaults
      BY <1>1, FaultType, ReactivatedType DEF Cascade
    <2> QED  BY <1>1, <2>1, <2>2, <2>3, WatchType DEF Cascade, WebType
  <1>2. CASE UnlinkWrite(c)
    <2> DEFINE tags == {web[c].tag} \cup web[c].kids
    <2>0. tags \in SUBSET Tag
      BY <1>0, <1>2 DEF UnlinkWrite, Calls
    <2>1. row' \in [Tag -> Rows]
      BY <1>2, SetRowsType DEF UnlinkWrite
    <2>2. WebType'
      <3>1. PutsOf(tags) \in SUBSET Put
        BY <2>0, <2>1, PutsOfType
      <3> QED  BY <1>2, <3>1, DoneType DEF UnlinkWrite
    <2> QED  BY <1>2, <2>1, <2>2, WatchType DEF UnlinkWrite, WebType
  <1>3. CASE LostWrite(c)
    <2> DEFINE t == web[c].tag
               read == [row[t] EXCEPT !.active = FALSE, !.mirror = web[c].from]
    <2>1. t \in Tag
      BY <1>3 DEF LostWrite
    <2>2. read \in Rows /\ [row[t] EXCEPT !.active = FALSE] \in Rows
      <3>1. row[t] \in Rows /\ web[c].from \in Parent
        BY <1>0, <2>1 DEF Calls
      <3>2. [row[t] EXCEPT !.active = FALSE] \in Rows
        BY <3>1 DEF Rows
      <3>3. [[row[t] EXCEPT !.active = FALSE] EXCEPT !.mirror = web[c].from] \in Rows
        BY <3>1, <3>2 DEF Rows
      <3> QED  BY <3>2, <3>3
    <2>3. row' \in [Tag -> Rows]
      BY <1>3, <2>2 DEF LostWrite
    <2>4. WebType'
      <3>1. {PutOf(t, read)} \in SUBSET Put
        BY <2>1, <2>2, PutOfType
      <3> QED  BY <1>3, <3>1, DoneType DEF LostWrite
    <2> QED  BY <1>3, <2>1, <2>3, <2>4, WatchType DEF LostWrite, WebType
  <1>4. CASE Event(c)
    <2> DEFINE tags == { t \in Tag : row[t].here /\ row[t].sub /\ row[t].active # web[c].on }
    <2>1. row' \in [Tag -> Rows]
      BY <1>0, <1>4, SetRowsType DEF Event, Calls
    <2>2. PutsOf(tags) \in SUBSET Put
      BY <2>1, PutsOfType
    <2>3. WebType'
      <3>1. CASE tags = {}
        <4>1. Done(c, {})
          BY <1>4, <3>1 DEF Event
        <4> QED  BY <4>1, DoneType
      <3>2. CASE tags # {}
        <4>1. web' = [web EXCEPT ![c].at = "ask", ![c].puts = PutsOf(tags)]
          BY <1>4, <3>2 DEF Event
        <4>2. [web[c] EXCEPT !.at = "ask", !.puts = PutsOf(tags)] \in Calls
          BY <1>0, <2>2 DEF Calls
        <4> HIDE DEF tags
        <4> QED  BY <4>1, <4>2 DEF WebType
      <3> QED  BY <3>1, <3>2
    <2>4. lost' \subseteq Tag
      BY <1>4, ReactivatedType DEF Event
    <2> QED  BY <1>4, <2>1, <2>3, <2>4, WatchType DEF Event, WebType
  <1> QED  BY <1>1, <1>2, <1>3, <1>4

LEMMA RequestType ==
    ASSUME TypeOK, NEW c \in Call, NewRequest(c)
    PROVE  TypeOK'
  <1> USE DEF TypeOK
  <1>0. web[c] \in Calls
    OBVIOUS
  <1>1. CASE LagoChange(c)
    <2> DEFINE v == [web[c] EXCEPT !.at = "event", !.on = subscribed']
    <2>1. v \in Calls /\ v.at = "event" /\ web' = [web EXCEPT ![c] = v]
      BY <1>0, <1>1 DEF LagoChange, Calls
    <2>2. WebType'
      <3> HIDE DEF v
      <3> QED  BY <2>1, MoveType
    <2> QED  BY <1>1, <2>2 DEF LagoChange, WebType
  <1>2. ASSUME NEW t \in Tag, LinkRead(c, t) PROVE TypeOK'
    <2>1. PICK sub \in BOOLEAN : web' = [web EXCEPT ![c] =
                    [@ EXCEPT !.at = "insert", !.tag = t, !.on = sub,
                              !.kids = Descendants(t, Parents(steve)),
                              !.from = steve[t].parent]]
      BY <1>2 DEF LinkRead
    <2> DEFINE v == [web[c] EXCEPT !.at = "insert", !.tag = t, !.on = sub,
                              !.kids = Descendants(t, Parents(steve)),
                              !.from = steve[t].parent]
    <2>2. steve[t].parent \in Parent
      BY DEF StEvETag
    <2>3. v \in Calls /\ v.tag \in Tag
      BY <1>0, <2>2, DescendantsType DEF Calls, Parent
    <2>4. web' = [web EXCEPT ![c] = v]
      BY <2>1
    <2>5. WebType'
      <3> HIDE DEF v
      <3> QED  BY <2>3, <2>4, MoveType
    <2> QED  BY <1>2, <2>5 DEF LinkRead, WebType
  <1>3. ASSUME NEW t \in Tag, UnlinkRead(c, t) PROVE TypeOK'
    <2>1. PICK kids \in SUBSET Tag :
            /\ (faults' = faults \/ Fault("steve"))
            /\ web' = [web EXCEPT ![c] = [@ EXCEPT !.at = "unlink", !.tag = t,
                                                  !.kids = kids]]
      BY <1>3 DEF UnlinkRead
    <2> DEFINE v == [web[c] EXCEPT !.at = "unlink", !.tag = t, !.kids = kids]
    <2>2. v \in Calls /\ v.tag \in Tag
      BY <1>0 DEF Calls, Parent
    <2>3. web' = [web EXCEPT ![c] = v]
      BY <2>1
    <2>4. WebType'
      <3> HIDE DEF v
      <3> QED  BY <2>2, <2>3, MoveType
    <2>5. faults' \in 0 .. MaxFaults
      BY <2>1, FaultType
    <2> QED  BY <1>3, <2>4, <2>5 DEF UnlinkRead, WebType
  <1>4. ASSUME NEW t \in Tag, LostRead(c, t) PROVE TypeOK'
    <2> DEFINE v == [web[c] EXCEPT !.at = "lost", !.tag = t, !.from = row[t].mirror]
    <2>1. row[t].mirror \in Parent
      BY DEF Rows
    <2>2. v \in Calls /\ v.tag \in Tag
      BY <1>0, <2>1 DEF Calls, Parent
    <2>3. web' = [web EXCEPT ![c] = v]
      BY <1>4 DEF LostRead
    <2>4. WebType'
      <3> HIDE DEF v
      <3> QED  BY <2>2, <2>3, MoveType
    <2> QED  BY <1>4, <2>4 DEF LostRead, WebType
  <1>5. ASSUME NEW t \in Tag, NEW on \in BOOLEAN, Describe(c, t, on) PROVE TypeOK'
    <2>1. [NoRow EXCEPT !.here = TRUE, !.active = on] \in Rows
      BY DEF NoRow, Rows, Parent
    <2>2. row' \in [Tag -> Rows]
      BY <1>5, <2>1 DEF Describe
    <2>3. WebType'
      <3>1. {} \in SUBSET Put /\ Done(c, {})
        BY <1>5 DEF Describe
      <3> QED  BY <3>1, DoneType
    <2> QED  BY <1>5, <2>2, <2>3, WatchType DEF Describe, WebType
  <1>6. ASSUME NEW t \in Tag, NEW on \in BOOLEAN, SetActive(c, t, on) PROVE TypeOK'
    <2> DEFINE tags == {t} \cup Descendants(t, Parents(steve))
    <2>1. tags \in SUBSET Tag
      BY DescendantsType
    <2>2. row' \in [Tag -> Rows]
      BY <1>6, SetRowsType DEF SetActive
    <2>3. WebType'
      <3>1. PutsOf(tags) \in SUBSET Put
        BY <2>1, <2>2, PutsOfType
      <3>2. Done(c, PutsOf(tags))
        BY <1>6 DEF SetActive
      <3> HIDE DEF tags
      <3> QED  BY <3>1, <3>2, DoneType
    <2>4. lost' \subseteq Tag
      BY <1>6, ReactivatedType DEF SetActive
    <2> QED  BY <1>6, <2>2, <2>3, <2>4, WatchType DEF SetActive, WebType
  <1>7. ASSUME NEW t \in Tag, NEW on \in BOOLEAN, Flip(c, t, on) PROVE TypeOK'
    <2>1. row' \in [Tag -> Rows]
      BY <1>7, SetRowsType DEF Flip
    <2>2. PutsOf({t}) \in SUBSET Put
      BY <2>1, PutsOfType
    <2> DEFINE v == [web[c] EXCEPT !.at = "cascade", !.tag = t, !.on = on,
                                   !.puts = PutsOf({t})]
    <2>3. v \in Calls /\ v.tag \in Tag
      BY <1>0, <2>2 DEF Calls, Parent
    <2>4. web' = [web EXCEPT ![c] = v]
      BY <1>7 DEF Flip
    <2>5. WebType'
      <3> HIDE DEF v
      <3> QED  BY <2>3, <2>4, MoveType
    <2>6. lost' \subseteq Tag
      BY <1>7, ReactivatedType DEF Flip
    <2> QED  BY <1>7, <2>1, <2>5, <2>6, WatchType DEF Flip, WebType
  <1> QED  BY <1>1, <1>2, <1>3, <1>4, <1>5, <1>6, <1>7 DEF NewRequest

LEMMA FailType ==
    ASSUME TypeOK, NEW c \in Call, CallThrows(c) \/ (\E p \in web[c].puts : Push(c, p))
    PROVE  TypeOK'
  <1> USE DEF TypeOK
  <1>0. web[c] \in Calls
    OBVIOUS
  <1>1. CASE CallThrows(c)
    <2>1. {} \in SUBSET Put /\ Done(c, {})
      BY <1>1 DEF CallThrows
    <2>2. WebType' /\ faults' \in 0 .. MaxFaults
      BY <1>1, <2>1, DoneType, FaultType DEF CallThrows
    <2>3. blurred' \subseteq Tag
      BY <1>0, <1>1 DEF CallThrows, Calls
    <2> QED  BY <1>1, <2>2, <2>3 DEF CallThrows, WebType
  <1>2. ASSUME NEW p \in web[c].puts, Push(c, p) PROVE TypeOK'
    <2>1. p \in Put
      BY <1>0 DEF Calls
    <2> DEFINE v == [web[c] EXCEPT !.puts = @ \ {p}]
    <2>2. v \in Calls /\ v.at = web[c].at /\ v.tag = web[c].tag
      BY <1>0 DEF Calls
    <2>3. web' = [web EXCEPT ![c] = v]
      BY <1>2 DEF Push
    <2>4. WebType'
      <3> HIDE DEF v
      <3> QED  BY <2>2, <2>3, MoveType
    <2>5. steve' \in [Tag -> StEvETag]
      BY <1>2, <2>1 DEF Push, Put, StEvETag
    <2>6. faults' \in 0 .. MaxFaults /\ blurred' \subseteq Tag
      BY <1>2, <2>1, FaultType DEF Push, Put
    <2> QED  BY <1>2, <2>4, <2>5, <2>6, WatchType DEF Push, WebType
  <1> QED  BY <1>1, <1>2

LEMMA PassType ==
    ASSUME TypeOK, PassStep \/ PassAborts
    PROVE  TypeOK'
  <1> USE DEF TypeOK
  <1>1. CASE PassBegin
    <2>1. pass' \in Passes
      BY <1>1 DEF PassBegin, Passes, Mapped
    <2> QED  BY <1>1, <2>1 DEF PassBegin
  <1>2. CASE PassReadTags
    <2>1. pass' \in Passes
      BY <1>2 DEF PassReadTags, Passes
    <2> QED  BY <1>2, <2>1 DEF PassReadTags
  <1>3. ASSUME NEW t \in Tag, PassWrite(t) PROVE TypeOK'
    <2>1. pass' \in Passes
      BY <1>3 DEF PassWrite, Passes
    <2>2. Desired(t) \in Limits
      BY LimitType DEF Desired, Limits
    <2>3. pass.snap[t] \in StEvETag
      BY DEF Passes
    <2>4. [pass.snap[t] EXCEPT !.limit = Desired(t)] \in StEvETag
      BY <2>2, <2>3 DEF StEvETag
    <2>5. steve' \in [Tag -> StEvETag]
      BY <1>3, <2>4 DEF PassWrite
    <2>6. faults' \in 0 .. MaxFaults /\ blurred' \subseteq Tag
      BY <1>3, FaultType DEF PassWrite
    <2> QED  BY <1>3, <2>1, <2>5, <2>6 DEF PassWrite
  <1>4. CASE PassEnd
    BY <1>4, NoPassType DEF PassEnd
  <1>5. CASE PassAborts
    BY <1>5, NoPassType, FaultType DEF PassAborts
  <1> QED  BY <1>1, <1>2, <1>3, <1>4, <1>5 DEF PassStep

LEMMA RestartType ==
    ASSUME TypeOK, RestartWeb
    PROVE  TypeOK'
  <1> USE DEF TypeOK
  <1>1. [NewCall EXCEPT !.at = "done"] \in Calls /\ [NewCall EXCEPT !.at = "done"].at = "done"
    BY NewCallType DEF Calls, NewCall
  <1>2. PICK hit : /\ web' = [c \in Call |-> IF c \in hit THEN [NewCall EXCEPT !.at = "done"]
                                            ELSE web[c]]
                   /\ blurred' \subseteq Tag /\ Fault("restart")
    BY DEF RestartWeb
  <1>3. WebType'
    BY <1>1, <1>2 DEF WebType
  <1>4. faults' \in 0 .. MaxFaults
    BY <1>2, FaultType
  <1> QED  BY <1>2, <1>3, <1>4 DEF RestartWeb, WebType

LEMMA NextType == TypeOK /\ [Next]_vars => TypeOK'
  <1> SUFFICES ASSUME TypeOK, [Next]_vars PROVE TypeOK'
    OBVIOUS
  <1>1. CASE UNCHANGED vars
    BY <1>1 DEF TypeOK, vars
  <1>2. ASSUME NEW c \in Call, NewRequest(c) \/ CallStep(c) \/ CallThrows(c) PROVE TypeOK'
    BY <1>2, RequestType, LinkInsertType, EnsureType, CallType, FailType DEF CallStep
  <1>3. CASE PassStep \/ PassAborts
    BY <1>3, PassType
  <1>4. CASE RestartWeb
    BY <1>4, RestartType
  <1> QED  BY <1>1, <1>2, <1>3, <1>4 DEF Next

\* Every variable keeps its type, and a call that works on a tag has one.
THEOREM TypeCorrect == Spec => []TypeOK
  BY InitType, NextType, PTL DEF Spec

----------------------------------------------------------------------------
(* A calm pass: what it read is still true, and the tags it has dealt with *)
(* are as it wants them.                                                   *)

CalmInv ==
    pass.calm =>
      /\ pass.at # "idle" => pass.mapped = Mapped
      /\ pass.at = "write" =>
            \A t \in Tag :
              /\ steve[t].parent = pass.snap[t].parent
              /\ t \in pass.todo => steve[t].limit = pass.snap[t].limit
              /\ t \notin pass.todo => steve[t].limit = Desired(t)

\* Whoever is not the pass leaves it the same, or no longer calm.
LEMMA OthersKeepCalm ==
    ASSUME TypeOK, CalmInv,
           Watch \/ UNCHANGED << row, steve, pass >>
    PROVE  CalmInv'
  <1>1. CASE UNCHANGED << row, steve, pass >>
    BY <1>1 DEF CalmInv, Mapped, Desired
  <1>2. CASE Watch /\ pass.at = "idle"
    BY <1>2 DEF CalmInv, Watch
  <1>3. CASE Watch /\ pass.at # "idle"
    <2>1. pass' = [pass EXCEPT !.calm = @ /\ row' = row /\ steve' = steve]
      BY <1>3 DEF Watch
    <2>2. /\ pass'.at = pass.at /\ pass'.mapped = pass.mapped
          /\ pass'.snap = pass.snap /\ pass'.todo = pass.todo
          /\ (pass'.calm => pass.calm /\ row' = row /\ steve' = steve)
      BY <2>1 DEF TypeOK, Passes
    <2> QED  BY <2>2 DEF CalmInv, Mapped, Desired
  <1> QED  BY <1>1, <1>2, <1>3

LEMMA PassKeepsCalm ==
    ASSUME TypeOK, CalmInv, PassStep \/ PassAborts
    PROVE  CalmInv'
  <1>0. pass \in Passes
    BY DEF TypeOK
  <1>1. CASE PassBegin
    BY <1>0, <1>1 DEF PassBegin, Passes, CalmInv, Mapped
  <1>2. CASE PassReadTags
    BY <1>0, <1>2 DEF PassReadTags, Passes, CalmInv, Mapped
  <1>3. ASSUME NEW t \in Tag, PassWrite(t) PROVE CalmInv'
    <2>1. /\ pass'.at = "write" /\ pass'.mapped = pass.mapped
          /\ pass'.snap = pass.snap /\ pass'.todo = pass.todo \ {t}
          /\ pass'.calm => pass.calm
      BY <1>0, <1>3 DEF PassWrite, Passes
    <2>2. Mapped' = Mapped /\ \A u \in Tag : Desired(u)' = Desired(u)
      BY <1>3, <2>1 DEF PassWrite, Mapped, Desired
    <2>3. pass.at = "write" /\ pass.snap \in [Tag -> StEvETag] /\ steve \in [Tag -> StEvETag]
      BY <1>0, <1>3 DEF PassWrite, Passes, TypeOK
    <2>4. CASE pass.snap[t].limit = Desired(t) /\ steve' = steve /\ pass'.calm
      <3>1. pass.calm
        BY <2>1, <2>4
      <3> QED  BY <2>1, <2>2, <2>3, <2>4, <3>1 DEF CalmInv
    <2>5. CASE steve' = [steve EXCEPT ![t] = [pass.snap[t] EXCEPT !.limit = Desired(t)]]
      <3>1. /\ steve'[t].limit = Desired(t) /\ steve'[t].parent = pass.snap[t].parent
            /\ \A u \in Tag \ {t} : steve'[u] = steve[u]
        BY <2>3, <2>5 DEF StEvETag
      <3> QED  BY <2>1, <2>2, <2>3, <3>1 DEF CalmInv
    <2>6. CASE pass'.calm = FALSE
      BY <2>6 DEF CalmInv
    <2> QED  BY <1>0, <1>3, <2>4, <2>5, <2>6 DEF PassWrite, Passes
  <1>4. CASE PassEnd \/ PassAborts
    BY <1>4 DEF PassEnd, PassAborts, NoPass, CalmInv
  <1> QED  BY <1>1, <1>2, <1>3, <1>4 DEF PassStep

LEMMA NextKeepsCalm == TypeOK /\ CalmInv /\ [Next]_vars => CalmInv'
  <1> SUFFICES ASSUME TypeOK, CalmInv, [Next]_vars PROVE CalmInv'
    OBVIOUS
  <1>1. CASE UNCHANGED vars
    BY <1>1, OthersKeepCalm DEF vars
  <1>2. ASSUME NEW c \in Call, NewRequest(c) PROVE CalmInv'
    BY <1>2, OthersKeepCalm
    DEF NewRequest, LagoChange, LinkRead, UnlinkRead, LostRead, Describe, SetActive, Flip
  <1>3. ASSUME NEW c \in Call, CallStep(c) \/ CallThrows(c) PROVE CalmInv'
    <2>1. CASE CallThrows(c) \/ EnsureAsk(c)
      BY <2>1, OthersKeepCalm DEF CallThrows, EnsureAsk
    <2>2. CASE LinkInsert(c)
      BY <2>2, OthersKeepCalm DEF LinkInsert
    <2>3. CASE EnsureTag(c) \/ EnsureRow(c) \/ LinkMirror(c) \/ Cascade(c)
      BY <2>3, OthersKeepCalm DEF EnsureTag, EnsureRow, LinkMirror, Cascade
    <2>4. CASE UnlinkWrite(c) \/ LostWrite(c) \/ Event(c)
      BY <2>4, OthersKeepCalm DEF UnlinkWrite, LostWrite, Event
    <2>5. CASE \E p \in web[c].puts : Push(c, p)
      BY <2>5, OthersKeepCalm DEF Push
    <2> QED  BY <1>3, <2>1, <2>2, <2>3, <2>4, <2>5 DEF CallStep
  <1>4. CASE PassStep \/ PassAborts
    BY <1>4, PassKeepsCalm
  <1>5. CASE RestartWeb
    BY <1>5, OthersKeepCalm DEF RestartWeb
  <1> QED  BY <1>1, <1>2, <1>3, <1>4, <1>5 DEF Next

LEMMA CalmEnd ==
    ASSUME TypeOK, CalmInv, PassEnd, pass.calm, NEW t \in Tag
    PROVE  steve[t].limit # 0 <=> t \in Resolved(Mapped, Parents(steve))
  <1>1. /\ pass.mapped = Mapped /\ steve[t].limit = Desired(t)
        /\ \A u \in Tag : steve[u].parent = pass.snap[u].parent
    BY DEF CalmInv, PassEnd
  <1>2. Parents(pass.snap) = Parents(steve)
    BY <1>1 DEF Parents
  <1> QED  BY <1>1, <1>2 DEF Desired, Limit

\* A sync pass during which no call wrote a row or a tag, and none of whose
\* PUTs failed, leaves open exactly the tags that resolve to an active mapping.
THEOREM CleanPassesSettle == Spec => CleanPassSettles
  <1>1. Init => TypeOK /\ CalmInv
    BY InitType DEF Init, CalmInv, NoPass
  <1>2. TypeOK /\ CalmInv /\ [Next]_vars => TypeOK' /\ CalmInv'
    BY NextType, NextKeepsCalm
  <1>3. TypeOK /\ CalmInv /\ [Next]_vars =>
          [PassEnd /\ pass.calm =>
             \A t \in Tag : steve[t].limit # 0 <=> t \in Resolved(Mapped, Parents(steve))]_vars
    BY CalmEnd
  <1> QED  BY <1>1, <1>2, <1>3, PTL DEF Spec, CleanPassSettles

----------------------------------------------------------------------------
(* The hierarchy.  A tag's parent in StEvE is the mirror of its row, or a  *)
(* PUT that says so is still to come; every copy of the row is as new.     *)

Linking == {"ask", "meta", "metaRow", "mirror"}

\* What a call has, and has not, at each of its steps.
TidyCall(w) ==
    /\ w.at \in {"unused", "event"} => w.tag = NoTag
    /\ w.at \in {"unused", "event", "insert", "unlink", "lost"} => w.puts = {}
    /\ w.at \in Linking /\ w.tag \in Tag => \A p \in w.puts : p.tag \in w.kids \ {w.tag}

His(t) == row[t].here /\ row[t].customer

\* The copies that call w has of t's row say that its parent is m.
Faithful(w, t, m) ==
    /\ \A p \in w.puts : p.tag = t => p.parent = m
    /\ w.at = "lost" /\ w.tag = t => w.from = m

\* Call w is still to send t to StEvE.
Owes(w, t) == (\E p \in w.puts : p.tag = t) \/ (w.at \in Linking /\ w.tag = t)

Kept(t) ==
    /\ \A c \in Call : Faithful(web[c], t, row[t].mirror)
    /\ steve[t].parent = row[t].mirror \/ \E c \in Call : Owes(web[c], t)

MirrorInv ==
    /\ \A c \in Call : TidyCall(web[c])
    /\ \A t \in Tag \ blurred : His(t) => Kept(t)

\* A tag whose mirror and parent a step of call c leaves alone.
LEMMA TagKept ==
    ASSUME NEW c \in Call, \A d \in Call : d # c => web'[d] = web[d],
           NEW t \in Tag, Kept(t),
           row'[t].mirror = row[t].mirror, steve'[t].parent = steve[t].parent,
           Faithful(web'[c], t, row[t].mirror),
           Owes(web[c], t) => Owes(web'[c], t)
    PROVE  Kept(t)'
  <1>1. \A d \in Call : Faithful(web'[d], t, row'[t].mirror)
    BY DEF Kept
  <1>2. steve'[t].parent = row'[t].mirror \/ \E d \in Call : Owes(web'[d], t)
    BY DEF Kept
  <1> QED  BY <1>1, <1>2 DEF Kept

\* ... and one whose mirror it writes, with no other call holding a copy.
LEMMA FreshKept ==
    ASSUME NEW c \in Call, \A d \in Call : d # c => web'[d] = web[d],
           NEW t \in Tag, ~HeldElsewhere(t, c),
           Faithful(web'[c], t, row'[t].mirror), Owes(web'[c], t)
    PROVE  Kept(t)'
  <1>1. ASSUME NEW d \in Call, d # c PROVE Faithful(web[d], t, row'[t].mirror)
    BY <1>1 DEF HeldElsewhere, Faithful
  <1>2. \A d \in Call : Faithful(web'[d], t, row'[t].mirror)
    BY <1>1
  <1> QED  BY <1>2 DEF Kept

\* A step of call c that writes no mirror and nothing in StEvE, leaves it with
\* true copies, and with whatever it owed.
LEMMA CallKept ==
    ASSUME TypeOK, MirrorInv, NEW c \in Call,
           \A d \in Call : d # c => web'[d] = web[d],
           TidyCall(web'[c]), blurred \subseteq blurred',
           \A t \in Tag \ blurred' : His(t)' =>
              /\ His(t) /\ row'[t].mirror = row[t].mirror
              /\ steve'[t].parent = steve[t].parent
              /\ Kept(t) => /\ Faithful(web'[c], t, row[t].mirror)
                            /\ Owes(web[c], t) => Owes(web'[c], t)
    PROVE  MirrorInv'
  <1>1. \A d \in Call : TidyCall(web'[d])
    BY DEF MirrorInv
  <1>2. ASSUME NEW t \in Tag \ blurred', His(t)' PROVE Kept(t)'
    <2>1. His(t) /\ row'[t].mirror = row[t].mirror /\ steve'[t].parent = steve[t].parent
      BY <1>2
    <2>2. Kept(t)
      BY <2>1 DEF MirrorInv
    <2>3. Faithful(web'[c], t, row[t].mirror) /\ (Owes(web[c], t) => Owes(web'[c], t))
      BY <1>2, <2>2
    <2> QED  BY <2>1, <2>2, <2>3, TagKept
  <1> QED  BY <1>1, <1>2 DEF MirrorInv

LEMMA DoneMoves ==
    ASSUME TypeOK, NEW c \in Call, NEW puts, Done(c, puts)
    PROVE  /\ \A d \in Call : d # c => web'[d] = web[d]
           /\ web'[c].at = "done" /\ web'[c].puts = puts
  BY DEF Done, NewCall, TypeOK

\* ... in particular one that is done but for its PUTs.
LEMMA DoneKept ==
    ASSUME TypeOK, MirrorInv, NEW c \in Call, NEW puts, Done(c, puts),
           blurred \subseteq blurred',
           \A t \in Tag \ blurred' : His(t)' =>
              /\ His(t) /\ row'[t].mirror = row[t].mirror
              /\ steve'[t].parent = steve[t].parent
              /\ Kept(t) => /\ \A p \in puts : p.tag = t => p.parent = row[t].mirror
                            /\ Owes(web[c], t) => \E p \in puts : p.tag = t
    PROVE  MirrorInv'
  <1>1. /\ \A d \in Call : d # c => web'[d] = web[d]
        /\ web'[c].at = "done" /\ web'[c].puts = puts
    BY DoneMoves
  <1>2. TidyCall(web'[c])
    BY <1>1 DEF TidyCall, Linking
  <1>3. \A t \in Tag : \A m :
           (\A p \in puts : p.tag = t => p.parent = m) => Faithful(web'[c], t, m)
    BY <1>1 DEF Faithful
  <1>4. \A t \in Tag : (\E p \in puts : p.tag = t) => Owes(web'[c], t)
    BY <1>1 DEF Owes
  <1> QED  BY <1>1, <1>2, <1>3, <1>4, CallKept

\* SetRows turns rows on or off; who they belong to and their mirrors stay.
LEMMA SetRowsMirrors ==
    ASSUME TypeOK, NEW tags, NEW on \in BOOLEAN, SetRows(tags, on)
    PROVE  /\ \A t \in Tag : /\ row'[t].here = row[t].here
                             /\ row'[t].customer = row[t].customer
                             /\ row'[t].mirror = row[t].mirror
           /\ \A p \in PutsOf(tags) : p.parent = row'[p.tag].mirror
  <1>1. ASSUME NEW t \in Tag
        PROVE  /\ row'[t].here = row[t].here /\ row'[t].customer = row[t].customer
               /\ row'[t].mirror = row[t].mirror
    <2>1. row[t] \in Rows
      BY DEF TypeOK
    <2>2. row'[t] = row[t] \/ row'[t] = [row[t] EXCEPT !.active = on]
      BY DEF SetRows
    <2> QED  BY <2>1, <2>2 DEF Rows
  <1>2. \A p \in PutsOf(tags) : p.parent = row'[p.tag].mirror
    BY DEF PutsOf, PutOf
  <1> QED  BY <1>1, <1>2

\* A call that has yet to write owes nothing.
LEMMA OwesNothing ==
    ASSUME MirrorInv, NEW c \in Call,
           web[c].at \in {"unused", "event", "insert", "unlink", "lost"}
    PROVE  web[c].puts = {} /\ \A t : ~Owes(web[c], t)
  BY DEF MirrorInv, TidyCall, Owes, Linking

LEMMA ReadKept ==
    ASSUME TypeOK, MirrorInv, NEW c \in Call, NEW t \in Tag,
           LagoChange(c) \/ LinkRead(c, t) \/ UnlinkRead(c, t) \/ LostRead(c, t)
    PROVE  MirrorInv'
  <1>1. web[c].at = "unused" /\ UNCHANGED << row, steve, blurred >>
    BY DEF LagoChange, LinkRead, UnlinkRead, LostRead
  <1>2. web[c].puts = {} /\ \A u : ~Owes(web[c], u)
    BY <1>1, OwesNothing
  <1>3. web[c].tag = NoTag
    BY <1>1 DEF MirrorInv, TidyCall
  <1>4. web \in [Call -> Calls]
    BY DEF TypeOK
  <1>5. /\ \A d \in Call : d # c => web'[d] = web[d]
        /\ web'[c].puts = {}
        /\ \/ web'[c].at = "event" /\ web'[c].tag = NoTag
           \/ web'[c].at \in {"insert", "unlink"}
           \/ web'[c].at = "lost" /\ web'[c].tag = t /\ web'[c].from = row[t].mirror
    <2>1. CASE LagoChange(c)
      BY <1>2, <1>3, <1>4, <2>1 DEF LagoChange, Calls
    <2>2. CASE LinkRead(c, t)
      <3>1. PICK sub, kids, from :
               web' = [web EXCEPT ![c] = [@ EXCEPT !.at = "insert", !.tag = t, !.on = sub,
                                                   !.kids = kids, !.from = from]]
        BY <2>2 DEF LinkRead
      <3>2. web'[c].at = "insert" /\ web'[c].puts = web[c].puts
        BY <1>4, <3>1 DEF Calls
      <3>3. \A d \in Call : d # c => web'[d] = web[d]
        BY <1>4, <3>1
      <3> QED  BY <1>2, <3>2, <3>3
    <2>3. CASE UnlinkRead(c, t)
      <3>1. PICK kids : web' = [web EXCEPT ![c] = [@ EXCEPT !.at = "unlink", !.tag = t,
                                                            !.kids = kids]]
        BY <2>3 DEF UnlinkRead
      <3>2. web'[c].at = "unlink" /\ web'[c].puts = web[c].puts
        BY <1>4, <3>1 DEF Calls
      <3>3. \A d \in Call : d # c => web'[d] = web[d]
        BY <1>4, <3>1
      <3> QED  BY <1>2, <3>2, <3>3
    <2>4. CASE LostRead(c, t)
      BY <1>2, <1>4, <2>4 DEF LostRead, Calls
    <2> QED  BY <2>1, <2>2, <2>3, <2>4
  <1>6. TidyCall(web'[c])
    BY <1>5 DEF TidyCall, Linking
  <1>7. \A u \in Tag : Faithful(web'[c], u, row[u].mirror)
    BY <1>5 DEF Faithful
  <1> QED  BY <1>1, <1>2, <1>5, <1>6, <1>7, CallKept DEF His

LEMMA FirstWriteKept ==
    ASSUME TypeOK, MirrorInv, NEW c \in Call, NEW t \in Tag, NEW on \in BOOLEAN,
           Describe(c, t, on) \/ SetActive(c, t, on) \/ Flip(c, t, on)
    PROVE  MirrorInv'
  <1>1. web[c].at = "unused" /\ UNCHANGED << steve, blurred >>
    BY DEF Describe, SetActive, Flip
  <1>2. web[c].puts = {} /\ \A u : ~Owes(web[c], u)
    BY <1>1, OwesNothing
  <1>3. CASE Describe(c, t, on)
    <2>1. ASSUME NEW u \in Tag, His(u)' PROVE His(u) /\ row'[u] = row[u]
      <3>1. row' = [row EXCEPT ![t] = [NoRow EXCEPT !.here = TRUE, !.active = on]]
        BY <1>3 DEF Describe
      <3>2. [NoRow EXCEPT !.here = TRUE, !.active = on].customer = FALSE
        BY DEF NoRow
      <3>3. u # t /\ row'[u] = row[u]
        BY <2>1, <3>1, <3>2 DEF His, TypeOK
      <3> QED  BY <2>1, <3>3 DEF His
    <2>2. Done(c, {})
      BY <1>3 DEF Describe
    <2> QED  BY <1>1, <1>2, <2>1, <2>2, DoneKept
  <1>4. CASE SetActive(c, t, on)
    <2>1. PICK tags : SetRows(tags, on) /\ Done(c, PutsOf(tags))
      BY <1>4 DEF SetActive
    <2> QED  BY <1>1, <1>2, <2>1, SetRowsMirrors, DoneKept DEF His
  <1>5. CASE Flip(c, t, on)
    <2>1. /\ \A d \in Call : d # c => web'[d] = web[d]
          /\ web'[c].at = "cascade" /\ web'[c].puts = PutsOf({t})
      BY <1>5 DEF Flip, TypeOK, Calls
    <2>2. SetRows({t}, on)
      BY <1>5 DEF Flip
    <2>3. TidyCall(web'[c])
      BY <2>1 DEF TidyCall, Linking
    <2>4. \A u \in Tag : Faithful(web'[c], u, row'[u].mirror)
      BY <2>1, <2>2, SetRowsMirrors DEF Faithful
    <2> QED  BY <1>1, <1>2, <2>1, <2>2, <2>3, <2>4, SetRowsMirrors, CallKept DEF His
  <1> QED  BY <1>3, <1>4, <1>5

LEMMA EnsureKept ==
    ASSUME TypeOK, MirrorInv, NEW c \in Call, EnsureAsk(c) \/ EnsureTag(c) \/ EnsureRow(c)
    PROVE  MirrorInv'
  <1>1. web[c].at \in Linking /\ blurred' = blurred
    BY DEF EnsureAsk, EnsureTag, EnsureRow, Linking
  <1>2. web \in [Call -> Calls] /\ Meta \in Tag
    BY DEF TypeOK, Tag
  <1>3. \A t \in Tag : steve'[t].parent = steve[t].parent
    <2>1. \/ steve' = steve
          \/ \E limit : steve' = [steve EXCEPT ![Meta].limit = limit]
      BY DEF EnsureAsk, EnsureTag, EnsureRow
    <2>2. ASSUME NEW limit, steve' = [steve EXCEPT ![Meta].limit = limit], NEW t \in Tag
          PROVE  steve'[t].parent = steve[t].parent
      BY <2>2 DEF TypeOK, StEvETag
    <2> QED  BY <2>1, <2>2
  <1>4. \A t \in Tag : /\ row'[t].here = row[t].here /\ row'[t].customer = row[t].customer
                       /\ row'[t].mirror = row[t].mirror
    <2>1. \/ row' = row
          \/ row' = [row EXCEPT ![Meta].active = web[c].on, ![Meta].sub = web[c].on]
      BY DEF EnsureAsk, EnsureTag, EnsureRow
    <2>2. CASE row' = [row EXCEPT ![Meta].active = web[c].on, ![Meta].sub = web[c].on]
      BY <2>2 DEF TypeOK, Rows
    <2> QED  BY <2>1, <2>2
  <1>5. CASE EnsureRow(c) /\ web[c].tag = NoTag
    <2>1. Done(c, web[c].puts)
      BY <1>5 DEF EnsureRow
    <2>2. \A t \in Tag : Owes(web[c], t) => \E p \in web[c].puts : p.tag = t
      BY <1>5, TagAssumption DEF Owes
    <2>3. \A t \in Tag : Kept(t) => \A p \in web[c].puts : p.tag = t => p.parent = row[t].mirror
      BY DEF Kept, Faithful
    <2> QED  BY <1>1, <1>3, <1>4, <2>1, <2>2, <2>3, DoneKept DEF His
  <1>6. CASE ~(EnsureRow(c) /\ web[c].tag = NoTag)
    <2>1. /\ \A d \in Call : d # c => web'[d] = web[d]
          /\ web'[c].at \in Linking /\ web'[c].tag = web[c].tag
          /\ web'[c].kids = web[c].kids /\ web'[c].puts = web[c].puts
      <3>1. CASE EnsureAsk(c)
        <4>1. PICK on \in BOOLEAN : web' = [web EXCEPT ![c] = [@ EXCEPT !.on = on, !.at = "meta"]]
          BY <3>1 DEF EnsureAsk
        <4> QED  BY <1>2, <4>1 DEF Calls, Linking
      <3>2. CASE EnsureTag(c)
        BY <1>2, <3>2 DEF EnsureTag, Calls, Linking
      <3>3. CASE EnsureRow(c)
        BY <1>2, <1>6, <3>3 DEF EnsureRow, Calls, Linking
      <3> QED  BY <3>1, <3>2, <3>3
    <2>2. TidyCall(web'[c])
      BY <1>1, <2>1 DEF MirrorInv, TidyCall, Linking
    <2>3. \A t \in Tag : Owes(web[c], t) => Owes(web'[c], t)
      BY <1>1, <2>1 DEF Owes
    <2>4. \A t \in Tag : Kept(t) => Faithful(web'[c], t, row[t].mirror)
      BY <2>1 DEF Kept, Faithful, Linking
    <2> QED  BY <1>1, <1>3, <1>4, <2>1, <2>2, <2>3, <2>4, CallKept DEF His
  <1> QED  BY <1>5, <1>6

LEMMA WriteKept ==
    ASSUME TypeOK, MirrorInv, NEW c \in Call,
           Cascade(c) \/ UnlinkWrite(c) \/ LostWrite(c) \/ Event(c)
    PROVE  MirrorInv'
  <1>1. UNCHANGED << steve, blurred >> /\ web \in [Call -> Calls]
    BY DEF Cascade, UnlinkWrite, LostWrite, Event, TypeOK
  <1>2. CASE Cascade(c)
    <2>1. web[c].at = "cascade" /\ web[c].on \in BOOLEAN
      BY <1>1, <1>2 DEF Cascade, Calls
    <2>2. \A t : Owes(web[c], t) => \E p \in web[c].puts : p.tag = t
      BY <2>1 DEF Owes, Linking
    <2>3. \A t \in Tag : Kept(t) => \A p \in web[c].puts : p.tag = t => p.parent = row[t].mirror
      BY DEF Kept, Faithful
    <2>4. CASE row' = row /\ Done(c, web[c].puts)
      BY <1>1, <2>2, <2>3, <2>4, DoneKept DEF His
    <2>5. ASSUME NEW tags, SetRows(tags, web[c].on), Done(c, web[c].puts \cup PutsOf(tags))
          PROVE  MirrorInv'
      <3>1. \A t \in Tag : Kept(t) =>
               /\ \A p \in web[c].puts \cup PutsOf(tags) : p.tag = t => p.parent = row[t].mirror
               /\ Owes(web[c], t) => \E p \in web[c].puts \cup PutsOf(tags) : p.tag = t
        BY <2>1, <2>2, <2>3, <2>5, SetRowsMirrors
      <3> QED  BY <1>1, <2>1, <2>5, <3>1, SetRowsMirrors, DoneKept DEF His
    <2> QED  BY <1>2, <2>4, <2>5 DEF Cascade
  <1>3. CASE UnlinkWrite(c)
    <2>1. web[c].at = "unlink"
      BY <1>3 DEF UnlinkWrite
    <2>2. PICK tags : SetRows(tags, FALSE) /\ Done(c, PutsOf(tags))
      BY <1>3 DEF UnlinkWrite
    <2>3. \A t : ~Owes(web[c], t)
      BY <2>1, OwesNothing
    <2>4. \A t \in Tag : His(t)' => His(t) /\ row'[t].mirror = row[t].mirror
      BY <2>2, SetRowsMirrors DEF His
    <2>5. \A t \in Tag : \A p \in PutsOf(tags) : p.tag = t => p.parent = row[t].mirror
      BY <2>2, SetRowsMirrors
    <2> QED  BY <1>1, <2>2, <2>3, <2>4, <2>5, DoneKept
  <1>4. CASE LostWrite(c)
    <2> DEFINE t == web[c].tag
               p == PutOf(t, [row[t] EXCEPT !.active = FALSE, !.mirror = web[c].from])
    <2>1. web[c].at = "lost" /\ Done(c, {p}) /\ row' = [row EXCEPT ![t].active = FALSE]
      BY <1>4 DEF LostWrite
    <2>2. t \in Tag
      BY <2>1 DEF TypeOK
    <2>3. row[t] \in Rows
      BY <2>2 DEF TypeOK
    <2>4. p.tag = t /\ p.parent = web[c].from
      BY <2>3 DEF PutOf, Rows
    <2>5. \A u \in Tag : /\ row'[u].here = row[u].here /\ row'[u].customer = row[u].customer
                         /\ row'[u].mirror = row[u].mirror
      BY <2>1, <2>2 DEF TypeOK, Rows
    <2>6. Kept(t) => web[c].from = row[t].mirror
      BY <2>1 DEF Kept, Faithful
    <2>7. \A u \in Tag : Kept(u) => \A q \in {p} : q.tag = u => q.parent = row[u].mirror
      BY <2>4, <2>6
    <2> HIDE DEF p
    <2> QED  BY <1>1, <2>1, <2>5, <2>7, OwesNothing, DoneKept DEF His
  <1>5. CASE Event(c)
    <2>1. web[c].at = "event" /\ web[c].on \in BOOLEAN
      BY <1>1, <1>5 DEF Event, Calls
    <2>2. /\ web[c].puts = {} /\ \A t : ~Owes(web[c], t)
          /\ web[c].tag = NoTag
      BY <2>1, OwesNothing DEF MirrorInv, TidyCall
    <2>3. PICK tags : /\ SetRows(tags, web[c].on)
                      /\ IF tags = {} THEN Done(c, {})
                         ELSE web' = [web EXCEPT ![c].at = "ask", ![c].puts = PutsOf(tags)]
      BY <1>5 DEF Event
    <2>4. CASE Done(c, {})
      BY <1>1, <2>1, <2>2, <2>3, <2>4, SetRowsMirrors, DoneKept DEF His
    <2>5. CASE web' = [web EXCEPT ![c].at = "ask", ![c].puts = PutsOf(tags)]
      <3>1. /\ \A d \in Call : d # c => web'[d] = web[d]
            /\ web'[c].at = "ask" /\ web'[c].puts = PutsOf(tags) /\ web'[c].tag = NoTag
        BY <1>1, <2>2, <2>5 DEF Calls
      <3>2. TidyCall(web'[c])
        BY <3>1, TagAssumption DEF TidyCall
      <3>3. \A t \in Tag : Faithful(web'[c], t, row'[t].mirror)
        BY <2>1, <2>3, <3>1, SetRowsMirrors DEF Faithful
      <3> QED  BY <1>1, <2>1, <2>2, <2>3, <3>1, <3>2, <3>3, SetRowsMirrors, CallKept DEF His
    <2> QED  BY <2>3, <2>4, <2>5
  <1> QED  BY <1>2, <1>3, <1>4, <1>5

\* The rows a link inserts: each tag's new mirror goes out with its PUT, the
\* linked card's once the META- tag is there.
LEMMA LinkInsertKept ==
    ASSUME TypeOK, MirrorInv, NEW c \in Call, LinkInsert(c)
    PROVE  MirrorInv'
  <1> DEFINE w == web[c]
             new(t) == [here |-> TRUE, active |-> TRUE, customer |-> TRUE, sub |-> w.on,
                        mirror |-> IF t = w.tag THEN w.from ELSE w.tag]
             kids == w.kids \ {w.tag}
  <1>1. steve' = steve /\ w.at = "insert" /\ web \in [Call -> Calls]
    BY DEF LinkInsert, TypeOK
  <1>2. w.puts = {} /\ \A t : ~Owes(w, t)
    BY <1>1, OwesNothing
  <1>3. CASE \E t \in {w.tag} \cup kids : row[t].here
    <2>1. Done(c, {}) /\ UNCHANGED << row, blurred >>
      BY <1>3 DEF LinkInsert
    <2> QED  BY <1>1, <1>2, <2>1, DoneKept DEF His
  <1>4. CASE ~ \E t \in {w.tag} \cup kids : row[t].here
    <2>1. /\ row' = [t \in Tag |-> IF t \in {w.tag} \cup kids THEN new(t) ELSE row[t]]
          /\ web' = [web EXCEPT ![c].at = "ask",
                                ![c].puts = { PutOf(t, new(t)) : t \in kids }]
          /\ blurred' = blurred \cup { t \in kids \cup {w.tag} : HeldElsewhere(t, c) }
      BY <1>4 DEF LinkInsert
    <2>2. /\ \A d \in Call : d # c => web'[d] = web[d]
          /\ web'[c].at = "ask" /\ web'[c].tag = w.tag /\ web'[c].kids = w.kids
          /\ web'[c].puts = { PutOf(t, new(t)) : t \in kids }
      BY <1>1, <2>1 DEF Calls
    <2>3. \A p \in web'[c].puts : p.tag \in kids /\ p.parent = new(p.tag).mirror
      <3>1. \A u \in kids : PutOf(u, new(u)).tag = u /\ PutOf(u, new(u)).parent = new(u).mirror
        BY DEF PutOf
      <3>2. ASSUME NEW p \in web'[c].puts PROVE p.tag \in kids /\ p.parent = new(p.tag).mirror
        <4>1. PICK u \in kids : p = PutOf(u, new(u))
          BY <2>2, <3>2
        <4> HIDE DEF kids, new
        <4> QED  BY <3>1, <4>1
      <3> QED  BY <3>2
    <2>4. TidyCall(web'[c])
      BY <2>2, <2>3 DEF TidyCall
    <2>5. ASSUME NEW t \in Tag \ blurred', His(t)' PROVE Kept(t)'
      <3>1. CASE t \notin {w.tag} \cup kids
        <4>1. row'[t] = row[t] /\ His(t) /\ t \notin blurred
          BY <2>1, <2>5, <3>1 DEF His
        <4>2. Kept(t)
          BY <4>1 DEF MirrorInv
        <4>3. Faithful(web'[c], t, row[t].mirror)
          BY <2>2, <2>3, <3>1 DEF Faithful
        <4> QED  BY <1>1, <1>2, <2>2, <4>1, <4>2, <4>3, TagKept
      <3>2. CASE t \in {w.tag} \cup kids
        <4>1. ~HeldElsewhere(t, c)
          BY <2>1, <2>5, <3>2
        <4>2. row'[t].mirror = new(t).mirror
          BY <2>1, <3>2
        <4>3. Faithful(web'[c], t, row'[t].mirror)
          BY <2>2, <2>3, <4>2 DEF Faithful
        <4>4. Owes(web'[c], t)
          <5>1. CASE t = w.tag
            BY <2>2, <5>1 DEF Owes, Linking
          <5>2. CASE t \in kids
            <6>1. PutOf(t, new(t)) \in web'[c].puts
              BY <2>2, <5>2
            <6>2. PutOf(t, new(t)).tag = t
              BY DEF PutOf
            <6> QED  BY <6>1, <6>2 DEF Owes
          <5> QED  BY <3>2, <5>1, <5>2
        <4> QED  BY <2>2, <4>1, <4>3, <4>4, FreshKept
      <3> QED  BY <3>1, <3>2
    <2>6. \A d \in Call : TidyCall(web'[d])
      BY <2>2, <2>4 DEF MirrorInv
    <2> QED  BY <2>5, <2>6 DEF MirrorInv
  <1> QED  BY <1>3, <1>4

\* The linked card's row comes to mirror the META- tag.
LEMMA LinkMirrorKept ==
    ASSUME TypeOK, MirrorInv, NEW c \in Call, LinkMirror(c)
    PROVE  MirrorInv'
  <1> DEFINE t == web[c].tag
             puts == web[c].puts \cup {PutOf(t, row'[t])}
  <1>1. /\ web[c].at = "mirror" /\ steve' = steve
        /\ row' = [row EXCEPT ![t].mirror = Meta] /\ Done(c, puts)
        /\ blurred' = IF HeldElsewhere(t, c) THEN blurred \cup {t} ELSE blurred
    BY DEF LinkMirror
  <1>2. t \in Tag
    BY <1>1 DEF TypeOK
  <1>3. \A p \in web[c].puts : p.tag # t
    BY <1>1, <1>2 DEF MirrorInv, TidyCall, Linking
  <1>4. PutOf(t, row'[t]).tag = t /\ PutOf(t, row'[t]).parent = row'[t].mirror
    BY DEF PutOf
  <1>5. /\ \A d \in Call : d # c => web'[d] = web[d]
        /\ web'[c].at = "done" /\ web'[c].puts = puts
    BY <1>1, DoneMoves
  <1>6. TidyCall(web'[c])
    BY <1>5 DEF TidyCall, Linking
  <1>7. ASSUME NEW u \in Tag \ blurred', His(u)' PROVE Kept(u)'
    <2>1. CASE u = t
      <3>1. ~HeldElsewhere(t, c)
        BY <1>1, <1>7, <2>1
      <3>2. Faithful(web'[c], t, row'[t].mirror)
        BY <1>3, <1>4, <1>5 DEF Faithful
      <3>3. Owes(web'[c], t)
        BY <1>4, <1>5 DEF Owes
      <3> QED  BY <1>2, <1>5, <2>1, <3>1, <3>2, <3>3, FreshKept
    <2>2. CASE u # t
      <3>1. row'[u] = row[u] /\ His(u) /\ u \notin blurred
        BY <1>1, <1>7, <2>2 DEF His, TypeOK
      <3>2. Kept(u)
        BY <3>1 DEF MirrorInv
      <3>3. Faithful(web'[c], u, row[u].mirror)
        BY <1>4, <1>5, <2>2, <3>2 DEF Kept, Faithful
      <3>4. Owes(web[c], u) => Owes(web'[c], u)
        BY <1>5, <2>2 DEF Owes
      <3> QED  BY <1>1, <1>5, <3>1, <3>2, <3>3, <3>4, TagKept
    <2> QED  BY <2>1, <2>2
  <1>8. \A d \in Call : TidyCall(web'[d])
    BY <1>5, <1>6 DEF MirrorInv
  <1> QED  BY <1>7, <1>8 DEF MirrorInv

\* A call that ends early owes its tags nothing, or they are blurred.
LEMMA CallThrowsKept ==
    ASSUME TypeOK, MirrorInv, NEW c \in Call, CallThrows(c)
    PROVE  MirrorInv'
  <1>1. /\ web[c].at \in {"insert", "mirror", "unlink", "lost"} /\ Done(c, {})
        /\ UNCHANGED << row, steve >>
        /\ blurred' = IF web[c].at = "mirror"
                      THEN blurred \cup {web[c].tag} \cup web[c].kids ELSE blurred
    BY DEF CallThrows
  <1>2. ASSUME NEW t \in Tag \ blurred' PROVE ~Owes(web[c], t)
    <2>1. CASE web[c].at # "mirror"
      BY <1>1, <2>1, OwesNothing
    <2>2. CASE web[c].at = "mirror"
      <3>1. web[c].tag \in Tag
        BY <2>2 DEF TypeOK
      <3>2. \A p \in web[c].puts : p.tag \in web[c].kids
        BY <2>2, <3>1 DEF MirrorInv, TidyCall, Linking
      <3> QED  BY <1>1, <1>2, <2>2, <3>2 DEF Owes
    <2> QED  BY <2>1, <2>2
  <1> QED  BY <1>1, <1>2, DoneKept DEF His

\* A PUT takes its copy, which is true, to StEvE; one that fails blurs the tag.
LEMMA PushKept ==
    ASSUME TypeOK, MirrorInv, NEW c \in Call, NEW p \in web[c].puts, Push(c, p)
    PROVE  MirrorInv'
  <1>1. /\ web' = [web EXCEPT ![c].puts = @ \ {p}] /\ row' = row
        /\ \/ /\ steve' = [steve EXCEPT ![p.tag] = [limit |-> p.limit, parent |-> p.parent]]
              /\ blurred' = blurred
           \/ steve' = steve /\ blurred' = blurred \cup {p.tag}
    BY DEF Push
  <1>2. p \in Put /\ p.tag \in Tag
    BY DEF TypeOK, Calls, Put
  <1>3. /\ \A d \in Call : d # c => web'[d] = web[d]
        /\ web'[c].at = web[c].at /\ web'[c].tag = web[c].tag /\ web'[c].kids = web[c].kids
        /\ web'[c].from = web[c].from /\ web'[c].puts = web[c].puts \ {p}
    BY <1>1 DEF TypeOK, Calls
  <1>4. \A d \in Call : TidyCall(web'[d])
    BY <1>3 DEF MirrorInv, TidyCall
  <1>5. ASSUME NEW t \in Tag \ blurred', His(t)' PROVE Kept(t)'
    <2>1. His(t) /\ t \notin blurred /\ row'[t] = row[t]
      BY <1>1, <1>5 DEF His
    <2>2. Kept(t)
      BY <2>1 DEF MirrorInv
    <2>3. \A d \in Call : Faithful(web'[d], t, row[t].mirror)
      BY <1>3, <2>2 DEF Kept, Faithful
    <2>4. CASE t # p.tag
      <3>1. steve'[t] = steve[t]
        BY <1>1, <1>2, <2>4 DEF TypeOK
      <3>2. Owes(web[c], t) => Owes(web'[c], t)
        BY <1>3, <2>4 DEF Owes
      <3> QED  BY <1>3, <2>1, <2>2, <2>3, <3>1, <3>2, TagKept
    <2>5. CASE t = p.tag
      <3>1. steve'[t].parent = p.parent
        BY <1>1, <1>2, <1>5, <2>5 DEF TypeOK
      <3>2. p.parent = row[t].mirror
        BY <2>2, <2>5 DEF Kept, Faithful
      <3> QED  BY <2>1, <2>3, <3>1, <3>2 DEF Kept
    <2> QED  BY <2>4, <2>5
  <1> QED  BY <1>4, <1>5 DEF MirrorInv

\* A pass writes parents it read: the present ones, or the tag is blurred.
LEMMA PassKept ==
    ASSUME TypeOK, MirrorInv, PassStep \/ PassAborts
    PROVE  MirrorInv'
  <1>1. UNCHANGED << row, web >> /\ blurred \subseteq blurred'
    BY DEF PassStep, PassBegin, PassReadTags, PassWrite, PassEnd, PassAborts
  <1>2. ASSUME NEW t \in Tag \ blurred' PROVE steve'[t].parent = steve[t].parent
    <2>1. ASSUME NEW u \in Tag, PassWrite(u) PROVE steve'[t].parent = steve[t].parent
      <3>1. CASE steve' = steve
        BY <3>1
      <3>2. CASE /\ steve' = [steve EXCEPT ![u] = [pass.snap[u] EXCEPT !.limit = Desired(u)]]
                 /\ blurred' = IF steve[u].parent # pass.snap[u].parent
                               THEN blurred \cup {u} ELSE blurred
        <4>1. pass.snap[u] \in StEvETag
          BY DEF TypeOK, Passes
        <4>2. [pass.snap[u] EXCEPT !.limit = Desired(u)].parent = pass.snap[u].parent
          BY <4>1 DEF StEvETag
        <4>3. CASE t = u
          BY <1>2, <3>2, <4>2, <4>3 DEF TypeOK
        <4>4. CASE t # u
          BY <3>2, <4>4 DEF TypeOK
        <4> QED  BY <4>3, <4>4
      <3> QED  BY <2>1, <3>1, <3>2 DEF PassWrite
    <2>2. CASE PassBegin \/ PassReadTags \/ PassEnd \/ PassAborts
      BY <2>2 DEF PassBegin, PassReadTags, PassEnd, PassAborts
    <2> QED  BY <2>1, <2>2 DEF PassStep
  <1> QED  BY <1>1, <1>2 DEF MirrorInv, His, Kept

\* A restart forgets what its calls owed, and blurs all they were about.
LEMMA RestartKept ==
    ASSUME TypeOK, MirrorInv, RestartWeb
    PROVE  MirrorInv'
  <1>1. PICK hit \in SUBSET Call :
           /\ web' = [c \in Call |-> IF c \in hit THEN [NewCall EXCEPT !.at = "done"]
                                     ELSE web[c]]
           /\ blurred' = blurred \cup { t \in Tag :
                 \E c \in hit : t \in {web[c].tag} \cup web[c].kids
                                    \cup { p.tag : p \in web[c].puts } }
           /\ UNCHANGED << row, steve >>
    BY DEF RestartWeb
  <1>2. \A c \in Call : /\ c \in hit => web'[c].at = "done" /\ web'[c].puts = {}
                        /\ c \notin hit => web'[c] = web[c]
    BY <1>1 DEF NewCall
  <1>3. \A c \in Call : TidyCall(web'[c])
    BY <1>2 DEF MirrorInv, TidyCall, Linking
  <1>4. ASSUME NEW t \in Tag \ blurred', His(t)' PROVE Kept(t)'
    <2>1. Kept(t) /\ row' = row /\ steve' = steve
      BY <1>1, <1>4 DEF MirrorInv, His
    <2>2. ASSUME NEW c \in hit PROVE ~Owes(web[c], t)
      BY <1>1, <1>4, <2>2 DEF Owes
    <2>3. \A c \in Call : Faithful(web'[c], t, row[t].mirror)
      BY <1>2, <2>1 DEF Kept, Faithful
    <2>4. \A c \in Call : Owes(web[c], t) => Owes(web'[c], t)
      BY <1>2, <2>2
    <2> QED  BY <2>1, <2>3, <2>4 DEF Kept
  <1> QED  BY <1>3, <1>4 DEF MirrorInv

LEMMA NextKept == TypeOK /\ MirrorInv /\ [Next]_vars => MirrorInv'
  <1> SUFFICES ASSUME TypeOK, MirrorInv, [Next]_vars PROVE MirrorInv'
    OBVIOUS
  <1>1. CASE UNCHANGED vars
    BY <1>1 DEF vars, MirrorInv, His, Kept
  <1>2. ASSUME NEW c \in Call, NewRequest(c) PROVE MirrorInv'
    BY <1>2, ReadKept, FirstWriteKept, TagAssumption DEF NewRequest, Tag
  <1>3. ASSUME NEW c \in Call, CallStep(c) \/ CallThrows(c) PROVE MirrorInv'
    BY <1>3, LinkInsertKept, EnsureKept, LinkMirrorKept, WriteKept, PushKept, CallThrowsKept
    DEF CallStep
  <1>4. CASE PassStep \/ PassAborts
    BY <1>4, PassKept
  <1>5. CASE RestartWeb
    BY <1>5, RestartKept
  <1> QED  BY <1>1, <1>2, <1>3, <1>4, <1>5 DEF Next

LEMMA InitKept == Init => MirrorInv
  <1> SUFFICES ASSUME Init PROVE MirrorInv
    OBVIOUS
  <1>1. \A c \in Call : web[c].at = "unused" /\ web[c].tag = NoTag /\ web[c].puts = {}
    BY DEF Init, NewCall
  <1>2. \A c \in Call : TidyCall(web[c])
    BY <1>1 DEF TidyCall, Linking
  <1>3. \A c \in Call, t \in Tag : \A m : Faithful(web[c], t, m)
    BY <1>1 DEF Faithful
  <1>4. ASSUME NEW t \in Tag, His(t) PROVE steve[t].parent = row[t].mirror
    <2>1. CASE t = Meta
      <3>1. row[t].mirror = NoTag
        BY <2>1 DEF Init, NoRow
      <3>2. steve[t].parent = NoTag
        BY <2>1 DEF Init
      <3> QED  BY <3>1, <3>2
    <2>2. CASE t # Meta /\ Links
      <3>1. row[t] = NoRow
        BY <2>2 DEF Init
      <3> QED  BY <1>4, <3>1 DEF His, NoRow
    <2>3. CASE t # Meta /\ ~Links
      <3>1. row[t].mirror = Meta /\ steve[t].parent = Meta
        BY <2>3 DEF Init
      <3> QED  BY <3>1
    <2> QED  BY <2>1, <2>2, <2>3
  <1> QED  BY <1>2, <1>3, <1>4 DEF MirrorInv, Kept

\* With nobody at work, StEvE has for each of the customer's tags the parent its
\* row mirrors, but for those that a failed PUT, an older copy of the row or an
\* older copy in a sync pass may have decided: for any cards and calls.
THEOREM HierarchyIsKept == Spec => []ParentsKept
  <1>1. Init => TypeOK /\ MirrorInv
    BY InitType, InitKept
  <1>2. TypeOK /\ MirrorInv /\ [Next]_vars => TypeOK' /\ MirrorInv'
    BY NextType, NextKept
  <1>3. TypeOK /\ MirrorInv => ParentsKept
    <2> SUFFICES ASSUME MirrorInv, Quiet, NEW t \in Tag \ blurred, His(t)
                 PROVE  steve[t].parent = row[t].mirror
      BY DEF ParentsKept, His
    <2>1. \A c \in Call : ~Owes(web[c], t)
      BY DEF Quiet, Spent, Owes, Linking
    <2> QED  BY <2>1 DEF MirrorInv, Kept
  <1> QED  BY <1>1, <1>2, <1>3, PTL DEF Spec
=============================================================================
