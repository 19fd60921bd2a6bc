--------------------------- MODULE TagActivation ---------------------------
(***************************************************************************)
(* Which tags may charge: user_mappings in Postgres, the limit and the     *)
(* parent of every tag in StEvE, and all that writes them: link.ts,        *)
(* report-lost.ts, the subscription webhooks, customer-meta-tags.ts, and   *)
(* syncTagStatus of the worker, which sets each tag to what the mappings   *)
(* say, a tag without a mapping inheriting the nearest ancestor's.         *)
(*                                                                         *)
(* A web call changes rows first and then pushes each changed row to StEvE *)
(* with a PUT that replaces the whole tag; nothing orders the PUTs of two  *)
(* calls.  The worker's pass reads the active mappings, then the tags, and *)
(* writes whole tags from that snapshot while calls go on.                 *)
(*                                                                         *)
(* One customer with one subscription: his cards, and his META- tag, which *)
(* exists from the provisioning of his account.                            *)
(***************************************************************************)
EXTENDS Integers, FiniteSets, Relation

CONSTANTS
    Cards,       \* the physical tags
    Meta,        \* the customer's META- tag
    NoTag,       \* parentIdTag = null
    Call,        \* bound: the web calls and Lago events of one behaviour
    Links,       \* may cards be linked and described? (else they start linked)
    Faults,      \* the fault classes of this run
    MaxFaults    \* bound: faults in one behaviour

Tag == Cards \cup {Meta}
Parent == Tag \cup {NoTag}

ASSUME TagAssumption ==
    /\ IsFiniteSet(Cards) /\ Meta \notin Cards /\ NoTag \notin Tag
    /\ Links \in BOOLEAN /\ MaxFaults \in Nat

VARIABLES
    row,         \* Postgres: user_mappings, by tag
    steve,       \* StEvE: ocpp_tag, by tag
    subscribed,  \* Lago: is the subscription active?
    web,         \* the web calls, each used once
    pass,        \* worker: the running syncTagStatus
    lost,        \* history: cards reported lost in peace, not reactivated since
    blurred,     \* history: tags whose parent an old copy or a fault may decide
    faults

vars == << row, steve, subscribed, web, pass, lost, blurred, faults >>

Limits == {-1, 0, 1}
StEvETag == [limit : Limits, parent : Parent]
Put == [tag : Tag, limit : Limits, parent : Parent]
Rows == [here : BOOLEAN, active : BOOLEAN, customer : BOOLEAN,
         sub : BOOLEAN, mirror : Parent]
NoRow == [here |-> FALSE, active |-> FALSE, customer |-> FALSE,
          sub |-> FALSE, mirror |-> NoTag]

\* A call: the card it is about, what it read of the hierarchy, the result of
\* its subscription lookup, and the PUTs it has still to make.
Calls == [at : {"unused", "insert", "ask", "meta", "metaRow", "mirror",
                "cascade", "unlink", "lost", "event", "done"},
          tag : Parent, kids : SUBSET Tag, from : Parent, on : BOOLEAN,
          puts : SUBSET Put]
NewCall == [at |-> "unused", tag |-> NoTag, kids |-> {}, from |-> NoTag,
            on |-> FALSE, puts |-> {}]

Passes == [at : {"idle", "tags", "write"}, mapped : SUBSET Tag,
           snap : [Tag -> StEvETag], todo : SUBSET Tag, calm : BOOLEAN]

NoPass == [at |-> "idle", mapped |-> {}, todo |-> {}, calm |-> TRUE,
           snap |-> [t \in Tag |-> [limit |-> 0, parent |-> NoTag]]]

----------------------------------------------------------------------------
(* The hierarchy and the inheritance of mappings.                          *)

Parents(tags) == [t \in Tag |-> tags[t].parent]

\* getAllAncestorTags: the parents from t upwards; a cycle ends the walk, and t
\* is not its own ancestor.
Ancestors(t, up) ==
    LET climb[n \in Nat] ==
            IF n = 0 THEN t
            ELSE IF climb[n - 1] = NoTag THEN NoTag ELSE up[climb[n - 1]]
    IN  { climb[n] : n \in 1 .. Cardinality(Tag) } \ {t, NoTag}

\* getAllChildTags
Descendants(t, up) == { u \in Tag \ {t} : t \in Ancestors(u, up) }

\* buildMappingLookupWithInheritance: the tags that resolve to a mapping.
ResolvedDirect(mapped, up) == mapped
Resolved(mapped, up) ==
    { t \in Tag : t \in mapped \/ Ancestors(t, up) \cap mapped # {} }

\* Active mappings of a customer, as getActiveMappings and the lookup keep them.
Mapped == { t \in Tag : row[t].here /\ row[t].active /\ row[t].customer }

LimitFlag(on) == IF on THEN 2 ELSE 0
Limit(on) == IF on THEN -1 ELSE 0

\* The PUT of syncSingleTagToSteve for a row as its caller holds it.
PutWithoutParent(t, r) == [tag |-> t, limit |-> Limit(r.active), parent |-> NoTag]
PutOf(t, r) == [tag |-> t, limit |-> Limit(r.active), parent |-> r.mirror]

----------------------------------------------------------------------------
Init ==
    /\ subscribed \in BOOLEAN
    /\ \E up \in [Cards -> Cards \cup {NoTag}] :
          /\ \A c \in Cards : up[c] # c
          /\ row = [t \in Tag |->
                IF t = Meta
                THEN [NoRow EXCEPT !.here = TRUE, !.customer = TRUE,
                                   !.active = subscribed, !.sub = subscribed]
                ELSE IF Links THEN NoRow
                ELSE [here |-> TRUE, active |-> TRUE, customer |-> TRUE,
                      sub |-> TRUE, mirror |-> Meta]]
          /\ steve = [t \in Tag |->
                IF t = Meta
                THEN [limit |-> IF subscribed THEN 1 ELSE 0, parent |-> NoTag]
                ELSE IF Links THEN [limit |-> 0, parent |-> up[t]]
                ELSE [limit |-> -1, parent |-> Meta]]
    /\ web = [c \in Call |-> NewCall]
    /\ pass = NoPass
    /\ lost = {} /\ blurred = {} /\ faults = 0

\* Every change from outside the pass is seen by the history of the pass.
Watch == pass' = IF pass.at = "idle" THEN pass
                 ELSE [pass EXCEPT !.calm = @ /\ row' = row /\ steve' = steve]

Fault(kind) == kind \in Faults /\ faults < MaxFaults /\ faults' = faults + 1

\* Another call holds an old copy of t's row: in a PUT, or read and not yet used.
HeldElsewhere(t, c) ==
    \E d \in Call \ {c} : \/ \E p \in web[d].puts : p.tag = t
                          \/ web[d].at = "lost" /\ web[d].tag = t

Spent(c) == web[c].at \in {"unused", "event", "done"} /\ web[c].puts = {}
Done(c, puts) ==
    web' = [web EXCEPT ![c] = [NewCall EXCEPT !.at = "done", !.puts = puts]]
Quiet == pass.at = "idle" /\ \A c \in Call : Spent(c)

----------------------------------------------------------------------------
(* POST link: read the tags, insert the rows, materialize the META- tag,   *)
(* point the linked row's mirror at it, push.                              *)

LinkRead(c, t) ==
    /\ Links /\ web[c].at = "unused" /\ t \in Cards
    /\ \E sub \in BOOLEAN :
          web' = [web EXCEPT ![c] =
                    [@ EXCEPT !.at = "insert", !.tag = t, !.on = sub,
                              !.kids = Descendants(t, Parents(steve)),
                              !.from = steve[t].parent]]
    /\ UNCHANGED << row, steve, subscribed, pass, lost, blurred, faults >>

\* A tag has at most one row: a second insert aborts the whole transaction.
LinkInsert(c) ==
    LET w == web[c]
        new(t) == [here |-> TRUE, active |-> TRUE, customer |-> TRUE, sub |-> w.on,
                   mirror |-> IF t = w.tag THEN w.from ELSE w.tag]
        kids == w.kids \ {w.tag}
    IN /\ w.at = "insert"
       /\ IF \E t \in {w.tag} \cup kids : row[t].here
          THEN /\ Done(c, {})
               /\ UNCHANGED << row, lost, blurred >>
          ELSE /\ row' = [t \in Tag |-> IF t \in {w.tag} \cup kids THEN new(t)
                                        ELSE row[t]]
               /\ web' = [web EXCEPT ![c].at = "ask",
                                     ![c].puts = { PutOf(t, new(t)) : t \in kids }]
               /\ lost' = lost \ ({w.tag} \cup kids)
               /\ blurred' = blurred
                    \cup { t \in kids \cup {w.tag} : HeldElsewhere(t, c) }
       /\ UNCHANGED << steve, subscribed, faults >>
       /\ Watch

\* ensureCustomerMetaTag: the first active subscription, none if Lago fails ...
EnsureAsk(c) ==
    /\ web[c].at = "ask"
    /\ \E on \in BOOLEAN :
          /\ web' = [web EXCEPT ![c] = [@ EXCEPT !.on = on, !.at = "meta"]]
          /\ \/ on = subscribed /\ UNCHANGED faults
             \/ on = FALSE /\ Fault("lago")
    /\ UNCHANGED << row, steve, subscribed, pass, lost, blurred >>

\* ... its limit in StEvE, a failed PUT only logged ...
EnsureTag(c) ==
    /\ web[c].at = "meta"
    /\ \/ /\ steve' = [steve EXCEPT ![Meta].limit = IF web[c].on THEN 1 ELSE 0]
          /\ UNCHANGED faults
       \/ UNCHANGED steve /\ Fault("steve")
    /\ web' = [web EXCEPT ![c].at = "metaRow"]
    /\ UNCHANGED << row, subscribed, lost, blurred >>
    /\ Watch

\* ... and its row, a failed update only logged.
EnsureRow(c) ==
    /\ web[c].at = "metaRow"
    /\ \/ /\ row' = [row EXCEPT ![Meta].active = web[c].on, ![Meta].sub = web[c].on]
          /\ UNCHANGED faults
       \/ UNCHANGED row /\ Fault("db")
    /\ IF web[c].tag = NoTag THEN Done(c, web[c].puts)
                              ELSE web' = [web EXCEPT ![c].at = "mirror"]
    /\ UNCHANGED << steve, subscribed, lost, blurred >>
    /\ Watch

LinkMirror(c) ==
    LET t == web[c].tag IN
    /\ web[c].at = "mirror"
    /\ row' = [row EXCEPT ![t].mirror = Meta]
    /\ Done(c, web[c].puts \cup {PutOf(t, row'[t])})
    /\ blurred' = IF HeldElsewhere(t, c) THEN blurred \cup {t} ELSE blurred
    /\ UNCHANGED << steve, subscribed, lost, faults >>
    /\ Watch

----------------------------------------------------------------------------
(* The other calls of the web: metadata.ts, PUT and DELETE link, and       *)
(* report-lost.ts.                                                         *)

SetRows(tags, on) ==
    row' = [t \in Tag |-> IF t \in tags /\ row[t].here
                          THEN [row[t] EXCEPT !.active = on] ELSE row[t]]
PutsOf(tags) == { PutOf(t, row'[t]) : t \in { u \in tags : row[u].here } }
Reactivated(tags, on) == lost' = IF on THEN lost \ tags ELSE lost

\* A row that only names and describes a tag: no customer, and no mirror.
Describe(c, t, on) ==
    /\ Links /\ web[c].at = "unused" /\ ~row[t].here
    /\ row' = [row EXCEPT ![t] = [NoRow EXCEPT !.here = TRUE, !.active = on]]
    /\ Done(c, {})
    /\ UNCHANGED << steve, subscribed, lost, blurred, faults >>
    /\ Watch

\* PUT link: the row and, with the tags StEvE has now, its descendants' rows in
\* one transaction.
SetActive(c, t, on) ==
    LET tags == {t} \cup Descendants(t, Parents(steve)) IN
    /\ web[c].at = "unused" /\ row[t].here
    /\ SetRows(tags, on)
    /\ Done(c, PutsOf(tags))
    /\ Reactivated(tags, on)
    /\ UNCHANGED << steve, subscribed, blurred, faults >>
    /\ Watch

\* metadata.ts: the same in two statements ...
Flip(c, t, on) ==
    /\ web[c].at = "unused" /\ row[t].here
    /\ SetRows({t}, on)
    /\ web' = [web EXCEPT ![c] = [@ EXCEPT !.at = "cascade", !.tag = t, !.on = on,
                                           !.puts = PutsOf({t})]]
    /\ Reactivated({t}, on)
    /\ UNCHANGED << steve, subscribed, blurred, faults >>
    /\ Watch

\* ... and without the second if StEvE or Postgres fails.
Cascade(c) ==
    LET w == web[c]
        tags == Descendants(w.tag, Parents(steve)) IN
    /\ w.at = "cascade"
    /\ \/ /\ SetRows(tags, w.on)
          /\ Done(c, web[c].puts \cup PutsOf(tags))
          /\ Reactivated(tags, w.on)
          /\ UNCHANGED faults
       \/ /\ Done(c, web[c].puts)
          /\ Fault("steve")
          /\ UNCHANGED << row, lost >>
    /\ UNCHANGED << steve, subscribed, blurred >>
    /\ Watch

\* DELETE link: the descendants first, none if StEvE fails ...
UnlinkRead(c, t) ==
    /\ web[c].at = "unused" /\ row[t].here
    /\ \E kids \in SUBSET Tag :
          /\ \/ kids = Descendants(t, Parents(steve)) /\ UNCHANGED faults
             \/ kids = {} /\ Fault("steve")
          /\ web' = [web EXCEPT ![c] = [@ EXCEPT !.at = "unlink", !.tag = t,
                                                 !.kids = kids]]
    /\ UNCHANGED << row, steve, subscribed, pass, lost, blurred >>

\* ... then the rows.
UnlinkWrite(c) ==
    LET tags == {web[c].tag} \cup web[c].kids IN
    /\ web[c].at = "unlink"
    /\ SetRows(tags, FALSE)
    /\ Done(c, PutsOf(tags))
    /\ UNCHANGED << steve, subscribed, lost, blurred, faults >>
    /\ Watch

\* report-lost.ts of an active card: the push is of the row as it was read, so
\* the call keeps the mirror it saw.
LostRead(c, t) ==
    /\ web[c].at = "unused" /\ t \in Cards
    /\ row[t].here /\ row[t].active /\ row[t].customer
    /\ web' = [web EXCEPT ![c] = [@ EXCEPT !.at = "lost", !.tag = t,
                                           !.from = row[t].mirror]]
    /\ UNCHANGED << row, steve, subscribed, pass, lost, blurred, faults >>

LostWrite(c) ==
    LET t == web[c].tag
        read == [row[t] EXCEPT !.active = FALSE, !.mirror = web[c].from] IN
    /\ web[c].at = "lost"
    /\ row' = [row EXCEPT ![t].active = FALSE]
    /\ Done(c, {PutOf(t, read)})
    /\ lost' = IF pass.at = "idle" /\ \A d \in Call \ {c} : Spent(d)
               THEN lost \cup {t} ELSE lost
    /\ UNCHANGED << steve, subscribed, blurred, faults >>
    /\ Watch

----------------------------------------------------------------------------
(* Subscription events.  Lago delivers them in any order.                  *)

LagoChange(c) ==
    /\ web[c].at = "unused"
    /\ subscribed' = ~subscribed
    /\ web' = [web EXCEPT ![c].at = "event", ![c].on = subscribed']
    /\ UNCHANGED << row, steve, pass, lost, blurred, faults >>

\* handleSubscriptionStateChange: flip the rows of this subscription in one
\* statement; push each and refresh the META- tag, all without waiting.
Event(c) ==
    LET on == web[c].on
        tags == { t \in Tag : row[t].here /\ row[t].sub /\ row[t].active # on }
    IN /\ web[c].at = "event"
       /\ SetRows(tags, on)
       /\ IF tags = {} THEN Done(c, {})
          ELSE web' = [web EXCEPT ![c].at = "ask", ![c].puts = PutsOf(tags)]
       /\ Reactivated(tags, on)
       /\ UNCHANGED << steve, subscribed, blurred, faults >>
       /\ Watch

\* An event whose handler dies before it has run stays lost: the endpoint has
\* answered 200.  The other calls end where they are.
RestartWeb ==
    \E gone \in SUBSET { c \in Call : web[c].at = "event" } :
    LET hit == gone \cup { c \in Call : ~Spent(c) }
    IN /\ hit # {} /\ Fault("restart")
       /\ web' = [c \in Call |-> IF c \in hit THEN [NewCall EXCEPT !.at = "done"]
                                 ELSE web[c]]
       /\ blurred' = blurred \cup { t \in Tag :
               \E c \in hit : t \in {web[c].tag} \cup web[c].kids
                                  \cup { p.tag : p \in web[c].puts } }
       /\ UNCHANGED << row, steve, subscribed, pass, lost >>

\* A statement of a call throws: the request ends with a 500 and pushes nothing.
CallThrows(c) ==
    /\ web[c].at \in {"insert", "mirror", "unlink", "lost"} /\ Fault("db")
    /\ Done(c, {})
    /\ blurred' = IF web[c].at = "mirror"
                  THEN blurred \cup {web[c].tag} \cup web[c].kids ELSE blurred
    /\ UNCHANGED << row, steve, subscribed, pass, lost >>

\* One PUT of syncSingleTagToSteve arrives, or fails and is not tried again.  A
\* webhook's pushes do not wait for its META- refresh; a link's wait for all.
Push(c, p) ==
    /\ p \in web[c].puts /\ (web[c].at = "done" \/ web[c].tag = NoTag)
    /\ web' = [web EXCEPT ![c].puts = @ \ {p}]
    /\ \/ /\ steve' = [steve EXCEPT ![p.tag] = [limit |-> p.limit, parent |-> p.parent]]
          /\ UNCHANGED << blurred, faults >>
       \/ /\ Fault("steve")
          /\ blurred' = blurred \cup {p.tag}
          /\ UNCHANGED steve
    /\ UNCHANGED << row, subscribed, lost >>
    /\ Watch

----------------------------------------------------------------------------
(* syncTagStatus, within a sync run of the worker.                         *)

PassBeginInactiveToo ==
    /\ pass.at = "idle"
    /\ pass' = [pass EXCEPT !.at = "tags", !.calm = TRUE,
                            !.mapped = { t \in Tag : row[t].here /\ row[t].customer }]
    /\ UNCHANGED << row, steve, subscribed, web, lost, blurred, faults >>
PassBegin ==
    /\ pass.at = "idle"
    /\ pass' = [pass EXCEPT !.at = "tags", !.mapped = Mapped, !.calm = TRUE]
    /\ UNCHANGED << row, steve, subscribed, web, lost, blurred, faults >>

PassReadTags ==
    /\ pass.at = "tags"
    /\ pass' = [pass EXCEPT !.at = "write", !.snap = steve, !.todo = Tag]
    /\ UNCHANGED << row, steve, subscribed, web, lost, blurred, faults >>

Desired(t) == Limit(t \in Resolved(pass.mapped, Parents(pass.snap)))

\* A tag whose limit and note are right is left alone; any other is replaced by
\* the snapshot's copy with the new limit.  A failed PUT is only counted.
PassWrite(t) ==
    /\ pass.at = "write" /\ t \in pass.todo
    /\ \/ /\ pass.snap[t].limit = Desired(t)
          /\ pass' = [pass EXCEPT !.todo = @ \ {t}]
          /\ UNCHANGED << steve, blurred, faults >>
       \/ /\ steve' = [steve EXCEPT ![t] = [pass.snap[t] EXCEPT !.limit = Desired(t)]]
          /\ pass' = [pass EXCEPT !.todo = @ \ {t}]
          /\ blurred' = IF steve[t].parent # pass.snap[t].parent
                        THEN blurred \cup {t} ELSE blurred
          /\ UNCHANGED faults
       \/ /\ Fault("steve")
          /\ pass' = [pass EXCEPT !.todo = @ \ {t}, !.calm = FALSE]
          /\ UNCHANGED << steve, blurred >>
    /\ UNCHANGED << row, subscribed, web, lost >>

PassEnd ==
    /\ pass.at = "write" /\ pass.todo = {}
    /\ pass' = NoPass
    /\ UNCHANGED << row, steve, subscribed, web, lost, blurred, faults >>

\* The run throws, or the worker stops.
PassAborts ==
    /\ pass.at # "idle" /\ Fault("worker")
    /\ pass' = NoPass
    /\ UNCHANGED << row, steve, subscribed, web, lost, blurred >>

----------------------------------------------------------------------------
CallStep(c) ==
    \/ LinkInsert(c) \/ EnsureAsk(c) \/ EnsureTag(c) \/ EnsureRow(c) \/ LinkMirror(c)
    \/ Cascade(c) \/ UnlinkWrite(c) \/ LostWrite(c) \/ Event(c)
    \/ \E p \in web[c].puts : Push(c, p)

PassStep == PassBegin \/ PassReadTags \/ (\E t \in Tag : PassWrite(t)) \/ PassEnd

NewRequest(c) ==
    \/ LagoChange(c)
    \/ \E t \in Tag : \/ LinkRead(c, t) \/ UnlinkRead(c, t) \/ LostRead(c, t)
                      \/ \E on \in BOOLEAN : \/ Describe(c, t, on)
                                             \/ SetActive(c, t, on) \/ Flip(c, t, on)

Next ==
    \/ \E c \in Call : NewRequest(c) \/ CallStep(c) \/ CallThrows(c)
    \/ PassStep \/ PassAborts \/ RestartWeb

Spec == Init /\ [][Next]_vars

\* A handler that has started, and an event of Lago's, go on; sync runs come
\* again and again (at the latest every seventh day).
FairSpec == Spec /\ (\A c \in Call : WF_vars(CallStep(c))) /\ WF_vars(PassStep)

----------------------------------------------------------------------------
(* Properties.                                                             *)

\* Type of every variable; a call that works on a tag has one.
TypeOK ==
    /\ row \in [Tag -> Rows] /\ steve \in [Tag -> StEvETag]
    /\ subscribed \in BOOLEAN
    /\ web \in [Call -> Calls] /\ pass \in Passes
    /\ \A c \in Call : web[c].at \in {"insert", "mirror", "cascade", "unlink", "lost"}
                        => web[c].tag \in Tag
    /\ lost \subseteq Tag /\ blurred \subseteq Tag /\ faults \in 0 .. MaxFaults

\* A sync pass (syncTagStatus) during which no call wrote a row or a tag, and
\* none of its own PUTs failed, leaves exactly the tags that resolve to an
\* active mapping open, by the rows and the hierarchy as they are at its end,
\* though it decides from what it read at its start.
CleanPassSettles ==
    [][PassEnd /\ pass.calm =>
         \A t \in Tag : steve[t].limit # 0 <=> t \in Resolved(Mapped, Parents(steve))]_vars

\* The full PUTs keep the hierarchy: with nobody at work, the parent StEvE has
\* for a customer's tag is the one its mapping mirrors (schema.ts: "matches
\* SteVe's parent_id_tag"), but for the tags whose PUT failed, whose mirror was
\* written while another call held an older copy of the row, or whose parent
\* a sync pass put back from an older copy of the tag.
ParentsKept ==
    Quiet => \A t \in Tag \ blurred :
                row[t].here /\ row[t].customer => steve[t].parent = row[t].mirror

\* The tags with an active mapping, and all below them.
Covered ==
    LET above == TransitiveClosure([t, u \in Tag |-> steve[t].parent = u], Tag)
    IN  Mapped \cup { t \in Tag : \E u \in Mapped : above[t, u] }

\* Once calls and faults end, StEvE comes to admit exactly the covered tags,
\* whatever pushes were lost or came in the wrong order ("the background sync
\* will reconcile", link.ts; "the next sync sweep is the safety net",
\* report-lost.ts).
TagsSettle == <>[](\A t \in Tag : steve[t].limit # 0 <=> t \in Covered)

\* A card reported lost "can no longer authorize a charging session"
\* (report-lost.ts): with no fault, no other call at the time and nobody at
\* work, it is blocked until somebody reactivates it.
LostCardsStayBlocked ==
    Quiet /\ faults = 0 => \A t \in lost : steve[t].limit = 0
=============================================================================
