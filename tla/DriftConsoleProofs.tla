--------------------------- MODULE DriftConsoleProofs ---------------------------
(***************************************************************************)
(* The drift screens for any number of operators, findings and mutations:  *)
(* the type invariant, that each finding is healed once, and that what was *)
(* accepted stays accepted.                                                *)
(***************************************************************************)
EXTENDS DriftConsole, FiniteSetTheorems, TLAPS

-----------------------------------------------------------------------------
(* Part 1: types *)

LEMMA FilterType ==
    ASSUME NEW raw \in FilterInputs
    PROVE  driftFilterFromSearch(raw) \in DriftListFilter
BY DriftAssumption DEF driftFilterFromSearch, DriftListFilter, RawSeverities

LEMMA BaseFilterType ==
    ASSUME NEW o \in Operators
    PROVE  BaseFilter(o) \in DriftListFilter
BY DriftAssumption DEF BaseFilter, DriftListFilter

LEMMA ListType ==
    ASSUME NEW filter
    PROVE  listDrift(filter) \subseteq Findings
BY DEF listDrift, openFindings

LEMMA PageType ==
    ASSUME status \in [Findings -> DriftStatus], NEW filter \in DriftListFilter, NEW f \in Findings \cup {None}
    PROVE  DriftPage(filter, f) \in View
<1> DEFINE copy == IF f = None THEN "gone" ELSE status[f]
           latest == [s \in Surfaces |-> [k \in Kinds |-> 0]]
<1>1. copy \in DriftStatus
  BY DEF DriftStatus
<1>2. latest \in [Surfaces -> [Kinds -> 0..MaxCalls]]
  BY DriftAssumption
<1>3. NoNotice \in [kind : {"none", "healed", "nothing", "acked", "resync", "failed"}, call : 0..MaxCalls]
  BY DriftAssumption DEF NoNotice
<1> HIDE DEF copy, latest
<1>4. DriftPage(filter, f) =
        [filter |-> filter, items |-> listDrift(filter), listError |-> FALSE, selected |-> {}, drawer |-> f,
         copy |-> copy, notice |-> NoNotice, latest |-> latest]
  BY DEF DriftPage, copy, latest
<1> QED
  BY <1>1, <1>2, <1>3, <1>4, ListType DEF View

LEMMA NavigateType ==
    ASSUME TypeOK, NEW o \in Operators, NEW filter \in DriftListFilter, NEW f \in Findings \cup {None}
    PROVE  Navigate(o, filter, f) \in View
<1> DEFINE copy == IF f = None THEN "gone" ELSE status[f]
<1>1. copy \in DriftStatus
  BY DEF TypeOK, DriftStatus
<1>2. view[o] \in View
  BY DEF TypeOK
<1> HIDE DEF copy
<1>3. [view[o] EXCEPT !.filter = filter, !.items = listDrift(filter), !.drawer = f,
                      !.listError = FALSE, !.copy = copy] \in View
  BY <1>1, <1>2, ListType DEF View
<1> QED
  BY <1>3, PageType DEF Navigate, copy, TypeOK

(* Nothing but the view of one operator moves. *)
LEMMA ViewMoves ==
    ASSUME TypeOK, NEW o \in Operators, NEW v \in View, view' = [view EXCEPT ![o] = v],
           UNCHANGED <<server, call, fetch>>, clicks' \in 0..MaxClicks
    PROVE  TypeOK'
BY DEF TypeOK, server

(* A call moves, and with it perhaps a view. *)
LEMMA CallMoves ==
    ASSUME TypeOK, NEW c \in Calls, NEW r \in Call, call' = [call EXCEPT ![c] = r],
           view' \in [Operators -> View], fetch' \in [Operators -> Fetch],
           UNCHANGED <<server, clicks>>
    PROVE  TypeOK'
BY DEF TypeOK, server

LEMMA NoticeType ==
    ASSUME TypeOK, NEW o \in Operators, NEW c \in Calls,
           NEW k \in {"none", "healed", "nothing", "acked", "resync", "failed"}
    PROVE  [view EXCEPT ![o].notice = [kind |-> k, call |-> c]] \in [Operators -> View]
<1>1. view[o] \in View /\ c \in 0..MaxCalls
  BY DriftAssumption DEF TypeOK, Calls
<1>2. [view[o] EXCEPT !.notice = [kind |-> k, call |-> c]] \in View
  BY <1>1 DEF View
<1> QED
  BY <1>2 DEF TypeOK

LEMMA FailType ==
    ASSUME TypeOK, NEW c \in Calls
    PROVE  fail(c) \in [Operators -> View]
<1>1. CASE call[c].by \in Operators
  BY <1>1, NoticeType DEF fail, TypeOK
<1>2. CASE call[c].by \notin Operators
  <2>1. fail(c) = view \/ fail(c) = [view EXCEPT ![call[c].by].notice = [kind |-> "failed", call |-> c]]
    BY DEF fail
  <2> QED
    BY <1>2, <2>1 DEF TypeOK
<1> QED
  BY <1>1, <1>2

LEMMA DoneType ==
    ASSUME NEW r \in Call
    PROVE  Done(r) \in Call /\ Done(r).kind = r.kind /\ Done(r).did = r.did
BY DEF Call, Done

LEMMA DoneKeeps ==
    ASSUME NEW r \in Call
    PROVE  /\ Done(r).did = r.did /\ Done(r).ids = r.ids /\ Done(r).by = r.by /\ Done(r).phase = "settled"
BY DEF Call, Done

LEMMA SettledType ==
    ASSUME TypeOK, NEW o \in Operators, NEW c \in Calls
    PROVE  Settled(o, c) \in View
<1> DEFINE N == [kind : {"none", "healed", "nothing", "acked", "resync", "failed"}, call : 0..MaxCalls]
           notice(k) == IF view[o].notice.kind = "failed" THEN view[o].notice ELSE [kind |-> k, call |-> c]
           told(k) == [view[o] EXCEPT !.selected = {}, !.notice = notice(k)]
           closed(v) == IF ScopeOf[o] = None THEN DriftPage(v.filter, None)
                        ELSE [v EXCEPT !.drawer = None, !.copy = "gone",
                                       !.items = listDrift(v.filter), !.listError = FALSE]
<1>1. view[o] \in View /\ view[o].notice \in N /\ c \in 0..MaxCalls /\ call[c].kind \in Kinds /\ call[c].surface \in Surfaces
  BY DriftAssumption DEF TypeOK, View, Call, Calls
<1>2. ASSUME NEW k \in {"healed", "nothing", "acked", "resync"} PROVE notice(k) \in N
  BY <1>1, <1>2
<1>3. ASSUME NEW n \in N PROVE [view[o] EXCEPT !.notice = n] \in View /\ [view[o] EXCEPT !.selected = {}, !.notice = n] \in View
  BY <1>1, <1>3 DEF View
<1>4. ASSUME NEW k \in {"healed", "nothing", "acked", "resync"} PROVE told(k) \in View
  BY <1>2, <1>3
<1>5. ASSUME NEW v \in View PROVE closed(v) \in View
  <2>1. v.filter \in DriftListFilter
    BY DEF View
  <2>2. [v EXCEPT !.drawer = None, !.copy = "gone", !.items = listDrift(v.filter), !.listError = FALSE] \in View
    BY ListType DEF View, DriftStatus
  <2> QED
    BY <2>1, <2>2, PageType DEF TypeOK
<1>6. Settled(o, c) = CASE call[c].kind = "resync" -> [view[o] EXCEPT !.notice = notice("resync")]
          [] call[c].kind = "heal" /\ call[c].surface = "table" ->
                told(IF call[c].runs = {} THEN "nothing" ELSE "healed")
          [] call[c].kind = "ack" /\ call[c].surface = "table" -> told("acked")
          [] call[c].kind = "heal" /\ call[c].surface = "drawer" -> closed(told("healed"))
          [] call[c].kind = "ack" /\ call[c].surface = "drawer" -> closed(view[o])
  BY DEF Settled
<1>7. [view[o] EXCEPT !.notice = notice("resync")] \in View
  BY <1>2, <1>3
<1>8. told(IF call[c].runs = {} THEN "nothing" ELSE "healed") \in View /\ told("acked") \in View
      /\ closed(told("healed")) \in View /\ closed(view[o]) \in View
  BY <1>1, <1>4, <1>5
<1> HIDE DEF told, closed, notice
<1> QED
  BY <1>1, <1>6, <1>7, <1>8 DEF Kinds, Surfaces

(* The server's three operations. *)
LEMMA ExecuteType ==
    ASSUME TypeOK, UNCHANGED clicks, NEW c \in Calls,
           healFindings(c) \/ resyncAll(c) \/ \E f \in Findings : acknowledgeFinding(c, f)
    PROVE  TypeOK'
<1>1. call[c] \in Call /\ status \in [Findings -> DriftStatus] /\ healedToday \in Nat /\ lastResync \in Nat
  BY DEF TypeOK
<1>2. CASE healFindings(c)
  <2>1. Healable(c) \subseteq Findings
    BY <1>1 DEF Healable, Call
  <2>2. Cardinality(Healable(c)) \in Nat
    BY <2>1, DriftAssumption, FS_Subset, FS_CardinalityType
  <2>3. {TenantOf[f] : f \in Healable(c)} \subseteq Tenants
    BY <2>1, DriftAssumption
  <2>4. [call[c] EXCEPT !.phase = "answered", !.ok = TRUE, !.left = {}, !.did = Healable(c),
                        !.runs = {TenantOf[f] : f \in Healable(c)}] \in Call
    BY <1>1, <2>1, <2>3 DEF Call
  <2>5. call' \in [Calls -> Call]
    BY <1>2, <2>4 DEF healFindings, TypeOK
  <2>6. status' \in [Findings -> DriftStatus]
    BY <1>1, <1>2 DEF healFindings, DriftStatus
  <2>7. healedToday' \in Nat
    BY <1>1, <1>2, <2>2 DEF healFindings
  <2> QED
    BY <1>2, <2>5, <2>6, <2>7 DEF healFindings, TypeOK
<1>3. CASE resyncAll(c)
  <2>1. [call[c] EXCEPT !.phase = "answered", !.ok = TRUE] \in Call
    BY <1>1 DEF Call
  <2>2. call' \in [Calls -> Call]
    BY <1>3, <2>1 DEF resyncAll, TypeOK
  <2> QED
    BY <1>3, <2>2 DEF resyncAll, TypeOK
<1>4. ASSUME NEW f \in Findings, acknowledgeFinding(c, f) PROVE TypeOK'
  <2>1. CASE status[f] = "gone"
    <3>1. NotFound(call[c], f) \in Call
      BY <1>1 DEF Call, NotFound
    <3>2. call' \in [Calls -> Call] /\ UNCHANGED <<status, healedToday, lastResync, view, fetch>>
      BY <1>4, <2>1, <3>1 DEF acknowledgeFinding, TypeOK
    <3> QED
      BY <3>2 DEF TypeOK
  <2>2. CASE status[f] # "gone"
    <3>1. [call[c] EXCEPT !.phase = "answered", !.ok = TRUE, !.left = @ \ {f}, !.did = @ \cup {f}] \in Call
      BY <1>1 DEF Call
    <3>2. call' \in [Calls -> Call] /\ UNCHANGED <<healedToday, lastResync, view, fetch>>
      BY <1>4, <2>2, <3>1 DEF acknowledgeFinding, TypeOK
    <3>3. status' \in [Findings -> DriftStatus]
      BY <1>1, <1>4, <2>2 DEF acknowledgeFinding, DriftStatus
    <3> QED
      BY <3>2, <3>3 DEF TypeOK
  <2> QED
    BY <2>1, <2>2
<1> QED
  BY <1>2, <1>3, <1>4

(* Answers and refetches reaching a tab. *)
LEMMA TabType ==
    ASSUME TypeOK, UNCHANGED clicks, NEW c \in Calls, ReceiveAnswer(c) \/ LoseCall(c) \/ onSuccess(c)
    PROVE  TypeOK'
<1>1. call[c] \in Call /\ Done(call[c]) \in Call /\ view \in [Operators -> View] /\ fetch \in [Operators -> Fetch]
  BY DoneType DEF TypeOK
<1>2. UNCHANGED server
  BY DEF ReceiveAnswer, LoseCall, onSuccess
<1>3. ASSUME NEW ph \in {"sent", "refetching"} PROVE [call[c] EXCEPT !.phase = ph] \in Call
  BY <1>1, <1>3 DEF Call
<1>4. \E r \in Call : call' = [call EXCEPT ![c] = r]
  <2>1. \/ call' = [call EXCEPT ![c].phase = "sent"] \/ call' = [call EXCEPT ![c].phase = "refetching"]
        \/ call' = [call EXCEPT ![c] = Done(@)]
    BY DEF ReceiveAnswer, LoseCall, onSuccess
  <2> QED
    BY <1>1, <1>3, <2>1
<1>5. fetch' \in [Operators -> Fetch]
  <2>1. \/ UNCHANGED fetch \/ fetch' = invalidateQueries(call[c].by)
    BY DEF ReceiveAnswer, LoseCall, onSuccess
  <2>2. CASE call[c].by \in Operators
    <3>1. Requested(call[c].by) \in Fetch
      BY <1>1, <2>2 DEF Requested, Fetch, View
    <3> QED
      BY <1>1, <2>1, <3>1 DEF invalidateQueries
  <2>3. CASE call[c].by \notin Operators
    BY <1>1, <2>1, <2>3 DEF invalidateQueries
  <2> QED
    BY <2>2, <2>3
<1>6. view' \in [Operators -> View]
  <2>1. CASE ReceiveAnswer(c) \/ LoseCall(c)
    <3>1. UNCHANGED view \/ view' = fail(c)
      BY <2>1 DEF ReceiveAnswer, LoseCall
    <3> QED
      BY <1>1, <3>1, FailType
  <2>2. CASE onSuccess(c)
    <3>1. UNCHANGED view \/ view' = [view EXCEPT ![call[c].by] = Settled(call[c].by, c)]
      BY <2>2 DEF onSuccess
    <3> QED
      BY <1>1, <3>1, SettledType
  <2> QED
    BY <2>1, <2>2
<1> QED
  BY <1>2, <1>4, <1>5, <1>6, CallMoves

LEMMA FetchedType ==
    ASSUME TypeOK, NEW o \in Operators
    PROVE  /\ Fetched(o) \in [Calls -> Call]
           /\ \A c \in Calls : Fetched(o)[c].kind = call[c].kind /\ Fetched(o)[c].did = call[c].did
           /\ \A c \in Calls : Fetched(o)[c].phase \in {"unused", "sent"} => Fetched(o)[c].phase = call[c].phase
           /\ \A c \in Calls : Fetched(o)[c].left = call[c].left
<1> SUFFICES ASSUME NEW c \in Calls
             PROVE  LET r == IF call[c].by = o /\ call[c].phase = "refetching"
                             THEN [call[c] EXCEPT !.phase = "fetched"] ELSE call[c]
                    IN  /\ r \in Call /\ r.kind = call[c].kind /\ r.did = call[c].did /\ r.left = call[c].left
                        /\ r.phase \in {"unused", "sent"} => r.phase = call[c].phase
  BY DEF Fetched
<1>1. call[c] \in Call
  BY DEF TypeOK
<1> QED
  BY <1>1 DEF Call

(* The list query. *)
LEMMA QueryType ==
    ASSUME TypeOK, UNCHANGED clicks, NEW o \in Operators,
           AnswerList(o) \/ ReceiveList(o) \/ FailList(o) \/ FetchFinding(o)
    PROVE  TypeOK'
<1>1. view[o] \in View /\ fetch[o] \in Fetch /\ NoFetch \in Fetch
  BY DEF TypeOK, NoFetch, Fetch, DriftListFilter
<1>2. CASE AnswerList(o)
  <2>1. [fetch[o] EXCEPT !.phase = "answered", !.items = listDrift(fetch[o].filter)] \in Fetch
    BY <1>1, ListType DEF Fetch
  <2> QED
    BY <1>2, <2>1 DEF AnswerList, TypeOK, server
<1>3. CASE ReceiveList(o)
  <2>1. [view[o] EXCEPT !.items = fetch[o].items, !.listError = FALSE] \in View
    BY <1>1 DEF View, Fetch
  <2>2. view' \in [Operators -> View]
    BY <1>3, <2>1 DEF ReceiveList, TypeOK
  <2> QED
    BY <1>1, <1>3, <2>2, FetchedType DEF ReceiveList, TypeOK, server
<1>4. CASE FailList(o)
  <2>1. [view[o] EXCEPT !.listError = @ \/ fetch[o].filter = view[o].filter] \in View
    BY <1>1 DEF View
  <2>2. view' \in [Operators -> View]
    BY <1>4, <2>1 DEF FailList, TypeOK
  <2> QED
    BY <1>1, <1>4, <2>2, FetchedType DEF FailList, TypeOK, server
<1>5. CASE FetchFinding(o)
  <2>1. status[view[o].drawer] \in DriftStatus
    BY <1>1, <1>5 DEF FetchFinding, TypeOK, View
  <2>2. [view[o] EXCEPT !.copy = status[view[o].drawer]] \in View
    BY <1>1, <2>1 DEF View
  <2>3. view' = [view EXCEPT ![o] = [view[o] EXCEPT !.copy = status[view[o].drawer]]]
    BY <1>5 DEF FetchFinding, TypeOK
  <2> QED
    BY <1>5, <2>2, <2>3, ViewMoves DEF FetchFinding, TypeOK
<1> QED
  BY <1>2, <1>3, <1>4, <1>5

(* A mutation starts. *)
LEMMA MutateType ==
    ASSUME TypeOK, clicks' \in 0..MaxClicks, NEW o \in Operators, NEW surface \in Surfaces, NEW kind \in Kinds,
           NEW ids \in SUBSET Findings, mutate(o, surface, kind, ids)
    PROVE  TypeOK'
<1>1. PICK c \in Calls :
        /\ call' = [call EXCEPT ![c] = [NoCall EXCEPT !.kind = kind, !.by = o, !.ids = ids,
                                                      !.surface = surface, !.left = ids, !.phase = "sent"]]
        /\ view' = [view EXCEPT ![o].latest[surface][kind] = c,
                                ![o].notice = IF surface = "table" THEN NoNotice ELSE @]
        /\ UNCHANGED <<server, fetch>>
  BY DEF mutate
<1>2. [NoCall EXCEPT !.kind = kind, !.by = o, !.ids = ids, !.surface = surface, !.left = ids, !.phase = "sent"] \in Call
  BY DEF NoCall, Call, Surfaces, Kinds
<1>3. call' \in [Calls -> Call]
  BY <1>1, <1>2 DEF TypeOK
<1>4. view' \in [Operators -> View]
  <2> DEFINE latest == [view[o].latest EXCEPT ![surface] = [view[o].latest[surface] EXCEPT ![kind] = c]]
             notice == IF surface = "table" THEN NoNotice ELSE view[o].notice
  <2>1. view[o] \in View /\ c \in 0..MaxCalls
    BY DriftAssumption DEF TypeOK, Calls
  <2>2. latest \in [Surfaces -> [Kinds -> 0..MaxCalls]]
    BY <2>1 DEF View
  <2>3. notice \in [kind : {"none", "healed", "nothing", "acked", "resync", "failed"}, call : 0..MaxCalls]
    BY <2>1, DriftAssumption DEF View, NoNotice
  <2>4. view' = [view EXCEPT ![o] = [view[o] EXCEPT !.latest = latest, !.notice = notice]]
    BY <1>1, <2>1 DEF TypeOK, View
  <2> HIDE DEF latest, notice
  <2>5. [view[o] EXCEPT !.latest = latest, !.notice = notice] \in View
    BY <2>1, <2>2, <2>3 DEF View
  <2> QED
    BY <2>4, <2>5 DEF TypeOK
<1> QED
  BY <1>1, <1>3, <1>4 DEF TypeOK, server

LEMMA OperatorType ==
    ASSUME TypeOK, clicks' \in 0..MaxClicks, NEW o \in Operators, OperatorStep(o)
    PROVE  TypeOK'
<1>1. view[o] \in View
  BY DEF TypeOK
<1>2. liveSelected(o) \in SUBSET Findings
  BY <1>1 DEF liveSelected, View
<1>3. CASE healIds(o) \/ ackIds(o)
  BY <1>2, <1>3, MutateType DEF healIds, ackIds, Surfaces, Kinds
<1>4. ASSUME NEW f \in Findings, onToggle(o, f) PROVE TypeOK'
  <2> DEFINE selected == IF f \in view[o].selected THEN view[o].selected \ {f} ELSE view[o].selected \cup {f}
  <2>1. [view[o] EXCEPT !.selected = selected] \in View
    BY <1>1 DEF View
  <2>2. view' = [view EXCEPT ![o] = [view[o] EXCEPT !.selected = selected]] /\ UNCHANGED <<server, call, fetch>>
    BY <1>4 DEF onToggle, TypeOK
  <2> QED
    BY <2>1, <2>2, ViewMoves
<1>5. ASSUME NEW k \in {"heal", "ack"}, DrawerMutate(o, k) PROVE TypeOK'
  <2>1. {view[o].drawer} \in SUBSET Findings
    BY <1>1, <1>5 DEF DrawerMutate, View
  <2> QED
    BY <1>5, <2>1, MutateType DEF DrawerMutate, Surfaces, Kinds
<1>6. ASSUME NEW filter \in DriftListFilter, NEW f \in Findings \cup {None},
             view' = [view EXCEPT ![o] = Navigate(o, filter, f)], UNCHANGED <<server, call, fetch>>
      PROVE  TypeOK'
  BY <1>6, NavigateType, ViewMoves
<1>7. CASE closeDrawer(o)
  BY <1>1, <1>6, <1>7 DEF closeDrawer, View
<1>8. ASSUME NEW f \in Findings, OpenFinding(o, f) PROVE TypeOK'
  BY <1>1, <1>6, <1>8 DEF OpenFinding, View
<1>9. ASSUME NEW f \in Findings, RowAcknowledge(o, f) PROVE TypeOK'
  BY <1>9, MutateType DEF RowAcknowledge, Surfaces, Kinds
<1>10. ASSUME NEW filter \in FilterInputs, applyFilter(o, filter) PROVE TypeOK'
  BY <1>6, <1>10, FilterType DEF applyFilter
<1>11. CASE ResyncNow(o)
  BY <1>11, MutateType DEF ResyncNow, Surfaces, Kinds
<1>12. CASE WindowFocus(o)
  <2>1. Requested(o) \in Fetch
    BY <1>1 DEF Requested, Fetch, View
  <2> QED
    BY <1>12, <2>1 DEF WindowFocus, TypeOK, server
<1> QED
  BY <1>3, <1>4, <1>5, <1>7, <1>8, <1>9, <1>10, <1>11, <1>12 DEF OperatorStep

LEMMA InitType == Init => TypeOK
<1> SUFFICES ASSUME Init PROVE TypeOK
  OBVIOUS
<1>1. /\ status \in [Findings -> DriftStatus] /\ healedToday \in Nat /\ lastResync \in Nat
      /\ clicks \in 0..MaxClicks
  BY DriftAssumption DEF Init, driftFixtures, DriftStatus
<1>2. call \in [Calls -> Call]
  BY DEF Init, NoCall, Call, Surfaces, Kinds
<1>3. fetch \in [Operators -> Fetch]
  BY DEF Init, NoFetch, Fetch, DriftListFilter
<1>4. view \in [Operators -> View]
  BY <1>1, PageType, BaseFilterType DEF Init
<1> QED
  BY <1>1, <1>2, <1>3, <1>4 DEF TypeOK

LEMMA NextType == TypeOK /\ [Next]_vars => TypeOK'
<1> SUFFICES ASSUME TypeOK, [Next]_vars PROVE TypeOK'
  OBVIOUS
<1>1. CASE SystemStep /\ UNCHANGED clicks
  BY <1>1, ExecuteType, TabType, QueryType DEF SystemStep
<1>2. ASSUME NEW o \in Operators, OperatorStep(o), clicks < MaxClicks, clicks' = clicks + 1 PROVE TypeOK'
  <2>1. clicks' \in 0..MaxClicks
    BY <1>2, DriftAssumption DEF TypeOK
  <2> QED
    BY <1>2, <2>1, OperatorType
<1>3. CASE UNCHANGED vars
  BY <1>3 DEF vars, server, TypeOK
<1> QED
  BY <1>1, <1>2, <1>3 DEF Next

(* Store, query cache and views keep their shapes, whatever the operators     *)
(* click and whichever answers are lost.                                      *)
THEOREM TypeCorrect == Spec => []TypeOK
BY InitType, NextType, PTL DEF Spec

-----------------------------------------------------------------------------
(* Part 2: heals *)

Gone == {f \in Findings : status[f] = "gone"}
Closed(c) == IF call[c].kind = "heal" THEN call[c].did ELSE {}

(* A heal has closed nothing until the server served it, and is served once:  *)
(* it never goes back to "sent" as an acknowledge loop does.                  *)
ServedOnce ==
    \A c \in Calls :
        /\ call[c].phase = "unused" => call[c].did = {}
        /\ call[c].kind = "heal" /\ call[c].phase = "sent" => call[c].did = {}
        /\ call[c].kind = "heal" /\ call[c].phase = "answered" => call[c].left = {}
ClosedOnce ==
    /\ \A f \in Findings : f \in Gone <=> \E c \in Calls : f \in Closed(c)
    /\ \A c, d \in Calls : c # d => Closed(c) \cap Closed(d) = {}
    /\ healedToday = Cardinality(Gone)
HealInv == ServedOnce /\ ClosedOnce

(* Steps that close nothing. *)
LEMMA NothingClosed ==
    ASSUME ClosedOnce, Gone' = Gone, healedToday' = healedToday, \A c \in Calls : Closed(c)' = Closed(c)
    PROVE  ClosedOnce'
BY DEF ClosedOnce

(* healFindings takes open findings only, so none that another heal closed. *)
LEMMA HealKeeps ==
    ASSUME TypeOK, HealInv, NEW c \in Calls, healFindings(c)
    PROVE  HealInv'
<1> DEFINE closed == Healable(c)
<1>1. call[c] \in Call /\ call \in [Calls -> Call] /\ status \in [Findings -> DriftStatus]
  BY DEF TypeOK
<1>2. closed \subseteq Findings /\ closed \cap Gone = {}
  BY <1>1 DEF Healable, Call, Gone
<1>3. Gone' = Gone \cup closed
  BY <1>1, <1>2 DEF healFindings, Gone
<1>4. /\ call'[c].kind = "heal" /\ call'[c].phase = "answered" /\ call'[c].left = {} /\ call'[c].did = closed
      /\ \A d \in Calls \ {c} : call'[d] = call[d]
  BY <1>1 DEF healFindings, Call
<1>5. Closed(c) = {} /\ Closed(c)' = closed /\ \A d \in Calls \ {c} : Closed(d)' = Closed(d)
  <2>1. call[c].kind = "heal" /\ call[c].phase = "sent"
    BY DEF healFindings
  <2>2. call[c].did = {}
    BY <2>1 DEF HealInv, ServedOnce
  <2>3. Closed(c) = {}
    BY <2>1, <2>2 DEF Closed
  <2>4. Closed(c)' = closed
    <3> HIDE DEF closed
    <3> QED
      BY <1>4 DEF Closed
  <2>5. \A d \in Calls \ {c} : Closed(d)' = Closed(d)
    <3> HIDE DEF closed
    <3> QED
      BY <1>4 DEF Closed
  <2> QED
    BY <2>3, <2>4, <2>5
<1>6. ServedOnce'
  BY <1>4 DEF HealInv, ServedOnce
<1>7. \A f \in Findings : f \in Gone' <=> \E d \in Calls : f \in Closed(d)'
  BY <1>2, <1>3, <1>5 DEF HealInv, ClosedOnce
<1>8. \A d \in Calls : Closed(d) \cap Findings \subseteq Gone
  BY DEF HealInv, ClosedOnce
<1>9. \A d, e \in Calls : d # e => Closed(d)' \cap Closed(e)' = {}
  BY <1>2, <1>5, <1>8 DEF HealInv, ClosedOnce
<1>10. healedToday' = Cardinality(Gone')
  <2>1. IsFiniteSet(Gone) /\ IsFiniteSet(closed)
    BY <1>2, DriftAssumption, FS_Subset DEF Gone
  <2>2. Cardinality(Gone) \in Nat /\ Cardinality(closed) \in Nat /\ Cardinality(Gone \cap closed) = 0
    BY <1>2, <2>1, FS_CardinalityType, FS_EmptySet
  <2>3. Cardinality(Gone \cup closed) = Cardinality(Gone) + Cardinality(closed)
    <3> HIDE DEF closed
    <3>1. Cardinality(Gone \cup closed) = Cardinality(Gone) + Cardinality(closed) - Cardinality(Gone \cap closed)
      BY <2>1, FS_Union
    <3> QED
      BY <2>2, <3>1
  <2> QED
    BY <1>3, <2>3 DEF healFindings, HealInv, ClosedOnce
<1> QED
  BY <1>6, <1>7, <1>9, <1>10 DEF HealInv, ClosedOnce

(* Acknowledging takes nothing away, and belongs to another mutation. *)
LEMMA AcknowledgeKeeps ==
    ASSUME TypeOK, HealInv, NEW c \in Calls, NEW f \in Findings, acknowledgeFinding(c, f)
    PROVE  HealInv'
<1>1. call[c] \in Call /\ call \in [Calls -> Call] /\ status \in [Findings -> DriftStatus]
  BY DEF TypeOK
<1>2. Gone' = Gone /\ healedToday' = healedToday
  BY <1>1 DEF acknowledgeFinding, Gone
<1>3. /\ call[c].kind = "ack" /\ call'[c].kind = "ack" /\ call'[c].phase = "answered"
      /\ \A d \in Calls \ {c} : call'[d] = call[d]
  <2>1. call[c].kind = "ack"
    BY DEF acknowledgeFinding
  <2>2. CASE status[f] = "gone"
    <3>1. call' = [call EXCEPT ![c] = NotFound(@, f)]
      BY <2>2 DEF acknowledgeFinding
    <3>2. call'[c] = [call[c] EXCEPT !.phase = "answered", !.ok = FALSE] /\ \A d \in Calls \ {c} : call'[d] = call[d]
      BY <1>1, <3>1 DEF NotFound
    <3> QED
      BY <1>1, <2>1, <3>2 DEF Call
  <2>3. CASE status[f] # "gone"
    <3>1. call' = [call EXCEPT ![c].phase = "answered", ![c].ok = TRUE,
                               ![c].left = @ \ {f}, ![c].did = @ \cup {f}]
      BY <2>3 DEF acknowledgeFinding
    <3> QED
      BY <1>1, <2>1, <3>1 DEF Call
  <2> QED
    BY <2>2, <2>3
<1>4. \A d \in Calls : Closed(d)' = Closed(d)
  BY <1>3 DEF Closed
<1>5. ServedOnce'
  BY <1>3 DEF HealInv, ServedOnce
<1> QED
  BY <1>2, <1>4, <1>5, NothingClosed DEF HealInv

(* Steps of the tabs: a mutation keeps its kind and what it did. *)
LEMMA TabKeeps ==
    ASSUME TypeOK, HealInv, UNCHANGED <<status, healedToday>>,
           \A c \in Calls : /\ call'[c].kind = call[c].kind /\ call'[c].did = call[c].did
                            /\ call'[c].phase = "unused" => call[c].phase = "unused"
                            /\ call'[c].phase = "sent" => \/ call[c].phase = "sent"
                                                          \/ call[c].phase = "answered" /\ call[c].left # {}
                            /\ call'[c].phase = "answered" => call[c].phase = "answered" /\ call'[c].left = call[c].left
    PROVE  HealInv'
<1>1. Gone' = Gone /\ \A c \in Calls : Closed(c)' = Closed(c)
  BY DEF Gone, Closed
<1>2. ServedOnce'
  BY DEF HealInv, ServedOnce
<1> QED
  BY <1>1, <1>2, NothingClosed DEF HealInv

LEMMA MutateKeeps ==
    ASSUME TypeOK, HealInv, NEW o \in Operators, NEW surface, NEW kind \in Kinds, NEW ids,
           mutate(o, surface, kind, ids)
    PROVE  HealInv'
<1>1. PICK c \in Calls :
        /\ call[c].phase = "unused"
        /\ call' = [call EXCEPT ![c] = [NoCall EXCEPT !.kind = kind, !.by = o, !.ids = ids,
                                                      !.surface = surface, !.left = ids, !.phase = "sent"]]
        /\ UNCHANGED server
  BY DEF mutate
<1>2. /\ call'[c].did = {} /\ call'[c].phase = "sent" /\ call[c].did = {}
      /\ \A d \in Calls \ {c} : call'[d] = call[d]
  BY <1>1 DEF NoCall, TypeOK, HealInv, ServedOnce
<1>3. \A d \in Calls : Closed(d)' = Closed(d)
  BY <1>2 DEF Closed
<1>4. Gone' = Gone /\ healedToday' = healedToday
  BY <1>1 DEF Gone, server
<1>5. ServedOnce'
  BY <1>2 DEF HealInv, ServedOnce
<1> QED
  BY <1>3, <1>4, <1>5, NothingClosed DEF HealInv

LEMMA NextHeals == TypeOK /\ HealInv /\ [Next]_vars => HealInv'
<1> SUFFICES ASSUME TypeOK, HealInv, [Next]_vars PROVE HealInv'
  OBVIOUS
<1>1. \A c \in Calls : call[c] \in Call
  BY DEF TypeOK
<1>2. ASSUME NEW c \in Calls, healFindings(c) \/ \E f \in Findings : acknowledgeFinding(c, f) PROVE HealInv'
  BY <1>2, HealKeeps, AcknowledgeKeeps
<1>3. ASSUME NEW c \in Calls, resyncAll(c) PROVE HealInv'
  <2>1. /\ call[c].kind = "resync" /\ call'[c].kind = "resync" /\ call'[c].phase = "answered"
        /\ \A d \in Calls \ {c} : call'[d] = call[d]
    BY <1>1, <1>3 DEF resyncAll, TypeOK, Call
  <2>2. ServedOnce' /\ \A d \in Calls : Closed(d)' = Closed(d)
    BY <2>1 DEF HealInv, ServedOnce, Closed
  <2> QED
    BY <1>3, <2>2, NothingClosed DEF resyncAll, HealInv, Gone
<1>4. ASSUME NEW c \in Calls, ReceiveAnswer(c) \/ LoseCall(c) \/ onSuccess(c) PROVE HealInv'
  <2>1. UNCHANGED <<status, healedToday>>
    BY <1>4 DEF ReceiveAnswer, LoseCall, onSuccess, server
  <2>2. \/ call' = [call EXCEPT ![c].phase = "sent"] /\ LoopGoesOn(c) /\ call[c].phase = "answered"
        \/ call' = [call EXCEPT ![c].phase = "refetching"]
        \/ call' = [call EXCEPT ![c] = Done(@)]
    BY <1>4 DEF ReceiveAnswer, LoseCall, onSuccess
  <2>3. Done(call[c]).kind = call[c].kind /\ Done(call[c]).did = call[c].did /\ Done(call[c]).phase = "settled"
    <3>1. call[c] \in Call
      BY <1>1
    <3>2. Done(call[c]).kind = call[c].kind /\ Done(call[c]).did = call[c].did
      BY <3>1, DoneType
    <3>3. Done(call[c]).phase = "settled"
      BY <3>1 DEF Done, Call
    <3> QED
      BY <3>2, <3>3
  <2>4. \A d \in Calls \ {c} : call'[d] = call[d]
    BY <2>2 DEF TypeOK
  <2>5. /\ call'[c].kind = call[c].kind /\ call'[c].did = call[c].did
        /\ \/ call'[c].phase \in {"refetching", "settled"}
           \/ call'[c].phase = "sent" /\ call[c].phase = "answered" /\ call[c].left # {}
    BY <1>1, <2>2, <2>3 DEF TypeOK, Call, LoopGoesOn
  <2> QED
    BY <2>1, <2>4, <2>5, TabKeeps
<1>5. ASSUME NEW o \in Operators, AnswerList(o) \/ ReceiveList(o) \/ FailList(o) \/ FetchFinding(o) PROVE HealInv'
  <2>1. UNCHANGED <<status, healedToday>> /\ (UNCHANGED call \/ call' = Fetched(o))
    BY <1>5 DEF AnswerList, ReceiveList, FailList, FetchFinding, server
  <2>2. \A c \in Calls : Fetched(o)[c].phase = "answered" => call[c].phase = "answered"
    BY <1>1 DEF Fetched, Call
  <2> QED
    BY <2>1, <2>2, FetchedType, TabKeeps
<1>6. ASSUME NEW o \in Operators, OperatorStep(o) PROVE HealInv'
  <2>1. ASSUME NEW surface, NEW kind \in Kinds, NEW ids, mutate(o, surface, kind, ids) PROVE HealInv'
    BY <2>1, MutateKeeps
  <2>2. CASE healIds(o) \/ ackIds(o) \/ ResyncNow(o)
    BY <2>1, <2>2 DEF healIds, ackIds, ResyncNow, Kinds
  <2>3. CASE (\E k \in {"heal", "ack"} : DrawerMutate(o, k)) \/ (\E f \in Findings : RowAcknowledge(o, f))
    BY <2>1, <2>3 DEF DrawerMutate, RowAcknowledge, Kinds
  <2>4. CASE UNCHANGED <<server, call>>
    BY <2>4, TabKeeps DEF server
  <2> QED
    BY <1>6, <2>2, <2>3, <2>4 DEF OperatorStep, onToggle, closeDrawer, OpenFinding, applyFilter, WindowFocus
<1>7. CASE UNCHANGED vars
  BY <1>7, TabKeeps DEF vars, server
<1> QED
  BY <1>2, <1>3, <1>4, <1>5, <1>6, <1>7 DEF Next, SystemStep

(* Each finding that left the store was closed by one heal and is counted     *)
(* once, for any number of operators, findings and mutations, however         *)
(* selections overlap and answers are lost (healFindings).                    *)
THEOREM HealsCountOnce == Spec => []HealedOnce
<1>1. Init => HealInv
  <2> SUFFICES ASSUME Init PROVE HealInv
    OBVIOUS
  <2>1. Gone = {} /\ healedToday = 0
    BY DEF Init, driftFixtures, Gone
  <2>2. \A c \in Calls : call[c].did = {} /\ call[c].left = {}
    BY DEF Init, NoCall
  <2> QED
    BY <2>1, <2>2, FS_EmptySet DEF HealInv, ServedOnce, ClosedOnce, Closed
<1>2. HealInv => HealedOnce
  <2> SUFFICES ASSUME HealInv PROVE HealedOnce
    OBVIOUS
  <2> DEFINE heals == {c \in Calls : call[c].kind = "heal"}
  <2>1. \A f \in Findings : status[f] = "gone" <=> \E c \in heals : f \in call[c].did
    BY DEF HealInv, ClosedOnce, Closed, Gone
  <2>2. \A c, d \in heals : c # d => call[c].did \cap call[d].did = {}
    BY DEF HealInv, ClosedOnce, Closed
  <2> QED
    BY <2>1, <2>2 DEF HealInv, ClosedOnce, HealedOnce, Gone
<1> QED
  BY <1>1, <1>2, InitType, NextType, NextHeals, PTL DEF Spec

(* What one operator accepted no heal, acknowledgement or resync of another   *)
(* reopens or closes.                                                         *)
THEOREM AcceptedForGood == Spec => AcceptedStaysAccepted
<1>1. TypeOK /\ [Next]_vars => [\A f \in Findings : status[f] = "acknowledged" => status'[f] = "acknowledged"]_vars
  <2> SUFFICES ASSUME TypeOK, Next, NEW f \in Findings, status[f] = "acknowledged" PROVE status'[f] = "acknowledged"
    OBVIOUS
  <2>1. ASSUME NEW c \in Calls, healFindings(c) PROVE status'[f] = "acknowledged"
    BY <2>1 DEF healFindings, Healable
  <2>2. ASSUME NEW c \in Calls, NEW g \in Findings, acknowledgeFinding(c, g) PROVE status'[f] = "acknowledged"
    BY <2>2 DEF acknowledgeFinding, TypeOK
  <2>3. CASE UNCHANGED status
    BY <2>3
  <2>4. ASSUME NEW o \in Operators, OperatorStep(o) PROVE UNCHANGED status
    <3>1. ASSUME NEW surface, NEW kind, NEW ids, mutate(o, surface, kind, ids) PROVE UNCHANGED status
      BY <3>1 DEF mutate, server
    <3> QED
      BY <2>4, <3>1 DEF OperatorStep, healIds, ackIds, ResyncNow, DrawerMutate, RowAcknowledge, server,
                        onToggle, closeDrawer, OpenFinding, applyFilter, WindowFocus
  <2>5. ASSUME NEW c \in Calls, resyncAll(c) \/ ReceiveAnswer(c) \/ LoseCall(c) \/ onSuccess(c) PROVE UNCHANGED status
    BY <2>5 DEF resyncAll, ReceiveAnswer, LoseCall, onSuccess, server
  <2>6. ASSUME NEW o \in Operators, AnswerList(o) \/ ReceiveList(o) \/ FailList(o) \/ FetchFinding(o) PROVE UNCHANGED status
    BY <2>6 DEF AnswerList, ReceiveList, FailList, FetchFinding, server
  <2> QED
    BY <2>1, <2>2, <2>3, <2>4, <2>5, <2>6 DEF Next, SystemStep
<1> QED
  BY <1>1, InitType, NextType, PTL DEF Spec, AcceptedStaysAccepted

-----------------------------------------------------------------------------
(* Part 3: notices *)

Fresh(v, did) == v.listError \/ did \cap v.items = {}
FetchClean(q, did) == q.phase = "answered" => did \cap q.items = {}

(* A mutation that waits for the invalidated list has a fetch under way that  *)
(* started after the server served it; one that has waited stands over rows   *)
(* without its findings, or under the error of that refresh.  What an         *)
(* acknowledge loop still has to do and what it did are its selection.        *)
CallOK(r, st, v, q) ==
    r.phase # "unused" =>
        /\ \A f \in r.did : st[f] # "open"
        /\ r.kind = "ack" /\ r.phase # "settled" => r.left \subseteq r.ids /\ r.did = r.ids \ r.left
        /\ r.phase \in {"refetching", "fetched"} => r.left = {} /\ FetchClean(q, r.did)
        /\ r.phase = "refetching" => q.phase # "idle" /\ (q.filter = v.filter \/ r.did \cap v.items = {})
        /\ r.phase = "fetched" => Fresh(v, r.did)
Tells(n) == n.kind \in {"healed", "acked"}
NoticeOK(cs, v, q) ==
    LET n == v.notice
    IN  Tells(n) => /\ n.call \in Calls /\ cs[n.call].phase = "settled"
                    /\ Fresh(v, cs[n.call].did) /\ FetchClean(q, cs[n.call].did)
                    /\ n.kind = "acked" => cs[n.call].did = cs[n.call].ids
NoticeInv ==
    /\ \A c \in Calls : call[c].phase # "unused" => call[c].by \in Operators
    /\ \A c \in Calls : CallOK(call[c], status, view[call[c].by], fetch[call[c].by])
    /\ \A o \in Operators : NoticeOK(call, view[o], fetch[o])
(* The rows a tab shows after a step: those it had, or open findings only. *)
OpenRows(items) == \A f \in items : status[f] = "open"
Rows(v, w) == \/ w.items = v.items /\ w.listError = v.listError /\ w.filter = v.filter
              \/ OpenRows(w.items)
(* The fetch of a tab after a step: the same, or a new one of its present filter. *)
Asks(q, w, p) == p = q \/ (p.phase = "requested" /\ p.filter = w.filter)
MovedCall(d) ==
    \/ call'[d] = call[d]
    \/ /\ call[d].phase # "settled" /\ call'[d].by \in Operators
       /\ CallOK(call'[d], status', view'[call'[d].by], fetch'[call'[d].by])
ToldNotice(o) == \/ view'[o].notice = view[o].notice \/ ~Tells(view'[o].notice)
                 \/ NoticeOK(call', view'[o], fetch'[o])

LEMMA ListOpen ==
    ASSUME NEW filter
    PROVE  OpenRows(listDrift(filter))
BY DEF OpenRows, listDrift, openFindings, DriftFinding

(* New rows keep what holds of a mutation and of a notice. *)
LEMMA RowsKeep ==
    ASSUME NEW r, NEW v, NEW q, NEW w, NEW p, CallOK(r, status, v, q), Rows(v, w), Asks(q, w, p)
    PROVE  CallOK(r, status, w, p)
<1> SUFFICES ASSUME r.phase # "unused" PROVE CallOK(r, status, w, p)
  BY DEF CallOK
<1>1. \A f \in r.did : status[f] # "open"
  BY DEF CallOK
<1>2. OpenRows(w.items) => r.did \cap w.items = {}
  BY <1>1 DEF OpenRows
<1>3. FetchClean(q, r.did) => FetchClean(p, r.did)
  BY DEF Asks, FetchClean
<1>4. Fresh(v, r.did) => Fresh(w, r.did)
  BY <1>2 DEF Rows, Fresh
<1>5. r.phase = "refetching" => p.phase # "idle" /\ (p.filter = w.filter \/ r.did \cap w.items = {})
  <2>1. CASE p = q
    BY <1>2, <2>1 DEF CallOK, Rows
  <2>2. CASE p # q
    BY <2>2 DEF Asks
  <2> QED
    BY <2>1, <2>2
<1> QED
  BY <1>1, <1>3, <1>4, <1>5 DEF CallOK

(* A step of one tab: mutations that are settled stay as they are. *)
LEMMA TabNotices ==
    ASSUME TypeOK, NoticeInv, NEW o \in Operators, status' = status,
           \A p \in Operators \ {o} : view'[p] = view[p] /\ fetch'[p] = fetch[p],
           Rows(view[o], view'[o]), Asks(fetch[o], view'[o], fetch'[o]),
           \A d \in Calls : MovedCall(d), ToldNotice(o)
    PROVE  NoticeInv'
<1>1. ASSUME NEW p \in Operators PROVE Rows(view[p], view'[p]) /\ Asks(fetch[p], view'[p], fetch'[p])
  <2>1. CASE p = o
    BY <2>1
  <2>2. CASE p # o
    <3>1. view'[p] = view[p] /\ fetch'[p] = fetch[p]
      BY <2>2
    <3>2. Asks(fetch[p], view'[p], fetch'[p])
      BY <3>1 DEF Asks
    <3>3. Rows(view[p], view'[p])
      BY ONLY <3>1 DEF Rows
    <3> QED
      BY <3>2, <3>3
  <2> QED
    BY <2>1, <2>2
<1>2. ASSUME NEW d \in Calls, call'[d] = call[d]
      PROVE  CallOK(call'[d], status', view'[call'[d].by], fetch'[call'[d].by])
  <2>1. CASE call[d].phase = "unused"
    BY <1>2, <2>1 DEF CallOK
  <2>2. CASE call[d].phase # "unused"
    <3>1. call[d].by \in Operators /\ CallOK(call[d], status, view[call[d].by], fetch[call[d].by])
      BY <2>2 DEF NoticeInv
    <3> QED
      BY <1>1, <1>2, <3>1, RowsKeep
  <2> QED
    BY <2>1, <2>2
<1>3. \A d \in Calls : /\ call'[d].phase # "unused" => call'[d].by \in Operators
                       /\ CallOK(call'[d], status', view'[call'[d].by], fetch'[call'[d].by])
  BY <1>2 DEF MovedCall, NoticeInv
<1>4. ASSUME NEW p \in Operators, Tells(view'[p].notice), view'[p].notice = view[p].notice
      PROVE  NoticeOK(call', view'[p], fetch'[p])
  <2> DEFINE n == view[p].notice
             did == call[n.call].did
  <2>1. /\ n.call \in Calls /\ call[n.call].phase = "settled" /\ Fresh(view[p], did) /\ FetchClean(fetch[p], did)
        /\ n.kind = "acked" => did = call[n.call].ids
    BY <1>4 DEF NoticeInv, NoticeOK
  <2>2. call'[n.call] = call[n.call]
    BY <2>1 DEF MovedCall
  <2>3. \A f \in did : status[f] # "open"
    BY <2>1 DEF NoticeInv, CallOK
  <2>4. Fresh(view'[p], did)
    BY <1>1, <2>1, <2>3 DEF Rows, Fresh, OpenRows
  <2>5. FetchClean(fetch'[p], did)
    BY <1>1, <2>1 DEF Asks, FetchClean
  <2> QED
    BY <1>4, <2>1, <2>2, <2>4, <2>5 DEF NoticeOK
<1>5. \A p \in Operators : NoticeOK(call', view'[p], fetch'[p])
  <2> SUFFICES ASSUME NEW p \in Operators, Tells(view'[p].notice), view'[p].notice # view[p].notice
               PROVE  NoticeOK(call', view'[p], fetch'[p])
    BY <1>4 DEF NoticeOK
  <2> QED
    BY DEF ToldNotice
<1> QED
  BY <1>3, <1>5 DEF NoticeInv

(* The server serves one mutation: what it did is open no more. *)
LEMMA ServeNotices ==
    ASSUME TypeOK, NoticeInv, NEW c \in Calls, call[c].phase = "sent", call'[c].phase = "answered",
           call'[c].by = call[c].by, \A d \in Calls \ {c} : call'[d] = call[d],
           \A f \in Findings : status[f] # "open" => status'[f] # "open",
           \A f \in call'[c].did : status'[f] # "open",
           call'[c].kind = "ack" => call'[c].left \subseteq call'[c].ids /\ call'[c].did = call'[c].ids \ call'[c].left,
           UNCHANGED <<view, fetch>>
    PROVE  NoticeInv'
<1>1. \A d \in Calls : call[d].did \subseteq Findings
  BY DEF TypeOK, Call
<1>2. ASSUME NEW d \in Calls
      PROVE  CallOK(call'[d], status', view'[call'[d].by], fetch'[call'[d].by])
  <2>1. CASE d = c
    BY <2>1 DEF CallOK
  <2>2. CASE d # c
    <3>1. call'[d] = call[d] /\ CallOK(call[d], status, view[call[d].by], fetch[call[d].by])
      BY <2>2 DEF NoticeInv
    <3> QED
      BY <1>1, <3>1 DEF CallOK
  <2> QED
    BY <2>1, <2>2
<1>3. ASSUME NEW o \in Operators PROVE NoticeOK(call', view'[o], fetch'[o])
  <2>1. NoticeOK(call, view[o], fetch[o]) /\ view'[o] = view[o] /\ fetch'[o] = fetch[o]
    BY DEF NoticeInv
  <2>2. Tells(view[o].notice) => view[o].notice.call \in Calls \ {c}
    BY <2>1 DEF NoticeOK
  <2> QED
    BY <2>1, <2>2 DEF NoticeOK
<1>4. \A d \in Calls : call'[d].phase # "unused" => call'[d].by \in Operators
  BY DEF NoticeInv
<1> QED
  BY <1>2, <1>3, <1>4 DEF NoticeInv

LEMMA ExecuteNotices ==
    ASSUME TypeOK, NoticeInv, NEW c \in Calls,
           healFindings(c) \/ resyncAll(c) \/ \E f \in Findings : acknowledgeFinding(c, f)
    PROVE  NoticeInv'
<1>1. call[c] \in Call /\ call \in [Calls -> Call] /\ status \in [Findings -> DriftStatus]
  BY DEF TypeOK
<1>2. call[c].phase = "sent" /\ UNCHANGED <<view, fetch>>
  BY DEF healFindings, resyncAll, acknowledgeFinding
<1>3. call[c].kind = "ack" => call[c].left \subseteq call[c].ids /\ call[c].did = call[c].ids \ call[c].left
  BY <1>2 DEF NoticeInv, CallOK
<1>4. \A f \in call[c].did : status[f] # "open"
  BY <1>2 DEF NoticeInv, CallOK
<1>5. CASE healFindings(c)
  <2>1. /\ call'[c].kind = "heal" /\ call'[c].phase = "answered" /\ call'[c].by = call[c].by
        /\ call'[c].did = Healable(c) /\ \A d \in Calls \ {c} : call'[d] = call[d]
    BY <1>1, <1>5 DEF healFindings, Call
  <2>2. \A f \in Findings : status'[f] = IF f \in Healable(c) THEN "gone" ELSE status[f]
    BY <1>5 DEF healFindings
  <2>3. Healable(c) \subseteq Findings
    BY <1>1 DEF Healable, Call
  <2> QED
    BY <1>2, <2>1, <2>2, <2>3, ServeNotices
<1>6. CASE resyncAll(c)
  <2>1. /\ call'[c].kind = "resync" /\ call'[c].phase = "answered" /\ call'[c].by = call[c].by
        /\ call'[c].did = call[c].did /\ \A d \in Calls \ {c} : call'[d] = call[d]
    BY <1>1, <1>6 DEF resyncAll, Call
  <2>2. status' = status
    BY <1>6 DEF resyncAll
  <2> QED
    BY <1>2, <1>4, <2>1, <2>2, ServeNotices
<1>7. ASSUME NEW f \in Findings, acknowledgeFinding(c, f) PROVE NoticeInv'
  <2>1. call[c].kind = "ack" /\ f \in call[c].left
    BY <1>7 DEF acknowledgeFinding
  <2>2. CASE status[f] = "gone"
    <3>1. call' = [call EXCEPT ![c] = NotFound(@, f)] /\ status' = status
      BY <1>7, <2>2 DEF acknowledgeFinding
    <3>2. call'[c] = [call[c] EXCEPT !.phase = "answered", !.ok = FALSE] /\ \A d \in Calls \ {c} : call'[d] = call[d]
      BY <1>1, <3>1 DEF NotFound
    <3>3. /\ call'[c].phase = "answered" /\ call'[c].by = call[c].by /\ call'[c].did = call[c].did
          /\ call'[c].left = call[c].left /\ call'[c].ids = call[c].ids /\ call'[c].kind = call[c].kind
      BY <1>1, <3>2 DEF Call
    <3> QED
      BY <1>2, <1>3, <1>4, <3>1, <3>2, <3>3, ServeNotices
  <2>3. CASE status[f] # "gone"
    <3>1. /\ call' = [call EXCEPT ![c].phase = "answered", ![c].ok = TRUE,
                                  ![c].left = @ \ {f}, ![c].did = @ \cup {f}]
          /\ status' = [status EXCEPT ![f] = "acknowledged"]
      BY <1>7, <2>3 DEF acknowledgeFinding
    <3>2. /\ call'[c].phase = "answered" /\ call'[c].by = call[c].by /\ call'[c].did = call[c].did \cup {f}
          /\ call'[c].left = call[c].left \ {f} /\ call'[c].ids = call[c].ids /\ call'[c].kind = call[c].kind
          /\ \A d \in Calls \ {c} : call'[d] = call[d]
      BY <1>1, <3>1 DEF Call
    <3>3. \A g \in Findings : status'[g] = IF g = f THEN "acknowledged" ELSE status[g]
      BY <1>1, <3>1
    <3>4. \A g \in call'[c].did : g \in Findings /\ status'[g] # "open"
      BY <1>1, <1>4, <3>2, <3>3 DEF Call
    <3>5. call'[c].left \subseteq call'[c].ids /\ call'[c].did = call'[c].ids \ call'[c].left
      BY <1>3, <2>1, <3>2
    <3>6. \A g \in Findings : status[g] # "open" => status'[g] # "open"
      BY <3>3
    <3> QED
      BY <1>2, <3>2, <3>4, <3>5, <3>6, ServeNotices
  <2> QED
    BY <2>2, <2>3
<1> QED
  BY <1>5, <1>6, <1>7

(* Only the view of one tab moves. *)
LEMMA ViewNotices ==
    ASSUME TypeOK, NoticeInv, NEW o \in Operators, NEW w, view' = [view EXCEPT ![o] = w],
           UNCHANGED <<status, call, fetch>>, Rows(view[o], w), w.notice = view[o].notice \/ ~Tells(w.notice)
    PROVE  NoticeInv'
<1>1. view'[o] = w /\ \A p \in Operators \ {o} : view'[p] = view[p] /\ fetch'[p] = fetch[p]
  BY DEF TypeOK
<1>2. Asks(fetch[o], view'[o], fetch'[o])
  BY DEF Asks
<1>3. ToldNotice(o) /\ \A d \in Calls : MovedCall(d)
  BY <1>1 DEF ToldNotice, MovedCall
<1> QED
  BY <1>1, <1>2, <1>3, TabNotices

LEMMA PageNotices ==
    ASSUME NEW filter, NEW f
    PROVE  ~Tells(DriftPage(filter, f).notice) /\ OpenRows(DriftPage(filter, f).items)
           /\ DriftPage(filter, f).filter = filter
<1>1. DriftPage(filter, f).notice = NoNotice /\ DriftPage(filter, f).items = listDrift(filter)
      /\ DriftPage(filter, f).filter = filter
  BY DEF DriftPage
<1> QED
  BY <1>1, ListOpen DEF NoNotice, Tells

LEMMA NavigateNotices ==
    ASSUME TypeOK, NoticeInv, NEW o \in Operators, NEW filter, NEW f,
           view' = [view EXCEPT ![o] = Navigate(o, filter, f)], UNCHANGED <<server, call, fetch>>
    PROVE  NoticeInv'
<1> DEFINE w == Navigate(o, filter, f)
<1>1. view[o] \in View
  BY DEF TypeOK
<1>2. OpenRows(w.items) /\ (w.notice = view[o].notice \/ ~Tells(w.notice))
  <2>1. CASE w = DriftPage(filter, f)
    BY <2>1, PageNotices
  <2>2. CASE w # DriftPage(filter, f)
    <3>1. \E copy : w = [view[o] EXCEPT !.filter = filter, !.items = listDrift(filter), !.drawer = f,
                                        !.listError = FALSE, !.copy = copy]
      BY <2>2 DEF Navigate
    <3>2. w.items = listDrift(filter) /\ w.notice = view[o].notice
      BY <1>1, <3>1 DEF View
    <3> QED
      BY <3>2, ListOpen
  <2> QED
    BY <2>1, <2>2
<1>3. status' = status
  BY DEF server
<1> HIDE DEF w
<1>4. view' = [view EXCEPT ![o] = w]
  BY DEF w
<1> QED
  BY <1>2, <1>3, <1>4, ViewNotices DEF Rows

(* A mutation starts: its loop has everything to do. *)
LEMMA MutateNotices ==
    ASSUME TypeOK, NoticeInv, NEW o \in Operators, NEW surface \in Surfaces, NEW kind \in Kinds, NEW ids,
           mutate(o, surface, kind, ids)
    PROVE  NoticeInv'
<1>1. PICK c \in Calls :
        /\ call[c].phase = "unused"
        /\ call' = [call EXCEPT ![c] = [NoCall EXCEPT !.kind = kind, !.by = o, !.ids = ids,
                                                      !.surface = surface, !.left = ids, !.phase = "sent"]]
        /\ view' = [view EXCEPT ![o].latest[surface][kind] = c,
                                ![o].notice = IF surface = "table" THEN NoNotice ELSE @]
        /\ UNCHANGED <<server, fetch>>
  BY DEF mutate
<1>2. /\ call'[c].did = {} /\ call'[c].phase = "sent" /\ call'[c].by = o
      /\ call'[c].left = ids /\ call'[c].ids = ids
      /\ \A d \in Calls \ {c} : call'[d] = call[d]
  BY <1>1 DEF NoCall, TypeOK
<1>3. CallOK(call'[c], status', view'[call'[c].by], fetch'[call'[c].by])
  BY <1>2 DEF CallOK
<1> DEFINE latest == [view[o].latest EXCEPT ![surface] = [view[o].latest[surface] EXCEPT ![kind] = c]]
           notice == IF surface = "table" THEN NoNotice ELSE view[o].notice
<1>4. view[o] \in View
  BY DEF TypeOK
<1>5. view' = [view EXCEPT ![o] = [view[o] EXCEPT !.latest = latest, !.notice = notice]]
  BY <1>1, <1>4 DEF TypeOK, View
<1>6. notice = view[o].notice \/ ~Tells(notice)
  BY DEF NoNotice, Tells
<1> HIDE DEF latest, notice
<1>7. /\ view'[o].items = view[o].items /\ view'[o].listError = view[o].listError
      /\ view'[o].filter = view[o].filter /\ view'[o].notice = notice
      /\ \A p \in Operators \ {o} : view'[p] = view[p]
  BY <1>4, <1>5 DEF TypeOK, View
<1>8. Rows(view[o], view'[o])
  BY <1>7 DEF Rows
<1>9. status' = status /\ fetch' = fetch
  BY <1>1 DEF server
<1>10. \A d \in Calls : MovedCall(d)
  BY <1>1, <1>2, <1>3 DEF MovedCall
<1>11. ToldNotice(o) /\ Asks(fetch[o], view'[o], fetch'[o])
  BY <1>6, <1>7, <1>9 DEF ToldNotice, Asks
<1> QED
  BY <1>7, <1>8, <1>9, <1>10, <1>11, TabNotices

(* A mutation fails: at most the notice of its tab moves, to the error. *)
LEMMA FailNotices ==
    ASSUME TypeOK, NoticeInv, NEW c \in Calls, call[c].phase \in {"sent", "answered"},
           call' = [call EXCEPT ![c] = Done(@)], view' = fail(c), UNCHANGED <<server, fetch>>
    PROVE  NoticeInv'
<1> DEFINE o == call[c].by
<1>1. o \in Operators /\ call[c] \in Call /\ view[o] \in View /\ CallOK(call[c], status, view[o], fetch[o])
  BY DEF NoticeInv, TypeOK
<1>2. call'[c] = Done(call[c]) /\ \A d \in Calls \ {c} : call'[d] = call[d]
  BY DEF TypeOK
<1>3. call'[c].did = call[c].did /\ call'[c].phase = "settled" /\ call'[c].by = o
  BY <1>1, <1>2, DoneKeeps
<1>4. /\ \A p \in Operators \ {o} : view'[p] = view[p]
      /\ view'[o] = view[o] \/ view'[o] = [view[o] EXCEPT !.notice = [kind |-> "failed", call |-> c]]
  BY <1>1 DEF fail, TypeOK
<1>5. /\ view'[o].items = view[o].items /\ view'[o].listError = view[o].listError
      /\ view'[o].filter = view[o].filter
      /\ view'[o].notice = view[o].notice \/ ~Tells(view'[o].notice)
  BY <1>1, <1>4 DEF View, Tells
<1>6. status' = status /\ fetch' = fetch
  BY DEF server
<1>7. \A f \in call'[c].did : status'[f] # "open"
  BY <1>1, <1>3, <1>6 DEF CallOK
<1>8. CallOK(call'[c], status', view'[call'[c].by], fetch'[call'[c].by])
  BY <1>3, <1>7 DEF CallOK
<1>9. \A d \in Calls : MovedCall(d)
  BY <1>1, <1>2, <1>3, <1>8 DEF MovedCall
<1>10. Rows(view[o], view'[o]) /\ Asks(fetch[o], view'[o], fetch'[o]) /\ ToldNotice(o)
  BY <1>5, <1>6 DEF Rows, Asks, ToldNotice
<1> HIDE DEF o
<1> QED
  BY <1>1, <1>4, <1>6, <1>9, <1>10, TabNotices DEF TypeOK

LEMMA ReceiveNotices ==
    ASSUME TypeOK, NoticeInv, NEW c \in Calls, ReceiveAnswer(c)
    PROVE  NoticeInv'
<1> DEFINE o == call[c].by
<1>1. call[c].phase = "answered" /\ status' = status
  BY DEF ReceiveAnswer, server
<1>2. o \in Operators /\ call[c] \in Call /\ view[o] \in View /\ CallOK(call[c], status, view[o], fetch[o])
  BY <1>1 DEF NoticeInv, TypeOK
<1>3. CASE LoopGoesOn(c) /\ call' = [call EXCEPT ![c].phase = "sent"] /\ UNCHANGED <<view, fetch>>
  <2>1. /\ call'[c].phase = "sent" /\ call'[c].by = o /\ call'[c].did = call[c].did /\ call'[c].ids = call[c].ids
        /\ call'[c].left = call[c].left /\ call'[c].kind = call[c].kind /\ \A d \in Calls \ {c} : call'[d] = call[d]
    BY <1>2, <1>3 DEF TypeOK, Call
  <2>2. CallOK(call'[c], status', view'[call'[c].by], fetch'[call'[c].by])
    BY <1>1, <1>2, <2>1 DEF CallOK
  <2>3. \A d \in Calls : MovedCall(d)
    BY <1>1, <1>2, <2>1, <2>2 DEF MovedCall
  <2>4. Rows(view[o], view'[o]) /\ Asks(fetch[o], view'[o], fetch'[o]) /\ ToldNotice(o)
    BY <1>3 DEF Rows, Asks, ToldNotice
  <2> QED
    BY <1>1, <1>2, <1>3, <2>3, <2>4, TabNotices
<1>4. CASE /\ call[c].ok /\ call[c].left = {} /\ call' = [call EXCEPT ![c].phase = "refetching"]
           /\ fetch' = invalidateQueries(o) /\ UNCHANGED view
  <2>1. /\ call'[c].phase = "refetching" /\ call'[c].by = o /\ call'[c].did = call[c].did /\ call'[c].ids = call[c].ids
        /\ call'[c].left = {} /\ call'[c].kind = call[c].kind /\ \A d \in Calls \ {c} : call'[d] = call[d]
    BY <1>2, <1>4 DEF TypeOK, Call
  <2>2. /\ fetch'[o].phase = "requested" /\ fetch'[o].filter = view[o].filter
        /\ \A p \in Operators \ {o} : fetch'[p] = fetch[p]
    BY <1>2, <1>4 DEF invalidateQueries, Requested, TypeOK
  <2>3. /\ \A f \in call'[c].did : status'[f] # "open"
        /\ call'[c].kind = "ack" => call'[c].left \subseteq call'[c].ids /\ call'[c].did = call'[c].ids \ call'[c].left
    BY <1>1, <1>2, <1>4, <2>1 DEF CallOK
  <2>4. CallOK(call'[c], status', view'[call'[c].by], fetch'[call'[c].by])
    BY <1>4, <2>1, <2>2, <2>3 DEF CallOK, FetchClean
  <2>5. \A d \in Calls : MovedCall(d)
    BY <1>1, <1>2, <2>1, <2>4 DEF MovedCall
  <2>6. Rows(view[o], view'[o]) /\ Asks(fetch[o], view'[o], fetch'[o]) /\ ToldNotice(o)
    BY <1>4, <2>2 DEF Rows, Asks, ToldNotice
  <2> HIDE DEF o
  <2> QED
    BY <1>1, <1>2, <1>4, <2>2, <2>5, <2>6, TabNotices
<1>5. CASE call' = [call EXCEPT ![c] = Done(@)] /\ view' = fail(c) /\ UNCHANGED <<server, fetch>>
  BY <1>1, <1>5, FailNotices
<1> QED
  BY <1>3, <1>4, <1>5 DEF ReceiveAnswer

(* The refetch is over and the mutation's callbacks run. *)
LEMMA SuccessNotices ==
    ASSUME TypeOK, NoticeInv, NEW c \in Calls, onSuccess(c)
    PROVE  NoticeInv'
<1> DEFINE o == call[c].by
           w == Settled(o, c)
<1>1. call[c].phase = "fetched" /\ status' = status /\ fetch' = fetch
  BY DEF onSuccess, server
<1>2. o \in Operators /\ call[c] \in Call /\ view[o] \in View /\ CallOK(call[c], status, view[o], fetch[o])
  BY <1>1 DEF NoticeInv, TypeOK
<1>3. call'[c] = Done(call[c]) /\ \A d \in Calls \ {c} : call'[d] = call[d]
  BY DEF onSuccess, TypeOK
<1>4. call'[c].did = call[c].did /\ call'[c].ids = call[c].ids /\ call'[c].phase = "settled" /\ call'[c].by = o
  BY <1>2, <1>3, DoneKeeps
<1>5. \A f \in call[c].did : status[f] # "open"
  BY <1>1, <1>2 DEF CallOK
<1>6. Fresh(view[o], call[c].did) /\ FetchClean(fetch[o], call[c].did)
      /\ (call[c].kind = "ack" => call[c].did = call[c].ids)
  BY <1>1, <1>2 DEF CallOK
<1>7. \A d \in Calls : MovedCall(d)
  <2>1. CallOK(call'[c], status', view'[call'[c].by], fetch'[call'[c].by])
    BY <1>1, <1>4, <1>5 DEF CallOK
  <2> QED
    BY <1>1, <1>2, <1>3, <1>4, <2>1 DEF MovedCall
<1> DEFINE notice(k) == IF view[o].notice.kind = "failed" THEN view[o].notice ELSE [kind |-> k, call |-> c]
           told(k) == [view[o] EXCEPT !.selected = {}, !.notice = notice(k)]
           closed(v) == IF ScopeOf[o] = None THEN DriftPage(v.filter, None)
                        ELSE [v EXCEPT !.drawer = None, !.copy = "gone",
                                       !.items = listDrift(v.filter), !.listError = FALSE]
           Good(n) == \/ n = view[o].notice \/ ~Tells(n)
                      \/ n.call = c /\ (n.kind = "acked" => call[c].kind = "ack")
<1>8. Rows(view[o], w) /\ Good(w.notice)
  <2>1. call[c].kind \in Kinds /\ call[c].surface \in Surfaces
    BY <1>2 DEF Call
  <2>2. w = CASE call[c].kind = "resync" -> [view[o] EXCEPT !.notice = notice("resync")]
          [] call[c].kind = "heal" /\ call[c].surface = "table" ->
                told(IF call[c].runs = {} THEN "nothing" ELSE "healed")
          [] call[c].kind = "ack" /\ call[c].surface = "table" -> told("acked")
          [] call[c].kind = "heal" /\ call[c].surface = "drawer" -> closed(told("healed"))
          [] call[c].kind = "ack" /\ call[c].surface = "drawer" -> closed(view[o])
    BY DEF Settled
  <2>3. \A k \in {"healed", "nothing", "resync"} : Good(notice(k))
    BY DEF Tells
  <2>4. call[c].kind = "ack" => Good(notice("acked"))
    OBVIOUS
  <2> HIDE DEF notice, w, o
  <2>5. ASSUME NEW k
        PROVE  /\ told(k).items = view[o].items /\ told(k).listError = view[o].listError
               /\ told(k).filter = view[o].filter /\ told(k).notice = notice(k)
    BY <1>2 DEF View
  <2>6. ASSUME NEW k PROVE Rows(view[o], told(k))
    BY <2>5 DEF Rows
  <2>7. [view[o] EXCEPT !.notice = notice("resync")].notice = notice("resync")
        /\ Rows(view[o], [view[o] EXCEPT !.notice = notice("resync")])
    BY <1>2 DEF View, Rows
  <2>8. ASSUME NEW v, DOMAIN v = DOMAIN view[o]
        PROVE  OpenRows(closed(v).items) /\ (closed(v).notice = v.notice \/ ~Tells(closed(v).notice))
    <3>1. CASE closed(v) = DriftPage(v.filter, None)
      BY <3>1, PageNotices
    <3>2. CASE closed(v) = [v EXCEPT !.drawer = None, !.copy = "gone", !.items = listDrift(v.filter), !.listError = FALSE]
      <4>1. closed(v).items = listDrift(v.filter) /\ closed(v).notice = v.notice
        BY <1>2, <2>8, <3>2 DEF View
      <4> QED
        BY <4>1, ListOpen
    <3> QED
      BY <3>1, <3>2
  <2>9. DOMAIN told("healed") = DOMAIN view[o]
    BY <1>2 DEF View
  <2> HIDE DEF told, closed, Good
  <2>10. ASSUME NEW v, DOMAIN v = DOMAIN view[o], Good(v.notice)
         PROVE  Rows(view[o], closed(v)) /\ Good(closed(v).notice)
    BY <2>8, <2>10 DEF Rows, Good
  <2>11. Good(view[o].notice)
    BY DEF Good
  <2>12. CASE call[c].kind = "resync"
    BY <2>2, <2>3, <2>7, <2>12
  <2>13. CASE call[c].kind = "heal" /\ call[c].surface = "table"
    BY <2>2, <2>3, <2>5, <2>6, <2>13
  <2>14. CASE call[c].kind = "ack" /\ call[c].surface = "table"
    BY <2>2, <2>4, <2>5, <2>6, <2>14
  <2>15. CASE call[c].kind = "heal" /\ call[c].surface = "drawer"
    BY <2>2, <2>3, <2>5, <2>9, <2>10, <2>15
  <2>16. CASE call[c].kind = "ack" /\ call[c].surface = "drawer"
    BY <2>2, <2>10, <2>11, <2>16
  <2> QED
    BY <2>1, <2>12, <2>13, <2>14, <2>15, <2>16 DEF Kinds, Surfaces
<1> HIDE DEF w
<1>9. /\ \A p \in Operators \ {o} : view'[p] = view[p]
      /\ view'[o] = view[o] \/ view'[o] = w
  BY <1>2 DEF onSuccess, TypeOK, w
<1>10. Rows(view[o], view'[o]) /\ Good(view'[o].notice)
  BY <1>8, <1>9 DEF Rows
<1>11. Fresh(view'[o], call[c].did)
  BY <1>5, <1>6, <1>10 DEF Rows, Fresh, OpenRows
<1>12. ToldNotice(o)
  <2>1. CASE view'[o].notice = view[o].notice \/ ~Tells(view'[o].notice)
    BY <2>1 DEF ToldNotice
  <2>2. CASE view'[o].notice.call = c /\ (view'[o].notice.kind = "acked" => call[c].kind = "ack")
    <3>1. NoticeOK(call', view'[o], fetch'[o])
      BY <1>1, <1>4, <1>6, <1>11, <2>2 DEF NoticeOK
    <3> QED
      BY <3>1 DEF ToldNotice
  <2> QED
    BY <1>10, <2>1, <2>2
<1>13. Asks(fetch[o], view'[o], fetch'[o])
  BY <1>1 DEF Asks
<1> HIDE DEF o
<1> QED
  BY <1>1, <1>2, <1>7, <1>9, <1>10, <1>12, <1>13, TabNotices

(* The list query: an answer holds open findings only, so none that a         *)
(* mutation served before it did.                                             *)
LEMMA QueryNotices ==
    ASSUME TypeOK, NoticeInv, NEW o \in Operators, AnswerList(o)
    PROVE  NoticeInv'
<1>1. /\ fetch[o].phase = "requested" /\ fetch'[o].items = listDrift(fetch[o].filter) /\ fetch'[o].phase = "answered"
      /\ fetch'[o].filter = fetch[o].filter
      /\ \A p \in Operators \ {o} : fetch'[p] = fetch[p]
      /\ UNCHANGED <<status, call, view>>
  BY DEF AnswerList, TypeOK, Fetch, server
<1>2. ASSUME NEW did, \A f \in did : status[f] # "open" PROVE FetchClean(fetch'[o], did)
  BY <1>1, <1>2, ListOpen DEF FetchClean, OpenRows
<1>3. ASSUME NEW d \in Calls
      PROVE  CallOK(call'[d], status', view'[call'[d].by], fetch'[call'[d].by])
  <2>1. CallOK(call[d], status, view[call[d].by], fetch[call[d].by])
        /\ (call[d].phase # "unused" => call[d].by \in Operators)
    BY DEF NoticeInv
  <2>2. CASE call[d].phase = "unused"
    BY <1>1, <2>2 DEF CallOK
  <2>3. CASE call[d].phase # "unused" /\ call[d].by # o
    BY <1>1, <2>1, <2>3
  <2>4. CASE call[d].phase # "unused" /\ call[d].by = o
    <3>1. FetchClean(fetch'[o], call[d].did)
      BY <1>2, <2>1, <2>4 DEF CallOK
    <3> QED
      BY <1>1, <2>1, <2>4, <3>1 DEF CallOK
  <2> QED
    BY <2>2, <2>3, <2>4
<1>4. ASSUME NEW p \in Operators PROVE NoticeOK(call', view'[p], fetch'[p])
  <2>1. NoticeOK(call, view[p], fetch[p])
    BY DEF NoticeInv
  <2>2. CASE p # o
    BY <1>1, <2>1, <2>2
  <2>3. CASE p = o /\ Tells(view[o].notice)
    <3>1. view[o].notice.call \in Calls /\ call[view[o].notice.call].phase = "settled"
      BY <2>1, <2>3 DEF NoticeOK
    <3>2. \A f \in call[view[o].notice.call].did : status[f] # "open"
      BY <3>1 DEF NoticeInv, CallOK
    <3>3. FetchClean(fetch'[o], call[view[o].notice.call].did)
      BY <1>2, <3>2
    <3> QED
      BY <1>1, <2>1, <2>3, <3>3 DEF NoticeOK
  <2>4. CASE p = o /\ ~Tells(view[o].notice)
    BY <1>1, <2>4 DEF NoticeOK
  <2> QED
    BY <2>2, <2>3, <2>4
<1> QED
  BY <1>1, <1>3, <1>4 DEF NoticeInv


(* The fetch ends: an answer replaces the rows if the filter is still the     *)
(* same, a failure shows the error over them.                                 *)
LEMMA FetchedNotices ==
    ASSUME TypeOK, NoticeInv, NEW o \in Operators, ReceiveList(o) \/ FailList(o)
    PROVE  NoticeInv'
<1> DEFINE v == view[o]
           q == fetch[o]
           w == view'[o]
<1>1. v \in View /\ q \in Fetch /\ call \in [Calls -> Call]
  BY DEF TypeOK
<1>2. /\ UNCHANGED status /\ call' = Fetched(o)
      /\ fetch'[o] = NoFetch /\ \A p \in Operators \ {o} : fetch'[p] = fetch[p] /\ view'[p] = view[p]
  BY DEF ReceiveList, FailList, TypeOK, server
<1>3. /\ w.notice = v.notice /\ w.filter = v.filter
      /\ \/ q.phase = "answered" /\ q.filter = v.filter /\ w.items = q.items
         \/ q.filter = v.filter /\ w.listError
         \/ q.filter # v.filter /\ w.items = v.items /\ w.listError = v.listError
  <2>1. CASE ReceiveList(o) /\ q.filter = v.filter
    <3>1. w = [v EXCEPT !.items = q.items, !.listError = FALSE] /\ q.phase = "answered"
      BY <1>1, <2>1 DEF ReceiveList, TypeOK
    <3> HIDE DEF w, v, q
    <3> QED
      BY <1>1, <2>1, <3>1 DEF View
  <2>2. CASE ReceiveList(o) /\ q.filter # v.filter
    BY <2>2 DEF ReceiveList
  <2>3. CASE FailList(o)
    <3> DEFINE err == v.listError \/ q.filter = v.filter
    <3>1. w = [v EXCEPT !.listError = err]
      BY <1>1, <2>3 DEF FailList, TypeOK
    <3>2. v.listError \in BOOLEAN
      BY <1>1 DEF View
    <3>3. (q.filter = v.filter => err) /\ (q.filter # v.filter => err = v.listError)
      BY <3>2
    <3> HIDE DEF w, v, q, err
    <3>4. w.notice = v.notice /\ w.filter = v.filter /\ w.items = v.items /\ w.listError = err
      BY <1>1, <3>1 DEF View
    <3> QED
      BY <3>3, <3>4
  <2> QED
    BY <2>1, <2>2, <2>3
<1>4. \A d \in Calls : /\ call'[d].did = call[d].did /\ call'[d].ids = call[d].ids /\ call'[d].kind = call[d].kind
                       /\ call'[d].left = call[d].left /\ call'[d].by = call[d].by
                       /\ call'[d].phase = IF call[d].by = o /\ call[d].phase = "refetching" THEN "fetched" ELSE call[d].phase
  <2> SUFFICES ASSUME NEW d \in Calls
               PROVE  LET r == IF call[d].by = o /\ call[d].phase = "refetching"
                               THEN [call[d] EXCEPT !.phase = "fetched"] ELSE call[d]
                      IN  /\ r.did = call[d].did /\ r.ids = call[d].ids /\ r.kind = call[d].kind
                          /\ r.left = call[d].left /\ r.by = call[d].by
                          /\ r.phase = IF call[d].by = o /\ call[d].phase = "refetching" THEN "fetched" ELSE call[d].phase
    BY <1>2 DEF Fetched
  <2>1. call[d] \in Call
    BY <1>1
  <2> QED
    BY <2>1 DEF Call
<1>5. \A did : FetchClean(fetch'[o], did)
  BY <1>2 DEF FetchClean, NoFetch
<1> HIDE DEF v, q, w
<1>6. ASSUME NEW did, FetchClean(q, did), q.filter = v.filter \/ Fresh(v, did) PROVE Fresh(w, did)
  BY <1>3, <1>6 DEF FetchClean, Fresh
<1>7. ASSUME NEW d \in Calls
      PROVE  CallOK(call'[d], status', view'[call'[d].by], fetch'[call'[d].by])
  <2>1. CallOK(call[d], status, view[call[d].by], fetch[call[d].by])
        /\ (call[d].phase # "unused" => call[d].by \in Operators)
    BY DEF NoticeInv
  <2>2. CASE call[d].phase = "unused"
    BY <1>4, <2>2 DEF CallOK
  <2>3. CASE call[d].phase # "unused" /\ call[d].by # o
    BY <1>2, <1>4, <2>1, <2>3 DEF CallOK
  <2>4. CASE call[d].phase # "unused" /\ call[d].by = o
    <3>1. CallOK(call[d], status, v, q)
      BY <2>1, <2>4 DEF v, q
    <3>2. call[d].phase \in {"refetching", "fetched"} => Fresh(w, call[d].did) /\ call[d].left = {}
      BY <1>6, <2>4, <3>1 DEF CallOK, Fresh
    <3>3. CallOK(call'[d], status', w, fetch'[o])
      BY <1>2, <1>4, <1>5, <2>4, <3>1, <3>2 DEF CallOK
    <3> QED
      BY <1>4, <2>4, <3>3 DEF w
  <2> QED
    BY <2>2, <2>3, <2>4
<1>8. ASSUME NEW p \in Operators PROVE NoticeOK(call', view'[p], fetch'[p])
  <2>1. NoticeOK(call, view[p], fetch[p])
    BY DEF NoticeInv
  <2>2. CASE p # o
    <3>1. view'[p] = view[p] /\ fetch'[p] = fetch[p]
      BY <1>2, <2>2
    <3> QED
      BY <1>4, <2>1, <3>1 DEF NoticeOK
  <2>3. CASE p = o
    <3>1. NoticeOK(call, v, q)
      BY <2>1, <2>3 DEF v, q
    <3>2. NoticeOK(call', w, fetch'[o])
      BY <1>3, <1>4, <1>5, <1>6, <3>1 DEF NoticeOK
    <3> QED
      BY <2>3, <3>2 DEF w
  <2> QED
    BY <2>2, <2>3
<1>9. \A d \in Calls : call'[d].phase # "unused" => call'[d].by \in Operators
  BY <1>4 DEF NoticeInv
<1> QED
  BY <1>7, <1>8, <1>9 DEF NoticeInv

LEMMA OperatorNotices ==
    ASSUME TypeOK, NoticeInv, NEW o \in Operators, OperatorStep(o)
    PROVE  NoticeInv'
<1>1. view[o] \in View
  BY DEF TypeOK
<1>2. ASSUME NEW surface \in Surfaces, NEW kind \in Kinds, NEW ids, mutate(o, surface, kind, ids) PROVE NoticeInv'
  BY <1>2, MutateNotices
<1>3. CASE healIds(o) \/ ackIds(o) \/ ResyncNow(o)
  BY <1>2, <1>3 DEF healIds, ackIds, ResyncNow, Kinds, Surfaces
<1>4. CASE (\E k \in {"heal", "ack"} : DrawerMutate(o, k)) \/ (\E f \in Findings : RowAcknowledge(o, f))
  BY <1>2, <1>4 DEF DrawerMutate, RowAcknowledge, Kinds, Surfaces
<1>5. ASSUME NEW f \in Findings, onToggle(o, f) PROVE NoticeInv'
  <2> DEFINE selected == IF f \in view[o].selected THEN view[o].selected \ {f} ELSE view[o].selected \cup {f}
             w == [view[o] EXCEPT !.selected = selected]
  <2>1. view' = [view EXCEPT ![o] = w] /\ UNCHANGED <<status, call, fetch>>
    BY <1>5 DEF onToggle, TypeOK, server
  <2>2. w.items = view[o].items /\ w.listError = view[o].listError /\ w.filter = view[o].filter
        /\ w.notice = view[o].notice
    BY <1>1 DEF View
  <2> HIDE DEF w
  <2>3. Rows(view[o], w)
    BY <2>2 DEF Rows
  <2> QED
    BY <2>1, <2>2, <2>3, ViewNotices
<1>6. CASE closeDrawer(o) \/ (\E f \in Findings : OpenFinding(o, f)) \/ (\E filter \in FilterInputs : applyFilter(o, filter))
  BY <1>6, NavigateNotices DEF closeDrawer, OpenFinding, applyFilter
<1>7. CASE WindowFocus(o)
  <2>1. /\ status' = status /\ call' = call /\ view' = view
        /\ fetch'[o].phase = "requested" /\ fetch'[o].filter = view[o].filter
        /\ \A p \in Operators \ {o} : fetch'[p] = fetch[p]
    BY <1>7 DEF WindowFocus, Requested, TypeOK, server
  <2>2. Rows(view[o], view'[o]) /\ Asks(fetch[o], view'[o], fetch'[o]) /\ ToldNotice(o)
    BY <2>1 DEF Rows, Asks, ToldNotice
  <2>3. \A d \in Calls : MovedCall(d)
    BY <2>1 DEF MovedCall
  <2> QED
    BY <2>1, <2>2, <2>3, TabNotices
<1> QED
  BY <1>3, <1>4, <1>5, <1>6, <1>7 DEF OperatorStep

LEMMA NextNotices == TypeOK /\ NoticeInv /\ [Next]_vars => NoticeInv'
<1> SUFFICES ASSUME TypeOK, NoticeInv, [Next]_vars PROVE NoticeInv'
  OBVIOUS
<1>1. ASSUME NEW c \in Calls, LoseCall(c) PROVE NoticeInv'
  BY <1>1, FailNotices DEF LoseCall
<1>2. ASSUME NEW o \in Operators, FetchFinding(o) PROVE NoticeInv'
  <2> DEFINE w == [view[o] EXCEPT !.copy = status[view[o].drawer]]
  <2>1. view[o] \in View
    BY DEF TypeOK
  <2>2. view' = [view EXCEPT ![o] = w] /\ UNCHANGED <<status, call, fetch>>
    BY <1>2 DEF FetchFinding, TypeOK, server
  <2>3. w.items = view[o].items /\ w.listError = view[o].listError /\ w.filter = view[o].filter
        /\ w.notice = view[o].notice
    BY <2>1 DEF View
  <2> HIDE DEF w
  <2>4. Rows(view[o], w)
    BY <2>3 DEF Rows
  <2> QED
    BY <2>2, <2>3, <2>4, ViewNotices
<1>3. CASE UNCHANGED vars
  BY <1>3 DEF vars, server, NoticeInv
<1> QED
  BY <1>1, <1>2, <1>3, ExecuteNotices, ReceiveNotices, SuccessNotices, QueryNotices, FetchedNotices,
     OperatorNotices DEF Next, SystemStep

LEMMA InitNotices == Init => NoticeInv
<1> SUFFICES ASSUME Init PROVE NoticeInv
  OBVIOUS
<1>1. \A c \in Calls : call[c].phase = "unused"
  BY DEF Init, NoCall
<1>2. \A o \in Operators : ~Tells(view[o].notice)
  BY PageNotices DEF Init
<1> QED
  BY <1>1, <1>2 DEF NoticeInv, CallOK, NoticeOK

(* Under a success notice the list never shows a finding the notice says was  *)
(* dealt with, unless the refresh failed and the view says so: a fetch that   *)
(* was under way when the mutation was served is cancelled, never joined      *)
(* (onSuccess of useHeal and useAcknowledge, invalidateQueries).              *)
THEOREM NoticesMatch == Spec => []NoticeMatchesList
<1>1. NoticeInv => NoticeMatchesList
  BY DEF NoticeInv, NoticeOK, Tells, Fresh, NoticeMatchesList
<1> QED
  BY <1>1, InitType, NextType, InitNotices, NextNotices, PTL DEF Spec

(* "n acknowledged" stands for the whole selection, however many requests the *)
(* loop of useAcknowledge took and whoever healed a finding meanwhile.        *)
THEOREM AckedAll == Spec => []AckedMeansAll
<1>1. NoticeInv => AckedMeansAll
  BY DEF NoticeInv, NoticeOK, Tells, AckedMeansAll
<1> QED
  BY <1>1, InitType, NextType, InitNotices, NextNotices, PTL DEF Spec

================================================================================
