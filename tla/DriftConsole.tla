----------------------------- MODULE DriftConsole -----------------------------
(***************************************************************************)
(* The drift screens of the console: the server's store of findings        *)
(* (features/drift/server.ts) and one browser tab per operator             *)
(* (drift-view.tsx, finding-drawer.tsx, hooks.ts), which act on rows they  *)
(* loaded earlier.  A mutation is a call that is sent, executed by the     *)
(* server, answered, and settled in the tab only after the invalidated     *)
(* list has been fetched again; other tabs, a second call of the same tab, *)
(* or a lost answer can come between any two of these.                     *)
(***************************************************************************)
EXTENDS Integers, FiniteSets

CONSTANTS
    Operators,      \* one browser tab each
    Findings,       \* ids of the seeded findings
    Tenants,
    TenantOf,       \* Findings -> Tenants
    SeverityOf,     \* Findings -> Severities
    AutoHealed,     \* findings of an autoHeal tenant that carry a reconcileRunId
    ScopeOf,        \* Operators -> Tenants \cup {None}: /tenants/{slug}/drift or /drift
    MaxCalls,       \* bounds the mutations the tabs start
    MaxClicks,      \* bounds what the operators do with mouse, keyboard and window focus
    Uses,           \* Operators -> the controls of the page each may use (bounds them)
    FilterInputs,   \* the filters an operator may choose (bounds them)
    None            \* no tenant, no severity, no finding

Severities == {"high", "medium", "low"}
Calls == 1..MaxCalls                \* mutations in the order they are started; 0 is none

DriftListFilter == [tenant : Tenants \cup {None}, severity : Severities \cup {None}]
RawSeverities == Severities \cup {None, "unknown"}    \* what a URL may hold

ASSUME DriftAssumption ==
    /\ IsFiniteSet(Findings)
    /\ FilterInputs \subseteq [tenant : Tenants \cup {None}, severity : RawSeverities]
    /\ TenantOf \in [Findings -> Tenants] /\ SeverityOf \in [Findings -> Severities]
    /\ AutoHealed \subseteq Findings
    /\ ScopeOf \in [Operators -> Tenants \cup {None}]
    /\ None \notin Tenants \cup Severities \cup Findings
    /\ MaxCalls \in Nat /\ MaxClicks \in Nat

VARIABLES
    status,         \* store.findings; "gone" when the store has no such entry
    healedToday,    \* store.healedToday above HEALED_TODAY_BASELINE
    lastResync,     \* store.lastResyncAt, as the number of resyncs since the seed
    call,           \* the mutations of all tabs
    clicks,         \* how often the operators acted
    view,           \* client state of each tab
    fetch           \* the fetch of each tab's list query

server == <<status, healedToday, lastResync>>
vars == <<server, call, clicks, view, fetch>>

DriftStatus == {"open", "acknowledged", "gone"}
Surfaces == {"table", "drawer"}     \* each has its own useHeal and useAcknowledge
Kinds == {"heal", "ack", "resync"}

-----------------------------------------------------------------------------
(* The server: every operation below is synchronous between two awaits. *)

driftFixtures == [f \in Findings |-> "open"]

DriftFinding(f) == [tenant |-> TenantOf[f], severity |-> SeverityOf[f], status |-> status[f],
                    autoHeal |-> f \in AutoHealed]

openFindings(tenant) ==
    {f \in Findings : DriftFinding(f).status = "open" /\ tenant \in {None, DriftFinding(f).tenant}}

listDrift(filter) ==
    {f \in openFindings(filter.tenant) : filter.severity \in {None, DriftFinding(f).severity}}

(* Invalid search parameters are dropped, never an error. *)
driftFilterFromSearch(raw) ==
    [raw EXCEPT !.severity = IF @ \in Severities THEN @ ELSE None]

rowActionFor(f) ==
    IF DriftFinding(f).severity = "low" THEN "ack"
    ELSE IF DriftFinding(f).autoHeal THEN "view-reconcile" ELSE "heal"

HealsMissing(c) == {f \in call[c].ids : status[f] # "acknowledged"}      \* mutant
HealsAcknowledged(c) == {f \in call[c].ids : status[f] # "gone"}         \* mutant
Healable(c) == {f \in call[c].ids : status[f] = "open"}

(* POST /api/drift/heal: ids that are missing or not open are skipped. *)
healFindings(c) ==
    LET closed == Healable(c)
    IN  /\ call[c].kind = "heal" /\ call[c].phase = "sent"
        /\ status' = [f \in Findings |-> IF f \in closed THEN "gone" ELSE status[f]]
        /\ healedToday' = healedToday + Cardinality(closed)
        /\ call' = [call EXCEPT ![c].phase = "answered", ![c].ok = TRUE, ![c].left = {},
                                ![c].did = closed, ![c].runs = {TenantOf[f] : f \in closed}]
        /\ UNCHANGED <<lastResync, view, fetch>>

(* POST /api/drift/{id}/acknowledge, once per id of the mutation's loop: 404  *)
(* for a finding that has left the store, and the loop ends there.            *)
NotFoundSkipped(r, f) == [r EXCEPT !.phase = "answered", !.ok = TRUE, !.left = @ \ {f}]   \* mutant
NotFound(r, f) == [r EXCEPT !.phase = "answered", !.ok = FALSE]

acknowledgeFinding(c, f) ==
    /\ call[c].kind = "ack" /\ call[c].phase = "sent" /\ f \in call[c].left
    /\ IF status[f] = "gone"
       THEN /\ call' = [call EXCEPT ![c] = NotFound(@, f)]
            /\ UNCHANGED status
       ELSE /\ status' = [status EXCEPT ![f] = "acknowledged"]
            /\ call' = [call EXCEPT ![c].phase = "answered", ![c].ok = TRUE,
                                    ![c].left = @ \ {f}, ![c].did = @ \cup {f}]
    /\ UNCHANGED <<healedToday, lastResync, view, fetch>>

(* POST /api/drift/resync *)
resyncAll(c) ==
    /\ call[c].kind = "resync" /\ call[c].phase = "sent"
    /\ lastResync' = lastResync + 1
    /\ call' = [call EXCEPT ![c].phase = "answered", ![c].ok = TRUE]
    /\ UNCHANGED <<status, healedToday, view, fetch>>

-----------------------------------------------------------------------------
(* The tab: what DriftView and FindingDrawer show and what they let start. *)

NoCall == [kind |-> "heal", by |-> None, surface |-> "table", ids |-> {}, left |-> {}, did |-> {},
           runs |-> {}, ok |-> FALSE, phase |-> "unused"]
NoNotice == [kind |-> "none", call |-> 0]
NoFetch == [phase |-> "idle", filter |-> [tenant |-> None, severity |-> None], items |-> {}]

(* The page fetches the list on the server and mounts a fresh DriftView. *)
DriftPage(filter, f) ==
    [filter |-> filter, items |-> listDrift(filter), listError |-> FALSE, selected |-> {}, drawer |-> f,
     copy |-> IF f = None THEN "gone" ELSE status[f], notice |-> NoNotice,
     latest |-> [s \in Surfaces |-> [k \in Kinds |-> 0]]]

BaseFilter(o) == [tenant |-> ScopeOf[o], severity |-> None]

(* A tab is opened on the list, or by a link on the drawer of one finding. *)
Init ==
    /\ status = driftFixtures /\ healedToday = 0 /\ lastResync = 0
    /\ call = [c \in Calls |-> NoCall] /\ clicks = 0
    /\ \E linked \in [Operators -> Findings \cup {None}] :
          /\ \A o \in Operators : \/ linked[o] = None
                                  \/ "drawer" \in Uses[o] /\ linked[o] \in listDrift(BaseFilter(o))
          /\ view = [o \in Operators |->
                        DriftPage(BaseFilter(o), linked[o])]
    /\ fetch = [o \in Operators |-> NoFetch]

Pending(o, surface, kind) ==
    LET c == view[o].latest[surface][kind]
    IN  c # 0 /\ call[c].phase # "settled"
busy(o, surface) == Pending(o, surface, "heal") \/ Pending(o, surface, "ack")

(* A stale selection (row healed elsewhere, filter changed) must not count. *)
liveSelected(o) == view[o].selected \cap view[o].items

(* inList ?? findingQuery.data: a row of the list is open by definition. *)
openFindingStatus(o) == IF view[o].drawer \in view[o].items THEN "open" ELSE view[o].copy

(* heal.mutate / ack.mutate / resync.mutate: the observer follows its latest  *)
(* mutation; the table's handlers clear the notice and the error shown in its *)
(* place.                                                                     *)
mutate(o, surface, kind, ids) ==
    \E c \in Calls :
        /\ call[c].phase = "unused" /\ \A d \in 1..c - 1 : call[d].phase # "unused"
        /\ call' = [call EXCEPT ![c] = [NoCall EXCEPT !.kind = kind, !.by = o, !.ids = ids,
                                                      !.surface = surface, !.left = ids,
                                                      !.phase = "sent"]]
        /\ view' = [view EXCEPT ![o].latest[surface][kind] = c,
                                ![o].notice = IF surface = "table" THEN NoNotice ELSE @]
        /\ UNCHANGED <<server, fetch>>

SelectionFooter(o) == liveSelected(o) # {} /\ ~busy(o, "table")
healIds(o) == SelectionFooter(o) /\ mutate(o, "table", "heal", liveSelected(o))
ackIds(o) == SelectionFooter(o) /\ mutate(o, "table", "ack", liveSelected(o))
(* The row's Ack button is not disabled while another mutation is pending. *)
RowAcknowledge(o, f) == /\ f \in view[o].items /\ rowActionFor(f) = "ack"
                        /\ mutate(o, "table", "ack", {f})
DrawerMutate(o, kind) ==
    /\ view[o].drawer # None /\ ~busy(o, "drawer") /\ openFindingStatus(o) = "open"
    /\ mutate(o, "drawer", kind, {view[o].drawer})
ResyncNow(o) == ~Pending(o, "table", "resync") /\ mutate(o, "table", "resync", {})

onToggle(o, f) ==
    /\ f \in view[o].items
    /\ view' = [view EXCEPT ![o].selected = IF f \in @ THEN @ \ {f} ELSE @ \cup {f}]
    /\ UNCHANGED <<server, call, fetch>>

(* Moving between /drift and /drift/{id} mounts a new view; the tenant-scoped *)
(* drawer is a search parameter of the same page, whose state survives.       *)
Navigate(o, filter, f) ==
    IF ScopeOf[o] = None /\ (view[o].drawer = None) # (f = None)
    THEN DriftPage(filter, f)
    ELSE [view[o] EXCEPT !.filter = filter, !.items = listDrift(filter), !.drawer = f,
                         !.listError = FALSE, !.copy = IF f = None THEN "gone" ELSE status[f]]

(* The finding's page is 404 for a finding that is gone; the tenant's page     *)
(* does not open a finding of another tenant.                                  *)
DriftFindingPage(f) == status[f] # "gone"
TenantDriftPage(o, f) == ScopeOf[o] = DriftFinding(f).tenant

OpenFinding(o, f) ==
    /\ f \in view[o].items /\ view[o].drawer = None
    /\ DriftFindingPage(f) /\ (ScopeOf[o] = None \/ TenantDriftPage(o, f))
    /\ view' = [view EXCEPT ![o] = Navigate(o, view[o].filter, f)]
    /\ UNCHANGED <<server, call, fetch>>

closeDrawer(o) ==
    /\ view[o].drawer # None
    /\ view' = [view EXCEPT ![o] = Navigate(o, view[o].filter, None)]
    /\ UNCHANGED <<server, call, fetch>>

(* DriftFilters.apply: leaves any open drawer; a scoped tab keeps its tenant. *)
applyFilter(o, raw) ==
    LET filter == driftFilterFromSearch(raw)
    IN  /\ filter # view[o].filter /\ ScopeOf[o] \in {None, filter.tenant}
        /\ view' = [view EXCEPT ![o] = Navigate(o, filter, None)]
        /\ UNCHANGED <<server, call, fetch>>

-----------------------------------------------------------------------------
(* The query cache *)

(* A refetch on window focus joins a fetch in flight; an invalidation cancels *)
(* it and starts over, so an answer older than the mutation is dropped.       *)
Requested(o) == [phase |-> "requested", filter |-> view[o].filter, items |-> {}]

WindowFocus(o) ==
    /\ fetch[o].phase = "idle"
    /\ fetch' = [fetch EXCEPT ![o] = Requested(o)]
    /\ UNCHANGED <<server, call, view>>

InvalidateJoins(o) ==                             \* mutant: joins the fetch in flight
    IF fetch[o].phase = "idle" THEN [fetch EXCEPT ![o] = Requested(o)] ELSE fetch
invalidateQueries(o) == [fetch EXCEPT ![o] = Requested(o)]

AnswerList(o) ==
    /\ fetch[o].phase = "requested"
    /\ fetch' = [fetch EXCEPT ![o].phase = "answered", ![o].items = listDrift(fetch[o].filter)]
    /\ UNCHANGED <<server, call, view>>

(* The mutations whose onSuccess awaits the invalidated list go on. *)
Fetched(o) == [c \in Calls |-> IF call[c].by = o /\ call[c].phase = "refetching"
                               THEN [call[c] EXCEPT !.phase = "fetched"] ELSE call[c]]

ReceiveList(o) ==
    /\ fetch[o].phase = "answered"
    /\ fetch' = [fetch EXCEPT ![o] = NoFetch]
    /\ view' = IF fetch[o].filter = view[o].filter
               THEN [view EXCEPT ![o].items = fetch[o].items, ![o].listError = FALSE]
               ELSE view
    /\ call' = Fetched(o)
    /\ UNCHANGED server

(* A refetch that fails keeps the rows and shows "last refresh failed". *)
FailList(o) ==
    /\ fetch[o].phase = "requested"
    /\ fetch' = [fetch EXCEPT ![o] = NoFetch]
    /\ view' = [view EXCEPT ![o].listError = @ \/ fetch[o].filter = view[o].filter]
    /\ call' = Fetched(o)
    /\ UNCHANGED server

(* useDriftFinding fetches the drawer's finding when it is not a row. *)
FetchFinding(o) ==
    LET f == view[o].drawer
    IN  /\ f # None /\ f \notin view[o].items /\ status[f] # "gone" /\ view[o].copy # status[f]
        /\ view' = [view EXCEPT ![o].copy = status[f]]
        /\ UNCHANGED <<server, call, fetch>>

Done(r) == [r EXCEPT !.phase = "settled", !.ok = FALSE, !.left = {}, !.runs = {}]

Heard(c) == view[call[c].by].latest[call[c].surface][call[c].kind] = c

(* onError: the table shows the error instead of a notice until the next      *)
(* handler clears it; the drawer shows its own below the heal plan.           *)
fail(c) ==
    IF Heard(c) /\ call[c].surface = "table"
    THEN [view EXCEPT ![call[c].by].notice = [kind |-> "failed", call |-> c]] ELSE view

(* The answer reaches the tab: the acknowledge loop goes on, or the hook's    *)
(* onSuccess invalidates the drift queries, or onError reports the failure.   *)
LoopStops(c) == FALSE                             \* mutant: the loop is not resumed
LoopGoesOn(c) == call[c].ok /\ call[c].left # {}

ReceiveAnswer(c) ==
    LET o == call[c].by
    IN  /\ call[c].phase = "answered"
        /\ \/ /\ LoopGoesOn(c)
              /\ call' = [call EXCEPT ![c].phase = "sent"]
              /\ UNCHANGED <<view, fetch>>
           \/ /\ call[c].ok /\ call[c].left = {}
              /\ call' = [call EXCEPT ![c].phase = "refetching"]
              /\ fetch' = invalidateQueries(o)
              /\ UNCHANGED view
           \/ /\ ~call[c].ok
              /\ call' = [call EXCEPT ![c] = Done(@)]
              /\ view' = fail(c)
              /\ UNCHANGED fetch
        /\ UNCHANGED server

(* The request or its answer is lost: fetch rejects, the mutation fails. *)
LoseCall(c) ==
    /\ call[c].phase \in {"sent", "answered"}
    /\ call' = [call EXCEPT ![c] = Done(@)]
    /\ view' = fail(c)
    /\ UNCHANGED <<server, fetch>>

(* The refetch is over: the mutation is a success and the callbacks of the    *)
(* latest mutate run, if its view is still mounted.                           *)
Settled(o, c) ==
    LET notice(k) == IF view[o].notice.kind = "failed" THEN view[o].notice
                     ELSE [kind |-> k, call |-> c]
        told(k) == [view[o] EXCEPT !.selected = {}, !.notice = notice(k)]
        closed(v) == IF ScopeOf[o] = None THEN DriftPage(v.filter, None)
                     ELSE [v EXCEPT !.drawer = None, !.copy = "gone",
                                    !.items = listDrift(v.filter), !.listError = FALSE]
    IN  CASE call[c].kind = "resync" -> [view[o] EXCEPT !.notice = notice("resync")]
          [] call[c].kind = "heal" /\ call[c].surface = "table" ->
                told(IF call[c].runs = {} THEN "nothing" ELSE "healed")
          [] call[c].kind = "ack" /\ call[c].surface = "table" -> told("acked")
          [] call[c].kind = "heal" /\ call[c].surface = "drawer" -> closed(told("healed"))
          [] call[c].kind = "ack" /\ call[c].surface = "drawer" -> closed(view[o])

onSuccess(c) ==
    LET o == call[c].by
    IN  /\ call[c].phase = "fetched"
        /\ call' = [call EXCEPT ![c] = Done(@)]
        /\ view' = IF Heard(c) THEN [view EXCEPT ![o] = Settled(o, c)] ELSE view
        /\ UNCHANGED <<server, fetch>>

-----------------------------------------------------------------------------
Execute(c) == healFindings(c) \/ (\E f \in Findings : acknowledgeFinding(c, f)) \/ resyncAll(c)

SystemStep ==
    \/ \E c \in Calls : \/ healFindings(c) \/ resyncAll(c)
                        \/ \E f \in Findings : acknowledgeFinding(c, f)
                        \/ ReceiveAnswer(c) \/ LoseCall(c) \/ onSuccess(c)
    \/ \E o \in Operators : AnswerList(o) \/ ReceiveList(o) \/ FailList(o) \/ FetchFinding(o)

OperatorStep(o) ==
    \/ /\ "table" \in Uses[o]
       /\ healIds(o) \/ ackIds(o) \/ \E f \in Findings : onToggle(o, f)
    \/ /\ "drawer" \in Uses[o]
       /\ \/ \E k \in {"heal", "ack"} : DrawerMutate(o, k)
          \/ closeDrawer(o) \/ \E f \in Findings : OpenFinding(o, f)
    \/ "row" \in Uses[o] /\ \E f \in Findings : RowAcknowledge(o, f)
    \/ "filter" \in Uses[o] /\ \E filter \in FilterInputs : applyFilter(o, filter)
    \/ "resync" \in Uses[o] /\ ResyncNow(o)
    \/ "focus" \in Uses[o] /\ WindowFocus(o)

Next ==
    \/ SystemStep /\ UNCHANGED clicks
    \/ /\ clicks < MaxClicks /\ clicks' = clicks + 1
       /\ \E o \in Operators : OperatorStep(o)

(* Requests are served, answers are delivered or fail, promises resolve. *)
Fairness ==
    /\ \A c \in Calls : /\ WF_vars(Execute(c) /\ UNCHANGED clicks)
                        /\ WF_vars(ReceiveAnswer(c) /\ UNCHANGED clicks)
                        /\ WF_vars(onSuccess(c) /\ UNCHANGED clicks)
    /\ \A o \in Operators : /\ WF_vars(AnswerList(o) /\ UNCHANGED clicks)
                            /\ WF_vars(ReceiveList(o) /\ UNCHANGED clicks)

Spec == Init /\ [][Next]_vars /\ Fairness

-----------------------------------------------------------------------------
(* Properties.  The field did of a call is a history: the findings the server *)
(* closed or acknowledged for it.                                             *)

Call == [kind : Kinds, by : Operators \cup {None}, surface : Surfaces, ids : SUBSET Findings,
         left : SUBSET Findings, did : SUBSET Findings, runs : SUBSET Tenants, ok : BOOLEAN,
         phase : {"unused", "sent", "answered", "refetching", "fetched", "settled"}]
View == [filter : DriftListFilter, items : SUBSET Findings, listError : BOOLEAN,
         selected : SUBSET Findings, drawer : Findings \cup {None}, copy : DriftStatus,
         notice : [kind : {"none", "healed", "nothing", "acked", "resync", "failed"}, call : 0..MaxCalls],
         latest : [Surfaces -> [Kinds -> 0..MaxCalls]]]
Fetch == [phase : {"idle", "requested", "answered"}, filter : DriftListFilter,
          items : SUBSET Findings]

(* Every variable keeps the shape the store, the query cache and the views give it. *)
TypeOK ==
    /\ status \in [Findings -> DriftStatus]
    /\ healedToday \in Nat /\ lastResync \in Nat
    /\ clicks \in 0..MaxClicks
    /\ call \in [Calls -> Call] /\ view \in [Operators -> View] /\ fetch \in [Operators -> Fetch]

(* healFindings under overlapping selections, repeated clicks and retries after *)
(* a lost answer: each finding that left the store was closed by one heal, and  *)
(* the "Healed today" figure counts each of them once.                          *)
HealedOnce ==
    LET heals == {c \in Calls : call[c].kind = "heal"}
    IN  /\ \A f \in Findings : status[f] = "gone" <=> \E c \in heals : f \in call[c].did
        /\ \A c, d \in heals : c # d => call[c].did \cap call[d].did = {}
        /\ healedToday = Cardinality({f \in Findings : status[f] = "gone"})

(* acknowledgeFinding and healFindings race on one finding: what one operator   *)
(* accepted is never closed or reopened by the stale selection of another.      *)
AcceptedStaysAccepted ==
    [][\A f \in Findings : status[f] = "acknowledged" => status'[f] = "acknowledged"]_vars

(* A success notice is shown only after the invalidated list came back, so the  *)
(* rows under it never include a finding the notice says was dealt with, unless *)
(* that refresh failed and the view says so.                                    *)
NoticeMatchesList ==
    \A o \in Operators :
        view[o].notice.kind \in {"healed", "acked"} /\ ~view[o].listError
            => call[view[o].notice.call].did \cap view[o].items = {}

(* useAcknowledge posts one request per finding: "n acknowledged" is shown only *)
(* when the store took every one of them, never after a part of the loop.       *)
AckedMeansAll ==
    \A o \in Operators :
        LET n == view[o].notice
        IN  n.kind = "acked" => call[n.call].did = call[n.call].ids

(* Heal and Acknowledge buttons are disabled while a mutation is pending; it    *)
(* always settles, so they are never disabled for good.                         *)
BusyEnds == \A c \in Calls : call[c].phase = "sent" ~> call[c].phase = "settled"
=============================================================================
