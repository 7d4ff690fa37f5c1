----------------------------- MODULE AuditConsole -----------------------------
(***************************************************************************)
(* Screen 17 and the platform /audit page: the append-only stream of audit *)
(* events, newest first, loaded page by page behind an offset cursor; the  *)
(* filters and the selected event in the URL; and the request for an       *)
(* export.  Events are fixtures and do not change; what interleaves are    *)
(* the operator's clicks, the navigations they start, the page fetches of  *)
(* the infinite query and the answers that are late or lost.               *)
(***************************************************************************)
EXTENDS Integers, Sequences, FiniteSets

CONSTANTS
    AuditTabs,
    AuditScope,     \* AuditTabs -> the tenant of /tenants/{slug}/audit-events, NoValue for /audit
    AuditTenants,   \* the tenants findTenant knows
    AuditEvents,    \* AUDIT_EVENTS
    AUDIT_PAGE_SIZE,
    AuditLinks,     \* the search parameters a link may hold
    AuditPills,     \* choices of the pills, as <<parameter, value>>
    MaxAuditClicks, \* bound: how often the operators act
    MaxAuditLost,   \* bound: answers that never arrive
    NoValue

AuditActions == {"SpecUpdated", "ReconcileSucceeded", "ReconcileDegraded", "ReconcileFailed",
                 "DriftDetected", "DriftHealed", "DriftAcknowledged", "RelationsWritten",
                 "TupleWritten", "IdpSecretRotated", "CheckExplained", "TenantCreated"}

(* ids stand in the order localeCompare gives them *)
ASSUME AuditAssumption ==
    /\ IsFiniteSet(AuditEvents)
    /\ \A e \in AuditEvents : /\ e.id \in Nat \ {0} /\ e.at \in Nat
                              /\ e.tenant \in AuditTenants /\ e.action \in AuditActions
    /\ \A d, e \in AuditEvents : d.id = e.id => d = e
    /\ AUDIT_PAGE_SIZE \in Nat \ {0}
    /\ AuditScope \in [AuditTabs -> AuditTenants \cup {NoValue}]
    /\ NoValue \notin AuditTenants \cup Nat \cup AuditActions

VARIABLES
    view,       \* per tab, the AuditView: URL, filter, pages, selected event, export notice
    nav,        \* per tab, the search parameters of a router.replace under way
    fetch,      \* per tab, the fetch of the infinite query
    exportReq,  \* per tab, the export mutation
    exports,    \* the server's exports, in the order they were minted
    auditClicks, auditLost

auditVars == <<view, nav, fetch, exportReq, exports, auditClicks, auditLost>>

-----------------------------------------------------------------------------
(* The server *)

Newer(d, e) == d.at > e.at \/ (d.at = e.at /\ d.id < e.id)

Filtered(f) == {e \in AuditEvents : /\ f.tenant \in {NoValue, e.tenant}
                                    /\ f.actor \in {NoValue, e.actor}
                                    /\ f.action \in {NoValue, e.action}}
FixtureOrder(f) ==                                                              \* mutant
    LET S == Filtered(f)
    IN  [i \in 1..Cardinality(S) |-> CHOOSE e \in S : Cardinality({d \in S : d.id < e.id}) = i - 1]
Stream(f) ==
    LET S == Filtered(f)
    IN  [i \in 1..Cardinality(S) |-> CHOOSE e \in S : Cardinality({d \in S : Newer(d, e)}) = i - 1]

(* One page from the offset on; NoValue for the cursor of the last one. *)
listAuditEvents(f, offset) ==
    LET all == Stream(f)
        upTo == IF offset + AUDIT_PAGE_SIZE < Len(all) THEN offset + AUDIT_PAGE_SIZE ELSE Len(all)
    IN  [items |-> SubSeq(all, offset + 1, upTo), nextCursor |-> IF upTo < Len(all) THEN upTo ELSE NoValue]

(* The tenant of the path, or of the link; a tenant nobody knows and an action *)
(* outside the enumeration are dropped.                                        *)
auditFilterFromSearch(t, url) ==
    [tenant |-> IF AuditScope[t] # NoValue THEN AuditScope[t]
                ELSE IF url.tenant \in AuditTenants THEN url.tenant ELSE NoValue,
     actor |-> url.actor,
     action |-> IF url.action \in AuditActions THEN url.action ELSE NoValue]

ReplayOf(req) == {i \in DOMAIN exports : exports[i] = [tenant |-> req.tenant, key |-> req.key]}

(* requestAuditExport: a mutation may be delivered more than once. *)
requestAuditExport(t) ==
    LET req == exportReq[t]
    IN  /\ req.phase = "sent"
        /\ \E again \in BOOLEAN, i \in (IF ReplayOf(req) = {} THEN {Len(exports) + 1} ELSE ReplayOf(req)) :
              /\ exports' = IF i \in DOMAIN exports THEN exports
                            ELSE Append(exports, [tenant |-> req.tenant, key |-> req.key])
              /\ exportReq' = [exportReq EXCEPT ![t].phase = IF again THEN "sent" ELSE "answered", ![t].result = i]
        /\ UNCHANGED <<view, nav, fetch, auditClicks, auditLost>>

-----------------------------------------------------------------------------
(* The view *)

Blank == [tenant |-> NoValue, actor |-> NoValue, action |-> NoValue, event |-> NoValue]
FirstPage(f) == <<listAuditEvents(f, 0)>>
Idle == [phase |-> "idle", filter |-> Blank, pages |-> <<>>, want |-> 0, older |-> FALSE]
NoExport == [phase |-> "idle", tenant |-> NoValue, key |-> 0, result |-> 0]

Opened(t, url) ==
    LET f == auditFilterFromSearch(t, url)
    IN  [url |-> url, filter |-> f, pages |-> FirstPage(f), selectedId |-> url.event,
         export |-> 0, exportFor |-> NoValue, failed |-> FALSE]

AuditInit ==
    /\ view = [t \in AuditTabs |-> Opened(t, Blank)]
    /\ nav = [t \in AuditTabs |-> NoValue] /\ fetch = [t \in AuditTabs |-> Idle]
    /\ exportReq = [t \in AuditTabs |-> NoExport] /\ exports = <<>>
    /\ auditClicks = 0 /\ auditLost = 0

(* Everything on screen, in order, and whether "Load older" is offered. *)
shown(pages) == {e \in AuditEvents : \E k \in DOMAIN pages : \E j \in DOMAIN pages[k].items : pages[k].items[j] = e}
hasNextPage(pages) == pages[Len(pages)].nextCursor # NoValue

(* A fresh load of the page. *)
openAudit(t, url) ==
    /\ view' = [view EXCEPT ![t] = Opened(t, url)] /\ nav' = [nav EXCEPT ![t] = NoValue]
    /\ fetch' = [fetch EXCEPT ![t] = Idle] /\ exportReq' = [exportReq EXCEPT ![t] = NoExport]
    /\ UNCHANGED exports

(* select and setParam start a navigation from the URL of the last render: one *)
(* that is still under way is superseded.                                      *)
select(t, e) ==
    /\ e \in shown(view[t].pages)
    /\ view' = [view EXCEPT ![t].selectedId = e.id]
    /\ nav' = [nav EXCEPT ![t] = [view[t].url EXCEPT !.event = e.id]]
    /\ UNCHANGED <<fetch, exportReq, exports>>
setParam(t, name, value) ==
    /\ name = "tenant" => AuditScope[t] = NoValue
    /\ view[t].filter[name] # value
    /\ nav' = [nav EXCEPT ![t] = [view[t].url EXCEPT ![name] = value, !.event = NoValue]]
    /\ UNCHANGED <<view, fetch, exportReq, exports>>

(* The server renders the page for the new URL and its first page replaces     *)
(* what the query held; the component, and with it selectedId, lives on.       *)
navigated(t) ==
    /\ nav[t] # NoValue
    /\ LET f == auditFilterFromSearch(t, nav[t])
       IN  view' = [view EXCEPT ![t].url = nav[t], ![t].filter = f, ![t].pages = FirstPage(f), ![t].failed = FALSE]
    /\ nav' = [nav EXCEPT ![t] = NoValue]
    /\ UNCHANGED <<fetch, exportReq, exports, auditClicks, auditLost>>

(* "Load older" keeps the pages of now and adds one; it cancels a refetch of   *)
(* its key and is disabled only while it loads itself.  The refetch of a tab   *)
(* that gets the focus loads as many pages as there are, from the first on,    *)
(* and joins a fetch of its key.  A fetch of another key holds neither back.   *)
OnKey(t) == fetch[t].phase # "idle" /\ fetch[t].filter = view[t].filter
Starts(t, have, n, older) ==
    /\ fetch' = [fetch EXCEPT ![t] = [phase |-> "sent", filter |-> view[t].filter, pages |-> have,
                                      want |-> n, older |-> older]]
    /\ UNCHANGED <<view, nav, exportReq, exports>>
fetchNextPage(t) ==
    /\ hasNextPage(view[t].pages) /\ ~(OnKey(t) /\ fetch[t].older)
    /\ Starts(t, view[t].pages, Len(view[t].pages) + 1, TRUE)
refetchOnFocus(t) == ~OnKey(t) /\ Starts(t, <<>>, Len(view[t].pages), FALSE)

OffsetOf(pages) == IF pages = <<>> THEN 0 ELSE pages[Len(pages)].nextCursor

(* GET .../audit-events, once per page *)
getAuditPage(t) ==
    LET pages == Append(fetch[t].pages, listAuditEvents(fetch[t].filter, OffsetOf(fetch[t].pages)))
    IN  /\ fetch[t].phase = "sent"
        /\ fetch' = [fetch EXCEPT ![t].pages = pages,
                                  ![t].phase = IF Len(pages) = fetch[t].want \/ ~hasNextPage(pages)
                                               THEN "answered" ELSE "sent"]
        /\ UNCHANGED <<view, nav, exportReq, exports, auditClicks, auditLost>>

AnyKey(t) == TRUE                                                               \* mutant
SameAuditKey(t) == fetch[t].filter = view[t].filter

fetched(t) ==
    /\ fetch[t].phase = "answered"
    /\ view' = IF SameAuditKey(t) THEN [view EXCEPT ![t].pages = fetch[t].pages, ![t].failed = FALSE] ELSE view
    /\ fetch' = [fetch EXCEPT ![t] = Idle]
    /\ UNCHANGED <<nav, exportReq, exports, auditClicks, auditLost>>
fetchLost(t) ==
    /\ fetch[t].phase # "idle" /\ auditLost < MaxAuditLost /\ auditLost' = auditLost + 1
    /\ view' = [view EXCEPT ![t].failed = @ \/ SameAuditKey(t)]
    /\ fetch' = [fetch EXCEPT ![t] = Idle]
    /\ UNCHANGED <<nav, exportReq, exports, auditClicks>>

(* Export needs a tenant; the notice of the last one goes when it is sent. *)
export(t) ==
    /\ view[t].filter.tenant # NoValue /\ exportReq[t].phase = "idle"
    /\ exportReq' = [exportReq EXCEPT ![t] = [phase |-> "sent", tenant |-> view[t].filter.tenant,
                                              key |-> auditClicks + 1, result |-> 0]]
    /\ view' = [view EXCEPT ![t].export = 0, ![t].exportFor = NoValue]
    /\ UNCHANGED <<nav, fetch, exports>>
exported(t) ==
    /\ exportReq[t].phase = "answered"
    /\ view' = [view EXCEPT ![t].export = exportReq[t].result, ![t].exportFor = exportReq[t].tenant]
    /\ exportReq' = [exportReq EXCEPT ![t] = NoExport]
    /\ UNCHANGED <<nav, fetch, exports, auditClicks, auditLost>>
exportLost(t) ==
    /\ exportReq[t].phase # "idle" /\ auditLost < MaxAuditLost /\ auditLost' = auditLost + 1
    /\ exportReq' = [exportReq EXCEPT ![t] = NoExport]
    /\ UNCHANGED <<view, nav, fetch, exports, auditClicks>>

AuditClick(t) ==
    /\ auditClicks < MaxAuditClicks /\ auditClicks' = auditClicks + 1 /\ UNCHANGED auditLost
    /\ \/ \E url \in AuditLinks : openAudit(t, url)
       \/ \E e \in AuditEvents : select(t, e)
       \/ \E p \in AuditPills : setParam(t, p[1], p[2])
       \/ fetchNextPage(t) \/ refetchOnFocus(t) \/ export(t)
AuditWork(t) == navigated(t) \/ getAuditPage(t) \/ fetched(t) \/ requestAuditExport(t) \/ exported(t)
AuditNext == \E t \in AuditTabs : AuditClick(t) \/ AuditWork(t) \/ fetchLost(t) \/ exportLost(t)

AuditSpec == AuditInit /\ [][AuditNext]_auditVars

-----------------------------------------------------------------------------
(* Properties *)

AuditTypeOK ==
    /\ \A t \in AuditTabs :
          /\ view[t].filter.tenant \in AuditTenants \cup {NoValue} /\ view[t].export \in 0..Len(exports)
          /\ fetch[t].phase \in {"idle", "sent", "answered"} /\ fetch[t].want \in Nat
          /\ exportReq[t].phase \in {"idle", "sent", "answered"} /\ exportReq[t].result \in 0..Len(exports)
    /\ \A i \in DOMAIN exports : exports[i].tenant \in AuditTenants /\ exports[i].key \in 1..auditClicks

(* What is loaded is the stream from its newest event on, in order, with no    *)
(* event twice and none left out, and "Load older" is offered exactly when     *)
(* events remain: whichever fetches, navigations and refetches overlap, the    *)
(* pages under the filter on screen are pages of that filter's stream.         *)
ArePagesOf(pages, f) ==
    \A k \in DOMAIN pages :
        LET from == (k - 1) * AUDIT_PAGE_SIZE
            rest == Len(Stream(f)) - from
        IN  /\ Len(pages[k].items) = IF rest < AUDIT_PAGE_SIZE THEN rest ELSE AUDIT_PAGE_SIZE
            /\ \A j \in DOMAIN pages[k].items : pages[k].items[j] = Stream(f)[from + j]
            /\ pages[k].nextCursor = IF rest > AUDIT_PAGE_SIZE THEN k * AUDIT_PAGE_SIZE ELSE NoValue
PagesArePrefix == \A t \in AuditTabs : view[t].pages # <<>> /\ ArePagesOf(view[t].pages, view[t].filter)

(* The order is the index's: an event that is newer than one on screen and     *)
(* matches the filter is on screen too, in every tab.                          *)
NoNewerLeftOut ==
    \A t \in AuditTabs : \A e \in shown(view[t].pages) : \A d \in Filtered(view[t].filter) :
        Newer(d, e) => d \in shown(view[t].pages)

(* One click makes one export, however often it is delivered, and the notice   *)
(* names an export of the tenant the click was for.                            *)
ExportPerClick ==
    /\ \A i, j \in DOMAIN exports : exports[i].key = exports[j].key => i = j
    /\ \A t \in AuditTabs : view[t].export # 0 => exports[view[t].export].tenant = view[t].exportFor

=============================================================================
