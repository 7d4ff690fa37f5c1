------------------------------ MODULE RunsConsole ------------------------------
(***************************************************************************)
(* Screens 08 and 09: the list of reconcile runs of all tenants or of one, *)
(* with its filters, cursor and polling, and the page of a run, which      *)
(* plays the script of a live run one step per read.  The store is         *)
(* features/reconcile/server.ts; every function of it is synchronous, so   *)
(* what interleaves are the polls, page loads and retries of the tabs.     *)
(***************************************************************************)
EXTENDS Integers, Sequences, FiniteSets

CONSTANTS
    Tabs,
    ScopeOf,        \* Tabs -> the tenant of /tenants/{slug}/reconcile-runs, None for /reconcile-runs
    RunTenants,
    RunSeeds,       \* the fixture runs, oldest first: a run's id is its place by startedAt
    LiveScripts,    \* per seed, what its next reads do
    DefaultLimit,   \* rows of a page unless the link has a limit
    PlatformRuns,   \* PLATFORM_STATS.runs
    TenantRuns,     \* TENANT_STATS: per tenant a constant or None
    RunLinks,       \* search parameters a link may hold
    Pills,          \* the choices of the filter pills, as <<parameter, value>>
    MaxRunClicks,   \* bound: how often the operators act
    MaxLost,        \* bound: answers that never arrive
    None

Triggers == {"outbox", "resync", "manual", "backoff", "delete"}
Outcomes == {"Partial", "Drift", "Applying", "NoChanges", "Failed", "Applied", "Deleting"}
ChangeOutcomes == {"applied", "failed", "retrying", "applying", "pending", "skipped"}
IN_FLIGHT_OUTCOMES == {"Applying", "Deleting"}

Attempts == [n : Nat, max : Nat]
(* A step of a script says which changes are applied or taken up, and the last *)
(* one may say how the run settles: a fixture may also stay in flight for good. *)
IsScript(s) ==
    /\ Len(s) \in Nat /\ DOMAIN s = 1..Len(s)
    /\ \A k \in 1..Len(s) : /\ s[k].finish \in (Outcomes \ IN_FLIGHT_OUTCOMES) \cup {None}
                            /\ \A i \in DOMAIN s[k].changes : s[k].changes[i] \in {"applied", "applying"}

ASSUME RunsAssumption ==
    /\ RunSeeds \in Seq([tenant : RunTenants, trigger : Triggers, outcome : Outcomes,
                         changeOutcomes : Seq(ChangeOutcomes), attempt : Attempts \cup {None},
                         special : BOOLEAN])
    /\ \A i \in 1..Len(RunSeeds) : IsScript(LiveScripts[i])
    /\ ScopeOf \in [Tabs -> RunTenants \cup {None}]
    /\ DefaultLimit \in 1..100
    /\ \A raw \in RunLinks : DOMAIN raw = {"tenant", "trigger", "outcome", "cursor", "limit"}
    /\ \A p \in Pills : p[1] \in {"tenant", "trigger", "outcome"}
    /\ MaxRunClicks \in Nat /\ MaxLost \in Nat
    /\ None \notin RunTenants \cup Triggers \cup Outcomes \cup Int \cup Attempts

VARIABLES
    runs,           \* store.runs with the script and liveStep of each
    retriesByKey,   \* pairs of an Idempotency-Key and the run it created
    list,           \* per tab, what is on screen
    poll,           \* per tab, the query request under way
    retry,          \* per tab, the retry mutation under way
    runClicks, lost

runsVars == <<runs, retriesByKey, list, poll, retry, runClicks, lost>>

-----------------------------------------------------------------------------
(* The fixtures *)

(* A row of the change list: what it says beside its outcome, and whether it  *)
(* has a duration.                                                            *)
RunChange == [outcome : ChangeOutcomes, note : {"inflight", "queued", "other"}, timed : BOOLEAN]
genericChange(o) == [outcome |-> o, note |-> IF o = "pending" THEN "queued" ELSE "other",
                     timed |-> o \in {"applied", "failed"}]

(* The rows of a run, generic or, for five of the runs, written out: those     *)
(* also note what is in flight.                                                *)
genericDetail(outcomes) == [i \in 1..Len(outcomes) |-> genericChange(outcomes[i])]
specialDetail(outcomes) ==
    [i \in 1..Len(outcomes) |->
       [genericChange(outcomes[i]) EXCEPT !.note = IF outcomes[i] = "applying" THEN "inflight" ELSE @]]

(* finishedAt and the advisory lock follow the outcome of the seed. *)
inFlight(seed) == seed.outcome \in IN_FLIGHT_OUTCOMES
detailOf(seed, script) ==
    [tenant |-> seed.tenant, trigger |-> seed.trigger, outcome |-> seed.outcome,
     finished |-> ~inFlight(seed), locked |-> inFlight(seed), attempt |-> seed.attempt, retryOf |-> 0,
     changeOutcomes |-> seed.changeOutcomes,
     changes |-> IF seed.special THEN specialDetail(seed.changeOutcomes) ELSE genericDetail(seed.changeOutcomes),
     script |-> script, step |-> 0]
reconcileRunFixtures == [i \in 1..Len(RunSeeds) |-> detailOf(RunSeeds[i], LiveScripts[i])]

-----------------------------------------------------------------------------
(* The server *)

toSummary(r) == [outcome |-> runs[r].outcome, finished |-> runs[r].finished,
                 changeOutcomes |-> runs[r].changeOutcomes, attempt |-> runs[r].attempt]

Matching(f) == {r \in DOMAIN runs : /\ f.tenant \in {None, runs[r].tenant}
                                    /\ f.trigger \in {None, runs[r].trigger}
                                    /\ f.outcome \in {None, runs[r].outcome}}

(* The cursor is the last row of the page before; one that no longer matches  *)
(* the filter leaves nothing.                                                 *)
FromCursor(S, c) == IF c = None THEN S ELSE {r \in S : r <= c /\ c \in S}       \* mutant
AfterCursor(S, c) == IF c = None THEN S ELSE {r \in S : r < c /\ c \in S}

NewestRows(S, n) == {r \in S : Cardinality({q \in S : q > r}) < n}

(* total is what stats.runs says: derived only where no constant is kept. *)
deriveStats(f) == Cardinality(Matching(f))
Total(f) == CASE f.trigger # None \/ f.outcome # None -> deriveStats(f)
              [] f.trigger = None /\ f.outcome = None /\ f.tenant = None -> PlatformRuns
              [] OTHER -> IF TenantRuns[f.tenant] = None THEN deriveStats(f) ELSE TenantRuns[f.tenant]

listRuns(f) ==
    LET rest == AfterCursor(Matching(f), f.cursor)
        rows == NewestRows(rest, f.limit)
    IN  [rows |-> [r \in rows |-> toSummary(r)], total |-> Total(f), generatedAt |-> Len(runs),
         nextCursor |-> IF rows = rest THEN None ELSE CHOOSE r \in rows : \A q \in rows : r <= q]

(* What one step of a script does to a row. *)
ChangeStep(c, o) ==
    [outcome |-> o, timed |-> c.timed \/ o = "applied",
     note |-> CASE o = "applied" -> "other" [] o = "applying" -> "inflight"
                [] o \notin {"applied", "applying"} -> c.note]

SummaryOf(run, changes) == [i \in 1..Len(changes) |-> changes[i].outcome]

(* advanceLive: the next step of the script, if there is one. *)
advanceLive(run) ==
    IF run.step = Len(run.script) THEN run
    ELSE LET s == run.script[run.step + 1]
             changes == [i \in 1..Len(run.changes) |->
                           IF i \in DOMAIN s.changes THEN ChangeStep(run.changes[i], s.changes[i])
                           ELSE run.changes[i]]
         IN  [run EXCEPT !.step = @ + 1, !.changes = changes,
                         !.changeOutcomes = SummaryOf(run, changes),
                         !.outcome = IF s.finish = None THEN @ ELSE s.finish,
                         !.finished = s.finish # None,
                         !.locked = s.finish = None]
Advanced(r) == IF runs[r].finished THEN runs ELSE [runs EXCEPT ![r] = advanceLive(@)]

(* retryScript: one read, then one change per poll, then the finish. *)
retryScript(n) ==
    [k \in 1..(n + 2) |->
       [changes |-> IF k = 1 THEN <<>>
                    ELSE [c \in {k - 1, k} \cap 1..n |-> IF c = k - 1 THEN "applied" ELSE "applying"],
        finish |-> IF k = n + 2 THEN "Applied" ELSE None]]

KeepsOutcome(o) == o                                                            \* mutant
RetryOutcome(o) == "Applying"

RetryOfRun(r) ==
    LET n == Len(runs[r].changes)
        changes == [i \in 1..n |-> [outcome |-> IF i = 1 THEN "applying" ELSE "pending", timed |-> FALSE,
                                    note |-> IF i = 1 THEN "inflight" ELSE "queued"]]
    IN  [runs[r] EXCEPT !.trigger = "manual", !.outcome = RetryOutcome(@), !.finished = FALSE,
                        !.locked = TRUE, !.attempt = None, !.retryOf = r, !.changes = changes,
                        !.changeOutcomes = [i \in 1..n |-> changes[i].outcome],
                        !.script = retryScript(n), !.step = 0]

(* The retry mutation of a tab reaches the server, perhaps more than once. *)
Replay(key) == {e \in retriesByKey : e.key = key}

Retried(t) ==
    LET r == retry[t].run
        replay == Replay(retry[t].key)
        refused == IF r \in DOMAIN runs THEN ~runs[r].finished ELSE TRUE        \* 404, 409
    IN  IF replay # {} THEN (CHOOSE e \in replay : TRUE).run ELSE IF refused THEN 0 ELSE Len(runs) + 1

retryRun(t) ==
    /\ retry[t].phase = "sent"
    /\ IF Retried(t) = Len(runs) + 1
       THEN /\ runs' = Append(runs, RetryOfRun(retry[t].run))
            /\ retriesByKey' = retriesByKey \cup {[key |-> retry[t].key, run |-> Retried(t)]}
       ELSE UNCHANGED <<runs, retriesByKey>>
    /\ \E again \in BOOLEAN :
          retry' = [retry EXCEPT ![t].phase = IF again THEN "sent" ELSE "answered", ![t].result = Retried(t)]
    /\ UNCHANGED <<list, poll, runClicks, lost>>

-----------------------------------------------------------------------------
(* The tabs *)

AnyRun(tenant) == [tenant |-> tenant, trigger |-> None, outcome |-> None, cursor |-> None, limit |-> DefaultLimit]

(* A search parameter outside its enumeration or range makes the whole filter  *)
(* an error, for which the page shows "any".                                   *)
runFilterFromParams(raw) ==
    /\ raw.trigger \in Triggers \cup {None} /\ raw.outcome \in Outcomes \cup {None}
    /\ raw.limit \in 1..100 \cup {None}
PageFilter(t, raw) ==
    LET tenant == IF ScopeOf[t] = None THEN raw.tenant ELSE ScopeOf[t]
    IN  IF runFilterFromParams(raw)
        THEN [raw EXCEPT !.tenant = tenant, !.limit = IF @ = None THEN DefaultLimit ELSE @]
        ELSE AnyRun(ScopeOf[t])

(* The client's path and key leave the limit of the link out. *)
runsListPath(f) == [f EXCEPT !.limit = DefaultLimit]

toDetail(run) == [outcome |-> run.outcome, finished |-> run.finished, locked |-> run.locked,
                  changes |-> run.changes, changeOutcomes |-> run.changeOutcomes, step |-> run.step]
NoDetail == [outcome |-> "NoChanges", finished |-> TRUE, locked |-> FALSE, changes |-> <<>>,
             changeOutcomes |-> <<>>, step |-> 0]
NoPage == [rows |-> <<>>, total |-> 0, generatedAt |-> 0, nextCursor |-> None]

RunsPage(t, raw) ==
    [screen |-> "list", url |-> raw, filter |-> PageFilter(t, raw), page |-> listRuns(PageFilter(t, raw)),
     run |-> 0, detail |-> NoDetail, failed |-> FALSE, problem |-> FALSE]
RunDetailPage(t, r) ==
    [screen |-> IF r \in DOMAIN runs THEN "run" ELSE "missing",
     url |-> AnyRun(None), filter |-> AnyRun(None), page |-> NoPage, run |-> r,
     detail |-> IF r \in DOMAIN runs THEN toDetail(Advanced(r)[r]) ELSE NoDetail,
     failed |-> FALSE, problem |-> FALSE]

KeyOf(t) == [screen |-> list[t].screen, run |-> list[t].run,
             filter |-> IF list[t].screen = "list" THEN runsListPath(list[t].filter) ELSE AnyRun(None)]
NoPoll == [phase |-> "idle", key |-> [screen |-> "missing", run |-> 0, filter |-> AnyRun(None)],
           page |-> NoPage, detail |-> NoDetail]
NoRetry == [phase |-> "idle", run |-> 0, key |-> 0, result |-> 0]

RunsInit ==
    /\ runs = reconcileRunFixtures /\ retriesByKey = {} /\ runClicks = 0 /\ lost = 0
    /\ list = [t \in Tabs |-> RunsPage(t, [AnyRun(None) EXCEPT !.limit = None])]
    /\ poll = [t \in Tabs |-> NoPoll] /\ retry = [t \in Tabs |-> NoRetry]

openRuns(t, raw) ==
    /\ list' = [list EXCEPT ![t] = RunsPage(t, raw)]
    /\ UNCHANGED <<runs, retriesByKey, poll, retry>>

(* A pill of RunFilters: the other parameters stay, the cursor goes. *)
set(t, name, value) ==
    /\ list[t].screen = "list" /\ list[t].filter[name] # value
    /\ list' = [list EXCEPT ![t] = RunsPage(t, [list[t].url EXCEPT ![name] = value, !.cursor = None])]
    /\ UNCHANGED <<runs, retriesByKey, poll, retry>>

(* A row, or a link; the page's own read already advances a live run. *)
openRun(t, r) ==
    /\ list' = [list EXCEPT ![t] = RunDetailPage(t, r)]
    /\ runs' = IF r \in DOMAIN runs THEN Advanced(r) ELSE runs
    /\ UNCHANGED <<retriesByKey, poll, retry>>

RunActions(t) ==
    /\ list[t].screen = "run" /\ list[t].detail.finished /\ retry[t].phase = "idle"
    /\ retry' = [retry EXCEPT ![t] = [NoRetry EXCEPT !.phase = "sent", !.run = list[t].run, !.key = runClicks + 1]]
    /\ list' = [list EXCEPT ![t].problem = FALSE]
    /\ UNCHANGED <<runs, retriesByKey, poll>>

(* The list polls for ever, faster while a run is in flight; the page of a run *)
(* polls until it has seen finishedAt.                                         *)
pollIntervalForRuns(t) == TRUE
detailPollInterval(t) == ~list[t].detail.finished
refetch(t) ==
    /\ poll[t].phase = "idle"
    /\ (list[t].screen = "list" /\ pollIntervalForRuns(t)) \/ (list[t].screen = "run" /\ detailPollInterval(t))
    /\ poll' = [poll EXCEPT ![t] = [NoPoll EXCEPT !.phase = "sent", !.key = KeyOf(t)]]
    /\ UNCHANGED <<runs, retriesByKey, list, retry, runClicks, lost>>

(* GET /api/reconcile-runs and GET /api/reconcile-runs/{runId} *)
getRuns(t) ==
    /\ poll[t].phase = "sent" /\ poll[t].key.screen = "list"
    /\ poll' = [poll EXCEPT ![t].phase = "answered", ![t].page = listRuns(poll[t].key.filter)]
    /\ UNCHANGED <<runs, retriesByKey, list, retry, runClicks, lost>>
getRun(t) ==
    LET r == poll[t].key.run
    IN  /\ poll[t].phase = "sent" /\ poll[t].key.screen = "run"
        /\ runs' = Advanced(r)
        /\ poll' = [poll EXCEPT ![t].phase = "answered", ![t].detail = toDetail(Advanced(r)[r])]
        /\ UNCHANGED <<retriesByKey, list, retry, runClicks, lost>>

(* The answer is stored under the key it was asked for: it shows only if the  *)
(* tab is on that key (again).                                                *)
LandsOnAnyRun(t) == poll[t].key = KeyOf(t) \/ (poll[t].key.screen = "run" /\ list[t].screen = "run")  \* mutant
SameKey(t) == poll[t].key = KeyOf(t)

(* A retry that waits for the query it invalidated goes on when that settles. *)
Waited(t) == [retry EXCEPT ![t].phase = IF @ = "refetch" THEN "refetched" ELSE @]

landed(t) ==
    /\ poll[t].phase = "answered"
    /\ list' = IF SameKey(t)
               THEN [list EXCEPT ![t].page = poll[t].page, ![t].detail = poll[t].detail, ![t].failed = FALSE]
               ELSE list
    /\ poll' = [poll EXCEPT ![t] = NoPoll] /\ retry' = Waited(t)
    /\ UNCHANGED <<runs, retriesByKey, runClicks, lost>>
pollLost(t) ==
    /\ poll[t].phase # "idle" /\ lost < MaxLost /\ lost' = lost + 1
    /\ list' = [list EXCEPT ![t].failed = @ \/ SameKey(t)]
    /\ poll' = [poll EXCEPT ![t] = NoPoll] /\ retry' = Waited(t)
    /\ UNCHANGED <<runs, retriesByKey, runClicks>>

(* The answer reaches the tab.  onSuccess invalidates the runs, which asks for *)
(* the query on screen anew, and waits for it; a refusal is shown.             *)
useRetryRun(t) ==
    LET invalidated == retry[t].result # 0 /\ list[t].screen # "missing"
    IN  /\ retry[t].phase = "answered"
        /\ retry' = [retry EXCEPT ![t] = CASE invalidated -> [@ EXCEPT !.phase = "refetch"]
                                          [] @.result = 0 -> NoRetry
                                          [] OTHER -> [@ EXCEPT !.phase = "refetched"]]
        /\ poll' = IF invalidated
                   THEN [poll EXCEPT ![t] = [NoPoll EXCEPT !.phase = "sent", !.key = KeyOf(t)]] ELSE poll
        /\ list' = [list EXCEPT ![t].problem = IF retry[t].result = 0 THEN list[t].run = retry[t].run ELSE @]
        /\ UNCHANGED <<runs, retriesByKey, runClicks, lost>>

(* Then it pushes the tab to the new run, wherever it is by then. *)
retryLands(t) ==
    /\ retry[t].phase = "refetched"
    /\ retry' = [retry EXCEPT ![t] = NoRetry]
    /\ list' = [list EXCEPT ![t] = RunDetailPage(t, retry[t].result)] /\ runs' = Advanced(retry[t].result)
    /\ UNCHANGED <<retriesByKey, poll, runClicks, lost>>
retryLost(t) ==
    /\ retry[t].phase \in {"sent", "answered"} /\ lost < MaxLost /\ lost' = lost + 1
    /\ retry' = [retry EXCEPT ![t] = NoRetry]
    /\ list' = [list EXCEPT ![t].problem = list[t].run = retry[t].run]
    /\ UNCHANGED <<runs, retriesByKey, poll, runClicks>>

RunsClick(t) ==
    /\ runClicks < MaxRunClicks /\ runClicks' = runClicks + 1 /\ UNCHANGED lost
    /\ \/ \E raw \in RunLinks : openRuns(t, raw)
       \/ \E p \in Pills : (p[1] = "tenant" => ScopeOf[t] = None) /\ set(t, p[1], p[2])
       \/ \E r \in 1..(Len(runs) + 1) : openRun(t, r)
       \/ RunActions(t)

PollWork(t) == refetch(t) \/ getRuns(t) \/ getRun(t) \/ landed(t)
RetryWork(t) == retryRun(t) \/ useRetryRun(t) \/ retryLands(t)
RunsNext == \E t \in Tabs : RunsClick(t) \/ PollWork(t) \/ RetryWork(t) \/ pollLost(t) \/ retryLost(t)

RunsSpec == RunsInit /\ [][RunsNext]_runsVars

-----------------------------------------------------------------------------
(* Properties *)

RunsTypeOK ==
    /\ \A r \in DOMAIN runs : /\ runs[r].tenant \in RunTenants /\ runs[r].trigger \in Triggers
                              /\ runs[r].outcome \in Outcomes /\ runs[r].step \in 0..Len(runs[r].script)
                              /\ \A i \in DOMAIN runs[r].changes : runs[r].changes[i] \in RunChange
                              /\ runs[r].retryOf \in 0..(r - 1)
    /\ \A t \in Tabs : /\ list[t].screen \in {"list", "run", "missing"}
                       /\ list[t].run \in 0..(Len(runs) + 1) /\ DOMAIN list[t].page.rows \subseteq DOMAIN runs
                       /\ poll[t].phase \in {"idle", "sent", "answered"}
                       /\ retry[t].phase \in {"idle", "sent", "answered", "refetch", "refetched"}
                       /\ retry[t].result \in 0..Len(runs)

Live(run) == run.outcome \in IN_FLIGHT_OUTCOMES

(* The marks agree: a run is in flight by its outcome exactly when it has no   *)
(* finishedAt, on the server, in every row and on every page, and the lock is  *)
(* shown as held just then.                                                    *)
LiveMarksAgree ==
    /\ \A r \in DOMAIN runs : runs[r].finished = ~Live(runs[r]) /\ runs[r].locked = Live(runs[r])
    /\ \A t \in Tabs : /\ \A r \in DOMAIN list[t].page.rows :
                             list[t].page.rows[r].finished = ~Live(list[t].page.rows[r])
                       /\ LET d == list[t].detail IN d.finished = ~Live(d) /\ d.locked = Live(d)

(* The segments in the list are the rows of the page: changeOutcomes repeats   *)
(* the changes; a row says that it is queued exactly while it is pending, in   *)
(* flight only while it is applying, and has a duration once it is applied.    *)
RowsAgree(run) ==
    /\ run.changeOutcomes = [i \in 1..Len(run.changes) |-> run.changes[i].outcome]
    /\ \A i \in DOMAIN run.changes : LET c == run.changes[i] IN
          /\ c.note = "queued" <=> c.outcome = "pending"
          /\ c.note = "inflight" => c.outcome = "applying"
          /\ c.outcome = "applied" => c.timed
SegmentsMatchRows == /\ \A r \in DOMAIN runs : RowsAgree(runs[r])
                     /\ \A t \in Tabs : RowsAgree(list[t].detail)

(* A retry that says Applied has applied every change of the run it retries:   *)
(* retryScript has a step for each, and the finish comes after the last one.   *)
RetryReplaysAll ==
    \A r \in DOMAIN runs : runs[r].retryOf # 0 =>
        /\ Len(runs[r].changes) = Len(runs[runs[r].retryOf].changes)
        /\ runs[r].finished => \A i \in 1..Len(runs[r].changes) : runs[r].changes[i].outcome = "applied"

(* What a tab shows as settled is what the server has, however late the answer *)
(* came; the page of a live run shows one of its earlier steps.                *)
SettledIsFinal ==
    \A t \in Tabs :
        /\ \A r \in DOMAIN list[t].page.rows :
              list[t].page.rows[r].finished => list[t].page.rows[r] = toSummary(r)
        /\ list[t].screen = "run" =>
              LET d == list[t].detail
                  run == runs[list[t].run]
              IN  d.step <= run.step /\ (d.finished => d = toDetail(run))

(* A list that is not filtered by outcome skips no run and repeats none of the *)
(* page before: behind a cursor that listRuns knew, a run that matches and is  *)
(* not shown started after the list was generated, is on a page before, or is  *)
(* older than the rows and the list says that there is more.                   *)
NoRowSkipped ==
    \A t \in Tabs :
        LET rows == DOMAIN list[t].page.rows
            c == list[t].filter.cursor
            all == Matching(list[t].filter)
            known == c = None \/ (c \in all /\ c <= list[t].page.generatedAt)
        IN  list[t].screen = "list" /\ list[t].filter.outcome = None /\ known =>
               /\ rows \subseteq all
               /\ c # None => \A q \in rows : q < c
               /\ \A r \in all \ rows :
                     \/ r > list[t].page.generatedAt
                     \/ c # None /\ c <= r
                     \/ (\A q \in rows : r < q) /\ list[t].page.nextCursor # None

(* One retry mutation makes one run, of a run that had settled, however often  *)
(* the request is delivered.                                                   *)
RetryPerClick ==
    /\ \A e, d \in retriesByKey : e.key = d.key <=> e.run = d.run
    /\ \A r \in DOMAIN runs : runs[r].retryOf # 0 =>
          runs[runs[r].retryOf].finished /\ \E e \in retriesByKey : e.run = r

=============================================================================
