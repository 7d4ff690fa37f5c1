# AuthZ Plane: a TLA+ model of the control plane

AuthZ Plane keeps the desired state of tenants (their *specs*) in Postgres,
versioned and immutable, and reconciles identity providers and authorization
stores towards it. The repository has two programs: the control-plane API in C#
(`src/src/AuthzPlane.*`) and an operator console in TypeScript
(`src/web/src`). The API's write path, its idempotency layer and the tenant
lifecycle are the part everything else trusts and are modelled first; then come
the console's server stores together with the browser tabs that act on them.

## 1. Inventory

### Control plane (C#)

| Component | State | Operations | What is hard | What makes it correct |
|---|---|---|---|---|
| Spec writes: `CreateTenant`, `UpdateTenantSpec`, `TenantQueries.GetAsync` | tables `tenants`, `tenant_specs`, `outbox_messages`, `audit_events` | POST `/v1/tenants`, PUT `/v1/tenants/{id}/spec`, GET `/v1/tenants/{id}` | check-then-act over several statements under READ COMMITTED; reads torn by writes; refused, failed and doubtful commits | one contiguous history per tenant, no lost update, no empty version, every version announced and audited once, one tenant per slug |
| Idempotency: `IdempotencyMiddleware`, `IdempotencyStore` | table `idempotency_keys` | find, replay, capture, store; expiry after 24 h | duplicates in flight, crashes between commit and store, expiry, key reuse | a repeated request takes effect at most once; a replay is true; nobody hangs |
| Lifecycle: `TenantStatus`, `TenantPhaseTransitions`, `BackoffPolicy` | table `tenant_status` with its `xmin` token | eight phase methods, load and save by workers | racing workers, retry budget across runs, teardown that fails | phase, failure count and schedule agree; no failure lost; deletion final |
| Outbox aggregate: `OutboxMessage` | claim, attempts, processed | create, claim, process, fail | a claim without lease | at most one holder, bounded attempts |
| Reconcile records: `ReconcileRun`, `ReconcileChange`, `DriftFinding`, `RelationTuple` | run outcome, changes by key, findings, tuples | start, add change, settle, finish, skip; detect, resolve; mark written | settling after the run has finished; finishing with pending changes | the outcome agrees with the changes |
| `ReconcileWorker` | none | timer loop that logs | nothing yet: a placeholder | - |
| Tenant scoping: `AmbientTenant`, query filters of `AuthzPlaneDbContext` | an async-local stack | enter, dispose | nesting and out-of-order disposal | a scoped query sees one tenant |
| Read models: `TenantQueries.ListAsync`, `Cursor` | none | keyset paging | rows inserted while a client pages | no row twice, none skipped |
| `SpecHash`, `ChangeKey`, `TenantSlug` | none | canonicalise, hash, parse | numbers, key order, duplicates | equal documents have equal hashes |

The components meet in the database. The middleware wraps every mutation;
the handlers share one transaction with the outbox and with the audit
interceptor; the unique indexes `ux_tenants_slug` and `ux_spec_generation` and
the `xmin` token are what stands between two concurrent writers. There are no
other locks in the code: the advisory lock and `FOR UPDATE SKIP LOCKED` of the
design document belong to the worker, which is not written yet.

### Console (TypeScript)

The console is a Next.js application. Its route handlers keep per-process
stores (`features/*/server.ts`) that every request shares and that are lost in a
restart; a handler runs to its next `await` without interruption and any other
request may run there. In the browser, TanStack Query caches what was fetched,
refetches on focus and after a mutation, and each screen keeps client state
(selection, draft, staged batch) beside the cache.

| Component | State | Operations | What is hard | What makes it correct |
|---|---|---|---|---|
| Drift | findings, healed-today count; list, selection, drawer per tab | list, heal, acknowledge one by one, resync, filter | acting by id on rows loaded earlier; loops that fail half-way; a refetch already under way | a finding is closed and counted once, an accepted one stays, notices agree with the list |
| Spec editor and history | versions of the spec, keys of restores; draft, verdict, If-Match per tab | read, validate, save, restore, reconcile | two first readers at one `await`, duplicates, a refetch under a dirty draft | a save lands on the generation it names, history only grows |
| Reconcile runs | runs, live scripts, retry keys; list, page and poll per tab | enqueue, retry, poll, filter, page by cursor | every poll moves the run; answers older than the page; duplicates of a retry | changes in order, one run per write, a watched run settles; pills, marks and segments agree; a page skips no row |
| Tenants | tenants created in the console | list by cursor, search, slug check, wizard | tenants created between two pages, a debounced check, retries, restarts | unique slugs, no tenant skipped, only a checked slug submitted |
| Session and guards | the sealed cookie in each browser | proxy, layout check, API guard, sign in and out, expiry | two places that judge one cookie | no redirect loop |
| Relations | tuples and their total, staged batch and its key | page through, stage, write, retry | overlapping batches, retries, restarts | the total counts the tuples, a retry alone changes nothing |
| Identity providers | connections; form, probe verdict | probe on blur, stage | probes answered out of order | the tone shown is the verdict on what the field holds |
| Users and roles | invitations, roles | invite, delete a role | two operators, letter case, repeated Enter | one invitation per address, none for a member |
| Authorization model | live and draft model; editor | parse, summarise, validate, stage | a verdict on a text that was edited since | one draft, and it is closed and unambiguous |
| Playground | fixtures; question, answer, recent questions | `explain`, `batchCheck` | cycles, the depth cap, late answers | the decision is right for the question shown or is flagged as truncated |
| Version comparison | selected generations | `diffLines`, pick two generations, follow a link | the fallback at its limit, empty and trailing lines | both columns are the two documents, no more marked than changed |
| Audit log | exports minted; pages, filter, selected event, export per tab | load more, filter, select, export | pages of two filters in flight, refetch of all pages on focus, a repeated export | the pages are the stream from its newest event on, nothing newer left out, one export per click |
| Dashboard | none | figures | - | - |

`PROJECT.json` lists every component with its status, and under `hazards` what
is hard to test in this code, line by line, with the property that covers it.

## 2. Modules

| Module | Models | Uses |
|---|---|---|
| `SpecWrites` | the three requests over the four tables | - |
| `SpecHistory` | abstract: one linear history per slug | - |
| `IdempotentApi` | the middleware and its table around the handlers | `SpecWrites` |
| `TenantLifecycle` | the status aggregate under several workers | - |
| `DriftConsole` | drift store and screens | - |
| `SpecConsole` | spec store, run store, editor, history and run pages | - |
| `ConsoleSession` | cookie, proxy, guards, sign-in | - |
| `TenantConsole` | tenant store, list, wizard | `ConsoleSession` |
| `RunsConsole`, `AuditConsole` | the list and the page of reconcile runs; the audit log | - |
| `ListScreens` | the two lists above put together | both |
| `RelationsConsole`, `ProviderConsole`, `MembersConsole`, `ModelConsole`, `PlaygroundConsole`, `HistoryConsole` | one screen each with its store | - |
| `ModelDsl` | the parser and the summary of the model DSL | - |
| `TenantScreens` | the six screens above put together | all of them |
| `SpecWritesMC`, `IdempotentApiMC`, `TenantLifecycleMC`, `DriftConsoleMC`, `SpecConsoleMC`, `TenantConsoleMC`, `TenantScreensMC`, `ListScreensMC` | instances for TLC | the module they are named after |
| `SpecWritesProofs`, `IdempotentApiProofs`, `TenantLifecycleProofs`, `SpecConsoleProofs`, `DriftConsoleProofs`, `TenantConsoleProofs`, `TenantScreensProofs`, `ListsProofs` | theorems about the module they are named after (`ListsProofs`: `ListScreens`) | `TLAPS` |

### SpecWrites

State. `tenants`, `specs`, `outbox`, `audit` are the tables. A tenant's id is
the request that creates it (ids are fresh GUIDs), and generation 0 means that
there is no row. `pc`, `input`, `seen`, `answer` are the local state of one HTTP
request: where it waits, the parsed request, the generation its tracked entity
holds, the response. `basis` is a history variable: the GETs whose body the
author of a PUT may have edited, i.e. those answered under the ETag it sends.

Steps. A handler is cut where it awaits the database, because each query has a
snapshot of its own:

| Action | Code |
|---|---|
| `Begin` | the request reaches its endpoint |
| `CreateCheck` | `CreateTenantHandler`: validation, `SlugExistsAsync` |
| `CreateSave` | the rest of it: tenant, status, spec, message, `SaveChangesAsync` with the audit interceptor |
| `UpdateFind` | `TryReadIfMatch`, validation, If-Match required, `FindByIdAsync`, generation check |
| `UpdateLatest` | `FindLatestSpecAsync` and the no-op test |
| `UpdateSave` | `BumpGeneration`, spec, message, `SaveChangesAsync` |
| `SaveConflict` | a unique index refuses the save: `DbUpdateException`, answered 500 |
| `GetTenant`, `GetSpec` | the first and the last query of `TenantQueries.GetAsync` |
| `SaveFails`, `SaveAckLost`, `Abort` | the database is away; the commit is acknowledged too late for `EnableRetryOnFailure`; the process dies or the client leaves |

Abstractions. A spec document is its canonical hash. All input that validation
refuses before the first query is one value, `Malformed`. Status rows are
created with the tenant and never removed by these handlers, so the read
between `GetTenant` and `GetSpec` always succeeds and is left out. Display
names, timestamps and actors are left out. A PUT or GET names a tenant that
exists or an id nobody has (`Knowable`).

### IdempotentApi

`mw` is where a request is in the middleware, `asked` and `key` what it sent
(a `Key` is an (actor, Idempotency-Key) pair), `records` the table, `reply` and
`replayed` what the client got. `Arrive`, `Find`, `Run`, `Deliver`, `Store` are
the stages of `InvokeAsync`; `Run` takes the steps of `SpecWrites` unchanged.
`Expire` lets the 24 hours of a record pass; the row stays, as in the code.
`Cut` is a crash or a disconnect at any await: `RequestAborted` cancels
`StoreAsync` too. The request hash covers method, path and body; If-Match is a
header and is not part of it.

### TenantLifecycle

Workers `Load` a tracked copy of the row, call methods of the aggregate on it
in any order, and `Save` with the `xmin` they loaded, or lose the unit of work
(`Discard`). The caller, a reconciler that is not written, may call the methods in
any order; what holds here holds because the aggregate and the token enforce it.
One thing is assumed of it: the jitter it passes to `MarkDegraded` is in [0,1),
as `BackoffPolicy.DelayFor` documents. Any other value throws at
`TenantStatus.cs:99`, after `Phase` and `ConsecutiveFailures` have changed and
before `NextAttemptAt` has, and a caller that caught that and saved the row would
persist a Degraded tenant without a retry.
`tally` and `failed` are history variables that count failures independently of
the code's counter. `NextAttemptAt` is reduced to whether it is set.
`MaxFailures` bounds the count for TLC and plays no part in the proofs
(it is any natural number there).

### The console's modules

Conventions shared by all of them. A server function is one action if it has no
`await` between its first read and its last write, and otherwise one action per
stretch between awaits (`stateFor`, `saveSpec`, `writeRelations`, `inviteUser`,
`stageModel`, ...): the state it holds over the await is a field of the call.
What these functions await stands in for calls of AuthzPlane.Api, which their
headers announce; the fixtures behind it today do no I/O, so two requests
interleave there only if both are resumed in one turn of the event loop.
A call is a record with a phase: sent, served, answered, settled. A call or its
answer can be lost in any phase, which the client sees as a failure; a mutation
is never repeated except by its operator. `onSuccess` runs after the answer, invalidates
queries, waits for the refetch and only then shows a notice, as the hooks do. A
restart empties the stores. Operators act in any order; `Uses` says which
controls an operator may use and `Max...Clicks` how often they act, and both
only bound the model.

- **`DriftConsole`**. `status`, `healedToday`, `lastResync` are the store;
  `call` the mutations, `view` the tabs, `fetch` the list query of each.
  `healFindings`, `acknowledgeFinding`, `resyncAll` are the endpoints;
  `healIds`, `ackIds`, `RowAcknowledge`, `DrawerMutate`, `ResyncNow` what starts
  them; `AnswerList`, `ReceiveList`, `FailList` the refetch. Acknowledging is a
  loop of requests that ends at the first failure.
- **`SpecConsole`**. `objs` are the states `stateFor` ever built and `store`
  the one the map holds, so that a request can go on with a state another first
  reader has replaced. `runs` and `watch` are reconcile runs and the pages that
  poll them: `getRun` advances a live script by one step per poll, as
  `advanceLive` does. `Direct` is a client without a tab that retries a run.
  `RunsLimit` is the page of runs `enqueueReconcile` looks for a settled one in
  (10 in the code).
- **`ConsoleSession`, `TenantConsole`**. `jar` is the cookie of each browser
  (none, live or expired), `tab` where it stands between proxy, layout and page.
  `created` is the tenant store; the list pages by cursor with the filters in
  the URL; the wizard has the debounced slug check with its cached answers.
- **`RunsConsole`**. `runs` is the store, a run's id its place by `startedAt`;
  `list`, `poll` and `retry` are what each tab shows and waits for. Every
  function of the store is synchronous, so what interleaves are the polls, page
  loads and retries of the tabs; a poll of a live run plays one step of its
  script. When a retry is answered, the invalidation asks for the query on screen
  anew, and the tab is pushed to the new run when that has settled, wherever it
  went meanwhile. `SpecConsole` has the runs that saving a spec enqueues, `RunsConsole`
  those of the fixtures with every filter and page.
- **`AuditConsole`**. The events are fixtures; `view` has the URL, the filter,
  the pages of the infinite query and the selected event of each tab, `nav` a
  navigation under way, `fetch` the page fetch or the focus refetch,
  `exportReq` and `exports` the export. "Load older" cancels a focus refetch of
  its key, and is disabled only while older pages are on their way. A tab has
  one fetch slot: starting a fetch under another key drops what was under way
  for a key that is no longer on screen.
- **`ListScreens`**. The two stores are separate maps and neither reads the
  other, so a behaviour is the tabs at work on one list.
- **`RelationsConsole`**. Tuples in store order with the total; a table loaded
  page by page and a staged batch under one key. `Hidden` is by how much the total
  differs from the tuples at the start: what a fixture index has beside the tuples
  it materialises, or, below 0, the four generic tuples a tenant created in the
  console does not report. A page whose total is below 0 fails its schema.
- **`ProviderConsole`**. The array of connections is read, awaited over and
  written back; the form probes the issuer on blur.
- **`MembersConsole`**. `sent` counts the invitations mailed per address.
- **`ModelDsl`, `ModelConsole`**. `parseModel` line by line over tokenised
  lines with its issues in order, `summarize` with its memo and cycle guard;
  against them `Closed`, `Unambiguous` and `Describes`, which say what the
  result should be without parsing.
- **`PlaygroundConsole`**. `explain` as a recursive function that follows
  direct tuples, computed relations and tuple-to-userset up to the depth cap; against it `Grants`, the least fixpoint of the rules.
- **`HistoryConsole`**. `diffLines` with its table of common subsequences, the
  fallback above `MAX_CELLS` and the pairing of adjacent changes; the rows
  shown, the choice of two generations and links to them.
- **`TenantScreens`**. The screens share no server state (the playground
  resolves fixture tuples, not the relation store), so one behaviour is two
  operators on one screen.

## 3. Runs

| Run | Instance | Distinct states | Shows |
|---|---|---|---|
| `SpecWrites` | 4 requests, 1 slug, 2 bodies, If-Match 1 or 2, faults | 0.28 M | the tables' invariants and the refinement below |
| `SpecWritesRace` | 3 requests, no faults | | **violated**: the loser of a race gets a 500, not a 412 |
| `IdempotentApi` | 3 requests, 1 key, a create, an update, a read, faults, expiry | 0.13 M | at most once, true replays, every request answered |
| `IdempotentExpiry` | the same, no faults | | **violated**: a key that has expired is never stored again |
| `TenantLifecycle` | 2 workers, budget 2, up to 3 failures | 0.58 M | coherent status, no failure lost, deletion final |
| `DriftConsole` | 2 operators, 2 findings, 2 mutations, 4 actions of operators | 0.4 M | closed once, accepted for good, truthful notices, buttons come back |
| `SpecConsole` | 2 tabs and a direct client, 3 texts of which one is invalid, 3 actions | 0.8 M | writes, history and runs agree; a watched run settles |
| `SpecStaleSave` | the same with 4 actions | | **violated**: a refetch rebases a dirty draft |
| `SpecReplay` | the same with 2 actions | | **violated**: a restore delivered twice is answered two generations |
| `TenantConsole` | 2 operators, 3 fixtures, 2 valid slugs, page size 2, 1 restart, 5 actions | 2.2 M | no redirect loop, unique slugs, complete walks, checked slugs |
| `TenantScreens` | 2 operators on each of six screens | 2.4 M | the screens' invariants below |
| `ListScreens` | 2 tabs on one of the two lists, one on all tenants and one on a tenant; 4 runs, 5 events, 3 clicks and 1 lost answer | 0.64 M | marks agree, settled is final, pages skip nothing |

Bounds of the control plane's runs. Four requests are the fewest in which a
create, a GET torn by one PUT and a second PUT based on that GET all happen; two
bodies are enough to tell "the same document" from "another one"; If-Match 2
reaches a third generation. One slug makes every pair of creates compete (the
proofs cover several). In `IdempotentApi` three requests are a create, a write
and its duplicate; one key makes every mutation compete for one row. In
`TenantLifecycle` a budget of 2 with up to 3 failures has states below, at and
beyond it. Requests, slugs, bodies and workers are only compared for equality,
so their symmetry is sound; the temporal properties checked together with
symmetry are safety properties. The first two specifications end when all
requests are handled, so deadlock is not checked there; it is in
`TenantLifecycle`.

Bounds of the console's runs. Two tabs are the fewest that can act on each
other's stale rows; each run's `Uses` gives the two different parts (one edits,
the other restores and watches runs; one creates tenants, the other walks the
list), since two equal operators add interleavings and no new pair of steps. Two
findings give a selection of which one part fails. Three actions in `SpecConsole`
are an edit, a save and a competing restore; four, in `SpecStaleSave`, are edit,
the other tab's save, focus and save. `RunsLimit` is 3 instead of 10, so that
retries push the settled seed off the page of runs. A page size of 2 over three fixtures and up
to two created tenants has walks of two and three pages with a row inserted
between them. The playground is asked under the model of the fixtures and under
one with nested folders and a cycle of relations, over all subsets of six tuples:
`explain` is generic in the model, and the fixtures alone never reach the depth
cap. The comparison is made of all texts of up to three lines over three kinds of
line, with and without a final newline; `MAX_CELLS` is 9 instead of 4,000,000 so
that the fallback is reached by a four-line text. The lists have pages of two rows, so
that four runs or five events make a cursor, a page after it and a last page; the
seeds are a run that settled, one whose retries are exhausted, one that deletes for
ever and one that plays a script; two events share a timestamp. The six texts of the model
screen cover each kind of issue. Operators stop when their actions are used up,
so deadlock is not checked in these runs.

The properties of the passing runs:

- `HistoryContiguous`: the spec rows of a tenant are generations
  `1..generation`, one each.
- `EveryWriteAnnouncedOnce`: outbox messages and audit rows match the versions
  one to one; a refused save leaves nothing.
- `NoLostUpdate`: a PUT that took effect replaced exactly the body that GETs
  under its If-Match had shown. A GET may be torn (old generation, new body);
  then the PUT based on it must not take effect, and does not.
- `AcknowledgedIsWritten`: a 2xx answer names a version the tables have.
- `ImplementsHistory`: `SpecWrites` implements `SpecHistory` under the mapping
  that reads each slug's history off the tables.
- `AtMostOnce`, `ReplaysAreTrue`, `EveryRequestReplied`.
- `StatusCoherent`, `NoFailureLost`, `DeletedIsFinal`.
- Drift: `HealedOnce`, `AcceptedStaysAccepted`, `NoticeMatchesList` (a notice
  never contradicts the rows under it), `AckedMeansAll` (after a loop that
  stopped half-way nothing says that all were acknowledged), `BusyEnds`.
- Spec console: `SavedOnTopOfIfMatch`, `RunPerWrite`, `ChangesInOrder`,
  `RunSettles`, and
  - `DuplicatesAgree`: a PUT delivered twice makes one generation, in whichever
    state a copy was laid. A restore delivered twice may make two, which is
    `SpecReplay`; what still holds is that they have one text while one state was
    built (of two first readers each may have read the version to restore in its
    own). `AnsweredKeyIsSpent`: once the key is answered no copy writes any more;
  - `HistoryImmutable`: within one state nothing is changed or dropped. It does
    *not* say that readers keep what they saw: `store()` may hand out another
    state, and the property says when (a request that found none sets its own) and
    what that one holds (the fixtures' versions). What was saved on the first state
    is lost to them, acknowledged or not;
  - `SavedIsShown` is about behaviours in which the store was built once, for the
    same reason.
- Tenants: `NoRedirectLoop`, `OneTenantPerSlug`, `NoTenantSkipped`,
  `SubmittedWasChecked`.
- Screens: `TuplesCounted`, `RetryAloneIsNoOp`, `IssuerToneTrue`,
  `InvitedOnce`, `OneDraft`, `ExplainAgrees`, `CompareFaithful`.
- Lists: `LiveMarksAgree`, `SettledIsFinal`, `NoRowSkipped`
  (behind a cursor the list knew, a run that is not shown is newer than the
  list, on a page before, or announced by `nextCursor`), `PagesArePrefix`,
  `NoNewerLeftOut`.

Type invariants are in the modules (`TypeOK`, `RunsTypeOK`, `AuditTypeOK`) and
are theorems of section 4. So are some invariants that follow from others on this
list or that are simpler: `NoEmptyGeneration`, one tenant per slug in `SpecWrites`,
`SegmentsMatchRows`, `RetryReplaysAll` (of which `ChangesInOrder` of the spec console
says more), `RetryPerClick`, `ExportPerClick`.

Each property of a passing run has a mutant in `PROJECT.json`: a plausible bug in the code it is about,
under which TLC finds it violated.

Fairness. `EveryRequestReplied`: weak fairness of each request's own pipeline
(`Serve`); a Kestrel request that is not cancelled is driven by its awaits until
it responds, and no stage waits for another request. `BusyEnds`: weak fairness
of the server's part of each mutation, of the delivery of its answer or failure
and of the list query; a `fetch` always resolves or rejects, and nothing in
the handlers waits for a person. `RunSettles`: weak fairness of polling per run,
which is what `refetchInterval` does while the page is open; the property
speaks of watched runs only. Nothing is assumed of operators, faults, timers or
the clock.

Findings. The four violated runs contradict lines of the code's own
documentation; `PROJECT.json` quotes them.

1. `SpecWritesRace`: the second of two racing PUTs is promised a 412 and gets
   a 500. Nothing is overwritten.
2. `IdempotentExpiry`: an expired row blocks its key for ever, so idempotency is
   lost for a key reused after a day; `AtMostOnce` still holds, because the
   handlers' preconditions do.
3. `SpecStaleSave`: the editor sends the generation it last fetched, not the
   one the draft was begun on, and so overwrites a newer one.
4. `SpecReplay`: the spec store promises one generation for a replayed restore;
   its key is remembered only after the reconcile was awaited, and the copy that
   arrives in between makes a second one.

Four more disagreements are in the models' behaviours, and no run is spent on them:

- two identical requests that both find no record both run, and may be answered 200
  and 412, where `IIdempotencyStore.cs:11-13` has both produce "the same outcome";
- `stateFor` (`spec/server.ts:60-74`) sets the map's entry after an await without
  looking again, and a save acknowledged on the state it replaces is in no history
  that is read later;
- the store of a tenant created in the console starts with four tuples and a total of
  0 (`tenants/server.ts:162`, `relations/server.ts:58-60`): the first delete makes it
  -1, and no page passes its schema from then on;
- the Idempotency-Key of a batch of relations is never looked at
  (`relations/server.ts:106`), so a retry is harmless only if nobody wrote in between,
  which is what `RetryAloneIsNoOp` says; `batch-write-panel.tsx:38-40` promises it
  without that condition.

## 4. Proofs

Every safety property that a passing run checks, and the refinement, is also a
theorem, for every value of the constants. Three of them (`OneDraft`,
`ExplainAgrees`, `CompareFaithful`) are proved up to a stated fact about a pure
recursive function. TLC alone answers for the three liveness properties and for
those three facts (last part of this section). A theorem module `EXTENDS` its component and assumes nothing but
the named assumptions of that component about its constants:

| Assumption | Says | Because |
|---|---|---|
| `ConstantsAssumption`, `ApiAssumption`, `LifecycleAssumption` | markers are not data; generations and bounds are numbers, the retry budget is positive | JSON and the columns' types |
| `ConsoleSessionAssumption`, `TenantConsoleAssumption` | `/`, `/login` are no pages of the console; fixtures are distinct; a derived slug is a slug or nothing | `proxy.ts`, `fixtures.ts`, `deriveSlug` |
| `DriftAssumption`, `SpecConsoleAssumption`, `RunsAssumption`, `AuditAssumption` | the fixtures are of their TypeScript types, no fixture run is a retry, event ids are unique, page sizes are positive | `fixtures.ts`, `schemas.ts` |
| `AddressesAssumption`, `SeedAssumption`, `SeedModelsAssumption` | lowercasing gives an address; fixture tuples are distinct, and the total may be more or less than them; a fixture model has at most one draft, which parses | `fixtures.ts` of each screen |

TLC evaluates them in the runs.

### Control plane

**`SpecWritesProofs`**: type correctness, `HistoryContiguous`,
`NoEmptyGeneration`, `EveryWriteAnnouncedOnce`, `OneTenantPerSlug`,
`NoLostUpdate`, `AcknowledgedIsWritten`, for any requests, slugs, bodies and
If-Match values, with or without faults.
The properties of the tables are not inductive: whether a save may commit
depends on what the request remembers. `Inv` adds

- `AuthorInv`: a tenant row or a message comes from a request that is done (so
  the id of a pending create is free, and no request writes twice);
- `PendingInv`: a PUT past its check saw a generation that exists, equal to its
  If-Match; and *if the tenant is still at that generation*, the body it is
  about to write is not the current one;
- `ShownInv`: a GET's answer is the version its ETag names, or the tenant has
  moved past that ETag;
- `BasisInv`: what the basis of a PUT consists of.

Steps that leave the tables alone keep the invariant if they keep the moving
request's part (`QuietKeepsInv`). A commit writes a generation that the unique
index found free; by contiguity only the next one is (`FreeGeneration`), so the
tenant is still where the PUT saw it, the conditional parts of `PendingInv` and
`ShownInv` apply, and the new row extends the history without gap, fork or
repetition (`CommitKeepsTables`, `CommitKeepsInv`).

The refinement `ImplementsHistory` follows from that invariant. A step that leaves
tenants and spec rows alone is a stutter of `SpecHistory` (the mapping reads
nothing else). A commit writes the next generation, so it appends one version to
one slug and leaves every other slug as it was. The mapping picks the tenant of a
slug and the row of a generation with `CHOOSE`; `OneTenantPerSlug` and
`HistoryContiguous` say that there is only one to pick.

**`IdempotentApiProofs`**: `AtMostOnce` and `ReplaysAreTrue` for any number
of requests and keys, with lost responses, expiry and crashes. The tables only
ever see steps of `SpecWrites`, so `Inv` carries over; `ApiInv` adds what the
middleware knows: which handler stage belongs to which middleware stage
(`StageInv`), that a stored record, expired or not, is the answer of an
execution under that key and request hash (`RecordInv`), that a replay is such
an answer of another request (`ReplayInv`), and who wrote a message
(`CreatorInv`). Two copies of a create that both wrote would be two tenants of
one slug; two copies of a PUT would have announced one generation twice. Note
that neither argument uses the records: they spare work, the preconditions of
the handlers make the retry safe, as the middleware's comment claims.

**`TenantLifecycleProofs`**: type correctness, `StatusCoherent`,
`NoFailureLost`, `DeletedIsFinal` for any number of workers, any budget and any
bound on failures. `Inv` says of each tracked copy that it is coherent and,
while its token is current, that it agrees with the row up to the calls made on
it; a copy whose token is stale can never be saved.

### Console

**`DriftConsoleProofs`**: `TypeOK`, `HealedOnce`, `AcceptedStaysAccepted`,
`NoticeMatchesList`, `AckedMeansAll`.

- `HealInv` for `HealedOnce`: a heal that was not served has closed nothing, and
  an answered one has nothing left to send, so it is never served again (the
  loop of acknowledgements is). A heal then takes open findings only, hence
  findings no other heal closed, and the count grows by the cardinality of a
  set disjoint from what is gone (`HealKeeps`).
- `NoticeInv` for the two about notices. A notice is about the rows under it,
  which a focus refetch, a filter or another mutation may change at any time.
  The invariant follows a mutation from the server to the notice: what it
  handled is not open any more (and never is again); while it waits for the
  invalidated list, a fetch that *started after it was served* is under way, or
  the rows of the new filter are already without its findings; once it has
  waited, the rows are without them or the list failed. From then on every list
  that arrives holds open findings only. What an acknowledge loop still has to
  do and what it did make up its selection (`AckedMeansAll`).

**`SpecConsoleProofs`**: `TypeOK`, `HistoryImmutable`, `SavedOnTopOfIfMatch`,
`DuplicatesAgree`, `AnsweredKeyIsSpent`, `RunPerWrite`, `ChangesInOrder`, `SavedIsShown`, whichever of
two states built at once the store keeps.

- Part 1, `Inv`: `SavedOnTopOfIfMatch` speaks of answered writes only; the
  invariant says the same (`Laid`) of every request past its append, while it
  waits for its reconcile, and that a request about to write holds a state that
  exists. Every step leaves each list of versions alone or appends to it
  (`Grows`), so what was laid stays laid (`LaidStays`).
- Part 2 adds what ties the keys, runs and tabs together. `KeyVers`: the versions
  made under the key of a request are of its kind, and those of a save lie on
  the generation it names; `Mates`: two deliveries under one key are the same
  request. So a duplicate of a save that has written finds its If-Match taken. `OneGen`: the
  versions of one PUT, across all states, are of one generation. `Spent`: an answered
  key is remembered in the state it wrote to, and a key that is remembered is never
  forgotten, so the look-up of a later copy in that state finds it.
  `Stage` and `Replays` give the outcome of every change of a retried run at
  each poll, from which the order follows; `RetriesOK` that a retry's key names
  one run. For `SavedIsShown`, `Shown`: a write that waits for the refetch has a
  fetch under way that started after it, whose answer is at least as new.

**`TenantConsoleProofs`**: `TypeOK`, `NoRedirectLoop`, `OneTenantPerSlug`,
`NoTenantSkipped`, `SubmittedWasChecked`.

- `SessionInv` bounds by `Behind` how many redirects may lie behind a tab at
  each stage of a navigation: after one of them `/login` is only reached with a
  cookie that does not open any more, and no step revives a cookie on the way,
  so the proxy then shows the page.
- `CreatedInv`: created slugs are distinct and none is a fixture's; only
  `createTenant`, which looks both up and appends without an await in between,
  and a restart change them.
- A walk by cursor is an obligation, `Waiting`: every tenant the walk has to
  show and has not shown is in the list, matches, and stands behind the cursor.
  A new tenant comes in front of all others, so the order of two that are there
  is kept (`Before`); a restart drops the created ones, and a walk then owes only
  the fixtures among those it began with. The argument is by the place
  of the cursor in a list of distinct slugs (`IsOrder`). The obligation must hold of
  the page on show, of the page its Next button leads to, and of a navigation
  under way, each with its own filter.
- The wizard shows a step past the first only with an identity whose slug check
  was answered, and what it posted was checked, though the field may since hold
  another slug (`WizardOK`, `SentChecked`).

**`ListsProofs`**: the types and properties of `RunsConsole` and `AuditConsole`,
and that `ListScreens` is a behaviour of both (`ListsApart`), so that it keeps
all of them (`ListsKeepPromises`).

- `RunsInv`. A run by itself has its marks and segments in agreement
  (`RunOK`); a retry plays `retryScript`, so the rows before the step it is at
  are applied (`ReplayOK`), and its finish comes after the last. A store only
  `Grows`: no run leaves, and a settled one is not touched. Hence what a tab
  holds, or an answer on its way, was once in the store and is final if settled
  (`PageOK`, `DetailFor`); and since tenant and trigger of a run never
  change, the set a filter without an outcome selects (`Selected`) only gains
  runs newer than the page, whatever is on its way (`PageFor`).
- `AuditInv`. Pages under a filter, on the way or shown, are the pages of that
  filter's stream from its beginning (`PagesOK`). That the stream is sorted is
  not an induction on the sort: the rank of an event is the number of
  matching ones newer than it; the order is total, so ranks are distinct and fill
  `0..n-1` (`RankInjective`, `RankOnto`), and the place of an event in the
  stream is its rank. Whatever is newer has a smaller rank, so it is on a page
  that is loaded (`NewestFirst`).

**`TenantScreensProofs`**: `TypeOK`, `TuplesCounted`, `RetryAloneIsNoOp`,
`IssuerToneTrue`, `InvitedOnce`, and the other three up to what is said below.
`ScreenInv` has for each screen its own invariant:

- relations, `RelInv`: what `Array.filter` keeps of a list without repetitions is
  the list of those places in order (again by ranks: `WithoutFacts`), so `writeRelations`
  adds exactly what is absent and the total counts it (`ApplyFacts`). For the
  retry: the batch applied *last* to a store is in force there, its writes present and
  its deletes absent (`InForce`, `Latest`); applying it once more then filters out
  all of it. `RetryAloneIsNoOp` alone says nothing of the batches that may be
  retried next;
- identity providers, `ProbesInv`: a form knows which issuer its verdict was
  asked for, whatever the field holds since;
- users, `MembersInv`: what was mailed is in the set of invitations, which
  `inviteUser` tests with the mirror and extends without an await in between;
- authorization model, `ModelInv`: every model that is stored, on its way or on
  an editor has its live version and at most one draft, the one after it;
  staging again replaces that draft in place and keeps its number
  (`StagedKept`); a verdict that says ok is about the text it names;
- playground, `PlayInv`: a decision cached or on its way is `explain`'s for the
  question it is filed under;
- history, `HistoryInv`: the list a page has read is a beginning of the history,
  so whichever two generations the link, the default or a click selects
  (`SelectionFacts`), the panes hold what the server has under these numbers, older
  first.

### What stays with TLC

*Liveness*: `EveryRequestReplied`, `BusyEnds`, `RunSettles` hold under fairness,
which is beyond the prover.

*What a recursive definition computes for every input* is an induction over data,
which the installed provers cannot do. It concerns three pure computations:
`parseModel` with `summarize`, `diffLines` with `describeChange`, and `explain`.
The theorems about the screens that use them are therefore reductions: whatever
interleaves, is lost or is stale, the *screen* is right if the *function* is.

- `DraftsSound == ParserTrue => (Spec => []OneDraft)`: a text that parses without an
  issue is closed and unambiguous, and its summary describes it;
- `ComparisonsFaithful == DiffTrue => (Spec => []CompareFaithful)`: the diff of two
  documents of the history explains both;
- `DecisionsRight == ResolverTrue => (Spec => []ExplainAgrees)`: the resolver agrees
  with the least fixpoint for every question, up to a depth cap it reports.

The three hypotheses speak of constants only, and hold on the instance of the run
`TenantScreens` (its six texts, its documents, its questions over its sets of
tuples): the run checks what they say through the three invariants. Beside
them, what needs no hypothesis is proved without one: `OneDraftAtATime`,
`PanesAreVersions`, `DecisionsMatch`.

*What the models abstract* is in section 5; a proof says nothing of it either.

## 5. Not modelled

- *Aggregates without a caller*: `OutboxMessage` after its insert,
  `ReconcileRun`, `ReconcileChange`, `DriftFinding`, `RelationTuple`. The worker
  that would call them is a timer loop that logs (`ReconcileWorker.cs:29`), so
  in which order they are called, and what happens in a crash between two
  calls, is not in the repository. Their hazards are listed for the day it is.
- *Reads without state*: `TenantQueries.ListAsync` and the version queries, the
  dashboard, the audit log's totals and list of actors, the tenant detail page, the `hasDrift` filter, the filtered list of users.
- *Text*: `SpecHash`, `ChangeKey`, `TenantSlug`, the tokenizer and `diffDsl` of
  the model DSL, spec validation and plan rules, highlighting, the wording of
  a resolver's reason and its path. A text is a value, a verdict on it is a
  constant set, a token line is a record.
- *Numbers*: the delays of `BackoffPolicy`, timestamps, durations.
- *The runtime*: `AmbientTenant` and the generated query filters, migrations,
  telemetry, rendering, styling, the query library beyond invalidation, refetch
  and failure.
