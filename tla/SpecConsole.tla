------------------------------ MODULE SpecConsole ------------------------------
(***************************************************************************)
(* One tenant's desired-state spec in the console: the in-process spec     *)
(* store (features/spec/server.ts), the store of reconcile runs it feeds   *)
(* (features/reconcile/server.ts), and the browser tabs on the editor, the *)
(* history and the run pages.  A server function is cut at its awaits:     *)
(* any other request may run between two of its steps.                     *)
(***************************************************************************)
EXTENDS Integers, Sequences, FiniteSets

CONSTANTS
    Tabs,           \* editor and history pages of this tenant
    Direct,         \* a client of the API that resends requests and posts retries
    Uses,           \* Tabs -> the controls each may use (bounds them)
    Bodies,         \* spec documents
    ValidBodies,    \* the ones validateSpecBody accepts
    SeedBodies,     \* the versions the fixtures start from, oldest first
    SeedRuns,       \* the runs the fixtures start from, oldest first
    Changes,        \* how many changes a run makes
    RunsLimit,      \* how many of the newest runs enqueueReconcile asks for (10)
    MaxClicks,      \* bound: how often the operators act, and with it writes and runs
    None

ChangeOutcome == {"applied", "failed", "retrying", "applying", "pending", "skipped"}
LiveStep == [changes : UNION {[C -> ChangeOutcome] : C \in SUBSET (1..Changes)}, finish : BOOLEAN]
RunDetail == [finished : BOOLEAN, step : Nat, script : Seq(LiveStep), retryOf : Nat,
              changes : [1..Changes -> ChangeOutcome]]

ASSUME SpecConsoleAssumption ==
    /\ ValidBodies \subseteq Bodies /\ None \notin Bodies /\ Direct \notin Tabs
    /\ SeedBodies \in Seq(ValidBodies) /\ SeedBodies # <<>>
    /\ Changes \in Nat /\ RunsLimit \in Nat /\ MaxClicks \in Nat
    /\ SeedRuns \in Seq(RunDetail)       \* no fixture is a retry, and none has been polled
    /\ \A r \in DOMAIN SeedRuns : SeedRuns[r].step = 0 /\ SeedRuns[r].retryOf = 0

VARIABLES
    objs,           \* every TenantSpecState built so far
    store,          \* the one store() holds for the tenant, 0 for none
    runs,           \* the run store in order of start
    retriesByKey,   \* pairs of an Idempotency-Key and the run it created
    req,            \* the request each client has under way
    keys,           \* Idempotency-Keys handed out; the next one is fresh
    log,            \* history: every successful write that was answered
    view,           \* client state of each tab
    watch,          \* run pages that are open, and whether each saw finishedAt
    clicks          \* how often the operators acted

serverVars == <<objs, store, runs, retriesByKey>>
vars == <<serverVars, req, keys, log, view, watch, clicks>>

Clients == Tabs \cup {Direct}

-----------------------------------------------------------------------------
(* features/spec/server.ts and features/reconcile/server.ts *)

(* genericVersions / acmeVersions: generation i is the i-th seed. *)
SeedState == [versions |-> [g \in 1..Len(SeedBodies) |-> [body |-> SeedBodies[g], key |-> 0, restoreOf |-> 0]],
              byKey |-> {}]
currentGeneration(o) == Len(objs[o].versions)
current(o) == objs[o].versions[currentGeneration(o)]

NoReq == [kind |-> "none", phase |-> "idle", key |-> 0, body |-> None, ifMatch |-> 0, base |-> 0,
          source |-> 0, obj |-> 0, pick |-> 0, gen |-> 0, run |-> 0, status |-> 0]
To(p, phase) == [req EXCEPT ![p].phase = phase]
Answer(p, status) == [req EXCEPT ![p].phase = "answered", ![p].status = status]

(* stateFor: the entry is looked up, and built only after an await. *)
stateFor(p) ==
    /\ req[p].phase = "enter"
    /\ req' = IF store # 0 THEN [req EXCEPT ![p].phase = "write", ![p].obj = store]
              ELSE To(p, "tenant")
    /\ UNCHANGED <<serverVars, keys, log, view, watch>>

stateForSet(p) ==
    /\ req[p].phase = "tenant"
    /\ objs' = Append(objs, SeedState) /\ store' = Len(objs) + 1
    /\ req' = [req EXCEPT ![p].phase = "write", ![p].obj = Len(objs) + 1]
    /\ UNCHANGED <<runs, retriesByKey, keys, log, view, watch>>

(* restoreVersion's own checks; then saveSpec with the generation just read. *)
restoreVersion(p) ==
    LET o == req[p].obj
        g == req[p].source
    IN  /\ req[p].kind = "restore" /\ req[p].phase = "write" /\ req[p].body = None
        /\ req' = CASE g \notin 1..currentGeneration(o) -> Answer(p, 404)
                    [] g = currentGeneration(o) -> Answer(p, 409)
                    [] OTHER -> [req EXCEPT ![p].phase = "enter", ![p].ifMatch = currentGeneration(o),
                                            ![p].body = objs[o].versions[g].body]
        /\ UNCHANGED <<serverVars, keys, log, view, watch>>

(* The restore route reports everything but 404 and 409 as 400. *)
Refusal(p, status) == Answer(p, IF req[p].kind = "restore" THEN 400 ELSE status)

GenerationAlwaysMatches(p) == TRUE                        \* mutant: If-Match not compared
GenerationMatches(p) == req[p].ifMatch = currentGeneration(req[p].obj)

Validates(p) == req[p].body \in ValidBodies

AppendInPlace(vs, v) == [vs EXCEPT ![Len(vs)] = v]        \* mutant: overwrites the version
AppendVersion(vs, v) == Append(vs, v)

(* saveSpec up to its second await: replay, If-Match, validation, append. *)
saveSpec(p) ==
    LET o == req[p].obj
        replay == {e \in objs[o].byKey : e.key = req[p].key}
    IN  /\ req[p].phase = "write" /\ req[p].body # None
        /\ \/ /\ replay # {}
              /\ \E e \in replay :
                    req' = [req EXCEPT ![p].phase = "answered", ![p].status = 202,
                                       ![p].gen = e.gen, ![p].run = e.run]
              /\ UNCHANGED objs
           \/ /\ replay = {} /\ ~GenerationMatches(p)
              /\ req' = Refusal(p, IF req[p].ifMatch = 0 THEN 428 ELSE 412) /\ UNCHANGED objs
           \/ /\ replay = {} /\ GenerationMatches(p) /\ ~Validates(p)
              /\ req' = Refusal(p, 400) /\ UNCHANGED objs
           \/ /\ replay = {} /\ GenerationMatches(p) /\ Validates(p)
              /\ objs' = [objs EXCEPT ![o].versions =
                            AppendVersion(@, [body |-> req[p].body, key |-> req[p].key,
                                              restoreOf |-> req[p].source])]
              /\ req' = [req EXCEPT ![p].phase = "list", ![p].gen = currentGeneration(o) + 1]
        /\ UNCHANGED <<store, runs, retriesByKey, keys, log, view, watch>>

(* enqueueReconcile, first half: the newest settled run on one page of runs. *)
Settled == {r \in DOMAIN runs : runs[r].finished /\ r > Len(runs) - RunsLimit}
listRuns(p) ==
    /\ req[p].phase = "list"
    /\ req' = [req EXCEPT ![p].phase = "retry",
                          ![p].pick = IF Settled = {} THEN 0
                                      ELSE CHOOSE r \in Settled : \A q \in Settled : q <= r]
    /\ UNCHANGED <<serverVars, keys, log, view, watch>>

InFlight(r) == ~runs[r].finished

ReplayOfRun(p, key) == {e \in retriesByKey : runs[e.run].retryOf = req[p].pick}    \* mutant
ReplayOf(p, key) == {e \in retriesByKey : e.key = key}

RetryKey(p) == <<req[p].key, req[p].kind \in {"save", "restore"}>>    \* key, or `${key}:reconcile`
Enqueued(p, run) == [req EXCEPT ![p].run = run,
                                ![p].phase = IF req[p].body = None THEN "answered" ELSE "finish",
                                ![p].status = 202]

(* A script is a sequence of polls; each says what becomes of which change.   *)
OffByOne(i) == [c \in {i, i + 1} \cap 1..Changes |-> IF c = i THEN "applied" ELSE "applying"]   \* mutant
AfterChange(i) == [c \in {i - 1, i} \cap 1..Changes |-> IF c = i - 1 THEN "applied" ELSE "applying"]
retryScript == [i \in 1..(Changes + 2) |->
                  [changes |-> IF i \in 2..(Changes + 1) THEN AfterChange(i) ELSE <<>>,
                   finish |-> i = Changes + 2]]

(* retryRun, and the synthetic id of enqueueReconcile when it refuses. *)
retryRun(p) ==
    LET replay == ReplayOf(p, RetryKey(p))
        r == req[p].pick
    IN  /\ req[p].phase = "retry"
        /\ \/ /\ replay # {}
              /\ \E e \in replay : req' = Enqueued(p, e.run)
              /\ UNCHANGED <<runs, retriesByKey>>
           \/ /\ replay = {} /\ (IF r = 0 THEN TRUE ELSE InFlight(r))
              /\ req' = IF req[p].kind = "retry" THEN Answer(p, IF r = 0 THEN 404 ELSE 409)
                        ELSE Enqueued(p, -req[p].key)
              /\ UNCHANGED <<runs, retriesByKey>>
           \/ /\ replay = {} /\ (IF r = 0 THEN FALSE ELSE ~InFlight(r))
              /\ runs' = Append(runs, [finished |-> FALSE, step |-> 0, script |-> retryScript, retryOf |-> r,
                    changes |-> [c \in 1..Changes |-> IF c = 1 THEN "applying" ELSE "pending"]])
              /\ retriesByKey' = retriesByKey \cup {[key |-> RetryKey(p), run |-> Len(runs) + 1]}
              /\ req' = Enqueued(p, Len(runs) + 1)
        /\ UNCHANGED <<objs, store, keys, log, view, watch>>

(* saveSpec after its second await: only now is the key remembered, and the   *)
(* last answer under it replaces an earlier one.                              *)
RememberNothing(byKey, q) == byKey                        \* mutant: the answer is not kept
Remember(byKey, q) == {e \in byKey : e.key # q.key} \cup {[key |-> q.key, gen |-> q.gen, run |-> q.run]}

saveSpecFinish(p) ==
    /\ req[p].phase = "finish"
    /\ objs' = [objs EXCEPT ![req[p].obj].byKey = Remember(@, req[p])]
    /\ req' = Answer(p, 202)
    /\ log' = log \cup {req[p]}
    /\ UNCHANGED <<store, runs, retriesByKey, keys, view, watch>>

(* advanceLive: each read of an unfinished run plays one step of its script,  *)
(* as long as there is one; a fixture's script may end without a finish.      *)
AdvanceStuck(run) == [run EXCEPT !.step = IF @ < Len(run.script) THEN @ + 1 ELSE @]     \* mutant
advanceLive(run) ==
    IF run.step = Len(run.script) THEN run
    ELSE LET s == run.script[run.step + 1]
         IN  [run EXCEPT !.step = @ + 1, !.finished = s.finish,
                         !.changes = [c \in 1..Changes |->
                             IF c \in DOMAIN s.changes THEN s.changes[c] ELSE @[c]]]

-----------------------------------------------------------------------------
(* The tabs *)

NoDoc == [gen |-> 0, body |-> None]
getSpec == [gen |-> currentGeneration(store), body |-> current(store).body]

Init ==
    /\ runs = SeedRuns /\ retriesByKey = {}
    /\ \/ objs = <<>> /\ store = 0          \* nothing has read this tenant's spec yet
       \/ objs = <<SeedState>> /\ store = 1
    /\ req = [p \in Clients |-> NoReq]
    /\ keys = 0 /\ log = {} /\ watch = {} /\ clicks = 0
    /\ view = [t \in Tabs |->
         [doc |-> [gen |-> Len(SeedBodies), body |-> SeedBodies[Len(SeedBodies)]],
          draft |-> None, base |-> Len(SeedBodies), checked |-> None, manual |-> None,
          fetch |-> "idle", answer |-> NoDoc, fetchFailed |-> FALSE, rediff |-> FALSE,
          saved |-> 0, problem |-> 0]]

draft(t) == IF view[t].draft # None THEN view[t].draft ELSE view[t].doc.body
Pending(t) == req[t].phase # "idle"

(* The editor's onChange; base is the generation whose text is being edited. *)
setLocalDraft(t, b) ==
    /\ b # draft(t)
    /\ view' = [view EXCEPT ![t].draft = b,
                            ![t].base = IF view[t].draft = None THEN view[t].doc.gen ELSE @]
    /\ UNCHANGED <<serverVars, req, keys, log, watch>>

(* Debounced validation: a response for any text but the latest is dropped,   *)
(* and asking again silences the answer to an earlier click on Validate.      *)
validateDebounced(t) ==
    /\ "edit" \in Uses[t] /\ view[t].checked # draft(t)
    /\ view' = [view EXCEPT ![t].checked = draft(t), ![t].manual = None]
    /\ UNCHANGED <<serverVars, req, keys, log, watch>>

(* The Validate button has no such guard: its answer, if it comes before the  *)
(* next debounced check, may be for older text.                               *)
validateNow(t) ==
    /\ view[t].manual = None
    /\ view' = [view EXCEPT ![t].manual = draft(t)]
    /\ UNCHANGED <<serverVars, req, keys, log, watch>>
setValidation(t) ==
    /\ view[t].manual # None
    /\ view' = [view EXCEPT ![t].checked = view[t].manual, ![t].manual = None]
    /\ UNCHANGED <<serverVars, req, keys, log, watch>>
invalid(t) == view[t].checked \notin ValidBodies

Send(p, r) == /\ req' = [req EXCEPT ![p] = r]
              /\ keys' = keys + 1
              /\ UNCHANGED <<serverVars, log>>

(* Save new version: If-Match is the generation of the cached document now. *)
save(t) ==
    /\ ~invalid(t) /\ ~Pending(t)
    /\ Send(t, [NoReq EXCEPT !.kind = "save", !.phase = "enter", !.key = keys + 1, !.body = draft(t),
                             !.ifMatch = view[t].doc.gen,
                             !.base = IF view[t].draft = None THEN view[t].doc.gen ELSE view[t].base])
    /\ view' = [view EXCEPT ![t].problem = 0]
    /\ UNCHANGED watch

(* Restore gen A: disabled for the version the cached list calls current. *)
restore(t, g) ==
    /\ ~Pending(t) /\ g # view[t].doc.gen
    /\ Send(t, [NoReq EXCEPT !.kind = "restore", !.phase = "enter", !.key = keys + 1, !.source = g])
    /\ UNCHANGED <<view, watch>>

(* Apply in the plan preview *)
reconcileNow(t) ==
    /\ ~Pending(t)
    /\ Send(t, [NoReq EXCEPT !.kind = "reconcile", !.phase = "list", !.key = keys + 1])
    /\ UNCHANGED <<view, watch>>

(* Retry run: disabled while the page has not seen finishedAt. *)
RunActions(t, w) ==
    /\ ~Pending(t) /\ w.seen
    /\ Send(t, [NoReq EXCEPT !.kind = "retry", !.phase = "retry", !.key = keys + 1, !.pick = w.run])
    /\ UNCHANGED <<view, watch>>

(* The same PUT or POST delivered twice, perhaps by a client that leaves the  *)
(* If-Match header out, and a retry of any run id.                            *)
Resend(t, header) ==
    /\ req[Direct].phase = "idle" /\ req[t].kind \in {"save", "restore"}
    /\ req' = [req EXCEPT ![Direct] = [NoReq EXCEPT !.kind = req[t].kind, !.phase = "enter",
                 !.key = req[t].key, !.body = IF req[t].kind = "save" THEN req[t].body ELSE None,
                 !.ifMatch = IF req[t].kind = "save" /\ header THEN req[t].ifMatch ELSE 0,
                 !.base = req[t].base, !.source = req[t].source]]
    /\ UNCHANGED <<serverVars, keys, log, view, watch>>
PostRetry(r) ==
    /\ req[Direct].phase = "idle"
    /\ Send(Direct, [NoReq EXCEPT !.kind = "retry", !.phase = "retry", !.key = keys + 1, !.pick = r])
    /\ UNCHANGED <<view, watch>>
DirectDone ==
    /\ req[Direct].phase = "answered" /\ req' = [req EXCEPT ![Direct] = NoReq]
    /\ UNCHANGED <<serverVars, keys, log, view, watch>>

(* The spec query: a focus refetch joins a fetch in flight, an invalidation   *)
(* cancels it and asks again.                                                 *)
windowFocus(t) ==
    /\ view[t].fetch = "idle" /\ store # 0
    /\ view' = [view EXCEPT ![t].fetch = "requested"]
    /\ UNCHANGED <<serverVars, req, keys, log, watch>>
InvalidateJoins(v) == IF v.fetch = "idle" THEN [v EXCEPT !.fetch = "requested"] ELSE v   \* mutant
invalidate(v) == [v EXCEPT !.fetch = "requested", !.answer = NoDoc]

fetchSpec(t) ==
    /\ view[t].fetch = "requested" /\ store # 0
    /\ view' = [view EXCEPT ![t].fetch = "answered", ![t].answer = getSpec]
    /\ UNCHANGED <<serverVars, req, keys, log, watch>>

(* The document arrives or the fetch fails; a save waiting for it goes on. *)
Refetched(t) == IF req[t].phase = "refetch" THEN [req EXCEPT ![t].phase = "fetched"] ELSE req
receiveSpec(t) ==
    /\ view[t].fetch = "answered"
    /\ view' = [view EXCEPT ![t].fetch = "idle", ![t].answer = NoDoc, ![t].doc = view[t].answer,
                            ![t].fetchFailed = FALSE, ![t].rediff = FALSE,
                            ![t].base = IF view[t].rediff THEN view[t].answer.gen ELSE @]
    /\ req' = Refetched(t)
    /\ UNCHANGED <<serverVars, keys, log, watch>>
fetchFails(t) ==
    /\ view[t].fetch = "requested"
    /\ view' = [view EXCEPT ![t].fetch = "idle", ![t].fetchFailed = TRUE]
    /\ req' = Refetched(t)
    /\ UNCHANGED <<serverVars, keys, log, watch>>

(* The answer reaches the tab: a success invalidates first, a refusal shows.  *)
receiveAnswer(t) ==
    /\ req[t].phase = "answered"
    /\ IF req[t].status = 202
       THEN /\ req' = To(t, "refetch")
            /\ view' = [view EXCEPT ![t] = IF req[t].body = None THEN @ ELSE invalidate(@)]
       ELSE /\ req' = [req EXCEPT ![t] = NoReq]
            /\ view' = [view EXCEPT ![t].problem = req[t].status]
    /\ UNCHANGED <<serverVars, keys, log, watch>>

(* onSuccess of the view: setSaved and setLocalDraft(null) for a save, the    *)
(* page of the new run for a reconcile or a retry.                            *)
onSuccess(t) ==
    /\ req[t].phase = "fetched" \/ (req[t].phase = "refetch" /\ req[t].body = None)
    /\ view' = CASE req[t].kind = "save" ->
                        [view EXCEPT ![t].saved = req[t].gen, ![t].draft = None, ![t].problem = 0]
                 [] req[t].kind = "restore" -> [view EXCEPT ![t].saved = req[t].gen, ![t].problem = 0]
                 [] OTHER -> view
    /\ watch' = IF req[t].kind \in {"reconcile", "retry"} /\ req[t].run > 0
                THEN watch \cup {[run |-> req[t].run, seen |-> runs[req[t].run].finished]} ELSE watch
    /\ req' = [req EXCEPT ![t] = NoReq]
    /\ UNCHANGED <<serverVars, keys, log>>

(* 412 · reload and re-diff: the operator asks for the newer document. *)
onRetry(t) ==
    /\ view[t].problem = 412
    /\ view' = [view EXCEPT ![t] = [invalidate(@) EXCEPT !.problem = 0, !.rediff = TRUE]]
    /\ UNCHANGED <<serverVars, req, keys, log, watch>>

(* A run page is opened; it polls once a second until it has seen finishedAt. *)
openRun(r) ==
    /\ ~\E w \in watch : w.run = r
    /\ watch' = watch \cup {[run |-> r, seen |-> runs[r].finished]}
    /\ UNCHANGED <<serverVars, req, keys, log, view>>
detailPollInterval(w) == ~w.seen
getRun(w) ==
    /\ detailPollInterval(w)
    /\ runs' = IF runs[w.run].finished THEN runs ELSE [runs EXCEPT ![w.run] = advanceLive(@)]
    /\ watch' = (watch \ {w}) \cup {[w EXCEPT !.seen = runs'[w.run].finished]}
    /\ UNCHANGED <<objs, store, retriesByKey, req, keys, log, view>>

-----------------------------------------------------------------------------
Server(p) == \/ stateFor(p) \/ stateForSet(p) \/ restoreVersion(p) \/ saveSpec(p)
             \/ listRuns(p) \/ retryRun(p) \/ saveSpecFinish(p)
Client(t) == receiveAnswer(t) \/ onSuccess(t) \/ fetchSpec(t) \/ receiveSpec(t)

OperatorStep(t) ==
    \/ "edit" \in Uses[t] /\ \E b \in Bodies : setLocalDraft(t, b)
    \/ "edit" \in Uses[t] /\ onRetry(t)
    \/ "validate" \in Uses[t] /\ validateNow(t)
    \/ "edit" \in Uses[t] /\ save(t)
    \/ "restore" \in Uses[t] /\ \E g \in 1..view[t].doc.gen : restore(t, g)
    \/ "runs" \in Uses[t] /\ reconcileNow(t)
    \/ "runs" \in Uses[t] /\ \E w \in watch : RunActions(t, w)
    \/ "runs" \in Uses[t] /\ \E r \in DOMAIN runs : openRun(r)
    \/ "focus" \in Uses[t] /\ windowFocus(t)
    \/ "resent" \in Uses[t] /\ \E header \in BOOLEAN : Resend(t, header)

Next ==
    \/ /\ UNCHANGED clicks
       /\ \/ \E p \in Clients : Server(p)
          \/ \E t \in Tabs : Client(t) \/ fetchFails(t) \/ validateDebounced(t) \/ setValidation(t)
          \/ \E w \in watch : getRun(w)
          \/ DirectDone
    \/ /\ clicks < MaxClicks /\ clicks' = clicks + 1
       /\ \/ \E t \in Tabs : OperatorStep(t)
          \/ \E r \in DOMAIN runs : PostRetry(r)

RunIds == (Len(SeedRuns) + 1)..(Len(SeedRuns) + MaxClicks)     \* the runs enqueued here

(* An open page polls while it is visible. *)
Fairness ==
    \A r \in RunIds : WF_vars(UNCHANGED clicks /\ \E w \in watch : w.run = r /\ getRun(w))

Spec == Init /\ [][Next]_vars /\ Fairness

-----------------------------------------------------------------------------
(* Properties *)

(* Every field of every store, request and tab keeps its range, and what a tab *)
(* shows or sends is a document the editor accepts (spec/schemas.ts).          *)
Body == Bodies \cup {None}
TypeOK ==
    /\ store \in 0..Len(objs)
    /\ \A o \in DOMAIN objs : \A g \in DOMAIN objs[o].versions :
          LET v == objs[o].versions[g]
          IN  v.body \in ValidBodies /\ v.key \in 0..keys /\ v.restoreOf \in 0..(g - 1)
    /\ \A r \in DOMAIN runs :
          /\ runs[r] \in RunDetail /\ runs[r].step <= Len(runs[r].script)
          /\ runs[r].retryOf \in 0..(r - 1)
    /\ \A p \in Clients :
          /\ req[p].kind \in {"none", "save", "restore", "reconcile", "retry"}
          /\ req[p].phase \in {"idle", "enter", "tenant", "write", "list", "retry", "finish",
                               "answered", "refetch", "fetched"}
          /\ req[p].status \in {0, 202, 400, 404, 409, 412, 428} /\ req[p].key \in 0..keys
          /\ req[p].obj \in 0..Len(objs) /\ req[p].body \in Body
    /\ \A t \in Tabs :
          /\ view[t].doc.body \in ValidBodies /\ view[t].draft \in Body /\ view[t].checked \in Body
          /\ view[t].fetch \in {"idle", "requested", "answered"}
    /\ \A w \in watch : w.run \in DOMAIN runs /\ w.seen \in BOOLEAN

(* A write that succeeded was laid directly on the generation its If-Match     *)
(* named, and that generation still holds what was sent, a document saveSpec's *)
(* own check accepted: whatever other saves, restores and duplicates ran at    *)
(* its awaits, and whatever verdict on older text let the tab press Save.      *)
SavedOnTopOfIfMatch ==
    \A w \in log : LET v == objs[w.obj].versions[w.gen]
                   IN  /\ w.ifMatch = w.gen - 1 /\ w.body \in ValidBodies
                       /\ v.body = w.body /\ v.key = w.key

(* A PUT delivered twice makes one version: every version of its key is the    *)
(* same generation, in whichever state it was laid, and a 202 names a version  *)
(* of its own key (saveSpec).  So all answers to one PUT report one            *)
(* generation; a copy that meets the first at its await is refused with 412.   *)
(* Of a restore delivered twice only the text is the same, while one state was *)
(* built: its generations are ReplaySameGeneration.                            *)
DuplicatesAgree ==
    /\ \A o, u \in DOMAIN objs : \A i \in DOMAIN objs[o].versions, j \in DOMAIN objs[u].versions :
          LET v == objs[o].versions[i]
              w == objs[u].versions[j]
              oneKey == v.key = w.key /\ v.key # 0
          IN  /\ (oneKey /\ v.restoreOf = 0) => i = j
              /\ (oneKey /\ Len(objs) = 1) => v.body = w.body
    /\ \A p \in Clients : req[p].phase = "answered" /\ req[p].status = 202 /\ req[p].body # None =>
          objs[req[p].obj].versions[req[p].gen].key = req[p].key

(* Once a PUT or a restore was answered, no other copy of it writes into that  *)
(* state: the remembered key answers it, however often it is sent again and    *)
(* whatever was saved in between (byKey.set of saveSpec).  A copy already past *)
(* the look-up has laid its version by then.                                   *)
AnsweredKeyIsSpent ==
    [][\A w \in log : \A g \in DOMAIN objs'[w.obj].versions :
          objs'[w.obj].versions[g].key = w.key => g \in DOMAIN objs[w.obj].versions]_vars

(* Two writes never share a reconcile run, and the run of a write repeats one  *)
(* that had settled (enqueueReconcile, retryRun).                              *)
RunPerWrite ==
    /\ \A v, w \in log : v.run = w.run => v.key = w.key
    /\ \A r \in DOMAIN runs : runs[r].retryOf # 0 => runs[runs[r].retryOf].finished

(* A retried run applies its changes one after the other and settles only when *)
(* all of them are applied, however many pages poll it (retryScript).          *)
ChangesInOrder ==
    \A r \in DOMAIN runs : runs[r].retryOf # 0 =>
        LET c == runs[r].changes
        IN  /\ \A i, j \in 1..Changes : i < j /\ c[i] # "applied" => c[j] = "pending"
            /\ runs[r].finished => \A i \in 1..Changes : c[i] = "applied"

(* When the editor says "saved generation g" it shows generation g or a later  *)
(* one, unless the refetch failed (useInvalidateSpecWrite runs before          *)
(* setSaved); two first readers may leave a store that never had g.            *)
SavedIsShown ==
    \A t \in Tabs : Len(objs) <= 1 /\ ~view[t].fetchFailed => view[t].saved <= view[t].doc.gen

(* Within one TenantSpecState a version is never changed or dropped (saveSpec, *)
(* restoreVersion).  The state that store() hands out, the history every       *)
(* reader sees, changes hands in one case only: a request that found none      *)
(* built another, and then readers are back at the fixtures' versions          *)
(* (stateFor).  What was saved on the first state is lost to them.             *)
HistoryImmutable ==
    [][/\ \A o \in DOMAIN objs : LET vs == objs[o].versions IN
             /\ Len(objs'[o].versions) >= Len(vs)
             /\ SubSeq(objs'[o].versions, 1, Len(vs)) = vs
       /\ store' # store =>
             /\ objs' = Append(objs, SeedState) /\ store' = Len(objs')
             /\ \E p \in Clients : req[p].phase = "tenant" /\ req'[p].phase = "write"]_vars

(* A run enqueued from the console that somebody watches is seen to settle.    *)
RunSettles ==
    \A r \in RunIds :
        (\E w \in watch : w.run = r) ~> (\E w \in watch : w.run = r /\ w.seen)

(* What the 428 of saveSpec says If-Match is for: the generation sent is the   *)
(* one whose text the operator edited.                                         *)
NoStaleOverwrite == \A w \in log : w.kind = "save" => w.ifMatch = w.base

(* What the comment on byKey says of a replayed PUT or restore: every answer   *)
(* under one Idempotency-Key reports the same generation.                      *)
ReplaySameGeneration == \A v, w \in log : v.key = w.key => v.gen = w.gen
=============================================================================
