----------------------------- MODULE SpecWrites -----------------------------
(***************************************************************************)
(* The write path of the control plane: POST /v1/tenants (CreateTenant),   *)
(* PUT /v1/tenants/{id}/spec (UpdateTenantSpec) and GET /v1/tenants/{id}   *)
(* running concurrently over the Postgres tables they share.               *)
(*                                                                         *)
(* Every handler is split where it awaits the database.  Under READ        *)
(* COMMITTED each query is a statement with a snapshot of its own, so      *)
(* other requests may commit between any two of them; SaveChangesAsync is  *)
(* one transaction and is one step.  What protects the history is the      *)
(* If-Match check, made on a value that may be stale by the time of the    *)
(* save, and the unique indexes, checked at the save.                      *)
(*                                                                         *)
(* Data abstraction.  A spec body is its canonical hash (two documents     *)
(* with one canonical form are one member of Body); Malformed stands for   *)
(* every input that validation answers with 400 before any query (a bad    *)
(* slug, a blank name, a spec that is not an object, an If-Match that is   *)
(* not a generation).  The id of a tenant is the request that creates it:  *)
(* Guid.CreateVersion7 never repeats.                                      *)
(***************************************************************************)
EXTENDS Naturals, FiniteSets

CONSTANTS Request,    \* the requests of a behaviour, each handled once
          Slug,       \* tenant slugs that pass TenantSlug.TryCreate
          Body,       \* canonical spec hashes
          IfMatch,    \* generations clients put into If-Match
          Malformed,  \* the body of a request that fails validation
          None,       \* absent: no If-Match header, no field, no slug yet
          Faults      \* whether saves may fail and processes may die

ASSUME ConstantsAssumption ==
  /\ IfMatch \subseteq Nat
  /\ Malformed \notin Body
  /\ None \notin Nat /\ None \notin Body /\ None \notin Slug
  /\ Faults \in BOOLEAN

VARIABLES tenants,    \* table tenants: [Request -> row]; generation 0 = no row
          specs,      \* table tenant_specs
          outbox,     \* table outbox_messages, as the handlers enqueue into it
          audit,      \* table audit_events
          pc,         \* where each request is between two awaits
          input,      \* what each request asks for
          seen,       \* Tenant.Generation as the request's tracked entity holds it
          basis,      \* history: the GETs whose answer the PUT's author may have edited
          answer      \* the response of each request that has one

dbVars  == <<tenants, specs, outbox, audit>>
reqVars == <<pc, input, seen, basis, answer>>
vars    == <<dbVars, reqVars>>
-----------------------------------------------------------------------------
(* Inputs.                                                                 *)

Nothing == [op |-> "none", slug |-> None, tenant |-> None,
            ifMatch |-> None, body |-> None]

Creates == [op : {"create"}, slug : Slug, tenant : {None},
            ifMatch : {None}, body : Body \cup {Malformed}]

Puts == [op : {"put"}, slug : {None}, tenant : Request,
         ifMatch : IfMatch \cup {None}, body : Body \cup {Malformed}]

Gets == [op : {"get"}, slug : {None}, tenant : Request,
         ifMatch : {None}, body : {None}]

Inputs == Creates \cup Puts \cup Gets

(* An answer: the status and, for a success, the generation (the ETag) and *)
(* the hash it reports.                                                    *)
Answers == [status : Nat, generation : Nat, hash : Body \cup {None},
            changed : BOOLEAN]

NoAnswer ==
  [status |-> 0, generation |-> 0, hash |-> None, changed |-> FALSE]

Problem(status) ==
  [status |-> status, generation |-> 0, hash |-> None, changed |-> FALSE]

(* 412 carries currentGeneration as a problem extension.                   *)
PreconditionFailed(g) ==
  [status |-> 412, generation |-> g, hash |-> None, changed |-> FALSE]
-----------------------------------------------------------------------------
(* The tables.                                                             *)

NoTenant == [slug |-> None, generation |-> 0]

Exists(t) == tenants[t].generation > 0

SlugExists(s) == \E t \in Request : Exists(t) /\ tenants[t].slug = s

SpecsOf(t) == {s \in specs : s.tenant = t}

(* FindLatestSpecAsync: order by generation descending, first.             *)
LatestSpec(t) ==
  CHOOSE s \in SpecsOf(t) : \A o \in SpecsOf(t) : o.generation <= s.generation

SpecRow(t, g, h) == [tenant |-> t, generation |-> g, hash |-> h]

GenerationNeverTaken(t, g) == FALSE  \* mutant: the index is missing

(* ux_spec_generation: one spec per (tenant, generation).                  *)
GenerationTaken(t, g) == \E s \in specs : s.tenant = t /\ s.generation = g

(* ux_tenants_slug: one tenant per slug.                                   *)
SlugTaken(s) == SlugExists(s)

(* tenant.spec.written, enqueued in the transaction that writes the spec.  *)
SpecWrittenMessage(r, t, g, h) ==
  [id |-> r, tenant |-> t, generation |-> g, hash |-> h]

AuditRow(r, action, t, g) ==
  [id |-> r, action |-> action, tenant |-> t, generation |-> g]

(* The audit rows the interceptor appends to one SaveChanges: TenantCreated *)
(* for an added tenant, nothing for a bare generation bump, SpecUpdated    *)
(* for an added spec.                                                      *)
AuditRows(r, t, g) ==
  {AuditRow(r, "SpecUpdated", t, g)}
    \cup (IF tenants[t].generation = 0
          THEN {AuditRow(r, "TenantCreated", t, g)} ELSE {})

(* One committed SaveChanges of either spec-writing handler.               *)
Commit(r, t, s, g, h) ==
  /\ tenants' = [tenants EXCEPT ![t] = [slug |-> s, generation |-> g]]
  /\ specs' = specs \cup {SpecRow(t, g, h)}
  /\ outbox' = outbox \cup {SpecWrittenMessage(r, t, g, h)}
  /\ audit' = audit \cup AuditRows(r, t, g)
-----------------------------------------------------------------------------
(* Control of one request.                                                 *)

Goto(r, label) == pc' = [pc EXCEPT ![r] = label]

Respond(r, a) == Goto(r, "done") /\ answer' = [answer EXCEPT ![r] = a]

At(r, op, label) == pc[r] = label /\ input[r].op = op

(* The GETs of the tenant answered so far under the ETag that this PUT     *)
(* sends back: its author may have edited any of their bodies.             *)
Basis(in) ==
  {q \in Request : /\ in.op = "put" /\ pc[q] = "done" /\ input[q].op = "get"
                   /\ answer[q].status = 200
                   /\ input[q].tenant = in.tenant
                   /\ answer[q].generation = in.ifMatch}

(* Clients name tenants that exist; an id nobody has is the request's own, *)
(* which no PUT or GET ever creates.                                       *)
Knowable(r, in) == in.tenant # None => in.tenant = r \/ Exists(in.tenant)

Begin(r, in) ==
  /\ pc[r] = "idle"
  /\ Knowable(r, in)
  /\ Goto(r, "start")
  /\ input' = [input EXCEPT ![r] = in]
  /\ basis' = [basis EXCEPT ![r] = Basis(in)]
  /\ UNCHANGED <<dbVars, seen, answer>>

(* CreateTenantHandler up to the save: validate, then SlugExistsAsync.     *)
CreateCheck(r) ==
  /\ At(r, "create", "start")
  /\ LET in == input[r] IN
       \/ /\ in.body = Malformed
          /\ Respond(r, Problem(400))
       \/ /\ in.body # Malformed /\ SlugExists(in.slug)
          /\ Respond(r, Problem(409))
       \/ /\ in.body # Malformed /\ ~SlugExists(in.slug)
          /\ Goto(r, "save") /\ UNCHANGED answer
  /\ UNCHANGED <<dbVars, input, seen, basis>>

(* The rest of it: tenant at generation 1, status, spec, message, audit.   *)
CreateCommit(r) ==
  /\ At(r, "create", "save")
  /\ ~SlugTaken(input[r].slug)
  /\ Commit(r, r, input[r].slug, 1, input[r].body)

CreateSave(r) ==
  /\ CreateCommit(r)
  /\ Respond(r, [status |-> 201, generation |-> 1,
                 hash |-> input[r].body, changed |-> TRUE])
  /\ UNCHANGED <<input, seen, basis>>

AnyOlderGeneration(g, ifMatch) == ifMatch <= g  \* mutant: If-Match as a lower bound

(* The optimistic concurrency check of UpdateTenantSpec.                   *)
GenerationMatches(g, ifMatch) == g = ifMatch

(* UpdateSpecAsync and UpdateTenantSpecHandler up to the second query:     *)
(* parse If-Match, validate the body, require If-Match, load the tenant,   *)
(* compare its generation.                                                 *)
UpdateFind(r) ==
  /\ At(r, "put", "start")
  /\ LET in == input[r]
         valid == in.body # Malformed
         g == tenants[in.tenant].generation
     IN
       \/ ~valid /\ Respond(r, Problem(400)) /\ UNCHANGED seen
       \/ /\ valid /\ in.ifMatch = None
          /\ Respond(r, Problem(428)) /\ UNCHANGED seen
       \/ /\ valid /\ in.ifMatch # None /\ ~Exists(in.tenant)
          /\ Respond(r, Problem(404)) /\ UNCHANGED seen
       \/ /\ valid /\ in.ifMatch # None /\ Exists(in.tenant)
          /\ ~GenerationMatches(g, in.ifMatch)
          /\ Respond(r, PreconditionFailed(g)) /\ UNCHANGED seen
       \/ /\ valid /\ in.ifMatch # None /\ Exists(in.tenant)
          /\ GenerationMatches(g, in.ifMatch)
          /\ Goto(r, "latest") /\ seen' = [seen EXCEPT ![r] = g]
          /\ UNCHANGED answer
  /\ UNCHANGED <<dbVars, input, basis>>

(* Mutant: the no-op test is missing.                                      *)
UpdateLatestAlwaysSaves(r) ==
  /\ At(r, "put", "latest")
  /\ Goto(r, "save")
  /\ UNCHANGED <<dbVars, input, seen, basis, answer>>

(* FindLatestSpecAsync and the no-op test.  The answer pairs the           *)
(* generation of the first query with the hash of the second.              *)
UpdateLatest(r) ==
  /\ At(r, "put", "latest")
  /\ LET latest == LatestSpec(input[r].tenant) IN
       \/ /\ latest.hash = input[r].body
          /\ Respond(r, [status |-> 200, generation |-> seen[r],
                         hash |-> latest.hash, changed |-> FALSE])
       \/ /\ latest.hash # input[r].body
          /\ Goto(r, "save") /\ UNCHANGED answer
  /\ UNCHANGED <<dbVars, input, seen, basis>>

(* BumpGeneration on the tracked entity, the new spec row, the message and *)
(* SaveChanges: all of it commits unless the generation is taken.          *)
UpdateCommit(r) ==
  /\ At(r, "put", "save")
  /\ ~GenerationTaken(input[r].tenant, seen[r] + 1)
  /\ Commit(r, input[r].tenant, tenants[input[r].tenant].slug,
            seen[r] + 1, input[r].body)

UpdateSave(r) ==
  /\ UpdateCommit(r)
  /\ Respond(r, [status |-> 200, generation |-> seen[r] + 1,
                 hash |-> input[r].body, changed |-> TRUE])
  /\ UNCHANGED <<input, seen, basis>>

Conflicting(r) ==
  \/ At(r, "create", "save") /\ SlugTaken(input[r].slug)
  \/ At(r, "put", "save") /\ GenerationTaken(input[r].tenant, seen[r] + 1)

(* Mutants: the message is sent outside the transaction and survives it;   *)
(* the handler swallows the exception and reports success.                 *)
SaveConflictLeavesMessage(r) ==
  /\ Conflicting(r)
  /\ Respond(r, Problem(500))
  /\ outbox' = outbox \cup
       {SpecWrittenMessage(r, IF input[r].op = "create" THEN r ELSE input[r].tenant,
                           seen[r] + 1, input[r].body)}
  /\ UNCHANGED <<tenants, specs, audit, input, seen, basis>>

SaveConflictSwallowed(r) ==
  /\ Conflicting(r)
  /\ Respond(r, [status |-> 200, generation |-> seen[r] + 1,
                 hash |-> input[r].body, changed |-> TRUE])
  /\ UNCHANGED <<dbVars, input, seen, basis>>

(* A unique index refuses the transaction: DbUpdateException leaves the    *)
(* handler and the exception handler answers 500.                          *)
SaveConflict(r) ==
  /\ Conflicting(r)
  /\ Respond(r, Problem(500))
  /\ UNCHANGED <<dbVars, input, seen, basis>>

(* TenantQueries.GetAsync: the tenant row, later the latest spec row.  The *)
(* status row read between them is inserted with the tenant and no handler *)
(* removes it.                                                             *)
GetTenant(r) ==
  /\ At(r, "get", "start")
  /\ \/ /\ ~Exists(input[r].tenant)
        /\ Respond(r, Problem(404)) /\ UNCHANGED seen
     \/ /\ Exists(input[r].tenant)
        /\ Goto(r, "spec")
        /\ seen' = [seen EXCEPT ![r] = tenants[input[r].tenant].generation]
        /\ UNCHANGED answer
  /\ UNCHANGED <<dbVars, input, basis>>

GetSpec(r) ==
  /\ At(r, "get", "spec")
  /\ Respond(r, [status |-> 200, generation |-> seen[r],
                 hash |-> LatestSpec(input[r].tenant).hash, changed |-> FALSE])
  /\ UNCHANGED <<dbVars, input, seen, basis>>

(* A save that never commits: the database is unreachable for longer than  *)
(* the three retries of EnableRetryOnFailure.                              *)
SaveFails(r) ==
  /\ Faults
  /\ pc[r] = "save"
  /\ Respond(r, Problem(500))
  /\ UNCHANGED <<dbVars, input, seen, basis>>

(* The commit succeeds and its acknowledgement is lost: the retry of       *)
(* EnableRetryOnFailure repeats the INSERTs, meets the primary keys of the *)
(* first attempt and the request ends in 500 although it took effect.      *)
SaveAckLost(r) ==
  /\ Faults
  /\ CreateCommit(r) \/ UpdateCommit(r)
  /\ Respond(r, Problem(500))
  /\ UNCHANGED <<input, seen, basis>>

(* The process dies or the client disconnects before the request is done.  *)
Abort(r) ==
  /\ Faults
  /\ pc[r] \notin {"idle", "done", "lost"}
  /\ Goto(r, "lost")
  /\ UNCHANGED <<dbVars, input, seen, basis, answer>>
-----------------------------------------------------------------------------
Handle(r) ==
  \/ CreateCheck(r) \/ CreateSave(r)
  \/ UpdateFind(r) \/ UpdateLatest(r) \/ UpdateSave(r)
  \/ SaveConflict(r)
  \/ GetTenant(r) \/ GetSpec(r)

Fault(r) == SaveFails(r) \/ SaveAckLost(r) \/ Abort(r)

Init ==
  /\ tenants = [t \in Request |-> NoTenant]
  /\ specs = {} /\ outbox = {} /\ audit = {}
  /\ pc = [r \in Request |-> "idle"]
  /\ input = [r \in Request |-> Nothing]
  /\ seen = [r \in Request |-> 0]
  /\ basis = [r \in Request |-> {}]
  /\ answer = [r \in Request |-> NoAnswer]

Next == \E r \in Request : \/ \E in \in Inputs : Begin(r, in)
                           \/ Handle(r)
                           \/ Fault(r)

Spec == Init /\ [][Next]_vars

-----------------------------------------------------------------------------
(* Correctness.                                                            *)

Rows == [slug : Slug, generation : Nat \ {0}] \cup {NoTenant}

Labels == {"idle", "start", "latest", "save", "spec", "done", "lost"}

TypeOK ==
  /\ tenants \in [Request -> Rows]
  /\ specs \subseteq [tenant : Request, generation : Nat, hash : Body]
  /\ outbox \subseteq [id : Request, tenant : Request, generation : Nat, hash : Body]
  /\ audit \subseteq [id : Request, action : {"TenantCreated", "SpecUpdated"},
                      tenant : Request, generation : Nat]
  /\ pc \in [Request -> Labels]
  /\ input \in [Request -> Inputs \cup {Nothing}]
  /\ seen \in [Request -> Nat]
  /\ basis \in [Request -> SUBSET Request]
  /\ answer \in [Request -> Answers]

(* The spec rows of a tenant are exactly the generations 1..generation,    *)
(* one row each: no interleaving of writers skips a generation, forks the  *)
(* history or leaves the tenant row behind its specs (UpdateTenantSpec's   *)
(* check-then-act against ux_spec_generation).                             *)
HistoryContiguous ==
  /\ \A t \in Request : \A g \in 1..tenants[t].generation :
       \E s \in specs : s.tenant = t /\ s.generation = g
  /\ \A s \in specs : s.generation \in 1..tenants[s.tenant].generation
  /\ \A s1, s2 \in specs :
       s1.tenant = s2.tenant /\ s1.generation = s2.generation => s1 = s2

(* A write that changes nothing never wakes the reconciler: no two         *)
(* consecutive generations carry the same hash, although the no-op test of *)
(* UpdateTenantSpec reads the latest spec long before it saves.            *)
NoEmptyGeneration ==
  \A s1, s2 \in specs :
    s1.tenant = s2.tenant /\ s2.generation = s1.generation + 1
      => s1.hash # s2.hash

(* Every spec version was announced to the reconciler exactly once, with   *)
(* its own generation and hash, and audited exactly once; no message and   *)
(* no audit row tells of a write that was rolled back (AuditSaveChanges-   *)
(* Interceptor and IOutbox share the transaction of the spec).             *)
EveryWriteAnnouncedOnce ==
  /\ \A s \in specs :
       /\ \E m \in outbox : SpecRow(m.tenant, m.generation, m.hash) = s
       /\ \E a \in audit : /\ a.action = "SpecUpdated"
                           /\ a.tenant = s.tenant /\ a.generation = s.generation
  /\ \A t \in Request : Exists(t) =>
       \E a \in audit : a.action = "TenantCreated" /\ a.tenant = t
  /\ \A m \in outbox : SpecRow(m.tenant, m.generation, m.hash) \in specs
  /\ \A a \in audit : \E s \in specs : s.tenant = a.tenant /\ s.generation = a.generation
  /\ \A m, n \in outbox :
       m.tenant = n.tenant /\ m.generation = n.generation => m = n
  /\ \A a, b \in audit :
       a.action = b.action /\ a.tenant = b.tenant /\ a.generation = b.generation => a = b

(* No lost update.  A PUT that wrote a version replaced exactly the body   *)
(* its author was shown: if a GET answered generation g and the PUT sent   *)
(* If-Match g, then what generation g holds is what that GET returned,     *)
(* even when the GET was torn by a write between its two queries.          *)
NoLostUpdate ==
  \A s \in specs : \A r \in Request :
    (s.tenant = input[r].tenant /\ input[r].op = "put"
       /\ SpecWrittenMessage(r, s.tenant, s.generation, s.hash) \in outbox)
      => \A q \in basis[r] :
           SpecRow(s.tenant, s.generation - 1, answer[q].hash) \in specs

(* Two CreateTenant requests for one slug never both take effect, although *)
(* SlugExistsAsync ran before either of them inserted.                     *)
OneTenantPerSlug ==
  \A t, u \in Request :
    Exists(t) /\ Exists(u) /\ tenants[t].slug = tenants[u].slug => t = u

(* An acknowledged write is durable and is what it says: 201 and 200 with  *)
(* changed = true name a row of the history.                               *)
AcknowledgedIsWritten ==
  \A r \in Request :
    pc[r] = "done" /\ answer[r].changed =>
      \E s \in specs :
        /\ s = SpecRow(IF input[r].op = "create" THEN r ELSE input[r].tenant,
                       answer[r].generation, answer[r].hash)
        /\ SpecWrittenMessage(r, s.tenant, s.generation, s.hash) \in outbox

(* Claim of UpdateTenantSpec: of two operators editing the same spec "the  *)
(* second one gets a 412 carrying the current generation" - so, while no   *)
(* save fails for other reasons, no PUT ends in an unhandled exception.    *)
RaceLoserGets412 ==
  \A r \in Request :
    input[r].op = "put" /\ pc[r] = "done" => answer[r].status # 500

-----------------------------------------------------------------------------
(* Refinement: the tables hold the abstract history of every slug.         *)

HashAt(t, g) == (CHOOSE s \in specs : s.tenant = t /\ s.generation = g).hash

HistoryOf(slug) ==
  IF SlugExists(slug)
  THEN LET t == CHOOSE u \in Request : Exists(u) /\ tenants[u].slug = slug
       IN  [g \in 1..tenants[t].generation |-> HashAt(t, g)]
  ELSE <<>>

Abstract == INSTANCE SpecHistory WITH history <- [s \in Slug |-> HistoryOf(s)]

(* The concurrent handlers implement SpecHistory: every commit of either   *)
(* handler is one Create or one Update of one slug's history, and nothing  *)
(* else a request does is visible there.                                   *)
ImplementsHistory == Abstract!Spec
=============================================================================
