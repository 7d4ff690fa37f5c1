-------------------------- MODULE SpecWritesProofs --------------------------
(***************************************************************************)
(* Proofs about SpecWrites, for any set of requests, slugs, bodies and      *)
(* generations, with and without faults.  The last part shows that         *)
(* SpecWrites implements SpecHistory: read through the tables, the history *)
(* of a slug changes only in a commit, by one version at its end.          *)
(***************************************************************************)
EXTENDS SpecWrites, Sequences, TLAPS

(* The part of the invariant that the tables carry alone.                  *)
TablesInv ==
  HistoryContiguous /\ NoEmptyGeneration /\ OneTenantPerSlug /\ EveryWriteAnnouncedOnce

(* A tenant row and a message are the work of a request that is done.      *)
AuthorInv ==
  /\ \A t \in Request : Exists(t) => pc[t] = "done" /\ input[t].op = "create"
  /\ \A m \in outbox :
       /\ pc[m.id] = "done"
       /\ input[m.id].op = "put" =>
            m.tenant = input[m.id].tenant /\ m.generation = input[m.id].ifMatch + 1

(* What a request between two awaits knows of the database.  A PUT that is *)
(* past its If-Match check saw the generation it was told; if the tenant   *)
(* is still there, the body it is about to save is not the current one.    *)
PendingInv(r) ==
  /\ pc[r] \in {"latest", "save"} => input[r].body \in Body
  /\ pc[r] = "save" => input[r].op \in {"create", "put"}
  /\ pc[r] \in {"latest", "save"} /\ input[r].op = "put" =>
       /\ seen[r] = input[r].ifMatch
       /\ seen[r] \in 1..tenants[input[r].tenant].generation
  /\ (pc[r] = "save" /\ input[r].op = "put"
        /\ tenants[input[r].tenant].generation = seen[r]) =>
       SpecRow(input[r].tenant, seen[r], input[r].body) \notin specs
  /\ pc[r] = "latest" => input[r].op = "put"
  /\ pc[r] = "spec" =>
       input[r].op = "get" /\ seen[r] \in 1..tenants[input[r].tenant].generation

(* A GET showed the generation of its ETag, unless the tenant has moved on. *)
ShownInv(q) ==
  pc[q] = "done" /\ input[q].op = "get" /\ answer[q].status = 200 =>
    \/ SpecRow(input[q].tenant, answer[q].generation, answer[q].hash) \in specs
    \/ tenants[input[q].tenant].generation > answer[q].generation

BasisInv(r) ==
  \A q \in basis[r] :
    /\ pc[q] = "done" /\ input[q].op = "get" /\ answer[q].status = 200
    /\ input[q].tenant = input[r].tenant
    /\ answer[q].generation = input[r].ifMatch

(* The inductive invariant.                                                *)
Inv ==
  /\ TypeOK
  /\ TablesInv
  /\ AuthorInv
  /\ \A r \in Request : PendingInv(r) /\ ShownInv(r) /\ BasisInv(r)
  /\ AcknowledgedIsWritten
  /\ NoLostUpdate
-----------------------------------------------------------------------------
(* Lemmas about the inputs and the tables.                                 *)

(* The fields of a well-formed request, by operation.                      *)
LEMMA InputFields ==
  ASSUME TypeOK, NEW r \in Request
  PROVE  /\ input[r].op = "create" =>
              input[r].slug \in Slug /\ input[r].body \in Body \cup {Malformed}
         /\ input[r].op = "put" =>
              /\ input[r].tenant \in Request
              /\ input[r].ifMatch \in Nat \cup {None}
              /\ input[r].body \in Body \cup {Malformed}
         /\ input[r].op = "get" => input[r].tenant \in Request
<1>1. input[r] \in Inputs \cup {Nothing}
  BY DEF TypeOK
<1>2. CASE input[r] = Nothing
  BY <1>2 DEF Nothing
<1>3. CASE input[r] \in Creates
  BY <1>3 DEF Creates
<1>4. CASE input[r] \in Puts
  BY <1>4, ConstantsAssumption DEF Puts
<1>5. CASE input[r] \in Gets
  BY <1>5 DEF Gets
<1> QED BY <1>1, <1>2, <1>3, <1>4, <1>5 DEF Inputs

(* The generation of a tenant row is a natural number, and positive        *)
(* exactly when the row exists.                                            *)
LEMMA RowFields ==
  ASSUME TypeOK, NEW t \in Request
  PROVE  /\ tenants[t].generation \in Nat
         /\ Exists(t) <=> tenants[t].generation # 0
         /\ Exists(t) => tenants[t].slug \in Slug
  BY DEF TypeOK, Rows, NoTenant, Exists

(* FindLatestSpecAsync of an existing tenant returns the row of the        *)
(* tenant's own generation.                                                *)
LEMMA LatestIsCurrent ==
  ASSUME TypeOK, HistoryContiguous, NEW t \in Request, Exists(t)
  PROVE  /\ LatestSpec(t) \in specs
         /\ LatestSpec(t).tenant = t
         /\ LatestSpec(t).generation = tenants[t].generation
         /\ LatestSpec(t).hash \in Body
         /\ LatestSpec(t) = SpecRow(t, tenants[t].generation, LatestSpec(t).hash)
<1> DEFINE n == tenants[t].generation
<1>1. n \in Nat /\ n \in 1..n
  BY RowFields DEF Exists
<1>2. PICK c \in specs : c.tenant = t /\ c.generation = n
  BY <1>1 DEF HistoryContiguous
<1>3. \A o \in SpecsOf(t) : o.generation \in Nat /\ o.generation <= n
  BY <1>1 DEF SpecsOf, HistoryContiguous, TypeOK
<1>4. c \in SpecsOf(t) /\ \A o \in SpecsOf(t) : o.generation <= c.generation
  BY <1>2, <1>3 DEF SpecsOf
<1>5. LatestSpec(t) \in SpecsOf(t) /\ \A o \in SpecsOf(t) : o.generation <= LatestSpec(t).generation
  BY <1>4 DEF LatestSpec
<1>6. LatestSpec(t).generation = n
  BY <1>1, <1>2, <1>3, <1>4, <1>5
<1>7. LatestSpec(t) \in [tenant : Request, generation : Nat, hash : Body]
  BY <1>5 DEF SpecsOf, TypeOK
<1> QED BY <1>5, <1>6, <1>7 DEF SpecsOf, SpecRow

(* A generation is free exactly when it lies beyond the tenant's own: the  *)
(* unique index lets only the next generation of an up-to-date writer in.  *)
LEMMA FreeGeneration ==
  ASSUME TypeOK, HistoryContiguous, NEW t \in Request, NEW g \in Nat,
         g \in 1..tenants[t].generation, ~GenerationTaken(t, g + 1)
  PROVE  tenants[t].generation = g
<1>1. tenants[t].generation \in Nat
  BY RowFields
<1>2. ASSUME g + 1 \in 1..tenants[t].generation PROVE FALSE
  BY <1>2 DEF HistoryContiguous, GenerationTaken
<1> QED BY <1>1, <1>2
-----------------------------------------------------------------------------
(* Steps that only move one request.                                       *)

OthersUnchanged(r) ==
  \A v \in Request : v # r =>
    /\ pc'[v] = pc[v] /\ input'[v] = input[v] /\ seen'[v] = seen[v]
    /\ basis'[v] = basis[v] /\ answer'[v] = answer[v]

(* A step that leaves the tables alone and moves one unfinished request    *)
(* keeps the invariant if it keeps that request's own part of it and       *)
(* acknowledges no write.                                                  *)
LEMMA QuietKeepsInv ==
  ASSUME Inv, NEW r \in Request, pc[r] # "done", UNCHANGED dbVars,
         OthersUnchanged(r), TypeOK',
         PendingInv(r)', ShownInv(r)', BasisInv(r)',
         pc'[r] = "done" => answer'[r].changed = FALSE
  PROVE  Inv'
<1>1. /\ tenants' = tenants /\ specs' = specs /\ outbox' = outbox /\ audit' = audit
      /\ \A t \in Request : Exists(t)' = Exists(t)
  BY DEF dbVars, Exists
<1>2. TablesInv'
  BY <1>1 DEF Inv, TablesInv, HistoryContiguous, NoEmptyGeneration, OneTenantPerSlug,
              EveryWriteAnnouncedOnce, Exists, SpecRow
<1>3. \A m \in outbox : m.id \in Request /\ m.id # r
  BY DEF Inv, AuthorInv, TypeOK
<1>4. AuthorInv'
  BY <1>1, <1>3 DEF Inv, AuthorInv, OthersUnchanged
<1>5. ASSUME NEW v \in Request, v # r
      PROVE  /\ PendingInv(v)' /\ ShownInv(v)' /\ BasisInv(v)'
             /\ \A q \in basis[v] : q \in Request /\ q # r
  <2>1. PendingInv(v) /\ ShownInv(v) /\ BasisInv(v) /\ basis[v] \subseteq Request
    BY DEF Inv, TypeOK
  <2>2. \A q \in basis[v] : q \in Request /\ q # r
    BY <2>1 DEF BasisInv
  <2>3. PendingInv(v)' /\ ShownInv(v)'
    BY <1>1, <1>5, <2>1 DEF PendingInv, ShownInv, OthersUnchanged, SpecRow
  <2>4. BasisInv(v)'
    BY <1>5, <2>1, <2>2 DEF BasisInv, OthersUnchanged
  <2> QED BY <2>2, <2>3, <2>4
<1>6. AcknowledgedIsWritten'
  BY <1>1 DEF Inv, AcknowledgedIsWritten, OthersUnchanged, SpecRow, SpecWrittenMessage
<1>7. NoLostUpdate'
  <2> SUFFICES ASSUME NEW s \in specs, NEW v \in Request,
                      s.tenant = input'[v].tenant, input'[v].op = "put",
                      SpecWrittenMessage(v, s.tenant, s.generation, s.hash) \in outbox,
                      NEW q \in basis'[v]
               PROVE  SpecRow(s.tenant, s.generation - 1, answer'[q].hash) \in specs
    BY <1>1 DEF NoLostUpdate, SpecRow, SpecWrittenMessage
  <2>1. v # r
    BY <1>3 DEF SpecWrittenMessage
  <2>2. input'[v] = input[v] /\ basis'[v] = basis[v]
    BY <2>1 DEF OthersUnchanged
  <2>3. q \in Request /\ q # r
    BY <1>5, <2>1, <2>2
  <2>4. answer'[q] = answer[q]
    BY <2>3 DEF OthersUnchanged
  <2> QED BY <2>2, <2>4 DEF Inv, NoLostUpdate
<1> QED BY <1>2, <1>4, <1>5, <1>6, <1>7 DEF Inv
-----------------------------------------------------------------------------
(* The step that commits.                                                  *)

(* Request r commits hash h as generation g of tenant t, which is at       *)
(* generation g - 1 and does not hold h there.                             *)
Commits(r, t, s, g, h) ==
  /\ Commit(r, t, s, g, h)
  /\ pc[r] = "save" /\ Goto(r, "done")
  /\ UNCHANGED <<input, seen, basis>>
  /\ tenants[t].generation = g - 1
  /\ SpecRow(t, g - 1, h) \notin specs
  /\ \/ input[r].op = "create" /\ t = r /\ g = 1 /\ ~SlugExists(s)
     \/ /\ input[r].op = "put" /\ t = input[r].tenant /\ g > 1
        /\ input[r].ifMatch = g - 1 /\ s = tenants[t].slug
  /\ \E a \in Answers :
       /\ answer' = [answer EXCEPT ![r] = a]
       /\ a.changed = TRUE => a.generation = g /\ a.hash = h

(* What such a commit does, and where the new generation stands.           *)
CommitEffect(r, t, s, g, h) ==
  /\ tenants'[t] = [slug |-> s, generation |-> g]
  /\ \A u \in Request : u # t => tenants'[u] = tenants[u]
  /\ specs' = specs \cup {SpecRow(t, g, h)}
  /\ outbox' = outbox \cup {SpecWrittenMessage(r, t, g, h)}
  /\ \A c \in specs : c.generation \in Nat /\ (c.tenant = t => c.generation < g)
  /\ \A m \in outbox : m.tenant = t => m.generation < g
  /\ \A a \in audit : a.tenant = t => a.generation < g
  /\ OthersUnchanged(r)
  /\ pc'[r] = "done" /\ input' = input /\ seen' = seen /\ basis' = basis
  /\ answer'[r].changed = TRUE => answer'[r].generation = g /\ answer'[r].hash = h

(* A commit has that effect: the unique index leaves only the generation   *)
(* behind the last one free, so every row of the tenant lies before it.    *)
LEMMA CommitFacts ==
  ASSUME Inv, NEW r \in Request, NEW t \in Request, NEW s \in Slug,
         NEW g \in Nat \ {0}, NEW h \in Body, Commits(r, t, s, g, h)
  PROVE  CommitEffect(r, t, s, g, h)
<1>1. TypeOK
  BY DEF Inv
<1>2. \A c \in specs : c.generation \in Nat /\ (c.tenant = t => c.generation < g)
  <2> SUFFICES ASSUME NEW c \in specs
               PROVE  c.generation \in Nat /\ (c.tenant = t => c.generation < g)
    OBVIOUS
  <2>1. c.generation \in 1..tenants[c.tenant].generation /\ c.generation \in Nat
    BY <1>1 DEF Inv, TablesInv, HistoryContiguous, TypeOK
  <2> QED BY <2>1 DEF Commits
<1>3. \A m \in outbox : m.tenant = t => m.generation < g
  <2> SUFFICES ASSUME NEW m \in outbox, m.tenant = t PROVE m.generation < g
    OBVIOUS
  <2>1. PICK c \in specs : c = SpecRow(m.tenant, m.generation, m.hash)
    BY DEF Inv, TablesInv, EveryWriteAnnouncedOnce
  <2>2. c.tenant = t /\ c.generation = m.generation
    BY <2>1 DEF SpecRow
  <2> QED BY <1>2, <2>2
<1>4. \A a \in audit : a.tenant = t => a.generation < g
  BY <1>2 DEF Inv, TablesInv, EveryWriteAnnouncedOnce
<1>5. /\ tenants'[t] = [slug |-> s, generation |-> g]
      /\ \A u \in Request : u # t => tenants'[u] = tenants[u]
      /\ specs' = specs \cup {SpecRow(t, g, h)}
      /\ outbox' = outbox \cup {SpecWrittenMessage(r, t, g, h)}
  BY <1>1 DEF Commits, Commit, TypeOK
<1>6. PICK a \in Answers : /\ answer' = [answer EXCEPT ![r] = a]
                           /\ a.changed = TRUE => a.generation = g /\ a.hash = h
  BY DEF Commits
<1>7. /\ pc' = [pc EXCEPT ![r] = "done"]
      /\ input' = input /\ seen' = seen /\ basis' = basis
  BY DEF Commits, Goto
<1>8. pc'[r] = "done" /\ answer'[r] = a
  BY <1>1, <1>6, <1>7 DEF TypeOK
<1>9. OthersUnchanged(r)
  <2> SUFFICES ASSUME NEW v \in Request, v # r
               PROVE  pc'[v] = pc[v] /\ answer'[v] = answer[v]
    BY <1>7 DEF OthersUnchanged
  <2> QED BY <1>1, <1>6, <1>7 DEF TypeOK
<1>10. answer'[r].changed = TRUE => answer'[r].generation = g /\ answer'[r].hash = h
  BY <1>6, <1>8
<1> QED BY <1>2, <1>3, <1>4, <1>5, <1>7, <1>8, <1>9, <1>10 DEF CommitEffect

(* The tables stay a contiguous, duplicate-free, announced history.        *)
LEMMA CommitKeepsTables ==
  ASSUME Inv, NEW r \in Request, NEW t \in Request, NEW s \in Slug,
         NEW g \in Nat \ {0}, NEW h \in Body, Commits(r, t, s, g, h)
  PROVE  TablesInv'
<1> DEFINE new == SpecRow(t, g, h)
<1>1. TypeOK /\ TablesInv /\ CommitEffect(r, t, s, g, h)
  BY CommitFacts DEF Inv
<1>2. /\ new.tenant = t /\ new.generation = g /\ new.hash = h
      /\ specs' = specs \cup {new}
      /\ \A c \in specs : c.generation \in Nat /\ (c.tenant = t => c.generation < g)
  BY <1>1 DEF CommitEffect, SpecRow
<1>3. /\ tenants'[t].generation = g /\ tenants'[t].slug = s /\ tenants[t].generation = g - 1
      /\ \A u \in Request : u # t => tenants'[u] = tenants[u]
      /\ \A u \in Request : tenants[u].generation \in Nat
  BY <1>1, RowFields DEF CommitEffect, Commits
<1> HIDE DEF new
<1>4. HistoryContiguous'
  <2>1. ASSUME NEW u \in Request, NEW n \in 1..tenants'[u].generation
        PROVE  \E c \in specs' : c.tenant = u /\ c.generation = n
    <3>1. CASE u = t /\ n = g
      BY <1>2, <3>1
    <3>2. CASE ~(u = t /\ n = g)
      <4>1. n \in 1..tenants[u].generation
        BY <1>3, <2>1, <3>2
      <4> QED BY <1>1, <1>2, <4>1 DEF TablesInv, HistoryContiguous
    <3> QED BY <3>1, <3>2
  <2>2. ASSUME NEW c \in specs' PROVE c.generation \in 1..tenants'[c.tenant].generation
    <3>1. CASE c = new
      BY <1>2, <1>3, <3>1
    <3>2. CASE c \in specs
      <4>1. c.tenant \in Request /\ c.generation \in 1..tenants[c.tenant].generation
        BY <1>1, <3>2 DEF TypeOK, TablesInv, HistoryContiguous
      <4> QED BY <1>3, <4>1
    <3> QED BY <1>2, <3>1, <3>2
  <2>3. ASSUME NEW c \in specs', NEW d \in specs',
               c.tenant = d.tenant, c.generation = d.generation
        PROVE  c = d
    BY <1>1, <1>2, <2>3 DEF TablesInv, HistoryContiguous
  <2> QED BY <2>1, <2>2, <2>3 DEF HistoryContiguous
<1>5. NoEmptyGeneration'
  <2> SUFFICES ASSUME NEW c \in specs', NEW d \in specs',
                      c.tenant = d.tenant, d.generation = c.generation + 1
               PROVE  c.hash # d.hash
    BY DEF NoEmptyGeneration
  <2>1. CASE c \in specs /\ d \in specs
    BY <1>1, <2>1 DEF TablesInv, NoEmptyGeneration
  <2>2. c # new
    BY <1>2
  <2>3. CASE c \in specs /\ d = new
    <3>1. c = SpecRow(t, g - 1, c.hash)
      BY <1>1, <1>2, <2>3 DEF TypeOK, SpecRow
    <3> QED BY <1>2, <2>3, <3>1 DEF Commits
  <2> QED BY <1>2, <2>1, <2>2, <2>3
<1>6. OneTenantPerSlug'
  <2> SUFFICES ASSUME NEW u \in Request, NEW v \in Request, u # v,
                      Exists(u)', Exists(v)', tenants'[u].slug = tenants'[v].slug
               PROVE  FALSE
    BY DEF OneTenantPerSlug
  <2>1. \A x \in Request : x # t => Exists(x)' = Exists(x)
    BY <1>3 DEF Exists
  <2>2. CASE u # t /\ v # t
    BY <1>1, <1>3, <2>1, <2>2 DEF TablesInv, OneTenantPerSlug
  <2>3. ASSUME NEW x \in Request, x # t, Exists(x), tenants[x].slug = s PROVE FALSE
    <3>1. CASE input[r].op = "create"
      BY <2>3, <3>1 DEF Commits, SlugExists
    <3>2. CASE input[r].op = "put"
      <4>1. Exists(t) /\ tenants[t].slug = s
        BY <1>3, <3>2 DEF Commits, Exists
      <4> QED BY <1>1, <2>3, <4>1 DEF TablesInv, OneTenantPerSlug
    <3> QED BY <3>1, <3>2 DEF Commits
  <2> QED BY <1>3, <2>1, <2>2, <2>3
<1>7. EveryWriteAnnouncedOnce'
  <2> DEFINE msg == SpecWrittenMessage(r, t, g, h)
             row == AuditRow(r, "SpecUpdated", t, g)
             born == AuditRow(r, "TenantCreated", t, g)
  <2>1. /\ msg.tenant = t /\ msg.generation = g /\ msg.hash = h
        /\ row.tenant = t /\ row.generation = g /\ row.action = "SpecUpdated"
        /\ born.tenant = t /\ born.generation = g /\ born.action = "TenantCreated"
    BY DEF SpecWrittenMessage, AuditRow
  <2>2. outbox' = outbox \cup {msg}
    BY <1>1 DEF CommitEffect
  <2>3. /\ row \in audit' /\ audit \subseteq audit' /\ audit' \subseteq audit \cup {row, born}
        /\ g = 1 => born \in audit'
    BY <1>3 DEF Commits, Commit, AuditRows
  <2>4. /\ \A m \in outbox : m.tenant = t => m.generation < g
        /\ \A a \in audit : a.tenant = t => a.generation < g
    BY <1>1 DEF CommitEffect
  <2>5. SpecRow(msg.tenant, msg.generation, msg.hash) = new
    BY <2>1 DEF new
  <2> HIDE DEF msg, row, born
  <2>6. ASSUME NEW c \in specs'
        PROVE  /\ \E m \in outbox' : SpecRow(m.tenant, m.generation, m.hash) = c
               /\ \E a \in audit' : /\ a.action = "SpecUpdated"
                                    /\ a.tenant = c.tenant /\ a.generation = c.generation
    BY <1>1, <1>2, <2>1, <2>2, <2>3, <2>5 DEF TablesInv, EveryWriteAnnouncedOnce
  <2>7. ASSUME NEW u \in Request, Exists(u)'
        PROVE  \E a \in audit' : a.action = "TenantCreated" /\ a.tenant = u
    <3>1. CASE u = t /\ g = 1
      BY <2>1, <2>3, <3>1
    <3>2. CASE ~(u = t /\ g = 1)
      <4>1. Exists(u)
        BY <1>3, <2>7, <3>2 DEF Exists
      <4> QED BY <1>1, <2>3, <4>1 DEF TablesInv, EveryWriteAnnouncedOnce
    <3> QED BY <3>1, <3>2
  <2>8. \A m \in outbox' : SpecRow(m.tenant, m.generation, m.hash) \in specs'
    BY <1>1, <1>2, <2>2, <2>5 DEF TablesInv, EveryWriteAnnouncedOnce
  <2>9. \A a \in audit' : \E c \in specs' : c.tenant = a.tenant /\ c.generation = a.generation
    BY <1>1, <1>2, <2>1, <2>3 DEF TablesInv, EveryWriteAnnouncedOnce
  <2>10. ASSUME NEW m \in outbox', NEW n \in outbox',
                m.tenant = n.tenant, m.generation = n.generation
         PROVE  m = n
    BY <1>1, <2>1, <2>2, <2>4, <2>10 DEF TablesInv, EveryWriteAnnouncedOnce
  <2>11. ASSUME NEW a \in audit', NEW b \in audit',
                a.action = b.action, a.tenant = b.tenant, a.generation = b.generation
         PROVE  a = b
    BY <1>1, <2>1, <2>3, <2>4, <2>11 DEF TablesInv, EveryWriteAnnouncedOnce
  <2> QED BY <2>6, <2>7, <2>8, <2>9, <2>10, <2>11 DEF EveryWriteAnnouncedOnce, SpecRow
<1> QED BY <1>4, <1>5, <1>6, <1>7 DEF TablesInv

(* The invariant survives a commit: what other requests know of the tenant *)
(* stays true of the longer history.                                       *)
LEMMA CommitKeepsInv ==
  ASSUME Inv, NEW r \in Request, NEW t \in Request, NEW s \in Slug,
         NEW g \in Nat \ {0}, NEW h \in Body, Commits(r, t, s, g, h)
  PROVE  Inv'
<1>1. TypeOK /\ CommitEffect(r, t, s, g, h)
  BY CommitFacts DEF Inv
<1>2. TablesInv'
  BY CommitKeepsTables
<1>3. pc[r] = "save" /\ pc'[r] = "done" /\ tenants[t].generation = g - 1
  BY <1>1 DEF Commits, CommitEffect
<1>4. TypeOK'
  <2>1. tenants' \in [Request -> Rows]
    BY <1>1 DEF TypeOK, Rows, Commits, Commit
  <2>2. specs' \subseteq [tenant : Request, generation : Nat, hash : Body]
    BY <1>1 DEF TypeOK, CommitEffect, SpecRow
  <2>3. outbox' \subseteq [id : Request, tenant : Request, generation : Nat, hash : Body]
    BY <1>1 DEF TypeOK, CommitEffect, SpecWrittenMessage
  <2>4. audit' \subseteq [id : Request, action : {"TenantCreated", "SpecUpdated"},
                          tenant : Request, generation : Nat]
    BY <1>1 DEF TypeOK, Commits, Commit, AuditRows, AuditRow
  <2>5. pc' \in [Request -> Labels]
    BY <1>1 DEF TypeOK, Commits, Goto, Labels
  <2>6. answer' \in [Request -> Answers]
    BY <1>1 DEF TypeOK, Commits
  <2> QED BY <1>1, <2>1, <2>2, <2>3, <2>4, <2>5, <2>6 DEF TypeOK, CommitEffect
<1>5. \A u \in Request : /\ tenants[u].generation \in Nat /\ tenants'[u].generation \in Nat
                         /\ tenants[u].generation <= tenants'[u].generation
  BY <1>1, <1>3, RowFields DEF CommitEffect
<1>6. \A m \in outbox : m.id \in Request /\ m.id # r
  BY <1>3 DEF Inv, AuthorInv, TypeOK
<1>7. \A v \in Request : \A q \in basis[v] :
         q \in Request /\ q # r /\ answer'[q] = answer[q] /\ pc'[q] = pc[q]
  BY <1>1, <1>3 DEF Inv, TypeOK, BasisInv, CommitEffect, OthersUnchanged
<1>8. AuthorInv'
  <2>1. ASSUME NEW u \in Request, Exists(u)'
        PROVE  pc'[u] = "done" /\ input'[u].op = "create"
    <3>1. CASE u = r /\ t = r /\ input[r].op = "create"
      BY <1>1, <3>1 DEF CommitEffect
    <3>2. CASE ~(u = r /\ t = r /\ input[r].op = "create")
      <4>1. Exists(u)
        BY <1>1, <1>3, <2>1, <3>2 DEF Commits, CommitEffect, Exists
      <4>2. pc[u] = "done" /\ input[u].op = "create"
        BY <4>1 DEF Inv, AuthorInv
      <4> QED BY <1>1, <1>3, <4>2 DEF CommitEffect, OthersUnchanged
    <3> QED BY <3>1, <3>2
  <2>2. ASSUME NEW m \in outbox'
        PROVE  /\ pc'[m.id] = "done"
               /\ input'[m.id].op = "put" =>
                    m.tenant = input'[m.id].tenant /\ m.generation = input'[m.id].ifMatch + 1
    <3>1. CASE m \in outbox
      <4>1. m.id \in Request /\ m.id # r
        BY <1>6, <3>1
      <4> QED BY <1>1, <3>1, <4>1 DEF Inv, AuthorInv, CommitEffect, OthersUnchanged
    <3>2. CASE m = SpecWrittenMessage(r, t, g, h)
      <4>1. m.id = r /\ m.tenant = t /\ m.generation = g
        BY <3>2 DEF SpecWrittenMessage
      <4> QED BY <1>1, <4>1 DEF Commits, CommitEffect
    <3> QED BY <1>1, <3>1, <3>2 DEF CommitEffect
  <2> QED BY <2>1, <2>2 DEF AuthorInv
<1>9. ASSUME NEW v \in Request
      PROVE  PendingInv(v)'
  <2>1. CASE v = r
    BY <1>3, <2>1 DEF PendingInv
  <2>2. CASE v # r
    <3>1. /\ pc'[v] = pc[v] /\ input' = input /\ seen' = seen /\ PendingInv(v)
          /\ seen[v] \in Nat
      BY <1>1, <2>2 DEF Inv, TypeOK, CommitEffect, OthersUnchanged
    <3>2. /\ input[v].op = "put" => input[v].tenant \in Request
          /\ input[v].op = "get" => input[v].tenant \in Request
      BY <1>1, InputFields
    <3>3. ASSUME pc[v] = "save", input[v].op = "put",
                 tenants'[input[v].tenant].generation = seen[v]
          PROVE  SpecRow(input[v].tenant, seen[v], input[v].body) \notin specs'
      <4>1. seen[v] \in 1..tenants[input[v].tenant].generation
        BY <3>1, <3>3 DEF PendingInv
      <4>2. input[v].tenant # t
        BY <1>1, <1>3, <3>3, <4>1 DEF CommitEffect
      <4>3. tenants[input[v].tenant].generation = seen[v]
        BY <1>1, <3>2, <3>3, <4>2 DEF CommitEffect
      <4>4. SpecRow(input[v].tenant, seen[v], input[v].body) \notin specs
        BY <3>1, <3>3, <4>3 DEF PendingInv
      <4>5. SpecRow(input[v].tenant, seen[v], input[v].body) # SpecRow(t, g, h)
        BY <4>2 DEF SpecRow
      <4> QED BY <1>1, <4>4, <4>5 DEF CommitEffect
    <3>4. ASSUME seen[v] \in 1..tenants[input[v].tenant].generation,
                 input[v].tenant \in Request
          PROVE  seen[v] \in 1..tenants'[input[v].tenant].generation
      BY <1>5, <3>1, <3>4
    <3>5. SpecRow(input[v].tenant, seen[v], input[v].body)'
            = SpecRow(input[v].tenant, seen[v], input[v].body)
      BY <3>1 DEF SpecRow
    <3> QED BY <3>1, <3>2, <3>3, <3>4, <3>5 DEF PendingInv
  <2> QED BY <2>1, <2>2
<1>10. ASSUME NEW v \in Request
       PROVE  ShownInv(v)'
  <2>1. CASE v = r
    BY <1>1, <2>1 DEF ShownInv, Commits, CommitEffect
  <2>2. CASE v # r
    <3> SUFFICES ASSUME pc[v] = "done", input[v].op = "get", answer[v].status = 200
                 PROVE  \/ SpecRow(input[v].tenant, answer[v].generation, answer[v].hash) \in specs'
                        \/ tenants'[input[v].tenant].generation > answer[v].generation
      BY <1>1, <2>2 DEF ShownInv, CommitEffect, OthersUnchanged, SpecRow
    <3>1. ShownInv(v) /\ answer[v].generation \in Nat /\ input[v].tenant \in Request
      BY <1>1, InputFields DEF Inv, TypeOK, Answers
    <3> QED BY <1>1, <1>5, <3>1 DEF ShownInv, CommitEffect
  <2> QED BY <2>1, <2>2
<1>11. \A v \in Request : BasisInv(v)'
  BY <1>1, <1>7 DEF Inv, BasisInv, CommitEffect
<1>12. AcknowledgedIsWritten'
  <2> SUFFICES ASSUME NEW v \in Request, pc'[v] = "done", answer'[v].changed = TRUE
               PROVE  \E c \in specs' :
                        /\ c = SpecRow(IF input[v].op = "create" THEN v ELSE input[v].tenant,
                                       answer'[v].generation, answer'[v].hash)
                        /\ SpecWrittenMessage(v, c.tenant, c.generation, c.hash) \in outbox'
    BY <1>1 DEF AcknowledgedIsWritten, CommitEffect, SpecRow, SpecWrittenMessage
  <2>1. CASE v = r
    <3>1. answer'[r].generation = g /\ answer'[r].hash = h
      BY <1>1, <2>1 DEF CommitEffect
    <3>2. t = (IF input[v].op = "create" THEN v ELSE input[v].tenant)
      BY <2>1 DEF Commits
    <3>3. /\ SpecRow(t, g, h) \in specs' /\ SpecWrittenMessage(r, t, g, h) \in outbox'
          /\ SpecRow(t, g, h).tenant = t /\ SpecRow(t, g, h).generation = g
          /\ SpecRow(t, g, h).hash = h
      BY <1>1 DEF CommitEffect, SpecRow
    <3> QED BY <2>1, <3>1, <3>2, <3>3
  <2>2. CASE v # r
    <3>1. answer'[v] = answer[v] /\ pc'[v] = pc[v]
      BY <1>1, <2>2 DEF CommitEffect, OthersUnchanged
    <3> QED BY <1>1, <3>1 DEF Inv, AcknowledgedIsWritten, CommitEffect
  <2> QED BY <2>1, <2>2
<1>13. NoLostUpdate'
  <2> SUFFICES ASSUME NEW c \in specs', NEW v \in Request,
                      c.tenant = input[v].tenant, input[v].op = "put",
                      SpecWrittenMessage(v, c.tenant, c.generation, c.hash) \in outbox',
                      NEW q \in basis[v]
               PROVE  SpecRow(c.tenant, c.generation - 1, answer[q].hash) \in specs'
    BY <1>1, <1>7 DEF NoLostUpdate, CommitEffect, SpecRow, SpecWrittenMessage
  <2> DEFINE m == SpecWrittenMessage(v, c.tenant, c.generation, c.hash)
  <2>1. m.id = v /\ m.tenant = c.tenant /\ m.generation = c.generation
    BY DEF SpecWrittenMessage
  <2>2. CASE m \in outbox
    <3>1. c # SpecRow(t, g, h)
      BY <1>1, <2>1, <2>2 DEF CommitEffect, SpecRow
    <3>2. c \in specs
      BY <1>1, <3>1 DEF CommitEffect
    <3> QED BY <1>1, <2>2, <3>2 DEF Inv, NoLostUpdate, CommitEffect
  <2>3. CASE m = SpecWrittenMessage(r, t, g, h)
    <3>1. v = r /\ c.tenant = t /\ c.generation = g
      BY <2>1, <2>3 DEF SpecWrittenMessage
    <3>2. g - 1 = input[r].ifMatch
      BY <3>1 DEF Commits
    <3>3. ShownInv(q) /\ BasisInv(r) /\ q \in basis[r]
      BY <1>7, <3>1 DEF Inv
    <3>4. SpecRow(t, g - 1, answer[q].hash) \in specs
      BY <1>3, <3>1, <3>2, <3>3 DEF ShownInv, BasisInv
    <3> QED BY <1>1, <3>1, <3>4 DEF CommitEffect
  <2> QED BY <1>1, <2>2, <2>3 DEF CommitEffect
<1> QED BY <1>2, <1>4, <1>8, <1>9, <1>10, <1>11, <1>12, <1>13 DEF Inv
-----------------------------------------------------------------------------
(* Init and the steps of Next.                                             *)

(* Empty tables and idle requests satisfy the invariant.                   *)
LEMMA InvInit ==
  ASSUME Init
  PROVE  Inv
<1> USE DEF Init
<1>1. TypeOK
  BY DEF TypeOK, Rows, Labels, Answers, NoAnswer
<1>2. \A t \in Request : tenants[t].generation = 0 /\ ~Exists(t)
  BY DEF NoTenant, Exists
<1>3. TablesInv
  BY <1>2 DEF TablesInv, HistoryContiguous, NoEmptyGeneration, OneTenantPerSlug,
              EveryWriteAnnouncedOnce
<1>4. AuthorInv
  BY <1>2 DEF AuthorInv
<1>5. \A r \in Request : PendingInv(r) /\ ShownInv(r) /\ BasisInv(r)
  BY DEF PendingInv, ShownInv, BasisInv
<1>6. AcknowledgedIsWritten /\ NoLostUpdate
  BY DEF AcknowledgedIsWritten, NoLostUpdate
<1> QED BY <1>1, <1>3, <1>4, <1>5, <1>6 DEF Inv

(* A request that ends without a write, answering anything but a GET's 200. *)
LEMMA QuietRespond ==
  ASSUME Inv, NEW r \in Request, pc[r] # "done", NEW a \in Answers, Respond(r, a),
         a.changed = FALSE, input[r].op = "get" => a.status # 200,
         UNCHANGED <<dbVars, input, seen, basis>>
  PROVE  Inv'
<1>1. TypeOK /\ pc' = [pc EXCEPT ![r] = "done"] /\ answer' = [answer EXCEPT ![r] = a]
  BY DEF Inv, Respond, Goto
<1>2. pc'[r] = "done" /\ answer'[r] = a /\ OthersUnchanged(r)
  BY <1>1 DEF TypeOK, OthersUnchanged
<1>3. TypeOK'
  BY <1>1 DEF TypeOK, dbVars, Labels
<1>4. PendingInv(r)' /\ ShownInv(r)'
  BY <1>2 DEF PendingInv, ShownInv
<1>5. BasisInv(r)'
  <2>1. \A q \in basis[r] : q \in Request /\ q # r
    BY <1>1 DEF Inv, BasisInv, TypeOK
  <2> QED BY <1>2, <2>1 DEF Inv, BasisInv, OthersUnchanged
<1> QED BY <1>2, <1>3, <1>4, <1>5, QuietKeepsInv

(* A request that moves on to another await, with a value it has read.     *)
LEMMA QuietGoto ==
  ASSUME Inv, NEW r \in Request, pc[r] # "done", NEW label \in Labels \ {"done"},
         Goto(r, label), NEW g \in Nat, seen' = [seen EXCEPT ![r] = g],
         UNCHANGED <<dbVars, input, basis, answer>>, PendingInv(r)'
  PROVE  Inv'
<1>1. TypeOK /\ pc' = [pc EXCEPT ![r] = label]
  BY DEF Inv, Goto
<1>2. pc'[r] = label /\ OthersUnchanged(r)
  BY <1>1 DEF TypeOK, OthersUnchanged
<1>3. TypeOK'
  BY <1>1 DEF TypeOK, dbVars, Labels
<1>4. ShownInv(r)'
  BY <1>2 DEF ShownInv
<1>5. BasisInv(r)'
  <2>1. \A q \in basis[r] : q \in Request /\ q # r
    BY <1>1 DEF Inv, BasisInv, TypeOK
  <2> QED BY <1>2, <2>1 DEF Inv, BasisInv, OthersUnchanged
<1> QED BY <1>2, <1>3, <1>4, <1>5, QuietKeepsInv

(* The save of CreateTenant is a commit in the sense above: the tenant id  *)
(* is new, so generation 1 is the next one.                                *)
LEMMA CreateCommits ==
  ASSUME Inv, NEW r \in Request, CreateCommit(r), NEW a \in Answers, Respond(r, a),
         a.changed = TRUE => a.generation = 1 /\ a.hash = input[r].body,
         UNCHANGED <<input, seen, basis>>
  PROVE  /\ input[r].slug \in Slug /\ input[r].body \in Body /\ 1 \in Nat \ {0}
         /\ Commits(r, r, input[r].slug, 1, input[r].body)
<1>1. TypeOK /\ HistoryContiguous /\ PendingInv(r)
  BY DEF Inv, TablesInv
<1>2. /\ pc[r] = "save" /\ input[r].op = "create" /\ ~SlugExists(input[r].slug)
      /\ Commit(r, r, input[r].slug, 1, input[r].body)
  BY DEF CreateCommit, At, SlugTaken
<1>3. input[r].slug \in Slug /\ input[r].body \in Body
  BY <1>1, <1>2, InputFields DEF PendingInv
<1>4. tenants[r].generation = 0
  BY <1>1, <1>2, RowFields DEF Inv, AuthorInv
<1>5. SpecRow(r, 0, input[r].body) \notin specs
  BY <1>1 DEF HistoryContiguous, SpecRow
<1>6. \E b \in Answers : /\ answer' = [answer EXCEPT ![r] = b]
                         /\ b.changed = TRUE => b.generation = 1 /\ b.hash = input[r].body
  BY DEF Respond
<1>7. 1 \in Nat \ {0} /\ 1 - 1 = 0
  OBVIOUS
<1>8. Commits(r, r, input[r].slug, 1, input[r].body)
  BY <1>2, <1>4, <1>5, <1>6, <1>7 DEF Commits, Respond
<1> QED BY <1>3, <1>7, <1>8

LEMMA CreateCommitKeepsInv ==
  ASSUME Inv, NEW r \in Request, CreateCommit(r), NEW a \in Answers, Respond(r, a),
         a.changed = TRUE => a.generation = 1 /\ a.hash = input[r].body,
         UNCHANGED <<input, seen, basis>>
  PROVE  Inv'
  BY CreateCommits, CommitKeepsInv

(* So is the save of UpdateTenantSpec: if the next generation is free, the *)
(* generation it read is still the current one.                            *)
LEMMA UpdateCommits ==
  ASSUME Inv, NEW r \in Request, UpdateCommit(r), NEW a \in Answers, Respond(r, a),
         a.changed = TRUE => a.generation = seen[r] + 1 /\ a.hash = input[r].body,
         UNCHANGED <<input, seen, basis>>
  PROVE  /\ input[r].tenant \in Request /\ tenants[input[r].tenant].slug \in Slug
         /\ seen[r] + 1 \in Nat \ {0} /\ input[r].body \in Body
         /\ Commits(r, input[r].tenant, tenants[input[r].tenant].slug, seen[r] + 1, input[r].body)
<1> DEFINE t == input[r].tenant
<1>1. TypeOK /\ HistoryContiguous /\ PendingInv(r) /\ seen[r] \in Nat
  BY DEF Inv, TablesInv, TypeOK
<1>2. /\ pc[r] = "save" /\ input[r].op = "put" /\ ~GenerationTaken(t, seen[r] + 1)
      /\ Commit(r, t, tenants[t].slug, seen[r] + 1, input[r].body)
  BY DEF UpdateCommit, At
<1>3. /\ t \in Request /\ input[r].body \in Body /\ seen[r] = input[r].ifMatch
      /\ seen[r] \in 1..tenants[t].generation
  BY <1>1, <1>2, InputFields DEF PendingInv
<1>4. tenants[t].generation = seen[r]
  BY <1>1, <1>2, <1>3, FreeGeneration
<1>5. tenants[t].slug \in Slug /\ seen[r] > 0
  BY <1>1, <1>3, <1>4, RowFields
<1>6. SpecRow(t, seen[r], input[r].body) \notin specs
  BY <1>1, <1>2, <1>4 DEF PendingInv
<1> DEFINE g == seen[r] + 1
<1>7. g - 1 = seen[r] /\ g \in Nat \ {0} /\ g > 1
  BY <1>1, <1>5
<1>8. /\ Commit(r, t, tenants[t].slug, g, input[r].body)
      /\ \E b \in Answers : /\ answer' = [answer EXCEPT ![r] = b]
                            /\ b.changed = TRUE => b.generation = g /\ b.hash = input[r].body
  BY <1>2 DEF Respond
<1> HIDE DEF g
<1>9. SpecRow(t, g - 1, input[r].body) \notin specs
  BY <1>6, <1>7
<1>10. Commits(r, t, tenants[t].slug, g, input[r].body)
  BY <1>2, <1>3, <1>4, <1>7, <1>8, <1>9 DEF Commits, Respond
<1> QED BY <1>3, <1>5, <1>7, <1>10 DEF g

LEMMA UpdateCommitKeepsInv ==
  ASSUME Inv, NEW r \in Request, UpdateCommit(r), NEW a \in Answers, Respond(r, a),
         a.changed = TRUE => a.generation = seen[r] + 1 /\ a.hash = input[r].body,
         UNCHANGED <<input, seen, basis>>
  PROVE  Inv'
  BY UpdateCommits, CommitKeepsInv

(* Every step keeps the invariant.                                         *)
LEMMA InvStep ==
  ASSUME Inv, [Next]_vars
  PROVE  Inv'
<1>1. TypeOK /\ HistoryContiguous /\ \A r \in Request : PendingInv(r)
  BY DEF Inv, TablesInv
<1>2. CASE UNCHANGED vars
  <2> USE <1>2 DEF vars, dbVars, reqVars, Exists
  <2>1. TypeOK'
    BY <1>1 DEF TypeOK
  <2>2. TablesInv'
    BY DEF Inv, TablesInv, HistoryContiguous, NoEmptyGeneration, OneTenantPerSlug, EveryWriteAnnouncedOnce,
           SpecWrittenMessage
  <2>3. AuthorInv' /\ AcknowledgedIsWritten' /\ NoLostUpdate'
    BY DEF Inv, AuthorInv, AcknowledgedIsWritten, NoLostUpdate
  <2>4. \A r \in Request : (PendingInv(r) /\ ShownInv(r) /\ BasisInv(r))'
    BY DEF Inv, PendingInv, ShownInv, BasisInv, SpecRow
  <2> QED
    BY <2>1, <2>2, <2>3, <2>4 DEF Inv
<1>3. ASSUME NEW r \in Request, NEW in \in Inputs, Begin(r, in)
      PROVE  Inv'
  <2>1. /\ pc[r] = "idle" /\ pc' = [pc EXCEPT ![r] = "start"]
        /\ input' = [input EXCEPT ![r] = in] /\ basis' = [basis EXCEPT ![r] = Basis(in)]
        /\ UNCHANGED <<dbVars, seen, answer>>
    BY <1>3 DEF Begin, Goto
  <2>2. /\ pc'[r] = "start" /\ input'[r] = in /\ basis'[r] = Basis(in)
        /\ OthersUnchanged(r)
    BY <1>1, <2>1 DEF TypeOK, OthersUnchanged
  <2>3. Basis(in) \subseteq Request
    BY DEF Basis
  <2>4. TypeOK'
    BY <1>1, <2>1, <2>3 DEF TypeOK, dbVars, Labels
  <2>5. PendingInv(r)' /\ ShownInv(r)'
    BY <2>2 DEF PendingInv, ShownInv
  <2>6. \A q \in Basis(in) : q \in Request /\ q # r
    BY <2>1 DEF Basis
  <2>7. BasisInv(r)'
    BY <2>2, <2>6 DEF BasisInv, Basis, OthersUnchanged
  <2> QED BY <2>1, <2>2, <2>4, <2>5, <2>7, QuietKeepsInv
<1>4. ASSUME NEW r \in Request, CreateCheck(r)
      PROVE  Inv'
  <2>1. /\ pc[r] = "start" /\ input[r].op = "create"
        /\ UNCHANGED <<dbVars, input, seen, basis>>
    BY <1>4 DEF CreateCheck, At
  <2>2. CASE Respond(r, Problem(400)) \/ Respond(r, Problem(409))
    <3>1. PICK c \in {400, 409} : Respond(r, Problem(c))
      BY <2>2
    <3>2. Problem(c) \in Answers /\ Problem(c).changed = FALSE
      BY DEF Problem, Answers
    <3> QED BY <2>1, <3>1, <3>2, QuietRespond
  <2>3. CASE /\ input[r].body # Malformed /\ Goto(r, "save") /\ UNCHANGED answer
    <3>1. seen[r] \in Nat /\ seen' = [seen EXCEPT ![r] = seen[r]] /\ "save" \in Labels \ {"done"}
      BY <1>1, <2>1 DEF TypeOK, Labels
    <3>2. pc'[r] = "save"
      BY <1>1, <2>3 DEF TypeOK, Goto
    <3>3. input[r].body \in Body
      BY <1>1, <2>1, <2>3, InputFields
    <3>4. PendingInv(r)'
      BY <2>1, <3>2, <3>3 DEF PendingInv
    <3> QED BY <2>1, <2>3, <3>1, <3>4, QuietGoto
  <2> QED BY <1>4, <2>2, <2>3 DEF CreateCheck
<1>5. ASSUME NEW r \in Request, CreateSave(r)
      PROVE  Inv'
  <2> DEFINE a == [status |-> 201, generation |-> 1, hash |-> input[r].body, changed |-> TRUE]
  <2>1. CreateCommit(r) /\ Respond(r, a) /\ UNCHANGED <<input, seen, basis>>
    BY <1>5 DEF CreateSave
  <2>2. input[r].body \in Body
    BY <1>1, <2>1 DEF CreateCommit, At, PendingInv
  <2>3. a \in Answers /\ a.generation = 1 /\ a.hash = input[r].body
    BY <2>2 DEF Answers
  <2> HIDE DEF a
  <2> QED BY <2>1, <2>3, CreateCommitKeepsInv
<1>6. ASSUME NEW r \in Request, UpdateSave(r)
      PROVE  Inv'
  <2> DEFINE a == [status |-> 200, generation |-> seen[r] + 1,
                   hash |-> input[r].body, changed |-> TRUE]
  <2>1. UpdateCommit(r) /\ Respond(r, a) /\ UNCHANGED <<input, seen, basis>>
    BY <1>6 DEF UpdateSave
  <2>2. input[r].body \in Body /\ seen[r] \in Nat
    BY <1>1, <2>1 DEF UpdateCommit, At, PendingInv, TypeOK
  <2>3. a \in Answers /\ a.generation = seen[r] + 1 /\ a.hash = input[r].body
    BY <2>2 DEF Answers
  <2> HIDE DEF a
  <2> QED BY <2>1, <2>3, UpdateCommitKeepsInv
<1>7. ASSUME NEW r \in Request, SaveConflict(r) \/ SaveFails(r)
      PROVE  Inv'
  <2>1. /\ pc[r] = "save" /\ Respond(r, Problem(500))
        /\ UNCHANGED <<dbVars, input, seen, basis>>
    BY <1>7 DEF SaveConflict, SaveFails, Conflicting, At
  <2>2. input[r].op # "get"
    BY <1>1, <2>1 DEF PendingInv
  <2>3. Problem(500) \in Answers /\ Problem(500).changed = FALSE
    BY DEF Problem, Answers
  <2> DEFINE a == Problem(500)
  <2> HIDE DEF a
  <2>4. a \in Answers /\ a.changed = FALSE /\ Respond(r, a)
    BY <2>1, <2>3 DEF a
  <2> QED BY <2>1, <2>2, <2>4, QuietRespond
<1>8. ASSUME NEW r \in Request, SaveAckLost(r)
      PROVE  Inv'
  <2>1. Problem(500) \in Answers /\ Problem(500).changed = FALSE
    BY DEF Problem, Answers
  <2>2. Respond(r, Problem(500)) /\ UNCHANGED <<input, seen, basis>>
    BY <1>8 DEF SaveAckLost
  <2>3. CASE CreateCommit(r)
    BY <2>1, <2>2, <2>3, CreateCommitKeepsInv
  <2>4. CASE UpdateCommit(r)
    BY <2>1, <2>2, <2>4, UpdateCommitKeepsInv
  <2> QED BY <1>8, <2>3, <2>4 DEF SaveAckLost
<1>9. ASSUME NEW r \in Request, Abort(r)
      PROVE  Inv'
  <2>1. /\ pc[r] # "done" /\ Goto(r, "lost") /\ UNCHANGED <<dbVars, input, seen, basis, answer>>
    BY <1>9 DEF Abort
  <2>2. seen[r] \in Nat /\ seen' = [seen EXCEPT ![r] = seen[r]] /\ "lost" \in Labels \ {"done"}
    BY <1>1, <2>1 DEF TypeOK, Labels
  <2>3. pc'[r] = "lost"
    BY <1>1, <2>1 DEF TypeOK, Goto
  <2>4. PendingInv(r)'
    BY <2>3 DEF PendingInv
  <2> QED BY <2>1, <2>2, <2>4, QuietGoto
<1>10. ASSUME NEW r \in Request, UpdateFind(r)
       PROVE  Inv'
  <2> DEFINE in == input[r]
             g == tenants[in.tenant].generation
  <2>1. /\ pc[r] = "start" /\ in.op = "put" /\ UNCHANGED <<dbVars, input, basis>>
    BY <1>10 DEF UpdateFind, At
  <2>2. in.tenant \in Request /\ g \in Nat /\ (Exists(in.tenant) => g # 0)
    BY <1>1, <2>1, InputFields, RowFields
  <2>3. CASE /\ UNCHANGED seen
             /\ \/ \E c \in {400, 428, 404} : Respond(r, Problem(c))
                \/ Respond(r, PreconditionFailed(g))
    <3>1. /\ \A c \in {400, 428, 404} : Problem(c) \in Answers /\ Problem(c).changed = FALSE
          /\ PreconditionFailed(g) \in Answers /\ PreconditionFailed(g).changed = FALSE
      BY <2>2 DEF Problem, PreconditionFailed, Answers
    <3>2. PICK a \in Answers : Respond(r, a) /\ a.changed = FALSE
      BY <2>3, <3>1
    <3> QED BY <2>1, <2>3, <3>2, QuietRespond
  <2>4. CASE /\ in.body # Malformed /\ Exists(in.tenant) /\ g = in.ifMatch
             /\ Goto(r, "latest") /\ seen' = [seen EXCEPT ![r] = g] /\ UNCHANGED answer
    <3>1. pc'[r] = "latest" /\ seen'[r] = g /\ "latest" \in Labels \ {"done"}
      BY <1>1, <2>4 DEF TypeOK, Goto, Labels
    <3>2. in.body \in Body
      BY <1>1, <2>1, <2>4, InputFields
    <3>3. g \in 1..g
      BY <2>2, <2>4
    <3>4. input' = input /\ tenants' = tenants
      BY <2>1 DEF dbVars
    <3>5. PendingInv(r)'
      BY <2>1, <2>4, <3>1, <3>2, <3>3, <3>4 DEF PendingInv
    <3> QED BY <2>1, <2>2, <2>4, <3>1, <3>5, QuietGoto
  <2> QED BY <1>10, <2>3, <2>4 DEF UpdateFind, GenerationMatches
<1>11. ASSUME NEW r \in Request, UpdateLatest(r)
       PROVE  Inv'
  <2> DEFINE t == input[r].tenant
             latest == LatestSpec(t)
  <2>1. /\ pc[r] = "latest" /\ input[r].op = "put" /\ UNCHANGED <<dbVars, input, seen, basis>>
    BY <1>11 DEF UpdateLatest, At
  <2>2. /\ t \in Request /\ seen[r] \in Nat /\ seen[r] \in 1..tenants[t].generation
        /\ input[r].body \in Body /\ seen[r] = input[r].ifMatch
    BY <1>1, <2>1, InputFields DEF PendingInv, TypeOK
  <2>3. Exists(t)
    BY <1>1, <2>2, RowFields
  <2>4. /\ latest \in specs /\ latest.hash \in Body
        /\ latest.tenant = t /\ latest.generation = tenants[t].generation
    BY <1>1, <2>2, <2>3, LatestIsCurrent
  <2> HIDE DEF latest
  <2>5. CASE Respond(r, [status |-> 200, generation |-> seen[r],
                         hash |-> latest.hash, changed |-> FALSE])
    <3> DEFINE a == [status |-> 200, generation |-> seen[r],
                     hash |-> latest.hash, changed |-> FALSE]
    <3>1. a \in Answers /\ a.changed = FALSE
      BY <2>2, <2>4 DEF Answers
    <3>2. Respond(r, a)
      BY <2>5
    <3> HIDE DEF a
    <3> QED BY <2>1, <3>1, <3>2, QuietRespond
  <2>6. CASE latest.hash # input[r].body /\ Goto(r, "save") /\ UNCHANGED answer
    <3>1. /\ pc'[r] = "save" /\ "save" \in Labels \ {"done"}
          /\ seen' = [seen EXCEPT ![r] = seen[r]]
      BY <1>1, <2>1, <2>6 DEF TypeOK, Goto, Labels
    <3>2. ASSUME tenants[t].generation = seen[r], SpecRow(t, seen[r], input[r].body) \in specs
          PROVE  FALSE
      <4>1. /\ SpecRow(t, seen[r], input[r].body).tenant = t
            /\ SpecRow(t, seen[r], input[r].body).generation = seen[r]
            /\ SpecRow(t, seen[r], input[r].body).hash = input[r].body
        BY DEF SpecRow
      <4> QED BY <1>1, <2>4, <2>6, <3>2, <4>1 DEF HistoryContiguous
    <3>3. input' = input /\ tenants' = tenants /\ seen' = seen /\ specs' = specs
      BY <2>1 DEF dbVars
    <3>4. PendingInv(r)'
      BY <2>1, <2>2, <3>1, <3>2, <3>3 DEF PendingInv, SpecRow
    <3> QED BY <2>1, <2>2, <2>6, <3>1, <3>4, QuietGoto
  <2> QED BY <1>11, <2>5, <2>6 DEF UpdateLatest, latest
<1>12. ASSUME NEW r \in Request, GetTenant(r)
       PROVE  Inv'
  <2> DEFINE g == tenants[input[r].tenant].generation
  <2>1. pc[r] = "start" /\ input[r].op = "get" /\ UNCHANGED <<dbVars, input, basis>>
    BY <1>12 DEF GetTenant, At
  <2>2. g \in Nat /\ (Exists(input[r].tenant) => g # 0)
    BY <1>1, <2>1, InputFields, RowFields
  <2>3. CASE Respond(r, Problem(404)) /\ UNCHANGED seen
    <3>1. Problem(404) \in Answers /\ Problem(404).changed = FALSE /\ Problem(404).status # 200
      BY DEF Problem, Answers
    <3> DEFINE a == Problem(404)
    <3> HIDE DEF a
    <3>2. a \in Answers /\ a.changed = FALSE /\ a.status # 200 /\ Respond(r, a)
      BY <2>3, <3>1 DEF a
    <3> QED BY <2>1, <2>3, <3>2, QuietRespond
  <2>4. CASE /\ Exists(input[r].tenant) /\ Goto(r, "spec")
             /\ seen' = [seen EXCEPT ![r] = g] /\ UNCHANGED answer
    <3>1. pc'[r] = "spec" /\ seen'[r] = g /\ "spec" \in Labels \ {"done"}
      BY <1>1, <2>4 DEF TypeOK, Goto, Labels
    <3>2. g \in 1..g
      BY <2>2, <2>4
    <3>3. input' = input /\ tenants' = tenants
      BY <2>1 DEF dbVars
    <3>4. PendingInv(r)'
      BY <2>1, <3>1, <3>2, <3>3 DEF PendingInv
    <3> QED BY <2>1, <2>2, <2>4, <3>1, <3>4, QuietGoto
  <2> QED BY <1>12, <2>3, <2>4 DEF GetTenant
<1>13. ASSUME NEW r \in Request, GetSpec(r)
       PROVE  Inv'
  <2> DEFINE t == input[r].tenant
             latest == LatestSpec(t)
             a == [status |-> 200, generation |-> seen[r],
                   hash |-> latest.hash, changed |-> FALSE]
  <2>1. /\ pc[r] = "spec" /\ input[r].op = "get" /\ UNCHANGED <<dbVars, input, seen, basis>>
        /\ Respond(r, a)
    BY <1>13 DEF GetSpec, At
  <2>2. t \in Request /\ seen[r] \in Nat /\ seen[r] \in 1..tenants[t].generation
    BY <1>1, <2>1, InputFields DEF PendingInv, TypeOK
  <2>3. Exists(t) /\ tenants[t].generation \in Nat
    BY <1>1, <2>2, RowFields
  <2>4. /\ latest \in specs /\ latest.hash \in Body
        /\ latest = SpecRow(t, tenants[t].generation, latest.hash)
    BY <1>1, <2>2, <2>3, LatestIsCurrent
  <2> HIDE DEF latest
  <2>5. /\ a \in Answers /\ a.changed = FALSE /\ a.generation = seen[r]
        /\ a.hash = latest.hash
    BY <2>2, <2>4 DEF Answers
  <2> HIDE DEF a
  <2>6. pc' = [pc EXCEPT ![r] = "done"] /\ answer' = [answer EXCEPT ![r] = a]
    BY <2>1 DEF Respond, Goto
  <2>7. pc'[r] = "done" /\ answer'[r] = a /\ OthersUnchanged(r)
    BY <1>1, <2>1, <2>6 DEF TypeOK, OthersUnchanged
  <2>8. TypeOK'
    BY <1>1, <2>1, <2>5, <2>6 DEF TypeOK, dbVars, Labels
  <2>9. PendingInv(r)'
    BY <2>7 DEF PendingInv
  <2>10. ShownInv(r)'
    <3>1. input' = input /\ tenants' = tenants /\ specs' = specs
      BY <2>1 DEF dbVars
    <3>2. SpecRow(t, seen[r], a.hash) \in specs \/ tenants[t].generation > seen[r]
      BY <2>2, <2>3, <2>4, <2>5
    <3> QED BY <2>5, <2>7, <3>1, <3>2 DEF ShownInv, SpecRow
  <2>11. BasisInv(r)'
    <3>1. \A q \in basis[r] : q \in Request /\ q # r
      BY <1>1, <2>1 DEF Inv, BasisInv, TypeOK
    <3> QED BY <2>1, <2>7, <3>1 DEF Inv, BasisInv, OthersUnchanged
  <2> QED BY <2>1, <2>5, <2>7, <2>8, <2>9, <2>10, <2>11, QuietKeepsInv
<1> QED BY <1>2, <1>3, <1>4, <1>5, <1>6, <1>7, <1>8, <1>9, <1>10, <1>11, <1>12, <1>13
        DEF Next, Handle, Fault
-----------------------------------------------------------------------------
(* The theorems.                                                           *)

(* The inductive invariant holds in every reachable state.                 *)
THEOREM Invariance == Spec => []Inv
  BY InvInit, InvStep, PTL DEF Spec

(* Type correctness of the tables and of every request.                    *)
THEOREM TypeCorrect == Spec => []TypeOK
<1>1. Inv => TypeOK
  BY DEF Inv
<1> QED BY <1>1, Invariance, PTL

(* However PUTs interleave, the spec rows of a tenant are generations      *)
(* 1..generation, one row each (UpdateTenantSpecHandler.HandleAsync).      *)
THEOREM HistoryAlwaysContiguous == Spec => []HistoryContiguous
<1>1. Inv => HistoryContiguous
  BY DEF Inv, TablesInv
<1> QED BY <1>1, Invariance, PTL

(* No version repeats the body of the version before it.                   *)
THEOREM GenerationsNeverEmpty == Spec => []NoEmptyGeneration
<1>1. Inv => NoEmptyGeneration
  BY DEF Inv, TablesInv
<1> QED BY <1>1, Invariance, PTL

(* Messages and audit rows match the versions one to one, although saves   *)
(* conflict, fail and lose their acknowledgement.                          *)
THEOREM WritesAnnouncedOnce == Spec => []EveryWriteAnnouncedOnce
<1>1. Inv => EveryWriteAnnouncedOnce
  BY DEF Inv, TablesInv
<1> QED BY <1>1, Invariance, PTL

(* Racing CreateTenant requests never make two tenants of one slug.        *)
THEOREM SlugsUnique == Spec => []OneTenantPerSlug
<1>1. Inv => OneTenantPerSlug
  BY DEF Inv, TablesInv
<1> QED BY <1>1, Invariance, PTL

(* A PUT that took effect replaced the body its author was shown.          *)
THEOREM UpdatesNeverLost == Spec => []NoLostUpdate
<1>1. Inv => NoLostUpdate
  BY DEF Inv
<1> QED BY <1>1, Invariance, PTL

(* An acknowledged write is in the history and was announced.              *)
THEOREM AcknowledgementsTrue == Spec => []AcknowledgedIsWritten
<1>1. Inv => AcknowledgedIsWritten
  BY DEF Inv
<1> QED BY <1>1, Invariance, PTL

-----------------------------------------------------------------------------
(* The refinement of SpecHistory *)

(* One row per generation, one tenant per slug: what the two CHOOSEs of    *)
(* the refinement mapping return.                                          *)
LEMMA OneRow ==
  ASSUME NEW S, NEW c \in S,
         \A d, e \in S : d.tenant = e.tenant /\ d.generation = e.generation => d = e
  PROVE  (CHOOSE d \in S : d.tenant = c.tenant /\ d.generation = c.generation) = c
  OBVIOUS

LEMMA OneOwner ==
  ASSUME OneTenantPerSlug, NEW t \in Request, Exists(t)
  PROVE  (CHOOSE u \in Request : Exists(u) /\ tenants[u].slug = tenants[t].slug) = t
  BY DEF OneTenantPerSlug

Owns(t) ==
  Exists(t) => HistoryOf(tenants[t].slug) = [g \in 1..tenants[t].generation |-> HashAt(t, g)]

LEMMA MappingReads ==
  Inv => /\ \A t \in Request : Owns(t)
         /\ \A c \in specs : HashAt(c.tenant, c.generation) = c.hash
<1> SUFFICES ASSUME Inv PROVE /\ \A t \in Request : Owns(t)
                              /\ \A c \in specs : HashAt(c.tenant, c.generation) = c.hash
  OBVIOUS
<1>1. OneTenantPerSlug /\ HistoryContiguous
  BY DEF Inv, TablesInv
<1>2. ASSUME NEW t \in Request, Exists(t)
      PROVE  HistoryOf(tenants[t].slug) = [g \in 1..tenants[t].generation |-> HashAt(t, g)]
  <2>1. SlugExists(tenants[t].slug)
    BY <1>2 DEF SlugExists
  <2>2. (CHOOSE u \in Request : Exists(u) /\ tenants[u].slug = tenants[t].slug) = t
    BY <1>1, <1>2, OneOwner
  <2> DEFINE o == CHOOSE u \in Request : Exists(u) /\ tenants[u].slug = tenants[t].slug
  <2>3. HistoryOf(tenants[t].slug) = [g \in 1..tenants[o].generation |-> HashAt(o, g)]
    BY <2>1, Zenon DEF HistoryOf
  <2>4. o = t
    BY <2>2
  <2> HIDE DEF o
  <2> QED
    BY <2>3, <2>4
<1>3. ASSUME NEW c \in specs PROVE HashAt(c.tenant, c.generation) = c.hash
  BY <1>1, OneRow DEF HashAt, HistoryContiguous
<1> QED
  BY <1>2, <1>3 DEF Owns

LEMMA MappingReadsNext ==
  (Inv => /\ \A t \in Request : Owns(t)
          /\ \A c \in specs : HashAt(c.tenant, c.generation) = c.hash)'
  BY MappingReads, PTL

(* A commit leaves every row where it was.                                 *)
LEMMA RowsStay ==
  ASSUME Inv, Inv', NEW t \in Request, NEW g \in 1..tenants[t].generation, specs \subseteq specs'
  PROVE  HashAt(t, g)' = HashAt(t, g)
<1>1. PICK c \in specs : c.tenant = t /\ c.generation = g
  BY DEF Inv, TablesInv, HistoryContiguous
<1>2. HashAt(t, g) = c.hash
  BY <1>1, MappingReads
<1>3. HashAt(t, g)' = c.hash
  BY <1>1, MappingReadsNext
<1> QED
  BY <1>2, <1>3

(* The history of any other slug does not change.                          *)
LEMMA OtherSlugsStay ==
  ASSUME Inv, Inv', NEW r \in Request, NEW t \in Request, NEW s \in Slug,
         NEW g \in Nat \ {0}, NEW h \in Body, Commits(r, t, s, g, h), CommitEffect(r, t, s, g, h),
         NEW z \in Slug, z # s
  PROVE  HistoryOf(z)' = HistoryOf(z)
<1>1. /\ TypeOK /\ tenants'[t].slug = s /\ tenants'[t].generation = g /\ specs \subseteq specs'
      /\ \A u \in Request \ {t} : tenants'[u] = tenants[u]
  BY DEF Inv, CommitEffect
<1>2. Exists(t) => tenants[t].slug = s
  BY RowFields DEF Inv, Commits, Exists
<1>3. SlugExists(z)' <=> SlugExists(z)
  BY <1>1, <1>2 DEF SlugExists, Exists
<1>4. CASE SlugExists(z)
  <2>1. PICK u \in Request : Exists(u) /\ tenants[u].slug = z
    BY <1>4 DEF SlugExists
  <2>2. u # t /\ tenants'[u] = tenants[u] /\ Exists(u)'
    BY <1>1, <1>2, <2>1 DEF Exists
  <2>3. HistoryOf(z) = [i \in 1..tenants[u].generation |-> HashAt(u, i)]
    BY <2>1, MappingReads DEF Owns
  <2>4. HistoryOf(z)' = [i \in 1..tenants[u].generation |-> HashAt(u, i)']
    <3>1. Owns(u)' /\ tenants'[u].slug = z
      BY <2>1, <2>2, MappingReadsNext
    <3> QED
      BY <2>1, <2>2, <3>1 DEF Owns
  <2>5. \A i \in 1..tenants[u].generation : HashAt(u, i)' = HashAt(u, i)
    BY <1>1, RowsStay
  <2> QED
    BY <2>3, <2>4, <2>5
<1>5. CASE ~SlugExists(z)
  BY <1>3, <1>5 DEF HistoryOf
<1> QED
  BY <1>4, <1>5

(* The history of the slug gets the new version at its end.                *)
LEMMA CommitAppends ==
  ASSUME Inv, Inv', NEW r \in Request, NEW t \in Request, NEW s \in Slug,
         NEW g \in Nat \ {0}, NEW h \in Body, Commits(r, t, s, g, h), CommitEffect(r, t, s, g, h)
  PROVE  Abstract!Create(s, h) \/ Abstract!Update(s, h)
<1> DEFINE H == [z \in Slug |-> HistoryOf(z)]
           n == tenants[t].generation
<1>1. /\ TypeOK /\ tenants'[t].slug = s /\ tenants'[t].generation = g /\ specs \subseteq specs'
      /\ SpecRow(t, g, h) \in specs' /\ n = g - 1
  BY DEF Inv, CommitEffect, Commits
<1>2. HashAt(t, g)' = h
  <2>1. SpecRow(t, g, h).tenant = t /\ SpecRow(t, g, h).generation = g /\ SpecRow(t, g, h).hash = h
    BY DEF SpecRow
  <2> QED
    BY <1>1, <2>1, MappingReadsNext
<1>3. HistoryOf(s)' = [i \in 1..g |-> HashAt(t, i)']
  <2>1. Owns(t)'
    BY MappingReadsNext
  <2>2. Exists(t)'
    BY <1>1 DEF Exists
  <2> QED
    BY <1>1, <2>1, <2>2 DEF Owns
<1>4. \A z \in Slug \ {s} : HistoryOf(z)' = HistoryOf(z)
  BY OtherSlugsStay
<1>5. CASE input[r].op = "create"
  <2>1. g = 1 /\ ~SlugExists(s)
    BY <1>5 DEF Commits
  <2>2. HistoryOf(s) = <<>>
    BY <2>1 DEF HistoryOf
  <2>3. HistoryOf(s)' = <<h>>
    BY <1>2, <1>3, <2>1
  <2>4. H' = [H EXCEPT ![s] = <<h>>]
    BY <1>4, <2>3
  <2> QED
    BY <2>2, <2>4 DEF Abstract!Create
<1>6. CASE input[r].op = "put"
  <2>1. g > 1 /\ s = tenants[t].slug /\ SpecRow(t, n, h) \notin specs /\ Exists(t) /\ n \in 1..n
    BY <1>1, <1>6 DEF Commits, Exists
  <2>2. HistoryOf(s) = [i \in 1..n |-> HashAt(t, i)]
    BY <2>1, MappingReads DEF Owns
  <2>3. \A i \in 1..n : HashAt(t, i)' = HashAt(t, i)
    BY <1>1, RowsStay
  <2>4. HashAt(t, n) # h
    <3>1. PICK c \in specs : c.tenant = t /\ c.generation = n
      BY <2>1 DEF Inv, TablesInv, HistoryContiguous
    <3>2. HashAt(t, n) = c.hash /\ c = SpecRow(t, n, c.hash)
      BY <1>1, <3>1, MappingReads DEF TypeOK, SpecRow
    <3> QED
      BY <2>1, <3>2
  <2>5. Len(HistoryOf(s)) = n /\ HistoryOf(s) # <<>> /\ HistoryOf(s)[n] = HashAt(t, n)
    BY <1>1, <2>1, <2>2
  <2>6. HistoryOf(s)' = Append(HistoryOf(s), h)
    BY <1>1, <1>2, <1>3, <2>1, <2>2, <2>3
  <2>7. H' = [H EXCEPT ![s] = Append(@, h)]
    BY <1>4, <2>6
  <2> QED
    BY <2>4, <2>5, <2>7 DEF Abstract!Update
<1> QED
  BY <1>5, <1>6 DEF Commits

LEMMA StepRefines ==
  Inv /\ Inv' /\ [Next]_vars => [Abstract!Next]_([s \in Slug |-> HistoryOf(s)])
<1> SUFFICES ASSUME Inv, Inv', [Next]_vars
             PROVE  Abstract!Next \/ UNCHANGED [s \in Slug |-> HistoryOf(s)]
  OBVIOUS
<1>1. CASE UNCHANGED <<tenants, specs>>
  BY <1>1 DEF HistoryOf, SlugExists, Exists, HashAt
<1>2. ASSUME NEW r \in Request, NEW a \in Answers, CreateCommit(r), Respond(r, a),
             a.changed = TRUE => a.generation = 1 /\ a.hash = input[r].body,
             UNCHANGED <<input, seen, basis>>
      PROVE  Abstract!Next
  <2>1. /\ input[r].slug \in Slug /\ input[r].body \in Body /\ 1 \in Nat \ {0}
        /\ Commits(r, r, input[r].slug, 1, input[r].body)
    BY <1>2, CreateCommits
  <2>2. Abstract!Create(input[r].slug, input[r].body) \/ Abstract!Update(input[r].slug, input[r].body)
    BY <2>1, CommitFacts, CommitAppends
  <2> QED
    BY <2>1, <2>2 DEF Abstract!Next
<1>3. ASSUME NEW r \in Request, NEW a \in Answers, UpdateCommit(r), Respond(r, a),
             a.changed = TRUE => a.generation = seen[r] + 1 /\ a.hash = input[r].body,
             UNCHANGED <<input, seen, basis>>
      PROVE  Abstract!Next
  <2> DEFINE s == tenants[input[r].tenant].slug
  <2>1. /\ input[r].tenant \in Request /\ s \in Slug /\ seen[r] + 1 \in Nat \ {0} /\ input[r].body \in Body
        /\ Commits(r, input[r].tenant, s, seen[r] + 1, input[r].body)
    BY <1>3, UpdateCommits
  <2>2. Abstract!Create(s, input[r].body) \/ Abstract!Update(s, input[r].body)
    BY <2>1, CommitFacts, CommitAppends
  <2> QED
    BY <2>1, <2>2 DEF Abstract!Next
<1>4. ASSUME NEW r \in Request, CreateSave(r) \/ UpdateSave(r) \/ SaveAckLost(r) PROVE Abstract!Next
  <2>1. /\ Problem(500) \in Answers /\ Problem(500).changed = FALSE
    BY DEF Problem, Answers
  <2>2. CASE SaveAckLost(r)
    BY <1>2, <1>3, <2>1, <2>2 DEF SaveAckLost
  <2>3. CASE CreateSave(r)
    <3>1. input[r].body \in Body
      BY <2>3 DEF CreateSave, CreateCommit, At, Inv, PendingInv
    <3> DEFINE a == [status |-> 201, generation |-> 1, hash |-> input[r].body, changed |-> TRUE]
    <3>2. a \in Answers /\ a.generation = 1 /\ a.hash = input[r].body
      BY <3>1 DEF Answers
    <3> QED
      BY <1>2, <2>3, <3>2 DEF CreateSave
  <2>4. CASE UpdateSave(r)
    <3>1. input[r].body \in Body /\ seen[r] + 1 \in Nat
      BY <2>4 DEF UpdateSave, UpdateCommit, At, Inv, PendingInv, TypeOK
    <3> DEFINE a == [status |-> 200, generation |-> seen[r] + 1, hash |-> input[r].body, changed |-> TRUE]
    <3>2. a \in Answers /\ a.generation = seen[r] + 1 /\ a.hash = input[r].body
      BY <3>1 DEF Answers
    <3> QED
      BY <1>3, <2>4, <3>2 DEF UpdateSave
  <2> QED
    BY <1>4, <2>2, <2>3, <2>4
<1>5. ASSUME NEW r \in Request,
             \/ \E in \in Inputs : Begin(r, in)
             \/ CreateCheck(r) \/ UpdateFind(r) \/ UpdateLatest(r) \/ SaveConflict(r)
             \/ GetTenant(r) \/ GetSpec(r) \/ SaveFails(r) \/ Abort(r)
      PROVE  UNCHANGED <<tenants, specs>>
  BY <1>5 DEF Begin, CreateCheck, UpdateFind, UpdateLatest, SaveConflict, GetTenant, GetSpec,
     SaveFails, Abort, dbVars
<1> QED
  BY <1>1, <1>4, <1>5 DEF Next, Handle, Fault, vars, dbVars

(* The concurrent handlers implement one linear history per slug, for any  *)
(* number of requests, slugs and bodies, with and without faults: a commit *)
(* of CreateTenant or UpdateTenantSpec is one Create or Update, every      *)
(* other step is invisible.                                                *)
THEOREM WritesImplementHistory == Spec => ImplementsHistory
<1>1. Init => Abstract!Init
  BY DEF Init, Abstract!Init, HistoryOf, SlugExists, Exists, NoTenant
<1> QED
  BY <1>1, StepRefines, Invariance, PTL DEF Spec, ImplementsHistory, Abstract!Spec
=============================================================================
