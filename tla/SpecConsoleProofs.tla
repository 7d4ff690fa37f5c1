--------------------------- MODULE SpecConsoleProofs ---------------------------
(***************************************************************************)
(* SpecConsole for any number of tabs, documents, seeds, changes and       *)
(* actions.  Part 1: how states grow and the store changes hands, and that *)
(* an answered key writes nothing more.  Part 2: what keys, runs, restores *)
(* and the tabs' documents keep, up to the console's invariants.           *)
(***************************************************************************)
EXTENDS SpecConsole, WellFoundedInduction, TLAPS

IsSeq(s) == \E S : s \in Seq(S)

LEMMA SeqFacts ==
    ASSUME NEW s, IsSeq(s)
    PROVE  Len(s) \in Nat /\ DOMAIN s = 1..Len(s) /\ SubSeq(s, 1, Len(s)) = s
<1>1. PICK S : s \in Seq(S)
  BY DEF IsSeq
<1> QED
  BY <1>1

LEMMA AppendFacts ==
    ASSUME NEW s, IsSeq(s), NEW v
    PROVE  LET a == Append(s, v)
           IN  /\ IsSeq(a) /\ Len(a) = Len(s) + 1 /\ a[Len(s) + 1] = v
               /\ \A i \in DOMAIN s : i \in DOMAIN a /\ a[i] = s[i]
               /\ SubSeq(a, 1, Len(s)) = s
<1>1. PICK S : s \in Seq(S)
  BY DEF IsSeq
<1> DEFINE T == S \cup {v}
<1>2. s \in Seq(T) /\ v \in T
  BY <1>1
<1> HIDE DEF T
<1>3. Append(s, v) \in Seq(T) /\ Len(s) \in Nat
  BY <1>2
<1>4. Len(Append(s, v)) = Len(s) + 1 /\ Append(s, v)[Len(s) + 1] = v
  BY <1>2
<1>5. \A i \in DOMAIN s : i \in DOMAIN Append(s, v) /\ Append(s, v)[i] = s[i]
  BY <1>2, <1>3
<1>6. SubSeq(Append(s, v), 1, Len(s)) = s
  BY <1>2, <1>3, <1>4, <1>5
<1> QED
  BY <1>3, <1>4, <1>5, <1>6 DEF IsSeq

LEMMA ExceptFacts ==
    ASSUME NEW s, IsSeq(s), NEW i \in DOMAIN s, NEW v
    PROVE  LET a == [s EXCEPT ![i] = v]
           IN  /\ IsSeq(a) /\ DOMAIN a = DOMAIN s /\ a[i] = v
               /\ \A j \in DOMAIN s \ {i} : a[j] = s[j]
<1>1. PICK S : s \in Seq(S)
  BY DEF IsSeq
<1> DEFINE T == S \cup {v}
<1>2. s \in Seq(T) /\ v \in T
  BY <1>1
<1> HIDE DEF T
<1>3. [s EXCEPT ![i] = v] \in Seq(T)
  BY <1>2
<1> QED
  BY <1>2, <1>3 DEF IsSeq

-----------------------------------------------------------------------------
Fields == {"kind", "phase", "key", "body", "ifMatch", "base", "source", "obj", "pick", "gen", "run", "status"}

StateOK(o) == o = [versions |-> o.versions, byKey |-> o.byKey] /\ IsSeq(o.versions)
StoreInv ==
    /\ IsSeq(objs) /\ \A o \in DOMAIN objs : StateOK(objs[o])
    /\ store = 0 \/ store \in DOMAIN objs

LEMMA SeedLength == Len(SeedBodies) \in Nat /\ Len(SeedBodies) # 0 /\ DOMAIN SeedBodies = 1..Len(SeedBodies)
BY SpecConsoleAssumption

LEMMA SeedStateOK == StateOK(SeedState)
<1>1. SeedState.versions \in Seq({SeedState.versions[g] : g \in 1..Len(SeedBodies)})
  BY SeedLength DEF SeedState
<1> QED
  BY <1>1 DEF StateOK, SeedState, IsSeq

(* A write lies on the generation it named and is still what was sent. *)
Laid(q) ==
    /\ q.obj \in DOMAIN objs /\ q.gen \in DOMAIN objs[q.obj].versions
    /\ q.ifMatch = q.gen - 1
    /\ LET v == objs[q.obj].versions[q.gen] IN v.body = q.body /\ v.key = q.key

(* What a request has done, between the append and the answer. *)
Done(q) ==
    /\ DOMAIN q = Fields
    /\ q.phase = "write" => q.obj \in DOMAIN objs
    /\ q.phase \in {"list", "retry", "finish"} /\ q.body # None => Laid(q)
    /\ q.phase = "finish" => q.body # None
ReqInv == DOMAIN req = Clients /\ \A p \in Clients : Done(req[p])

Inv == StoreInv /\ ReqInv /\ \A w \in log : Laid(w)

-----------------------------------------------------------------------------
(* How objs changes: a state is added, or the versions of one get one more. *)
Grows ==
    \A o \in DOMAIN objs :
        /\ o \in DOMAIN objs'
        /\ \/ objs'[o].versions = objs[o].versions
           \/ \E v : objs'[o].versions = Append(objs[o].versions, v)

LEMMA LaidStays ==
    ASSUME StoreInv, Grows, NEW q, Laid(q)
    PROVE  /\ q.obj \in DOMAIN objs' /\ q.gen \in DOMAIN objs'[q.obj].versions
           /\ q.ifMatch = q.gen - 1
           /\ LET v == objs'[q.obj].versions[q.gen] IN v.body = q.body /\ v.key = q.key
<1>1. IsSeq(objs[q.obj].versions) /\ q.obj \in DOMAIN objs /\ q.gen \in DOMAIN objs[q.obj].versions
  BY DEF StoreInv, StateOK, Laid
<1>2. /\ q.obj \in DOMAIN objs' /\ q.gen \in DOMAIN objs'[q.obj].versions
      /\ objs'[q.obj].versions[q.gen] = objs[q.obj].versions[q.gen]
  <2>1. CASE objs'[q.obj].versions = objs[q.obj].versions
    BY <1>1, <2>1 DEF Grows
  <2>2. ASSUME NEW v, objs'[q.obj].versions = Append(objs[q.obj].versions, v)
        PROVE  /\ q.gen \in DOMAIN objs'[q.obj].versions
               /\ objs'[q.obj].versions[q.gen] = objs[q.obj].versions[q.gen]
    BY <1>1, <2>2, AppendFacts
  <2> QED
    BY <1>1, <2>1, <2>2 DEF Grows
<1> QED
  BY <1>2 DEF Laid

(* A step that touches no stored version: one request moves to a phase in     *)
(* which it claims nothing of the store, or none moves.                       *)
Calm(q) ==
    /\ DOMAIN q = Fields
    /\ \/ q.phase \in {"idle", "enter", "tenant", "answered", "refetch", "fetched"}
       \/ q.phase \in {"list", "retry"} /\ q.body = None

LEMMA CalmKeeps ==
    ASSUME Inv, UNCHANGED <<objs, store, log>>,
           \/ UNCHANGED req
           \/ \E p \in Clients : \E q : Calm(q) /\ req' = [req EXCEPT ![p] = q]
    PROVE  Inv'
<1>1. StoreInv' /\ \A w \in log' : Laid(w)'
  BY DEF Inv, StoreInv, Laid
<1>2. \A q : Done(q) => Done(q)'
  BY DEF Done, Laid
<1>3. \A q : Calm(q) => Done(q)'
  BY DEF Done, Calm
<1>4. ReqInv'
  BY <1>2, <1>3 DEF Inv, ReqInv
<1> QED
  BY <1>1, <1>4 DEF Inv

(* Clients' steps. *)
LEMMA ClientKeeps ==
    ASSUME Inv, NEW t \in Tabs,
           \/ Client(t) \/ fetchFails(t) \/ validateDebounced(t) \/ setValidation(t) \/ OperatorStep(t)
    PROVE  Inv' /\ UNCHANGED <<objs, store, log>>
<1>1. /\ t \in Clients /\ Direct \in Clients /\ DOMAIN req[t] = Fields /\ DOMAIN req[Direct] = Fields
      /\ DOMAIN req = Clients
  BY DEF Clients, Inv, ReqInv, Done
<1>2. DOMAIN NoReq = Fields /\ NoReq.phase = "idle" /\ NoReq.body = None
  BY DEF NoReq, Fields
<1>3. Calm(NoReq)
  BY <1>2 DEF Calm
<1>4. ASSUME NEW ph \in {"refetch", "fetched"} PROVE Calm([req[t] EXCEPT !.phase = ph])
  BY <1>1, <1>4 DEF Calm, Fields
<1>5. CASE UNCHANGED <<objs, store, log, req>>
  BY <1>5, CalmKeeps
<1>6. ASSUME NEW p \in Clients, NEW q, Calm(q), req' = [req EXCEPT ![p] = q], UNCHANGED <<objs, store, log>>
      PROVE  Inv' /\ UNCHANGED <<objs, store, log>>
  BY <1>6, CalmKeeps
<1>7. CASE receiveAnswer(t)
  <2>1. UNCHANGED <<objs, store, log>>
    BY <1>7 DEF receiveAnswer, serverVars
  <2>2. \/ req' = [req EXCEPT ![t] = [req[t] EXCEPT !.phase = "refetch"]]
        \/ req' = [req EXCEPT ![t] = NoReq]
    BY <1>7 DEF receiveAnswer, To
  <2> QED
    BY <1>1, <1>3, <1>4, <1>6, <2>1, <2>2
<1>8. CASE onSuccess(t)
  BY <1>1, <1>3, <1>6, <1>8 DEF onSuccess, serverVars
<1>9. CASE receiveSpec(t) \/ fetchFails(t)
  <2>1. UNCHANGED <<objs, store, log>> /\ req' = Refetched(t)
    BY <1>9 DEF receiveSpec, fetchFails, serverVars
  <2>2. UNCHANGED req \/ req' = [req EXCEPT ![t] = [req[t] EXCEPT !.phase = "fetched"]]
    BY <2>1 DEF Refetched
  <2> QED
    BY <1>1, <1>4, <1>5, <1>6, <2>1, <2>2
<1>10. CASE fetchSpec(t) \/ validateDebounced(t) \/ setValidation(t)
  BY <1>5, <1>10 DEF fetchSpec, validateDebounced, setValidation, serverVars
<1>11. ASSUME OperatorStep(t) PROVE Inv' /\ UNCHANGED <<objs, store, log>>
  <2>1. ASSUME NEW p \in Clients, NEW q, Calm(q), Send(p, q) PROVE Inv' /\ UNCHANGED <<objs, store, log>>
    BY <1>6, <2>1 DEF Send, serverVars
  <2>2. CASE (\E b \in Bodies : setLocalDraft(t, b)) \/ onRetry(t) \/ validateNow(t) \/ windowFocus(t)
             \/ (\E r \in DOMAIN runs : openRun(r))
    BY <1>5, <2>2 DEF setLocalDraft, onRetry, validateNow, windowFocus, openRun, serverVars
  <2>3. CASE save(t)
    <3> DEFINE q == [NoReq EXCEPT !.kind = "save", !.phase = "enter", !.key = keys + 1, !.body = draft(t),
                       !.ifMatch = view[t].doc.gen,
                       !.base = IF view[t].draft = None THEN view[t].doc.gen ELSE view[t].base]
    <3>1. Calm(q)
      BY DEF Calm, NoReq, Fields
    <3>2. Send(t, q)
      BY <2>3 DEF save
    <3> HIDE DEF q
    <3> QED
      BY <1>1, <2>1, <3>1, <3>2
  <2>4. ASSUME NEW g, restore(t, g) PROVE Inv' /\ UNCHANGED <<objs, store, log>>
    <3> DEFINE q == [NoReq EXCEPT !.kind = "restore", !.phase = "enter", !.key = keys + 1, !.source = g]
    <3>1. Calm(q)
      BY DEF Calm, NoReq, Fields
    <3>2. Send(t, q)
      BY <2>4 DEF restore
    <3> HIDE DEF q
    <3> QED
      BY <1>1, <2>1, <3>1, <3>2
  <2>5. CASE reconcileNow(t)
    <3> DEFINE q == [NoReq EXCEPT !.kind = "reconcile", !.phase = "list", !.key = keys + 1]
    <3>1. Calm(q)
      BY DEF Calm, NoReq, Fields
    <3>2. Send(t, q)
      BY <2>5 DEF reconcileNow
    <3> HIDE DEF q
    <3> QED
      BY <1>1, <2>1, <3>1, <3>2
  <2>6. ASSUME NEW w, RunActions(t, w) PROVE Inv' /\ UNCHANGED <<objs, store, log>>
    <3> DEFINE q == [NoReq EXCEPT !.kind = "retry", !.phase = "retry", !.key = keys + 1, !.pick = w.run]
    <3>1. Calm(q)
      BY DEF Calm, NoReq, Fields
    <3>2. Send(t, q)
      BY <2>6 DEF RunActions
    <3> HIDE DEF q
    <3> QED
      BY <1>1, <2>1, <3>1, <3>2
  <2>7. ASSUME NEW header \in BOOLEAN, Resend(t, header) PROVE Inv' /\ UNCHANGED <<objs, store, log>>
    <3> DEFINE q == [NoReq EXCEPT !.kind = req[t].kind, !.phase = "enter",
                 !.key = req[t].key, !.body = IF req[t].kind = "save" THEN req[t].body ELSE None,
                 !.ifMatch = IF req[t].kind = "save" /\ header THEN req[t].ifMatch ELSE 0,
                 !.base = req[t].base, !.source = req[t].source]
    <3>1. Calm(q)
      BY DEF Calm, NoReq, Fields
    <3>2. req' = [req EXCEPT ![Direct] = q] /\ UNCHANGED <<objs, store, log>>
      BY <2>7 DEF Resend, serverVars
    <3> HIDE DEF q
    <3> QED
      BY <1>1, <1>6, <3>1, <3>2
  <2> QED
    BY <1>11, <2>2, <2>3, <2>4, <2>5, <2>6, <2>7 DEF OperatorStep
<1> QED
  BY <1>7, <1>8, <1>9, <1>10, <1>11 DEF Client

LEMMA DirectKeeps ==
    ASSUME Inv, DirectDone \/ (\E r \in DOMAIN runs : PostRetry(r)) \/ (\E w \in watch : getRun(w))
    PROVE  Inv' /\ UNCHANGED <<objs, store, log>>
<1>1. Direct \in Clients /\ Calm(NoReq)
  BY DEF Clients, Calm, NoReq, Fields
<1>2. CASE DirectDone
  BY <1>1, <1>2, CalmKeeps DEF DirectDone, serverVars
<1>3. ASSUME NEW r, PostRetry(r) PROVE Inv' /\ UNCHANGED <<objs, store, log>>
  <2> DEFINE q == [NoReq EXCEPT !.kind = "retry", !.phase = "retry", !.key = keys + 1, !.pick = r]
  <2>1. Calm(q)
    BY DEF Calm, NoReq, Fields
  <2>2. req' = [req EXCEPT ![Direct] = q] /\ UNCHANGED <<objs, store, log>>
    BY <1>3 DEF PostRetry, Send, serverVars
  <2> HIDE DEF q
  <2> QED
    BY <1>1, <2>1, <2>2, CalmKeeps
<1>4. ASSUME NEW w, getRun(w) PROVE Inv' /\ UNCHANGED <<objs, store, log>>
  BY <1>4, CalmKeeps DEF getRun
<1> QED
  BY <1>2, <1>3, <1>4

-----------------------------------------------------------------------------
(* The server's steps. *)

LaidNext(q) ==
    /\ q.obj \in DOMAIN objs' /\ q.gen \in DOMAIN objs'[q.obj].versions
    /\ q.ifMatch = q.gen - 1
    /\ LET v == objs'[q.obj].versions[q.gen] IN v.body = q.body /\ v.key = q.key
DoneNext(q) ==
    /\ DOMAIN q = Fields
    /\ q.phase = "write" => q.obj \in DOMAIN objs'
    /\ q.phase \in {"list", "retry", "finish"} /\ q.body # None => LaidNext(q)
    /\ q.phase = "finish" => q.body # None

(* The store grows, one request moves, and a write is logged when it is laid. *)
LEMMA ServerMoves ==
    ASSUME Inv, StoreInv', Grows, NEW p \in Clients, NEW q, DoneNext(q), req' = [req EXCEPT ![p] = q],
           \A w \in log' : w \in log \/ LaidNext(w)
    PROVE  Inv'
<1>1. \A w : Laid(w) => LaidNext(w)
  BY LaidStays DEF Inv, LaidNext
<1>2. \A w \in log' : LaidNext(w)
  BY <1>1 DEF Inv
<1>3. DOMAIN req' = Clients /\ \A c \in Clients : DoneNext(req'[c])
  <2>1. \A c \in Clients : Done(req[c]) => DoneNext(req[c])
    BY <1>1 DEF Done, DoneNext, Grows
  <2> QED
    BY <2>1 DEF Inv, ReqInv
<1>4. ReqInv'
  BY <1>3 DEF ReqInv, Done, DoneNext, Laid, LaidNext
<1>5. \A w \in log' : Laid(w)'
  BY <1>2 DEF Laid, LaidNext
<1> QED
  BY <1>4, <1>5 DEF Inv

LEMMA ServerKeeps ==
    ASSUME Inv, NEW p \in Clients, Server(p)
    PROVE  Inv' /\ Grows
<1> DEFINE q == req[p]
<1>1. /\ DOMAIN q = Fields /\ DOMAIN req = Clients /\ StoreInv /\ Done(q)
      /\ IsSeq(objs) /\ \A o \in DOMAIN objs : StateOK(objs[o])
  BY DEF Inv, ReqInv, Done, StoreInv
<1>2. ASSUME UNCHANGED <<objs, store>> PROVE StoreInv' /\ Grows
  BY <1>1, <1>2 DEF StoreInv, Grows
<1>3. ASSUME UNCHANGED <<objs, store, log>>, NEW e, DoneNext(e), req' = [req EXCEPT ![p] = e]
      PROVE  Inv' /\ Grows
  BY <1>2, <1>3, ServerMoves
<1>4. ASSUME NEW st PROVE DoneNext([q EXCEPT !.phase = "answered", !.status = st])
  BY <1>1 DEF DoneNext, Fields
<1>5. ASSUME NEW st
       PROVE  Answer(p, st) = [req EXCEPT ![p] = [q EXCEPT !.phase = "answered", !.status = st]]
  BY <1>1 DEF Answer
<1>6. ASSUME UNCHANGED <<objs, store, log>>, NEW st, req' = Answer(p, st) PROVE Inv' /\ Grows
  BY <1>3, <1>4, <1>5, <1>6
<1>7. CASE stateFor(p)
  <2>1. UNCHANGED <<objs, store, log>>
    BY <1>7 DEF stateFor, serverVars
  <2>2. CASE store # 0
    <3>1. req' = [req EXCEPT ![p] = [q EXCEPT !.phase = "write", !.obj = store]]
      BY <1>1, <1>7, <2>2 DEF stateFor
    <3>2. DoneNext([q EXCEPT !.phase = "write", !.obj = store])
      BY <1>1, <2>1, <2>2 DEF DoneNext, Fields, StoreInv
    <3> QED
      BY <1>3, <2>1, <3>1, <3>2
  <2>3. CASE store = 0
    <3>1. req' = [req EXCEPT ![p] = [q EXCEPT !.phase = "tenant"]]
      BY <1>7, <2>3 DEF stateFor, To
    <3>2. DoneNext([q EXCEPT !.phase = "tenant"])
      BY <1>1 DEF DoneNext, Fields
    <3> QED
      BY <1>3, <2>1, <3>1, <3>2
  <2> QED
    BY <2>2, <2>3
<1>8. CASE stateForSet(p)
  <2> DEFINE e == [q EXCEPT !.phase = "write", !.obj = Len(objs) + 1]
  <2>1. /\ objs' = Append(objs, SeedState) /\ store' = Len(objs) + 1 /\ UNCHANGED log
        /\ req' = [req EXCEPT ![p] = e]
    BY <1>1, <1>8 DEF stateForSet
  <2>2. /\ IsSeq(objs') /\ Len(objs') = Len(objs) + 1 /\ objs'[Len(objs) + 1] = SeedState
        /\ \A o \in DOMAIN objs : o \in DOMAIN objs' /\ objs'[o] = objs[o]
    BY <1>1, <2>1, AppendFacts
  <2>3. Len(objs) \in Nat /\ DOMAIN objs = 1..Len(objs) /\ DOMAIN objs' = 1..Len(objs')
    BY <1>1, <2>2, SeqFacts
  <2>4. StateOK(SeedState)
    BY SeedStateOK
  <2>5. StoreInv'
    BY <1>1, <2>1, <2>2, <2>3, <2>4 DEF StoreInv
  <2>6. Grows
    BY <2>2 DEF Grows
  <2>7. DoneNext(e)
    BY <1>1, <2>2, <2>3 DEF DoneNext, Fields
  <2> HIDE DEF e
  <2> QED
    BY <2>1, <2>5, <2>6, <2>7, ServerMoves
<1>9. CASE restoreVersion(p)
  <2> DEFINE e == [q EXCEPT !.phase = "enter", !.ifMatch = currentGeneration(q.obj),
                            !.body = objs[q.obj].versions[q.source].body]
  <2>1. UNCHANGED <<objs, store, log>>
    BY <1>9 DEF restoreVersion, serverVars
  <2>2. DoneNext(e)
    BY <1>1 DEF DoneNext, Fields
  <2>3. CASE q.source \notin 1..currentGeneration(q.obj) \/ q.source = currentGeneration(q.obj)
    <3>1. req' = Answer(p, 404) \/ req' = Answer(p, 409)
      BY <1>9, <2>3 DEF restoreVersion
    <3> QED
      BY <1>6, <2>1, <3>1
  <2>4. CASE q.source \in 1..currentGeneration(q.obj) /\ q.source # currentGeneration(q.obj)
    <3>1. req' = [req EXCEPT ![p].phase = "enter", ![p].ifMatch = currentGeneration(q.obj),
                             ![p].body = objs[q.obj].versions[q.source].body]
      BY <1>9, <2>4 DEF restoreVersion
    <3>2. req' = [req EXCEPT ![p] = e]
      BY <1>1, <3>1
    <3> HIDE DEF e
    <3> QED
      BY <1>3, <2>1, <2>2, <3>2
  <2> QED
    BY <2>3, <2>4
<1>10. CASE saveSpec(p)
  <2> DEFINE o == q.obj
             old == objs[o].versions
             v == [body |-> q.body, key |-> q.key, restoreOf |-> q.source]
             e == [q EXCEPT !.phase = "list", !.gen = currentGeneration(o) + 1]
  <2>1. /\ q.phase = "write" /\ q.body # None /\ o \in DOMAIN objs /\ UNCHANGED <<store, log>>
    BY <1>1, <1>10 DEF saveSpec, Done
  <2>2. ASSUME NEW r, UNCHANGED objs,
               req' = [req EXCEPT ![p] = [q EXCEPT !.phase = "answered", !.status = 202, !.gen = r.gen, !.run = r.run]]
        PROVE  Inv' /\ Grows
    <3>1. DoneNext([q EXCEPT !.phase = "answered", !.status = 202, !.gen = r.gen, !.run = r.run])
      BY <1>1 DEF DoneNext, Fields
    <3> QED
      BY <1>3, <2>1, <2>2, <3>1
  <2>3. ASSUME NEW st, UNCHANGED objs, req' = Refusal(p, st) PROVE Inv' /\ Grows
    <3> DEFINE x == IF req[p].kind = "restore" THEN 400 ELSE st
    <3>1. req' = Answer(p, x)
      BY <2>3 DEF Refusal
    <3> HIDE DEF x
    <3> QED
      BY <1>6, <2>1, <2>3, <3>1
  <2>4. ASSUME GenerationMatches(p), objs' = [objs EXCEPT ![o].versions = AppendVersion(@, v)],
               req' = [req EXCEPT ![p].phase = "list", ![p].gen = currentGeneration(o) + 1]
        PROVE  Inv' /\ Grows
    <3> DEFINE x == [objs[o] EXCEPT !.versions = Append(old, v)]
    <3>1. objs' = [objs EXCEPT ![o] = x] /\ req' = [req EXCEPT ![p] = e]
      BY <1>1, <2>1, <2>4 DEF AppendVersion
    <3>2. StateOK(objs[o]) /\ IsSeq(old)
      BY <1>1, <2>1 DEF StateOK
    <3>3. /\ IsSeq(Append(old, v)) /\ Len(Append(old, v)) = Len(old) + 1 /\ Append(old, v)[Len(old) + 1] = v
          /\ Len(old) \in Nat
      BY <3>2, AppendFacts, SeqFacts
    <3>4. x.versions = Append(old, v) /\ StateOK(x)
      <4> HIDE DEF v
      <4> DEFINE s == objs[o]
                 n == Append(old, v)
      <4>1. s = [versions |-> s.versions, byKey |-> s.byKey]
        BY <3>2 DEF StateOK
      <4> HIDE DEF s, n
      <4>2. [s EXCEPT !.versions = n] = [versions |-> n, byKey |-> s.byKey]
        BY <4>1
      <4> USE DEF s
      <4>3. x = [versions |-> n, byKey |-> s.byKey]
        BY <4>2 DEF n
      <4>4. IsSeq(n)
        BY <3>3 DEF n
      <4> HIDE DEF s, x
      <4>5. x.versions = n /\ StateOK(x)
        BY <4>3, <4>4 DEF StateOK
      <4> QED
        BY <4>5 DEF n
    <3>5. Len(old) + 1 \in DOMAIN Append(old, v)
      BY <3>3, SeqFacts
    <3> HIDE DEF x
    <3>6. IsSeq(objs') /\ DOMAIN objs' = DOMAIN objs /\ objs'[o] = x /\ \A j \in DOMAIN objs \ {o} : objs'[j] = objs[j]
      BY <1>1, <2>1, <3>1, ExceptFacts
    <3>7. StoreInv'
      BY <1>1, <2>1, <3>4, <3>6 DEF StoreInv
    <3>8. Grows
      BY <3>4, <3>6 DEF Grows
    <3>9. /\ e.obj = o /\ e.gen = Len(old) + 1 /\ e.ifMatch = Len(old) /\ e.body = q.body /\ e.key = q.key
          /\ e.phase = "list" /\ DOMAIN e = Fields
      BY <1>1, <2>4 DEF Fields, GenerationMatches, currentGeneration
    <3> HIDE DEF e
    <3>10. DoneNext(e)
      BY <2>1, <3>3, <3>4, <3>5, <3>6, <3>9 DEF DoneNext, LaidNext
    <3> QED
      BY <2>1, <3>1, <3>7, <3>8, <3>10, ServerMoves
  <2> DEFINE replay == {r \in objs[o].byKey : r.key = q.key}
  <2>5. CASE replay # {}
    <3>1. UNCHANGED objs /\ \E r \in replay :
             req' = [req EXCEPT ![p].phase = "answered", ![p].status = 202, ![p].gen = r.gen, ![p].run = r.run]
      BY <1>10, <2>5 DEF saveSpec
    <3>2. PICK r \in replay :
             req' = [req EXCEPT ![p].phase = "answered", ![p].status = 202, ![p].gen = r.gen, ![p].run = r.run]
      BY <3>1
    <3> HIDE DEF replay
    <3>3. req' = [req EXCEPT ![p] = [q EXCEPT !.phase = "answered", !.status = 202, !.gen = r.gen, !.run = r.run]]
      BY <3>2, ZenonT(30)
    <3> QED
      BY <2>2, <3>1, <3>3
  <2>6. CASE replay = {} /\ ~GenerationMatches(p)
    <3> DEFINE st == IF req[p].ifMatch = 0 THEN 428 ELSE 412
    <3>1. UNCHANGED objs /\ req' = Refusal(p, st)
      BY <1>10, <2>6 DEF saveSpec
    <3> HIDE DEF st
    <3> QED
      BY <2>3, <3>1
  <2>7. CASE replay = {} /\ GenerationMatches(p) /\ ~Validates(p)
    <3>1. UNCHANGED objs /\ req' = Refusal(p, 400)
      BY <1>10, <2>7 DEF saveSpec
    <3> QED
      BY <2>3, <3>1
  <2>8. CASE replay = {} /\ GenerationMatches(p) /\ Validates(p)
    <3>1. /\ objs' = [objs EXCEPT ![o].versions = AppendVersion(@, v)]
          /\ req' = [req EXCEPT ![p].phase = "list", ![p].gen = currentGeneration(o) + 1]
      BY <1>10, <2>8 DEF saveSpec
    <3> QED
      BY <2>4, <2>8, <3>1
  <2> QED
    BY <2>5, <2>6, <2>7, <2>8
<1>11. CASE listRuns(p)
  <2> DEFINE k == IF Settled = {} THEN 0 ELSE CHOOSE r \in Settled : \A z \in Settled : z <= r
             e == [q EXCEPT !.phase = "retry", !.pick = k]
  <2>1. UNCHANGED <<objs, store, log>> /\ q.phase = "list"
    BY <1>11 DEF listRuns, serverVars
  <2>2. req' = [req EXCEPT ![p].phase = "retry", ![p].pick = k]
    BY <1>11 DEF listRuns
  <2> HIDE DEF k
  <2>3. req' = [req EXCEPT ![p] = e]
    BY <1>1, <2>2
  <2>4. DoneNext(e)
    BY <1>1, <2>1 DEF DoneNext, Done, Laid, LaidNext, Fields
  <2> HIDE DEF e
  <2> QED
    BY <1>3, <2>1, <2>3, <2>4
<1>12. CASE retryRun(p)
  <2>1. UNCHANGED <<objs, store, log>> /\ q.phase = "retry"
    BY <1>12 DEF retryRun
  <2>2. (\E st : req' = Answer(p, st)) \/ (\E run : req' = Enqueued(p, run))
    BY <1>12 DEF retryRun
  <2>3. ASSUME NEW run, req' = Enqueued(p, run) PROVE Inv' /\ Grows
    <3> DEFINE ph == IF q.body = None THEN "answered" ELSE "finish"
               e == [q EXCEPT !.run = run, !.phase = ph, !.status = 202]
    <3>1. req' = [req EXCEPT ![p] = e]
      BY <1>1, <2>3 DEF Enqueued
    <3>2. DoneNext(e)
      BY <1>1, <2>1 DEF DoneNext, Done, Laid, LaidNext, Fields
    <3> HIDE DEF e
    <3> QED
      BY <1>3, <2>1, <3>1, <3>2
  <2>4. ASSUME NEW st, req' = Answer(p, st) PROVE Inv' /\ Grows
    BY <1>3, <1>4, <2>1, <2>4 DEF Answer
  <2> QED
    BY <2>2, <2>3, <2>4
<1>13. CASE saveSpecFinish(p)
  <2> DEFINE o == q.obj
             x == [objs[o] EXCEPT !.byKey = Remember(@, q)]
             e == [q EXCEPT !.phase = "answered", !.status = 202]
  <2>1. Laid(q) /\ o \in DOMAIN objs /\ StateOK(objs[o])
    BY <1>1, <1>13 DEF saveSpecFinish, Done, Laid
  <2>2. /\ objs' = [objs EXCEPT ![o] = x] /\ log' = log \cup {q} /\ UNCHANGED store
        /\ req' = [req EXCEPT ![p] = e]
    BY <1>1, <1>13, <2>1 DEF saveSpecFinish, Answer
  <2>3. x.versions = objs[o].versions /\ StateOK(x)
    BY <2>1 DEF StateOK
  <2> HIDE DEF x
  <2>4. IsSeq(objs') /\ DOMAIN objs' = DOMAIN objs /\ objs'[o] = x /\ \A j \in DOMAIN objs \ {o} : objs'[j] = objs[j]
    BY <1>1, <2>1, <2>2, ExceptFacts
  <2>5. StoreInv'
    BY <1>1, <2>2, <2>3, <2>4 DEF StoreInv
  <2>6. Grows
    BY <2>3, <2>4 DEF Grows
  <2>7. LaidNext(q)
    BY <1>1, <2>1, <2>6, LaidStays DEF LaidNext
  <2>8. DoneNext(e)
    BY <1>4
  <2> HIDE DEF e
  <2> QED
    BY <2>2, <2>5, <2>6, <2>7, <2>8, ServerMoves
<1> QED
  BY <1>7, <1>8, <1>9, <1>10, <1>11, <1>12, <1>13 DEF Server

LEMMA InitInv == Init => Inv
<1> SUFFICES ASSUME Init PROVE Inv
  OBVIOUS
<1>1. StateOK(SeedState)
  BY SeedStateOK
<1>2. IsSeq(<<>>) /\ IsSeq(<<SeedState>>)
  <2>1. <<>> \in Seq({}) /\ <<SeedState>> \in Seq({SeedState})
    OBVIOUS
  <2> QED
    BY <2>1 DEF IsSeq
<1>3. StoreInv
  BY <1>1, <1>2 DEF Init, StoreInv
<1>4. ReqInv
  BY DEF Init, ReqInv, Done, NoReq, Fields
<1> QED
  BY <1>3, <1>4 DEF Init, Inv

LEMMA NextInv == Inv /\ [Next]_vars => Inv' /\ Grows
<1> SUFFICES ASSUME Inv, [Next]_vars PROVE Inv' /\ Grows
  OBVIOUS
<1>1. UNCHANGED objs => Grows
  BY DEF Grows
<1>2. CASE UNCHANGED vars
  BY <1>1, <1>2, CalmKeeps DEF vars, serverVars
<1> QED
  BY <1>1, <1>2, ServerKeeps, ClientKeeps, DirectKeeps DEF Next

-----------------------------------------------------------------------------
(* The store changes hands only when a state is built. *)
Handed ==
    store' # store =>
        /\ objs' = Append(objs, SeedState) /\ store' = Len(objs')
        /\ \E p \in Clients : req[p].phase = "tenant" /\ req'[p].phase = "write"

LEMMA StoreHanded == Inv /\ [Next]_vars => Handed
<1> SUFFICES ASSUME Inv, [Next]_vars PROVE Handed
  OBVIOUS
<1>1. UNCHANGED store => Handed
  BY DEF Handed
<1>2. ASSUME NEW p \in Clients, Server(p) PROVE Handed
  <2>1. CASE stateForSet(p)
    <3>1. /\ objs' = Append(objs, SeedState) /\ store' = Len(objs) + 1 /\ req[p].phase = "tenant"
          /\ req' = [req EXCEPT ![p].phase = "write", ![p].obj = Len(objs) + 1]
      BY <2>1 DEF stateForSet
    <3>2. Len(objs') = Len(objs) + 1
      BY <3>1, AppendFacts DEF Inv, StoreInv
    <3>3. DOMAIN req = Clients /\ "phase" \in DOMAIN req[p]
      BY DEF Inv, ReqInv, Done, Fields
    <3>4. req'[p].phase = "write"
      BY <3>1, <3>3
    <3> QED
      BY <3>1, <3>2, <3>4 DEF Handed
  <2>2. CASE stateFor(p) \/ restoreVersion(p) \/ saveSpec(p) \/ listRuns(p) \/ retryRun(p) \/ saveSpecFinish(p)
    BY <1>1, <2>2 DEF stateFor, restoreVersion, saveSpec, listRuns, retryRun, saveSpecFinish, serverVars
  <2> QED
    BY <1>2, <2>1, <2>2 DEF Server
<1>3. CASE UNCHANGED vars
  BY <1>1, <1>3 DEF vars, serverVars
<1> QED
  BY <1>1, <1>2, <1>3, ClientKeeps, DirectKeeps DEF Next

(* The key of a write that was answered is remembered, and no step lays       *)
(* another version under it.                                                  *)
Spent == \A w \in log : \E e \in objs[w.obj].byKey : e.key = w.key
Unused ==
    \A w \in log : \A g \in DOMAIN objs'[w.obj].versions :
        objs'[w.obj].versions[g].key = w.key => g \in DOMAIN objs[w.obj].versions

LEMMA SpentServer ==
    ASSUME Inv, Spent, NEW p \in Clients, Server(p)
    PROVE  Spent' /\ Unused
<1> DEFINE q == req[p]
           o == q.obj
<1>1. /\ IsSeq(objs) /\ \A u \in DOMAIN objs : StateOK(objs[u])
      /\ \A w \in log : w.obj \in DOMAIN objs
      /\ q.phase = "write" => o \in DOMAIN objs
      /\ q.phase = "finish" => o \in DOMAIN objs
  BY DEF Inv, StoreInv, ReqInv, Done, Laid
<1>2. CASE UNCHANGED <<objs, log>>
  BY <1>2 DEF Spent, Unused
<1>3. CASE stateFor(p) \/ restoreVersion(p) \/ listRuns(p) \/ retryRun(p)
  BY <1>2, <1>3 DEF stateFor, restoreVersion, listRuns, retryRun, serverVars
<1>4. CASE stateForSet(p)
  <2>1. objs' = Append(objs, SeedState) /\ UNCHANGED log
    BY <1>4 DEF stateForSet
  <2>2. \A u \in DOMAIN objs : objs'[u] = objs[u]
    BY <1>1, <2>1, AppendFacts
  <2> QED
    BY <1>1, <2>1, <2>2 DEF Spent, Unused
<1>5. CASE saveSpec(p)
  <2> DEFINE v == [body |-> q.body, key |-> q.key, restoreOf |-> q.source]
             old == objs[o].versions
             x == [objs[o] EXCEPT !.versions = Append(old, v)]
  <2>1. UNCHANGED log /\ o \in DOMAIN objs
    BY <1>1, <1>5 DEF saveSpec
  <2>2. \/ UNCHANGED objs
        \/ /\ {e \in objs[o].byKey : e.key = q.key} = {}
           /\ objs' = [objs EXCEPT ![o].versions = AppendVersion(@, v)]
    BY <1>5 DEF saveSpec
  <2>3. ASSUME {e \in objs[o].byKey : e.key = q.key} = {},
               objs' = [objs EXCEPT ![o].versions = AppendVersion(@, v)]
        PROVE  Spent' /\ Unused
    <3>1. objs' = [objs EXCEPT ![o] = x]
      BY <2>1, <2>3 DEF AppendVersion
    <3>2. StateOK(objs[o])
      BY <1>1, <2>1
    <3> HIDE DEF v
    <3>3. x.versions = Append(old, v) /\ x.byKey = objs[o].byKey
      <4> DEFINE s == objs[o]
                 n == Append(old, v)
      <4>1. s = [versions |-> s.versions, byKey |-> s.byKey]
        BY <3>2 DEF StateOK
      <4> HIDE DEF s, n
      <4>2. [s EXCEPT !.versions = n] = [versions |-> n, byKey |-> s.byKey]
        BY <4>1
      <4>3. x = [s EXCEPT !.versions = n]
        BY DEF s, n
      <4> HIDE DEF x
      <4>4. x.versions = n /\ x.byKey = s.byKey
        BY <4>2, <4>3
      <4> QED
        BY <4>4 DEF s, n
    <3> HIDE DEF x
    <3>4. objs'[o] = x /\ \A j \in DOMAIN objs \ {o} : objs'[j] = objs[j]
      BY <1>1, <2>1, <3>1, ExceptFacts
    <3>5. \A j \in DOMAIN objs : objs'[j].byKey = objs[j].byKey
      BY <3>3, <3>4
    <3>6. Spent'
      BY <1>1, <2>1, <3>5 DEF Spent
    <3>7. IsSeq(old) /\ Len(old) \in Nat /\ DOMAIN old = 1..Len(old)
      BY <3>2, SeqFacts DEF StateOK
    <3>8. /\ Append(old, v)[Len(old) + 1] = v /\ Len(Append(old, v)) = Len(old) + 1
          /\ DOMAIN Append(old, v) = 1..(Len(old) + 1)
      BY <3>7, AppendFacts, SeqFacts
    <3>9. v.key = q.key
      BY DEF v
    <3>10. ASSUME NEW w \in log, NEW g \in DOMAIN objs'[w.obj].versions, objs'[w.obj].versions[g].key = w.key
           PROVE  g \in DOMAIN objs[w.obj].versions
      <4>1. CASE w.obj # o
        BY <1>1, <3>4, <3>10, <4>1
      <4>2. CASE w.obj = o
        <5>1. w.key # q.key
          BY <2>3, <4>2 DEF Spent
        <5>2. g \in 1..(Len(old) + 1) /\ Append(old, v)[g].key = w.key
          BY <3>3, <3>4, <3>8, <3>10, <4>2
        <5>3. g # Len(old) + 1
          BY <3>8, <3>9, <5>1, <5>2
        <5> HIDE DEF old
        <5>4. g \in DOMAIN old
          BY <3>7, <5>2, <5>3
        <5> QED
          BY <4>2, <5>4 DEF old
      <4> QED
        BY <4>1, <4>2
    <3> QED
      BY <3>6, <3>10 DEF Unused
  <2> QED
    BY <1>2, <2>1, <2>2, <2>3
<1>6. CASE saveSpecFinish(p)
  <2> DEFINE x == [objs[o] EXCEPT !.byKey = Remember(@, q)]
  <2>1. /\ o \in DOMAIN objs /\ log' = log \cup {q} /\ objs' = [objs EXCEPT ![o] = x]
    BY <1>1, <1>6 DEF saveSpecFinish
  <2>2. StateOK(objs[o])
    BY <1>1, <2>1
  <2>3. x.versions = objs[o].versions /\ x.byKey = Remember(objs[o].byKey, q)
    BY <2>2 DEF StateOK
  <2> HIDE DEF x
  <2>4. objs'[o] = x /\ \A j \in DOMAIN objs \ {o} : objs'[j] = objs[j]
    BY <1>1, <2>1, ExceptFacts
  <2>5. Unused
    BY <1>1, <2>3, <2>4 DEF Unused
  <2>6. \A k : (k = q.key \/ \E e \in objs[o].byKey : e.key = k) => \E e \in objs'[o].byKey : e.key = k
    <3> DEFINE f == [key |-> q.key, gen |-> q.gen, run |-> q.run]
    <3>1. f.key = q.key /\ f \in objs'[o].byKey
      BY <2>3, <2>4 DEF Remember
    <3>2. \A e \in objs[o].byKey : e.key = q.key \/ e \in objs'[o].byKey
      BY <2>3, <2>4 DEF Remember
    <3> HIDE DEF f
    <3> QED
      BY <3>1, <3>2
  <2>7. Spent'
    <3> SUFFICES ASSUME NEW w \in log' PROVE \E e \in objs'[w.obj].byKey : e.key = w.key
      BY DEF Spent
    <3>1. CASE w = q
      BY <2>6, <3>1
    <3>2. CASE w \in log
      BY <1>1, <2>4, <2>6, <3>2 DEF Spent
    <3> QED
      BY <2>1, <3>1, <3>2
  <2> QED
    BY <2>5, <2>7
<1> QED
  BY <1>3, <1>4, <1>5, <1>6 DEF Server

LEMMA SpentNext == Inv /\ Spent /\ [Next]_vars => Spent' /\ Unused
<1> SUFFICES ASSUME Inv, Spent, [Next]_vars PROVE Spent' /\ Unused
  OBVIOUS
<1>1. UNCHANGED <<objs, log>> => Spent' /\ Unused
  BY DEF Spent, Unused
<1>2. CASE UNCHANGED vars
  BY <1>1, <1>2 DEF vars, serverVars
<1> QED
  BY <1>1, <1>2, SpentServer, ClientKeeps, DirectKeeps DEF Next

-----------------------------------------------------------------------------
(* The theorems *)

(* For any number of tabs, saves, restores and duplicates: in no              *)
(* TenantSpecState a version is changed or dropped, and the history readers   *)
(* see is replaced only by a request that found no state and built one from   *)
(* the fixtures (saveSpec, restoreVersion, stateFor).                         *)
THEOREM HistoryOnlyGrows == Spec => HistoryImmutable
<1>1. ASSUME Inv, [Next]_vars
      PROVE  [/\ \A o \in DOMAIN objs : LET vs == objs[o].versions IN
                    /\ Len(objs'[o].versions) >= Len(vs)
                    /\ SubSeq(objs'[o].versions, 1, Len(vs)) = vs
              /\ store' # store =>
                    /\ objs' = Append(objs, SeedState) /\ store' = Len(objs')
                    /\ \E p \in Clients : req[p].phase = "tenant" /\ req'[p].phase = "write"]_vars
  <2>1. Grows /\ \A o \in DOMAIN objs : IsSeq(objs[o].versions)
    BY <1>1, NextInv DEF Inv, StoreInv, StateOK
  <2>2. ASSUME NEW o \in DOMAIN objs
        PROVE  /\ Len(objs'[o].versions) >= Len(objs[o].versions)
               /\ SubSeq(objs'[o].versions, 1, Len(objs[o].versions)) = objs[o].versions
    <3>1. Len(objs[o].versions) \in Nat /\ SubSeq(objs[o].versions, 1, Len(objs[o].versions)) = objs[o].versions
      BY <2>1, SeqFacts
    <3>2. CASE objs'[o].versions = objs[o].versions
      BY <3>1, <3>2
    <3>3. ASSUME NEW v, objs'[o].versions = Append(objs[o].versions, v)
          PROVE  /\ Len(objs'[o].versions) = Len(objs[o].versions) + 1
                 /\ SubSeq(objs'[o].versions, 1, Len(objs[o].versions)) = objs[o].versions
      BY <2>1, <3>3, AppendFacts
    <3> QED
      BY <2>1, <3>1, <3>2, <3>3 DEF Grows
  <2>3. Handed
    BY <1>1, StoreHanded
  <2> QED
    BY <2>2, <2>3 DEF Handed
<1>2. Inv /\ [Next]_vars => Inv'
  BY NextInv
<1> QED
  BY <1>1, <1>2, InitInv, PTL DEF Spec, HistoryImmutable

(* However many clients resend, and whatever runs at the awaits in between:   *)
(* once a PUT or a restore was answered, no copy of it lays another version   *)
(* into that state (byKey of saveSpec).                                       *)
THEOREM SpentKeysWriteNothing == Spec => AnsweredKeyIsSpent
<1>1. Init => Spent
  BY DEF Init, Spent
<1>2. Inv /\ Spent /\ [Next]_vars =>
          [\A w \in log : \A g \in DOMAIN objs'[w.obj].versions :
              objs'[w.obj].versions[g].key = w.key => g \in DOMAIN objs[w.obj].versions]_vars
  BY SpentNext DEF Unused
<1>3. Inv /\ Spent /\ [Next]_vars => Inv' /\ Spent'
  BY NextInv, SpentNext
<1> QED
  BY <1>1, <1>2, <1>3, InitInv, PTL DEF Spec, AnsweredKeyIsSpent

-----------------------------------------------------------------------------
(* Part 2: keys, runs and documents.                                          *)

Kinds == {"none", "save", "restore", "reconcile", "retry"}
Phases == {"idle", "enter", "tenant", "write", "list", "retry", "finish", "answered", "refetch", "fetched"}
Statuses == {0, 202, 400, 404, 409, 412, 428}
Writes == {"save", "restore"}
Told == {"answered", "refetch", "fetched"}
ViewFields == {"doc", "draft", "base", "checked", "manual", "fetch", "answer", "fetchFailed", "rediff",
               "saved", "problem"}

(* A request has a key of its own or the one it repeats, and a document once  *)
(* it writes.                                                                 *)
ReqType(ks, q) ==
    /\ DOMAIN q = Fields /\ q.kind \in Kinds /\ q.phase \in Phases /\ q.status \in Statuses
    /\ q.body \in Body /\ q.key \in 0..ks
    /\ q.ifMatch \in Nat /\ q.source \in Nat /\ q.obj \in Nat /\ q.gen \in Nat
    /\ q.kind = "none" <=> q.phase = "idle"
    /\ q.kind # "none" => q.key # 0
    /\ q.kind \in {"reconcile", "retry"} => q.body = None /\ q.phase \in {"list", "retry"} \cup Told
    /\ q.kind = "save" => q.body # None /\ q.source = 0
    /\ q.kind = "restore" => q.source # 0
    /\ q.kind \in Writes /\ (q.phase \in {"list", "retry"} \/ q.status = 202) => q.body # None
    /\ q.phase \in {"refetch", "fetched"} => q.status = 202

(* What was answered with success names a version the key made; a restore     *)
(* writes the text of an older version.                                       *)
ReqDocs(os, q) ==
    /\ q.obj <= Len(os)
    /\ q.phase \in Told /\ q.status = 202 /\ q.body # None =>
          /\ q.obj \in DOMAIN os /\ q.gen \in DOMAIN os[q.obj].versions
          /\ os[q.obj].versions[q.gen].key = q.key
    /\ q.kind = "restore" /\ q.body # None =>
          /\ q.source < q.ifMatch /\ Len(os) # 0
          /\ Len(os) = 1 => q.source \in DOMAIN os[1].versions /\ os[1].versions[q.source].body = q.body

(* The versions made under the key of a request are of its kind, and a save   *)
(* made one on the generation it names.                                       *)
KeyVers(os, q) ==
    \A o \in DOMAIN os : \A g \in DOMAIN os[o].versions :
        q.kind # "none" /\ os[o].versions[g].key = q.key =>
            /\ q.kind \in Writes /\ os[o].versions[g].restoreOf = q.source
            /\ q.kind = "save" => q.ifMatch = 0 \/ q.ifMatch = g - 1
(* Two deliveries of one request. *)
Mates(q, r) ==
    q.kind # "none" /\ r.kind # "none" /\ q.key = r.key =>
        /\ q.kind = r.kind /\ q.source = r.source
        /\ q.kind = "save" => q.ifMatch = r.ifMatch \/ q.ifMatch = 0 \/ r.ifMatch = 0

RunFor(rk, q) ==
    /\ q.key \in Nat \ {0}
    /\ q.run = -q.key \/ [key |-> <<q.key, TRUE>>, run |-> q.run] \in rk
ReqRuns(rs, rk, q) ==
    /\ q.phase = "retry" => q.pick \in 0..Len(rs)
    /\ q.phase = "finish" => RunFor(rk, q)
    /\ q.phase \in Told /\ q.status = 202 /\ q.body = None => q.run = -q.key \/ q.run \in DOMAIN rs

VersionOK(v, g, ks) ==
    /\ v = [body |-> v.body, key |-> v.key, restoreOf |-> v.restoreOf]
    /\ v.body \in ValidBodies /\ v.key \in 0..ks /\ v.restoreOf \in 0..(g - 1)
ObjOK(o, ks) ==
    /\ StateOK(o) /\ Len(o.versions) >= Len(SeedBodies)
    /\ \A g \in DOMAIN o.versions : VersionOK(o.versions[g], g, ks)
    /\ \A e \in o.byKey : e.gen \in DOMAIN o.versions /\ o.versions[e.gen].key = e.key
OneText(os) ==
    Len(os) = 1 => \A g \in DOMAIN os[1].versions :
        LET v == os[1].versions[g]
        IN  v.restoreOf # 0 => os[1].versions[v.restoreOf].body = v.body
(* Versions of one key are of one kind, and those of a PUT one generation.    *)
KeyUse(v, i, w, j) ==
    v.key = w.key /\ v.key # 0 => v.restoreOf = w.restoreOf /\ (v.restoreOf = 0 => i = j)
OneGen(os) ==
    \A o, u \in DOMAIN os : \A i \in DOMAIN os[o].versions, j \in DOMAIN os[u].versions :
        KeyUse(os[o].versions[i], i, os[u].versions[j], j)
ObjsOK(os, ks) == (\A o \in DOMAIN os : ObjOK(os[o], ks)) /\ OneText(os) /\ OneGen(os)

(* A retried run plays retryScript: before poll k + 1, changes below k are    *)
(* applied, change k is being applied, and the rest wait.                     *)
Stage(c, k) == IF c < k THEN "applied" ELSE IF c = k \/ (c = 1 /\ k = 0) THEN "applying" ELSE "pending"
Replays(run) ==
    /\ run.script = retryScript /\ run.step \in 0..(Changes + 2)
    /\ run.finished <=> run.step = Changes + 2
    /\ \A c \in 1..Changes : run.changes[c] = Stage(c, run.step)
RunOK(rs, r) ==
    /\ rs[r] \in RunDetail /\ rs[r].step <= Len(rs[r].script) /\ rs[r].retryOf \in 0..(r - 1)
    /\ rs[r].retryOf # 0 => rs[rs[r].retryOf].finished /\ Replays(rs[r])
RunsOK(rs) == IsSeq(rs) /\ \A r \in DOMAIN rs : RunOK(rs, r)
RetriesOK(rk, rs) ==
    /\ \A e \in rk : e = [key |-> e.key, run |-> e.run] /\ e.run \in DOMAIN rs
    /\ \A e, f \in rk : e.run = f.run => e.key = f.key
WatchOK(ws, rs) ==
    \A w \in ws : w = [run |-> w.run, seen |-> w.seen] /\ w.run \in DOMAIN rs /\ w.seen \in BOOLEAN

ViewType(v) ==
    /\ DOMAIN v = ViewFields /\ v.doc.gen \in Nat /\ v.doc.body \in ValidBodies
    /\ v.draft \in Body /\ v.checked \in Body /\ v.manual \in Body
    /\ v.fetch \in {"idle", "requested", "answered"}
    /\ v.fetch = "answered" => v.answer.gen \in Nat /\ v.answer.body \in ValidBodies
    /\ v.saved \in Nat
(* While one state was built: a write that waits for the document has a fetch *)
(* under way that started after it, and what was announced is shown.          *)
Newest(os) == IF Len(os) = 0 THEN Len(SeedBodies) ELSE Len(os[1].versions)
Shown(os, v, q) ==
    Len(os) <= 1 =>
        /\ v.saved <= Newest(os) /\ (v.fetchFailed \/ v.saved <= v.doc.gen)
        /\ v.fetch = "answered" => v.saved <= v.answer.gen
        /\ q.body # None =>
             /\ q.phase = "refetch" => v.fetch # "idle"
             /\ q.phase \in {"refetch", "fetched"} /\ v.fetch = "answered" => q.gen <= v.answer.gen
             /\ q.phase = "fetched" => v.fetchFailed \/ q.gen <= v.doc.gen

Full ==
    /\ Inv /\ keys \in Nat /\ ObjsOK(objs, keys)
    /\ RunsOK(runs) /\ RetriesOK(retriesByKey, runs) /\ WatchOK(watch, runs)
    /\ \A p \in Clients : /\ ReqType(keys, req[p]) /\ ReqDocs(objs, req[p]) /\ KeyVers(objs, req[p])
                          /\ ReqRuns(runs, retriesByKey, req[p])
    /\ \A p, u \in Clients : p # u => Mates(req[p], req[u])
    /\ \A w \in log : RunFor(retriesByKey, w)
    /\ DOMAIN view = Tabs /\ \A t \in Tabs : ViewType(view[t]) /\ Shown(objs, view[t], req[t])
-----------------------------------------------------------------------------
(* What grows keeps. *)
OsGrow(os, ns) ==
    /\ Len(os) \in Nat /\ Len(ns) \in Nat /\ Len(ns) >= Len(os)
    /\ \A o \in DOMAIN os :
          /\ o \in DOMAIN ns
          /\ \A g \in DOMAIN os[o].versions :
                g \in DOMAIN ns[o].versions /\ ns[o].versions[g] = os[o].versions[g]
OnlyReq(p) == DOMAIN req' = Clients /\ \A u \in Clients \ {p} : req'[u] = req[u]

LEMMA StoreFacts ==
    ASSUME StoreInv
    PROVE  /\ Len(objs) \in Nat /\ DOMAIN objs = 1..Len(objs)
           /\ \A o \in DOMAIN objs : /\ IsSeq(objs[o].versions) /\ Len(objs[o].versions) \in Nat
                                     /\ DOMAIN objs[o].versions = 1..Len(objs[o].versions)
BY SeqFacts DEF StoreInv, StateOK

LEMMA GrowFacts ==
    ASSUME StoreInv, StoreInv', Grows
    PROVE  OsGrow(objs, objs')
<1>1. Len(objs) \in Nat /\ DOMAIN objs = 1..Len(objs)
  BY StoreFacts
<1>2. Len(objs') \in Nat /\ DOMAIN objs' = 1..Len(objs')
  BY SeqFacts DEF StoreInv
<1>3. Len(objs') >= Len(objs)
  <2>1. CASE Len(objs) = 0
    BY <1>2, <2>1
  <2>2. CASE Len(objs) # 0
    <3>1. Len(objs) \in DOMAIN objs
      BY <1>1, <2>2
    <3>2. Len(objs) \in DOMAIN objs'
      BY <3>1 DEF Grows
    <3> QED
      BY <1>1, <1>2, <3>2
  <2> QED
    BY <2>1, <2>2
<1>4. ASSUME NEW o \in DOMAIN objs, NEW g \in DOMAIN objs[o].versions
      PROVE  g \in DOMAIN objs'[o].versions /\ objs'[o].versions[g] = objs[o].versions[g]
  <2>1. IsSeq(objs[o].versions)
    BY StoreFacts
  <2>2. CASE objs'[o].versions = objs[o].versions
    BY <2>2
  <2>3. ASSUME NEW v, objs'[o].versions = Append(objs[o].versions, v)
        PROVE  g \in DOMAIN objs'[o].versions /\ objs'[o].versions[g] = objs[o].versions[g]
    BY <2>1, <2>3, AppendFacts
  <2> QED
    BY <2>2, <2>3 DEF Grows
<1> QED
  BY <1>1, <1>2, <1>3, <1>4 DEF OsGrow, Grows

LEMMA SameGrow ==
    ASSUME StoreInv
    PROVE  OsGrow(objs, objs)
BY StoreFacts DEF OsGrow

LEMMA TypeMono ==
    ASSUME NEW k \in Nat, NEW m \in Nat, k <= m, NEW q, ReqType(k, q)
    PROVE  ReqType(m, q)
<1>1. q.key \in 0..m
  BY DEF ReqType
<1> QED
  BY <1>1 DEF ReqType

LEMMA DocsMono ==
    ASSUME NEW os, NEW ns, OsGrow(os, ns), DOMAIN os = 1..Len(os), NEW q, q.obj \in Nat, ReqDocs(os, q)
    PROVE  ReqDocs(ns, q)
<1>1. q.obj <= Len(ns)
  BY DEF ReqDocs, OsGrow
<1>2. q.phase \in Told /\ q.status = 202 /\ q.body # None =>
          /\ q.obj \in DOMAIN ns /\ q.gen \in DOMAIN ns[q.obj].versions
          /\ ns[q.obj].versions[q.gen].key = q.key
  BY DEF ReqDocs, OsGrow
<1>3. ASSUME q.kind = "restore", q.body # None
      PROVE  /\ q.source < q.ifMatch /\ Len(ns) # 0
             /\ Len(ns) = 1 => q.source \in DOMAIN ns[1].versions /\ ns[1].versions[q.source].body = q.body
  <2>1. /\ q.source < q.ifMatch /\ Len(os) # 0
        /\ Len(os) = 1 => q.source \in DOMAIN os[1].versions /\ os[1].versions[q.source].body = q.body
    BY <1>3 DEF ReqDocs
  <2>2. Len(ns) = 1 => Len(os) = 1 /\ 1 \in DOMAIN os
    BY <2>1 DEF OsGrow
  <2> QED
    BY <2>1, <2>2 DEF OsGrow
<1> QED
  BY <1>1, <1>2, <1>3 DEF ReqDocs

LEMMA RunsMono ==
    ASSUME NEW rs, NEW ns, Len(rs) \in Nat, Len(ns) \in Nat, Len(rs) <= Len(ns),
           DOMAIN rs = 1..Len(rs), DOMAIN ns = 1..Len(ns), NEW rk, NEW nk, rk \subseteq nk,
           NEW q, ReqRuns(rs, rk, q)
    PROVE  ReqRuns(ns, nk, q)
BY DEF ReqRuns, RunFor

(* With one state, the newest generation never goes back. *)
LEMMA ShownMono ==
    ASSUME NEW os, NEW ns, OsGrow(os, ns), DOMAIN os = 1..Len(os), DOMAIN ns = 1..Len(ns),
           Len(SeedBodies) \in Nat,
           \A o \in DOMAIN os : Len(os[o].versions) \in Nat /\ DOMAIN os[o].versions = 1..Len(os[o].versions),
           \A o \in DOMAIN ns : /\ Len(ns[o].versions) \in Nat /\ DOMAIN ns[o].versions = 1..Len(ns[o].versions)
                                /\ Len(ns[o].versions) >= Len(SeedBodies),
           NEW v, v.saved \in Nat, NEW q, Shown(os, v, q)
    PROVE  Shown(ns, v, q)
<1> SUFFICES ASSUME Len(ns) <= 1 PROVE Shown(ns, v, q)
  BY DEF Shown
<1>1. Len(os) <= 1
  BY DEF OsGrow
<1>2. Newest(os) \in Nat /\ Newest(ns) \in Nat /\ Newest(os) <= Newest(ns)
  <2>1. CASE Len(ns) = 0
    BY <2>1 DEF OsGrow, Newest
  <2>2. CASE Len(ns) = 1 /\ Len(os) = 0
    <3>1. 1 \in DOMAIN ns
      BY <2>2
    <3> QED
      BY <2>2, <3>1 DEF Newest
  <2>3. CASE Len(ns) = 1 /\ Len(os) = 1
    <3>1. 1 \in DOMAIN ns /\ 1 \in DOMAIN os
      BY <2>3
    <3>2. Len(os[1].versions) <= Len(ns[1].versions)
      <4>1. CASE Len(os[1].versions) = 0
        BY <3>1, <4>1
      <4>2. CASE Len(os[1].versions) # 0
        <5>1. Len(os[1].versions) \in DOMAIN os[1].versions
          BY <3>1, <4>2
        <5>2. Len(os[1].versions) \in DOMAIN ns[1].versions
          BY <3>1, <5>1 DEF OsGrow
        <5> QED
          BY <3>1, <5>2
      <4> QED
        BY <4>1, <4>2
    <3> QED
      BY <2>3, <3>1, <3>2 DEF Newest
  <2> QED
    BY <1>1, <2>1, <2>2, <2>3 DEF OsGrow
<1>3. v.saved <= Newest(ns)
  BY <1>1, <1>2 DEF Shown
<1> QED
  BY <1>1, <1>3 DEF Shown

LEMMA RunFacts ==
    ASSUME NEW rs, RunsOK(rs)
    PROVE  Len(rs) \in Nat /\ DOMAIN rs = 1..Len(rs)
BY SeqFacts DEF RunsOK

(* One request moves; the others keep what holds of them. *)
LEMMA Frame ==
    ASSUME Full, Inv', Grows, NEW p \in Clients, OnlyReq(p),
           keys' \in Nat, keys <= keys', ObjsOK(objs', keys'),
           RunsOK(runs'), RetriesOK(retriesByKey', runs'), WatchOK(watch', runs'),
           Len(runs) <= Len(runs'), retriesByKey \subseteq retriesByKey',
           ReqType(keys', req'[p]), ReqDocs(objs', req'[p]), KeyVers(objs', req'[p]),
           ReqRuns(runs', retriesByKey', req'[p]),
           \A u \in Clients \ {p} : /\ KeyVers(objs', req[u])
                                    /\ Mates(req'[p], req[u]) /\ Mates(req[u], req'[p]),
           \A w \in log' : w \in log \/ RunFor(retriesByKey', w),
           DOMAIN view' = Tabs,
           \A t \in Tabs : \/ view'[t] = view[t] /\ (t # p \/ Shown(objs', view'[t], req'[t]))
                           \/ ViewType(view'[t]) /\ Shown(objs', view'[t], req'[t])
    PROVE  Full'
<1>1. StoreInv /\ StoreInv' /\ OsGrow(objs, objs')
  BY GrowFacts DEF Full, Inv
<1>2. /\ Len(objs) \in Nat /\ DOMAIN objs = 1..Len(objs)
      /\ \A o \in DOMAIN objs : Len(objs[o].versions) \in Nat /\ DOMAIN objs[o].versions = 1..Len(objs[o].versions)
  BY <1>1, StoreFacts
<1>3. DOMAIN objs' = 1..Len(objs')
  BY <1>1, SeqFacts DEF StoreInv
<1>4. \A o \in DOMAIN objs' : /\ Len(objs'[o].versions) \in Nat /\ DOMAIN objs'[o].versions = 1..Len(objs'[o].versions)
                              /\ Len(objs'[o].versions) >= Len(SeedBodies)
  BY SeqFacts DEF ObjsOK, ObjOK, StateOK
<1>5. /\ Len(runs) \in Nat /\ DOMAIN runs = 1..Len(runs) /\ Len(runs') \in Nat /\ DOMAIN runs' = 1..Len(runs')
      /\ keys \in Nat
  BY RunFacts DEF Full
<1>6. ASSUME NEW u \in Clients, u # p
      PROVE  /\ ReqType(keys', req'[u]) /\ ReqDocs(objs', req'[u]) /\ KeyVers(objs', req'[u])
             /\ ReqRuns(runs', retriesByKey', req'[u])
  <2>1. /\ req'[u] = req[u] /\ ReqType(keys, req[u]) /\ ReqDocs(objs, req[u]) /\ ReqRuns(runs, retriesByKey, req[u])
        /\ KeyVers(objs', req[u])
    BY <1>6 DEF OnlyReq, Full
  <2>2. req[u].obj \in Nat
    BY <2>1 DEF ReqType
  <2>3. ReqType(keys', req[u])
    BY <1>5, <2>1, TypeMono
  <2>4. ReqDocs(objs', req[u])
    BY <1>1, <1>2, <2>1, <2>2, DocsMono
  <2>5. ReqRuns(runs', retriesByKey', req[u])
    BY <1>5, <2>1, RunsMono
  <2> QED
    BY <2>1, <2>3, <2>4, <2>5
<1>7. ASSUME NEW c \in Clients, NEW u \in Clients, c # u PROVE Mates(req'[c], req'[u])
  <2>1. CASE c = p
    BY <1>7, <2>1 DEF OnlyReq
  <2>2. CASE u = p
    BY <1>7, <2>2 DEF OnlyReq
  <2>3. CASE c # p /\ u # p
    BY <1>7, <2>3 DEF OnlyReq, Full
  <2> QED
    BY <2>1, <2>2, <2>3
<1>8. \A w \in log' : RunFor(retriesByKey', w)
  BY DEF Full, RunFor
<1>9. ASSUME NEW t \in Tabs, t # p, view'[t] = view[t] PROVE ViewType(view'[t]) /\ Shown(objs', view'[t], req'[t])
  <2>1. t \in Clients \ {p} /\ ViewType(view[t]) /\ Shown(objs, view[t], req[t])
    BY <1>9 DEF Clients, Full
  <2>2. view[t].saved \in Nat
    BY <2>1 DEF ViewType
  <2>3. Shown(objs', view[t], req[t])
    BY <1>1, <1>2, <1>3, <1>4, <2>1, <2>2, SeedLength, ShownMono
  <2> QED
    BY <1>9, <2>1, <2>3 DEF OnlyReq
<1>10. \A t \in Tabs : ViewType(view'[t]) /\ Shown(objs', view'[t], req'[t])
  BY <1>9 DEF Full
<1>11. \A u \in Clients : /\ ReqType(keys', req'[u]) /\ ReqDocs(objs', req'[u]) /\ KeyVers(objs', req'[u])
                          /\ ReqRuns(runs', retriesByKey', req'[u])
  BY <1>6
<1> QED
  BY <1>7, <1>8, <1>10, <1>11 DEF Full
LEMMA ObjsMono ==
    ASSUME NEW os, NEW k \in Nat, NEW m \in Nat, k <= m, ObjsOK(os, k)
    PROVE  ObjsOK(os, m)
<1>1. ASSUME NEW v, NEW g, VersionOK(v, g, k) PROVE VersionOK(v, g, m)
  <2>1. v.key \in 0..m
    BY <1>1 DEF VersionOK
  <2> QED
    BY <1>1, <2>1 DEF VersionOK
<1>2. ASSUME NEW o \in DOMAIN os PROVE ObjOK(os[o], m)
  BY <1>1 DEF ObjsOK, ObjOK
<1> QED
  BY <1>2 DEF ObjsOK

(* The request stays the same one: its key, kind and what it asks for. *)
SameKey(q, e) == /\ e.kind = q.kind /\ e.key = q.key /\ e.source = q.source
                 /\ q.kind = "save" => e.ifMatch = q.ifMatch

LEMMA SameKeyKeeps ==
    ASSUME NEW q, NEW e, SameKey(q, e), NEW os, NEW r
    PROVE  /\ KeyVers(os, q) => KeyVers(os, e)
           /\ Mates(q, r) => Mates(e, r)
           /\ Mates(r, q) => Mates(r, e)
<1>1. KeyVers(os, q) => KeyVers(os, e)
  BY DEF SameKey, KeyVers
<1>2. (Mates(q, r) => Mates(e, r)) /\ (Mates(r, q) => Mates(r, e))
  BY DEF SameKey, Mates
<1> QED
  BY <1>1, <1>2

LEMMA ShownQuiet ==
    ASSUME NEW os, NEW v, NEW q, Shown(os, v, q), NEW e, e.phase \notin {"refetch", "fetched"} \/ e.body = None
    PROVE  Shown(os, v, e)
BY DEF Shown

(* A step of one client, with nothing of the server's state moved. *)
LEMMA ReqStep ==
    ASSUME Full, Inv', UNCHANGED <<objs, runs, retriesByKey, watch, log>>, NEW p \in Clients, OnlyReq(p),
           keys' \in Nat, keys <= keys',
           ReqType(keys', req'[p]), ReqDocs(objs, req'[p]), KeyVers(objs, req'[p]),
           ReqRuns(runs, retriesByKey, req'[p]),
           \A u \in Clients \ {p} : Mates(req'[p], req[u]) /\ Mates(req[u], req'[p]),
           DOMAIN view' = Tabs,
           \A t \in Tabs : \/ view'[t] = view[t] /\ (t # p \/ Shown(objs, view'[t], req'[t]))
                           \/ ViewType(view'[t]) /\ Shown(objs, view'[t], req'[t])
    PROVE  Full'
<1>1. Grows
  BY DEF Grows
<1>2. ObjsOK(objs', keys')
  BY ObjsMono DEF Full
<1>3. /\ RunsOK(runs') /\ RetriesOK(retriesByKey', runs') /\ WatchOK(watch', runs') /\ Len(runs) <= Len(runs')
      /\ retriesByKey \subseteq retriesByKey'
  BY RunFacts DEF Full
<1>4. \A u \in Clients \ {p} : KeyVers(objs', req[u])
  BY DEF Full
<1>5. ReqDocs(objs', req'[p]) /\ KeyVers(objs', req'[p]) /\ ReqRuns(runs', retriesByKey', req'[p])
  OBVIOUS
<1>6. \A t \in Tabs : \/ view'[t] = view[t] /\ (t # p \/ Shown(objs', view'[t], req'[t]))
                      \/ ViewType(view'[t]) /\ Shown(objs', view'[t], req'[t])
  OBVIOUS
<1>7. \A w \in log' : w \in log \/ RunFor(retriesByKey', w)
  OBVIOUS
<1> QED
  BY <1>1, <1>2, <1>3, <1>4, <1>5, <1>6, <1>7, Frame

(* A step of a handler on its own request. *)
LEMMA HandlerStep ==
    ASSUME Full, Inv', UNCHANGED <<objs, runs, retriesByKey, watch, log, keys, view>>, NEW p \in Clients, OnlyReq(p),
           SameKey(req[p], req'[p]), ReqType(keys, req'[p]), ReqDocs(objs, req'[p]),
           ReqRuns(runs, retriesByKey, req'[p]), req'[p].phase \notin {"refetch", "fetched"}
    PROVE  Full'
<1>1. keys' \in Nat /\ keys <= keys' /\ ReqType(keys', req'[p])
  BY DEF Full
<1>2. KeyVers(objs, req'[p]) /\ \A u \in Clients \ {p} : Mates(req'[p], req[u]) /\ Mates(req[u], req'[p])
  BY SameKeyKeeps DEF Full
<1>3. DOMAIN view' = Tabs /\ \A t \in Tabs : view'[t] = view[t] /\ (t # p \/ Shown(objs, view'[t], req'[t]))
  BY ShownQuiet DEF Full
<1> QED
  BY <1>1, <1>2, <1>3, ReqStep

(* A handler answers with a status: nothing but a refusal needs no more. *)
LEMMA AnswerStep ==
    ASSUME Full, Inv', UNCHANGED <<objs, runs, retriesByKey, watch, log, keys, view>>, NEW p \in Clients,
           NEW st \in {400, 404, 409, 412, 428}, req' = Answer(p, st), req[p].kind # "none"
    PROVE  Full'
<1> DEFINE q == req[p]
           e == [q EXCEPT !.phase = "answered", !.status = st]
<1>1. DOMAIN req = Clients /\ ReqType(keys, q) /\ ReqDocs(objs, q) /\ ReqRuns(runs, retriesByKey, q)
  BY DEF Full, Inv, ReqInv
<1>2. OnlyReq(p) /\ req'[p] = e
  BY <1>1 DEF Answer, OnlyReq
<1>3. /\ DOMAIN e = Fields /\ e.phase = "answered" /\ e.status = st
      /\ \A f \in Fields \ {"phase", "status"} : e[f] = q[f]
  BY <1>1 DEF ReqType, Fields
<1>4. /\ e.kind = q.kind /\ e.key = q.key /\ e.body = q.body /\ e.ifMatch = q.ifMatch /\ e.source = q.source
      /\ e.obj = q.obj /\ e.gen = q.gen
  BY <1>3 DEF Fields
<1> HIDE DEF e, q
<1>5. ReqType(keys, e)
  BY <1>1, <1>3, <1>4 DEF ReqType, Statuses, Phases, Told, q
<1>6. ReqDocs(objs, e) /\ ReqRuns(runs, retriesByKey, e)
  BY <1>1, <1>3, <1>4 DEF ReqDocs, ReqRuns
<1>7. SameKey(q, e)
  BY <1>4 DEF SameKey
<1> QED
  BY <1>2, <1>3, <1>5, <1>6, <1>7, HandlerStep DEF q

LEMMA StateForFull ==
    ASSUME Full, Inv', NEW p \in Clients, UNCHANGED clicks, stateFor(p)
    PROVE  Full'
<1> DEFINE q == req[p]
           e == req'[p]
<1>1. DOMAIN req = Clients /\ ReqType(keys, q) /\ ReqDocs(objs, q) /\ ReqRuns(runs, retriesByKey, q)
  BY DEF Full, Inv, ReqInv
<1>2. q.phase = "enter" /\ UNCHANGED <<objs, runs, retriesByKey, watch, log, keys, view>>
  BY DEF stateFor, serverVars
<1>3. /\ OnlyReq(p)
      /\ \/ e = [q EXCEPT !.phase = "write", !.obj = store] /\ store # 0
         \/ e = [q EXCEPT !.phase = "tenant"]
  BY <1>1 DEF stateFor, To, OnlyReq
<1>4. store \in 0..Len(objs) /\ Len(objs) \in Nat
  BY StoreFacts DEF Full, Inv, StoreInv
<1> HIDE DEF e, q
<1>5. /\ DOMAIN e = Fields /\ e.phase \in {"write", "tenant"} /\ e.obj \in 0..Len(objs)
      /\ \A f \in Fields \ {"phase", "obj"} : e[f] = q[f]
  <2>1. q.obj \in 0..Len(objs)
    BY <1>1, <1>4 DEF ReqType, ReqDocs
  <2>2. CASE e = [q EXCEPT !.phase = "write", !.obj = store] /\ store # 0
    BY <1>1, <1>4, <2>2 DEF ReqType, Fields
  <2>3. CASE e = [q EXCEPT !.phase = "tenant"]
    BY <1>1, <2>1, <2>3 DEF ReqType, Fields
  <2> QED
    BY <1>3, <2>2, <2>3
<1>6. /\ e.kind = q.kind /\ e.key = q.key /\ e.body = q.body /\ e.ifMatch = q.ifMatch /\ e.source = q.source
      /\ e.gen = q.gen /\ e.status = q.status
  BY <1>5 DEF Fields
<1>7. ReqType(keys, e)
  BY <1>1, <1>2, <1>4, <1>5, <1>6 DEF ReqType, Phases, Told
<1>8. ReqDocs(objs, e) /\ ReqRuns(runs, retriesByKey, e)
  BY <1>1, <1>4, <1>5, <1>6 DEF ReqDocs, ReqRuns, Told
<1>9. SameKey(q, e)
  BY <1>6 DEF SameKey
<1> QED
  BY <1>2, <1>3, <1>5, <1>7, <1>8, <1>9, HandlerStep DEF e, q
(* A step of a handler that writes to the spec store. *)
LEMMA StoreStep ==
    ASSUME Full, Inv', Grows, NEW p \in Clients, OnlyReq(p),
           UNCHANGED <<runs, retriesByKey, watch, keys, view>>, ObjsOK(objs', keys),
           SameKey(req[p], req'[p]), ReqType(keys, req'[p]), ReqDocs(objs', req'[p]),
           ReqRuns(runs, retriesByKey, req'[p]), req'[p].phase \notin {"refetch", "fetched"},
           \A u \in Clients : KeyVers(objs', req[u]),
           \A w \in log' : w \in log \/ RunFor(retriesByKey, w)
    PROVE  Full'
<1>1. keys' \in Nat /\ keys <= keys' /\ ReqType(keys', req'[p]) /\ ObjsOK(objs', keys')
  BY DEF Full
<1>2. /\ KeyVers(objs', req'[p])
      /\ \A u \in Clients \ {p} : KeyVers(objs', req[u]) /\ Mates(req'[p], req[u]) /\ Mates(req[u], req'[p])
  BY SameKeyKeeps DEF Full
<1>3. /\ RunsOK(runs') /\ RetriesOK(retriesByKey', runs') /\ WatchOK(watch', runs') /\ Len(runs) <= Len(runs')
      /\ retriesByKey \subseteq retriesByKey' /\ ReqRuns(runs', retriesByKey', req'[p])
  BY RunFacts DEF Full
<1>4. StoreInv /\ StoreInv' /\ OsGrow(objs, objs')
  BY GrowFacts DEF Full, Inv
<1>5. /\ DOMAIN objs = 1..Len(objs) /\ DOMAIN objs' = 1..Len(objs')
      /\ \A o \in DOMAIN objs : Len(objs[o].versions) \in Nat /\ DOMAIN objs[o].versions = 1..Len(objs[o].versions)
  BY <1>4, StoreFacts, SeqFacts DEF StoreInv
<1>6. \A o \in DOMAIN objs' : /\ Len(objs'[o].versions) \in Nat /\ DOMAIN objs'[o].versions = 1..Len(objs'[o].versions)
                              /\ Len(objs'[o].versions) >= Len(SeedBodies)
  BY SeqFacts DEF ObjsOK, ObjOK, StateOK
<1>7. ASSUME NEW t \in Tabs, t = p PROVE Shown(objs', view'[t], req'[t])
  <2>1. ViewType(view[t]) /\ Shown(objs, view[t], req[t]) /\ view[t].saved \in Nat
    BY DEF Full, ViewType
  <2>2. Shown(objs', view[t], req[t])
    BY <1>4, <1>5, <1>6, <2>1, SeedLength, ShownMono
  <2> QED
    BY <1>7, <2>2, ShownQuiet
<1>8. DOMAIN view' = Tabs /\ \A t \in Tabs : view'[t] = view[t] /\ (t # p \/ Shown(objs', view'[t], req'[t]))
  BY <1>7 DEF Full
<1>9. \A w \in log' : w \in log \/ RunFor(retriesByKey', w)
  OBVIOUS
<1> QED
  BY <1>1, <1>2, <1>3, <1>8, <1>9, Frame

LEMMA SeedObj ==
    ASSUME NEW k \in Nat
    PROVE  /\ ObjOK(SeedState, k)
           /\ \A g \in DOMAIN SeedState.versions : SeedState.versions[g].key = 0 /\ SeedState.versions[g].restoreOf = 0
           /\ Len(SeedState.versions) = Len(SeedBodies)
<1> DEFINE vs == SeedState.versions
<1>1. SeedState.byKey = {} /\ DOMAIN vs = 1..Len(SeedBodies)
      /\ \A g \in DOMAIN vs : vs[g] = [body |-> SeedBodies[g], key |-> 0, restoreOf |-> 0]
  BY DEF SeedState
<1>2. IsSeq(vs) /\ StateOK(SeedState)
  BY SeedStateOK DEF StateOK
<1>3. Len(vs) \in Nat /\ DOMAIN vs = 1..Len(vs)
  BY <1>2, SeqFacts
<1>4. Len(vs) = Len(SeedBodies)
  BY <1>1, <1>3, SeedLength
<1>5. \A g \in DOMAIN vs : SeedBodies[g] \in ValidBodies
  BY <1>1, SeedLength, SpecConsoleAssumption
<1> HIDE DEF vs
<1>6. \A g \in DOMAIN vs : vs[g].key = 0 /\ vs[g].restoreOf = 0 /\ vs[g].body = SeedBodies[g]
  BY <1>1
<1>7. \A g \in DOMAIN vs : VersionOK(vs[g], g, k)
  BY <1>1, <1>4, <1>5, <1>6, SeedLength DEF VersionOK
<1> QED
  BY <1>1, <1>2, <1>4, <1>6, <1>7, SeedLength DEF ObjOK, vs

LEMMA StateForSetFull ==
    ASSUME Full, Inv', Grows, NEW p \in Clients, stateForSet(p)
    PROVE  Full'
<1> DEFINE q == req[p]
           e == [q EXCEPT !.phase = "write", !.obj = Len(objs) + 1]
           n == Len(objs) + 1
<1>1. DOMAIN req = Clients /\ ReqType(keys, q) /\ ReqDocs(objs, q) /\ ReqRuns(runs, retriesByKey, q)
      /\ IsSeq(objs) /\ keys \in Nat /\ ObjsOK(objs, keys)
  BY DEF Full, Inv, ReqInv, StoreInv
<1>2. q.phase = "tenant" /\ UNCHANGED <<runs, retriesByKey, watch, log, keys, view>>
      /\ objs' = Append(objs, SeedState)
  BY DEF stateForSet
<1>3. OnlyReq(p) /\ req'[p] = e
  BY <1>1 DEF stateForSet, OnlyReq
<1>4. /\ IsSeq(objs') /\ Len(objs') = n /\ objs'[n] = SeedState
      /\ \A o \in DOMAIN objs : o \in DOMAIN objs' /\ objs'[o] = objs[o]
  BY <1>1, <1>2, AppendFacts
<1>5. Len(objs) \in Nat /\ DOMAIN objs = 1..Len(objs) /\ DOMAIN objs' = 1..n
  BY <1>1, <1>4, SeqFacts
<1>6. \A o \in DOMAIN objs' : o = n \/ o \in DOMAIN objs
  BY <1>5
<1>7. ObjsOK(objs', keys)
  <2>1. \A o \in DOMAIN objs' : ObjOK(objs'[o], keys)
    BY <1>1, <1>4, <1>6, SeedObj DEF ObjsOK
  <2>2. OneText(objs')
    <3>1. CASE n = 1
      BY <1>1, <1>4, <3>1, SeedObj DEF OneText
    <3>2. CASE n # 1
      BY <1>4, <3>2 DEF OneText
    <3> QED
      BY <3>1, <3>2
  <2>3. OneGen(objs')
    <3>1. \A g \in DOMAIN objs'[n].versions : objs'[n].versions[g].key = 0
      BY <1>1, <1>4, SeedObj
    <3>2. OneGen(objs)
      BY <1>1 DEF ObjsOK
    <3> HIDE DEF n
    <3> QED
      BY <1>4, <1>6, <3>1, <3>2 DEF OneGen, KeyUse
  <2> QED
    BY <2>1, <2>2, <2>3 DEF ObjsOK
<1>8. ASSUME NEW u \in Clients PROVE KeyVers(objs', req[u])
  <2>1. KeyVers(objs, req[u]) /\ (req[u].kind # "none" => req[u].key # 0)
    BY DEF Full, ReqType
  <2>2. \A g \in DOMAIN objs'[n].versions : objs'[n].versions[g].key = 0
    BY <1>1, <1>4, SeedObj
  <2> QED
    BY <1>4, <1>6, <2>1, <2>2 DEF KeyVers
<1>9. /\ DOMAIN e = Fields /\ e.phase = "write" /\ e.obj = n
      /\ e.kind = q.kind /\ e.key = q.key /\ e.body = q.body /\ e.ifMatch = q.ifMatch /\ e.source = q.source
      /\ e.gen = q.gen /\ e.status = q.status
  BY <1>1 DEF ReqType, Fields
<1>10. OsGrow(objs, objs')
  BY GrowFacts DEF Full, Inv
<1>11. ReqDocs(objs', q)
  BY <1>1, <1>5, <1>10, DocsMono DEF ReqType
<1> HIDE DEF e, q, n
<1>12. n \in Nat
  BY <1>5 DEF n
<1>13. ReqType(keys, e)
  BY <1>1, <1>2, <1>9, <1>12 DEF ReqType, Phases, Told
<1>14. ReqDocs(objs', e) /\ ReqRuns(runs, retriesByKey, e)
  BY <1>4, <1>9, <1>11, <1>12 DEF ReqDocs, ReqRuns, Told
<1>15. SameKey(q, e)
  BY <1>9 DEF SameKey
<1> QED
  BY <1>2, <1>3, <1>7, <1>8, <1>9, <1>13, <1>14, <1>15, StoreStep DEF q

LEMMA RestoreFull ==
    ASSUME Full, Inv', NEW p \in Clients, restoreVersion(p)
    PROVE  Full'
<1> DEFINE q == req[p]
           o == q.obj
           g == q.source
           n == Len(objs[o].versions)
<1>1. DOMAIN req = Clients /\ ReqType(keys, q) /\ ReqDocs(objs, q) /\ ReqRuns(runs, retriesByKey, q)
      /\ keys \in Nat /\ ObjsOK(objs, keys) /\ Done(q)
  BY DEF Full, Inv, ReqInv
<1>2. /\ q.kind = "restore" /\ q.phase = "write" /\ q.body = None
      /\ UNCHANGED <<objs, runs, retriesByKey, watch, log, keys, view>>
  BY DEF restoreVersion, serverVars
<1>3. /\ o \in DOMAIN objs /\ Len(objs) \in Nat /\ DOMAIN objs = 1..Len(objs)
      /\ n \in Nat /\ DOMAIN objs[o].versions = 1..n /\ g \in Nat \ {0}
  <2>1. o \in DOMAIN objs
    BY <1>1, <1>2 DEF Done
  <2> QED
    BY <1>1, <1>2, <2>1, StoreFacts DEF Full, Inv, ReqType
<1>4. CASE req' = Answer(p, 404) \/ req' = Answer(p, 409)
  BY <1>2, <1>4, AnswerStep
<1>5. CASE g \in 1..n /\ g # n /\ req' = [req EXCEPT ![p].phase = "enter", ![p].ifMatch = n,
                                                    ![p].body = objs[o].versions[g].body]
  <2> DEFINE b == objs[o].versions[g].body
             e == [q EXCEPT !.phase = "enter", !.ifMatch = n, !.body = b]
  <2>1. b \in ValidBodies
    BY <1>1, <1>3, <1>5 DEF ObjsOK, ObjOK, VersionOK
  <2>2. b \in Body /\ b # None
    BY <2>1, SpecConsoleAssumption DEF Body
  <2>3. OnlyReq(p) /\ req'[p] = e
    BY <1>1, <1>5 DEF OnlyReq
  <2>4. Len(objs) # 0 /\ (Len(objs) = 1 => o = 1)
    BY <1>3
  <2>5. g < n
    BY <1>3, <1>5
  <2>6. Len(objs) = 1 => g \in DOMAIN objs[1].versions /\ objs[1].versions[g].body = b
    BY <1>3, <1>5, <2>4
  <2> HIDE DEF b
  <2>7. /\ DOMAIN e = Fields /\ e.phase = "enter" /\ e.obj = q.obj /\ e.ifMatch = n /\ e.body = b
        /\ e.kind = q.kind /\ e.key = q.key /\ e.source = q.source
        /\ e.gen = q.gen /\ e.status = q.status
    BY <1>1 DEF ReqType, Fields
  <2> HIDE DEF e, q, o, g, n
  <2>8. ReqType(keys, e)
    BY <1>1, <1>2, <1>3, <2>2, <2>7 DEF ReqType, Phases, Told
  <2>9. ReqDocs(objs, e) /\ ReqRuns(runs, retriesByKey, e)
    BY <1>1, <1>2, <2>4, <2>5, <2>6, <2>7 DEF ReqDocs, ReqRuns, Told, g, o
  <2>10. SameKey(q, e)
    BY <1>2, <2>7 DEF SameKey
  <2> QED
    BY <1>2, <2>3, <2>7, <2>8, <2>9, <2>10, HandlerStep DEF q
<1>6. req' = CASE g \notin 1..n -> Answer(p, 404)
               [] g = n -> Answer(p, 409)
               [] OTHER -> [req EXCEPT ![p].phase = "enter", ![p].ifMatch = n,
                                       ![p].body = objs[o].versions[g].body]
  BY DEF restoreVersion, currentGeneration
<1> QED
  <2>1. CASE g \notin 1..n \/ g = n
    <3> DEFINE next == [req EXCEPT ![p].phase = "enter", ![p].ifMatch = n,
                                   ![p].body = objs[o].versions[g].body]
    <3>1. req' = CASE g \notin 1..n -> Answer(p, 404) [] g = n -> Answer(p, 409) [] OTHER -> next
      BY <1>6
    <3> HIDE DEF next, g, n
    <3>2. req' = Answer(p, 404) \/ req' = Answer(p, 409)
      BY <1>3, <2>1, <3>1
    <3> QED
      BY <1>4, <3>2
  <2>2. CASE g \in 1..n /\ g # n
    BY <1>5, <1>6, <2>2
  <2> QED
    BY <2>1, <2>2
LEMMA ObjsExcept ==
    ASSUME IsSeq(objs), NEW o \in DOMAIN objs, NEW x, objs' = [objs EXCEPT ![o] = x]
    PROVE  IsSeq(objs') /\ DOMAIN objs' = DOMAIN objs /\ objs'[o] = x /\ \A j \in DOMAIN objs \ {o} : objs'[j] = objs[j]
BY ExceptFacts

(* saveSpec appends: the version is new under its key, or the second of a     *)
(* restore delivered twice.                                                   *)
LEMMA AppendFull ==
    ASSUME Full, Inv', Grows, NEW p \in Clients, req[p].phase = "write", req[p].body # None,
           GenerationMatches(p), Validates(p),
           objs' = [objs EXCEPT ![req[p].obj].versions =
                       AppendVersion(@, [body |-> req[p].body, key |-> req[p].key, restoreOf |-> req[p].source])],
           req' = [req EXCEPT ![p].phase = "list", ![p].gen = currentGeneration(req[p].obj) + 1],
           UNCHANGED <<runs, retriesByKey, watch, log, keys, view>>
    PROVE  Full'
<1> DEFINE q == req[p]
           o == q.obj
           old == objs[o].versions
           n == Len(old)
           v == [body |-> q.body, key |-> q.key, restoreOf |-> q.source]
           new == Append(old, v)
           e == [q EXCEPT !.phase = "list", !.gen = n + 1]
<1>1. DOMAIN req = Clients /\ ReqType(keys, q) /\ ReqDocs(objs, q) /\ ReqRuns(runs, retriesByKey, q)
      /\ keys \in Nat /\ ObjsOK(objs, keys) /\ Done(q) /\ IsSeq(objs) /\ KeyVers(objs, q)
  BY DEF Full, Inv, ReqInv, StoreInv
<1>2. /\ o \in DOMAIN objs /\ Len(objs) \in Nat /\ DOMAIN objs = 1..Len(objs)
      /\ IsSeq(old) /\ n \in Nat /\ DOMAIN old = 1..n
  <2>1. o \in DOMAIN objs
    BY <1>1 DEF Done
  <2> QED
    BY <2>1, StoreFacts DEF Full, Inv
<1>3. q.kind \in Writes /\ q.key \in 1..keys /\ q.ifMatch = n /\ q.body \in ValidBodies
      /\ (q.kind = "save" => q.source = 0) /\ (q.kind = "restore" => q.source # 0) /\ q.source \in Nat
  BY <1>1 DEF ReqType, Kinds, Writes, Told, GenerationMatches, currentGeneration, Validates
<1>4. q.kind = "restore" => q.source < n /\ (Len(objs) = 1 => q.source \in DOMAIN objs[1].versions
                                                              /\ objs[1].versions[q.source].body = q.body)
  BY <1>1, <1>3 DEF ReqDocs
<1>5. n >= Len(SeedBodies) /\ StateOK(objs[o]) /\ ObjOK(objs[o], keys)
  BY <1>1, <1>2 DEF ObjsOK, ObjOK
<1>6. OnlyReq(p) /\ req'[p] = e
  BY <1>1 DEF OnlyReq, currentGeneration
<1>7. /\ IsSeq(new) /\ Len(new) = n + 1 /\ new[n + 1] = v
      /\ \A i \in DOMAIN old : i \in DOMAIN new /\ new[i] = old[i]
  BY <1>2, AppendFacts
<1>8. DOMAIN new = 1..(n + 1)
  BY <1>7, SeqFacts
<1>9. \A i \in DOMAIN new : i = n + 1 \/ i \in DOMAIN old
  <2>1. n \in Nat /\ DOMAIN old = 1..n /\ DOMAIN new = 1..(n + 1)
    BY <1>2, <1>8
  <2> HIDE DEF new, old, n
  <2> QED
    BY <2>1
<1>10. v.body = q.body /\ v.key = q.key /\ v.restoreOf = q.source
  OBVIOUS
<1>11. v = [body |-> v.body, key |-> v.key, restoreOf |-> v.restoreOf]
  OBVIOUS
<1> DEFINE x == [objs[o] EXCEPT !.versions = new]
<1>12. objs' = [objs EXCEPT ![o] = x]
  BY <1>1, <1>2 DEF AppendVersion
<1> HIDE DEF v, new
<1>13. x = [versions |-> new, byKey |-> objs[o].byKey] /\ x.versions = new /\ x.byKey = objs[o].byKey
  <2> DEFINE s == objs[o]
  <2>1. s = [versions |-> s.versions, byKey |-> s.byKey]
    BY <1>5 DEF StateOK
  <2> HIDE DEF s
  <2>2. [s EXCEPT !.versions = new] = [versions |-> new, byKey |-> s.byKey]
    BY <2>1
  <2> QED
    BY <2>2 DEF s
<1> HIDE DEF x
<1>14. IsSeq(objs') /\ DOMAIN objs' = DOMAIN objs /\ objs'[o] = x /\ \A j \in DOMAIN objs \ {o} : objs'[j] = objs[j]
  <2> HIDE DEF o
  <2> QED
    BY <1>1, <1>2, <1>12, ObjsExcept
<1>15. Len(objs') = Len(objs)
  BY <1>2, <1>14, SeqFacts
<1> HIDE DEF e
<1>16. VersionOK(v, n + 1, keys)
  <2>1. v.restoreOf \in 0..n
    BY <1>2, <1>3, <1>4, <1>10 DEF Writes
  <2> QED
    BY <1>1, <1>2, <1>3, <1>10, <1>11, <2>1 DEF VersionOK
<1>17. ASSUME NEW u \in DOMAIN objs, NEW i \in DOMAIN objs[u].versions
       PROVE  /\ KeyUse(objs[u].versions[i], i, v, n + 1)
              /\ KeyUse(v, n + 1, objs[u].versions[i], i)
  <2> DEFINE w == objs[u].versions[i]
  <2> SUFFICES ASSUME w.key = v.key PROVE w.restoreOf = v.restoreOf /\ (v.restoreOf = 0 => i = n + 1)
    BY DEF KeyUse
  <2>1. q.kind # "none" /\ w.key = q.key
    BY <1>3, <1>10 DEF Writes
  <2>2. w.restoreOf = q.source /\ (q.kind = "save" => q.ifMatch = 0 \/ q.ifMatch = i - 1)
    BY <1>1, <2>1 DEF KeyVers
  <2>3. i \in Nat
    BY StoreFacts DEF Full, Inv
  <2>4. n # 0
    BY <1>2, <1>5, SeedLength
  <2> HIDE DEF w, n
  <2> QED
    BY <1>2, <1>3, <1>10, <2>2, <2>3, <2>4 DEF Writes
<1>18. ObjOK(x, keys)
  <2>1. StateOK(x)
    BY <1>7, <1>13 DEF StateOK
  <2>2. Len(new) >= Len(SeedBodies)
    BY <1>2, <1>5, <1>7, SeedLength
  <2>3. \A g \in DOMAIN new : VersionOK(new[g], g, keys)
    BY <1>5, <1>7, <1>9, <1>16 DEF ObjOK
  <2>4. \A f \in objs[o].byKey : f.gen \in DOMAIN new /\ new[f.gen].key = f.key
    BY <1>5, <1>7 DEF ObjOK
  <2>6. /\ Len(x.versions) >= Len(SeedBodies)
        /\ \A g \in DOMAIN x.versions : VersionOK(x.versions[g], g, keys)
        /\ \A f \in x.byKey : f.gen \in DOMAIN x.versions /\ x.versions[f.gen].key = f.key
    BY <1>13, <2>2, <2>3, <2>4
  <2> HIDE DEF o, old, n
  <2> QED
    BY <1>13, <2>1, <2>6 DEF ObjOK
<1>19. OneText(objs')
  <2> SUFFICES ASSUME Len(objs) = 1, NEW g \in DOMAIN objs'[1].versions, objs'[1].versions[g].restoreOf # 0
               PROVE  objs'[1].versions[objs'[1].versions[g].restoreOf].body = objs'[1].versions[g].body
    BY <1>15 DEF OneText
  <2>1. o = 1 /\ objs'[1].versions = new
    <3>1. o \in 1..1
      BY <1>2
    <3>2. objs'[o].versions = new
      BY <1>13, <1>14
    <3> HIDE DEF o
    <3>3. o = 1
      BY <3>1
    <3> QED
      BY <3>2, <3>3
  <2>2. CASE g = n + 1
    <3>1. q.source # 0
      BY <1>7, <1>10, <2>1, <2>2
    <3>2. q.source \in DOMAIN old /\ old[q.source].body = q.body
      BY <1>3, <1>4, <2>1, <3>1 DEF Writes
    <3> QED
      BY <1>7, <1>10, <2>1, <2>2, <3>2
  <2>3. CASE g \in DOMAIN old
    <3>1. new[g] = old[g] /\ old[g].restoreOf # 0
      BY <1>7, <2>1, <2>3
    <3>2. old[old[g].restoreOf].body = old[g].body
      BY <1>1, <2>1, <2>3, <3>1 DEF ObjsOK, OneText
    <3>3. VersionOK(old[g], g, keys)
      BY <1>5, <2>3 DEF ObjOK
    <3>4. old[g].restoreOf \in DOMAIN old
      <4>1. old[g].restoreOf \in 0..(g - 1)
        BY <3>3 DEF VersionOK
      <4>2. n \in Nat /\ DOMAIN old = 1..n /\ g \in DOMAIN old /\ old[g].restoreOf # 0
        BY <1>2, <2>3, <3>1
      <4> HIDE DEF n, old
      <4> QED
        BY <4>1, <4>2
    <3> QED
      BY <1>7, <2>1, <3>1, <3>2, <3>4
  <2> QED
    BY <1>9, <2>1, <2>2, <2>3
<1>20. ObjsOK(objs', keys)
  <2>1. ASSUME NEW u \in DOMAIN objs', NEW i \in DOMAIN objs'[u].versions
        PROVE  \/ /\ u \in DOMAIN objs /\ i \in DOMAIN objs[u].versions
                  /\ objs'[u].versions[i] = objs[u].versions[i]
               \/ u = o /\ i = n + 1 /\ objs'[u].versions[i] = v
    BY <1>7, <1>9, <1>13, <1>14
  <2>2. KeyUse(v, n + 1, v, n + 1)
    BY DEF KeyUse
  <2>3. OneGen(objs)
    BY <1>1 DEF ObjsOK
  <2>4. ASSUME NEW a \in DOMAIN objs', NEW u \in DOMAIN objs',
               NEW i \in DOMAIN objs'[a].versions, NEW j \in DOMAIN objs'[u].versions
        PROVE  KeyUse(objs'[a].versions[i], i, objs'[u].versions[j], j)
    <3> HIDE DEF o, n
    <3>1. CASE a \in DOMAIN objs /\ i \in DOMAIN objs[a].versions /\ objs'[a].versions[i] = objs[a].versions[i]
      BY <1>17, <2>1, <2>3, <3>1 DEF OneGen
    <3>2. CASE i = n + 1 /\ objs'[a].versions[i] = v
      BY <1>17, <2>1, <2>2, <3>2
    <3> QED
      BY <2>1, <3>1, <3>2
  <2> QED
    BY <1>1, <1>14, <1>18, <1>19, <2>4 DEF ObjsOK, OneGen
<1>21. ASSUME NEW u \in Clients PROVE KeyVers(objs', req[u])
  <2>1. KeyVers(objs, req[u])
    BY DEF Full
  <2>2. ASSUME req[u].kind # "none", v.key = req[u].key
        PROVE  req[u].kind \in Writes /\ v.restoreOf = req[u].source
               /\ (req[u].kind = "save" => req[u].ifMatch = 0 \/ req[u].ifMatch = n)
    <3>1. CASE u = p
      BY <1>3, <1>10, <3>1
    <3>2. CASE u # p
      <4>1. Mates(q, req[u])
        BY <3>2 DEF Full
      <4>2. q.kind # "none" /\ q.ifMatch # 0
        BY <1>3, <1>5, SeedLength DEF Writes
      <4> QED
        BY <1>3, <1>10, <2>2, <4>1, <4>2 DEF Mates
    <3> QED
      BY <3>1, <3>2
  <2>3. ASSUME NEW j \in DOMAIN objs, NEW g \in DOMAIN objs'[j].versions, req[u].kind # "none",
               objs'[j].versions[g].key = req[u].key
        PROVE  /\ req[u].kind \in Writes /\ objs'[j].versions[g].restoreOf = req[u].source
               /\ req[u].kind = "save" => req[u].ifMatch = 0 \/ req[u].ifMatch = g - 1
    <3>1. CASE j # o
      BY <1>14, <2>1, <2>3, <3>1 DEF KeyVers
    <3>2. CASE j = o /\ g \in DOMAIN old
      <4>1. objs'[j].versions[g] = objs[j].versions[g]
        BY <1>7, <1>13, <1>14, <3>2
      <4> QED
        BY <2>1, <2>3, <3>2, <4>1 DEF KeyVers
    <3>3. CASE j = o /\ g = n + 1
      <4>1. objs'[j].versions[g] = v
        <5>1. objs'[j].versions = new
          BY <1>13, <1>14, <3>3
        <5> QED
          BY <1>7, <3>3, <5>1
      <4>2. g - 1 = n
        <5>1. n \in Nat /\ g = n + 1
          BY <1>2, <3>3
        <5> HIDE DEF n
        <5> QED
          BY <5>1
      <4> QED
        BY <2>2, <2>3, <4>1, <4>2
    <3> QED
      BY <1>9, <1>13, <1>14, <2>3, <3>1, <3>2, <3>3
  <2> QED
    BY <1>14, <2>3 DEF KeyVers
<1>22. /\ DOMAIN e = Fields /\ e.phase = "list" /\ e.obj = q.obj /\ e.gen = n + 1
       /\ e.kind = q.kind /\ e.key = q.key /\ e.body = q.body /\ e.ifMatch = q.ifMatch /\ e.source = q.source
       /\ e.status = q.status
  BY <1>1 DEF ReqType, Fields, e
<1>23. ReqDocs(objs', q)
  <2>1. OsGrow(objs, objs')
    BY GrowFacts DEF Full, Inv
  <2> QED
    BY <1>1, <1>2, <2>1, DocsMono DEF ReqType
<1> HIDE DEF q, o, old, n
<1>24. ReqType(keys, e)
  BY <1>1, <1>2, <1>3, <1>22 DEF ReqType, Phases, Told, q
<1>25. ReqDocs(objs', e) /\ ReqRuns(runs, retriesByKey, e)
  BY <1>22, <1>23 DEF ReqDocs, ReqRuns, Told
<1>26. SameKey(q, e)
  BY <1>22 DEF SameKey
<1> QED
  BY <1>6, <1>20, <1>21, <1>22, <1>24, <1>25, <1>26, StoreStep DEF q

LEMMA SaveFull ==
    ASSUME Full, Inv', Grows, NEW p \in Clients, saveSpec(p)
    PROVE  Full'
<1> DEFINE q == req[p]
           replay == {f \in objs[q.obj].byKey : f.key = q.key}
<1>1. DOMAIN req = Clients /\ ReqType(keys, q) /\ ReqDocs(objs, q) /\ ReqRuns(runs, retriesByKey, q)
      /\ keys \in Nat /\ ObjsOK(objs, keys) /\ Done(q)
  BY DEF Full, Inv, ReqInv
<1>2. q.phase = "write" /\ q.body # None /\ UNCHANGED <<runs, retriesByKey, watch, log, keys, view>>
  BY DEF saveSpec
<1>3. q.obj \in DOMAIN objs /\ q.kind # "none"
  BY <1>1, <1>2 DEF Done, ReqType
<1>4. CASE replay # {}
  <2>1. PICK f \in replay :
           req' = [req EXCEPT ![p].phase = "answered", ![p].status = 202, ![p].gen = f.gen, ![p].run = f.run]
    BY <1>4 DEF saveSpec
  <2>2. UNCHANGED objs
    BY <1>4 DEF saveSpec
  <2>3. f.gen \in DOMAIN objs[q.obj].versions /\ objs[q.obj].versions[f.gen].key = q.key /\ f.gen \in Nat
    <3>1. f.gen \in DOMAIN objs[q.obj].versions /\ objs[q.obj].versions[f.gen].key = q.key
      BY <1>1, <1>3 DEF ObjsOK, ObjOK
    <3> QED
      BY <1>3, <3>1, StoreFacts DEF Full, Inv
  <2> DEFINE e == [q EXCEPT !.phase = "answered", !.status = 202, !.gen = f.gen, !.run = f.run]
  <2>4. OnlyReq(p) /\ req'[p] = e
    BY <1>1, <2>1 DEF OnlyReq
  <2>5. /\ DOMAIN e = Fields /\ e.phase = "answered" /\ e.status = 202 /\ e.gen = f.gen /\ e.obj = q.obj
        /\ e.kind = q.kind /\ e.key = q.key /\ e.body = q.body /\ e.ifMatch = q.ifMatch /\ e.source = q.source
    BY <1>1 DEF ReqType, Fields
  <2> HIDE DEF e, replay, q
  <2>6. ReqType(keys, e)
    BY <1>1, <1>2, <1>3, <2>3, <2>5 DEF ReqType, Phases, Statuses, Told
  <2>7. ReqDocs(objs, e) /\ ReqRuns(runs, retriesByKey, e)
    BY <1>1, <1>2, <1>3, <2>3, <2>5 DEF ReqDocs, ReqRuns, Told
  <2>8. SameKey(q, e)
    BY <2>5 DEF SameKey
  <2> QED
    BY <1>2, <2>2, <2>4, <2>5, <2>6, <2>7, <2>8, HandlerStep DEF q
<1>5. ASSUME NEW st \in {400, 412, 428}, UNCHANGED objs, req' = Refusal(p, st) PROVE Full'
  <2> DEFINE x == IF req[p].kind = "restore" THEN 400 ELSE st
  <2>1. req' = Answer(p, x) /\ x \in {400, 404, 409, 412, 428}
    BY <1>5 DEF Refusal
  <2> HIDE DEF x
  <2> QED
    BY <1>2, <1>3, <1>5, <2>1, AnswerStep
<1>6. CASE replay = {} /\ ~GenerationMatches(p)
  <2> DEFINE st == IF req[p].ifMatch = 0 THEN 428 ELSE 412
  <2>1. UNCHANGED objs /\ req' = Refusal(p, st)
    BY <1>6 DEF saveSpec
  <2>2. st \in {400, 412, 428}
    OBVIOUS
  <2> HIDE DEF st
  <2> QED
    BY <1>5, <2>1, <2>2
<1>7. CASE replay = {} /\ GenerationMatches(p) /\ ~Validates(p)
  BY <1>5, <1>7 DEF saveSpec
<1>8. CASE replay = {} /\ GenerationMatches(p) /\ Validates(p)
  <2>1. /\ objs' = [objs EXCEPT ![req[p].obj].versions =
                       AppendVersion(@, [body |-> req[p].body, key |-> req[p].key, restoreOf |-> req[p].source])]
        /\ req' = [req EXCEPT ![p].phase = "list", ![p].gen = currentGeneration(req[p].obj) + 1]
    BY <1>8 DEF saveSpec
  <2> QED
    BY <1>2, <1>8, <2>1, AppendFull
<1> QED
  BY <1>4, <1>6, <1>7, <1>8

LEMMA FinishFull ==
    ASSUME Full, Inv', Grows, NEW p \in Clients, saveSpecFinish(p)
    PROVE  Full'
<1> DEFINE q == req[p]
           o == q.obj
           f == [key |-> q.key, gen |-> q.gen, run |-> q.run]
           x == [objs[o] EXCEPT !.byKey = Remember(@, q)]
           e == [q EXCEPT !.phase = "answered", !.status = 202]
<1>1. DOMAIN req = Clients /\ ReqType(keys, q) /\ ReqDocs(objs, q) /\ ReqRuns(runs, retriesByKey, q)
      /\ keys \in Nat /\ ObjsOK(objs, keys) /\ Done(q) /\ IsSeq(objs)
  BY DEF Full, Inv, ReqInv, StoreInv
<1>2. /\ q.phase = "finish" /\ UNCHANGED <<runs, retriesByKey, watch, keys, view>> /\ log' = log \cup {q}
      /\ objs' = [objs EXCEPT ![o].byKey = Remember(@, q)]
  BY DEF saveSpecFinish
<1>3. q.body # None /\ Laid(q) /\ RunFor(retriesByKey, q)
  BY <1>1, <1>2 DEF Done, ReqRuns
<1>4. o \in DOMAIN objs /\ q.gen \in DOMAIN objs[o].versions /\ objs[o].versions[q.gen].key = q.key
  BY <1>3 DEF Laid
<1>5. OnlyReq(p) /\ req'[p] = e
  BY <1>1 DEF OnlyReq, saveSpecFinish, Answer
<1>6. ObjOK(objs[o], keys) /\ StateOK(objs[o])
  BY <1>1, <1>4 DEF ObjsOK, ObjOK
<1>7. objs' = [objs EXCEPT ![o] = x] /\ f.gen = q.gen /\ f.key = q.key
  BY <1>1, <1>2, <1>4
<1> HIDE DEF f
<1>8. x = [versions |-> objs[o].versions, byKey |-> Remember(objs[o].byKey, q)] /\ x.versions = objs[o].versions
      /\ x.byKey = Remember(objs[o].byKey, q)
  <2> DEFINE s == objs[o]
  <2>1. s = [versions |-> s.versions, byKey |-> s.byKey]
    BY <1>6 DEF StateOK
  <2> HIDE DEF s
  <2>2. [s EXCEPT !.byKey = Remember(@, q)] = [versions |-> s.versions, byKey |-> Remember(s.byKey, q)]
    BY <2>1
  <2> QED
    BY <2>2 DEF s
<1> HIDE DEF x
<1>9. IsSeq(objs') /\ DOMAIN objs' = DOMAIN objs /\ objs'[o] = x /\ \A j \in DOMAIN objs \ {o} : objs'[j] = objs[j]
  BY <1>1, <1>4, <1>7, ExceptFacts
<1>10. Len(objs') = Len(objs)
  BY <1>1, <1>9, SeqFacts
<1>11. \A j \in DOMAIN objs : objs'[j].versions = objs[j].versions
  BY <1>8, <1>9
<1>12. ObjOK(x, keys)
  <2>1. StateOK(x)
    BY <1>6, <1>8 DEF StateOK
  <2>2. \A d \in x.byKey : d.gen \in DOMAIN x.versions /\ x.versions[d.gen].key = d.key
    <3>1. \A d \in x.byKey : d \in objs[o].byKey \/ d = f
      BY <1>8 DEF Remember, f
    <3> QED
      BY <1>4, <1>6, <1>7, <1>8, <3>1 DEF ObjOK
  <2> QED
    BY <1>6, <1>8, <2>1, <2>2 DEF ObjOK
<1>13. OneText(objs')
  <2> SUFFICES ASSUME Len(objs) = 1 PROVE OneText(objs')
    BY <1>10 DEF OneText
  <2>1. objs'[1].versions = objs[1].versions
    BY <1>1, <1>11, SeqFacts
  <2> QED
    BY <1>1, <1>10, <2>1 DEF ObjsOK, OneText
<1>14. ObjsOK(objs', keys)
  <2>1. OneGen(objs')
    BY <1>1, <1>9, <1>11 DEF ObjsOK, OneGen
  <2> QED
    BY <1>1, <1>9, <1>12, <1>13, <2>1 DEF ObjsOK
<1>15. \A u \in Clients : KeyVers(objs', req[u])
  BY <1>9, <1>11 DEF Full, KeyVers
<1>16. /\ DOMAIN e = Fields /\ e.phase = "answered" /\ e.status = 202 /\ e.obj = q.obj /\ e.gen = q.gen
       /\ e.kind = q.kind /\ e.key = q.key /\ e.body = q.body /\ e.ifMatch = q.ifMatch /\ e.source = q.source
  BY <1>1 DEF ReqType, Fields
<1>17. ReqDocs(objs', q)
  <2>1. OsGrow(objs, objs')
    BY GrowFacts DEF Full, Inv
  <2>2. DOMAIN objs = 1..Len(objs)
    BY <1>1, SeqFacts
  <2> QED
    BY <1>1, <2>1, <2>2, DocsMono DEF ReqType
<1> HIDE DEF e
<1>18. ReqType(keys, e)
  BY <1>1, <1>2, <1>3, <1>16 DEF ReqType, Phases, Statuses, Told
<1>19. ReqDocs(objs', e) /\ ReqRuns(runs, retriesByKey, e)
  <2>1. q.obj \in DOMAIN objs' /\ q.gen \in DOMAIN objs'[q.obj].versions /\ objs'[q.obj].versions[q.gen].key = q.key
    BY <1>4, <1>9, <1>11
  <2> HIDE DEF q
  <2> QED
    BY <1>3, <1>16, <1>17, <2>1 DEF ReqDocs, ReqRuns, Told
<1>20. SameKey(q, e)
  BY <1>16 DEF SameKey
<1>21. \A w \in log' : w \in log \/ RunFor(retriesByKey, w)
  BY <1>2, <1>3
<1> QED
  BY <1>2, <1>5, <1>14, <1>15, <1>16, <1>18, <1>19, <1>20, <1>21, StoreStep

-----------------------------------------------------------------------------
(* The runs a handler enqueues. *)
LEMMA HasLeast ==
    ASSUME NEW T \in SUBSET Nat, T # {}
    PROVE  \E x \in T : \A y \in T : x <= y
<1>1. PICK x \in T : \A y \in T : ~(<<y, x>> \in OpToRel(<, Nat))
  BY NatLessThanWellFounded, WFMin, Zenon
<1>2. \A y \in T : ~(y < x)
  BY <1>1 DEF OpToRel
<1> QED
  BY <1>2

LEMMA HasGreatest ==
    ASSUME NEW n \in Nat, NEW T \in SUBSET (0..n), T # {}
    PROVE  \E x \in T : \A y \in T : y <= x
<1> DEFINE U == {n - y : y \in T}
<1>1. U \in SUBSET Nat
  <2>1. \A y \in T : n - y \in Nat
    OBVIOUS
  <2> QED
    BY <2>1
<1>2. \A y \in T : n - y \in U
  OBVIOUS
<1>3. \A u \in U : \E y \in T : u = n - y
  OBVIOUS
<1> HIDE DEF U
<1>4. PICK u \in U : \A v \in U : u <= v
  BY <1>1, <1>2, HasLeast, Zenon
<1>5. PICK x \in T : u = n - x
  BY <1>3
<1>6. \A y \in T : n - x <= n - y
  BY <1>2, <1>4, <1>5
<1> QED
  BY <1>6

LEMMA ListFull ==
    ASSUME Full, Inv', NEW p \in Clients, listRuns(p)
    PROVE  Full'
<1> DEFINE q == req[p]
           k == IF Settled = {} THEN 0 ELSE CHOOSE r \in Settled : \A z \in Settled : z <= r
           e == [q EXCEPT !.phase = "retry", !.pick = k]
<1>1. DOMAIN req = Clients /\ ReqType(keys, q) /\ ReqDocs(objs, q) /\ ReqRuns(runs, retriesByKey, q)
      /\ Len(runs) \in Nat /\ DOMAIN runs = 1..Len(runs)
  BY RunFacts DEF Full, Inv, ReqInv
<1>2. q.phase = "list" /\ UNCHANGED <<objs, runs, retriesByKey, watch, log, keys, view>>
  BY DEF listRuns, serverVars
<1>3. k \in 0..Len(runs)
  <2>1. CASE Settled = {}
    BY <1>1, <2>1
  <2>2. CASE Settled # {}
    <3>1. Settled \in SUBSET (0..Len(runs))
      BY <1>1 DEF Settled
    <3>2. \E x \in Settled : \A y \in Settled : y <= x
      BY <1>1, <2>2, <3>1, HasGreatest
    <3> QED
      BY <2>2, <3>1, <3>2
  <2> QED
    BY <2>1, <2>2
<1>4. req' = [req EXCEPT ![p].phase = "retry", ![p].pick = k]
  BY DEF listRuns
<1> HIDE DEF k
<1>5. OnlyReq(p) /\ req'[p] = e
  BY <1>1, <1>4 DEF OnlyReq
<1>6. /\ DOMAIN e = Fields /\ e.phase = "retry" /\ e.pick = k /\ e.obj = q.obj /\ e.gen = q.gen
      /\ e.kind = q.kind /\ e.key = q.key /\ e.body = q.body /\ e.ifMatch = q.ifMatch /\ e.source = q.source
      /\ e.status = q.status
  BY <1>1 DEF ReqType, Fields
<1> HIDE DEF e, q
<1>7. ReqType(keys, e)
  BY <1>1, <1>2, <1>6 DEF ReqType, Phases, Told
<1>8. ReqDocs(objs, e) /\ ReqRuns(runs, retriesByKey, e)
  BY <1>1, <1>3, <1>6 DEF ReqDocs, ReqRuns, Told
<1>9. SameKey(q, e)
  BY <1>6 DEF SameKey
<1> QED
  BY <1>2, <1>5, <1>6, <1>7, <1>8, <1>9, HandlerStep DEF q

(* The run is known: the handler goes on to remember the key, or answers. *)
LEMMA EnqueueStep ==
    ASSUME Full, Inv', NEW p \in Clients, req[p].phase = "retry", NEW run, req' = Enqueued(p, run),
           UNCHANGED <<objs, watch, log, keys, view>>,
           RunsOK(runs'), RetriesOK(retriesByKey', runs'), WatchOK(watch', runs'), Len(runs) <= Len(runs'),
           retriesByKey \subseteq retriesByKey',
           req[p].body # None => run = -req[p].key \/ [key |-> <<req[p].key, TRUE>>, run |-> run] \in retriesByKey',
           req[p].body = None => run = -req[p].key \/ run \in DOMAIN runs'
    PROVE  Full'
<1> DEFINE q == req[p]
           ph == IF q.body = None THEN "answered" ELSE "finish"
           e == [q EXCEPT !.run = run, !.phase = ph, !.status = 202]
<1>1. DOMAIN req = Clients /\ ReqType(keys, q) /\ ReqDocs(objs, q) /\ KeyVers(objs, q) /\ keys \in Nat
  BY DEF Full, Inv, ReqInv
<1>2. OnlyReq(p) /\ req'[p] = e
  BY <1>1 DEF OnlyReq, Enqueued
<1>3. ph \in {"answered", "finish"} /\ (q.body = None <=> ph = "answered")
  OBVIOUS
<1> HIDE DEF ph
<1>4. /\ DOMAIN e = Fields /\ e.phase = ph /\ e.run = run /\ e.status = 202 /\ e.obj = q.obj /\ e.gen = q.gen
      /\ e.kind = q.kind /\ e.key = q.key /\ e.body = q.body /\ e.ifMatch = q.ifMatch /\ e.source = q.source
  BY <1>1 DEF ReqType, Fields
<1>5. q.kind # "none" /\ q.key \in Nat \ {0}
  BY <1>1 DEF ReqType
<1>6. q.kind \in Writes => q.body # None
  BY <1>1 DEF ReqType
<1>7. q.body # None => run = -q.key \/ [key |-> <<q.key, TRUE>>, run |-> run] \in retriesByKey'
  OBVIOUS
<1>8. q.body = None => run = -q.key \/ run \in DOMAIN runs'
  OBVIOUS
<1>9. SameKey(q, e)
  BY <1>4 DEF SameKey
<1>10. ReqType(keys, e)
  <2> HIDE DEF e, q
  <2> QED
    BY <1>1, <1>3, <1>4, <1>5, <1>6 DEF ReqType, Phases, Statuses, Told, Writes, Kinds
<1>11. ReqDocs(objs, e) /\ ReqRuns(runs', retriesByKey', e)
  <2> HIDE DEF e, q
  <2> QED
    BY <1>1, <1>3, <1>4, <1>5, <1>7, <1>8 DEF ReqDocs, ReqRuns, RunFor, Told
<1>12. KeyVers(objs, e) /\ \A u \in Clients \ {p} : Mates(e, req[u]) /\ Mates(req[u], e)
  BY <1>9, SameKeyKeeps DEF Full
<1>13. \A t \in Tabs : view'[t] = view[t] /\ (t # p \/ Shown(objs', view'[t], req'[t]))
  <2>1. e.phase \notin {"refetch", "fetched"}
    BY <1>3, <1>4
  <2>2. \A t \in Tabs : Shown(objs, view[t], req[t])
    BY DEF Full
  <2> HIDE DEF e
  <2> QED
    BY <1>2, <2>1, <2>2, ShownQuiet
<1>14. Grows
  BY DEF Grows
<1> HIDE DEF e, q
<1>15. /\ keys' \in Nat /\ keys <= keys' /\ ObjsOK(objs', keys') /\ DOMAIN view' = Tabs
       /\ \A u \in Clients \ {p} : KeyVers(objs', req[u])
       /\ \A w \in log' : w \in log \/ RunFor(retriesByKey', w)
  BY DEF Full
<1> QED
  BY <1>2, <1>10, <1>11, <1>12, <1>13, <1>14, <1>15, Frame

LEMMA StepFields ==
    \A c, b : [changes |-> c, finish |-> b].changes = c /\ [changes |-> c, finish |-> b].finish = b
OBVIOUS

(* The script of a retried run, and how far each poll has come. *)
LEMMA ScriptSteps ==
    /\ retryScript \in Seq(LiveStep) /\ Len(retryScript) = Changes + 2
    /\ \A i \in 1..(Changes + 2) :
          /\ retryScript[i].finish = (i = Changes + 2)
          /\ retryScript[i].changes = IF i \in 2..(Changes + 1) THEN AfterChange(i) ELSE <<>>
<1>1. Changes \in Nat
  BY SpecConsoleAssumption
<1> DEFINE E(i) == [changes |-> IF i \in 2..(Changes + 1) THEN AfterChange(i) ELSE <<>>, finish |-> i = Changes + 2]
           n == Changes + 2
<1>2. retryScript = [i \in 1..n |-> E(i)]
  BY DEF retryScript
<1>3. ASSUME NEW i \in 1..n PROVE E(i) \in LiveStep
  <2>1. AfterChange(i) \in [({i - 1, i} \cap 1..Changes) -> ChangeOutcome]
    BY DEF AfterChange, ChangeOutcome
  <2>2. <<>> \in [({} \cap (1..Changes)) -> ChangeOutcome]
    OBVIOUS
  <2> DEFINE F == UNION {[C -> ChangeOutcome] : C \in SUBSET (1..Changes)}
  <2>3. AfterChange(i) \in F /\ <<>> \in F
    BY <2>1, <2>2
  <2> HIDE DEF F
  <2>4. \A f \in F : \A b \in BOOLEAN : [changes |-> f, finish |-> b] \in LiveStep
    BY DEF LiveStep, F
  <2>5. (i = Changes + 2) \in BOOLEAN
    OBVIOUS
  <2> QED
    BY <2>3, <2>4, <2>5
<1>4. n \in Nat
  BY <1>1
<1>5. \A i \in 1..n : retryScript[i] = E(i)
  BY <1>2
<1> HIDE DEF E, n
<1>6. retryScript \in [1..n -> LiveStep]
  BY <1>2, <1>3
<1>7. retryScript \in Seq(LiveStep) /\ Len(retryScript) = n
  BY <1>4, <1>6
<1>8. ASSUME NEW i \in 1..n
      PROVE  /\ retryScript[i].finish = (i = Changes + 2)
             /\ retryScript[i].changes = IF i \in 2..(Changes + 1) THEN AfterChange(i) ELSE <<>>
  <2> DEFINE c == IF i \in 2..(Changes + 1) THEN AfterChange(i) ELSE <<>>
             b == (i = Changes + 2)
  <2>1. E(i) = [changes |-> c, finish |-> b]
    BY DEF E
  <2> HIDE DEF c, b
  <2>2. E(i).changes = c /\ E(i).finish = b
    BY <2>1, StepFields, Zenon
  <2>3. retryScript[i].changes = c /\ retryScript[i].finish = b
    BY <1>5, <2>2, Zenon
  <2> QED
    BY <2>3, Zenon DEF c, b
<1> QED
  BY <1>7, <1>8 DEF n

LEMMA NewRun ==
    ASSUME NEW r \in Nat, NEW run,
           run = [finished |-> FALSE, step |-> 0, script |-> retryScript, retryOf |-> r,
                  changes |-> [c \in 1..Changes |-> IF c = 1 THEN "applying" ELSE "pending"]]
    PROVE  run \in RunDetail /\ run.step = 0 /\ run.retryOf = r /\ Replays(run) /\ run.script = retryScript
<1> DEFINE ch == [c \in 1..Changes |-> IF c = 1 THEN "applying" ELSE "pending"]
<1>1. Changes \in Nat /\ retryScript \in Seq(LiveStep)
  BY ScriptSteps, SpecConsoleAssumption
<1>2. ch \in [1..Changes -> ChangeOutcome] /\ \A c \in 1..Changes : ch[c] = IF c = 1 THEN "applying" ELSE "pending"
  BY DEF ChangeOutcome
<1>3. \A c \in 1..Changes : ch[c] = Stage(c, 0)
  BY <1>1, <1>2 DEF Stage
<1> HIDE DEF ch
<1>4. run = [finished |-> FALSE, step |-> 0, script |-> retryScript, retryOf |-> r, changes |-> ch]
  BY DEF ch
<1>5. run.finished = FALSE /\ run.step = 0 /\ run.script = retryScript /\ run.retryOf = r /\ run.changes = ch
  BY <1>4
<1>6. run \in RunDetail
  BY <1>1, <1>2, <1>4 DEF RunDetail
<1>7. Replays(run)
  BY <1>1, <1>3, <1>5 DEF Replays
<1> QED
  BY <1>5, <1>6, <1>7

LEMMA AddRun ==
    ASSUME NEW rs, RunsOK(rs), NEW r \in DOMAIN rs, rs[r].finished, NEW run, run \in RunDetail, run.step = 0,
           run.retryOf = r, Replays(run), run.script = retryScript
    PROVE  /\ RunsOK(Append(rs, run)) /\ Len(Append(rs, run)) = Len(rs) + 1
           /\ \A i \in DOMAIN rs : i \in DOMAIN Append(rs, run)
           /\ Len(rs) + 1 \in DOMAIN Append(rs, run)
<1> DEFINE ns == Append(rs, run)
           n == Len(rs)
<1>1. IsSeq(rs) /\ n \in Nat /\ DOMAIN rs = 1..n
  BY RunFacts DEF RunsOK
<1>2. IsSeq(ns) /\ Len(ns) = n + 1 /\ ns[n + 1] = run /\ \A i \in DOMAIN rs : i \in DOMAIN ns /\ ns[i] = rs[i]
  BY <1>1, AppendFacts
<1>3. DOMAIN ns = 1..(n + 1)
  BY <1>2, SeqFacts
<1> HIDE DEF ns
<1>4. ASSUME NEW i \in DOMAIN rs PROVE RunOK(ns, i)
  <2>1. ns[i] = rs[i] /\ RunOK(rs, i)
    BY <1>2 DEF RunsOK
  <2>2. CASE rs[i].retryOf = 0
    BY <2>1, <2>2 DEF RunOK
  <2>3. CASE rs[i].retryOf # 0
    <3>1. rs[i].retryOf \in DOMAIN rs
      BY <1>1, <2>1, <2>3 DEF RunOK
    <3> QED
      BY <1>2, <2>1, <3>1 DEF RunOK
  <2> QED
    BY <2>2, <2>3
<1>5. RunOK(ns, n + 1)
  <2>1. Len(run.script) \in Nat /\ r \in 0..n /\ ns[r] = rs[r]
    BY <1>1, <1>2, ScriptSteps, SpecConsoleAssumption
  <2>2. (n + 1) - 1 = n /\ 0 <= Len(run.script)
    BY <1>1, <2>1
  <2> HIDE DEF n
  <2> QED
    BY <1>2, <2>1, <2>2 DEF RunOK
<1>6. \A i \in DOMAIN ns : i \in DOMAIN rs \/ i = n + 1
  <2> HIDE DEF n
  <2> QED
    BY <1>1, <1>3
<1>7. RunsOK(ns)
  BY <1>2, <1>4, <1>5, <1>6 DEF RunsOK
<1>8. n + 1 \in DOMAIN ns
  <2> HIDE DEF n
  <2> QED
    BY <1>1, <1>3
<1> QED
  BY <1>2, <1>7, <1>8 DEF ns

LEMMA RetryFull ==
    ASSUME Full, Inv', NEW p \in Clients, retryRun(p)
    PROVE  Full'
<1> DEFINE q == req[p]
           key == RetryKey(p)
           replay == ReplayOf(p, key)
           r == q.pick
           n == Len(runs)
<1>1. /\ DOMAIN req = Clients /\ ReqType(keys, q) /\ ReqRuns(runs, retriesByKey, q)
      /\ RunsOK(runs) /\ RetriesOK(retriesByKey, runs) /\ WatchOK(watch, runs)
  BY DEF Full, Inv, ReqInv
<1>2. q.phase = "retry" /\ UNCHANGED <<objs, watch, log, keys, view>>
  BY DEF retryRun
<1>3. n \in Nat /\ DOMAIN runs = 1..n /\ r \in 0..n /\ q.kind # "none" /\ q.key \in Nat
  BY <1>1, <1>2, RunFacts DEF ReqRuns, ReqType
<1>4. q.body # None => key = <<q.key, TRUE>>
  <2>1. q.body # None => q.kind \in {"save", "restore"}
    BY <1>1, <1>3 DEF ReqType, Kinds
  <2> QED
    BY <2>1 DEF RetryKey
<1> HIDE DEF key
<1>5. CASE replay # {} /\ UNCHANGED <<runs, retriesByKey>> /\ \E e \in replay : req' = Enqueued(p, e.run)
  <2>1. PICK e \in replay : req' = Enqueued(p, e.run)
    BY <1>5
  <2>2. e \in retriesByKey /\ e.key = key
    BY DEF ReplayOf
  <2>3. e = [key |-> e.key, run |-> e.run] /\ e.run \in DOMAIN runs
    BY <1>1, <2>2 DEF RetriesOK
  <2>4. q.body # None => [key |-> <<q.key, TRUE>>, run |-> e.run] \in retriesByKey
    BY <1>4, <2>2, <2>3
  <2> DEFINE x == e.run
  <2>5. /\ req' = Enqueued(p, x) /\ (q.body = None => x \in DOMAIN runs')
        /\ (q.body # None => [key |-> <<q.key, TRUE>>, run |-> x] \in retriesByKey')
    BY <1>5, <2>1, <2>3, <2>4
  <2>6. /\ RunsOK(runs') /\ RetriesOK(retriesByKey', runs') /\ WatchOK(watch', runs') /\ Len(runs) <= Len(runs')
        /\ retriesByKey \subseteq retriesByKey'
    BY <1>1, <1>2, <1>3, <1>5
  <2> HIDE DEF x
  <2> QED
    BY <1>2, <2>5, <2>6, EnqueueStep
<1>6. CASE UNCHANGED <<runs, retriesByKey>> /\ (req' = Answer(p, 404) \/ req' = Answer(p, 409))
  BY <1>2, <1>3, <1>6, AnswerStep
<1>7. CASE UNCHANGED <<runs, retriesByKey>> /\ req' = Enqueued(p, -q.key)
  <2>1. Len(runs) <= Len(runs')
    BY <1>3, <1>7
  <2> QED
    BY <1>1, <1>2, <1>7, <2>1, EnqueueStep
<1> DEFINE run == [finished |-> FALSE, step |-> 0, script |-> retryScript, retryOf |-> r,
                   changes |-> [c \in 1..Changes |-> IF c = 1 THEN "applying" ELSE "pending"]]
           f == [key |-> key, run |-> n + 1]
<1>8. CASE /\ r # 0 /\ runs[r].finished /\ runs' = Append(runs, run)
           /\ retriesByKey' = retriesByKey \cup {f} /\ req' = Enqueued(p, n + 1)
  <2>1. r \in Nat /\ r \in DOMAIN runs
    BY <1>3, <1>8
  <2>2. run \in RunDetail /\ run.step = 0 /\ run.retryOf = r /\ Replays(run) /\ run.script = retryScript
    BY <2>1, NewRun
  <2> HIDE DEF run
  <2>3. /\ RunsOK(runs') /\ Len(runs') = n + 1 /\ n + 1 \in DOMAIN runs' /\ \A i \in DOMAIN runs : i \in DOMAIN runs'
    BY <1>1, <1>8, <2>1, <2>2, AddRun
  <2>4. f = [key |-> f.key, run |-> f.run] /\ f.run = n + 1 /\ f.key = key
    OBVIOUS
  <2> HIDE DEF f
  <2>5. \A e \in retriesByKey : e.run # f.run
    BY <1>1, <1>3, <2>4 DEF RetriesOK
  <2>6. RetriesOK(retriesByKey', runs')
    BY <1>1, <1>8, <2>3, <2>4, <2>5 DEF RetriesOK
  <2>7. WatchOK(watch', runs')
    BY <1>1, <1>2, <2>3 DEF WatchOK
  <2>8. q.body # None => [key |-> <<q.key, TRUE>>, run |-> n + 1] \in retriesByKey'
    BY <1>4, <1>8 DEF f
  <2>9. retriesByKey \subseteq retriesByKey' /\ Len(runs) <= Len(runs')
    BY <1>3, <1>8, <2>3
  <2> QED
    BY <1>2, <1>8, <2>3, <2>6, <2>7, <2>8, <2>9, EnqueueStep
<1>9. CASE replay # {}
  <2>1. UNCHANGED <<runs, retriesByKey>> /\ \E e \in replay : req' = Enqueued(p, e.run)
    BY <1>9 DEF retryRun, key
  <2> QED
    BY <1>5, <1>9, <2>1
<1>10. CASE replay = {} /\ (IF r = 0 THEN TRUE ELSE InFlight(r))
  <2> DEFINE st == IF r = 0 THEN 404 ELSE 409
  <2>1. UNCHANGED <<runs, retriesByKey>> /\ req' = IF q.kind = "retry" THEN Answer(p, st) ELSE Enqueued(p, -q.key)
    BY <1>10 DEF retryRun, key
  <2>2. st = 404 \/ st = 409
    OBVIOUS
  <2> QED
    BY <1>6, <1>7, <2>1, <2>2
<1>11. CASE replay = {} /\ ~(IF r = 0 THEN TRUE ELSE InFlight(r))
  <2>1. r # 0 /\ runs[r].finished
    BY <1>11 DEF InFlight
  <2>2. runs' = Append(runs, run) /\ retriesByKey' = retriesByKey \cup {f} /\ req' = Enqueued(p, n + 1)
    BY <1>11 DEF retryRun, key
  <2> QED
    BY <1>8, <2>1, <2>2
<1> QED
  BY <1>9, <1>10, <1>11

LEMMA ServerFull ==
    ASSUME Full, UNCHANGED clicks, NEW p \in Clients, Server(p)
    PROVE  Full'
<1>1. Inv' /\ Grows
  BY ServerKeeps DEF Full
<1> QED
  BY <1>1, StateForFull, StateForSetFull, RestoreFull, SaveFull, ListFull, RetryFull, FinishFull DEF Server
-----------------------------------------------------------------------------
(* A page reads a run. *)

LEMMA Poll ==
    ASSUME NEW run, run \in RunDetail, run.step <= Len(run.script), ~run.finished
    PROVE  LET a == advanceLive(run)
           IN  /\ a \in RunDetail /\ a.step <= Len(a.script) /\ a.retryOf = run.retryOf
               /\ Replays(run) => Replays(a)
<1> DEFINE a == advanceLive(run)
           k == run.step
           s == run.script[k + 1]
           ch == [c \in 1..Changes |-> IF c \in DOMAIN s.changes THEN s.changes[c] ELSE run.changes[c]]
<1>1. /\ run = [finished |-> run.finished, step |-> run.step, script |-> run.script, retryOf |-> run.retryOf,
                changes |-> run.changes]
      /\ k \in Nat /\ run.script \in Seq(LiveStep) /\ run.retryOf \in Nat /\ run.finished \in BOOLEAN
      /\ run.changes \in [1..Changes -> ChangeOutcome] /\ Len(run.script) \in Nat
  BY DEF RunDetail
<1>2. CASE k = Len(run.script)
  BY <1>1, <1>2 DEF advanceLive
<1>3. CASE k # Len(run.script)
  <2>1. k + 1 \in 1..Len(run.script)
    BY <1>1, <1>3
  <2>2. s \in LiveStep
    BY <1>1, <2>1
  <2> HIDE DEF s
  <2>3. PICK C \in SUBSET (1..Changes) : s.changes \in [C -> ChangeOutcome]
    BY <2>2 DEF LiveStep
  <2>4. s.finish \in BOOLEAN
    BY <2>2 DEF LiveStep
  <2>5. ch \in [1..Changes -> ChangeOutcome]
        /\ \A c \in 1..Changes : ch[c] = IF c \in DOMAIN s.changes THEN s.changes[c] ELSE run.changes[c]
    BY <1>1, <2>3
  <2>6. a = [run EXCEPT !.step = k + 1, !.finished = s.finish, !.changes = ch]
    BY <1>3 DEF advanceLive, s
  <2> HIDE DEF ch, a
  <2>7. a = [finished |-> s.finish, step |-> k + 1, script |-> run.script, retryOf |-> run.retryOf, changes |-> ch]
    <3> DEFINE fin == s.finish
    <3>1. a = [run EXCEPT !.step = k + 1, !.finished = fin, !.changes = ch]
      BY <2>6
    <3> HIDE DEF fin, k
    <3>2. a = [finished |-> fin, step |-> k + 1, script |-> run.script, retryOf |-> run.retryOf, changes |-> ch]
      BY <1>1, <3>1
    <3> QED
      BY <3>2 DEF fin, k
  <2>8. /\ a.finished = s.finish /\ a.step = k + 1 /\ a.script = run.script /\ a.retryOf = run.retryOf
        /\ a.changes = ch
    BY <2>7
  <2>9. a \in RunDetail /\ a.step <= Len(a.script)
    BY <1>1, <2>1, <2>4, <2>5, <2>7, <2>8 DEF RunDetail
  <2>10. ASSUME Replays(run) PROVE Replays(a)
    <3>1. /\ run.script = retryScript /\ k \in 0..(Changes + 2) /\ Len(retryScript) = Changes + 2 /\ Changes \in Nat
          /\ k # Changes + 2 /\ \A c \in 1..Changes : run.changes[c] = Stage(c, k)
      BY <1>1, <1>3, <2>10, ScriptSteps, SpecConsoleAssumption DEF Replays
    <3>2. k + 1 \in 1..(Changes + 2)
      BY <3>1
    <3>3. s.finish = (k + 1 = Changes + 2)
      BY <3>1, <3>2, ScriptSteps DEF s
    <3>4. s.changes = IF k + 1 \in 2..(Changes + 1) THEN AfterChange(k + 1) ELSE <<>>
      BY <3>1, <3>2, ScriptSteps DEF s
    <3>5. ASSUME NEW c \in 1..Changes PROVE ch[c] = Stage(c, k + 1)
      <4>1. CASE k + 1 \in 2..(Changes + 1)
        <5>1. /\ DOMAIN s.changes = {k, k + 1} \cap 1..Changes
              /\ \A x \in {k, k + 1} \cap 1..Changes : s.changes[x] = IF x = k THEN "applied" ELSE "applying"
          BY <3>1, <3>4, <4>1 DEF AfterChange
        <5>2. CASE c = k
          BY <2>5, <3>1, <3>5, <5>1, <5>2 DEF Stage
        <5>3. CASE c = k + 1
          BY <2>5, <3>1, <3>5, <5>1, <5>3 DEF Stage
        <5>4. CASE c # k /\ c # k + 1
          <6>1. ch[c] = Stage(c, k)
            BY <2>5, <3>1, <5>1, <5>4
          <6> HIDE DEF k
          <6> QED
            BY <3>1, <4>1, <5>4, <6>1 DEF Stage
        <5> QED
          BY <5>2, <5>3, <5>4
      <4>2. CASE k + 1 \notin 2..(Changes + 1)
        <5>1. DOMAIN s.changes = {}
          BY <3>4, <4>2
        <5>2. ch[c] = Stage(c, k)
          BY <2>5, <3>1, <5>1
        <5>3. k = 0 \/ k = Changes + 1
          BY <3>1, <4>2
        <5> HIDE DEF k
        <5> QED
          BY <3>1, <5>2, <5>3 DEF Stage
      <4> QED
        BY <4>1, <4>2
    <3> HIDE DEF k
    <3>6. a.finished <=> a.step = Changes + 2
      BY <2>8, <3>3
    <3> QED
      BY <2>8, <3>1, <3>2, <3>5, <3>6 DEF Replays
  <2> QED
    BY <2>8, <2>9, <2>10 DEF a
<1> QED
  BY <1>2, <1>3

(* A step that moves no request and no document. *)
LEMMA WatchStep ==
    ASSUME Full, Inv', UNCHANGED <<objs, retriesByKey, log, keys, req, view>>,
           RunsOK(runs'), Len(runs') = Len(runs), WatchOK(watch', runs')
    PROVE  Full'
<1>1. Len(runs) \in Nat /\ DOMAIN runs = 1..Len(runs) /\ DOMAIN runs' = 1..Len(runs')
  BY RunFacts DEF Full
<1>2. DOMAIN runs' = DOMAIN runs
  BY <1>1
<1>3. RetriesOK(retriesByKey', runs')
  BY <1>2 DEF Full, RetriesOK
<1>4. \A p \in Clients : ReqRuns(runs', retriesByKey', req'[p])
  BY <1>2 DEF Full, ReqRuns
<1>5. \A w \in log' : RunFor(retriesByKey', w)
  BY DEF Full
<1> QED
  BY <1>3, <1>4, <1>5 DEF Full

LEMMA GetRunFull ==
    ASSUME Full, Inv', NEW w \in watch, getRun(w)
    PROVE  Full'
<1> DEFINE i == w.run
           a == advanceLive(runs[i])
           x == [w EXCEPT !.seen = runs'[i].finished]
<1>1. RunsOK(runs) /\ WatchOK(watch, runs) /\ IsSeq(runs) /\ Len(runs) \in Nat /\ DOMAIN runs = 1..Len(runs)
  BY RunFacts DEF Full, RunsOK
<1>2. w = [run |-> w.run, seen |-> w.seen] /\ i \in DOMAIN runs
  BY <1>1 DEF WatchOK
<1>3. /\ UNCHANGED <<objs, retriesByKey, log, keys, req, view>> /\ watch' = (watch \ {w}) \cup {x}
      /\ runs' = IF runs[i].finished THEN runs ELSE [runs EXCEPT ![i] = a]
  BY DEF getRun
<1>4. RunsOK(runs') /\ Len(runs') = Len(runs) /\ DOMAIN runs' = DOMAIN runs /\ runs'[i].finished \in BOOLEAN
  <2>1. RunOK(runs, i)
    BY <1>1, <1>2 DEF RunsOK
  <2>2. CASE runs[i].finished
    BY <1>1, <1>3, <2>1, <2>2 DEF RunOK, RunDetail
  <2>3. CASE ~runs[i].finished
    <3>1. /\ a \in RunDetail /\ a.step <= Len(a.script) /\ a.retryOf = runs[i].retryOf
          /\ Replays(runs[i]) => Replays(a)
      BY <2>1, <2>3, Poll DEF RunOK
    <3> HIDE DEF a
    <3>2. runs' = [runs EXCEPT ![i] = a]
      BY <1>3, <2>3
    <3>3. IsSeq(runs') /\ DOMAIN runs' = DOMAIN runs /\ runs'[i] = a /\ \A j \in DOMAIN runs \ {i} : runs'[j] = runs[j]
      BY <1>1, <1>2, <3>2, ExceptFacts
    <3>4. Len(runs') = Len(runs)
      BY <1>1, <3>3, SeqFacts
    <3>5. ASSUME NEW j \in DOMAIN runs PROVE RunOK(runs', j)
      <4>1. RunOK(runs, j)
        BY <1>1 DEF RunsOK
      <4>2. runs'[j] \in RunDetail /\ runs'[j].step <= Len(runs'[j].script) /\ runs'[j].retryOf = runs[j].retryOf
        BY <3>1, <3>3, <4>1 DEF RunOK
      <4>3. ASSUME runs[j].retryOf # 0 PROVE runs'[runs[j].retryOf].finished /\ Replays(runs'[j])
        <5>1. runs[j].retryOf \in DOMAIN runs
          BY <1>1, <4>1, <4>3 DEF RunOK
        <5>2. runs[runs[j].retryOf].finished /\ Replays(runs[j])
          BY <4>1, <4>3 DEF RunOK
        <5>3. runs[j].retryOf # i
          BY <2>3, <5>2
        <5> QED
          BY <3>1, <3>3, <5>1, <5>2, <5>3
      <4> QED
        BY <4>1, <4>2, <4>3 DEF RunOK
    <3>6. RunsOK(runs')
      BY <3>3, <3>5 DEF RunsOK
    <3>7. a.finished \in BOOLEAN
      BY <3>1 DEF RunDetail
    <3> QED
      BY <3>3, <3>4, <3>6, <3>7
  <2> QED
    BY <2>2, <2>3
<1>5. WatchOK(watch', runs')
  <2> DEFINE s == runs'[i].finished
  <2>1. x = [w EXCEPT !.seen = s] /\ s \in BOOLEAN
    BY <1>4
  <2> HIDE DEF s, x
  <2>2. x = [run |-> w.run, seen |-> s]
    BY <1>2, <2>1
  <2>3. x.run = w.run /\ x.seen = s
    BY <2>2
  <2>4. x = [run |-> x.run, seen |-> x.seen] /\ x.run \in DOMAIN runs' /\ x.seen \in BOOLEAN
    BY <1>2, <1>4, <2>1, <2>2, <2>3
  <2>5. \A y \in watch' : y \in watch \/ y = x
    BY <1>3
  <2> QED
    BY <1>1, <1>4, <2>4, <2>5 DEF WatchOK
<1> QED
  BY <1>3, <1>4, <1>5, WatchStep

LEMMA Watching ==
    ASSUME Full, NEW r \in DOMAIN runs
    PROVE  WatchOK(watch \cup {[run |-> r, seen |-> runs[r].finished]}, runs)
<1> DEFINE s == runs[r].finished
           x == [run |-> r, seen |-> s]
<1>1. s \in BOOLEAN
  BY DEF Full, RunsOK, RunOK, RunDetail
<1> HIDE DEF s
<1>2. x = [run |-> x.run, seen |-> x.seen] /\ x.run = r /\ x.seen = s
  OBVIOUS
<1> HIDE DEF x
<1>3. WatchOK(watch \cup {x}, runs)
  BY <1>1, <1>2 DEF Full, WatchOK
<1> QED
  BY <1>3 DEF x, s

LEMMA OpenFull ==
    ASSUME Full, Inv', NEW r \in DOMAIN runs, openRun(r)
    PROVE  Full'
<1>1. UNCHANGED <<objs, runs, retriesByKey, log, keys, req, view>>
      /\ watch' = watch \cup {[run |-> r, seen |-> runs[r].finished]}
  BY DEF openRun, serverVars
<1>2. RunsOK(runs') /\ WatchOK(watch', runs')
  BY <1>1, Watching DEF Full
<1> QED
  BY <1>1, <1>2, WatchStep
-----------------------------------------------------------------------------
(* The tabs. *)

LEMMA ViewStep ==
    ASSUME Full, Inv', UNCHANGED <<objs, runs, retriesByKey, watch, log, keys, req>>, NEW t \in Tabs, NEW v,
           view' = [view EXCEPT ![t] = v], ViewType(v), Shown(objs, v, req[t])
    PROVE  Full'
<1>1. DOMAIN view' = Tabs /\ \A u \in Tabs : ViewType(view'[u]) /\ Shown(objs', view'[u], req'[u])
  BY DEF Full
<1> QED
  BY <1>1 DEF Full

LEMMA TabStep ==
    ASSUME Full, Inv', UNCHANGED <<objs, runs, retriesByKey, log, keys>>, WatchOK(watch', runs),
           NEW t \in Tabs, NEW e, NEW v, req' = [req EXCEPT ![t] = e],
           view' = [view EXCEPT ![t] = v] \/ (view' = view /\ v = view[t]),
           ReqType(keys, e), ReqDocs(objs, e), ReqRuns(runs, retriesByKey, e),
           SameKey(req[t], e) \/ e.kind = "none", ViewType(v), Shown(objs, v, e)
    PROVE  Full'
<1>1. /\ t \in Clients /\ OnlyReq(t) /\ req'[t] = e /\ keys \in Nat /\ DOMAIN view = Tabs
      /\ keys' \in Nat /\ keys <= keys' /\ ReqType(keys', e)
  BY DEF Clients, OnlyReq, Full, Inv, ReqInv
<1>2. KeyVers(objs, e) /\ \A u \in Clients \ {t} : Mates(e, req[u]) /\ Mates(req[u], e)
  <2>1. CASE SameKey(req[t], e)
    BY <1>1, <2>1, SameKeyKeeps DEF Full
  <2>2. CASE e.kind = "none"
    BY <2>2 DEF KeyVers, Mates
  <2> QED
    BY <2>1, <2>2
<1>3. DOMAIN view' = Tabs /\ view'[t] = v /\ \A u \in Tabs \ {t} : view'[u] = view[u]
  BY <1>1
<1>4. \A u \in Tabs : \/ view'[u] = view[u] /\ (u # t \/ Shown(objs', view'[u], req'[u]))
                      \/ ViewType(view'[u]) /\ Shown(objs', view'[u], req'[u])
  BY <1>1, <1>3
<1>5. /\ RunsOK(runs') /\ RetriesOK(retriesByKey', runs') /\ WatchOK(watch', runs') /\ Len(runs) <= Len(runs')
      /\ retriesByKey \subseteq retriesByKey' /\ ReqRuns(runs', retriesByKey', req'[t])
  BY <1>1, RunFacts DEF Full
<1>6. /\ Grows /\ ObjsOK(objs', keys') /\ \A u \in Clients \ {t} : KeyVers(objs', req[u])
  BY DEF Grows, Full
<1>7. \A w \in log' : w \in log \/ RunFor(retriesByKey', w)
  OBVIOUS
<1> QED
  BY <1>1, <1>2, <1>3, <1>4, <1>5, <1>6, <1>7, Frame

LEMMA IdleReq ==
    ASSUME NEW k \in Nat, NEW os, Len(os) \in Nat, NEW rs, NEW rk
    PROVE  /\ ReqType(k, NoReq) /\ ReqDocs(os, NoReq) /\ ReqRuns(rs, rk, NoReq)
           /\ NoReq.kind = "none" /\ NoReq.body = None /\ NoReq.phase = "idle"
<1>1. /\ DOMAIN NoReq = Fields /\ NoReq.kind = "none" /\ NoReq.body = None /\ NoReq.phase = "idle"
      /\ NoReq.key = 0 /\ NoReq.ifMatch = 0 /\ NoReq.source = 0 /\ NoReq.obj = 0 /\ NoReq.gen = 0
      /\ NoReq.status = 0
  BY DEF NoReq, Fields
<1>2. ReqType(k, NoReq)
  BY <1>1 DEF ReqType, Kinds, Phases, Statuses, Body, Writes, Told
<1>3. ReqDocs(os, NoReq) /\ ReqRuns(rs, rk, NoReq)
  BY <1>1 DEF ReqDocs, ReqRuns, Told
<1> QED
  BY <1>1, <1>2, <1>3

LEMMA ShownSame ==
    ASSUME NEW os, NEW v, NEW w, NEW q, w.saved = v.saved, w.fetchFailed = v.fetchFailed, w.doc = v.doc,
           w.fetch = v.fetch, w.answer = v.answer, Shown(os, v, q)
    PROVE  Shown(os, w, q)
BY DEF Shown

(* What a tab knows of its own request and of the store. *)
LEMMA TabFacts ==
    ASSUME Full, NEW t \in Tabs
    PROVE  /\ t \in Clients /\ ViewType(view[t]) /\ Shown(objs, view[t], req[t]) /\ DOMAIN view = Tabs
           /\ ReqType(keys, req[t]) /\ ReqDocs(objs, req[t]) /\ ReqRuns(runs, retriesByKey, req[t])
           /\ DOMAIN req = Clients /\ keys \in Nat /\ Len(objs) \in Nat /\ DOMAIN objs = 1..Len(objs)
           /\ DOMAIN view[t] = ViewFields
BY StoreFacts DEF Full, Clients, Inv, ReqInv, ViewType

(* A step on the tab's text fields alone. *)
LEMMA TextStep ==
    ASSUME Full, Inv', UNCHANGED <<objs, runs, retriesByKey, watch, log, keys, req>>, NEW t \in Tabs,
           NEW d \in Body, NEW b, NEW c \in Body, NEW m \in Body,
           view' = [view EXCEPT ![t] = [view[t] EXCEPT !.draft = d, !.base = b, !.checked = c, !.manual = m]]
    PROVE  Full'
<1> DEFINE v == [view[t] EXCEPT !.draft = d, !.base = b, !.checked = c, !.manual = m]
<1>1. ViewType(view[t]) /\ Shown(objs, view[t], req[t]) /\ DOMAIN view[t] = ViewFields
  BY TabFacts
<1>2. /\ DOMAIN v = ViewFields /\ v.draft = d /\ v.checked = c /\ v.manual = m
      /\ v.saved = view[t].saved /\ v.fetchFailed = view[t].fetchFailed /\ v.doc = view[t].doc
      /\ v.fetch = view[t].fetch /\ v.answer = view[t].answer
  BY <1>1 DEF ViewFields
<1> HIDE DEF v
<1>3. ViewType(v)
  BY <1>1, <1>2 DEF ViewType
<1>4. Shown(objs, v, req[t])
  BY <1>1, <1>2, ShownSame
<1> QED
  BY <1>3, <1>4, ViewStep DEF v

LEMMA DraftIsText ==
    ASSUME Full, NEW t \in Tabs
    PROVE  draft(t) \in Body /\ draft(t) # None
BY TabFacts, SpecConsoleAssumption DEF draft, ViewType, Body

LEMMA TextFull ==
    ASSUME Full, Inv', NEW t \in Tabs,
           \/ \E b \in Bodies : setLocalDraft(t, b)
           \/ validateDebounced(t) \/ validateNow(t) \/ setValidation(t)
    PROVE  Full'
<1>1. UNCHANGED <<objs, runs, retriesByKey, watch, log, keys, req>>
  BY DEF setLocalDraft, validateDebounced, validateNow, setValidation, serverVars
<1> DEFINE v == view[t]
<1>2. /\ DOMAIN v = ViewFields /\ v.draft \in Body /\ v.checked \in Body /\ v.manual \in Body /\ DOMAIN view = Tabs
      /\ None \in Body
  BY TabFacts DEF ViewType, Body
<1>3. draft(t) \in Body
  BY DraftIsText
<1>4. ASSUME NEW b \in Bodies, setLocalDraft(t, b) PROVE Full'
  <2> DEFINE g == IF view[t].draft = None THEN view[t].doc.gen ELSE view[t].base
  <2>1. view' = [view EXCEPT ![t].draft = b, ![t].base = g]
    BY <1>4 DEF setLocalDraft
  <2> HIDE DEF g
  <2>2. view' = [view EXCEPT ![t] = [v EXCEPT !.draft = b, !.base = g, !.checked = v.checked, !.manual = v.manual]]
    BY <1>2, <2>1 DEF ViewFields
  <2> QED
    BY <1>1, <1>2, <2>2, TextStep DEF Body
<1>5. CASE validateDebounced(t)
  <2> DEFINE d == draft(t)
  <2>1. view' = [view EXCEPT ![t].checked = d, ![t].manual = None]
    BY <1>5 DEF validateDebounced
  <2> HIDE DEF d
  <2>2. view' = [view EXCEPT ![t] = [v EXCEPT !.draft = v.draft, !.base = v.base, !.checked = d, !.manual = None]]
    BY <1>2, <2>1 DEF ViewFields
  <2> QED
    BY <1>1, <1>2, <1>3, <2>2, TextStep DEF d
<1>6. CASE validateNow(t)
  <2> DEFINE d == draft(t)
  <2>1. view' = [view EXCEPT ![t].manual = d]
    BY <1>6 DEF validateNow
  <2> HIDE DEF d
  <2>2. view' = [view EXCEPT ![t] = [v EXCEPT !.draft = v.draft, !.base = v.base, !.checked = v.checked, !.manual = d]]
    BY <1>2, <2>1 DEF ViewFields
  <2> QED
    BY <1>1, <1>2, <1>3, <2>2, TextStep DEF d
<1>7. CASE setValidation(t)
  <2>1. view' = [view EXCEPT ![t].checked = view[t].manual, ![t].manual = None]
    BY <1>7 DEF setValidation
  <2>2. view' = [view EXCEPT ![t] = [v EXCEPT !.draft = v.draft, !.base = v.base, !.checked = v.manual, !.manual = None]]
    BY <1>2, <2>1 DEF ViewFields
  <2> QED
    BY <1>1, <1>2, <2>2, TextStep
<1> QED
  BY <1>4, <1>5, <1>6, <1>7

(* The query is started again: nothing is known of its answer yet. *)
LEMMA Asked ==
    ASSUME NEW v, ViewType(v), NEW w, DOMAIN w = ViewFields, w.fetch = "requested", w.saved = v.saved,
           w.fetchFailed = v.fetchFailed, w.doc = v.doc, w.draft = v.draft, w.checked = v.checked, w.manual = v.manual,
           NEW os, NEW q, NEW e, Shown(os, v, q),
           e.body # None /\ e.phase = "fetched" => e = q
    PROVE  ViewType(w) /\ Shown(os, w, e)
<1>1. ViewType(w)
  BY DEF ViewType
<1>2. Shown(os, w, e)
  BY DEF Shown
<1> QED
  BY <1>1, <1>2

LEMMA AskFull ==
    ASSUME Full, Inv', NEW t \in Tabs, onRetry(t) \/ windowFocus(t)
    PROVE  Full'
<1> DEFINE v == view[t]
<1>1. UNCHANGED <<objs, runs, retriesByKey, watch, log, keys, req>>
  BY DEF onRetry, windowFocus, serverVars
<1>2. /\ ViewType(v) /\ Shown(objs, v, req[t]) /\ DOMAIN view = Tabs /\ DOMAIN v = ViewFields
  BY TabFacts
<1>3. CASE windowFocus(t)
  <2> DEFINE w == [v EXCEPT !.fetch = "requested"]
  <2>1. view' = [view EXCEPT ![t] = w]
    BY <1>2, <1>3 DEF windowFocus
  <2>2. /\ DOMAIN w = ViewFields /\ w.fetch = "requested" /\ w.saved = v.saved /\ w.manual = v.manual
        /\ w.fetchFailed = v.fetchFailed /\ w.doc = v.doc /\ w.draft = v.draft /\ w.checked = v.checked
    BY <1>2 DEF ViewFields
  <2> HIDE DEF w, v
  <2>3. ViewType(w) /\ Shown(objs, w, req[t])
    BY <1>2, <2>2, Asked
  <2> QED
    BY <1>1, <2>1, <2>3, ViewStep
<1>4. CASE onRetry(t)
  <2> DEFINE w == [invalidate(v) EXCEPT !.problem = 0, !.rediff = TRUE]
  <2>1. view' = [view EXCEPT ![t] = w]
    BY <1>2, <1>4 DEF onRetry
  <2>2. /\ DOMAIN w = ViewFields /\ w.fetch = "requested" /\ w.saved = v.saved /\ w.manual = v.manual
        /\ w.fetchFailed = v.fetchFailed /\ w.doc = v.doc /\ w.draft = v.draft /\ w.checked = v.checked
    BY <1>2 DEF ViewFields, invalidate
  <2> HIDE DEF w, v
  <2>3. ViewType(w) /\ Shown(objs, w, req[t])
    BY <1>2, <2>2, Asked
  <2> QED
    BY <1>1, <2>1, <2>3, ViewStep
<1> QED
  BY <1>3, <1>4

LEMMA ReceiveFull ==
    ASSUME Full, Inv', NEW t \in Tabs, receiveAnswer(t)
    PROVE  Full'
<1> DEFINE q == req[t]
           v == view[t]
<1>1. /\ t \in Clients /\ ViewType(v) /\ Shown(objs, v, q) /\ DOMAIN view = Tabs /\ DOMAIN v = ViewFields
      /\ ReqType(keys, q) /\ ReqDocs(objs, q) /\ ReqRuns(runs, retriesByKey, q)
      /\ DOMAIN req = Clients /\ keys \in Nat /\ Len(objs) \in Nat
  BY TabFacts
<1>2. q.phase = "answered" /\ UNCHANGED <<objs, runs, retriesByKey, log, keys, watch>> /\ WatchOK(watch', runs)
  BY DEF receiveAnswer, serverVars, Full
<1>3. CASE q.status = 202
  <2> DEFINE e == [q EXCEPT !.phase = "refetch"]
             w == IF q.body = None THEN v ELSE invalidate(v)
  <2>1. req' = [req EXCEPT ![t] = e] /\ view' = [view EXCEPT ![t] = w]
    BY <1>1, <1>3 DEF receiveAnswer, To
  <2>2. /\ DOMAIN e = Fields /\ e.phase = "refetch" /\ e.status = q.status /\ e.obj = q.obj /\ e.gen = q.gen
        /\ e.kind = q.kind /\ e.key = q.key /\ e.body = q.body /\ e.ifMatch = q.ifMatch /\ e.source = q.source
        /\ e.run = q.run
    BY <1>1 DEF ReqType, Fields
  <2>3. ViewType(w) /\ Shown(objs, w, e)
    <3>1. CASE q.body = None
      BY <1>1, <2>2, <3>1, ShownQuiet
    <3>2. CASE q.body # None
      <4> DEFINE x == invalidate(v)
      <4>1. /\ DOMAIN x = ViewFields /\ x.fetch = "requested" /\ x.saved = v.saved /\ x.manual = v.manual
            /\ x.fetchFailed = v.fetchFailed /\ x.doc = v.doc /\ x.draft = v.draft /\ x.checked = v.checked
        BY <1>1 DEF ViewFields, invalidate
      <4>2. w = x
        BY <3>2
      <4> HIDE DEF x, w, e, v
      <4> QED
        BY <1>1, <2>2, <4>1, <4>2, Asked
    <3> QED
      BY <3>1, <3>2
  <2> HIDE DEF e, q, w
  <2>4. ReqType(keys, e)
    BY <1>1, <1>2, <1>3, <2>2 DEF ReqType, Phases, Told
  <2>5. ReqDocs(objs, e) /\ ReqRuns(runs, retriesByKey, e)
    BY <1>1, <1>2, <1>3, <2>2 DEF ReqDocs, ReqRuns, Told
  <2>6. SameKey(req[t], e)
    BY <2>2 DEF SameKey, q
  <2> QED
    BY <1>2, <2>1, <2>3, <2>4, <2>5, <2>6, TabStep
<1>4. CASE q.status # 202
  <2> DEFINE w == [v EXCEPT !.problem = q.status]
  <2>1. req' = [req EXCEPT ![t] = NoReq] /\ view' = [view EXCEPT ![t] = w]
    BY <1>1, <1>4 DEF receiveAnswer
  <2>2. /\ DOMAIN w = ViewFields /\ w.fetch = v.fetch /\ w.saved = v.saved /\ w.manual = v.manual
        /\ w.fetchFailed = v.fetchFailed /\ w.doc = v.doc /\ w.draft = v.draft /\ w.checked = v.checked
        /\ w.answer = v.answer
    BY <1>1 DEF ViewFields
  <2> HIDE DEF w, v
  <2>3. ViewType(w)
    BY <1>1, <2>2 DEF ViewType
  <2>4. Shown(objs, w, NoReq)
    BY <1>1, <2>2, ShownSame, ShownQuiet, IdleReq
  <2> QED
    BY <1>1, <1>2, <2>1, <2>3, <2>4, IdleReq, TabStep
<1> QED
  BY <1>3, <1>4

(* A write the tab waits for made a version that is still there. *)
LEMMA Landed ==
    ASSUME Full, NEW t \in Tabs, req[t].phase \in {"refetch", "fetched"}, req[t].body # None, Len(objs) <= 1
    PROVE  Len(objs) = 1 /\ req[t].gen \in Nat /\ req[t].gen <= Len(objs[1].versions)
           /\ Newest(objs) = Len(objs[1].versions)
<1> DEFINE q == req[t]
<1>1. ReqType(keys, q) /\ ReqDocs(objs, q) /\ Len(objs) \in Nat /\ DOMAIN objs = 1..Len(objs)
  BY TabFacts
<1>2. q.obj \in DOMAIN objs /\ q.gen \in DOMAIN objs[q.obj].versions
  BY <1>1 DEF ReqType, ReqDocs, Told
<1>3. Len(objs) = 1 /\ q.obj = 1
  BY <1>1, <1>2
<1>4. q.gen \in 1..Len(objs[1].versions) /\ Len(objs[1].versions) \in Nat
  BY <1>2, <1>3, StoreFacts DEF Full, Inv
<1> QED
  BY <1>3, <1>4 DEF Newest

LEMMA SuccessFull ==
    ASSUME Full, Inv', NEW t \in Tabs, onSuccess(t)
    PROVE  Full'
<1> DEFINE q == req[t]
           v == view[t]
<1>1. /\ t \in Clients /\ ViewType(v) /\ Shown(objs, v, q) /\ DOMAIN view = Tabs /\ DOMAIN v = ViewFields
      /\ ReqType(keys, q) /\ ReqDocs(objs, q) /\ ReqRuns(runs, retriesByKey, q)
      /\ DOMAIN req = Clients /\ keys \in Nat /\ Len(objs) \in Nat
  BY TabFacts
<1>2. /\ UNCHANGED <<objs, runs, retriesByKey, log, keys>> /\ req' = [req EXCEPT ![t] = NoReq]
      /\ q.phase = "fetched" \/ (q.phase = "refetch" /\ q.body = None)
  BY DEF onSuccess, serverVars
<1>3. q.status = 202
  BY <1>1, <1>2 DEF ReqType
<1>4. q.kind \in Writes => q.phase = "fetched" /\ q.body # None
  BY <1>1, <1>2, <1>3 DEF ReqType, Writes
<1>5. WatchOK(watch', runs)
  <2>1. CASE q.kind \in {"reconcile", "retry"} /\ q.run > 0
    <3>1. q.body = None /\ q.phase \in Told /\ q.key \in Nat \ {0}
      BY <1>1, <1>2, <2>1 DEF ReqType, Told
    <3>2. q.run = -q.key \/ q.run \in DOMAIN runs
      BY <1>1, <1>3, <3>1 DEF ReqRuns
    <3>3. q.run \in DOMAIN runs
      BY <2>1, <3>1, <3>2
    <3>4. watch' = watch \cup {[run |-> q.run, seen |-> runs[q.run].finished]}
      BY <2>1 DEF onSuccess
    <3> QED
      BY <3>3, <3>4, Watching
  <2>2. CASE ~(q.kind \in {"reconcile", "retry"} /\ q.run > 0)
    <3>1. watch' = watch
      BY <2>2 DEF onSuccess
    <3> QED
      BY <3>1 DEF Full
  <2> QED
    BY <2>1, <2>2
<1>6. ASSUME NEW w, view' = [view EXCEPT ![t] = w] \/ (view' = view /\ w = view[t]), ViewType(w),
             Shown(objs, w, NoReq)
      PROVE  Full'
  BY <1>1, <1>2, <1>5, <1>6, IdleReq, TabStep
<1>7. ASSUME NEW w, DOMAIN w = ViewFields, w.fetch = v.fetch, w.saved = q.gen, w.manual = v.manual,
             w.fetchFailed = v.fetchFailed, w.doc = v.doc, w.checked = v.checked,
             w.answer = v.answer, w.draft \in Body, q.kind \in Writes
      PROVE  ViewType(w) /\ Shown(objs, w, NoReq)
  <2>1. ViewType(w)
    BY <1>1, <1>7 DEF ViewType, ReqType
  <2>2. ASSUME Len(objs) <= 1 
        PROVE  /\ w.saved <= Newest(objs) /\ (w.fetchFailed \/ w.saved <= w.doc.gen)
               /\ w.fetch = "answered" => w.saved <= w.answer.gen
    <3>1. q.gen <= Newest(objs)
      BY <1>4, <1>7, <2>2, Landed
    <3>2. v.fetchFailed \/ q.gen <= v.doc.gen
      BY <1>1, <1>4, <1>7, <2>2 DEF Shown
    <3>3. v.fetch = "answered" => q.gen <= v.answer.gen
      BY <1>1, <1>4, <1>7, <2>2 DEF Shown
    <3> QED
      BY <1>7, <3>1, <3>2, <3>3
  <2>3. NoReq.body = None
    BY DEF NoReq
  <2> HIDE DEF v
  <2> QED
    BY <2>1, <2>2, <2>3 DEF Shown
<1>8. CASE q.kind = "save"
  <2> DEFINE w == [v EXCEPT !.saved = q.gen, !.draft = None, !.problem = 0]
  <2>1. view' = [view EXCEPT ![t] = w]
    BY <1>1, <1>8 DEF onSuccess
  <2>2. /\ DOMAIN w = ViewFields /\ w.fetch = v.fetch /\ w.saved = q.gen /\ w.manual = v.manual
        /\ w.fetchFailed = v.fetchFailed /\ w.doc = v.doc /\ w.draft = None /\ w.checked = v.checked
        /\ w.answer = v.answer
    BY <1>1 DEF ViewFields
  <2>3. None \in Body /\ q.kind \in Writes
    BY <1>8 DEF Body, Writes
  <2> HIDE DEF w, v, q
  <2> QED
    BY <1>6, <1>7, <2>1, <2>2, <2>3
<1>9. CASE q.kind = "restore"
  <2> DEFINE w == [v EXCEPT !.saved = q.gen, !.problem = 0]
  <2>1. view' = [view EXCEPT ![t] = w]
    BY <1>1, <1>9 DEF onSuccess
  <2>2. /\ DOMAIN w = ViewFields /\ w.fetch = v.fetch /\ w.saved = q.gen /\ w.manual = v.manual
        /\ w.fetchFailed = v.fetchFailed /\ w.doc = v.doc /\ w.draft = v.draft /\ w.checked = v.checked
        /\ w.answer = v.answer
    BY <1>1 DEF ViewFields
  <2>3. v.draft \in Body /\ q.kind \in Writes
    BY <1>1, <1>9 DEF ViewType, Writes
  <2> HIDE DEF w, v, q
  <2> QED
    BY <1>6, <1>7, <2>1, <2>2, <2>3
<1>10. CASE q.kind \notin Writes
  <2>1. view' = view
    BY <1>10 DEF onSuccess, Writes
  <2>2. Shown(objs, v, NoReq)
    BY <1>1, ShownQuiet, IdleReq
  <2> QED
    BY <1>1, <1>6, <2>1, <2>2
<1> QED
  BY <1>8, <1>9, <1>10 DEF Writes

LEMMA FetchFull ==
    ASSUME Full, Inv', NEW t \in Tabs, fetchSpec(t)
    PROVE  Full'
<1> DEFINE q == req[t]
           v == view[t]
           n == Len(objs[store].versions)
           b == objs[store].versions[n].body
           d == [gen |-> n, body |-> b]
           w == [v EXCEPT !.fetch = "answered", !.answer = d]
<1>1. /\ ViewType(v) /\ Shown(objs, v, q) /\ DOMAIN view = Tabs /\ DOMAIN v = ViewFields
      /\ Len(objs) \in Nat /\ DOMAIN objs = 1..Len(objs)
  BY TabFacts
<1>2. UNCHANGED <<objs, runs, retriesByKey, log, keys, watch, req>> /\ store # 0
  BY DEF fetchSpec, serverVars
<1>3. store \in DOMAIN objs /\ ObjOK(objs[store], keys) /\ n \in Nat /\ DOMAIN objs[store].versions = 1..n
  BY <1>2, StoreFacts DEF Full, Inv, StoreInv, ObjsOK
<1>4. n # 0
  BY <1>3, SeedLength DEF ObjOK
<1>5. b \in ValidBodies
  <2>1. n \in DOMAIN objs[store].versions
    BY <1>3, <1>4
  <2>2. VersionOK(objs[store].versions[n], n, keys)
    BY <1>3, <2>1 DEF ObjOK
  <2> QED
    BY <2>2 DEF VersionOK
<1>6. view' = [view EXCEPT ![t] = w]
  BY <1>1 DEF fetchSpec, getSpec, currentGeneration, current
<1>7. d.gen = n /\ d.body = b
  OBVIOUS
<1> HIDE DEF d
<1>8. /\ DOMAIN w = ViewFields /\ w.fetch = "answered" /\ w.saved = v.saved /\ w.manual = v.manual
      /\ w.fetchFailed = v.fetchFailed /\ w.doc = v.doc /\ w.draft = v.draft /\ w.checked = v.checked
      /\ w.answer = d
  BY <1>1 DEF ViewFields
<1>9. ViewType(w)
  <2> HIDE DEF w, b, n
  <2> QED
    BY <1>1, <1>3, <1>5, <1>7, <1>8 DEF ViewType
<1>10. ASSUME Len(objs) <= 1
       PROVE  /\ v.saved <= n /\ Newest(objs) = n
              /\ q.body # None /\ q.phase \in {"refetch", "fetched"} => q.gen <= n
  <2>1. Len(objs) = 1 /\ store = 1
    BY <1>1, <1>3, <1>10
  <2>2. Newest(objs) = n
    BY <2>1 DEF Newest
  <2>3. v.saved <= n
    BY <1>1, <1>10, <2>2 DEF Shown
  <2>4. q.body # None /\ q.phase \in {"refetch", "fetched"} => q.gen <= n
    BY <1>10, <2>1, Landed
  <2> QED
    BY <2>2, <2>3, <2>4
<1>11. Shown(objs, w, q)
  <2> HIDE DEF w, v, q, n
  <2> QED
    BY <1>1, <1>7, <1>8, <1>10 DEF Shown
<1> HIDE DEF w
<1> QED
  BY <1>2, <1>6, <1>9, <1>11, ViewStep

(* The fetch is over: a write that waited for it goes on. *)
LEMMA FetchedStep ==
    ASSUME Full, Inv', UNCHANGED <<objs, runs, retriesByKey, log, keys, watch>>, NEW t \in Tabs, NEW w,
           req' = Refetched(t), view' = [view EXCEPT ![t] = w], ViewType(w), w.fetch = "idle", w.saved = view[t].saved,
           \/ w.fetchFailed
           \/ view[t].fetch = "answered" /\ w.doc = view[t].answer
    PROVE  Full'
<1> DEFINE q == req[t]
           v == view[t]
           e == [q EXCEPT !.phase = "fetched"]
<1>1. /\ t \in Clients /\ ViewType(v) /\ Shown(objs, v, q)
      /\ ReqType(keys, q) /\ ReqDocs(objs, q) /\ ReqRuns(runs, retriesByKey, q)
      /\ DOMAIN req = Clients /\ WatchOK(watch', runs)
  BY TabFacts DEF Full
<1>2. ASSUME NEW x, x.gen = q.gen, x.body = q.body, x.phase # "refetch",
             x.phase = "fetched" => q.phase \in {"refetch", "fetched"}
      PROVE  Shown(objs, w, x)
  <2>1. ASSUME Len(objs) <= 1 
        PROVE  /\ w.saved <= Newest(objs) /\ (w.fetchFailed \/ w.saved <= w.doc.gen)
               /\ x.body # None /\ x.phase = "fetched" => w.fetchFailed \/ x.gen <= w.doc.gen
    <3>1. v.saved <= Newest(objs) /\ (v.fetch = "answered" => v.saved <= v.answer.gen)
      BY <1>1, <2>1 DEF Shown
    <3>2. q.body # None /\ q.phase \in {"refetch", "fetched"} /\ v.fetch = "answered" => q.gen <= v.answer.gen
      BY <1>1, <2>1 DEF Shown
    <3> HIDE DEF q, v
    <3> QED
      BY <1>2, <3>1, <3>2 DEF v
  <2> QED
    BY <1>2, <2>1 DEF Shown
<1>3. CASE q.phase = "refetch"
  <2>1. req' = [req EXCEPT ![t] = e]
    BY <1>1, <1>3 DEF Refetched
  <2>2. /\ DOMAIN e = Fields /\ e.phase = "fetched" /\ e.status = q.status /\ e.obj = q.obj /\ e.gen = q.gen
        /\ e.kind = q.kind /\ e.key = q.key /\ e.body = q.body /\ e.ifMatch = q.ifMatch /\ e.source = q.source
        /\ e.run = q.run
    BY <1>1 DEF ReqType, Fields
  <2> HIDE DEF e, q
  <2>3. Shown(objs, w, e)
    BY <1>2, <1>3, <2>2
  <2>4. ReqType(keys, e)
    BY <1>1, <1>3, <2>2 DEF ReqType, Phases, Told
  <2>5. ReqDocs(objs, e) /\ ReqRuns(runs, retriesByKey, e)
    BY <1>1, <1>3, <2>2 DEF ReqDocs, ReqRuns, Told
  <2>6. SameKey(req[t], e)
    BY <2>2 DEF SameKey, q
  <2> QED
    BY <1>1, <2>1, <2>3, <2>4, <2>5, <2>6, TabStep
<1>4. CASE q.phase # "refetch"
  <2>1. UNCHANGED req
    BY <1>4 DEF Refetched
  <2>2. Shown(objs, w, q)
    BY <1>2, <1>4
  <2> QED
    BY <2>1, <2>2, ViewStep
<1> QED
  BY <1>3, <1>4

LEMMA FetchedFull ==
    ASSUME Full, Inv', NEW t \in Tabs, receiveSpec(t) \/ fetchFails(t)
    PROVE  Full'
<1> DEFINE v == view[t]
<1>1. ViewType(v) /\ DOMAIN view = Tabs /\ DOMAIN v = ViewFields
  BY TabFacts
<1>2. UNCHANGED <<objs, runs, retriesByKey, log, keys, watch>> /\ req' = Refetched(t)
  BY DEF receiveSpec, fetchFails, serverVars
<1>3. CASE receiveSpec(t)
  <2> DEFINE g == IF v.rediff THEN v.answer.gen ELSE v.base
             w == [v EXCEPT !.fetch = "idle", !.answer = NoDoc, !.doc = v.answer, !.fetchFailed = FALSE,
                            !.rediff = FALSE, !.base = g]
  <2>1. view' = [view EXCEPT ![t].fetch = "idle", ![t].answer = NoDoc, ![t].doc = view[t].answer,
                            ![t].fetchFailed = FALSE, ![t].rediff = FALSE, ![t].base = g]
        /\ v.fetch = "answered"
    BY <1>3 DEF receiveSpec
  <2> HIDE DEF g
  <2>2. view' = [view EXCEPT ![t] = w]
    BY <1>1, <2>1
  <2>3. /\ DOMAIN w = ViewFields /\ w.fetch = "idle" /\ w.saved = v.saved /\ w.manual = v.manual
        /\ w.doc = v.answer /\ w.draft = v.draft /\ w.checked = v.checked
    BY <1>1 DEF ViewFields
  <2> HIDE DEF w
  <2>4. ViewType(w)
    <3> HIDE DEF v
    <3> QED
      BY <1>1, <2>1, <2>3 DEF ViewType
  <2> QED
    BY <1>2, <2>1, <2>2, <2>3, <2>4, FetchedStep
<1>4. CASE fetchFails(t)
  <2> DEFINE w == [v EXCEPT !.fetch = "idle", !.fetchFailed = TRUE]
  <2>1. view' = [view EXCEPT ![t] = w]
    BY <1>1, <1>4 DEF fetchFails
  <2>2. /\ DOMAIN w = ViewFields /\ w.fetch = "idle" /\ w.saved = v.saved /\ w.manual = v.manual
        /\ w.doc = v.doc /\ w.draft = v.draft /\ w.checked = v.checked /\ w.fetchFailed
    BY <1>1 DEF ViewFields
  <2> HIDE DEF w
  <2>3. ViewType(w)
    <3> HIDE DEF v
    <3> QED
      BY <1>1, <2>2 DEF ViewType
  <2> QED
    BY <1>2, <2>1, <2>2, <2>3, FetchedStep
<1> QED
  BY <1>3, <1>4
-----------------------------------------------------------------------------
(* What the operators and the direct client send. *)

(* A request under a key nobody has: the next one, or that of a request under *)
(* way, with what it asks for.                                                *)
LEMMA SentStep ==
    ASSUME Full, Inv', UNCHANGED <<objs, runs, retriesByKey, log, watch>>, NEW p \in Clients, NEW e,
           req' = [req EXCEPT ![p] = e], keys' \in Nat, keys <= keys', ReqType(keys', e), ReqDocs(objs, e),
           ReqRuns(runs, retriesByKey, e), e.phase \notin {"refetch", "fetched"},
           KeyVers(objs, e), \A u \in Clients \ {p} : Mates(e, req[u]) /\ Mates(req[u], e),
           DOMAIN view' = Tabs, \A t \in Tabs : ViewType(view'[t]) /\ Shown(objs, view'[t], req[t])
    PROVE  Full'
<1>1. OnlyReq(p) /\ req'[p] = e
  BY DEF OnlyReq, Full, Inv, ReqInv
<1>2. \A t \in Tabs : ViewType(view'[t]) /\ Shown(objs, view'[t], req'[t])
  BY <1>1, ShownQuiet DEF OnlyReq, Clients
<1> QED
  BY <1>1, <1>2, ReqStep

LEMMA FreshKey ==
    ASSUME Full, NEW p \in Clients, NEW e, e.key = keys + 1
    PROVE  KeyVers(objs, e) /\ \A u \in Clients \ {p} : Mates(e, req[u]) /\ Mates(req[u], e)
<1>1. \A u \in Clients : req[u].key # keys + 1
  BY DEF Full, ReqType
<1>2. \A o \in DOMAIN objs : \A g \in DOMAIN objs[o].versions : objs[o].versions[g].key # keys + 1
  <2> SUFFICES ASSUME NEW o \in DOMAIN objs, NEW g \in DOMAIN objs[o].versions
               PROVE  objs[o].versions[g].key # keys + 1
    OBVIOUS
  <2>1. VersionOK(objs[o].versions[g], g, keys) /\ keys \in Nat
    BY DEF Full, ObjsOK, ObjOK
  <2> QED
    BY <2>1 DEF VersionOK
<1> QED
  BY <1>1, <1>2 DEF KeyVers, Mates

LEMMA SendStep ==
    ASSUME Full, Inv', NEW p \in Clients, NEW e, Send(p, e), UNCHANGED watch, e.key = keys + 1,
           ReqType(keys + 1, e), ReqDocs(objs, e), ReqRuns(runs, retriesByKey, e),
           e.phase \notin {"refetch", "fetched"},
           DOMAIN view' = Tabs, \A t \in Tabs : ViewType(view'[t]) /\ Shown(objs, view'[t], req[t])
    PROVE  Full'
<1>1. /\ UNCHANGED <<objs, runs, retriesByKey, log, watch>> /\ req' = [req EXCEPT ![p] = e] /\ keys' = keys + 1
      /\ keys \in Nat
  BY DEF Send, serverVars, Full
<1>2. keys' \in Nat /\ keys <= keys'
  BY <1>1
<1>3. KeyVers(objs, e) /\ \A u \in Clients \ {p} : Mates(e, req[u]) /\ Mates(req[u], e)
  BY FreshKey
<1> QED
  BY <1>1, <1>2, <1>3, SentStep

LEMMA SameView ==
    ASSUME Full, UNCHANGED view
    PROVE  DOMAIN view' = Tabs /\ \A t \in Tabs : ViewType(view'[t]) /\ Shown(objs, view'[t], req[t])
BY DEF Full

LEMMA SaveSent ==
    ASSUME Full, Inv', NEW t \in Tabs, save(t)
    PROVE  Full'
<1> DEFINE v == view[t]
           d == draft(t)
           m == v.doc.gen
           h == IF v.draft = None THEN v.doc.gen ELSE v.base
           e == [NoReq EXCEPT !.kind = "save", !.phase = "enter", !.key = keys + 1, !.body = d,
                              !.ifMatch = m, !.base = h]
           w == [v EXCEPT !.problem = 0]
<1>1. /\ t \in Clients /\ ViewType(v) /\ Shown(objs, v, req[t]) /\ DOMAIN view = Tabs /\ DOMAIN v = ViewFields
      /\ keys \in Nat /\ Len(objs) \in Nat
  BY TabFacts
<1>2. d \in Body /\ d # None /\ m \in Nat
  BY <1>1, DraftIsText DEF ViewType
<1>3. Send(t, e) /\ UNCHANGED watch /\ view' = [view EXCEPT ![t] = w]
  BY DEF save
<1> HIDE DEF d, m, h
<1>4. /\ DOMAIN e = Fields /\ e.kind = "save" /\ e.phase = "enter" /\ e.key = keys + 1 /\ e.body = d
      /\ e.ifMatch = m /\ e.source = 0 /\ e.obj = 0 /\ e.gen = 0 /\ e.status = 0
  BY DEF NoReq, Fields
<1>5. /\ DOMAIN w = ViewFields /\ w.fetch = v.fetch /\ w.saved = v.saved /\ w.manual = v.manual
      /\ w.fetchFailed = v.fetchFailed /\ w.doc = v.doc /\ w.draft = v.draft /\ w.checked = v.checked
      /\ w.answer = v.answer
  BY <1>1 DEF ViewFields
<1> HIDE DEF e, w
<1>6. ReqType(keys + 1, e)
  BY <1>1, <1>2, <1>4 DEF ReqType, Kinds, Phases, Statuses, Told, Writes
<1>7. ReqDocs(objs, e) /\ ReqRuns(runs, retriesByKey, e)
  BY <1>1, <1>4 DEF ReqDocs, ReqRuns, Told
<1>8. ViewType(w) /\ Shown(objs, w, req[t])
  <2> HIDE DEF v
  <2>1. ViewType(w)
    BY <1>1, <1>5 DEF ViewType
  <2> QED
    BY <1>1, <1>5, <2>1, ShownSame
<1>9. DOMAIN view' = Tabs /\ \A u \in Tabs : ViewType(view'[u]) /\ Shown(objs, view'[u], req[u])
  BY <1>1, <1>3, <1>8 DEF Full
<1> QED
  BY <1>1, <1>3, <1>4, <1>6, <1>7, <1>9, SendStep

LEMMA RestoreSent ==
    ASSUME Full, Inv', NEW t \in Tabs, NEW g \in Nat \ {0}, restore(t, g)
    PROVE  Full'
<1> DEFINE e == [NoReq EXCEPT !.kind = "restore", !.phase = "enter", !.key = keys + 1, !.source = g]
<1>1. t \in Clients /\ keys \in Nat /\ Len(objs) \in Nat
  BY TabFacts
<1>2. Send(t, e) /\ UNCHANGED <<view, watch>>
  BY DEF restore
<1>3. /\ DOMAIN e = Fields /\ e.kind = "restore" /\ e.phase = "enter" /\ e.key = keys + 1 /\ e.body = None
      /\ e.ifMatch = 0 /\ e.source = g /\ e.obj = 0 /\ e.gen = 0 /\ e.status = 0
  BY DEF NoReq, Fields
<1> HIDE DEF e
<1>4. ReqType(keys + 1, e)
  BY <1>1, <1>3 DEF ReqType, Kinds, Phases, Statuses, Told, Writes, Body
<1>5. ReqDocs(objs, e) /\ ReqRuns(runs, retriesByKey, e)
  BY <1>1, <1>3 DEF ReqDocs, ReqRuns, Told
<1> QED
  BY <1>1, <1>2, <1>3, <1>4, <1>5, SameView, SendStep

LEMMA ReconcileSent ==
    ASSUME Full, Inv', NEW t \in Tabs, reconcileNow(t)
    PROVE  Full'
<1> DEFINE e == [NoReq EXCEPT !.kind = "reconcile", !.phase = "list", !.key = keys + 1]
<1>1. t \in Clients /\ keys \in Nat /\ Len(objs) \in Nat
  BY TabFacts
<1>2. Send(t, e) /\ UNCHANGED <<view, watch>>
  BY DEF reconcileNow
<1>3. /\ DOMAIN e = Fields /\ e.kind = "reconcile" /\ e.phase = "list" /\ e.key = keys + 1 /\ e.body = None
      /\ e.ifMatch = 0 /\ e.source = 0 /\ e.obj = 0 /\ e.gen = 0 /\ e.status = 0
  BY DEF NoReq, Fields
<1> HIDE DEF e
<1>4. ReqType(keys + 1, e)
  BY <1>1, <1>3 DEF ReqType, Kinds, Phases, Statuses, Told, Writes, Body
<1>5. ReqDocs(objs, e) /\ ReqRuns(runs, retriesByKey, e)
  BY <1>1, <1>3 DEF ReqDocs, ReqRuns, Told
<1> QED
  BY <1>1, <1>2, <1>3, <1>4, <1>5, SameView, SendStep

(* A retry of any run, from its page or sent directly. *)
LEMMA RetrySent ==
    ASSUME Full, Inv', NEW p \in Clients, NEW r \in DOMAIN runs, UNCHANGED <<view, watch>>,
           Send(p, [NoReq EXCEPT !.kind = "retry", !.phase = "retry", !.key = keys + 1, !.pick = r])
    PROVE  Full'
<1> DEFINE e == [NoReq EXCEPT !.kind = "retry", !.phase = "retry", !.key = keys + 1, !.pick = r]
<1>1. keys \in Nat /\ Len(objs) \in Nat /\ r \in 0..Len(runs)
  BY StoreFacts, RunFacts DEF Full, Inv
<1>2. /\ DOMAIN e = Fields /\ e.kind = "retry" /\ e.phase = "retry" /\ e.key = keys + 1 /\ e.body = None
      /\ e.ifMatch = 0 /\ e.source = 0 /\ e.obj = 0 /\ e.gen = 0 /\ e.status = 0 /\ e.pick = r
  BY DEF NoReq, Fields
<1>3. Send(p, e)
  OBVIOUS
<1> HIDE DEF e
<1>4. ReqType(keys + 1, e)
  BY <1>1, <1>2 DEF ReqType, Kinds, Phases, Statuses, Told, Writes, Body
<1>5. ReqDocs(objs, e) /\ ReqRuns(runs, retriesByKey, e)
  BY <1>1, <1>2 DEF ReqDocs, ReqRuns, Told
<1> QED
  BY <1>2, <1>3, <1>4, <1>5, SameView, SendStep

LEMMA ResendFull ==
    ASSUME Full, Inv', NEW t \in Tabs, NEW header \in BOOLEAN, Resend(t, header)
    PROVE  Full'
<1> DEFINE q == req[t]
           b == IF q.kind = "save" THEN q.body ELSE None
           m == IF q.kind = "save" /\ header THEN q.ifMatch ELSE 0
           e == [NoReq EXCEPT !.kind = q.kind, !.phase = "enter", !.key = q.key, !.body = b, !.ifMatch = m,
                              !.base = q.base, !.source = q.source]
<1>1. /\ t \in Clients /\ Direct \in Clients /\ keys \in Nat /\ Len(objs) \in Nat /\ ReqType(keys, q)
      /\ KeyVers(objs, q)
  BY TabFacts DEF Clients, Full
<1>2. /\ req' = [req EXCEPT ![Direct] = e] /\ q.kind \in Writes
      /\ UNCHANGED <<objs, runs, retriesByKey, log, keys, view, watch>>
  BY DEF Resend, serverVars, Writes
<1>3. /\ b \in Body /\ m \in Nat /\ (m = q.ifMatch \/ m = 0) /\ (q.kind = "save" => b # None)
      /\ (q.kind = "restore" => b = None)
  BY <1>1, <1>2 DEF ReqType, Body, Writes
<1> HIDE DEF b, m
<1>4. /\ DOMAIN e = Fields /\ e.kind = q.kind /\ e.phase = "enter" /\ e.key = q.key /\ e.body = b
      /\ e.ifMatch = m /\ e.source = q.source /\ e.obj = 0 /\ e.gen = 0 /\ e.status = 0
  BY DEF NoReq, Fields
<1> HIDE DEF e
<1>5. ReqType(keys, e)
  <2> HIDE DEF q
  <2> QED
    BY <1>1, <1>2, <1>3, <1>4 DEF ReqType, Kinds, Phases, Statuses, Told, Writes
<1>6. ReqDocs(objs, e) /\ ReqRuns(runs, retriesByKey, e)
  <2> HIDE DEF q
  <2> QED
    BY <1>1, <1>3, <1>4 DEF ReqDocs, ReqRuns, Told
<1>7. KeyVers(objs, e)
  <2> HIDE DEF q
  <2> QED
    BY <1>1, <1>3, <1>4 DEF KeyVers
<1>8. ASSUME NEW u \in Clients, u # Direct PROVE Mates(e, req[u]) /\ Mates(req[u], e)
  <2>1. CASE u = t
    BY <1>3, <1>4, <2>1 DEF Mates
  <2>2. CASE u # t
    <3>1. Mates(q, req[u]) /\ Mates(req[u], q)
      BY <1>1, <2>2 DEF Full
    <3> HIDE DEF q
    <3> QED
      BY <1>3, <1>4, <3>1 DEF Mates
  <2> QED
    BY <2>1, <2>2
<1>9. e.phase \notin {"refetch", "fetched"} /\ keys' \in Nat /\ keys <= keys' /\ ReqType(keys', e)
  BY <1>1, <1>2, <1>4, <1>5
<1> QED
  BY <1>1, <1>2, <1>6, <1>7, <1>8, <1>9, SameView, SentStep

LEMMA DirectDoneFull ==
    ASSUME Full, Inv', DirectDone
    PROVE  Full'
<1>1. /\ UNCHANGED <<objs, runs, retriesByKey, log, keys, view, watch>> /\ req' = [req EXCEPT ![Direct] = NoReq]
      /\ Direct \in Clients /\ keys \in Nat /\ Len(objs) \in Nat
  BY StoreFacts DEF DirectDone, serverVars, Clients, Full, Inv
<1>2. /\ ReqType(keys, NoReq) /\ ReqDocs(objs, NoReq) /\ ReqRuns(runs, retriesByKey, NoReq)
      /\ NoReq.kind = "none" /\ NoReq.phase = "idle"
  BY <1>1, IdleReq
<1>3. KeyVers(objs, NoReq) /\ \A u \in Clients \ {Direct} : Mates(NoReq, req[u]) /\ Mates(req[u], NoReq)
  BY <1>2 DEF KeyVers, Mates
<1>4. keys' \in Nat /\ keys <= keys' /\ ReqType(keys', NoReq) /\ NoReq.phase \notin {"refetch", "fetched"}
  BY <1>1, <1>2
<1> QED
  BY <1>1, <1>2, <1>3, <1>4, SameView, SentStep

LEMMA OperatorFull ==
    ASSUME Full, Inv', NEW t \in Tabs, OperatorStep(t)
    PROVE  Full'
<1>1. t \in Clients /\ view[t].doc.gen \in Nat
  BY TabFacts DEF ViewType
<1>2. ASSUME NEW g \in 1..view[t].doc.gen, restore(t, g) PROVE Full'
  BY <1>1, <1>2, RestoreSent
<1>3. ASSUME NEW w \in watch, RunActions(t, w) PROVE Full'
  <2>1. w.run \in DOMAIN runs
    BY DEF Full, WatchOK
  <2> QED
    BY <1>1, <1>3, <2>1, RetrySent DEF RunActions
<1> QED
  BY <1>2, <1>3, TextFull, AskFull, SaveSent, ReconcileSent, OpenFull, ResendFull DEF OperatorStep
-----------------------------------------------------------------------------
(* Init and Next. *)

LEMMA InitFull == Init => Full
<1> SUFFICES ASSUME Init PROVE Full
  OBVIOUS
<1>1. Inv /\ keys = 0 /\ keys \in Nat /\ req = [p \in Clients |-> NoReq] /\ retriesByKey = {} /\ watch = {} /\ log = {}
      /\ runs = SeedRuns
  BY InitInv DEF Init
<1>2. (objs = <<>> \/ objs = <<SeedState>>) /\ Len(objs) \in Nat
  BY DEF Init
<1>3. ObjsOK(objs, keys) /\ (Len(objs) = 1 => objs[1] = SeedState) /\ Len(objs) <= 1
  <2>1. CASE objs = <<>>
    BY <2>1 DEF ObjsOK, OneText, OneGen
  <2>2. CASE objs = <<SeedState>>
    <3>1. DOMAIN objs = {1} /\ objs[1] = SeedState /\ Len(objs) = 1
      BY <2>2
    <3>2. /\ ObjOK(SeedState, keys)
          /\ \A g \in DOMAIN SeedState.versions : SeedState.versions[g].key = 0 /\ SeedState.versions[g].restoreOf = 0
      BY <1>1, SeedObj
    <3>3. OneText(objs)
      BY <3>1, <3>2 DEF OneText
    <3>4. OneGen(objs)
      BY <3>1, <3>2 DEF OneGen, KeyUse
    <3> QED
      BY <3>1, <3>2, <3>3, <3>4 DEF ObjsOK
  <2> QED
    BY <1>2, <2>1, <2>2
<1>4. RunsOK(runs)
  <2>1. SeedRuns \in Seq(RunDetail) /\ \A r \in DOMAIN SeedRuns : SeedRuns[r].step = 0 /\ SeedRuns[r].retryOf = 0
    BY SpecConsoleAssumption
  <2>2. IsSeq(SeedRuns)
    BY <2>1 DEF IsSeq
  <2>3. ASSUME NEW r \in DOMAIN SeedRuns PROVE RunOK(SeedRuns, r)
    <3>1. SeedRuns[r] \in RunDetail /\ r \in Nat \ {0}
      BY <2>1
    <3>2. Len(SeedRuns[r].script) \in Nat
      BY <3>1 DEF RunDetail
    <3> QED
      BY <2>1, <2>3, <3>1, <3>2 DEF RunOK
  <2> QED
    BY <1>1, <2>2, <2>3 DEF RunsOK
<1>5. RetriesOK(retriesByKey, runs) /\ WatchOK(watch, runs)
  BY <1>1 DEF RetriesOK, WatchOK
<1>6. ASSUME NEW p \in Clients
      PROVE  /\ req[p] = NoReq /\ ReqType(keys, req[p]) /\ ReqDocs(objs, req[p]) /\ KeyVers(objs, req[p])
             /\ ReqRuns(runs, retriesByKey, req[p]) /\ req[p].kind = "none" /\ req[p].body = None
  BY <1>1, <1>2, IdleReq DEF KeyVers
<1>7. \A p, u \in Clients : p # u => Mates(req[p], req[u])
  BY <1>6 DEF Mates
<1>8. ASSUME NEW t \in Tabs PROVE ViewType(view[t]) /\ Shown(objs, view[t], req[t])
  <2> DEFINE n == Len(SeedBodies)
             d == [gen |-> n, body |-> SeedBodies[n]]
             v == [doc |-> d, draft |-> None, base |-> n, checked |-> None, manual |-> None,
                   fetch |-> "idle", answer |-> NoDoc, fetchFailed |-> FALSE, rediff |-> FALSE,
                   saved |-> 0, problem |-> 0]
  <2>1. view[t] = v
    BY DEF Init
  <2>2. n \in Nat /\ SeedBodies[n] \in ValidBodies
    BY SeedLength, SpecConsoleAssumption
  <2>3. d.gen = n /\ d.body = SeedBodies[n]
    OBVIOUS
  <2> HIDE DEF d, n
  <2>4. /\ DOMAIN v = ViewFields /\ v.doc = d /\ v.draft = None /\ v.checked = None /\ v.manual = None
        /\ v.fetch = "idle" /\ v.saved = 0
    BY DEF ViewFields
  <2> HIDE DEF v
  <2>5. ViewType(v)
    BY <2>2, <2>3, <2>4 DEF ViewType, Body
  <2>6. 0 <= Newest(objs)
    <3>1. CASE Len(objs) = 0
      BY <3>1, SeedLength DEF Newest
    <3>2. CASE Len(objs) # 0
      <4>1. Len(objs) = 1 /\ objs[1] = SeedState
        BY <1>2, <1>3, <3>2
      <4> QED
        BY <1>1, <4>1, SeedObj, SeedLength DEF Newest
    <3> QED
      BY <3>1, <3>2
  <2>7. t \in Clients /\ req[t].body = None
    BY <1>6 DEF Clients
  <2>8. Shown(objs, v, req[t])
    BY <2>2, <2>3, <2>4, <2>6, <2>7 DEF Shown
  <2> QED
    BY <2>1, <2>5, <2>8
<1>9. DOMAIN view = Tabs
  BY DEF Init
<1>10. \A w \in log : RunFor(retriesByKey, w)
  BY <1>1
<1> QED
  BY <1>1, <1>3, <1>4, <1>5, <1>6, <1>7, <1>8, <1>9, <1>10 DEF Full

LEMMA NextFull == Full /\ [Next]_vars => Full'
<1> SUFFICES ASSUME Full, [Next]_vars PROVE Full'
  OBVIOUS
<1>1. Inv'
  BY NextInv DEF Full
<1>2. CASE UNCHANGED vars
  <2>1. UNCHANGED <<objs, runs, retriesByKey, log, keys, req, view, watch>>
    BY <1>2 DEF vars, serverVars
  <2> QED
    BY <1>1, <2>1, WatchStep DEF Full
<1>3. ASSUME UNCHANGED clicks, NEW p \in Clients, Server(p) PROVE Full'
  BY <1>3, ServerFull
<1>4. ASSUME NEW t \in Tabs, Client(t) \/ fetchFails(t) \/ validateDebounced(t) \/ setValidation(t) PROVE Full'
  BY <1>1, <1>4, ReceiveFull, SuccessFull, FetchFull, FetchedFull, TextFull DEF Client
<1>5. ASSUME NEW w \in watch, getRun(w) PROVE Full'
  BY <1>1, <1>5, GetRunFull
<1>6. CASE DirectDone
  BY <1>1, <1>6, DirectDoneFull
<1>7. ASSUME NEW t \in Tabs, OperatorStep(t) PROVE Full'
  BY <1>1, <1>7, OperatorFull
<1>8. ASSUME NEW r \in DOMAIN runs, PostRetry(r) PROVE Full'
  BY <1>1, <1>8, RetrySent DEF PostRetry, Clients
<1> QED
  BY <1>2, <1>3, <1>4, <1>5, <1>6, <1>7, <1>8 DEF Next

LEMMA FullHolds == Spec => []Full
BY InitFull, NextFull, PTL DEF Spec

(* Every store, request, run and tab keeps its range, whatever the number of  *)
(* tabs, documents, changes and actions; a stored body is always one that     *)
(* validateSpecBody accepts (saveSpec, spec/schemas.ts).                      *)
THEOREM SpecConsoleTyped == Spec => []TypeOK
<1>1. Full => TypeOK
  <2> SUFFICES ASSUME Full PROVE TypeOK
    OBVIOUS
  <2>1. store \in 0..Len(objs) /\ Len(objs) \in Nat
    BY StoreFacts DEF Full, Inv, StoreInv
  <2>2. \A o \in DOMAIN objs : \A g \in DOMAIN objs[o].versions : VersionOK(objs[o].versions[g], g, keys)
    BY DEF Full, ObjsOK, ObjOK
  <2>3. \A r \in DOMAIN runs : RunOK(runs, r)
    BY DEF Full, RunsOK
  <2>4. ASSUME NEW p \in Clients
        PROVE  /\ req[p].kind \in Kinds /\ req[p].phase \in Phases /\ req[p].status \in Statuses
               /\ req[p].key \in 0..keys /\ req[p].obj \in 0..Len(objs) /\ req[p].body \in Body
    BY <2>1 DEF Full, ReqType, ReqDocs
  <2>5. \A t \in Tabs : ViewType(view[t])
    BY DEF Full
  <2>6. \A w \in watch : w.run \in DOMAIN runs /\ w.seen \in BOOLEAN
    BY DEF Full, WatchOK
  <2>7. \A o \in DOMAIN objs : \A g \in DOMAIN objs[o].versions :
           LET v == objs[o].versions[g]
           IN  v.body \in ValidBodies /\ v.key \in 0..keys /\ v.restoreOf \in 0..(g - 1)
    BY <2>2 DEF VersionOK
  <2>8. \A r \in DOMAIN runs : /\ runs[r] \in RunDetail /\ runs[r].step <= Len(runs[r].script)
                               /\ runs[r].retryOf \in 0..(r - 1)
    BY <2>3 DEF RunOK
  <2>9. \A t \in Tabs : /\ view[t].doc.body \in ValidBodies /\ view[t].draft \in Body /\ view[t].checked \in Body
                        /\ view[t].fetch \in {"idle", "requested", "answered"}
    BY <2>5 DEF ViewType
  <2> QED
    BY <2>1, <2>4, <2>6, <2>7, <2>8, <2>9 DEF TypeOK, Kinds, Phases, Statuses
<1> QED
  BY <1>1, FullHolds, PTL

(* A write that was answered with success lies directly on the generation its *)
(* If-Match named and still holds what was sent, a document that validates,   *)
(* whatever ran at the awaits of its handler (saveSpec).                      *)
THEOREM WritesLandOnIfMatch == Spec => []SavedOnTopOfIfMatch
<1>1. Full => SavedOnTopOfIfMatch
  <2> SUFFICES ASSUME Full PROVE SavedOnTopOfIfMatch
    OBVIOUS
  <2>1. \A w \in log : Laid(w)
    BY DEF Full, Inv
  <2>2. \A o \in DOMAIN objs : \A g \in DOMAIN objs[o].versions : objs[o].versions[g].body \in ValidBodies
    BY DEF Full, ObjsOK, ObjOK, VersionOK
  <2> QED
    BY <2>1, <2>2 DEF Laid, SavedOnTopOfIfMatch
<1> QED
  BY <1>1, FullHolds, PTL

(* A PUT delivered twice makes one generation in whatever states it lands, a  *)
(* success names a version of its own key, and the versions a restore         *)
(* delivered twice may make hold the same text while one state was built      *)
(* (saveSpec, restoreVersion).                                                *)
THEOREM DuplicatesHarmless == Spec => []DuplicatesAgree
<1>1. Full => DuplicatesAgree
  <2> SUFFICES ASSUME Full PROVE DuplicatesAgree
    OBVIOUS
  <2>1. ASSUME NEW o \in DOMAIN objs, NEW u \in DOMAIN objs,
               NEW i \in DOMAIN objs[o].versions, NEW j \in DOMAIN objs[u].versions,
               objs[o].versions[i].key = objs[u].versions[j].key, objs[o].versions[i].key # 0
        PROVE  /\ objs[o].versions[i].restoreOf = 0 => i = j
               /\ Len(objs) = 1 => objs[o].versions[i].body = objs[u].versions[j].body
    <3> DEFINE vs == objs[o].versions
    <3>1. /\ vs[i].restoreOf = objs[u].versions[j].restoreOf
          /\ vs[i].restoreOf = 0 => i = j
      BY <2>1 DEF Full, ObjsOK, OneGen, KeyUse
    <3>2. ASSUME Len(objs) = 1 PROVE vs[i].body = objs[u].versions[j].body
      <4>1. o = 1 /\ u = 1
        BY <3>2, StoreFacts DEF Full, Inv
      <4>2. \A g \in DOMAIN vs : vs[g].restoreOf # 0 => vs[vs[g].restoreOf].body = vs[g].body
        BY <3>2, <4>1 DEF Full, ObjsOK, OneText
      <4>3. i \in DOMAIN vs /\ j \in DOMAIN vs /\ objs[u].versions = vs
        BY <2>1, <4>1
      <4> HIDE DEF vs
      <4> QED
        BY <3>1, <4>2, <4>3
    <3> QED
      BY <3>1, <3>2
  <2>2. \A p \in Clients : req[p].phase = "answered" /\ req[p].status = 202 /\ req[p].body # None =>
           objs[req[p].obj].versions[req[p].gen].key = req[p].key
    BY DEF Full, ReqDocs, Told
  <2> QED
    BY <2>1, <2>2 DEF DuplicatesAgree
<1> QED
  BY <1>1, FullHolds, PTL

(* Two writes never share a reconcile run, and a retried run repeats one that *)
(* had settled, however requests interleave between listRuns and retryRun     *)
(* (enqueueReconcile, retryRun).                                              *)
THEOREM RunsOfWrites == Spec => []RunPerWrite
<1>1. Full => RunPerWrite
  <2> SUFFICES ASSUME Full PROVE RunPerWrite
    OBVIOUS
  <2>1. ASSUME NEW v \in log, NEW w \in log, v.run = w.run PROVE v.key = w.key
    <3>1. RunFor(retriesByKey, v) /\ RunFor(retriesByKey, w)
      BY DEF Full
    <3> DEFINE a == [key |-> <<v.key, TRUE>>, run |-> v.run]
               b == [key |-> <<w.key, TRUE>>, run |-> w.run]
    <3>2. \A e \in retriesByKey : e.run \in Nat \ {0}
      BY RunFacts DEF Full, RetriesOK
    <3>3. a.run = v.run /\ b.run = w.run /\ a.key = <<v.key, TRUE>> /\ b.key = <<w.key, TRUE>>
      OBVIOUS
    <3>4. /\ v.key \in Nat \ {0} /\ w.key \in Nat \ {0}
          /\ (v.run = -v.key \/ a \in retriesByKey) /\ (w.run = -w.key \/ b \in retriesByKey)
      BY <3>1 DEF RunFor
    <3> HIDE DEF a, b
    <3>5. CASE v.run = -v.key
      BY <2>1, <3>2, <3>3, <3>4, <3>5
    <3>6. CASE a \in retriesByKey
      <4>1. b \in retriesByKey
        BY <2>1, <3>2, <3>3, <3>4, <3>6
      <4>2. a.key = b.key
        BY <2>1, <3>3, <3>6, <4>1 DEF Full, RetriesOK
      <4> QED
        BY <3>3, <4>2
    <3> QED
      BY <3>4, <3>5, <3>6
  <2>2. \A r \in DOMAIN runs : runs[r].retryOf # 0 => runs[runs[r].retryOf].finished
    BY DEF Full, RunsOK, RunOK
  <2> QED
    BY <2>1, <2>2 DEF RunPerWrite
<1> QED
  BY <1>1, FullHolds, PTL

(* A retried run applies its changes in order and settles only when all are   *)
(* applied, for any number of changes, pages and polls (retryScript,          *)
(* advanceLive).                                                              *)
THEOREM RetriesInOrder == Spec => []ChangesInOrder
<1>1. Full => ChangesInOrder
  <2> SUFFICES ASSUME Full PROVE ChangesInOrder
    OBVIOUS
  <2>1. ASSUME NEW r \in DOMAIN runs, runs[r].retryOf # 0
        PROVE  /\ \A i, j \in 1..Changes : i < j /\ runs[r].changes[i] # "applied" => runs[r].changes[j] = "pending"
               /\ runs[r].finished => \A i \in 1..Changes : runs[r].changes[i] = "applied"
    <3> DEFINE k == runs[r].step
               c == runs[r].changes
    <3>1. Replays(runs[r]) /\ Changes \in Nat
      BY <2>1, SpecConsoleAssumption DEF Full, RunsOK, RunOK
    <3>2. /\ k \in 0..(Changes + 2) /\ (runs[r].finished => k = Changes + 2)
          /\ \A x \in 1..Changes : c[x] = Stage(x, k)
      BY <3>1 DEF Replays
    <3> HIDE DEF k, c
    <3>3. ASSUME NEW i \in 1..Changes, NEW j \in 1..Changes, i < j, c[i] # "applied" PROVE c[j] = "pending"
      BY <3>1, <3>2, <3>3 DEF Stage
    <3>4. ASSUME runs[r].finished, NEW i \in 1..Changes PROVE c[i] = "applied"
      BY <3>1, <3>2, <3>4 DEF Stage
    <3> QED
      BY <3>3, <3>4 DEF c
  <2> QED
    BY <2>1 DEF ChangesInOrder
<1> QED
  BY <1>1, FullHolds, PTL

(* The editor that announces a saved generation shows it or a later one,      *)
(* unless its refetch failed or two first readers built two states            *)
(* (useInvalidateSpecWrite, onSuccess).                                       *)
THEOREM AnnouncedIsShown == Spec => []SavedIsShown
<1>1. Full => SavedIsShown
  BY DEF Full, Shown, SavedIsShown
<1> QED
  BY <1>1, FullHolds, PTL
=============================================================================
