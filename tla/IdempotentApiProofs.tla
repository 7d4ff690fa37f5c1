------------------------- MODULE IdempotentApiProofs ------------------------
(***************************************************************************)
(* Proofs about IdempotentApi, for any set of requests, keys and inputs,   *)
(* with and without faults.  The handlers' part is SpecWritesProofs!Inv:   *)
(* whatever the middleware does, the tables only see steps of SpecWrites.  *)
(***************************************************************************)
EXTENDS IdempotentApi, SpecWritesProofs

(* Who wrote a message: a create whose tenant has its slug, or a PUT.      *)
CreatorInv ==
  \A m \in outbox :
    /\ input[m.id].op \in {"create", "put"}
    /\ input[m.id].op = "create" => Exists(m.id) /\ tenants[m.id].slug = input[m.id].slug

Stages == {"idle", "find", "run", "store", "replied", "lost"}
Records == [hash : {RequestHash(in) : in \in Inputs} \cup {None}, answer : Answers, live : BOOLEAN]

ApiTypeOK ==
  /\ mw \in [Request -> Stages]
  /\ asked \in [Request -> Inputs \cup {Nothing}]
  /\ key \in [Request -> Key \cup {None}]
  /\ records \in [Key -> Records]
  /\ reply \in [Request -> Answers]
  /\ replayed \in [Request -> BOOLEAN]

(* The handler of a request runs on what was asked, and only then is there *)
(* something to store.                                                     *)
StageInv ==
  \A r \in Request :
    /\ pc[r] # "idle" => mw[r] \notin {"idle", "find"} /\ input[r] = asked[r]
    /\ mw[r] = "find" => key[r] \in Key
    /\ mw[r] = "run" => pc[r] # "idle"
    /\ mw[r] \notin {"idle", "replied"} => asked[r] \in Inputs
    /\ mw[r] = "store" => key[r] \in Key /\ pc[r] = "done" /\ answer[r].status < 500

(* The execution that an answer under a key and a request hash comes from. *)
Executed(q, k, h, a) ==
  /\ key[q] = k /\ RequestHash(asked[q]) = h
  /\ pc[q] = "done" /\ answer[q] = a /\ a.status < 500

(* A stored response, expired or not, is that of such an execution, and a  *)
(* replayed one that of another request.                                   *)
RecordInv ==
  \A k \in Key : records[k] # NoRecord =>
    \E q \in Request : Executed(q, k, records[k].hash, records[k].answer)
ReplayInv ==
  \A r \in Request : replayed[r] = TRUE =>
    /\ mw[r] = "replied"
    /\ \E q \in Request \ {r} : Executed(q, key[r], RequestHash(asked[r]), reply[r])

ApiInv == Inv /\ CreatorInv /\ ApiTypeOK /\ StageInv /\ RecordInv /\ ReplayInv
-----------------------------------------------------------------------------
(* The handlers, seen from the middleware.                                 *)

(* A step of a handler moves one request, which had begun and is not done. *)
LEMMA HandlerMoves ==
  ASSUME TypeOK, NEW r \in Request, Handle(r) \/ Fault(r)
  PROVE  /\ pc[r] \notin {"idle", "done"} /\ pc'[r] # "idle" /\ UNCHANGED input
         /\ \A q \in Request \ {r} : pc'[q] = pc[q] /\ answer'[q] = answer[q]
<1>1. pc \in [Request -> Labels] /\ answer \in [Request -> Answers]
  BY DEF TypeOK
<1>2. /\ pc[r] \notin {"idle", "done"} /\ UNCHANGED input
      /\ \E label \in Labels \ {"idle"} : pc' = [pc EXCEPT ![r] = label]
      /\ UNCHANGED answer \/ \E a : answer' = [answer EXCEPT ![r] = a]
  <2>1. CASE CreateCheck(r)
    BY <2>1 DEF CreateCheck, At, Respond, Goto, Labels
  <2>2. CASE CreateSave(r) \/ UpdateSave(r)
    BY <2>2 DEF CreateSave, UpdateSave, CreateCommit, UpdateCommit, At, Respond, Goto, Labels
  <2>3. CASE UpdateFind(r)
    BY <2>3 DEF UpdateFind, At, Respond, Goto, Labels
  <2>4. CASE UpdateLatest(r)
    BY <2>4 DEF UpdateLatest, At, Respond, Goto, Labels
  <2>5. CASE SaveConflict(r) \/ SaveFails(r)
    BY <2>5 DEF SaveConflict, SaveFails, Conflicting, At, Respond, Goto, Labels
  <2>6. CASE GetTenant(r) \/ GetSpec(r)
    BY <2>6 DEF GetTenant, GetSpec, At, Respond, Goto, Labels
  <2>7. CASE SaveAckLost(r)
    BY <2>7 DEF SaveAckLost, CreateCommit, UpdateCommit, At, Respond, Goto, Labels
  <2>8. CASE Abort(r)
    BY <2>8 DEF Abort, Goto, Labels
  <2> QED
    BY <2>1, <2>2, <2>3, <2>4, <2>5, <2>6, <2>7, <2>8 DEF Handle, Fault
<1> QED
  BY <1>1, <1>2

(* Only a commit touches tenants and messages.                             *)
LEMMA CreatorStep ==
  ASSUME Inv, CreatorInv, [Next]_vars
  PROVE  CreatorInv'
<1>1. /\ TypeOK /\ tenants \in [Request -> Rows] /\ input \in [Request -> Inputs \cup {Nothing}]
      /\ \A m \in outbox : m.id \in Request /\ pc[m.id] = "done"
  BY DEF Inv, TypeOK, AuthorInv
<1>2. CASE UNCHANGED <<tenants, outbox, input>>
  BY <1>2 DEF CreatorInv, Exists
<1>3. ASSUME NEW r \in Request, NEW in \in Inputs, Begin(r, in) PROVE CreatorInv'
  <2>1. pc[r] = "idle" /\ UNCHANGED <<tenants, outbox>> /\ \A q \in Request \ {r} : input'[q] = input[q]
    BY <1>1, <1>3 DEF Begin, dbVars
  <2> QED
    BY <1>1, <2>1 DEF CreatorInv, Exists
<1>4. ASSUME NEW r \in Request, CreateCommit(r), UNCHANGED input PROVE CreatorInv'
  <2>1. /\ pc[r] = "save" /\ input[r].op = "create"
        /\ tenants'[r].slug = input[r].slug /\ tenants'[r].generation = 1
        /\ \A q \in Request \ {r} : tenants'[q] = tenants[q]
        /\ \A m \in outbox' : m \in outbox \/ m.id = r
    BY <1>1, <1>4 DEF CreateCommit, At, Commit, SpecWrittenMessage
  <2> QED
    BY <1>1, <1>4, <2>1 DEF CreatorInv, Exists
<1>5. ASSUME NEW r \in Request, UpdateCommit(r), UNCHANGED input PROVE CreatorInv'
  <2>1. seen[r] \in Nat /\ input[r].tenant \in Request
    BY <1>1, <1>5, InputFields DEF UpdateCommit, At, TypeOK
  <2>2. /\ input[r].op = "put"
        /\ \A q \in Request : tenants'[q].slug = tenants[q].slug
        /\ \A q \in Request : Exists(q) => Exists(q)'
        /\ \A m \in outbox' : m \in outbox \/ m.id = r
    BY <1>1, <1>5, <2>1 DEF UpdateCommit, At, Commit, SpecWrittenMessage, Exists
  <2> QED
    BY <1>1, <1>5, <2>2 DEF CreatorInv
<1>6. ASSUME NEW r \in Request, Handle(r) \/ Fault(r) PROVE CreatorInv'
  <2>1. UNCHANGED input
    BY <1>1, <1>6, HandlerMoves
  <2>2. CASE CreateSave(r) \/ UpdateSave(r) \/ SaveAckLost(r)
    BY <1>4, <1>5, <2>1, <2>2 DEF CreateSave, UpdateSave, SaveAckLost
  <2>3. CASE CreateCheck(r) \/ UpdateFind(r) \/ UpdateLatest(r) \/ SaveConflict(r)
             \/ GetTenant(r) \/ GetSpec(r) \/ SaveFails(r) \/ Abort(r)
    BY <1>2, <2>1, <2>3 DEF CreateCheck, UpdateFind, UpdateLatest, SaveConflict, GetTenant,
       GetSpec, SaveFails, Abort, dbVars
  <2> QED
    BY <1>6, <2>2, <2>3 DEF Handle, Fault
<1> QED
  BY <1>2, <1>3, <1>6 DEF Next, vars, dbVars, reqVars
-----------------------------------------------------------------------------
(* The middleware.                                                         *)

(* What was executed stays executed: nobody asks twice under one request,  *)
(* and a request that is done keeps its answer.                            *)
Kept(q) ==
  /\ mw[q] # "idle" => asked'[q] = asked[q] /\ key'[q] = key[q]
  /\ pc[q] = "done" => pc'[q] = "done" /\ answer'[q] = answer[q]

LEMMA ExecutedStays ==
  ASSUME StageInv, NEW q \in Request, Kept(q), NEW k, NEW h, NEW a, Executed(q, k, h, a)
  PROVE  Executed(q, k, h, a)'
<1>1. mw[q] # "idle"
  BY DEF StageInv, Executed
<1> QED
  BY <1>1 DEF Kept, Executed

(* Every step of the composition is a step of SpecWrites or leaves it alone. *)
LEMMA ApiStepIsHandlerStep ==
  ASSUME ApiInv, [ApiNext]_apiVars
  PROVE  [Next]_vars
<1>1. CASE UNCHANGED apiVars
  BY <1>1 DEF apiVars
<1>2. ASSUME NEW r \in Request, NEW k, NEW in \in Workload, Arrive(r, k, in) PROVE [Next]_vars
  <2>1. in \in Inputs /\ (Begin(r, in) \/ UNCHANGED vars)
    BY <1>2, ApiAssumption DEF Arrive
  <2> QED
    BY <2>1 DEF Next
<1>3. ASSUME NEW r \in Request, Find(r) PROVE [Next]_vars
  <2>1. asked[r] \in Inputs /\ (Begin(r, asked[r]) \/ UNCHANGED vars)
    BY <1>3 DEF Find, ApiInv, StageInv
  <2> QED
    BY <2>1 DEF Next
<1>4. ASSUME NEW r \in Request, Run(r) PROVE [Next]_vars
  BY <1>4 DEF Run, Next, Fault
<1>5. ASSUME NEW r \in Request, Deliver(r) \/ Store(r) PROVE [Next]_vars
  BY <1>5 DEF Deliver, Store
<1>6. ASSUME NEW r \in Request, Cut(r) PROVE [Next]_vars
  BY <1>6 DEF Cut, Next, Fault
<1>7. ASSUME NEW k \in Key, Expire(k) PROVE [Next]_vars
  BY <1>7 DEF Expire
<1> QED
  BY <1>1, <1>2, <1>3, <1>4, <1>5, <1>6, <1>7 DEF ApiNext, Serve

(* Steps that store nothing: records and replays stay true if a request    *)
(* that is replayed to now is replayed what another one was answered.      *)
Replays(r) ==
  /\ mw[r] # "idle" /\ mw'[r] = "replied"
  /\ \E q \in Request \ {r} : Executed(q, key[r], RequestHash(asked[r]), reply'[r])

LEMMA ReplayStays ==
  ASSUME ReplayInv, NEW r \in Request, replayed[r] = TRUE, mw'[r] = mw[r], reply'[r] = reply[r]
  PROVE  Replays(r)
  BY DEF ReplayInv, Replays, Executed

LEMMA ReplaysKept ==
  ASSUME StageInv, \A q \in Request : Kept(q), \A r \in Request : replayed'[r] = TRUE => Replays(r)
  PROVE  ReplayInv'
<1>1. ASSUME NEW r \in Request, replayed'[r] = TRUE
      PROVE  mw'[r] = "replied" /\ \E q \in Request \ {r} : Executed(q, key[r], RequestHash(asked[r]), reply[r])'
  <2>1. mw[r] # "idle" /\ mw'[r] = "replied"
    BY <1>1 DEF Replays
  <2>2. asked'[r] = asked[r] /\ key'[r] = key[r]
    BY <2>1 DEF Kept
  <2>3. PICK q \in Request \ {r} : Executed(q, key[r], RequestHash(asked[r]), reply'[r])
    BY <1>1 DEF Replays
  <2>4. mw[q] # "idle"
    BY <2>3 DEF StageInv, Executed
  <2>5. Executed(q, key[r], RequestHash(asked[r]), reply[r])'
    BY <2>2, <2>3, <2>4 DEF Kept, Executed
  <2> QED
    BY <2>1, <2>5
<1> QED
  BY <1>1 DEF ReplayInv

LEMMA RecordsKept ==
  ASSUME StageInv, RecordInv, \A q \in Request : Kept(q), UNCHANGED records
  PROVE  RecordInv'
  BY ExecutedStays DEF RecordInv

(* Of a request nothing changes but what a step does to another one.       *)
Still(q) ==
  /\ mw'[q] = mw[q] /\ asked'[q] = asked[q] /\ key'[q] = key[q]
  /\ reply'[q] = reply[q] /\ replayed'[q] = replayed[q]
  /\ pc'[q] = pc[q] /\ input'[q] = input[q] /\ answer'[q] = answer[q]

StageOf(r) ==
  /\ pc[r] # "idle" => mw[r] \notin {"idle", "find"} /\ input[r] = asked[r]
  /\ mw[r] = "find" => key[r] \in Key
  /\ mw[r] = "run" => pc[r] # "idle"
  /\ mw[r] \notin {"idle", "replied"} => asked[r] \in Inputs
  /\ mw[r] = "store" => key[r] \in Key /\ pc[r] = "done" /\ answer[r].status < 500

LEMMA OneRequestMoves ==
  ASSUME ApiInv, NEW r \in Request, \A q \in Request \ {r} : Still(q),
         Kept(r), StageOf(r)', replayed'[r] = TRUE => Replays(r)
  PROVE  StageInv' /\ ReplayInv' /\ \A q \in Request : Kept(q)
<1>1. \A q \in Request : Kept(q)
  BY DEF Still, Kept
<1>2. \A q \in Request : StageOf(q)'
  BY DEF ApiInv, StageInv, StageOf, Still
<1>3. \A q \in Request : replayed'[q] = TRUE => Replays(q)
  BY ReplayStays DEF ApiInv, Still
<1> QED
  BY <1>1, <1>2, <1>3, ReplaysKept DEF ApiInv, StageInv, StageOf

LEMMA ArriveKeeps ==
  ASSUME ApiInv, NEW r \in Request, NEW k \in Key \cup {None}, NEW in \in Workload, Arrive(r, k, in)
  PROVE  ApiTypeOK' /\ StageInv' /\ RecordInv' /\ ReplayInv'
<1>1. TypeOK /\ ApiTypeOK /\ StageInv /\ in \in Inputs
  BY ApiAssumption DEF ApiInv, Inv
<1>2. /\ mw[r] = "idle" /\ pc[r] = "idle" /\ replayed[r] # TRUE
      /\ asked' = [asked EXCEPT ![r] = in] /\ key' = [key EXCEPT ![r] = k] /\ UNCHANGED records
  BY DEF Arrive, ApiInv, StageInv, ReplayInv
<1>3. Problem(400) \in Answers
  BY DEF Problem, Answers
<1>4. \/ /\ mw' = [mw EXCEPT ![r] = "run"] /\ UNCHANGED <<reply, replayed, answer>>
         /\ pc' = [pc EXCEPT ![r] = "start"] /\ input' = [input EXCEPT ![r] = in]
      \/ /\ mw' = [mw EXCEPT ![r] = "replied"] /\ reply' = [reply EXCEPT ![r] = Problem(400)]
         /\ replayed' = [replayed EXCEPT ![r] = FALSE] /\ UNCHANGED <<pc, input, answer>>
      \/ /\ mw' = [mw EXCEPT ![r] = "find"] /\ k \in Key
         /\ UNCHANGED <<reply, replayed, pc, input, answer>>
  BY DEF Arrive, Begin, Goto, Reply, vars, reqVars
<1>5. ApiTypeOK'
  <2>1. mw' \in [Request -> Stages]
    BY <1>1, <1>4 DEF ApiTypeOK, Stages
  <2>2. reply' \in [Request -> Answers]
    BY <1>1, <1>3, <1>4 DEF ApiTypeOK
  <2>3. replayed' \in [Request -> BOOLEAN]
    BY <1>1, <1>4 DEF ApiTypeOK
  <2>4. asked' \in [Request -> Inputs \cup {Nothing}] /\ key' \in [Request -> Key \cup {None}]
    BY <1>1, <1>2 DEF ApiTypeOK
  <2> QED
    BY <1>1, <1>2, <2>1, <2>2, <2>3, <2>4 DEF ApiTypeOK
<1>6. \A q \in Request \ {r} : Still(q)
  BY <1>1, <1>2, <1>4 DEF Still, TypeOK, ApiTypeOK
<1>7. Kept(r) /\ StageOf(r)' /\ replayed'[r] # TRUE
  <2>1. asked'[r] = in /\ key'[r] = k /\ Kept(r)
    BY <1>1, <1>2 DEF ApiTypeOK, Kept
  <2>2. replayed'[r] # TRUE
    BY <1>1, <1>2, <1>4 DEF ApiTypeOK
  <2>3. \/ mw'[r] = "run" /\ pc'[r] = "start" /\ input'[r] = in
        \/ mw'[r] = "replied" /\ pc'[r] = "idle"
        \/ mw'[r] = "find" /\ pc'[r] = "idle" /\ k \in Key
    BY <1>1, <1>2, <1>4 DEF ApiTypeOK, TypeOK
  <2>4. StageOf(r)'
    BY <1>1, <2>1, <2>3 DEF StageOf
  <2> QED
    BY <2>1, <2>2, <2>4
<1>8. StageInv' /\ ReplayInv' /\ \A q \in Request : Kept(q)
  BY <1>6, <1>7, OneRequestMoves
<1> QED
  BY <1>2, <1>5, <1>8, RecordsKept DEF ApiInv

(* A replay tells what the request that stored the record was answered.    *)
LEMMA FindKeeps ==
  ASSUME ApiInv, NEW r \in Request, Find(r)
  PROVE  ApiTypeOK' /\ StageInv' /\ RecordInv' /\ ReplayInv'
<1>1. TypeOK /\ ApiTypeOK /\ StageInv
  BY DEF ApiInv, Inv
<1>2. /\ mw[r] = "find" /\ pc[r] = "idle" /\ replayed[r] # TRUE /\ key[r] \in Key
      /\ asked[r] \in Inputs /\ UNCHANGED <<asked, key, records>>
  BY DEF Find, ApiInv, StageInv, ReplayInv
<1>3. Problem(422) \in Answers /\ records[key[r]] \in Records /\ records[key[r]].answer \in Answers
  BY <1>1, <1>2 DEF Problem, Answers, ApiTypeOK, Records
<1>4. \/ /\ mw' = [mw EXCEPT ![r] = "run"] /\ UNCHANGED <<reply, replayed, answer>>
         /\ pc' = [pc EXCEPT ![r] = "start"] /\ input' = [input EXCEPT ![r] = asked[r]]
      \/ /\ mw' = [mw EXCEPT ![r] = "replied"] /\ reply' = [reply EXCEPT ![r] = Problem(422)]
         /\ replayed' = [replayed EXCEPT ![r] = FALSE] /\ UNCHANGED <<pc, input, answer>>
      \/ /\ mw' = [mw EXCEPT ![r] = "replied"] /\ reply' = [reply EXCEPT ![r] = records[key[r]].answer]
         /\ replayed' = [replayed EXCEPT ![r] = TRUE] /\ UNCHANGED <<pc, input, answer>>
         /\ Live(key[r]) /\ records[key[r]].hash = RequestHash(asked[r])
  BY DEF Find, Begin, Goto, Reply, vars, reqVars
<1>5. ApiTypeOK'
  <2>1. mw' \in [Request -> Stages]
    BY <1>1, <1>4 DEF ApiTypeOK, Stages
  <2>2. reply' \in [Request -> Answers]
    BY <1>1, <1>3, <1>4 DEF ApiTypeOK
  <2>3. replayed' \in [Request -> BOOLEAN]
    BY <1>1, <1>4 DEF ApiTypeOK
  <2> QED
    BY <1>1, <1>2, <2>1, <2>2, <2>3 DEF ApiTypeOK
<1>6. \A q \in Request \ {r} : Still(q)
  BY <1>1, <1>2, <1>4 DEF Still, TypeOK, ApiTypeOK
<1>7. Kept(r) /\ StageOf(r)'
  BY <1>1, <1>2, <1>4 DEF Kept, StageOf, TypeOK, ApiTypeOK
<1>8. ASSUME replayed'[r] = TRUE PROVE Replays(r)
  <2>1. /\ Live(key[r]) /\ records[key[r]].hash = RequestHash(asked[r])
        /\ mw'[r] = "replied" /\ reply'[r] = records[key[r]].answer
    BY <1>1, <1>2, <1>4, <1>8 DEF ApiTypeOK
  <2>2. records[key[r]] # NoRecord
    BY <2>1 DEF Live, NoRecord
  <2>3. PICK q \in Request : Executed(q, key[r], records[key[r]].hash, records[key[r]].answer)
    BY <1>2, <2>2 DEF ApiInv, RecordInv
  <2>4. q # r
    BY <1>2, <2>3 DEF Executed
  <2> QED
    BY <1>2, <2>1, <2>3, <2>4 DEF Replays
<1>9. StageInv' /\ ReplayInv' /\ \A q \in Request : Kept(q)
  BY <1>6, <1>7, <1>8, OneRequestMoves
<1> QED
  BY <1>2, <1>5, <1>9, RecordsKept DEF ApiInv

LEMMA RunKeeps ==
  ASSUME ApiInv, NEW r \in Request, Run(r)
  PROVE  ApiTypeOK' /\ StageInv' /\ RecordInv' /\ ReplayInv'
<1>1. TypeOK /\ ApiTypeOK /\ StageInv
  BY DEF ApiInv, Inv
<1>2. mw[r] = "run" /\ UNCHANGED mwVars /\ (Handle(r) \/ Fault(r)) /\ replayed[r] # TRUE
  BY DEF Run, Fault, ApiInv, ReplayInv
<1>3. /\ pc[r] \notin {"idle", "done"} /\ pc'[r] # "idle" /\ UNCHANGED input
      /\ \A q \in Request \ {r} : pc'[q] = pc[q] /\ answer'[q] = answer[q]
  BY <1>1, <1>2, HandlerMoves
<1>4. ApiTypeOK' /\ \A q \in Request \ {r} : Still(q)
  BY <1>1, <1>2, <1>3 DEF ApiTypeOK, mwVars, Still
<1>5. Kept(r) /\ StageOf(r)'
  BY <1>1, <1>2, <1>3 DEF Kept, StageOf, StageInv, mwVars
<1>6. StageInv' /\ ReplayInv' /\ \A q \in Request : Kept(q)
  BY <1>2, <1>4, <1>5, OneRequestMoves DEF mwVars
<1> QED
  BY <1>2, <1>4, <1>6, RecordsKept DEF ApiInv, mwVars

LEMMA DeliverKeeps ==
  ASSUME ApiInv, NEW r \in Request, Deliver(r)
  PROVE  ApiTypeOK' /\ StageInv' /\ RecordInv' /\ ReplayInv'
<1>1. TypeOK /\ ApiTypeOK /\ StageInv
  BY DEF ApiInv, Inv
<1>2. /\ mw[r] = "run" /\ pc[r] = "done" /\ replayed[r] # TRUE
      /\ reply' = [reply EXCEPT ![r] = answer[r]]
      /\ UNCHANGED <<pc, input, answer, asked, key, records, replayed>>
      /\ \/ mw' = [mw EXCEPT ![r] = "replied"]
         \/ mw' = [mw EXCEPT ![r] = "store"] /\ key[r] # None /\ answer[r].status < 500
  BY DEF Deliver, Storable, ApiInv, ReplayInv, vars, reqVars
<1>3. ApiTypeOK' /\ \A q \in Request \ {r} : Still(q)
  BY <1>1, <1>2 DEF ApiTypeOK, TypeOK, Stages, Still
<1>4. Kept(r) /\ StageOf(r)'
  BY <1>1, <1>2 DEF Kept, StageOf, StageInv, ApiTypeOK
<1>5. StageInv' /\ ReplayInv' /\ \A q \in Request : Kept(q)
  BY <1>2, <1>3, <1>4, OneRequestMoves
<1> QED
  BY <1>2, <1>3, <1>5, RecordsKept DEF ApiInv

LEMMA StoreKeeps ==
  ASSUME ApiInv, NEW r \in Request, Store(r)
  PROVE  ApiTypeOK' /\ StageInv' /\ RecordInv' /\ ReplayInv'
<1> DEFINE rec == [hash |-> RequestHash(asked[r]), answer |-> answer[r], live |-> TRUE]
<1>1. TypeOK /\ ApiTypeOK /\ StageInv
  BY DEF ApiInv, Inv
<1>2. /\ mw[r] = "store" /\ replayed[r] # TRUE /\ mw' = [mw EXCEPT ![r] = "replied"]
      /\ UNCHANGED <<pc, input, answer, asked, key, reply, replayed>>
      /\ UNCHANGED records \/ records' = [records EXCEPT ![key[r]] = rec]
  BY DEF Store, ApiInv, ReplayInv, vars, reqVars
<1>3. /\ key[r] \in Key /\ pc[r] = "done" /\ answer[r].status < 500 /\ answer[r] \in Answers
      /\ asked[r] \in Inputs
  BY <1>1, <1>2 DEF StageInv, TypeOK
<1>4. rec \in Records
  BY <1>3 DEF Records
<1>5. ApiTypeOK' /\ \A q \in Request \ {r} : Still(q)
  BY <1>1, <1>2, <1>3, <1>4 DEF ApiTypeOK, Stages, Still
<1>6. Kept(r) /\ StageOf(r)'
  BY <1>1, <1>2 DEF Kept, StageOf, StageInv, ApiTypeOK
<1>7. StageInv' /\ ReplayInv' /\ \A q \in Request : Kept(q)
  BY <1>2, <1>5, <1>6, OneRequestMoves
<1>8. CASE UNCHANGED records
  BY <1>5, <1>7, <1>8, RecordsKept DEF ApiInv
<1>9. CASE records' = [records EXCEPT ![key[r]] = rec]
  <2>1. Executed(r, key[r], rec.hash, rec.answer)'
    BY <1>2, <1>3 DEF Executed
  <2>2. records'[key[r]] = rec /\ \A k \in Key \ {key[r]} : records'[k] = records[k]
    BY <1>1, <1>3, <1>9 DEF ApiTypeOK
  <2>3. ASSUME NEW k \in Key \ {key[r]}, records[k] # NoRecord
        PROVE  \E q \in Request : Executed(q, k, records[k].hash, records[k].answer)'
    <3>1. PICK q \in Request : Executed(q, k, records[k].hash, records[k].answer)
      BY <2>3 DEF ApiInv, RecordInv
    <3>2. mw[q] # "idle" /\ records'[k] = records[k]
      BY <1>1, <2>2, <3>1 DEF StageInv, Executed
    <3> QED
      BY <1>7, <3>1, <3>2 DEF Kept, Executed
  <2>4. RecordInv'
    BY <1>2, <2>1, <2>2, <2>3 DEF RecordInv
  <2> QED
    BY <1>5, <1>7, <2>4
<1> QED
  BY <1>2, <1>8, <1>9

LEMMA CutKeeps ==
  ASSUME ApiInv, NEW r \in Request, Cut(r)
  PROVE  ApiTypeOK' /\ StageInv' /\ RecordInv' /\ ReplayInv'
<1>1. TypeOK /\ ApiTypeOK /\ StageInv
  BY DEF ApiInv, Inv
<1>2. /\ mw[r] \in {"find", "run", "store"} /\ replayed[r] # TRUE /\ mw' = [mw EXCEPT ![r] = "lost"]
      /\ UNCHANGED <<asked, key, records, reply, replayed>>
      /\ (Abort(r) /\ mw[r] = "run") \/ UNCHANGED vars
  BY DEF Cut, ApiInv, ReplayInv
<1>3. /\ UNCHANGED input
      /\ pc[r] = "idle" => pc'[r] = "idle"
      /\ pc[r] = "done" => pc'[r] = "done" /\ answer'[r] = answer[r]
      /\ \A q \in Request \ {r} : pc'[q] = pc[q] /\ answer'[q] = answer[q]
  BY <1>1, <1>2, HandlerMoves DEF Fault, vars, reqVars
<1>4. ApiTypeOK' /\ \A q \in Request \ {r} : Still(q)
  BY <1>1, <1>2, <1>3 DEF ApiTypeOK, Stages, Still
<1>5. Kept(r) /\ StageOf(r)'
  BY <1>1, <1>2, <1>3 DEF Kept, StageOf, StageInv, ApiTypeOK
<1>6. StageInv' /\ ReplayInv' /\ \A q \in Request : Kept(q)
  BY <1>2, <1>4, <1>5, OneRequestMoves
<1> QED
  BY <1>2, <1>4, <1>6, RecordsKept DEF ApiInv

LEMMA ExpireKeeps ==
  ASSUME ApiInv, NEW k \in Key, Expire(k)
  PROVE  ApiTypeOK' /\ StageInv' /\ RecordInv' /\ ReplayInv'
<1>1. TypeOK /\ ApiTypeOK /\ StageInv
  BY DEF ApiInv, Inv
<1>2. /\ records[k].live /\ records' = [records EXCEPT ![k].live = FALSE]
      /\ UNCHANGED <<pc, input, answer, mw, asked, key, reply, replayed>>
  BY DEF Expire, Live, vars, reqVars
<1>3. ApiTypeOK'
  BY <1>1, <1>2 DEF ApiTypeOK, Records
<1>4. StageInv' /\ ReplayInv'
  BY <1>2 DEF ApiInv, StageInv, ReplayInv, Executed
<1>5. /\ records[k] # NoRecord /\ records'[k].hash = records[k].hash /\ records'[k].answer = records[k].answer
      /\ \A j \in Key \ {k} : records'[j] = records[j]
  BY <1>1, <1>2 DEF ApiTypeOK, Records, NoRecord
<1>6. RecordInv'
  BY <1>2, <1>5 DEF ApiInv, RecordInv, Executed
<1> QED
  BY <1>3, <1>4, <1>6

LEMMA ApiInvInit == ApiInit => ApiInv
<1> SUFFICES ASSUME ApiInit PROVE ApiInv
  OBVIOUS
<1>1. Inv
  BY InvInit DEF ApiInit
<1>2. CreatorInv /\ StageInv /\ RecordInv /\ ReplayInv
  BY DEF ApiInit, Init, CreatorInv, StageInv, RecordInv, ReplayInv
<1>3. NoAnswer \in Answers /\ NoRecord \in Records
  BY DEF NoAnswer, NoRecord, Answers, Records
<1>4. ApiTypeOK
  BY <1>3 DEF ApiInit, ApiTypeOK, Stages
<1> QED
  BY <1>1, <1>2, <1>4 DEF ApiInv

LEMMA ApiInvStep == ApiInv /\ [ApiNext]_apiVars => ApiInv'
<1> SUFFICES ASSUME ApiInv, [ApiNext]_apiVars PROVE ApiInv'
  OBVIOUS
<1>1. Inv' /\ CreatorInv'
  BY ApiStepIsHandlerStep, InvStep, CreatorStep DEF ApiInv
<1>2. CASE UNCHANGED apiVars
  <2>1. ApiTypeOK' /\ StageInv' /\ RecordInv' /\ ReplayInv'
    BY <1>2 DEF apiVars, mwVars, vars, reqVars, ApiInv, ApiTypeOK, StageInv, RecordInv, ReplayInv, Executed
  <2> QED
    BY <1>1, <2>1 DEF ApiInv
<1>3. CASE ApiNext
  <2>1. ApiTypeOK' /\ StageInv' /\ RecordInv' /\ ReplayInv'
    BY <1>3, ArriveKeeps, FindKeeps, RunKeeps, DeliverKeeps, StoreKeeps, CutKeeps, ExpireKeeps DEF ApiNext, Serve
  <2> QED
    BY <1>1, <2>1 DEF ApiInv
<1> QED
  BY <1>2, <1>3
-----------------------------------------------------------------------------
(* The theorems.                                                           *)

(* The inductive invariant of the middleware around the handlers.          *)
THEOREM ApiInvariance == ApiSpec => []ApiInv
  BY ApiInvInit, ApiInvStep, PTL DEF ApiSpec

(* A mutation repeated under its key takes effect at most once, for any    *)
(* number of copies, keys and faults: two creates of one slug, or two PUTs *)
(* of one generation, cannot both have written (UpdateTenantSpec,          *)
(* CreateTenant behind IdempotencyMiddleware).                             *)
THEOREM TakesEffectOnce == ApiSpec => []AtMostOnce
<1>1. ASSUME ApiInv PROVE AtMostOnce
  <2> SUFFICES ASSUME NEW r \in Request, NEW q \in Request, asked[r] = asked[q], Wrote(r), Wrote(q)
               PROVE  r = q
    BY DEF AtMostOnce
  <2>1. PICK m \in outbox : m.id = r
    BY DEF Wrote
  <2>2. PICK n \in outbox : n.id = q
    BY DEF Wrote
  <2>3. pc[r] = "done" /\ pc[q] = "done"
    BY <1>1, <2>1, <2>2 DEF ApiInv, Inv, AuthorInv
  <2>4. input[r] = asked[r] /\ input[q] = asked[q]
    BY <1>1, <2>3 DEF ApiInv, StageInv
  <2>5. CASE input[r].op = "create"
    BY <1>1, <2>1, <2>2, <2>4, <2>5 DEF ApiInv, CreatorInv, Inv, TablesInv, OneTenantPerSlug
  <2>6. CASE input[r].op = "put"
    <3>1. m.tenant = n.tenant /\ m.generation = n.generation
      BY <1>1, <2>1, <2>2, <2>4, <2>6 DEF ApiInv, Inv, AuthorInv
    <3> QED
      BY <1>1, <2>1, <2>2, <3>1 DEF ApiInv, Inv, TablesInv, EveryWriteAnnouncedOnce
  <2> QED
    BY <1>1, <2>1, <2>5, <2>6 DEF ApiInv, CreatorInv
<1> QED
  BY <1>1, ApiInvariance, PTL

(* A replay repeats the answer of an execution of that very request, and   *)
(* what it says was written is in the history (IdempotencyMiddleware).     *)
THEOREM ReplaysTellTheTruth == ApiSpec => []ReplaysAreTrue
<1>1. ASSUME ApiInv PROVE ReplaysAreTrue
  <2> SUFFICES ASSUME NEW r \in Request, replayed[r]
               PROVE  \E q \in Request \ {r} :
                        /\ SameRequest(r, q) /\ pc[q] = "done"
                        /\ answer[q] = reply[r] /\ reply[r].status < 500
                        /\ reply[r].changed =>
                             \E s \in specs :
                               /\ s.generation = reply[r].generation /\ s.hash = reply[r].hash
                               /\ SpecWrittenMessage(q, s.tenant, s.generation, s.hash) \in outbox
    BY DEF ReplaysAreTrue
  <2>1. replayed[r] = TRUE
    BY <1>1 DEF ApiInv, ApiTypeOK
  <2>2. PICK q \in Request \ {r} : Executed(q, key[r], RequestHash(asked[r]), reply[r])
    BY <1>1, <2>1 DEF ApiInv, ReplayInv
  <2>3. SameRequest(r, q) /\ pc[q] = "done" /\ answer[q] = reply[r] /\ reply[r].status < 500
    BY <2>2 DEF Executed, SameRequest
  <2>4. ASSUME reply[r].changed
        PROVE  \E s \in specs :
                 /\ s.generation = reply[r].generation /\ s.hash = reply[r].hash
                 /\ SpecWrittenMessage(q, s.tenant, s.generation, s.hash) \in outbox
    <3> DEFINE t == IF input[q].op = "create" THEN q ELSE input[q].tenant
    <3>1. PICK s \in specs : /\ s = SpecRow(t, answer[q].generation, answer[q].hash)
                             /\ SpecWrittenMessage(q, s.tenant, s.generation, s.hash) \in outbox
      BY <1>1, <2>3, <2>4 DEF ApiInv, Inv, AcknowledgedIsWritten
    <3>2. s.generation = reply[r].generation /\ s.hash = reply[r].hash
      BY <2>3, <3>1 DEF SpecRow
    <3> QED
      BY <3>1, <3>2
  <2> QED
    BY <2>3, <2>4
<1> QED
  BY <1>1, ApiInvariance, PTL
=============================================================================
