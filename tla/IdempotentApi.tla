---------------------------- MODULE IdempotentApi ---------------------------
(***************************************************************************)
(* IdempotencyMiddleware in front of the handlers of SpecWrites, with the  *)
(* idempotency_keys table of IdempotencyStore.                             *)
(*                                                                         *)
(* A mutation looks its key up, runs the handler when there is no live     *)
(* record, sends the response and only then stores it, in a transaction of *)
(* its own.  Another request with the key may be anywhere in between, and  *)
(* a crash may fall between any two of these steps.                        *)
(*                                                                         *)
(* A Key stands for an (actor, Idempotency-Key) pair.                      *)
(***************************************************************************)
EXTENDS SpecWrites

CONSTANTS Key,
          Workload   \* the inputs that clients send

ASSUME ApiAssumption == None \notin Key /\ Workload \subseteq Inputs

VARIABLES mw,        \* where each request is in the middleware
          asked,     \* the request as it arrived
          key,       \* its Idempotency-Key, None when the header is missing
          records,   \* table idempotency_keys: [Key -> record], NoRecord = no row
          reply,     \* the response sent to the client
          replayed   \* whether it carried Idempotent-Replayed: true

mwVars  == <<mw, asked, key, records, reply, replayed>>
apiVars == <<vars, mwVars>>
-----------------------------------------------------------------------------
NoRecord == [hash |-> None, answer |-> NoAnswer, live |-> FALSE]

(* HashRequestAsync: method, path and body.  If-Match is a header and not  *)
(* part of it.                                                             *)
RequestHash(in) == <<in.op, in.slug, in.tenant, in.body>>

(* FindAsync answers null for an absent record and for an expired one.     *)
Live(k) == records[k].live

(* 5xx responses are not stored.                                           *)
Storable(status) == status < 500

Reply(r, a, fromStore) ==
  /\ mw' = [mw EXCEPT ![r] = "replied"]
  /\ reply' = [reply EXCEPT ![r] = a]
  /\ replayed' = [replayed EXCEPT ![r] = fromStore]

(* A request reaches the API.  GETs pass the middleware by; a mutation     *)
(* without a key is refused; the others go on to FindAsync.                *)
Arrive(r, k, in) ==
  /\ mw[r] = "idle"
  /\ Knowable(r, in)
  /\ asked' = [asked EXCEPT ![r] = in]
  /\ key' = [key EXCEPT ![r] = k]
  /\ \/ /\ in.op = "get" /\ k = None
        /\ mw' = [mw EXCEPT ![r] = "run"]
        /\ Begin(r, in)
        /\ UNCHANGED <<reply, replayed>>
     \/ /\ in.op # "get" /\ k = None
        /\ Reply(r, Problem(400), FALSE)
        /\ UNCHANGED vars
     \/ /\ in.op # "get" /\ k # None
        /\ mw' = [mw EXCEPT ![r] = "find"]
        /\ UNCHANGED <<vars, reply, replayed>>
  /\ UNCHANGED records

(* Mutant: the stored request hash is not compared.                        *)
FindIgnoresHash(r) ==
  /\ mw[r] = "find"
  /\ \/ /\ Live(key[r])
        /\ Reply(r, records[key[r]].answer, TRUE)
        /\ UNCHANGED vars
     \/ /\ ~Live(key[r])
        /\ mw' = [mw EXCEPT ![r] = "run"]
        /\ Begin(r, asked[r])
        /\ UNCHANGED <<reply, replayed>>
  /\ UNCHANGED <<asked, key, records>>

(* FindAsync and what follows from it: 422 for a reused key, a replay, or  *)
(* the handler.                                                            *)
Find(r) ==
  /\ mw[r] = "find"
  /\ LET rec == records[key[r]] IN
       \/ /\ Live(key[r]) /\ rec.hash # RequestHash(asked[r])
          /\ Reply(r, Problem(422), FALSE)
          /\ UNCHANGED vars
       \/ /\ Live(key[r]) /\ rec.hash = RequestHash(asked[r])
          /\ Reply(r, rec.answer, TRUE)
          /\ UNCHANGED vars
       \/ /\ ~Live(key[r])
          /\ mw' = [mw EXCEPT ![r] = "run"]
          /\ Begin(r, asked[r])
          /\ UNCHANGED <<reply, replayed>>
  /\ UNCHANGED <<asked, key, records>>

(* A step of the handler, or of a save that goes wrong.                    *)
Run(r) ==
  /\ mw[r] = "run"
  /\ Handle(r) \/ SaveFails(r) \/ SaveAckLost(r)
  /\ UNCHANGED mwVars

(* CaptureAsync copies the buffered response to the client.  An exception  *)
(* of the handler (500) is answered outside the middleware and ends here;  *)
(* so does a request that the middleware does not apply to.                *)
Deliver(r) ==
  /\ mw[r] = "run" /\ pc[r] = "done"
  /\ mw' = [mw EXCEPT ![r] =
              IF key[r] # None /\ Storable(answer[r].status)
              THEN "store" ELSE "replied"]
  /\ reply' = [reply EXCEPT ![r] = answer[r]]
  /\ UNCHANGED <<vars, asked, key, records, replayed>>

(* Mutant: the request stays open until its own record is the stored one.  *)
StoreWaits(r) ==
  /\ mw[r] = "store"
  /\ records[key[r]] = NoRecord
  /\ mw' = [mw EXCEPT ![r] = "replied"]
  /\ records' = [records EXCEPT ![key[r]] =
                   [hash |-> RequestHash(asked[r]), answer |-> answer[r],
                    live |-> TRUE]]
  /\ UNCHANGED <<vars, asked, key, reply, replayed>>

(* StoreAsync: an INSERT.  When the row exists, expired or not, the        *)
(* primary key refuses it and the exception is swallowed.                  *)
Store(r) ==
  /\ mw[r] = "store"
  /\ mw' = [mw EXCEPT ![r] = "replied"]
  /\ \/ /\ records[key[r]] = NoRecord
        /\ records' = [records EXCEPT ![key[r]] =
                         [hash |-> RequestHash(asked[r]), answer |-> answer[r],
                          live |-> TRUE]]
     \/ /\ records[key[r]] # NoRecord
        /\ UNCHANGED records
  /\ UNCHANGED <<vars, asked, key, reply, replayed>>

(* The process dies or the client disconnects: RequestAborted cancels the  *)
(* queries, the copy of the response and StoreAsync alike.                 *)
Cut(r) ==
  /\ Faults
  /\ mw[r] \in {"find", "run", "store"}
  /\ mw' = [mw EXCEPT ![r] = "lost"]
  /\ IF mw[r] = "run" /\ pc[r] # "done" THEN Abort(r) ELSE UNCHANGED vars
  /\ UNCHANGED <<asked, key, records, reply, replayed>>

(* Twenty-four hours pass.  The row stays in the table.                    *)
Expire(k) ==
  /\ Live(k)
  /\ records' = [records EXCEPT ![k].live = FALSE]
  /\ UNCHANGED <<vars, mw, asked, key, reply, replayed>>
-----------------------------------------------------------------------------
ApiInit ==
  /\ Init
  /\ mw = [r \in Request |-> "idle"]
  /\ asked = [r \in Request |-> Nothing]
  /\ key = [r \in Request |-> None]
  /\ records = [k \in Key |-> NoRecord]
  /\ reply = [r \in Request |-> NoAnswer]
  /\ replayed = [r \in Request |-> FALSE]

Serve(r) == Find(r) \/ Run(r) \/ Deliver(r) \/ Store(r)

ApiNext ==
  \/ \E r \in Request :
       \/ \E k \in Key \cup {None}, in \in Workload : Arrive(r, k, in)
       \/ Serve(r)
       \/ Cut(r)
  \/ \E k \in Key : Expire(k)

(* A request the server has taken is worked on until it is answered: no    *)
(* step of the pipeline waits for another request.                         *)
ApiSpec == ApiInit /\ [][ApiNext]_apiVars
                   /\ \A r \in Request : WF_apiVars(Serve(r))
-----------------------------------------------------------------------------
(* Correctness.                                                            *)

Wrote(r) == \E m \in outbox : m.id = r

SameRequest(r, q) ==
  key[r] = key[q] /\ RequestHash(asked[r]) = RequestHash(asked[q])

(* At most once.  A mutation sent again under its key, with the same body  *)
(* and the same If-Match, takes effect at most once, also when the first   *)
(* response was lost, its record was never stored or has expired, or both  *)
(* copies run at once ("a retry simply re-executes, and the handlers' own  *)
(* preconditions make that safe").                                         *)
AtMostOnce ==
  \A r, q \in Request :
    r # q /\ key[r] # None /\ key[r] = key[q] /\ asked[r] = asked[q]
      => ~(Wrote(r) /\ Wrote(q))

(* A replay is the truth about the request it answers: it repeats what an  *)
(* execution of that very request under that key was answered, never an    *)
(* error of the server, and if it reports a write the version is in the    *)
(* history and came from that execution.                                   *)
ReplaysAreTrue ==
  \A r \in Request : replayed[r] =>
    \E q \in Request \ {r} :
      /\ SameRequest(r, q) /\ pc[q] = "done"
      /\ answer[q] = reply[r] /\ reply[r].status < 500
      /\ reply[r].changed =>
           \E s \in specs :
             /\ s.generation = reply[r].generation /\ s.hash = reply[r].hash
             /\ SpecWrittenMessage(q, s.tenant, s.generation, s.hash) \in outbox

(* Every request that is not cut off is answered, whatever duplicates of   *)
(* it are in flight and whatever its record collides with.                 *)
EveryRequestReplied ==
  \A r \in Request : mw[r] = "find" ~> mw[r] \in {"replied", "lost"}

(* Claim of IdempotencyMiddleware: "The first request runs and its         *)
(* response is stored against (actor, key). A repeat with the same body    *)
(* gets the stored response back" - so once StoreAsync has returned, the   *)
(* key is live.                                                            *)
StoredKeyIsLive ==
  [][\A r \in Request :
       mw[r] = "store" /\ mw'[r] = "replied" => records'[key[r]].live]_apiVars
=============================================================================
