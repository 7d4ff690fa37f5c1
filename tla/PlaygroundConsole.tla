--------------------------- MODULE PlaygroundConsole ---------------------------
(***************************************************************************)
(* The permission playground: the resolver of features/playground with its *)
(* depth cap, and the page that asks it questions and shows the answers.   *)
(***************************************************************************)
EXTENDS Integers, Sequences, FiniteSets, SequencesExt

CONSTANTS
    Subjects,       \* users and objects
    typeOf,         \* Subjects -> type name
    AuthModels,     \* type -> relation -> [direct, computed, tupleToUserset]
    TupleSets,      \* sequences of <<object, relation, user>>
    Checks,         \* questions: [user, relation, object]
    None,
    MaxQuestions    \* bound

VARIABLES
    model, tuples,  \* of the tenant the page asks about; neither changes
    posted,         \* questions under way
    view,           \* what the page shows
    questions

playVars == <<model, tuples, posted, view, questions>>

-----------------------------------------------------------------------------
(* resolver.ts *)

DEPTH_CAP == 8
RECENT_LIMIT == 6

Stored(ts, t) == \E i \in DOMAIN ts : ts[i] = t
Defined(m, o, r) == typeOf[o] \in DOMAIN m /\ r \in DOMAIN m[typeOf[o]]

(* The targets of a tupleset, in the order of the tuples. *)
targets(ts, o, tupleset) ==
    LET Test(t) == t[1] = o /\ t[2] = tupleset
        found == SelectSeq(ts, Test)
    IN  [i \in DOMAIN found |-> found[i][3]]

(* The tree explain builds, walked with the stack of calls made explicit: a   *)
(* node is a call of evaluate, a tuple looked up by directLeaf, or the step   *)
(* from an object to the targets of a tupleset.                               *)
Node(call, o, r, d) == [call |-> call, object |-> o, relation |-> r, depth |-> d]
Nodes == [call : {"evaluate", "directLeaf", "ttu"}, object : Subjects, relation : STRING, depth : Nat]
Leaf(def) == def.direct /\ def.computed = <<>> /\ def.tupleToUserset = <<>>
evaluate(m, ts, n) ==
    IF n.depth > DEPTH_CAP \/ ~Defined(m, n.object, n.relation) THEN <<>>
    ELSE LET def == m[typeOf[n.object]][n.relation]
             Below(d) == n.depth + d
             follow(t) == LET ends == targets(ts, n.object, t.tupleset)
                          IN  [j \in DOMAIN ends |-> Node("evaluate", ends[j], t.relation, Below(2))]
         IN  IF Leaf(def) THEN <<Node("directLeaf", n.object, n.relation, Below(0))>>
             ELSE (IF def.direct THEN <<Node("directLeaf", n.object, n.relation, Below(1))>> ELSE <<>>)
                  \o [i \in DOMAIN def.computed |-> Node("evaluate", n.object, def.computed[i], Below(1))]
                  \o FlattenSeq([i \in DOMAIN def.tupleToUserset |->
                       <<Node("ttu", n.object, n.relation, Below(1))>> \o follow(def.tupleToUserset[i])])

(* What a node leaves in the context: the hit, the depth it was visited at,   *)
(* and whether the cap cut it off (then it is not visited).                   *)
SilentCap(n) == [hit |-> None, depth |-> n.depth, cap |-> FALSE]            \* mutant
visit(n) == [hit |-> None, depth |-> n.depth, cap |-> FALSE]
truncated(n) == [hit |-> None, depth |-> 0, cap |-> TRUE]
directLeaf(ts, n, user) ==
    LET t == <<n.object, n.relation, user>> IN [visit(n) EXCEPT !.hit = IF Stored(ts, t) THEN t ELSE None]
Ctx(ts, n, user) ==
    IF n.call = "directLeaf" THEN directLeaf(ts, n, user)
    ELSE IF n.call = "evaluate" /\ n.depth > DEPTH_CAP THEN truncated(n) ELSE visit(n)

(* Only unions exist, so the check is allowed iff some leaf of the tree hits; *)
(* the decisive tuple is the first hit.                                       *)
explain(m, ts, check) ==
    LET walk[stack \in Seq(Nodes)] ==
          IF stack = <<>> THEN <<>>
          ELSE LET n == Head(stack)
               IN  <<Ctx(ts, n, check.user)>>
                   \o walk[(IF n.call = "evaluate" THEN evaluate(m, ts, n) ELSE <<>>) \o Tail(stack)]
        answer(ctx) ==
          LET hits == {i \in DOMAIN ctx : ctx[i].hit # None}
          IN  [allowed |-> hits # {},
               decisive |-> IF hits = {} THEN None ELSE ctx[Min(hits)].hit,
               capHit |-> \E i \in DOMAIN ctx : ctx[i].cap,
               maxDepth |-> Min({DEPTH_CAP, Max({ctx[i].depth : i \in DOMAIN ctx})})]
    IN  CHOOSE a \in {answer(ctx) : ctx \in {walk[<<Node("evaluate", check.object, check.relation, 1)>>]}} : TRUE

-----------------------------------------------------------------------------
(* playground-view.tsx *)

(* The page is rendered with the answer to the question it opens with. *)
PlayInit ==
    /\ model \in AuthModels /\ tuples \in TupleSets /\ posted = {} /\ questions = 0
    /\ \E q \in Checks : view = [submitted |-> q, cache |-> [c \in {q} |-> explain(model, tuples, q)],
                                 recent |-> <<>>, asking |-> 0, batching |-> 0, batch |-> <<>>]

Asking(kind, body) == /\ questions < MaxQuestions /\ questions' = questions + 1
                      /\ posted' = posted \cup {[id |-> questions + 1, kind |-> kind, body |-> body, answer |-> None]}
                      /\ view' = IF kind = "batch" THEN [view EXCEPT !.batching = questions + 1]
                                 ELSE [view EXCEPT !.asking = questions + 1]
                      /\ UNCHANGED <<model, tuples>>
pending == view.asking # 0 \/ view.batching # 0
submit(q) == ~pending /\ Asking("explain", q)
submitBatch(qs) == ~pending /\ Asking("batch", qs)
(* A recent question may be asked again while another is under way. *)
rerun(q) == (\E i \in DOMAIN view.recent : view.recent[i] = q) /\ Asking("explain", q)

answerQuestion(p) ==
    /\ p.answer = None
    /\ posted' = (posted \ {p}) \cup {[p EXCEPT !.answer =
         IF p.kind = "explain" THEN explain(model, tuples, p.body)
         ELSE [i \in DOMAIN p.body |-> explain(model, tuples, p.body[i]).allowed]]}
    /\ UNCHANGED <<model, tuples, view, questions>>

addRecent(recent, q) ==
    LET Other(c) == c # q
        list == <<q>> \o SelectSeq(recent, Other)
    IN  SubSeq(list, 1, Min({RECENT_LIMIT, Len(list)}))
Rested(p) == [view EXCEPT !.asking = IF @ = p.id THEN 0 ELSE @, !.batching = IF @ = p.id THEN 0 ELSE @]
(* onSuccess, in the order the answers arrive: the answer is cached under the *)
(* question it answers, and that question becomes the one shown.              *)
Cached(p) == [c \in DOMAIN view.cache \cup {p.body} |-> IF c = p.body THEN p.answer ELSE view.cache[c]]
receiveExplain(p) ==
    /\ p.kind = "explain" /\ p.answer # None /\ posted' = posted \ {p}
    /\ view' = [Rested(p) EXCEPT !.submitted = p.body, !.cache = Cached(p), !.batch = <<>>,
                                 !.recent = addRecent(@, p.body)]
    /\ UNCHANGED <<model, tuples, questions>>
receiveBatch(p) ==
    /\ p.kind = "batch" /\ p.answer # None /\ posted' = posted \ {p}
    /\ view' = [Rested(p) EXCEPT !.batch = [i \in DOMAIN p.body |-> <<p.body[i], p.answer[i]>>]]
    /\ UNCHANGED <<model, tuples, questions>>
questionFails(p) == /\ posted' = posted \ {p} /\ view' = Rested(p)
                    /\ UNCHANGED <<model, tuples, questions>>

PlayNext ==
    \/ \E q \in Checks : submit(q) \/ rerun(q)
    \/ \E q, r \in Checks : submitBatch(<<q, r>>)
    \/ \E p \in posted : answerQuestion(p) \/ receiveExplain(p) \/ receiveBatch(p) \/ questionFails(p)

-----------------------------------------------------------------------------
(* Properties *)

PlayTypeOK ==
    /\ model \in AuthModels /\ tuples \in TupleSets
    /\ view.submitted \in DOMAIN view.cache /\ DOMAIN view.cache \subseteq Checks
    /\ \A p \in posted : p.kind = "explain" => p.body \in Checks

(* What the model and the tuples grant a user, as a least fixed point: the    *)
(* pairs of an object and a relation a tuple, a computed relation or a parent *)
(* gives.                                                                     *)
Relations(m) == UNION {DOMAIN m[t] : t \in DOMAIN m}
Grants(m, ts, user) ==
    LET Pairs == Subjects \X Relations(m)
        Gives(known, o, r) ==
          /\ Defined(m, o, r)
          /\ LET def == m[typeOf[o]][r]
             IN  \/ def.direct /\ Stored(ts, <<o, r, user>>)
                 \/ \E i \in DOMAIN def.computed : <<o, def.computed[i]>> \in known
                 \/ \E i \in DOMAIN def.tupleToUserset : \E j \in DOMAIN ts :
                      /\ ts[j][1] = o /\ ts[j][2] = def.tupleToUserset[i].tupleset
                      /\ <<ts[j][3], def.tupleToUserset[i].relation>> \in known
        fix[known \in SUBSET Pairs] ==
          UNION {IF more = known THEN known ELSE fix[more] :
                 more \in {{p \in Pairs : Gives(known, p[1], p[2])}}}
    IN  fix[{}]

Agrees(m, ts, q, answer) ==
    LET granted == <<q.object, q.relation>> \in Grants(m, ts, q.user)
    IN  /\ answer.allowed => granted
        /\ granted /\ ~answer.allowed => answer.capHit
        /\ answer.allowed = (answer.decisive # None)
        /\ answer.decisive # None => Stored(ts, answer.decisive) /\ answer.decisive[3] = q.user
        /\ answer.maxDepth \in 1..DEPTH_CAP

(* Whatever order the answers arrive in, the decision shown is the one for    *)
(* the question shown, and it is right: ALLOWED only when model and tuples    *)
(* grant it, cyclic ones included, with a decisive tuple that exists; DENIED  *)
(* though granted only with the depth cap reported (explain in resolver.ts).  *)
ExplainAgrees == Agrees(model, tuples, view.submitted, view.cache[view.submitted])

=============================================================================
