------------------------------- MODULE ModelDsl -------------------------------
(***************************************************************************)
(* features/authz-model/dsl.ts: the parser of the OpenFGA model DSL and    *)
(* the summary of a parsed model.  A text is a sequence of lines with      *)
(* comments cut and blanks trimmed:                                        *)
(*   [kind |-> "model" | "schema" | "relations" | "blank" | "other"],      *)
(*   [kind |-> "type", name], [kind |-> "define", name, terms]             *)
(* where a term is [kind |-> "direct", types], [kind |-> "computed",       *)
(* relation], [kind |-> "from", relation, via] or [kind |-> "other"].      *)
(* A directly assignable type stands without its #relation or :* suffix,   *)
(* which every use of it splits off.  Messages are named by their kind.    *)
(***************************************************************************)
EXTENDS Integers, Sequences, FiniteSets, SequencesExt

Issue(line, message) == [line |-> line, message |-> message]
Each(s, Op(_)) == FlattenSeq([i \in DOMAIN s |-> Op(s[i])])
Only(s, kind) == LET Is(t) == t.kind = kind IN SelectSeq(s, Is)

(* parseTerm, over all the terms of a define line. *)
RelationDef(l, n) ==
    LET direct(t) == t.types
        computed(t) == <<t.relation>>
        from(t) == <<[relation |-> t.relation, via |-> t.via]>>
    IN  [name |-> l.name, line |-> n, direct |-> Each(Only(l.terms, "direct"), direct),
         computed |-> Each(Only(l.terms, "computed"), computed),
         tupleToUserset |-> Each(Only(l.terms, "from"), from)]
parseTerm(l, n) == LET cannot(t) == <<Issue(n, "cannot parse")>> IN Each(Only(l.terms, "other"), cannot)

Named(s, name) == {i \in DOMAIN s : s[i].name = name}
When(test, issue) == IF test THEN <<issue>> ELSE <<>>

(* One line: p collects the types, the last of them the current one, and the issues. *)
parseType(p, l, n) ==
    [p EXCEPT !.issues = @ \o When(Named(p.types, l.name) # {}, Issue(n, "duplicate type")),
              !.types = Append(@, [name |-> l.name, relations |-> <<>>, line |-> n])]
parseRelations(p, n) == [p EXCEPT !.issues = @ \o When(p.types = <<>>, Issue(n, "relations block outside a type"))]
parseDefine(p, l, n) ==
    IF p.types = <<>> THEN [p EXCEPT !.issues = Append(@, Issue(n, "define outside a type"))]
    ELSE [p EXCEPT !.issues = @ \o When(Named(Last(p.types).relations, l.name) # {}, Issue(n, "duplicate relation"))
                              \o parseTerm(l, n),
                   !.types[Len(p.types)].relations = Append(@, RelationDef(l, n))]
parseLine(p, l, n) ==
    CASE l.kind = "blank" -> p
      [] l.kind = "model" -> [p EXCEPT !.sawModel = TRUE]
      [] l.kind = "schema" -> [p EXCEPT !.schema = TRUE]
      [] l.kind = "type" -> parseType(p, l, n)
      [] l.kind = "relations" -> parseRelations(p, n)
      [] l.kind = "define" -> parseDefine(p, l, n)
      [] OTHER -> [p EXCEPT !.issues = Append(@, Issue(n, "unexpected line"))]
parseLines(dsl) ==
    LET upTo[n \in 0..Len(dsl)] ==
          IF n = 0 THEN [types |-> <<>>, issues |-> <<>>, schema |-> FALSE, sawModel |-> FALSE]
          ELSE parseLine(upTo[n - 1], dsl[n], n)
    IN  upTo[Len(dsl)]

(* The reference checks: every name a relation mentions must exist. Among     *)
(* types of one name the map has the last, relOf finds the first relation.    *)
typeByName(types, name) == types[Max(Named(types, name))]
relOf(type, name) == type.relations[Min(Named(type.relations, name))]
AcceptsAnyVia(types, type, rel, t) == <<>>                                  \* mutant
checkVia(types, type, rel, t) ==
    IF Named(type.relations, t.via) = {} THEN <<Issue(rel.line, "unknown relation in from")>>
    ELSE LET missing(d) == When(Named(types, d) # {} /\ Named(typeByName(types, d).relations, t.relation) = {},
                                Issue(rel.line, "relation is not defined on the parent"))
         IN  Each(relOf(type, t.via).direct, missing)
checkRelation(types, type, rel) ==
    LET unknownType(d) == When(Named(types, d) = {}, Issue(rel.line, "unknown type"))
        unknownRelation(c) == When(Named(type.relations, c) = {}, Issue(rel.line, "unknown relation"))
        via(t) == checkVia(types, type, rel, t)
    IN  Each(rel.direct, unknownType) \o Each(rel.computed, unknownRelation) \o Each(rel.tupleToUserset, via)
checkReferences(types) ==
    LET ofType(type) == LET ofRel(rel) == checkRelation(types, type, rel) IN Each(type.relations, ofRel)
    IN  Each(types, ofType)

parseModel(dsl) ==
    LET p == parseLines(dsl)
    IN  [schema |-> p.schema, types |-> p.types,
         issues |-> p.issues \o When(~p.sawModel, Issue(1, "missing model header"))
                    \o When(~p.schema, Issue(1, "missing schema version")) \o checkReferences(p.types)]

(* The relations a relation's rewrites lead to, as <<type, relation>> names, in order. *)
rewrites(types, type, rel) ==
    LET here(c) == IF Named(type.relations, c) = {} THEN <<>> ELSE << <<type.name, c>> >>
        there(t) ==
          LET on(d) == IF Named(types, d) = {} \/ Named(typeByName(types, d).relations, t.relation) = {} THEN <<>>
                       ELSE << <<d, t.relation>> >>
          IN  IF Named(type.relations, t.via) = {} THEN <<>> ELSE Each(relOf(type, t.via).direct, on)
    IN  Each(rel.computed, here) \o Each(rel.tupleToUserset, there)

RelationKeys(types) ==
    LET keys(type) == [j \in DOMAIN type.relations |-> <<type.name, type.relations[j].name>>] IN Each(types, keys)

(* depthOf for a list of relations, with its memo and its cycle guard: one    *)
(* being visited counts 0, and what was found under that guard stays in the   *)
(* memo.  The result is the deepest of the list, one level up.                *)
depthOf(types) ==
    LET Keys == ToSet(RelationKeys(types))
        below(k) == LET type == typeByName(types, k[1]) IN rewrites(types, type, relOf(type, k[2]))
        of[todo \in Seq(Keys), visiting \in SUBSET Keys, memo \in SUBSET (Keys \X (0..Cardinality(Keys)))] ==
          IF todo = <<>> THEN [depth |-> 0, memo |-> memo]
          ELSE LET k == Head(todo)
                   cached == {m \in memo : m[1] = k}
                   visit == of[below(k), visiting \cup {k}, memo]
                   head == IF cached # {} THEN [depth |-> (CHOOSE m \in cached : TRUE)[2], memo |-> memo]
                           ELSE IF k \in visiting THEN [depth |-> 0, memo |-> memo]
                           ELSE [depth |-> visit.depth, memo |-> visit.memo \cup {<<k, visit.depth>>}]
                   tail == of[Tail(todo), visiting, head.memo]
               IN  [depth |-> Max({1 + head.depth, tail.depth}), memo |-> tail.memo]
    IN  of[RelationKeys(types), {}, {}].depth

(* summarize, of a model that parses: for another the page shows its issues. *)
summarize(parsed) ==
    [types |-> Len(parsed.types), relations |-> Len(RelationKeys(parsed.types)),
     depth |-> IF RelationKeys(parsed.types) = <<>> THEN 0 ELSE depthOf(parsed.types) - 1]

-----------------------------------------------------------------------------
(* What the lines of a text say, without the parser. *)

Defines(dsl) == {n \in DOMAIN dsl : dsl[n].kind = "define"}
TypeLines(dsl) == {n \in DOMAIN dsl : dsl[n].kind = "type"}
(* The name of the type a define line belongs to. *)
Owner(dsl, n) == dsl[Max({m \in TypeLines(dsl) : m < n})].name
DefinedOn(dsl, type, r) == \E n \in Defines(dsl) : dsl[n].name = r /\ Owner(dsl, n) = type
Assignable(dsl, type, r) ==
    {t \in {dsl[m].name : m \in TypeLines(dsl)} :
       \E n \in Defines(dsl) : /\ dsl[n].name = r /\ Owner(dsl, n) = type
                               /\ \E i \in DOMAIN dsl[n].terms :
                                    dsl[n].terms[i].kind = "direct" /\ t \in ToSet(dsl[n].terms[i].types)}

(* Every name a define line mentions is there to be resolved. *)
Closed(dsl) ==
    \A n \in Defines(dsl) :
      /\ \E m \in TypeLines(dsl) : m < n
      /\ \A i \in DOMAIN dsl[n].terms :
           LET t == dsl[n].terms[i]
           IN  \/ /\ t.kind = "direct" /\ \A d \in ToSet(t.types) : \E m \in TypeLines(dsl) : dsl[m].name = d
               \/ /\ t.kind = "computed" /\ DefinedOn(dsl, Owner(dsl, n), t.relation)
               \/ /\ t.kind = "from" /\ DefinedOn(dsl, Owner(dsl, n), t.via)
                  /\ \A d \in Assignable(dsl, Owner(dsl, n), t.via) : DefinedOn(dsl, d, t.relation)

(* No type and no relation of a type is defined twice. *)
Unambiguous(dsl) ==
    /\ \A m, n \in TypeLines(dsl) : dsl[m].name = dsl[n].name => m = n
    /\ \A m, n \in Defines(dsl) : dsl[m].name = dsl[n].name /\ Owner(dsl, m) = Owner(dsl, n) => m = n

(* One rewrite leads from a define line to another; the chains of k rewrites. *)
Rewrite(dsl, m, n) ==
    \E i \in DOMAIN dsl[m].terms :
      LET t == dsl[m].terms[i]
      IN  \/ t.kind = "computed" /\ dsl[n].name = t.relation /\ Owner(dsl, n) = Owner(dsl, m)
          \/ /\ t.kind = "from" /\ dsl[n].name = t.relation
             /\ Owner(dsl, n) \in Assignable(dsl, Owner(dsl, m), t.via)
Chained(dsl, k) ==
    LET ends[j \in 0..k] == IF j = 0 THEN Defines(dsl)
                            ELSE UNION {{n \in Defines(dsl) : Rewrite(dsl, m, n)} : m \in ends[j - 1]}
    IN  ends[k] # {}
Cyclic(dsl) == Chained(dsl, Cardinality(Defines(dsl)))

(* What summarize has to say of a text. *)
Describes(dsl, s) ==
    /\ s.types = Cardinality(TypeLines(dsl)) /\ s.relations = Cardinality(Defines(dsl))
    /\ ~Cyclic(dsl) => Chained(dsl, s.depth) /\ ~Chained(dsl, s.depth + 1)
    /\ s.depth <= Cardinality(Defines(dsl))

=============================================================================
