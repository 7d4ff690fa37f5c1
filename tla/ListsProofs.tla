------------------------------ MODULE ListsProofs ------------------------------
(***************************************************************************)
(* The lists of the console, for any number of tabs, fixtures and clicks:  *)
(* the reconcile runs with their pages, polls and retries, and the audit   *)
(* log with its pages and exports.                                         *)
(***************************************************************************)
EXTENDS ListScreens, FiniteSetTheorems, WellFoundedInduction, TLAPS

(* Whatever has a length and a domain up to it. *)
IsList(s) == Len(s) \in Nat /\ DOMAIN s = 1..Len(s)
IsSeq(s) == \E S : s \in Seq(S)

LEMMA SeqIsList ==
    ASSUME NEW s, IsSeq(s)
    PROVE  IsList(s)
<1>1. PICK S : s \in Seq(S)
  BY DEF IsSeq
<1> QED
  BY <1>1 DEF IsList

LEMMA FunctionIsSeq ==
    ASSUME NEW n \in Nat, NEW s, s = [i \in 1..n |-> s[i]]
    PROVE  IsSeq(s) /\ Len(s) = n
<1> DEFINE T == {s[i] : i \in 1..n}
<1>1. s \in [1..n -> T]
  OBVIOUS
<1> HIDE DEF T
<1>2. s \in Seq(T) /\ Len(s) = n
  BY <1>1
<1> QED
  BY <1>2 DEF IsSeq

LEMMA AppendFacts ==
    ASSUME NEW s, IsSeq(s), NEW v
    PROVE  LET a == Append(s, v)
           IN  /\ IsSeq(a) /\ Len(a) = Len(s) + 1 /\ a[Len(s) + 1] = v
               /\ \A i \in DOMAIN s : i \in DOMAIN a /\ a[i] = s[i]
<1>1. PICK S : s \in Seq(S)
  BY DEF IsSeq
<1> DEFINE T == S \cup {v}
<1>2. s \in Seq(T) /\ v \in T
  BY <1>1
<1> HIDE DEF T
<1>3. Append(s, v) \in Seq(T) /\ Len(s) \in Nat
  BY <1>2
<1>4. Len(Append(s, v)) = Len(s) + 1 /\ Append(s, v)[Len(s) + 1] = v
  BY <1>2
<1>5. \A i \in DOMAIN s : i \in DOMAIN Append(s, v) /\ Append(s, v)[i] = s[i]
  BY <1>2, <1>3
<1> QED
  BY <1>3, <1>4, <1>5 DEF IsSeq

LEMMA ExceptFacts ==
    ASSUME NEW s, IsSeq(s), NEW i \in DOMAIN s, NEW v
    PROVE  LET a == [s EXCEPT ![i] = v]
           IN  /\ IsSeq(a) /\ DOMAIN a = DOMAIN s /\ Len(a) = Len(s) /\ a[i] = v
               /\ \A j \in DOMAIN s \ {i} : a[j] = s[j]
<1>1. PICK S : s \in Seq(S)
  BY DEF IsSeq
<1> DEFINE T == S \cup {v}
<1>2. s \in Seq(T) /\ v \in T
  BY <1>1
<1> HIDE DEF T
<1>3. [s EXCEPT ![i] = v] \in Seq(T) /\ Len([s EXCEPT ![i] = v]) = Len(s)
  BY <1>2
<1> QED
  BY <1>2, <1>3 DEF IsSeq

(* A nonempty set of numbers has a least one, and a bounded one a greatest. *)
LEMMA HasLeast ==
    ASSUME NEW T \in SUBSET Nat, T # {}
    PROVE  \E x \in T : \A y \in T : x <= y
<1>1. PICK x \in T : \A y \in T : ~(<<y, x>> \in OpToRel(<, Nat))
  BY NatLessThanWellFounded, WFMin, Zenon
<1>2. \A y \in T : ~(y < x)
  BY <1>1 DEF OpToRel
<1> QED
  BY <1>2

LEMMA HasGreatest ==
    ASSUME NEW n \in Nat, NEW T \in SUBSET (0..n), T # {}
    PROVE  \E x \in T : \A y \in T : y <= x
<1> DEFINE U == {n - y : y \in T}
<1>1. U \in SUBSET Nat
  <2>1. \A y \in T : n - y \in Nat
    OBVIOUS
  <2> QED
    BY <2>1
<1>2. \A y \in T : n - y \in U
  OBVIOUS
<1>3. \A u \in U : \E y \in T : u = n - y
  OBVIOUS
<1> HIDE DEF U
<1>4. PICK u \in U : \A v \in U : u <= v
  BY <1>1, <1>2, HasLeast, Zenon
<1>5. PICK x \in T : u = n - x
  BY <1>3
<1>6. \A y \in T : n - x <= n - y
  BY <1>2, <1>4, <1>5
<1> QED
  BY <1>6
-----------------------------------------------------------------------------
(* A run of the store, by itself *)

RunFields == {"tenant", "trigger", "outcome", "finished", "locked", "attempt", "retryOf",
              "changeOutcomes", "changes", "script", "step"}

MarksOK(d) == d.finished = ~Live(d) /\ d.locked = Live(d)
RowsOK(changes) == IsList(changes) /\ \A i \in 1..Len(changes) : changes[i] \in RunChange
RunOK(run) ==
    /\ DOMAIN run = RunFields
    /\ run.tenant \in RunTenants /\ run.trigger \in Triggers /\ run.outcome \in Outcomes
    /\ MarksOK(run)
    /\ IsScript(run.script) /\ run.step \in 0..Len(run.script)
    /\ RowsOK(run.changes) /\ RowsAgree(run)

(* A retry plays retryScript: the rows before the one it is at are applied. *)
ReplayOK(run) ==
    run.retryOf # 0 =>
        LET n == Len(run.changes)
        IN  /\ run.script = retryScript(n) /\ (run.finished => run.step = n + 2)
            /\ \A i \in 1..n : i < run.step => run.changes[i].outcome = "applied"

LEMMA GenericFacts ==
    ASSUME NEW o \in ChangeOutcomes
    PROVE  LET c == genericChange(o)
           IN  /\ c \in RunChange /\ c.outcome = o /\ c.timed \in BOOLEAN
               /\ c.note = IF o = "pending" THEN "queued" ELSE "other"
               /\ o = "applied" => c.timed
<1>1. LET c == genericChange(o)
      IN c.outcome = o /\ c.note = IF o = "pending" THEN "queued" ELSE "other"
  BY DEF genericChange
<1>2. genericChange(o).timed \in BOOLEAN
  BY DEF genericChange
<1>3. o = "applied" => genericChange(o).timed
  BY DEF genericChange
<1>4. genericChange(o) \in RunChange
  BY DEF genericChange, RunChange
<1> QED
  BY <1>1, <1>2, <1>3, <1>4

SpecialChange(o) == [genericChange(o) EXCEPT !.note = IF o = "applying" THEN "inflight" ELSE @]

LEMMA SpecialFacts ==
    ASSUME NEW o \in ChangeOutcomes
    PROVE  LET c == SpecialChange(o)
           IN  /\ c \in RunChange /\ c.outcome = o /\ c.timed \in BOOLEAN
               /\ c.note = IF o = "applying" THEN "inflight" ELSE IF o = "pending" THEN "queued" ELSE "other"
               /\ o = "applied" => c.timed
<1> DEFINE g == genericChange(o)
           n == IF o = "applying" THEN "inflight" ELSE g.note
<1>1. SpecialChange(o) = [g EXCEPT !.note = n]
  BY DEF SpecialChange
<1>2. /\ g \in RunChange /\ g.outcome = o /\ g.timed \in BOOLEAN
      /\ g.note = IF o = "pending" THEN "queued" ELSE "other"
      /\ o = "applied" => g.timed
  BY GenericFacts
<1> HIDE DEF g
<1>3. n \in {"inflight", "queued", "other"}
  BY <1>2
<1>4. n = IF o = "applying" THEN "inflight" ELSE IF o = "pending" THEN "queued" ELSE "other"
  BY <1>2
<1> HIDE DEF n
<1>5. /\ [g EXCEPT !.note = n] \in RunChange
      /\ [g EXCEPT !.note = n].outcome = g.outcome
      /\ [g EXCEPT !.note = n].timed = g.timed
      /\ [g EXCEPT !.note = n].note = n
  BY <1>2, <1>3 DEF RunChange
<1> QED
  BY <1>1, <1>2, <1>4, <1>5

LEMMA RowsOfOutcomes ==
    ASSUME NEW outcomes \in Seq(ChangeOutcomes)
    PROVE  /\ RowsOK(genericDetail(outcomes)) /\ RowsOK(specialDetail(outcomes))
           /\ RowsAgree([changes |-> genericDetail(outcomes), changeOutcomes |-> outcomes])
           /\ RowsAgree([changes |-> specialDetail(outcomes), changeOutcomes |-> outcomes])
<1> DEFINE g == genericDetail(outcomes)
           s == specialDetail(outcomes)
<1>1. Len(outcomes) \in Nat /\ outcomes = [i \in 1..Len(outcomes) |-> outcomes[i]]
  OBVIOUS
<1>2. g = [i \in 1..Len(outcomes) |-> g[i]] /\ s = [i \in 1..Len(outcomes) |-> s[i]]
  BY DEF genericDetail, specialDetail
<1>3. IsList(g) /\ Len(g) = Len(outcomes) /\ IsList(s) /\ Len(s) = Len(outcomes)
  <2> HIDE DEF g, s
  <2> QED
    BY <1>1, <1>2, FunctionIsSeq, SeqIsList
<1>4. ASSUME NEW i \in 1..Len(outcomes)
      PROVE  /\ g[i] \in RunChange /\ s[i] \in RunChange
             /\ g[i].outcome = outcomes[i] /\ s[i].outcome = outcomes[i]
             /\ g[i].note = "queued" <=> g[i].outcome = "pending"
             /\ g[i].note = "inflight" => g[i].outcome = "applying"
             /\ g[i].outcome = "applied" => g[i].timed
             /\ s[i].note = "queued" <=> s[i].outcome = "pending"
             /\ s[i].note = "inflight" => s[i].outcome = "applying"
             /\ s[i].outcome = "applied" => s[i].timed
  <2>1. outcomes[i] \in ChangeOutcomes
    OBVIOUS
  <2>2. g[i] = genericChange(outcomes[i])
    BY DEF genericDetail
  <2>3. s[i] = SpecialChange(outcomes[i])
    BY DEF specialDetail, SpecialChange
  <2> HIDE DEF g, s
  <2>4. /\ g[i].outcome = outcomes[i] /\ g[i] \in RunChange
        /\ g[i].note = IF outcomes[i] = "pending" THEN "queued" ELSE "other"
        /\ outcomes[i] = "applied" => g[i].timed
    BY <2>1, <2>2, GenericFacts
  <2>5. /\ s[i].outcome = outcomes[i] /\ s[i] \in RunChange
        /\ s[i].note = IF outcomes[i] = "applying" THEN "inflight"
                       ELSE IF outcomes[i] = "pending" THEN "queued" ELSE "other"
        /\ outcomes[i] = "applied" => s[i].timed
    <3> DEFINE o == outcomes[i]
    <3>1. s[i] = SpecialChange(o) /\ o \in ChangeOutcomes
      BY <2>1, <2>3
    <3> HIDE DEF o
    <3>2. /\ SpecialChange(o).outcome = o /\ SpecialChange(o) \in RunChange
          /\ SpecialChange(o).note = IF o = "applying" THEN "inflight"
                                     ELSE IF o = "pending" THEN "queued" ELSE "other"
          /\ o = "applied" => SpecialChange(o).timed
      BY <3>1, SpecialFacts
    <3>3. s[i].outcome = o
      BY <3>1, <3>2
    <3>4. s[i] \in RunChange
      BY <3>1, <3>2
    <3>5. s[i].note = IF o = "applying" THEN "inflight" ELSE IF o = "pending" THEN "queued" ELSE "other"
      BY <3>1, <3>2
    <3>6. o = "applied" => s[i].timed
      BY <3>1, <3>2
    <3> QED
      BY <3>3, <3>4, <3>5, <3>6 DEF o
  <2> QED
    BY <2>4, <2>5
<1> HIDE DEF g, s
<1>5. RowsOK(g) /\ RowsOK(s)
  BY <1>3, <1>4 DEF RowsOK
<1>6. outcomes = [i \in 1..Len(g) |-> g[i].outcome] /\ outcomes = [i \in 1..Len(s) |-> s[i].outcome]
  BY <1>1, <1>3, <1>4
<1>7. RowsAgree([changes |-> g, changeOutcomes |-> outcomes]) /\ RowsAgree([changes |-> s, changeOutcomes |-> outcomes])
  BY <1>3, <1>4, <1>6 DEF RowsAgree, IsList
<1> QED
  BY <1>5, <1>7 DEF g, s

LEMMA SeedOK ==
    ASSUME NEW i \in 1..Len(RunSeeds)
    PROVE  LET run == detailOf(RunSeeds[i], LiveScripts[i])
           IN  RunOK(run) /\ run.retryOf = 0
<1> DEFINE seed == RunSeeds[i]
           run == detailOf(seed, LiveScripts[i])
<1>1. /\ seed.tenant \in RunTenants /\ seed.trigger \in Triggers /\ seed.outcome \in Outcomes
      /\ seed.changeOutcomes \in Seq(ChangeOutcomes)
  <2> DEFINE S == [tenant : RunTenants, trigger : Triggers, outcome : Outcomes,
                   changeOutcomes : Seq(ChangeOutcomes), attempt : Attempts \cup {None},
                   special : BOOLEAN]
  <2>1. RunSeeds \in Seq(S)
    BY RunsAssumption
  <2>2. seed \in S
    <3> HIDE DEF S
    <3> QED
      BY <2>1
  <2> HIDE DEF seed
  <2> QED
    BY <2>2
<1>2. IsScript(LiveScripts[i])
  BY RunsAssumption
<1> HIDE DEF seed
<1>3. /\ DOMAIN run = RunFields /\ run.tenant = seed.tenant /\ run.trigger = seed.trigger
      /\ run.outcome = seed.outcome /\ run.changeOutcomes = seed.changeOutcomes
      /\ run.script = LiveScripts[i] /\ run.step = 0 /\ run.retryOf = 0
  BY DEF detailOf, RunFields
<1>4. run.finished = ~Live(run) /\ run.locked = Live(run)
  BY DEF detailOf, Live, inFlight
<1>5. run.changes \in {specialDetail(seed.changeOutcomes), genericDetail(seed.changeOutcomes)}
  BY DEF detailOf
<1> HIDE DEF run
<1>6. RowsOK(run.changes) /\ RowsAgree(run)
  <2> DEFINE same == [changes |-> run.changes, changeOutcomes |-> seed.changeOutcomes]
  <2>1. RowsOK(run.changes) /\ RowsAgree(same)
    BY <1>1, <1>5, RowsOfOutcomes
  <2>2. same.changes = run.changes /\ same.changeOutcomes = run.changeOutcomes
    BY <1>3
  <2> HIDE DEF same
  <2> QED
    BY <2>1, <2>2 DEF RowsAgree
<1>7. run.step \in 0..Len(run.script)
  BY <1>2, <1>3 DEF IsScript
<1> QED
  BY <1>1, <1>2, <1>3, <1>4, <1>6, <1>7 DEF RunOK, MarksOK, run, seed

(* The record advanceLive returns, in terms of the step it plays. *)
Played(run) ==
    LET s == run.script[run.step + 1]
    IN  [i \in 1..Len(run.changes) |-> IF i \in DOMAIN s.changes THEN ChangeStep(run.changes[i], s.changes[i])
                                       ELSE run.changes[i]]

LEMMA AdvanceFields ==
    ASSUME NEW run, DOMAIN run = RunFields, run.step # Len(run.script)
    PROVE  LET new == advanceLive(run)
               finish == run.script[run.step + 1].finish
           IN  /\ DOMAIN new = RunFields
               /\ new.tenant = run.tenant /\ new.trigger = run.trigger /\ new.attempt = run.attempt
               /\ new.retryOf = run.retryOf /\ new.script = run.script
               /\ new.step = run.step + 1 /\ new.changes = Played(run)
               /\ new.changeOutcomes = [i \in 1..Len(Played(run)) |-> Played(run)[i].outcome]
               /\ new.outcome = IF finish = None THEN run.outcome ELSE finish
               /\ new.finished = (finish # None) /\ new.locked = (finish = None)
<1> DEFINE finish == run.script[run.step + 1].finish
           rows == Played(run)
           out == [i \in 1..Len(rows) |-> rows[i].outcome]
           last == IF finish = None THEN run.outcome ELSE finish
           done == finish # None
           held == finish = None
<1>1. advanceLive(run) = [run EXCEPT !.step = run.step + 1, !.changes = rows, !.changeOutcomes = out,
                                     !.outcome = last, !.finished = done, !.locked = held]
  BY DEF advanceLive, Played, SummaryOf
<1>2. done \in BOOLEAN /\ held \in BOOLEAN
  OBVIOUS
<1> HIDE DEF finish, rows, out, last, done, held
<1>3. LET new == advanceLive(run)
      IN  /\ DOMAIN new = RunFields
          /\ new.tenant = run.tenant /\ new.trigger = run.trigger /\ new.attempt = run.attempt
          /\ new.retryOf = run.retryOf /\ new.script = run.script
          /\ new.step = run.step + 1 /\ new.changes = rows /\ new.changeOutcomes = out
          /\ new.outcome = last /\ new.finished = done /\ new.locked = held
  BY <1>1 DEF RunFields
<1> QED
  BY <1>3 DEF finish, rows, out, last, done, held

LEMMA StepFacts ==
    ASSUME NEW c \in RunChange, NEW o \in {"applied", "applying"}
    PROVE  LET d == ChangeStep(c, o)
           IN  /\ d \in RunChange /\ d.outcome = o /\ (o = "applied" => d.timed)
               /\ d.note # "queued" /\ (d.note = "inflight" => o = "applying")
<1> DEFINE t == c.timed \/ o = "applied"
           n == CASE o = "applied" -> "other" [] o = "applying" -> "inflight"
                  [] o \notin {"applied", "applying"} -> c.note
<1>1. n = IF o = "applied" THEN "other" ELSE "inflight"
  OBVIOUS
<1>2. t \in BOOLEAN /\ (o = "applied" => t)
  BY DEF RunChange
<1>3. ChangeStep(c, o) = [outcome |-> o, timed |-> t, note |-> n]
  BY DEF ChangeStep
<1> HIDE DEF t, n
<1>4. n \in {"inflight", "queued", "other"}
  BY <1>1
<1>5. ChangeStep(c, o) \in RunChange
  <2>1. o \in ChangeOutcomes
    BY DEF ChangeOutcomes
  <2>2. ASSUME NEW x \in ChangeOutcomes, NEW y \in BOOLEAN, NEW z \in {"inflight", "queued", "other"}
        PROVE  [outcome |-> x, timed |-> y, note |-> z] \in RunChange
    BY DEF RunChange
  <2> QED
    BY <2>1, <2>2, <1>2, <1>3, <1>4
<1>6. ChangeStep(c, o).outcome = o
  BY <1>3
<1>7. ChangeStep(c, o).note = n
  BY <1>3
<1>8. o = "applied" => ChangeStep(c, o).timed
  BY <1>2, <1>3
<1> QED
  BY <1>1, <1>5, <1>6, <1>7, <1>8

(* What a run keeps from one state to the next. *)
Kept(run, new) ==
    /\ run.finished => new = run
    /\ new.step \in Nat /\ run.step <= new.step
    /\ new.tenant = run.tenant /\ new.trigger = run.trigger /\ new.retryOf = run.retryOf
    /\ Len(new.changes) = Len(run.changes)

LEMMA PlayedRows ==
    ASSUME NEW run, RunOK(run), run.step # Len(run.script)
    PROVE  /\ RowsOK(Played(run)) /\ Len(Played(run)) = Len(run.changes)
           /\ \A i \in 1..Len(run.changes) :
                 /\ LET c == Played(run)[i] IN
                       /\ c.note = "queued" <=> c.outcome = "pending"
                       /\ c.note = "inflight" => c.outcome = "applying"
                       /\ c.outcome = "applied" => c.timed
                 /\ LET s == run.script[run.step + 1].changes IN
                       /\ i \in DOMAIN s => Played(run)[i].outcome = s[i]
                       /\ i \notin DOMAIN s => Played(run)[i].outcome = run.changes[i].outcome
<1> DEFINE s == run.script[run.step + 1]
           n == Len(run.changes)
           rows == Played(run)
<1>1. n \in Nat /\ DOMAIN run.changes = 1..n /\ \A i \in 1..n : run.changes[i] \in RunChange
  BY DEF RunOK, RowsOK, IsList
<1>2. rows = [i \in 1..n |-> rows[i]]
  BY DEF Played
<1>3. IsList(rows) /\ Len(rows) = n
  <2> HIDE DEF n, rows
  <2> QED
    BY <1>1, <1>2, FunctionIsSeq, SeqIsList
<1>4. run.step + 1 \in 1..Len(run.script) /\ \A i \in DOMAIN s.changes : s.changes[i] \in {"applied", "applying"}
  BY DEF RunOK, IsScript
<1>5. ASSUME NEW i \in 1..n
      PROVE  /\ rows[i] \in RunChange
             /\ rows[i].note = "queued" <=> rows[i].outcome = "pending"
             /\ rows[i].note = "inflight" => rows[i].outcome = "applying"
             /\ rows[i].outcome = "applied" => rows[i].timed
             /\ i \in DOMAIN s.changes => rows[i].outcome = s.changes[i]
             /\ i \notin DOMAIN s.changes => rows[i].outcome = run.changes[i].outcome
  <2>1. CASE i \in DOMAIN s.changes
    <3>1. rows[i] = ChangeStep(run.changes[i], s.changes[i])
      BY <2>1 DEF Played
    <3>2. run.changes[i] \in RunChange /\ s.changes[i] \in {"applied", "applying"}
      BY <1>1, <1>4, <2>1
    <3> DEFINE d == ChangeStep(run.changes[i], s.changes[i])
    <3>3. /\ d \in RunChange /\ d.outcome = s.changes[i] /\ (s.changes[i] = "applied" => d.timed)
          /\ d.note # "queued" /\ (d.note = "inflight" => s.changes[i] = "applying")
      BY <3>2, StepFacts
    <3>4. s.changes[i] # "pending"
      BY <3>2
    <3> HIDE DEF rows, s, n, d
    <3> QED
      BY <2>1, <3>1, <3>3, <3>4 DEF d
  <2>2. CASE i \notin DOMAIN s.changes
    <3>1. rows[i] = run.changes[i]
      BY <2>2 DEF Played
    <3> HIDE DEF rows, s
    <3>2. LET c == run.changes[i] IN
             /\ c.note = "queued" <=> c.outcome = "pending"
             /\ c.note = "inflight" => c.outcome = "applying"
             /\ c.outcome = "applied" => c.timed
      BY <1>1 DEF RunOK, RowsAgree
    <3> QED
      BY <1>1, <2>2, <3>1, <3>2
  <2> QED
    BY <2>1, <2>2
<1>6. RowsOK(rows)
  BY <1>3, <1>5 DEF RowsOK
<1> HIDE DEF rows
<1> QED
  BY <1>3, <1>5, <1>6 DEF rows

LEMMA MarksFrom ==
    ASSUME NEW d
    PROVE  /\ d.finished = TRUE /\ d.locked = FALSE /\ d.outcome \notin IN_FLIGHT_OUTCOMES => MarksOK(d)
           /\ d.finished = FALSE /\ d.locked = TRUE /\ d.outcome \in IN_FLIGHT_OUTCOMES => MarksOK(d)
<1>1. ASSUME d.finished = TRUE, d.locked = FALSE, d.outcome \notin IN_FLIGHT_OUTCOMES
      PROVE  MarksOK(d)
  <2>1. (~Live(d)) = TRUE /\ Live(d) = FALSE
    BY <1>1 DEF Live
  <2>2. d.finished = ~Live(d)
    BY <1>1, <2>1, Zenon
  <2>3. d.locked = Live(d)
    BY <1>1, <2>1, Zenon
  <2> QED
    BY <2>2, <2>3 DEF MarksOK
<1>2. d.finished = FALSE /\ d.locked = TRUE /\ d.outcome \in IN_FLIGHT_OUTCOMES => MarksOK(d)
  BY DEF MarksOK, Live
<1> QED
  BY <1>1, <1>2

LEMMA AdvanceKeeps ==
    ASSUME NEW run, RunOK(run), ReplayOK(run), ~run.finished, NEW new, new = advanceLive(run)
    PROVE  RunOK(new) /\ ReplayOK(new) /\ Kept(run, new) /\ new.attempt = run.attempt
<1>1. CASE run.step = Len(run.script)
  <2>1. new = run
    BY <1>1 DEF advanceLive
  <2> QED
    BY <2>1 DEF Kept, RunOK, IsScript
<1>2. CASE run.step # Len(run.script)
  <2> DEFINE s == run.script[run.step + 1]
             n == Len(run.changes)
  <2>1. /\ DOMAIN new = RunFields
        /\ new.tenant = run.tenant /\ new.trigger = run.trigger /\ new.attempt = run.attempt
        /\ new.retryOf = run.retryOf /\ new.script = run.script
        /\ new.step = run.step + 1 /\ new.changes = Played(run)
        /\ new.changeOutcomes = [i \in 1..Len(Played(run)) |-> Played(run)[i].outcome]
        /\ new.outcome = IF s.finish = None THEN run.outcome ELSE s.finish
        /\ new.finished = (s.finish # None) /\ new.locked = (s.finish = None)
    BY <1>2, AdvanceFields DEF RunOK
  <2>2. run.step \in Nat /\ run.step + 1 \in 1..Len(run.script) /\ Len(run.script) \in Nat
    BY <1>2 DEF RunOK, IsScript
  <2>3. s.finish \in (Outcomes \ IN_FLIGHT_OUTCOMES) \cup {None}
    BY <2>2 DEF RunOK, IsScript
  <2>4. new.outcome \in Outcomes
    BY <2>1, <2>3 DEF RunOK
  <2>5. MarksOK(new)
    <3>1. CASE s.finish = None
      <4>1. new.outcome = run.outcome /\ new.finished = FALSE /\ new.locked = TRUE
        BY <2>1, <3>1
      <4>2. Live(run)
        BY DEF RunOK, MarksOK
      <4> QED
        BY <4>1, <4>2 DEF MarksOK, Live
    <3>2. CASE s.finish # None
      <4>1. new.outcome = s.finish /\ new.finished = TRUE /\ new.locked = FALSE
        BY <2>1, <3>2
      <4>2. new.outcome \notin IN_FLIGHT_OUTCOMES
        BY <4>1, <2>3, <3>2
      <4> QED
        BY <4>1, <4>2, MarksFrom
    <3> QED
      BY <3>1, <3>2
  <2>6. RowsOK(new.changes) /\ Len(new.changes) = n /\ DOMAIN new.changes = 1..n
    <3>1. RowsOK(Played(run)) /\ Len(Played(run)) = n
      BY <1>2, PlayedRows
    <3> QED
      BY <2>1, <3>1 DEF RowsOK, IsList
  <2>7. RowsAgree(new)
    <3> DEFINE rows == Played(run)
    <3>1. \A i \in 1..n : LET c == rows[i] IN
             /\ c.note = "queued" <=> c.outcome = "pending"
             /\ c.note = "inflight" => c.outcome = "applying"
             /\ c.outcome = "applied" => c.timed
      BY <1>2, PlayedRows
    <3>2. new.changeOutcomes = [i \in 1..Len(new.changes) |-> new.changes[i].outcome]
      BY <2>1
    <3>3. new.changes = rows
      BY <2>1
    <3> HIDE DEF rows
    <3> QED
      BY <2>6, <3>1, <3>2, <3>3 DEF RowsAgree
  <2>8. RunOK(new)
    BY <2>1, <2>2, <2>4, <2>5, <2>6, <2>7 DEF RunOK
  <2>9. ReplayOK(new)
    <3>1. SUFFICES ASSUME run.retryOf # 0
                   PROVE  /\ run.script = retryScript(n)
                          /\ new.finished => run.step + 1 = n + 2
                          /\ \A i \in 1..n : i < run.step + 1 => new.changes[i].outcome = "applied"
      BY <2>1, <2>6 DEF ReplayOK
    <3>2. /\ run.script = retryScript(n)
          /\ \A i \in 1..n : i < run.step => run.changes[i].outcome = "applied"
      BY <3>1 DEF ReplayOK
    <3>3. n \in Nat
      BY DEF RunOK, RowsOK, IsList
    <3>4. Len(run.script) = n + 2
      <4> DEFINE f == retryScript(n)
      <4>1. f = [k \in 1..(n + 2) |-> f[k]]
        BY DEF retryScript
      <4> HIDE DEF f
      <4>2. Len(f) = n + 2
        BY <3>3, <4>1, FunctionIsSeq
      <4> QED
        BY <3>2, <4>2 DEF f
    <3> DEFINE k == run.step + 1
    <3>5. s = [changes |-> IF k = 1 THEN <<>>
                           ELSE [c \in {k - 1, k} \cap 1..n |-> IF c = k - 1 THEN "applied" ELSE "applying"],
               finish |-> IF k = n + 2 THEN "Applied" ELSE None]
      <4>1. k \in 1..(n + 2) /\ s = retryScript(n)[k]
        BY <2>2, <3>2, <3>4
      <4> HIDE DEF k, n, s
      <4> QED
        BY <4>1 DEF retryScript
    <3>6. new.finished => run.step + 1 = n + 2
      <4>1. s.finish = IF k = n + 2 THEN "Applied" ELSE None
        BY <3>5
      <4> HIDE DEF s
      <4> QED
        BY <2>1, <4>1
    <3>7. ASSUME NEW i \in 1..n, i < run.step + 1
          PROVE  new.changes[i].outcome = "applied"
      <4>1. /\ i \in DOMAIN s.changes => new.changes[i].outcome = s.changes[i]
            /\ i \notin DOMAIN s.changes => new.changes[i].outcome = run.changes[i].outcome
        <5>1. /\ i \in DOMAIN s.changes => Played(run)[i].outcome = s.changes[i]
              /\ i \notin DOMAIN s.changes => Played(run)[i].outcome = run.changes[i].outcome
          BY <1>2, PlayedRows
        <5> QED
          BY <2>1, <5>1
      <4>2. k - 1 = run.step /\ run.step # 0
            /\ s.changes = [c \in {k - 1, k} \cap 1..n |-> IF c = k - 1 THEN "applied" ELSE "applying"]
        BY <2>2, <3>3, <3>5, <3>7
      <4>3. i = run.step => i \in DOMAIN s.changes /\ s.changes[i] = "applied"
        BY <4>2
      <4>4. i # run.step => i \notin DOMAIN s.changes /\ i < run.step
        BY <2>2, <3>7, <4>2
      <4> HIDE DEF s
      <4> QED
        BY <3>2, <4>1, <4>3, <4>4
    <3> QED
      BY <3>2, <3>6, <3>7
  <2> QED
    BY <2>1, <2>2, <2>6, <2>8, <2>9 DEF Kept
<1> QED
  BY <1>1, <1>2

-----------------------------------------------------------------------------
(* The store *)

RetryOK(rs, rk, r) ==
    /\ rs[r].retryOf \in 0..(r - 1)
    /\ rs[r].retryOf # 0 =>
          /\ Len(rs[r].changes) = Len(rs[rs[r].retryOf].changes)
          /\ rs[rs[r].retryOf].finished
          /\ \E e \in rk : e.run = r
StoreOK(rs, rk) ==
    /\ IsSeq(rs)
    /\ \A r \in DOMAIN rs : RunOK(rs[r]) /\ ReplayOK(rs[r]) /\ RetryOK(rs, rk, r)
    /\ \A e \in rk : e.run \in DOMAIN rs
    /\ \A e, d \in rk : e.key = d.key <=> e.run = d.run

Grows(rs, ns) ==
    /\ Len(rs) \in Nat /\ Len(ns) \in Nat /\ Len(rs) <= Len(ns)
    /\ DOMAIN rs = 1..Len(rs) /\ DOMAIN ns = 1..Len(ns)
    /\ \A r \in DOMAIN rs : Kept(rs[r], ns[r])

LEMMA KeptItself ==
    ASSUME NEW run, RunOK(run)
    PROVE  Kept(run, run)
  BY DEF Kept, RunOK, IsScript

LEMMA SameGrows ==
    ASSUME NEW rs, NEW rk, StoreOK(rs, rk)
    PROVE  Grows(rs, rs)
  BY SeqIsList, KeptItself DEF StoreOK, Grows, IsList

LEMMA AdvancedOK ==
    ASSUME NEW rk, StoreOK(runs, rk), NEW r \in DOMAIN runs
    PROVE  StoreOK(Advanced(r), rk) /\ Grows(runs, Advanced(r)) /\ DOMAIN Advanced(r) = DOMAIN runs
<1>1. CASE runs[r].finished
  BY <1>1, SameGrows DEF Advanced
<1>2. CASE ~runs[r].finished
  <2> DEFINE run == runs[r]
             new == advanceLive(run)
             ns == [runs EXCEPT ![r] = new]
  <2>1. Advanced(r) = ns
    BY <1>2 DEF Advanced
  <2>2. RunOK(run) /\ ReplayOK(run) /\ IsSeq(runs)
    BY DEF StoreOK
  <2>3. RunOK(new) /\ ReplayOK(new) /\ Kept(run, new)
    BY <1>2, <2>2, AdvanceKeeps
  <2>4. IsSeq(ns) /\ DOMAIN ns = DOMAIN runs /\ Len(ns) = Len(runs) /\ ns[r] = new
        /\ \A j \in DOMAIN runs \ {r} : ns[j] = runs[j]
    BY <2>2, ExceptFacts
  <2>5. Len(runs) \in Nat /\ DOMAIN runs = 1..Len(runs)
    BY <2>2, SeqIsList DEF IsList
  <2> HIDE DEF ns, new
  <2>6. \A q \in DOMAIN runs : RunOK(ns[q]) /\ ReplayOK(ns[q]) /\ Kept(runs[q], ns[q])
    BY <2>3, <2>4, KeptItself DEF StoreOK
  <2>7. ASSUME NEW q \in DOMAIN runs
        PROVE  RetryOK(ns, rk, q)
    <3>1. ns[q].retryOf = runs[q].retryOf /\ Len(ns[q].changes) = Len(runs[q].changes)
      BY <2>6 DEF Kept
    <3>2. RetryOK(runs, rk, q)
      BY DEF StoreOK
    <3>3. ASSUME runs[q].retryOf # 0
          PROVE  LET o == runs[q].retryOf IN ns[o] = runs[o]
      <4>1. runs[q].retryOf \in DOMAIN runs /\ runs[runs[q].retryOf].finished
        BY <2>5, <3>2, <3>3 DEF RetryOK
      <4> QED
        BY <2>6, <4>1 DEF Kept
    <3> QED
      BY <3>1, <3>2, <3>3 DEF RetryOK
  <2>8. StoreOK(ns, rk)
    BY <2>4, <2>6, <2>7 DEF StoreOK
  <2> QED
    BY <2>1, <2>4, <2>5, <2>6, <2>8 DEF Grows
<1> QED
  BY <1>1, <1>2

RetryRows(n) ==
    [i \in 1..n |-> [outcome |-> IF i = 1 THEN "applying" ELSE "pending", timed |-> FALSE,
                     note |-> IF i = 1 THEN "inflight" ELSE "queued"]]

LEMMA RetryFields ==
    ASSUME NEW r, DOMAIN runs[r] = RunFields
    PROVE  LET new == RetryOfRun(r)
               n == Len(runs[r].changes)
           IN  /\ DOMAIN new = RunFields
               /\ new.tenant = runs[r].tenant /\ new.trigger = "manual" /\ new.outcome = "Applying"
               /\ new.finished = FALSE /\ new.locked = TRUE /\ new.retryOf = r
               /\ new.script = retryScript(n) /\ new.step = 0 /\ new.changes = RetryRows(n)
               /\ new.changeOutcomes = [i \in 1..n |-> RetryRows(n)[i].outcome]
<1> DEFINE n == Len(runs[r].changes)
           script == retryScript(n)
           rows == RetryRows(n)
           out == [i \in 1..n |-> rows[i].outcome]
<1>1. RetryOfRun(r) =
        [runs[r] EXCEPT !.trigger = "manual", !.outcome = "Applying", !.finished = FALSE, !.locked = TRUE,
                        !.attempt = None, !.retryOf = r, !.changes = rows, !.changeOutcomes = out,
                        !.script = script, !.step = 0]
  BY DEF RetryOfRun, RetryOutcome, RetryRows
<1> HIDE DEF rows, out, script
<1>2. LET new == RetryOfRun(r)
      IN  /\ DOMAIN new = RunFields
          /\ new.tenant = runs[r].tenant /\ new.trigger = "manual" /\ new.outcome = "Applying"
          /\ new.finished = FALSE /\ new.locked = TRUE /\ new.retryOf = r
          /\ new.script = script /\ new.step = 0 /\ new.changes = rows /\ new.changeOutcomes = out
  BY <1>1 DEF RunFields
<1> QED
  BY <1>2 DEF rows, out, script

LEMMA RetryRowFacts ==
    ASSUME NEW n \in Nat
    PROVE  /\ RowsOK(RetryRows(n)) /\ Len(RetryRows(n)) = n
           /\ \A i \in 1..n : LET c == RetryRows(n)[i] IN
                 /\ c.note = "queued" <=> c.outcome = "pending"
                 /\ c.note = "inflight" => c.outcome = "applying"
                 /\ c.outcome # "applied"
<1> DEFINE rows == RetryRows(n)
<1>1. rows = [i \in 1..n |-> rows[i]]
  BY DEF RetryRows
<1>2. ASSUME NEW i \in 1..n
      PROVE  /\ rows[i] \in RunChange
             /\ rows[i].note = "queued" <=> rows[i].outcome = "pending"
             /\ rows[i].note = "inflight" => rows[i].outcome = "applying"
             /\ rows[i].outcome # "applied"
  <2>1. CASE i = 1
    <3>1. rows[i] = [outcome |-> "applying", timed |-> FALSE, note |-> "inflight"]
      BY <2>1 DEF RetryRows
    <3> HIDE DEF rows
    <3>2. rows[i].outcome = "applying" /\ rows[i].note = "inflight"
      BY <3>1
    <3>3. rows[i] \in RunChange
      BY <3>1 DEF RunChange, ChangeOutcomes
    <3> QED
      BY <3>2, <3>3
  <2>2. CASE i # 1
    <3>1. rows[i] = [outcome |-> "pending", timed |-> FALSE, note |-> "queued"]
      BY <2>2 DEF RetryRows
    <3> HIDE DEF rows
    <3>2. rows[i].outcome = "pending" /\ rows[i].note = "queued"
      BY <3>1
    <3>3. rows[i] \in RunChange
      BY <3>1 DEF RunChange, ChangeOutcomes
    <3> QED
      BY <3>2, <3>3
  <2> QED
    BY <2>1, <2>2
<1> HIDE DEF rows
<1>3. IsList(rows) /\ Len(rows) = n
  BY <1>1, FunctionIsSeq, SeqIsList
<1>4. RowsOK(rows)
  BY <1>2, <1>3 DEF RowsOK
<1> QED
  BY <1>2, <1>3, <1>4 DEF rows

LEMMA RetryScriptOK ==
    ASSUME NEW n \in Nat
    PROVE  IsScript(retryScript(n)) /\ Len(retryScript(n)) = n + 2
<1> DEFINE f == retryScript(n)
<1>1. f = [k \in 1..(n + 2) |-> f[k]]
  BY DEF retryScript
<1>2. ASSUME NEW k \in 1..(n + 2)
      PROVE  /\ f[k].finish \in (Outcomes \ IN_FLIGHT_OUTCOMES) \cup {None}
             /\ \A i \in DOMAIN f[k].changes : f[k].changes[i] \in {"applied", "applying"}
  <2> DEFINE steps == IF k = 1 THEN <<>>
                      ELSE [c \in {k - 1, k} \cap 1..n |-> IF c = k - 1 THEN "applied" ELSE "applying"]
             last == IF k = n + 2 THEN "Applied" ELSE None
  <2>1. f[k] = [changes |-> steps, finish |-> last]
    BY DEF retryScript
  <2>2. last \in (Outcomes \ IN_FLIGHT_OUTCOMES) \cup {None}
    BY DEF Outcomes, IN_FLIGHT_OUTCOMES
  <2>3. \A i \in DOMAIN steps : steps[i] \in {"applied", "applying"}
    <3>1. CASE k = 1
      BY <3>1
    <3>2. CASE k # 1
      BY <3>2
    <3> QED
      BY <3>1, <3>2
  <2> HIDE DEF f, steps, last
  <2> QED
    BY <2>1, <2>2, <2>3
<1> HIDE DEF f
<1>3. IsList(f) /\ Len(f) = n + 2
  BY <1>1, FunctionIsSeq, SeqIsList
<1> QED
  BY <1>2, <1>3 DEF IsScript, IsList, f

LEMMA RetryRunOK ==
    ASSUME NEW r, RunOK(runs[r]), r # 0
    PROVE  LET new == RetryOfRun(r)
           IN  RunOK(new) /\ ReplayOK(new) /\ new.retryOf = r /\ Len(new.changes) = Len(runs[r].changes)
<1> DEFINE new == RetryOfRun(r)
           n == Len(runs[r].changes)
<1>1. /\ DOMAIN new = RunFields
      /\ new.tenant = runs[r].tenant /\ new.trigger = "manual" /\ new.outcome = "Applying"
      /\ new.finished = FALSE /\ new.locked = TRUE /\ new.retryOf = r
      /\ new.script = retryScript(n) /\ new.step = 0 /\ new.changes = RetryRows(n)
      /\ new.changeOutcomes = [i \in 1..n |-> RetryRows(n)[i].outcome]
  BY RetryFields DEF RunOK
<1>2. n \in Nat
  BY DEF RunOK, RowsOK, IsList
<1> HIDE DEF new, n
<1>3. IsScript(new.script) /\ new.step \in 0..Len(new.script)
  BY <1>1, <1>2, RetryScriptOK
<1>4. RowsOK(new.changes) /\ Len(new.changes) = n /\ DOMAIN new.changes = 1..n
  <2>1. RowsOK(RetryRows(n)) /\ Len(RetryRows(n)) = n
    BY <1>2, RetryRowFacts
  <2> QED
    BY <1>1, <2>1 DEF RowsOK, IsList
<1>5. RowsAgree(new)
  <2>1. \A i \in 1..n : LET c == new.changes[i] IN
           /\ c.note = "queued" <=> c.outcome = "pending"
           /\ c.note = "inflight" => c.outcome = "applying"
           /\ c.outcome # "applied"
    <3> DEFINE rows == RetryRows(n)
    <3>1. \A i \in 1..n : LET c == rows[i] IN
             /\ c.note = "queued" <=> c.outcome = "pending"
             /\ c.note = "inflight" => c.outcome = "applying"
             /\ c.outcome # "applied"
      BY <1>2, RetryRowFacts
    <3> HIDE DEF rows
    <3> QED
      BY <1>1, <3>1 DEF rows
  <2>2. new.changeOutcomes = [i \in 1..Len(new.changes) |-> new.changes[i].outcome]
    BY <1>1, <1>4
  <2> QED
    BY <1>4, <2>1, <2>2 DEF RowsAgree
<1>6. MarksOK(new)
  BY <1>1, MarksFrom DEF IN_FLIGHT_OUTCOMES
<1>7. new.tenant \in RunTenants /\ new.trigger \in Triggers /\ new.outcome \in Outcomes
  BY <1>1 DEF RunOK, Triggers, Outcomes
<1>8. RunOK(new)
  BY <1>1, <1>3, <1>4, <1>5, <1>6, <1>7 DEF RunOK
<1>9. ReplayOK(new)
  BY <1>1, <1>4 DEF ReplayOK
<1> QED
  BY <1>1, <1>4, <1>8, <1>9 DEF new, n

LEMMA RetryAppended ==
    ASSUME NEW rk, StoreOK(runs, rk), NEW r \in DOMAIN runs, runs[r].finished,
           NEW key, \A e \in rk : e.key # key
    PROVE  LET ns == Append(runs, RetryOfRun(r))
               nk == rk \cup {[key |-> key, run |-> Len(runs) + 1]}
           IN  StoreOK(ns, nk) /\ Grows(runs, ns) /\ Len(ns) = Len(runs) + 1
<1> DEFINE new == RetryOfRun(r)
           ns == Append(runs, new)
           en == [key |-> key, run |-> Len(runs) + 1]
           nk == rk \cup {en}
<1>1. IsSeq(runs) /\ RunOK(runs[r]) /\ Len(runs) \in Nat /\ DOMAIN runs = 1..Len(runs)
  BY SeqIsList DEF StoreOK, IsList
<1>2. RunOK(new) /\ ReplayOK(new) /\ new.retryOf = r /\ Len(new.changes) = Len(runs[r].changes)
  BY <1>1, RetryRunOK
<1>3. en.key = key /\ en.run = Len(runs) + 1
  OBVIOUS
<1> HIDE DEF new, en
<1>4. /\ IsSeq(ns) /\ Len(ns) = Len(runs) + 1 /\ ns[Len(runs) + 1] = new
      /\ \A i \in DOMAIN runs : i \in DOMAIN ns /\ ns[i] = runs[i]
  BY <1>1, AppendFacts
<1>5. DOMAIN ns = 1..(Len(runs) + 1)
  BY <1>4, SeqIsList DEF IsList
<1> HIDE DEF ns
<1>6. Grows(runs, ns)
  BY <1>1, <1>4, <1>5, KeptItself DEF Grows, StoreOK
<1>7. ASSUME NEW q \in DOMAIN ns
      PROVE  RunOK(ns[q]) /\ ReplayOK(ns[q]) /\ RetryOK(ns, nk, q)
  <2>1. CASE q = Len(runs) + 1
    <3>1. ns[q] = new /\ ns[r] = runs[r]
      BY <1>4, <2>1
    <3>2. \E e \in nk : e.run = q
      BY <1>3, <2>1
    <3> QED
      BY <1>1, <1>2, <2>1, <3>1, <3>2 DEF RetryOK
  <2>2. CASE q # Len(runs) + 1
    <3>1. q \in DOMAIN runs /\ ns[q] = runs[q]
      BY <1>1, <1>4, <1>5, <2>2
    <3>2. RunOK(runs[q]) /\ ReplayOK(runs[q]) /\ RetryOK(runs, rk, q)
      BY <3>1 DEF StoreOK
    <3>3. runs[q].retryOf # 0 => ns[runs[q].retryOf] = runs[runs[q].retryOf]
      BY <1>1, <1>4, <3>1, <3>2 DEF RetryOK
    <3> QED
      BY <3>1, <3>2, <3>3 DEF RetryOK
  <2> QED
    BY <2>1, <2>2
<1>8. \A e \in nk : e.run \in DOMAIN ns
  BY <1>1, <1>3, <1>4, <1>5 DEF StoreOK
<1>9. \A e, d \in nk : e.key = d.key <=> e.run = d.run
  <2>1. \A e \in rk : e.key # en.key /\ e.run # en.run
    BY <1>1, <1>3 DEF StoreOK
  <2> QED
    BY <2>1 DEF StoreOK
<1>10. StoreOK(ns, nk)
  <2> HIDE DEF nk
  <2> QED
    BY <1>4, <1>7, <1>8, <1>9 DEF StoreOK
<1> QED
  BY <1>4, <1>6, <1>10 DEF ns, nk, en, new

-----------------------------------------------------------------------------
(* A page of the list *)

LEMMA NewestFacts ==
    ASSUME NEW m \in Nat, NEW S \in SUBSET (1..m), NEW n \in Nat \ {0}
    PROVE  LET rows == NewestRows(S, n)
           IN  /\ rows \subseteq S
               /\ \A r \in S \ rows : \A q \in rows : r < q
               /\ S # {} => \E q \in rows : \A x \in rows : q <= x
<1> DEFINE rows == NewestRows(S, n)
           After(r) == {x \in S : x > r}
<1>1. rows = {r \in S : Cardinality(After(r)) < n}
  BY DEF NewestRows
<1>0. S \in SUBSET (0..m) /\ S \in SUBSET Nat /\ \A x \in S : x \in Int
  OBVIOUS
<1>2. IsFiniteSet(S)
  <2>1. IsFiniteSet(1..m)
    BY FS_Interval
  <2> QED
    BY <2>1, FS_Subset, Zenon
<1>3. \A r : IsFiniteSet(After(r)) /\ Cardinality(After(r)) \in Nat
  BY <1>2, FS_Subset, FS_CardinalityType
<1>4. ASSUME NEW r \in S \ rows, NEW q \in rows
      PROVE  r < q
  <2>0. r \in Int /\ q \in Int /\ \A x \in S : x \in Int
    BY <1>0, <1>1
  <2>1. SUFFICES ASSUME q <= r
                 PROVE  FALSE
    BY <2>0
  <2>2. After(r) \subseteq After(q)
    <3>1. \A x \in S : x > r => x > q
      BY <2>0, <2>1
    <3> QED
      BY <3>1, Zenon
  <2>3. Cardinality(After(r)) <= Cardinality(After(q))
    BY <1>3, <2>2, FS_Subset
  <2>4. Cardinality(After(q)) < n /\ ~(Cardinality(After(r)) < n)
    BY <1>1
  <2> HIDE DEF After
  <2> QED
    BY <1>3, <2>3, <2>4
<1>5. ASSUME S # {}
      PROVE  \E q \in rows : \A x \in rows : q <= x
  <2>1. PICK g \in S : \A y \in S : y <= g
    BY <1>0, <1>5, HasGreatest, Zenon
  <2>2. After(g) = {}
    <3>1. \A x \in S : ~(x > g)
      BY <1>0, <2>1
    <3> QED
      BY <3>1, Zenon
  <2>3. g \in rows
    BY <1>1, <2>2, FS_EmptySet
  <2>4. rows \in SUBSET Nat /\ rows # {}
    BY <1>0, <1>1, <2>3
  <2> HIDE DEF rows
  <2> QED
    BY <2>4, HasLeast, Zenon
<1> QED
  BY <1>1, <1>4, <1>5

Summary(run) == [outcome |-> run.outcome, finished |-> run.finished,
                 changeOutcomes |-> run.changeOutcomes, attempt |-> run.attempt]
PageOK(rs, p) ==
    /\ p.generatedAt \in 0..Len(rs)
    /\ \A r \in DOMAIN p.rows :
          /\ r \in DOMAIN rs /\ p.rows[r].finished = ~Live(p.rows[r])
          /\ p.rows[r].finished => p.rows[r] = Summary(rs[r])

(* The runs a filter without an outcome selects: this never changes. *)
Selected(rs, f) == {r \in DOMAIN rs : f.tenant \in {None, rs[r].tenant} /\ f.trigger \in {None, rs[r].trigger}}
PageFor(rs, p, f) ==
    LET rows == DOMAIN p.rows
        c == f.cursor
        all == Selected(rs, f)
    IN  f.outcome = None /\ (c = None \/ (c \in all /\ c <= p.generatedAt)) =>
           /\ rows \subseteq all
           /\ c # None => \A q \in rows : q < c
           /\ \A r \in all \ rows :
                 \/ r > p.generatedAt
                 \/ c # None /\ c <= r
                 \/ (\A q \in rows : r < q) /\ p.nextCursor # None

LEMMA MatchingSelected ==
    ASSUME NEW f, f.outcome = None
    PROVE  Matching(f) = Selected(runs, f)
  BY DEF Matching, Selected

LEMMA SummaryMarks ==
    ASSUME NEW run, RunOK(run)
    PROVE  Summary(run).finished = ~Live(Summary(run)) /\ Summary(run).finished = run.finished
<1>1. Summary(run).finished = run.finished /\ Summary(run).outcome = run.outcome
  BY DEF Summary
<1>2. run.finished = ~Live(run)
  BY DEF RunOK, MarksOK
<1> QED
  BY <1>1, <1>2 DEF Live

LEMMA ListRunsOK ==
    ASSUME NEW rk, StoreOK(runs, rk), NEW f, f.limit \in Nat \ {0}, NEW p, p = listRuns(f)
    PROVE  PageOK(runs, p) /\ PageFor(runs, p, f)
<1> DEFINE rest == AfterCursor(Matching(f), f.cursor)
           rows == NewestRows(rest, f.limit)
           least == CHOOSE r \in rows : \A q \in rows : r <= q
           cursor == IF rows = rest THEN None ELSE least
           total == Total(f)
           shows == [r \in rows |-> toSummary(r)]
<1>1. p = [rows |-> shows, total |-> total, generatedAt |-> Len(runs), nextCursor |-> cursor]
  BY DEF listRuns
<1>2. Len(runs) \in Nat /\ DOMAIN runs = 1..Len(runs)
  BY SeqIsList DEF StoreOK, IsList
<1>3. DOMAIN shows = rows /\ \A r \in rows : shows[r] = Summary(runs[r])
  BY DEF toSummary, Summary
<1>4. rest \in SUBSET (1..Len(runs)) /\ rest \subseteq Matching(f)
  BY <1>2 DEF AfterCursor, Matching
<1> HIDE DEF rest, shows, total
<1>5. /\ rows \subseteq rest
      /\ \A r \in rest \ rows : \A q \in rows : r < q
      /\ rest # {} => \E q \in rows : \A x \in rows : q <= x
  BY <1>2, <1>4, NewestFacts
<1> HIDE DEF rows
<1>6. rows # rest => cursor # None
  <2>1. SUFFICES ASSUME rows # rest
                 PROVE  least # None
    BY <1>4, RunsAssumption
  <2>2. \E q \in rows : \A x \in rows : q <= x
    BY <1>5, <2>1
  <2>3. least \in rows
    BY <2>2
  <2>4. least \in Int
    <3>1. \A x \in 1..Len(runs) : x \in Int
      OBVIOUS
    <3> QED
      BY <1>4, <1>5, <2>3, <3>1
  <2> QED
    BY <2>4, RunsAssumption
<1> HIDE DEF cursor
<1>7. p.rows = shows /\ p.generatedAt = Len(runs) /\ p.nextCursor = cursor
  BY <1>1
<1>8. PageOK(runs, p)
  <2>1. \A r \in rows : r \in DOMAIN runs /\ RunOK(runs[r])
    BY <1>2, <1>4, <1>5 DEF StoreOK
  <2>2. \A r \in rows : shows[r].finished = ~Live(shows[r])
    BY <1>3, <2>1, SummaryMarks
  <2> QED
    BY <1>2, <1>3, <1>7, <2>1, <2>2 DEF PageOK
<1>9. PageFor(runs, p, f)
  <2> DEFINE c == f.cursor
             all == Selected(runs, f)
  <2>1. SUFFICES ASSUME f.outcome = None, c = None \/ (c \in all /\ c <= Len(runs))
                 PROVE  /\ rows \subseteq all
                        /\ c # None => \A q \in rows : q < c
                        /\ \A r \in all \ rows :
                              \/ r > Len(runs)
                              \/ c # None /\ c <= r
                              \/ (\A q \in rows : r < q) /\ cursor # None
    BY <1>3, <1>7 DEF PageFor
  <2>2. rest = IF c = None THEN all ELSE {r \in all : r < c}
    BY <2>1, MatchingSelected DEF rest, AfterCursor
  <2>3. all \in SUBSET Int /\ (c # None => c \in Int)
    BY <1>2, <2>1 DEF Selected
  <2> HIDE DEF all, c
  <2>4. rows \subseteq all /\ (c # None => \A q \in rows : q < c)
    BY <1>5, <2>2
  <2>5. ASSUME NEW r \in all \ rows, ~(c # None /\ c <= r)
        PROVE  (\A q \in rows : r < q) /\ cursor # None
    <3>1. r \in rest
      BY <2>2, <2>3, <2>5
    <3> QED
      BY <1>5, <1>6, <3>1
  <2> QED
    BY <2>4, <2>5
<1> QED
  BY <1>8, <1>9

LEMMA PageStays ==
    ASSUME NEW rs, NEW ns, Grows(rs, ns), NEW p, PageOK(rs, p)
    PROVE  PageOK(ns, p)
<1>1. p.generatedAt \in 0..Len(ns)
  BY DEF Grows, PageOK
<1>2. ASSUME NEW r \in DOMAIN p.rows
      PROVE  /\ r \in DOMAIN ns /\ p.rows[r].finished = ~Live(p.rows[r])
             /\ p.rows[r].finished => p.rows[r] = Summary(ns[r])
  <2>1. /\ r \in DOMAIN rs /\ p.rows[r].finished = ~Live(p.rows[r])
        /\ p.rows[r].finished => p.rows[r] = Summary(rs[r])
    BY DEF PageOK
  <2>2. r \in DOMAIN ns /\ Kept(rs[r], ns[r])
    BY <2>1 DEF Grows
  <2>3. Summary(rs[r]).finished = rs[r].finished
    BY DEF Summary
  <2>4. p.rows[r].finished => ns[r] = rs[r]
    BY <2>1, <2>2, <2>3 DEF Kept
  <2> QED
    BY <2>1, <2>2, <2>4
<1> QED
  BY <1>1, <1>2 DEF PageOK

LEMMA PageForStays ==
    ASSUME NEW rs, NEW ns, Grows(rs, ns), NEW p, PageOK(rs, p), NEW f, PageFor(rs, p, f)
    PROVE  PageFor(ns, p, f)
<1> DEFINE rows == DOMAIN p.rows
           c == f.cursor
           old == Selected(rs, f)
           all == Selected(ns, f)
<1>1. SUFFICES ASSUME f.outcome = None, c = None \/ (c \in all /\ c <= p.generatedAt)
               PROVE  /\ rows \subseteq all
                      /\ c # None => \A q \in rows : q < c
                      /\ \A r \in all \ rows :
                            \/ r > p.generatedAt
                            \/ c # None /\ c <= r
                            \/ (\A q \in rows : r < q) /\ p.nextCursor # None
  BY DEF PageFor
<1>2. p.generatedAt \in 0..Len(rs) /\ Len(rs) \in Nat /\ Len(ns) \in Nat
  BY DEF PageOK, Grows
<1>3. \A r \in 1..Len(rs) : r \in old <=> r \in all
  BY DEF Selected, Grows, Kept
<1>4. old \subseteq all /\ all \subseteq 1..Len(ns) /\ old \subseteq 1..Len(rs)
  BY <1>3 DEF Selected, Grows
<1> HIDE DEF old, all
<1>5. c = None \/ (c \in old /\ c <= p.generatedAt)
  <2>1. CASE c = None
    BY <2>1
  <2>2. CASE c \in all /\ c <= p.generatedAt
    <3>1. c \in 1..Len(ns)
      BY <1>4, <2>2
    <3> HIDE DEF c
    <3>2. c \in 1..Len(rs)
      BY <1>2, <2>2, <3>1
    <3> QED
      BY <1>3, <2>2, <3>2
  <2> QED
    BY <1>1, <2>1, <2>2
<1>6. /\ rows \subseteq old
      /\ c # None => \A q \in rows : q < c
      /\ \A r \in old \ rows :
            \/ r > p.generatedAt
            \/ c # None /\ c <= r
            \/ (\A q \in rows : r < q) /\ p.nextCursor # None
  BY <1>1, <1>5 DEF PageFor, old
<1>7. \A r \in all : r \notin old => r > p.generatedAt
  BY <1>2, <1>3, <1>4
<1> HIDE DEF rows
<1> QED
  BY <1>4, <1>6, <1>7

-----------------------------------------------------------------------------
(* The tabs *)

DetailOK(d) == MarksOK(d) /\ RowsAgree(d)
DetailFor(rs, d, r) ==
    /\ r \in DOMAIN rs /\ d.step \in Nat /\ d.step <= rs[r].step
    /\ d.finished => d = toDetail(rs[r])

LinkFields == {"tenant", "trigger", "outcome", "cursor", "limit"}
FilterOK(f) == DOMAIN f = LinkFields /\ f.limit \in Nat \ {0}

ListOK(rs, l) ==
    /\ DOMAIN l = {"screen", "url", "filter", "page", "run", "detail", "failed", "problem"}
    /\ l.screen \in {"list", "run", "missing"} /\ l.run \in 0..(Len(rs) + 1)
    /\ DOMAIN l.url = LinkFields /\ FilterOK(l.filter)
    /\ PageOK(rs, l.page) /\ DetailOK(l.detail)
    /\ l.screen = "list" => PageFor(rs, l.page, l.filter)
    /\ l.screen = "run" => DetailFor(rs, l.detail, l.run)
PollOK(rs, q) ==
    /\ DOMAIN q = {"phase", "key", "page", "detail"} /\ q.phase \in {"idle", "sent", "answered"}
    /\ FilterOK(q.key.filter) /\ PageOK(rs, q.page) /\ DetailOK(q.detail)
    /\ q.key.screen = "run" => q.key.run \in DOMAIN rs
    /\ q.phase = "answered" =>
          /\ q.key.screen = "list" => PageFor(rs, q.page, q.key.filter)
          /\ q.key.screen = "run" => DetailFor(rs, q.detail, q.key.run)
MutationOK(rs, m) ==
    /\ DOMAIN m = {"phase", "run", "key", "result"}
    /\ m.phase \in {"idle", "sent", "answered", "refetch", "refetched"} /\ m.result \in 0..Len(rs)
    /\ m.phase \in {"refetch", "refetched"} => m.result # 0

RunsInv ==
    /\ StoreOK(runs, retriesByKey)
    /\ DOMAIN list = Tabs /\ DOMAIN poll = Tabs /\ DOMAIN retry = Tabs
    /\ \A t \in Tabs : ListOK(runs, list[t]) /\ PollOK(runs, poll[t]) /\ MutationOK(runs, retry[t])

LEMMA DetailFacts ==
    ASSUME NEW run, RunOK(run)
    PROVE  DetailOK(toDetail(run)) /\ toDetail(run).step = run.step /\ run.step \in Nat
<1> DEFINE d == toDetail(run)
<1>1. /\ d.outcome = run.outcome /\ d.finished = run.finished /\ d.locked = run.locked
      /\ d.changes = run.changes /\ d.changeOutcomes = run.changeOutcomes /\ d.step = run.step
  BY DEF toDetail
<1> HIDE DEF d
<1>2. MarksOK(d)
  BY <1>1 DEF RunOK, MarksOK, Live
<1>3. RowsAgree(d)
  BY <1>1 DEF RunOK, RowsAgree
<1>4. run.step \in Nat
  BY DEF RunOK, IsScript
<1> QED
  BY <1>1, <1>2, <1>3, <1>4 DEF DetailOK, d

LEMMA NoDetailOK == DetailOK(NoDetail)
<1> DEFINE none == << >>
           d == NoDetail
<1>1. d.finished = TRUE /\ d.locked = FALSE /\ d.outcome = "NoChanges" /\ d.changes = none /\ d.changeOutcomes = none
  BY DEF NoDetail
<1>2. Len(none) = 0 /\ DOMAIN none = {} /\ none = [i \in 1..0 |-> none[i].outcome]
  OBVIOUS
<1> HIDE DEF none, d
<1>3. MarksOK(d)
  BY <1>1, MarksFrom DEF IN_FLIGHT_OUTCOMES
<1>4. RowsAgree(d)
  BY <1>1, <1>2 DEF RowsAgree
<1> QED
  BY <1>3, <1>4 DEF DetailOK, d

LEMMA NoPageOK ==
    ASSUME NEW rs, Len(rs) \in Nat
    PROVE  PageOK(rs, NoPage)
  BY DEF PageOK, NoPage

LEMMA DetailStays ==
    ASSUME NEW rs, NEW ns, Grows(rs, ns), NEW d, NEW r, DetailFor(rs, d, r), rs[r].step \in Nat
    PROVE  DetailFor(ns, d, r)
<1>1. Kept(rs[r], ns[r]) /\ r \in DOMAIN ns
  BY DEF Grows, DetailFor
<1>2. d.finished => rs[r].finished
  BY DEF DetailFor, toDetail
<1>3. d.finished => d = toDetail(ns[r])
  BY <1>1, <1>2 DEF Kept, DetailFor
<1>4. d.step \in Nat /\ d.step <= ns[r].step
  BY <1>1 DEF Kept, DetailFor
<1> QED
  BY <1>1, <1>3, <1>4 DEF DetailFor

LEMMA ListStays ==
    ASSUME NEW rs, NEW rk, StoreOK(rs, rk), NEW ns, Grows(rs, ns), NEW l, ListOK(rs, l)
    PROVE  ListOK(ns, l)
<1>1. PageOK(ns, l.page)
  BY PageStays DEF ListOK
<1>2. l.screen = "list" => PageFor(ns, l.page, l.filter)
  BY PageForStays DEF ListOK
<1>3. l.screen = "run" => DetailFor(ns, l.detail, l.run)
  <2>1. l.screen = "run" => DetailFor(rs, l.detail, l.run) /\ RunOK(rs[l.run])
    BY DEF ListOK, StoreOK, DetailFor
  <2> QED
    BY <2>1, DetailStays, DetailFacts
<1>4. l.run \in 0..(Len(ns) + 1)
  BY DEF ListOK, Grows
<1> QED
  BY <1>1, <1>2, <1>3, <1>4 DEF ListOK

LEMMA MutationStays ==
    ASSUME NEW rs, NEW ns, Grows(rs, ns), NEW m, MutationOK(rs, m)
    PROVE  MutationOK(ns, m)
<1>1. Len(rs) \in Nat /\ Len(ns) \in Nat /\ Len(rs) <= Len(ns)
  BY DEF Grows
<1>2. m.result \in 0..Len(rs)
  BY DEF MutationOK
<1>3. m.result \in 0..Len(ns)
  BY <1>1, <1>2
<1> QED
  BY <1>3 DEF MutationOK

LEMMA PollStays ==
    ASSUME NEW rs, NEW rk, StoreOK(rs, rk), NEW ns, Grows(rs, ns), NEW q, PollOK(rs, q)
    PROVE  PollOK(ns, q)
<1>1. PageOK(ns, q.page)
  BY PageStays DEF PollOK
<1>2. q.phase = "answered" /\ q.key.screen = "list" => PageFor(ns, q.page, q.key.filter)
  BY PageForStays DEF PollOK
<1>3. q.phase = "answered" /\ q.key.screen = "run" => DetailFor(ns, q.detail, q.key.run)
  <2>1. q.phase = "answered" /\ q.key.screen = "run" =>
           DetailFor(rs, q.detail, q.key.run) /\ RunOK(rs[q.key.run])
    BY DEF PollOK, StoreOK, DetailFor
  <2> QED
    BY <2>1, DetailStays, DetailFacts
<1>4. q.key.screen = "run" => q.key.run \in DOMAIN ns
  BY DEF PollOK, Grows
<1> QED
  BY <1>1, <1>2, <1>3, <1>4 DEF PollOK

(* A step of a tab leaves the others alone. *)
OnlyAt(f, g, t) == DOMAIN g = DOMAIN f /\ \A u \in DOMAIN f \ {t} : g[u] = f[u]

LEMMA RunsFrame ==
    ASSUME RunsInv, StoreOK(runs', retriesByKey'), Grows(runs, runs'), NEW t \in Tabs,
           OnlyAt(list, list', t), OnlyAt(poll, poll', t), OnlyAt(retry, retry', t),
           ListOK(runs', list'[t]), PollOK(runs', poll'[t]), MutationOK(runs', retry'[t])
    PROVE  RunsInv'
<1>1. DOMAIN list' = Tabs /\ DOMAIN poll' = Tabs /\ DOMAIN retry' = Tabs
  BY DEF RunsInv, OnlyAt
<1>2. ASSUME NEW u \in Tabs
      PROVE  ListOK(runs', list'[u]) /\ PollOK(runs', poll'[u]) /\ MutationOK(runs', retry'[u])
  <2>1. CASE u = t
    BY <2>1
  <2>2. CASE u # t
    <3>1. list'[u] = list[u] /\ poll'[u] = poll[u] /\ retry'[u] = retry[u]
      BY <2>2 DEF OnlyAt, RunsInv
    <3>2. ListOK(runs, list[u]) /\ PollOK(runs, poll[u]) /\ MutationOK(runs, retry[u]) /\ StoreOK(runs, retriesByKey)
      BY DEF RunsInv
    <3>3. ListOK(runs', list[u]) /\ PollOK(runs', poll[u])
      BY <3>2, ListStays, PollStays
    <3>4. MutationOK(runs', retry[u])
      BY <3>2 DEF MutationOK, Grows
    <3> QED
      BY <3>1, <3>3, <3>4
  <2> QED
    BY <2>1, <2>2
<1> QED
  BY <1>1, <1>2 DEF RunsInv

-----------------------------------------------------------------------------
(* The steps *)

LEMMA AnyRunOK == ASSUME NEW tenant PROVE FilterOK(AnyRun(tenant))
<1>1. AnyRun(tenant).limit = DefaultLimit /\ DOMAIN AnyRun(tenant) = LinkFields
  BY DEF AnyRun, LinkFields
<1> QED
  BY <1>1, RunsAssumption DEF FilterOK

LEMMA PathOK == ASSUME NEW f, FilterOK(f) PROVE FilterOK(runsListPath(f))
<1>1. runsListPath(f).limit = DefaultLimit /\ DOMAIN runsListPath(f) = LinkFields
  BY DEF FilterOK, runsListPath, LinkFields
<1>2. DefaultLimit \in 1..100
  BY RunsAssumption
<1>3. DefaultLimit \in Nat \ {0}
  BY <1>2
<1> QED
  BY <1>1, <1>3 DEF FilterOK

LEMMA PageFilterOK ==
    ASSUME NEW t, NEW raw, DOMAIN raw = LinkFields
    PROVE  FilterOK(PageFilter(t, raw))
<1>1. CASE ~runFilterFromParams(raw)
  BY <1>1, AnyRunOK DEF PageFilter
<1>2. CASE runFilterFromParams(raw)
  <2> DEFINE tenant == IF ScopeOf[t] = None THEN raw.tenant ELSE ScopeOf[t]
             limit == IF raw.limit = None THEN DefaultLimit ELSE raw.limit
  <2>1. PageFilter(t, raw) = [raw EXCEPT !.tenant = tenant, !.limit = limit]
    BY <1>2 DEF PageFilter
  <2>2. limit \in Nat \ {0}
    <3>1. raw.limit = None \/ raw.limit \in 1..100
      BY <1>2 DEF runFilterFromParams
    <3>2. DefaultLimit \in 1..100
      BY RunsAssumption
    <3>3. limit \in 1..100
      BY <3>1, <3>2
    <3> HIDE DEF limit
    <3> QED
      BY <3>3
  <2> HIDE DEF tenant, limit
  <2>3. DOMAIN PageFilter(t, raw) = LinkFields /\ PageFilter(t, raw).limit = limit
    BY <2>1 DEF LinkFields
  <2> QED
    BY <2>2, <2>3 DEF FilterOK
<1> QED
  BY <1>1, <1>2

LEMMA RunsPageOK ==
    ASSUME NEW rk, StoreOK(runs, rk), NEW t, NEW raw, DOMAIN raw = LinkFields
    PROVE  ListOK(runs, RunsPage(t, raw))
<1> DEFINE f == PageFilter(t, raw)
           p == listRuns(f)
           l == RunsPage(t, raw)
<1>1. FilterOK(f)
  BY PageFilterOK
<1>2. f.limit \in Nat \ {0}
  BY <1>1 DEF FilterOK
<1>3. l = [screen |-> "list", url |-> raw, filter |-> f, page |-> p,
           run |-> 0, detail |-> NoDetail, failed |-> FALSE, problem |-> FALSE]
  BY DEF RunsPage
<1> HIDE DEF f
<1>4. PageOK(runs, p) /\ PageFor(runs, p, f)
  BY <1>2, ListRunsOK
<1>5. Len(runs) \in Nat
  BY SeqIsList DEF StoreOK, IsList
<1> HIDE DEF p, l
<1>6. /\ DOMAIN l = {"screen", "url", "filter", "page", "run", "detail", "failed", "problem"}
      /\ l.screen = "list" /\ l.url = raw /\ l.filter = f /\ l.page = p /\ l.run = 0 /\ l.detail = NoDetail
  BY <1>3
<1>7. l.run \in 0..(Len(runs) + 1)
  BY <1>5, <1>6
<1> QED
  BY <1>1, <1>4, <1>6, <1>7, NoDetailOK DEF ListOK, l

LEMMA RunDetailOK ==
    ASSUME NEW rk, StoreOK(runs, rk), NEW t, ListOK(runs, list[t]), NEW r \in 1..(Len(runs) + 1),
           NEW ns, ns = IF r \in DOMAIN runs THEN Advanced(r) ELSE runs
    PROVE  ListOK(ns, RunDetailPage(t, r)) /\ StoreOK(ns, rk) /\ Grows(runs, ns)
<1> DEFINE l == RunDetailPage(t, r)
           d == IF r \in DOMAIN runs THEN toDetail(Advanced(r)[r]) ELSE NoDetail
           screen == IF r \in DOMAIN runs THEN "run" ELSE "missing"
           any == AnyRun(None)
<1>1. l = [screen |-> screen, url |-> any, filter |-> any, page |-> NoPage, run |-> r, detail |-> d,
           failed |-> FALSE, problem |-> FALSE]
  BY DEF RunDetailPage
<1>2. StoreOK(ns, rk) /\ Grows(runs, ns) /\ DOMAIN ns = DOMAIN runs
  BY AdvancedOK, SameGrows
<1>3. Len(ns) \in Nat /\ Len(ns) = Len(runs) /\ DOMAIN ns = 1..Len(ns)
  BY <1>2 DEF Grows
<1>4. DetailOK(d) /\ (screen = "run" => DetailFor(ns, d, r))
  <2>1. CASE r \in DOMAIN runs
    <3>1. d = toDetail(ns[r]) /\ r \in DOMAIN ns /\ RunOK(ns[r])
      BY <1>2, <2>1 DEF StoreOK
    <3> HIDE DEF d
    <3>2. DetailOK(d) /\ d.step = ns[r].step /\ ns[r].step \in Nat
      BY <3>1, DetailFacts
    <3> QED
      BY <3>1, <3>2 DEF DetailFor
  <2>2. CASE r \notin DOMAIN runs
    BY <2>2, NoDetailOK
  <2> QED
    BY <2>1, <2>2
<1>5. screen \in {"run", "missing"}
  OBVIOUS
<1>9. FilterOK(any) /\ DOMAIN any = LinkFields
  BY AnyRunOK DEF AnyRun, LinkFields
<1> HIDE DEF l, d, screen, any
<1>6. /\ DOMAIN l = {"screen", "url", "filter", "page", "run", "detail", "failed", "problem"}
      /\ l.screen = screen /\ l.url = any /\ l.filter = any
      /\ l.page = NoPage /\ l.run = r /\ l.detail = d
  BY <1>1
<1>7. l.run \in 0..(Len(ns) + 1) /\ PageOK(ns, l.page)
  BY <1>3, <1>6, NoPageOK
<1>8. ListOK(ns, l)
  BY <1>4, <1>5, <1>6, <1>7, <1>9 DEF ListOK
<1> QED
  BY <1>2, <1>8 DEF l

(* What is on screen does not depend on the marks of a failure. *)
LEMMA FlagsOK ==
    ASSUME NEW rs, NEW l, ListOK(rs, l), NEW x
    PROVE  ListOK(rs, [l EXCEPT !.problem = x]) /\ ListOK(rs, [l EXCEPT !.failed = x])
<1>1. ASSUME NEW m, m \in {[l EXCEPT !.problem = x], [l EXCEPT !.failed = x]}
      PROVE  ListOK(rs, m)
  <2>1. /\ DOMAIN m = DOMAIN l /\ m.screen = l.screen /\ m.url = l.url /\ m.filter = l.filter
        /\ m.page = l.page /\ m.run = l.run /\ m.detail = l.detail
    BY <1>1 DEF ListOK
  <2> QED
    BY <2>1 DEF ListOK
<1> QED
  BY <1>1

LEMMA NoPollOK ==
    ASSUME NEW rs, Len(rs) \in Nat
    PROVE  PollOK(rs, NoPoll) /\ MutationOK(rs, NoRetry)
<1> DEFINE key == [screen |-> "missing", run |-> 0, filter |-> AnyRun(None)]
           q == NoPoll
<1>1. /\ DOMAIN q = {"phase", "key", "page", "detail"}
      /\ q.phase = "idle" /\ q.key = key /\ q.page = NoPage /\ q.detail = NoDetail
  BY DEF NoPoll
<1>2. key.filter = AnyRun(None) /\ key.screen = "missing"
  OBVIOUS
<1> HIDE DEF key, q
<1>3. PollOK(rs, q)
  BY <1>1, <1>2, AnyRunOK, NoPageOK, NoDetailOK DEF PollOK
<1>4. MutationOK(rs, NoRetry)
  BY DEF MutationOK, NoRetry
<1> QED
  BY <1>3, <1>4 DEF q

LEMMA StillStore ==
    ASSUME RunsInv, UNCHANGED <<runs, retriesByKey>>
    PROVE  StoreOK(runs', retriesByKey') /\ Grows(runs, runs') /\ Len(runs) \in Nat /\ Len(runs') = Len(runs)
<1>1. StoreOK(runs, retriesByKey)
  BY DEF RunsInv
<1> QED
  BY <1>1, SameGrows, SeqIsList DEF StoreOK, IsList

LEMMA TabFacts ==
    ASSUME RunsInv, NEW t \in Tabs
    PROVE  /\ StoreOK(runs, retriesByKey) /\ Len(runs) \in Nat /\ DOMAIN runs = 1..Len(runs)
           /\ ListOK(runs, list[t]) /\ PollOK(runs, poll[t]) /\ MutationOK(runs, retry[t])
           /\ t \in DOMAIN list /\ t \in DOMAIN poll /\ t \in DOMAIN retry
  BY SeqIsList DEF RunsInv, StoreOK, IsList

LEMMA ClickKeeps ==
    ASSUME RunsInv, NEW t \in Tabs, RunsClick(t)
    PROVE  RunsInv'
<1>0. /\ StoreOK(runs, retriesByKey) /\ Len(runs) \in Nat /\ DOMAIN runs = 1..Len(runs)
      /\ ListOK(runs, list[t]) /\ PollOK(runs, poll[t]) /\ MutationOK(runs, retry[t])
      /\ t \in DOMAIN list /\ t \in DOMAIN poll /\ t \in DOMAIN retry
  BY TabFacts
<1>1. ASSUME NEW raw \in RunLinks, openRuns(t, raw)
      PROVE  RunsInv'
  <2>1. DOMAIN raw = LinkFields
    BY RunsAssumption DEF LinkFields
  <2>2. ListOK(runs, RunsPage(t, raw))
    BY <1>0, <2>1, RunsPageOK
  <2>3. /\ OnlyAt(list, list', t) /\ list'[t] = RunsPage(t, raw)
        /\ OnlyAt(poll, poll', t) /\ OnlyAt(retry, retry', t) /\ UNCHANGED <<runs, retriesByKey, poll, retry>>
    BY <1>0, <1>1 DEF openRuns, OnlyAt
  <2> QED
    BY <1>0, <2>2, <2>3, StillStore, RunsFrame
<1>2. ASSUME NEW p \in Pills, set(t, p[1], p[2])
      PROVE  RunsInv'
  <2> DEFINE raw == [list[t].url EXCEPT ![p[1]] = p[2], !.cursor = None]
  <2>1. DOMAIN raw = LinkFields
    BY <1>0 DEF ListOK
  <2>2. list' = [list EXCEPT ![t] = RunsPage(t, raw)] /\ UNCHANGED <<runs, retriesByKey, poll, retry>>
    BY <1>2 DEF set
  <2> HIDE DEF raw
  <2>3. ListOK(runs, RunsPage(t, raw))
    BY <1>0, <2>1, RunsPageOK
  <2>4. /\ OnlyAt(list, list', t) /\ list'[t] = RunsPage(t, raw)
        /\ OnlyAt(poll, poll', t) /\ OnlyAt(retry, retry', t)
    BY <1>0, <2>2 DEF OnlyAt
  <2> QED
    BY <1>0, <2>2, <2>3, <2>4, StillStore, RunsFrame
<1>3. ASSUME NEW r \in 1..(Len(runs) + 1), openRun(t, r)
      PROVE  RunsInv'
  <2>1. runs' = IF r \in DOMAIN runs THEN Advanced(r) ELSE runs
    BY <1>3 DEF openRun
  <2>2. ListOK(runs', RunDetailPage(t, r)) /\ StoreOK(runs', retriesByKey) /\ Grows(runs, runs')
    BY <1>0, <2>1, RunDetailOK
  <2>3. /\ OnlyAt(list, list', t) /\ list'[t] = RunDetailPage(t, r)
        /\ OnlyAt(poll, poll', t) /\ OnlyAt(retry, retry', t) /\ UNCHANGED <<retriesByKey, poll, retry>>
    BY <1>0, <1>3 DEF openRun, OnlyAt
  <2>4. PollOK(runs', poll[t])
    BY <1>0, <2>2, PollStays
  <2>5. MutationOK(runs', retry[t])
    BY <1>0, <2>2, MutationStays
  <2> QED
    BY <2>2, <2>3, <2>4, <2>5, RunsFrame
<1>4. ASSUME RunActions(t)
      PROVE  RunsInv'
  <2> DEFINE m == [NoRetry EXCEPT !.phase = "sent", !.run = list[t].run, !.key = runClicks + 1]
             l == [list[t] EXCEPT !.problem = FALSE]
  <2>1. list' = [list EXCEPT ![t] = l] /\ retry' = [retry EXCEPT ![t] = m] /\ UNCHANGED <<runs, retriesByKey, poll>>
    BY <1>4 DEF RunActions
  <2>2. MutationOK(runs, m)
    BY <1>0 DEF MutationOK, NoRetry
  <2>3. ListOK(runs, l)
    BY <1>0, FlagsOK
  <2> HIDE DEF m, l
  <2>4. /\ OnlyAt(list, list', t) /\ list'[t] = l /\ OnlyAt(poll, poll', t)
        /\ OnlyAt(retry, retry', t) /\ retry'[t] = m
    BY <1>0, <2>1 DEF OnlyAt
  <2> QED
    BY <1>0, <2>1, <2>2, <2>3, <2>4, StillStore, RunsFrame
<1> QED
  BY <1>1, <1>2, <1>3, <1>4 DEF RunsClick

(* The query on screen is asked for. *)
LEMMA AskedOK ==
    ASSUME RunsInv, NEW t \in Tabs
    PROVE  PollOK(runs, [NoPoll EXCEPT !.phase = "sent", !.key = KeyOf(t)])
<1>0. StoreOK(runs, retriesByKey) /\ ListOK(runs, list[t])
  BY TabFacts
<1> DEFINE key == KeyOf(t)
           f == IF list[t].screen = "list" THEN runsListPath(list[t].filter) ELSE AnyRun(None)
           q == [NoPoll EXCEPT !.phase = "sent", !.key = key]
<1>1. key.screen = list[t].screen /\ key.run = list[t].run /\ key.filter = f
  BY DEF KeyOf
<1>2. FilterOK(f)
  <2>1. FilterOK(runsListPath(list[t].filter))
    BY <1>0, PathOK DEF ListOK
  <2> QED
    BY <2>1, AnyRunOK
<1> HIDE DEF key, f
<1>3. /\ DOMAIN q = {"phase", "key", "page", "detail"}
      /\ q.phase = "sent" /\ q.key = key /\ q.page = NoPoll.page /\ q.detail = NoPoll.detail
  BY DEF NoPoll
<1>4. PollOK(runs, NoPoll)
  BY <1>0, NoPollOK
<1> HIDE DEF q
<1>5. key.screen = "run" => key.run \in DOMAIN runs
  BY <1>0, <1>1 DEF ListOK, DetailFor
<1>6. PollOK(runs, q)
  BY <1>1, <1>2, <1>3, <1>4, <1>5 DEF PollOK
<1> QED
  BY <1>6 DEF q, key

(* A retry that waited for the query goes on. *)
LEMMA WaitedOK ==
    ASSUME RunsInv, NEW t \in Tabs
    PROVE  OnlyAt(retry, Waited(t), t) /\ MutationOK(runs, Waited(t)[t])
<1> DEFINE m == [retry[t] EXCEPT !.phase = IF @ = "refetch" THEN "refetched" ELSE @]
<1>1. MutationOK(runs, retry[t]) /\ t \in DOMAIN retry
  BY TabFacts
<1>2. Waited(t) = [retry EXCEPT ![t] = m]
  BY <1>1 DEF Waited
<1>3. /\ DOMAIN m = DOMAIN retry[t] /\ m.result = retry[t].result
      /\ m.phase = IF retry[t].phase = "refetch" THEN "refetched" ELSE retry[t].phase
  BY <1>1 DEF MutationOK
<1> HIDE DEF m
<1>4. MutationOK(runs, m)
  BY <1>1, <1>3 DEF MutationOK
<1> QED
  BY <1>1, <1>2, <1>4 DEF OnlyAt

LEMMA PollKeeps ==
    ASSUME RunsInv, NEW t \in Tabs, PollWork(t)
    PROVE  RunsInv'
<1>0. /\ StoreOK(runs, retriesByKey) /\ Len(runs) \in Nat /\ DOMAIN runs = 1..Len(runs)
      /\ ListOK(runs, list[t]) /\ PollOK(runs, poll[t]) /\ MutationOK(runs, retry[t])
      /\ t \in DOMAIN list /\ t \in DOMAIN poll /\ t \in DOMAIN retry
  BY TabFacts
<1>1. CASE refetch(t)
  <2> DEFINE q == [NoPoll EXCEPT !.phase = "sent", !.key = KeyOf(t)]
  <2>1. poll' = [poll EXCEPT ![t] = q] /\ UNCHANGED <<runs, retriesByKey, list, retry>>
    BY <1>1 DEF refetch
  <2>2. PollOK(runs, q)
    BY AskedOK
  <2> HIDE DEF q
  <2>3. /\ OnlyAt(list, list', t) /\ OnlyAt(retry, retry', t) /\ OnlyAt(poll, poll', t) /\ poll'[t] = q
    BY <1>0, <2>1 DEF OnlyAt
  <2> QED
    BY <1>0, <2>1, <2>2, <2>3, StillStore, RunsFrame
<1>2. CASE getRuns(t)
  <2> DEFINE f == poll[t].key.filter
             p == listRuns(f)
             q == [poll[t] EXCEPT !.phase = "answered", !.page = p]
  <2>1. poll' = [poll EXCEPT ![t] = q] /\ UNCHANGED <<runs, retriesByKey, list, retry>>
    BY <1>0, <1>2 DEF getRuns
  <2>2. FilterOK(f) /\ poll[t].key.screen = "list"
    BY <1>0, <1>2 DEF PollOK, getRuns
  <2>3. PageOK(runs, p) /\ PageFor(runs, p, f)
    BY <1>0, <2>2, ListRunsOK DEF FilterOK
  <2> HIDE DEF p
  <2>4. /\ DOMAIN q = {"phase", "key", "page", "detail"}
        /\ q.phase = "answered" /\ q.key = poll[t].key /\ q.page = p /\ q.detail = poll[t].detail
    BY <1>0 DEF PollOK
  <2> HIDE DEF q
  <2>5. PollOK(runs, q)
    BY <1>0, <2>2, <2>3, <2>4 DEF PollOK
  <2>6. /\ OnlyAt(list, list', t) /\ OnlyAt(retry, retry', t) /\ OnlyAt(poll, poll', t) /\ poll'[t] = q
    BY <1>0, <2>1 DEF OnlyAt
  <2> QED
    BY <1>0, <2>1, <2>5, <2>6, StillStore, RunsFrame
<1>3. CASE getRun(t)
  <2> DEFINE r == poll[t].key.run
             d == toDetail(Advanced(r)[r])
             q == [poll[t] EXCEPT !.phase = "answered", !.detail = d]
  <2>1. runs' = Advanced(r) /\ poll' = [poll EXCEPT ![t] = q] /\ UNCHANGED <<retriesByKey, list, retry>>
    BY <1>0, <1>3 DEF getRun
  <2>2. r \in DOMAIN runs /\ poll[t].key.screen = "run"
    BY <1>0, <1>3 DEF PollOK, getRun
  <2>3. StoreOK(runs', retriesByKey) /\ Grows(runs, runs') /\ DOMAIN runs' = DOMAIN runs
    BY <1>0, <2>1, <2>2, AdvancedOK
  <2>4. d = toDetail(runs'[r]) /\ r \in DOMAIN runs' /\ RunOK(runs'[r])
    BY <2>1, <2>2, <2>3 DEF StoreOK
  <2> HIDE DEF d
  <2>5. DetailOK(d) /\ DetailFor(runs', d, r)
    <3>1. DetailOK(d) /\ d.step = runs'[r].step /\ runs'[r].step \in Nat
      BY <2>4, DetailFacts
    <3> QED
      BY <2>4, <3>1 DEF DetailFor
  <2>6. /\ DOMAIN q = {"phase", "key", "page", "detail"}
        /\ q.phase = "answered" /\ q.key = poll[t].key /\ q.page = poll[t].page /\ q.detail = d
    BY <1>0 DEF PollOK
  <2>7. PollOK(runs', poll[t]) /\ ListOK(runs', list[t])
    BY <1>0, <2>3, PollStays, ListStays
  <2>8. MutationOK(runs', retry[t])
    BY <1>0, <2>3, MutationStays
  <2> HIDE DEF q
  <2>9. PollOK(runs', q)
    BY <2>2, <2>4, <2>5, <2>6, <2>7 DEF PollOK
  <2>10. /\ OnlyAt(list, list', t) /\ OnlyAt(retry, retry', t) /\ OnlyAt(poll, poll', t) /\ poll'[t] = q
    BY <1>0, <2>1 DEF OnlyAt
  <2> QED
    BY <2>1, <2>3, <2>7, <2>8, <2>9, <2>10, RunsFrame
<1>4. CASE landed(t)
  <2>1. poll' = [poll EXCEPT ![t] = NoPoll] /\ retry' = Waited(t) /\ UNCHANGED <<runs, retriesByKey>>
    BY <1>4 DEF landed
  <2>2. /\ OnlyAt(poll, poll', t) /\ poll'[t] = NoPoll
        /\ OnlyAt(retry, retry', t) /\ MutationOK(runs, retry'[t])
    BY <1>0, <2>1, WaitedOK DEF OnlyAt
  <2>3. OnlyAt(list, list', t) /\ ListOK(runs, list'[t])
    <3>1. CASE ~SameKey(t)
      BY <1>0, <1>4, <3>1 DEF landed, OnlyAt
    <3>2. CASE SameKey(t)
      <4> DEFINE l == [list[t] EXCEPT !.page = poll[t].page, !.detail = poll[t].detail, !.failed = FALSE]
                 key == KeyOf(t)
      <4>1. list' = [list EXCEPT ![t] = l]
        BY <1>0, <1>4, <3>2 DEF landed
      <4>2. poll[t].phase = "answered" /\ poll[t].key = key
        BY <1>4, <3>2 DEF landed, SameKey
      <4>3. key.screen = list[t].screen /\ key.run = list[t].run
        BY DEF KeyOf
      <4>4. list[t].screen = "list" => key.filter = runsListPath(list[t].filter)
        BY DEF KeyOf
      <4> HIDE DEF key
      <4>5. /\ DOMAIN l = DOMAIN list[t] /\ l.screen = list[t].screen /\ l.url = list[t].url
            /\ l.filter = list[t].filter /\ l.run = list[t].run
            /\ l.page = poll[t].page /\ l.detail = poll[t].detail
        BY <1>0 DEF ListOK
      <4> HIDE DEF l
      <4>6. PageOK(runs, l.page) /\ DetailOK(l.detail)
        BY <1>0, <4>5 DEF PollOK
      <4>7. l.screen = "run" => DetailFor(runs, l.detail, l.run)
        BY <1>0, <4>2, <4>3, <4>5 DEF PollOK
      <4>8. l.screen = "list" => PageFor(runs, l.page, l.filter)
        <5>1. SUFFICES ASSUME list[t].screen = "list"
                       PROVE  PageFor(runs, poll[t].page, list[t].filter)
          BY <4>5
        <5> DEFINE f == list[t].filter
                   g == runsListPath(f)
        <5>2. PageFor(runs, poll[t].page, g)
          BY <1>0, <4>2, <4>3, <4>4, <5>1 DEF PollOK
        <5>3. g.tenant = f.tenant /\ g.trigger = f.trigger /\ g.outcome = f.outcome /\ g.cursor = f.cursor
          BY <1>0 DEF runsListPath, ListOK, FilterOK, LinkFields
        <5> HIDE DEF f, g
        <5>4. Selected(runs, g) = Selected(runs, f)
          BY <5>3 DEF Selected
        <5> QED
          BY <5>2, <5>3, <5>4 DEF PageFor, f
      <4>9. ListOK(runs, l)
        BY <1>0, <4>5, <4>6, <4>7, <4>8 DEF ListOK
      <4> QED
        BY <1>0, <4>1, <4>9 DEF OnlyAt
    <3> QED
      BY <3>1, <3>2
  <2> QED
    BY <1>0, <2>1, <2>2, <2>3, StillStore, NoPollOK, RunsFrame
<1> QED
  BY <1>1, <1>2, <1>3, <1>4 DEF PollWork

LEMMA RetriedFacts ==
    ASSUME RunsInv, NEW t \in Tabs
    PROVE  LET r == Retried(t)
           IN  /\ r \in 0..(Len(runs) + 1)
               /\ r = Len(runs) + 1 => /\ retry[t].run \in DOMAIN runs /\ runs[retry[t].run].finished
                                       /\ \A e \in retriesByKey : e.key # retry[t].key
<1> DEFINE replay == Replay(retry[t].key)
<1>1. StoreOK(runs, retriesByKey) /\ Len(runs) \in Nat /\ DOMAIN runs = 1..Len(runs)
  BY TabFacts
<1>2. \A e \in replay : e.run \in 1..Len(runs)
  BY <1>1 DEF Replay, StoreOK
<1>3. CASE replay # {}
  <2>1. Retried(t) = (CHOOSE e \in replay : TRUE).run
    BY <1>3 DEF Retried
  <2>2. (CHOOSE e \in replay : TRUE) \in replay
    BY <1>3
  <2> HIDE DEF replay
  <2>3. Retried(t) \in 1..Len(runs)
    BY <1>2, <2>1, <2>2
  <2> QED
    BY <1>1, <2>3
<1>4. CASE replay = {}
  <2>1. \A e \in retriesByKey : e.key # retry[t].key
    BY <1>4 DEF Replay
  <2>2. \/ Retried(t) = 0
        \/ /\ Retried(t) = Len(runs) + 1
           /\ retry[t].run \in DOMAIN runs /\ runs[retry[t].run].finished
    BY <1>4 DEF Retried
  <2> QED
    BY <1>1, <2>1, <2>2
<1> QED
  BY <1>3, <1>4

LEMMA RetryKeeps ==
    ASSUME RunsInv, NEW t \in Tabs, RetryWork(t)
    PROVE  RunsInv'
<1>0. /\ StoreOK(runs, retriesByKey) /\ Len(runs) \in Nat /\ DOMAIN runs = 1..Len(runs)
      /\ ListOK(runs, list[t]) /\ PollOK(runs, poll[t]) /\ MutationOK(runs, retry[t])
      /\ t \in DOMAIN list /\ t \in DOMAIN poll /\ t \in DOMAIN retry
  BY TabFacts
<1>1. CASE retryRun(t)
  <2> DEFINE r == Retried(t)
  <2>1. PICK phase \in {"sent", "answered"} :
           retry' = [retry EXCEPT ![t] = [retry[t] EXCEPT !.phase = phase, !.result = r]]
    BY <1>0, <1>1 DEF retryRun
  <2>2. UNCHANGED <<list, poll>>
    BY <1>1 DEF retryRun
  <2>3. /\ r \in 0..(Len(runs) + 1)
        /\ r = Len(runs) + 1 => /\ retry[t].run \in DOMAIN runs /\ runs[retry[t].run].finished
                                /\ \A e \in retriesByKey : e.key # retry[t].key
    BY RetriedFacts
  <2>4. StoreOK(runs', retriesByKey') /\ Grows(runs, runs') /\ r \in 0..Len(runs')
    <3>1. CASE r = Len(runs) + 1
      <4>1. /\ runs' = Append(runs, RetryOfRun(retry[t].run))
            /\ retriesByKey' = retriesByKey \cup {[key |-> retry[t].key, run |-> Len(runs) + 1]}
        BY <1>1, <3>1 DEF retryRun
      <4> HIDE DEF r
      <4>2. StoreOK(runs', retriesByKey') /\ Grows(runs, runs') /\ Len(runs') = Len(runs) + 1
        <5>1. retry[t].run \in DOMAIN runs /\ runs[retry[t].run].finished /\ \A e \in retriesByKey : e.key # retry[t].key
          BY <2>3, <3>1
        <5> DEFINE from == retry[t].run
                   key == retry[t].key
        <5>2. StoreOK(runs, retriesByKey) /\ from \in DOMAIN runs /\ runs[from].finished
              /\ \A e \in retriesByKey : e.key # key
          BY <1>0, <5>1
        <5> HIDE DEF from, key
        <5>3. LET ns == Append(runs, RetryOfRun(from))
                  nk == retriesByKey \cup {[key |-> key, run |-> Len(runs) + 1]}
              IN  StoreOK(ns, nk) /\ Grows(runs, ns) /\ Len(ns) = Len(runs) + 1
          BY <5>2, RetryAppended
        <5> QED
          BY <4>1, <5>3 DEF from, key
      <4> QED
        BY <1>0, <3>1, <4>2
    <3>2. CASE r # Len(runs) + 1
      <4>1. UNCHANGED <<runs, retriesByKey>>
        BY <1>1, <3>2 DEF retryRun
      <4> HIDE DEF r
      <4> QED
        BY <1>0, <2>3, <3>2, <4>1, StillStore
    <3> QED
      BY <3>1, <3>2
  <2> DEFINE m == [retry[t] EXCEPT !.phase = phase, !.result = r]
  <2> HIDE DEF r
  <2>5. MutationOK(runs', m)
    BY <1>0, <2>4 DEF MutationOK
  <2> HIDE DEF m
  <2>6. OnlyAt(list, list', t) /\ OnlyAt(poll, poll', t) /\ OnlyAt(retry, retry', t) /\ retry'[t] = m
    BY <1>0, <2>1, <2>2 DEF OnlyAt, m
  <2>7. ListOK(runs', list[t]) /\ PollOK(runs', poll[t])
    BY <1>0, <2>4, ListStays, PollStays
  <2> QED
    BY <2>2, <2>4, <2>5, <2>6, <2>7, RunsFrame
<1>2. CASE useRetryRun(t)
  <2> DEFINE done == retry[t].result # 0 /\ list[t].screen # "missing"
             m == CASE done -> [retry[t] EXCEPT !.phase = "refetch"]
                    [] retry[t].result = 0 -> NoRetry
                    [] OTHER -> [retry[t] EXCEPT !.phase = "refetched"]
             asked == [NoPoll EXCEPT !.phase = "sent", !.key = KeyOf(t)]
             q == IF done THEN asked ELSE poll[t]
             x == IF retry[t].result = 0 THEN list[t].run = retry[t].run ELSE list[t].problem
             l == [list[t] EXCEPT !.problem = x]
  <2>1. UNCHANGED <<runs, retriesByKey>>
    BY <1>2 DEF useRetryRun
  <2>2. retry' = [retry EXCEPT ![t] = m]
    BY <1>0, <1>2 DEF useRetryRun
  <2>3. OnlyAt(poll, poll', t) /\ poll'[t] = q
    BY <1>0, <1>2 DEF useRetryRun, OnlyAt
  <2>4. list' = [list EXCEPT ![t] = l]
    BY <1>0, <1>2 DEF useRetryRun
  <2>5. PollOK(runs, q)
    BY <1>0, AskedOK
  <2>6. MutationOK(runs, m)
    <3>1. MutationOK(runs, NoRetry)
      BY <1>0, NoPollOK
    <3>2. ASSUME NEW ph \in {"refetch", "refetched"}, retry[t].result # 0
          PROVE  MutationOK(runs, [retry[t] EXCEPT !.phase = ph])
      BY <1>0, <3>2 DEF MutationOK
    <3> QED
      BY <3>1, <3>2
  <2> HIDE DEF m, q, x
  <2>7. ListOK(runs, l)
    BY <1>0, FlagsOK
  <2> HIDE DEF l
  <2>8. OnlyAt(list, list', t) /\ list'[t] = l /\ OnlyAt(retry, retry', t) /\ retry'[t] = m
    BY <1>0, <2>2, <2>4 DEF OnlyAt
  <2> QED
    BY <1>0, <2>1, <2>3, <2>5, <2>6, <2>7, <2>8, StillStore, RunsFrame
<1>3. CASE retryLands(t)
  <2> DEFINE r == retry[t].result
  <2>1. /\ retry' = [retry EXCEPT ![t] = NoRetry] /\ UNCHANGED <<retriesByKey, poll>>
        /\ list' = [list EXCEPT ![t] = RunDetailPage(t, r)] /\ runs' = Advanced(r)
    BY <1>3 DEF retryLands
  <2>2. OnlyAt(retry, retry', t) /\ retry'[t] = NoRetry /\ OnlyAt(poll, poll', t)
    BY <1>0, <2>1 DEF OnlyAt
  <2>3. r \in DOMAIN runs /\ r \in 1..(Len(runs) + 1)
    BY <1>0, <1>3 DEF MutationOK, retryLands
  <2> HIDE DEF r
  <2>4. runs' = IF r \in DOMAIN runs THEN Advanced(r) ELSE runs
    BY <2>1, <2>3
  <2>5. ListOK(runs', RunDetailPage(t, r)) /\ StoreOK(runs', retriesByKey) /\ Grows(runs, runs')
    BY <1>0, <2>3, <2>4, RunDetailOK
  <2>6. OnlyAt(list, list', t) /\ ListOK(runs', list'[t])
    BY <1>0, <2>1, <2>5 DEF OnlyAt
  <2>7. PollOK(runs', poll[t]) /\ MutationOK(runs', NoRetry)
    BY <1>0, <2>5, PollStays, NoPollOK DEF Grows
  <2> QED
    BY <2>1, <2>2, <2>5, <2>6, <2>7, RunsFrame
<1> QED
  BY <1>1, <1>2, <1>3 DEF RetryWork

LEMMA LostKeeps ==
    ASSUME RunsInv, NEW t \in Tabs, pollLost(t) \/ retryLost(t)
    PROVE  RunsInv'
<1>0. /\ StoreOK(runs, retriesByKey) /\ Len(runs) \in Nat /\ DOMAIN runs = 1..Len(runs)
      /\ ListOK(runs, list[t]) /\ PollOK(runs, poll[t]) /\ MutationOK(runs, retry[t])
      /\ t \in DOMAIN list /\ t \in DOMAIN poll /\ t \in DOMAIN retry
  BY TabFacts
<1>1. CASE pollLost(t)
  <2> DEFINE x == list[t].failed \/ SameKey(t)
             l == [list[t] EXCEPT !.failed = x]
  <2>1. list' = [list EXCEPT ![t] = l] /\ poll' = [poll EXCEPT ![t] = NoPoll] /\ retry' = Waited(t)
        /\ UNCHANGED <<runs, retriesByKey>>
    BY <1>0, <1>1 DEF pollLost
  <2> HIDE DEF x
  <2>2. ListOK(runs, l)
    BY <1>0, FlagsOK
  <2> HIDE DEF l
  <2>3. /\ OnlyAt(list, list', t) /\ list'[t] = l /\ OnlyAt(poll, poll', t) /\ poll'[t] = NoPoll
        /\ OnlyAt(retry, retry', t) /\ MutationOK(runs, retry'[t])
    BY <1>0, <2>1, WaitedOK DEF OnlyAt
  <2> QED
    BY <1>0, <2>1, <2>2, <2>3, StillStore, NoPollOK, RunsFrame
<1>2. CASE retryLost(t)
  <2> DEFINE x == list[t].run = retry[t].run
             l == [list[t] EXCEPT !.problem = x]
  <2>1. list' = [list EXCEPT ![t] = l] /\ retry' = [retry EXCEPT ![t] = NoRetry] /\ UNCHANGED <<runs, retriesByKey, poll>>
    BY <1>0, <1>2 DEF retryLost
  <2> HIDE DEF x
  <2>2. ListOK(runs, l)
    BY <1>0, FlagsOK
  <2> HIDE DEF l
  <2>3. /\ OnlyAt(list, list', t) /\ list'[t] = l /\ OnlyAt(retry, retry', t) /\ retry'[t] = NoRetry
        /\ OnlyAt(poll, poll', t)
    BY <1>0, <2>1 DEF OnlyAt
  <2> QED
    BY <1>0, <2>1, <2>2, <2>3, StillStore, NoPollOK, RunsFrame
<1> QED
  BY <1>1, <1>2

LEMMA RunsInitInv == RunsInit => RunsInv
<1> SUFFICES ASSUME RunsInit
             PROVE  RunsInv
  OBVIOUS
<1> DEFINE raw == [AnyRun(None) EXCEPT !.limit = None]
<1>1. /\ runs = reconcileRunFixtures /\ retriesByKey = {}
      /\ list = [t \in Tabs |-> RunsPage(t, raw)]
      /\ poll = [t \in Tabs |-> NoPoll] /\ retry = [t \in Tabs |-> NoRetry]
  BY DEF RunsInit
<1>2. Len(RunSeeds) \in Nat
  BY RunsAssumption
<1>3. runs = [i \in 1..Len(RunSeeds) |-> runs[i]]
      /\ \A i \in 1..Len(RunSeeds) : runs[i] = detailOf(RunSeeds[i], LiveScripts[i])
  BY <1>1 DEF reconcileRunFixtures
<1>4. IsSeq(runs) /\ Len(runs) = Len(RunSeeds)
  BY <1>2, <1>3, FunctionIsSeq
<1>5. DOMAIN runs = 1..Len(runs)
  BY <1>4, SeqIsList DEF IsList
<1>6. ASSUME NEW r \in DOMAIN runs
      PROVE  RunOK(runs[r]) /\ ReplayOK(runs[r]) /\ RetryOK(runs, {}, r)
  <2>1. RunOK(runs[r]) /\ runs[r].retryOf = 0
    BY <1>3, <1>4, <1>5, SeedOK
  <2> QED
    BY <1>2, <1>4, <1>5, <2>1 DEF ReplayOK, RetryOK
<1>7. StoreOK(runs, {})
  BY <1>4, <1>6 DEF StoreOK
<1>8. DOMAIN raw = LinkFields
  BY DEF AnyRun, LinkFields
<1> HIDE DEF raw
<1>9. \A t \in Tabs : ListOK(runs, RunsPage(t, raw))
  BY <1>7, <1>8, RunsPageOK
<1>10. PollOK(runs, NoPoll) /\ MutationOK(runs, NoRetry)
  BY <1>2, <1>4, NoPollOK
<1> QED
  BY <1>1, <1>7, <1>9, <1>10 DEF RunsInv

LEMMA RunsStep == RunsInv /\ [RunsNext]_runsVars => RunsInv'
<1> SUFFICES ASSUME RunsInv, [RunsNext]_runsVars
             PROVE  RunsInv'
  OBVIOUS
<1>1. CASE UNCHANGED runsVars
  BY <1>1 DEF runsVars, RunsInv
<1>2. CASE RunsNext
  BY <1>2, ClickKeeps, PollKeeps, RetryKeeps, LostKeeps DEF RunsNext
<1> QED
  BY <1>1, <1>2

LEMMA RunsInvariant == RunsSpec => []RunsInv
  BY RunsInitInv, RunsStep, PTL DEF RunsSpec

-----------------------------------------------------------------------------
(* Types: runs, rows, screens and requests have the shapes the code gives     *)
(* them, and a retry names an older run.                                      *)
THEOREM RunsTyped == RunsSpec => []RunsTypeOK
<1>1. RunsInv => RunsTypeOK
  <2> SUFFICES ASSUME RunsInv
               PROVE  RunsTypeOK
    OBVIOUS
  <2>1. ASSUME NEW r \in DOMAIN runs
        PROVE  /\ runs[r].tenant \in RunTenants /\ runs[r].trigger \in Triggers
               /\ runs[r].outcome \in Outcomes /\ runs[r].step \in 0..Len(runs[r].script)
               /\ \A i \in DOMAIN runs[r].changes : runs[r].changes[i] \in RunChange
               /\ runs[r].retryOf \in 0..(r - 1)
    <3>1. RunOK(runs[r]) /\ RetryOK(runs, retriesByKey, r)
      BY DEF RunsInv, StoreOK
    <3> QED
      BY <3>1 DEF RunOK, RowsOK, IsList, RetryOK
  <2>2. ASSUME NEW t \in Tabs
        PROVE  /\ list[t].screen \in {"list", "run", "missing"}
               /\ list[t].run \in 0..(Len(runs) + 1) /\ DOMAIN list[t].page.rows \subseteq DOMAIN runs
               /\ poll[t].phase \in {"idle", "sent", "answered"}
               /\ retry[t].phase \in {"idle", "sent", "answered", "refetch", "refetched"}
               /\ retry[t].result \in 0..Len(runs)
    BY TabFacts DEF ListOK, PollOK, MutationOK, PageOK
  <2> QED
    BY <2>1, <2>2 DEF RunsTypeOK
<1> QED
  BY <1>1, RunsInvariant, PTL

(* advanceLive, retryRun and the fixtures keep outcome, finishedAt and the     *)
(* lock in step, and so does every row and page, however old the answer.       *)
THEOREM MarksAgree == RunsSpec => []LiveMarksAgree
<1>1. RunsInv => LiveMarksAgree
  <2> SUFFICES ASSUME RunsInv
               PROVE  LiveMarksAgree
    OBVIOUS
  <2>1. \A r \in DOMAIN runs : MarksOK(runs[r])
    BY DEF RunsInv, StoreOK, RunOK
  <2>2. \A t \in Tabs : PageOK(runs, list[t].page) /\ MarksOK(list[t].detail)
    BY DEF RunsInv, ListOK, DetailOK
  <2>3. \A t \in Tabs : \A r \in DOMAIN list[t].page.rows :
           list[t].page.rows[r].finished = ~Live(list[t].page.rows[r])
    BY <2>2 DEF PageOK
  <2> QED
    BY <2>1, <2>2, <2>3 DEF LiveMarksAgree, MarksOK
<1> QED
  BY <1>1, RunsInvariant, PTL

(* The segments of the list are the rows of the page, in the store and on      *)
(* screen: advanceLive writes changeOutcomes from the changes it has applied.  *)
THEOREM SegmentsAgree == RunsSpec => []SegmentsMatchRows
<1>1. RunsInv => SegmentsMatchRows
  BY DEF RunsInv, StoreOK, RunOK, ListOK, DetailOK, SegmentsMatchRows
<1> QED
  BY <1>1, RunsInvariant, PTL

(* A retry that has settled has applied every change of the run it retries.    *)
THEOREM RetriesReplayAll == RunsSpec => []RetryReplaysAll
<1>1. RunsInv => RetryReplaysAll
  <2> SUFFICES ASSUME RunsInv, NEW r \in DOMAIN runs, runs[r].retryOf # 0
               PROVE  /\ Len(runs[r].changes) = Len(runs[runs[r].retryOf].changes)
                      /\ runs[r].finished =>
                            \A i \in 1..Len(runs[r].changes) : runs[r].changes[i].outcome = "applied"
    BY DEF RetryReplaysAll
  <2>1. RunOK(runs[r]) /\ ReplayOK(runs[r]) /\ RetryOK(runs, retriesByKey, r)
    BY DEF RunsInv, StoreOK
  <2>2. Len(runs[r].changes) \in Nat
    BY <2>1 DEF RunOK, RowsOK, IsList
  <2> QED
    BY <2>1, <2>2 DEF ReplayOK, RetryOK
<1> QED
  BY <1>1, RunsInvariant, PTL

(* A settled row or page on screen is what the server has, and the page of a   *)
(* live run shows a step it has taken, though answers arrive late.             *)
THEOREM SettledStays == RunsSpec => []SettledIsFinal
<1>1. RunsInv => SettledIsFinal
  <2> SUFFICES ASSUME RunsInv, NEW t \in Tabs
               PROVE  /\ \A r \in DOMAIN list[t].page.rows :
                            list[t].page.rows[r].finished => list[t].page.rows[r] = toSummary(r)
                      /\ list[t].screen = "run" =>
                            LET d == list[t].detail
                                run == runs[list[t].run]
                            IN  d.step <= run.step /\ (d.finished => d = toDetail(run))
    BY DEF SettledIsFinal
  <2>1. PageOK(runs, list[t].page)
    BY DEF RunsInv, ListOK
  <2>2. \A r : toSummary(r) = Summary(runs[r])
    BY DEF toSummary, Summary
  <2>3. list[t].screen = "run" => DetailFor(runs, list[t].detail, list[t].run)
    BY DEF RunsInv, ListOK
  <2> QED
    BY <2>1, <2>2, <2>3 DEF PageOK, DetailFor
<1> QED
  BY <1>1, RunsInvariant, PTL

(* listRuns' cursor neither skips nor repeats a run, though runs are added     *)
(* and settle while the list is on screen.                                     *)
THEOREM RowsComplete == RunsSpec => []NoRowSkipped
<1>1. RunsInv => NoRowSkipped
  <2> SUFFICES ASSUME RunsInv, NEW t \in Tabs, list[t].screen = "list", list[t].filter.outcome = None,
                      LET c == list[t].filter.cursor
                      IN  c = None \/ (c \in Matching(list[t].filter) /\ c <= list[t].page.generatedAt)
               PROVE  LET rows == DOMAIN list[t].page.rows
                          c == list[t].filter.cursor
                          all == Matching(list[t].filter)
                      IN  /\ rows \subseteq all
                          /\ c # None => \A q \in rows : q < c
                          /\ \A r \in all \ rows :
                                \/ r > list[t].page.generatedAt
                                \/ c # None /\ c <= r
                                \/ (\A q \in rows : r < q) /\ list[t].page.nextCursor # None
    BY DEF NoRowSkipped
  <2>1. PageFor(runs, list[t].page, list[t].filter)
    BY DEF RunsInv, ListOK
  <2>2. Matching(list[t].filter) = Selected(runs, list[t].filter)
    BY MatchingSelected
  <2> QED
    BY <2>1, <2>2 DEF PageFor
<1> QED
  BY <1>1, RunsInvariant, PTL

(* retriesByKey makes one run per mutation, however often it is delivered, and *)
(* only of a run that had settled.                                             *)
THEOREM RetriesOnce == RunsSpec => []RetryPerClick
<1>1. RunsInv => RetryPerClick
  <2> SUFFICES ASSUME RunsInv
               PROVE  RetryPerClick
    OBVIOUS
  <2>1. \A r \in DOMAIN runs : RetryOK(runs, retriesByKey, r)
    BY DEF RunsInv, StoreOK
  <2>2. \A e, d \in retriesByKey : e.key = d.key <=> e.run = d.run
    BY DEF RunsInv, StoreOK
  <2> QED
    BY <2>1, <2>2 DEF RetryPerClick, RetryOK
<1> QED
  BY <1>1, RunsInvariant, PTL
-----------------------------------------------------------------------------
(* The audit log: the stream of a filter *)

LEMMA FilteredFinite ==
    ASSUME NEW f
    PROVE  /\ IsFiniteSet(Filtered(f)) /\ Cardinality(Filtered(f)) \in Nat
           /\ \A e \in Filtered(f) : e \in AuditEvents
<1>1. Filtered(f) \in SUBSET AuditEvents
  BY DEF Filtered
<1>2. IsFiniteSet(AuditEvents)
  BY AuditAssumption
<1>3. IsFiniteSet(Filtered(f))
  BY <1>1, <1>2, FS_Subset, Zenon
<1> QED
  BY <1>1, <1>3, FS_CardinalityType

LEMMA StreamIsSeq ==
    ASSUME NEW f
    PROVE  IsSeq(Stream(f)) /\ Len(Stream(f)) = Cardinality(Filtered(f)) /\ Len(Stream(f)) \in Nat
           /\ DOMAIN Stream(f) = 1..Len(Stream(f))
<1> DEFINE s == Stream(f)
           n == Cardinality(Filtered(f))
<1>1. n \in Nat
  BY FilteredFinite
<1>2. s = [i \in 1..n |-> s[i]]
  BY DEF Stream
<1> HIDE DEF s, n
<1>3. IsSeq(s) /\ Len(s) = n
  BY <1>1, <1>2, FunctionIsSeq
<1> QED
  BY <1>1, <1>3, SeqIsList DEF s, n, IsList

LEMMA SubSeqFacts ==
    ASSUME NEW s, IsSeq(s), NEW m \in Nat, NEW n \in Nat, m <= n, n <= Len(s)
    PROVE  LET p == SubSeq(s, m + 1, n)
           IN  IsSeq(p) /\ Len(p) = n - m /\ \A j \in 1..(n - m) : p[j] = s[m + j]
<1>1. PICK S : s \in Seq(S)
  BY DEF IsSeq
<1>2. SubSeq(s, m + 1, n) = [i \in 1..(n - m) |-> s[m + i]]
  BY <1>1
<1> DEFINE p == SubSeq(s, m + 1, n)
<1>3. p = [i \in 1..(n - m) |-> p[i]] /\ \A i \in 1..(n - m) : p[i] = s[m + i]
  BY <1>2
<1>4. n - m \in Nat
  OBVIOUS
<1> HIDE DEF p
<1>5. IsSeq(p) /\ Len(p) = n - m
  BY <1>3, <1>4, FunctionIsSeq
<1> QED
  BY <1>3, <1>5 DEF p

(* A page that starts where the one before ended is the next page. *)
PageIs(p, f, from, to) ==
    LET rest == Len(Stream(f)) - from
    IN  /\ Len(p.items) = IF rest < AUDIT_PAGE_SIZE THEN rest ELSE AUDIT_PAGE_SIZE
        /\ \A j \in DOMAIN p.items : p.items[j] = Stream(f)[from + j]
        /\ p.nextCursor = IF rest > AUDIT_PAGE_SIZE THEN to ELSE NoValue

LEMMA ListedPage ==
    ASSUME NEW f, NEW from \in Nat, from <= Len(Stream(f))
    PROVE  LET p == listAuditEvents(f, from)
           IN  PageIs(p, f, from, from + AUDIT_PAGE_SIZE) /\ IsSeq(p.items)
<1> DEFINE all == Stream(f)
           size == AUDIT_PAGE_SIZE
           upTo == IF from + size < Len(all) THEN from + size ELSE Len(all)
           items == SubSeq(all, from + 1, upTo)
           next == IF upTo < Len(all) THEN upTo ELSE NoValue
           p == listAuditEvents(f, from)
<1>1. p = [items |-> items, nextCursor |-> next]
  BY DEF listAuditEvents
<1>2. size \in Nat \ {0}
  BY AuditAssumption
<1>3. IsSeq(all) /\ Len(all) \in Nat
  BY StreamIsSeq
<1> HIDE DEF all, size
<1>4. upTo \in Nat /\ from <= upTo /\ upTo <= Len(all)
  BY <1>2, <1>3 DEF all
<1> HIDE DEF upTo
<1>5. IsSeq(items) /\ Len(items) = upTo - from /\ \A j \in 1..(upTo - from) : items[j] = all[from + j]
  BY <1>3, <1>4, SubSeqFacts
<1>6. DOMAIN items = 1..(upTo - from)
  BY <1>5, SeqIsList DEF IsList
<1> HIDE DEF items, next, p
<1>7. p.items = items /\ p.nextCursor = next
  BY <1>1
<1>8. Len(items) = IF Len(all) - from < size THEN Len(all) - from ELSE size
  BY <1>2, <1>3, <1>5 DEF upTo
<1>9. next = IF Len(all) - from > size THEN from + size ELSE NoValue
  BY <1>2, <1>3 DEF next, upTo
<1> QED
  BY <1>5, <1>6, <1>7, <1>8, <1>9 DEF PageIs, all, size, p

PagesOK(pages, f) ==
    IsSeq(pages) /\ ArePagesOf(pages, f) /\ \A k \in DOMAIN pages : IsSeq(pages[k].items)

LEMMA PagesAre ==
    ASSUME NEW pages, NEW f
    PROVE  ArePagesOf(pages, f) <=>
              \A k \in DOMAIN pages : PageIs(pages[k], f, (k - 1) * AUDIT_PAGE_SIZE, k * AUDIT_PAGE_SIZE)
  BY DEF ArePagesOf, PageIs

LEMMA NextPage ==
    ASSUME NEW f, NEW pages, PagesOK(pages, f), pages = <<>> \/ hasNextPage(pages)
    PROVE  LET more == Append(pages, listAuditEvents(f, OffsetOf(pages)))
           IN  PagesOK(more, f) /\ Len(more) = Len(pages) + 1 /\ Len(more) \in Nat
<1> DEFINE n == Len(pages)
           size == AUDIT_PAGE_SIZE
           from == n * size
           p == listAuditEvents(f, OffsetOf(pages))
           more == Append(pages, p)
           L == Len(Stream(f))
<1>1. n \in Nat /\ DOMAIN pages = 1..n /\ size \in Nat \ {0} /\ L \in Nat
  BY SeqIsList, StreamIsSeq, AuditAssumption DEF PagesOK, IsList
<1>2. OffsetOf(pages) = from /\ from \in Nat /\ from <= L
  <2>1. CASE pages = <<>>
    <3>1. n = 0
      BY <2>1
    <3>2. OffsetOf(pages) = 0
      BY <2>1 DEF OffsetOf
    <3> HIDE DEF n
    <3> QED
      BY <1>1, <3>1, <3>2
  <2>2. CASE pages # <<>>
    <3>1. n \in DOMAIN pages /\ n # 0
      <4>1. n # 0
        <5>1. PICK S : pages \in Seq(S)
          BY DEF PagesOK, IsSeq
        <5> QED
          BY <5>1, <2>2
      <4> QED
        BY <1>1, <4>1
    <3>2. PageIs(pages[n], f, (n - 1) * size, n * size)
      BY <3>1, PagesAre DEF PagesOK
    <3>3. pages[n].nextCursor # NoValue /\ OffsetOf(pages) = pages[n].nextCursor
      BY <2>2 DEF hasNextPage, OffsetOf
    <3>4. L - (n - 1) * size > size /\ pages[n].nextCursor = from
      BY <3>2, <3>3 DEF PageIs
    <3> HIDE DEF n, size, L
    <3>5. (n - 1) * size = n * size - size /\ n * size \in Nat /\ (n - 1) * size \in Int
      BY <1>1
    <3> QED
      BY <1>1, <3>3, <3>4, <3>5
  <2> QED
    BY <2>1, <2>2
<1>3. PageIs(p, f, from, from + size) /\ IsSeq(p.items)
  BY <1>2, ListedPage
<1>4. /\ IsSeq(more) /\ Len(more) = n + 1 /\ more[n + 1] = p
      /\ \A i \in DOMAIN pages : i \in DOMAIN more /\ more[i] = pages[i]
  BY AppendFacts DEF PagesOK
<1>5. DOMAIN more = 1..(n + 1)
  BY <1>4, SeqIsList DEF IsList
<1>6. (n + 1) * size = from + size
  BY <1>1
<1> HIDE DEF n, size, from, p, more
<1>7. \A k \in DOMAIN more : PageIs(more[k], f, (k - 1) * size, k * size)
  <2>1. \A k \in DOMAIN pages : PageIs(pages[k], f, (k - 1) * size, k * size)
    BY PagesAre DEF PagesOK, size
  <2>3. \A k \in DOMAIN more : k = n + 1 \/ k \in DOMAIN pages
    BY <1>1, <1>5
  <2>4. \A k \in DOMAIN pages : PageIs(more[k], f, (k - 1) * size, k * size)
    BY <1>4, <2>1
  <2>5. ASSUME NEW k \in DOMAIN more
        PROVE  PageIs(more[k], f, (k - 1) * size, k * size)
    <3>1. CASE k = n + 1
      <4>1. (k - 1) * size = from /\ k * size = from + size /\ more[k] = p
        <5>1. k - 1 = n
          BY <1>1, <3>1
        <5>2. k * size = from + size
          BY <1>6, <3>1
        <5> QED
          BY <1>4, <3>1, <5>1, <5>2 DEF from
      <4> QED
        BY <1>3, <4>1
    <3>2. CASE k \in DOMAIN pages
      BY <2>4, <3>2
    <3> QED
      BY <2>3, <3>1, <3>2
  <2> QED
    BY <2>5
<1>8. ArePagesOf(more, f)
  BY <1>7, PagesAre DEF size
<1>9. \A k \in DOMAIN more : IsSeq(more[k].items)
  <2>1. \A k \in DOMAIN more : k = n + 1 \/ k \in DOMAIN pages
    BY <1>1, <1>5
  <2> QED
    BY <1>3, <1>4, <2>1 DEF PagesOK
<1> QED
  BY <1>1, <1>4, <1>8, <1>9 DEF PagesOK, more, p, n

LEMMA FirstPageOK ==
    ASSUME NEW f
    PROVE  PagesOK(FirstPage(f), f) /\ Len(FirstPage(f)) = 1 /\ FirstPage(f) # <<>>
<1> DEFINE none == <<>>
<1>1. none \in Seq({}) /\ Len(none) = 0 /\ DOMAIN none = {} /\ none = <<>>
  OBVIOUS
<1>2. PagesOK(none, f)
  BY <1>1 DEF PagesOK, ArePagesOf, IsSeq
<1>3. Append(none, listAuditEvents(f, OffsetOf(none))) = FirstPage(f)
  BY DEF FirstPage, OffsetOf
<1> HIDE DEF none
<1>4. PagesOK(FirstPage(f), f) /\ Len(FirstPage(f)) = 1
  <2> DEFINE more == Append(none, listAuditEvents(f, OffsetOf(none)))
  <2>1. PagesOK(more, f) /\ Len(more) = Len(none) + 1
    BY <1>1, <1>2, NextPage, Zenon
  <2> QED
    BY <1>1, <1>3, <2>1
<1>5. FirstPage(f) # <<>>
  BY <1>4
<1> QED
  BY <1>4, <1>5

-----------------------------------------------------------------------------
(* The order of the stream: an event stands behind the ones that are newer. *)

LEMMA NewerOrder ==
    ASSUME NEW c \in AuditEvents, NEW d \in AuditEvents, NEW e \in AuditEvents
    PROVE  /\ ~Newer(e, e)
           /\ Newer(c, d) /\ Newer(d, e) => Newer(c, e)
           /\ Newer(d, e) \/ Newer(e, d) \/ d = e
<1>1. /\ c.id \in Nat /\ c.at \in Nat /\ d.id \in Nat /\ d.at \in Nat /\ e.id \in Nat /\ e.at \in Nat
      /\ d.id = e.id => d = e
  BY AuditAssumption
<1> QED
  BY <1>1 DEF Newer

NewerThan(f, e) == {d \in Filtered(f) : Newer(d, e)}
RankOf(f, e) == Cardinality(NewerThan(f, e))

LEMMA RankFacts ==
    ASSUME NEW f, NEW e \in Filtered(f)
    PROVE  /\ RankOf(f, e) \in 0..(Cardinality(Filtered(f)) - 1)
           /\ \A d \in Filtered(f) : Newer(d, e) => RankOf(f, d) < RankOf(f, e)
<1> DEFINE S == Filtered(f)
<1>1. IsFiniteSet(S) /\ Cardinality(S) \in Nat /\ \A x \in S : x \in AuditEvents
  BY FilteredFinite
<1>2. \A x : NewerThan(f, x) \in SUBSET S
  BY DEF NewerThan
<1> HIDE DEF S
<1>3. \A x : IsFiniteSet(NewerThan(f, x)) /\ RankOf(f, x) \in Nat
  BY <1>1, <1>2, FS_Subset, FS_CardinalityType DEF RankOf
<1>4. RankOf(f, e) < Cardinality(S)
  <2>1. e \in S /\ e \notin NewerThan(f, e)
    BY <1>1, NewerOrder DEF NewerThan, S
  <2>2. /\ Cardinality(NewerThan(f, e)) <= Cardinality(S)
        /\ Cardinality(S) = Cardinality(NewerThan(f, e)) => S = NewerThan(f, e)
    BY <1>1, <1>2, FS_Subset
  <2> QED
    BY <1>1, <1>3, <2>1, <2>2 DEF RankOf
<1>5. ASSUME NEW d \in S, Newer(d, e)
      PROVE  RankOf(f, d) < RankOf(f, e)
  <2> DEFINE A == NewerThan(f, d)
             B == NewerThan(f, e)
  <2>1. A \in SUBSET B /\ d \in B /\ d \notin A
    <3>1. e \in AuditEvents /\ d \in AuditEvents
      BY <1>1, <1>5 DEF S
    <3>2. \A x \in S : Newer(x, d) => Newer(x, e)
      BY <1>1, <1>5, <3>1, NewerOrder
    <3>3. ~Newer(d, d)
      BY <3>1, NewerOrder
    <3> QED
      BY <1>5, <3>2, <3>3 DEF NewerThan, S
  <2>2. IsFiniteSet(A) /\ IsFiniteSet(B) /\ Cardinality(A) \in Nat /\ Cardinality(B) \in Nat
    BY <1>3 DEF RankOf
  <2> HIDE DEF A, B
  <2>3. Cardinality(A) <= Cardinality(B) /\ (Cardinality(B) = Cardinality(A) => B = A)
    BY <2>1, <2>2, FS_Subset
  <2> QED
    BY <2>1, <2>2, <2>3 DEF RankOf, A, B
<1> QED
  BY <1>1, <1>3, <1>4, <1>5 DEF S

LEMMA RankInjective ==
    ASSUME NEW f, NEW d \in Filtered(f), NEW e \in Filtered(f), RankOf(f, d) = RankOf(f, e)
    PROVE  d = e
<1>1. d \in AuditEvents /\ e \in AuditEvents
  BY FilteredFinite
<1>2. Newer(d, e) \/ Newer(e, d) \/ d = e
  BY <1>1, NewerOrder
<1>3. RankOf(f, d) \in Int /\ RankOf(f, e) \in Int
  BY RankFacts, FilteredFinite
<1>4. ~Newer(d, e) /\ ~Newer(e, d)
  BY <1>3, RankFacts
<1> QED
  BY <1>2, <1>4

LEMMA RankOnto ==
    ASSUME NEW f, NEW i \in 1..Cardinality(Filtered(f))
    PROVE  \E e \in Filtered(f) : RankOf(f, e) = i - 1
<1> DEFINE S == Filtered(f)
           n == Cardinality(S)
           T == 0..(n - 1)
           g == [e \in S |-> RankOf(f, e)]
<1>1. IsFiniteSet(S) /\ n \in Nat
  BY FilteredFinite
<1>2. g \in [S -> T]
  BY RankFacts
<1>3. \A a, b \in S : g[a] = g[b] => a = b
  BY RankInjective
<1>4. g \in Injection(S, T)
  BY <1>2, <1>3 DEF Injection, IsInjective
<1>5. IsFiniteSet(T) /\ Cardinality(T) = n
  <2> HIDE DEF n
  <2> QED
    BY <1>1, FS_Interval
<1>6. g \in Surjection(S, T)
  <2> HIDE DEF g, S, T
  <2> QED
    BY <1>1, <1>4, <1>5, FS_Injection DEF n
<1>7. i - 1 \in T
  BY <1>1
<1>8. \E e \in S : g[e] = i - 1
  <2> HIDE DEF g, S, T
  <2> QED
    BY <1>6, <1>7 DEF Surjection
<1> QED
  BY <1>8

LEMMA StreamRank ==
    ASSUME NEW f, NEW i \in 1..Len(Stream(f))
    PROVE  Stream(f)[i] \in Filtered(f) /\ RankOf(f, Stream(f)[i]) = i - 1
<1> DEFINE S == Filtered(f)
           n == Cardinality(S)
<1>1. i \in 1..n
  BY StreamIsSeq
<1>2. Stream(f)[i] = CHOOSE e \in S : RankOf(f, e) = i - 1
  BY <1>1 DEF Stream, RankOf, NewerThan
<1>3. \E e \in S : RankOf(f, e) = i - 1
  BY <1>1, RankOnto
<1> HIDE DEF S
<1> QED
  BY <1>2, <1>3 DEF S

LEMMA StreamHas ==
    ASSUME NEW f, NEW e \in Filtered(f)
    PROVE  RankOf(f, e) + 1 \in 1..Len(Stream(f)) /\ Stream(f)[RankOf(f, e) + 1] = e
<1> DEFINE i == RankOf(f, e) + 1
<1>1. i \in 1..Len(Stream(f)) /\ i - 1 = RankOf(f, e)
  BY RankFacts, StreamIsSeq
<1>2. Stream(f)[i] \in Filtered(f) /\ RankOf(f, Stream(f)[i]) = RankOf(f, e)
  BY <1>1, StreamRank
<1> HIDE DEF i
<1>3. Stream(f)[i] = e
  BY <1>2, RankInjective
<1> QED
  BY <1>1, <1>3 DEF i

(* What is loaded is a prefix, so with an event come the ones before it. *)
LEMMA PlaceOnPage ==
    ASSUME NEW size \in Nat \ {0}, NEW i \in Nat \ {0}, NEW k \in Nat, i <= k * size
    PROVE  \E m \in 1..k : (m - 1) * size \in Nat /\ (m - 1) * size < i /\ i <= (m - 1) * size + size
<1> DEFINE T == {x \in Nat : i <= x * size}
<1>1. T \in SUBSET Nat /\ T # {} /\ k \in T
  OBVIOUS
<1>2. PICK m \in T : \A y \in T : m <= y
  BY <1>1, HasLeast, Zenon
<1>3. m \in Nat /\ i <= m * size /\ m <= k
  BY <1>1, <1>2
<1>4. m # 0
  BY <1>3
<1>5. m - 1 \in Nat /\ m - 1 \notin T
  BY <1>2, <1>3, <1>4
<1>6. (m - 1) * size \in Nat /\ (m - 1) * size < i
  BY <1>5
<1>7. (m - 1) * size + size = m * size
  BY <1>3
<1> QED
  BY <1>3, <1>4, <1>6, <1>7

LEMMA ShownPrefix ==
    ASSUME NEW f, NEW pages, PagesOK(pages, f),
           NEW e \in shown(pages), NEW d \in Filtered(f), Newer(d, e)
    PROVE  d \in shown(pages)
<1> DEFINE size == AUDIT_PAGE_SIZE
           all == Stream(f)
           From(k) == (k - 1) * size
<1>1. size \in Nat \ {0} /\ Len(all) \in Nat
  BY AuditAssumption, StreamIsSeq
<1>a. PICK k \in DOMAIN pages : \E j \in DOMAIN pages[k].items : pages[k].items[j] = e
  BY DEF shown
<1>2. PICK j \in DOMAIN pages[k].items : pages[k].items[j] = e
  BY <1>a
<1>3. Len(pages) \in Nat /\ DOMAIN pages = 1..Len(pages)
  BY SeqIsList DEF PagesOK, IsList
<1>4. \A m \in DOMAIN pages : DOMAIN pages[m].items = 1..Len(pages[m].items)
  BY SeqIsList DEF PagesOK, IsList
<1>5. \A m \in DOMAIN pages : PageIs(pages[m], f, From(m), m * size)
  BY PagesAre DEF PagesOK
<1> HIDE DEF size, all
<1>6. From(k) \in Nat /\ From(k) + size = k * size
  BY <1>1, <1>3
<1> HIDE DEF From
<1>7. Len(pages[k].items) = (IF Len(all) - From(k) < size THEN Len(all) - From(k) ELSE size)
      /\ e = all[From(k) + j]
  BY <1>2, <1>5 DEF PageIs, size, all
<1>8. j \in Nat \ {0} /\ j <= size /\ From(k) + j <= Len(all)
  <2> DEFINE n == Len(pages[k].items)
             rest == Len(all) - From(k)
  <2>1. j \in 1..n
    BY <1>2, <1>4
  <2>2. rest \in Int /\ n = IF rest < size THEN rest ELSE size
    BY <1>1, <1>6, <1>7
  <2> HIDE DEF n
  <2>3. j \in Nat \ {0} /\ j <= size /\ j <= rest
    <3> HIDE DEF rest
    <3> QED
      BY <1>1, <2>1, <2>2
  <2> QED
    BY <1>1, <1>6, <2>3
<1>9. e \in Filtered(f) /\ RankOf(f, e) = From(k) + j - 1
  BY <1>6, <1>7, <1>8, StreamRank DEF all
<1> DEFINE i == RankOf(f, d) + 1
<1>10. i \in 1..Len(all) /\ all[i] = d
  BY StreamHas DEF all
<1>11. i < From(k) + j
  <2>1. RankOf(f, d) < RankOf(f, e) /\ RankOf(f, d) \in Int
    BY <1>9, RankFacts, FilteredFinite
  <2> QED
    BY <1>6, <1>8, <1>9, <2>1
<1> HIDE DEF i
<1>12. i \in Nat \ {0} /\ k \in Nat /\ i <= k * size
  BY <1>1, <1>3, <1>6, <1>8, <1>10, <1>11
<1>13. PICK m \in 1..k : From(m) \in Nat /\ From(m) < i /\ i <= From(m) + size
  BY <1>1, <1>12, PlaceOnPage DEF From
<1>14. m \in DOMAIN pages
  BY <1>3, <1>12
<1> DEFINE q == i - From(m)
<1>15. q \in 1..Len(pages[m].items)
  <2>1. Len(pages[m].items) = IF Len(all) - From(m) < size THEN Len(all) - From(m) ELSE size
    BY <1>5, <1>14 DEF PageIs, size, all
  <2> QED
    BY <1>1, <1>10, <1>13, <2>1
<1>16. From(m) + q = i
  BY <1>12, <1>13
<1> HIDE DEF q
<1>17. pages[m].items[q] = all[From(m) + q]
  BY <1>4, <1>5, <1>14, <1>15 DEF PageIs, all
<1>18. pages[m].items[q] = d /\ d \in AuditEvents
  BY <1>10, <1>16, <1>17, FilteredFinite
<1> QED
  BY <1>4, <1>14, <1>15, <1>18 DEF shown

-----------------------------------------------------------------------------
(* The tabs of the audit log *)

ExportsOK(ex, n) ==
    /\ IsSeq(ex) /\ n \in Nat
    /\ \A i \in DOMAIN ex : /\ ex[i] = [tenant |-> ex[i].tenant, key |-> ex[i].key]
                            /\ ex[i].tenant \in AuditTenants /\ ex[i].key \in 1..n
    /\ \A i, j \in DOMAIN ex : ex[i].key = ex[j].key => i = j

ViewOK(ex, v) ==
    /\ DOMAIN v = {"url", "filter", "pages", "selectedId", "export", "exportFor", "failed"}
    /\ v.filter.tenant \in AuditTenants \cup {NoValue}
    /\ PagesOK(v.pages, v.filter) /\ v.pages # <<>>
    /\ v.export \in 0..Len(ex) /\ (v.export # 0 => ex[v.export].tenant = v.exportFor)
FetchOK(q) ==
    /\ DOMAIN q = {"phase", "filter", "pages", "want", "older"}
    /\ q.phase \in {"idle", "sent", "answered"} /\ q.want \in Nat
    /\ q.phase # "idle" => PagesOK(q.pages, q.filter)
    /\ q.phase = "sent" => q.pages = <<>> \/ hasNextPage(q.pages)
    /\ q.phase = "answered" => q.pages # <<>>

(* A click has one key, for one tenant. *)
RequestOK(ex, n, q) ==
    /\ DOMAIN q = {"phase", "tenant", "key", "result"}
    /\ q.phase \in {"idle", "sent", "answered"} /\ q.result \in 0..Len(ex)
    /\ q.phase # "idle" => /\ q.tenant \in AuditTenants /\ q.key \in 1..n
                           /\ \A i \in DOMAIN ex : ex[i].key = q.key => ex[i].tenant = q.tenant
    /\ q.phase = "answered" => q.result # 0 /\ ex[q.result].tenant = q.tenant
KeysApart(p, q) == p.phase # "idle" /\ q.phase # "idle" => p.key # q.key

AuditInv ==
    /\ ExportsOK(exports, auditClicks)
    /\ DOMAIN view = AuditTabs /\ DOMAIN fetch = AuditTabs /\ DOMAIN exportReq = AuditTabs
    /\ \A t \in AuditTabs : /\ ViewOK(exports, view[t]) /\ FetchOK(fetch[t])
                            /\ RequestOK(exports, auditClicks, exportReq[t])
    /\ \A t, u \in AuditTabs : t # u => KeysApart(exportReq[t], exportReq[u])

ExGrows(ex, ns) ==
    /\ Len(ex) \in Nat /\ Len(ns) \in Nat /\ Len(ex) <= Len(ns)
    /\ DOMAIN ex = 1..Len(ex) /\ DOMAIN ns = 1..Len(ns)
    /\ \A i \in DOMAIN ex : ns[i] = ex[i]

LEMMA AuditFrame ==
    ASSUME AuditInv, ExportsOK(exports', auditClicks'), ExGrows(exports, exports'), auditClicks <= auditClicks',
           NEW t \in AuditTabs, OnlyAt(view, view', t), OnlyAt(fetch, fetch', t), OnlyAt(exportReq, exportReq', t),
           ViewOK(exports', view'[t]), FetchOK(fetch'[t]), RequestOK(exports', auditClicks', exportReq'[t]),
           \A u \in AuditTabs \ {t} :
              /\ KeysApart(exportReq'[t], exportReq[u])
              /\ exportReq[u].phase # "idle" =>
                    \A i \in DOMAIN exports' \ DOMAIN exports : exports'[i].key # exportReq[u].key
    PROVE  AuditInv'
<1>1. DOMAIN view' = AuditTabs /\ DOMAIN fetch' = AuditTabs /\ DOMAIN exportReq' = AuditTabs
  BY DEF AuditInv, OnlyAt
<1>2. \A u \in AuditTabs \ {t} : view'[u] = view[u] /\ fetch'[u] = fetch[u] /\ exportReq'[u] = exportReq[u]
  BY DEF AuditInv, OnlyAt
<1>3. ASSUME NEW u \in AuditTabs
      PROVE  ViewOK(exports', view'[u]) /\ FetchOK(fetch'[u]) /\ RequestOK(exports', auditClicks', exportReq'[u])
  <2>1. CASE u = t
    BY <2>1
  <2>2. CASE u # t
    <3>1. ViewOK(exports, view[u]) /\ FetchOK(fetch[u]) /\ RequestOK(exports, auditClicks, exportReq[u])
      BY DEF AuditInv
    <3>2. ViewOK(exports', view[u])
      <4>1. view[u].export # 0 => view[u].export \in DOMAIN exports
        BY <3>1 DEF ViewOK, ExGrows
      <4>2. view[u].export \in 0..Len(exports')
        BY <3>1 DEF ViewOK, ExGrows
      <4> QED
        BY <3>1, <4>1, <4>2 DEF ViewOK, ExGrows
    <3>3. RequestOK(exports', auditClicks', exportReq[u])
      <4> DEFINE q == exportReq[u]
      <4>1. q.result \in 0..Len(exports') /\ (q.phase = "answered" => q.result \in DOMAIN exports)
        BY <3>1 DEF RequestOK, ExGrows
      <4>2. q.phase # "idle" => q.tenant \in AuditTenants /\ q.key \in 1..auditClicks'
        BY <3>1 DEF RequestOK, AuditInv, ExportsOK
      <4>3. q.phase # "idle" => \A i \in DOMAIN exports' : exports'[i].key = q.key => exports'[i].tenant = q.tenant
        BY <2>2, <3>1 DEF RequestOK, ExGrows
      <4>4. q.phase = "answered" => q.result # 0 /\ exports'[q.result].tenant = q.tenant
        BY <3>1, <4>1 DEF RequestOK, ExGrows
      <4> HIDE DEF q
      <4>5. DOMAIN q = {"phase", "tenant", "key", "result"} /\ q.phase \in {"idle", "sent", "answered"}
        BY <3>1 DEF RequestOK, q
      <4> QED
        BY <4>1, <4>2, <4>3, <4>4, <4>5 DEF RequestOK, q
    <3> QED
      BY <1>2, <2>2, <3>1, <3>2, <3>3
  <2> QED
    BY <2>1, <2>2
<1>4. ASSUME NEW u \in AuditTabs, NEW w \in AuditTabs, u # w
      PROVE  KeysApart(exportReq'[u], exportReq'[w])
  <2>1. \A p, q : KeysApart(p, q) <=> KeysApart(q, p)
    BY DEF KeysApart
  <2>2. KeysApart(exportReq[u], exportReq[w])
    BY <1>4 DEF AuditInv
  <2> QED
    BY <1>2, <1>4, <2>1, <2>2
<1> QED
  BY <1>1, <1>3, <1>4 DEF AuditInv

LEMMA AuditFacts ==
    ASSUME AuditInv, NEW t \in AuditTabs
    PROVE  /\ ExportsOK(exports, auditClicks) /\ Len(exports) \in Nat /\ DOMAIN exports = 1..Len(exports)
           /\ ExGrows(exports, exports) /\ auditClicks \in Nat
           /\ ViewOK(exports, view[t]) /\ FetchOK(fetch[t]) /\ RequestOK(exports, auditClicks, exportReq[t])
           /\ t \in DOMAIN view /\ t \in DOMAIN fetch /\ t \in DOMAIN exportReq
           /\ \A u \in AuditTabs \ {t} : KeysApart(exportReq[t], exportReq[u])
  BY SeqIsList DEF AuditInv, ExportsOK, IsList, ExGrows

(* Steps that mint no export and send no request of one. *)
LEMMA AuditQuiet ==
    ASSUME AuditInv, NEW t \in AuditTabs, UNCHANGED exports, auditClicks' \in {auditClicks, auditClicks + 1},
           OnlyAt(view, view', t), OnlyAt(fetch, fetch', t), OnlyAt(exportReq, exportReq', t),
           ViewOK(exports, view'[t]), FetchOK(fetch'[t]), exportReq'[t] \in {exportReq[t], NoExport}
    PROVE  AuditInv'
<1>0. /\ ExportsOK(exports, auditClicks) /\ Len(exports) \in Nat /\ DOMAIN exports = 1..Len(exports)
      /\ ExGrows(exports, exports) /\ auditClicks \in Nat
      /\ RequestOK(exports, auditClicks, exportReq[t])
      /\ \A u \in AuditTabs \ {t} : KeysApart(exportReq[t], exportReq[u])
  BY AuditFacts
<1>1. auditClicks' \in Nat /\ auditClicks <= auditClicks'
  BY <1>0
<1>2. ExportsOK(exports, auditClicks')
  BY <1>0, <1>1 DEF ExportsOK
<1>3. NoExport.phase = "idle" /\ NoExport.result = 0 /\ DOMAIN NoExport = {"phase", "tenant", "key", "result"}
  BY DEF NoExport
<1>4. RequestOK(exports, auditClicks', NoExport)
  BY <1>0, <1>3 DEF RequestOK
<1>5. RequestOK(exports, auditClicks', exportReq[t])
  BY <1>0, <1>1 DEF RequestOK
<1>6. \A u \in AuditTabs \ {t} : KeysApart(exportReq'[t], exportReq[u])
  BY <1>0, <1>3 DEF KeysApart
<1> QED
  BY <1>0, <1>1, <1>2, <1>4, <1>5, <1>6, AuditFrame

LEMMA IdleOK == FetchOK(Idle)
<1>1. DOMAIN Idle = {"phase", "filter", "pages", "want", "older"} /\ Idle.phase = "idle" /\ Idle.want = 0
  BY DEF Idle
<1> QED
  BY <1>1 DEF FetchOK

LEMMA FilterTenant ==
    ASSUME NEW t \in AuditTabs, NEW url
    PROVE  auditFilterFromSearch(t, url).tenant \in AuditTenants \cup {NoValue}
<1> DEFINE tenant == IF AuditScope[t] # NoValue THEN AuditScope[t]
                     ELSE IF url.tenant \in AuditTenants THEN url.tenant ELSE NoValue
<1>1. auditFilterFromSearch(t, url).tenant = tenant
  BY DEF auditFilterFromSearch
<1>2. AuditScope[t] \in AuditTenants \cup {NoValue}
  BY AuditAssumption
<1>3. tenant \in AuditTenants \cup {NoValue}
  BY <1>2
<1> QED
  BY <1>1, <1>3

LEMMA OpenedOK ==
    ASSUME NEW ex, Len(ex) \in Nat, NEW t \in AuditTabs, NEW url
    PROVE  ViewOK(ex, Opened(t, url))
<1> DEFINE f == auditFilterFromSearch(t, url)
           first == FirstPage(f)
           v == Opened(t, url)
<1>1. v = [url |-> url, filter |-> f, pages |-> first, selectedId |-> url.event,
           export |-> 0, exportFor |-> NoValue, failed |-> FALSE]
  BY DEF Opened
<1>2. f.tenant \in AuditTenants \cup {NoValue}
  BY FilterTenant
<1>3. PagesOK(first, f) /\ first # <<>>
  BY FirstPageOK
<1> HIDE DEF f, first, v
<1>4. /\ DOMAIN v = {"url", "filter", "pages", "selectedId", "export", "exportFor", "failed"}
      /\ v.filter = f /\ v.pages = first /\ v.export = 0
  BY <1>1
<1> QED
  BY <1>2, <1>3, <1>4 DEF ViewOK, v

LEMMA ViewMarks ==
    ASSUME NEW ex, NEW v, ViewOK(ex, v), NEW x
    PROVE  ViewOK(ex, [v EXCEPT !.selectedId = x]) /\ ViewOK(ex, [v EXCEPT !.failed = x])
<1>1. ASSUME NEW w, w \in {[v EXCEPT !.selectedId = x], [v EXCEPT !.failed = x]}
      PROVE  ViewOK(ex, w)
  <2>1. /\ DOMAIN w = DOMAIN v /\ w.filter = v.filter /\ w.pages = v.pages
        /\ w.export = v.export /\ w.exportFor = v.exportFor
    BY <1>1 DEF ViewOK
  <2> QED
    BY <2>1 DEF ViewOK
<1> QED
  BY <1>1

LEMMA EmptyPagesOK == ASSUME NEW f PROVE PagesOK(<<>>, f)
<1> DEFINE none == <<>>
<1>1. none \in Seq({}) /\ DOMAIN none = {}
  OBVIOUS
<1> HIDE DEF none
<1>2. PagesOK(none, f)
  BY <1>1 DEF PagesOK, ArePagesOf, IsSeq
<1> QED
  BY <1>2 DEF none

LEMMA StartsKeeps ==
    ASSUME AuditInv, NEW t \in AuditTabs, auditClicks' = auditClicks + 1,
           NEW have, NEW n \in Nat, NEW older, Starts(t, have, n, older),
           PagesOK(have, view[t].filter), have = <<>> \/ hasNextPage(have)
    PROVE  AuditInv'
<1>0. /\ ViewOK(exports, view[t]) /\ t \in DOMAIN view /\ t \in DOMAIN fetch /\ t \in DOMAIN exportReq
  BY AuditFacts
<1> DEFINE q == [phase |-> "sent", filter |-> view[t].filter, pages |-> have, want |-> n, older |-> older]
<1>1. fetch' = [fetch EXCEPT ![t] = q] /\ UNCHANGED <<view, exportReq, exports>>
  BY DEF Starts
<1>2. /\ DOMAIN q = {"phase", "filter", "pages", "want", "older"} /\ q.phase = "sent"
      /\ q.filter = view[t].filter /\ q.pages = have /\ q.want = n
  OBVIOUS
<1> HIDE DEF q
<1>3. FetchOK(q)
  BY <1>2 DEF FetchOK
<1>4. OnlyAt(view, view', t) /\ OnlyAt(fetch, fetch', t) /\ OnlyAt(exportReq, exportReq', t)
      /\ fetch'[t] = q /\ view'[t] = view[t] /\ exportReq'[t] = exportReq[t]
  BY <1>0, <1>1 DEF OnlyAt
<1> QED
  BY <1>0, <1>1, <1>3, <1>4, AuditQuiet

LEMMA ExportKeeps ==
    ASSUME AuditInv, NEW t \in AuditTabs, auditClicks' = auditClicks + 1, export(t)
    PROVE  AuditInv'
<1>0. /\ ExportsOK(exports, auditClicks) /\ Len(exports) \in Nat /\ DOMAIN exports = 1..Len(exports)
      /\ ExGrows(exports, exports) /\ auditClicks \in Nat
      /\ ViewOK(exports, view[t]) /\ FetchOK(fetch[t])
      /\ t \in DOMAIN view /\ t \in DOMAIN fetch /\ t \in DOMAIN exportReq
  BY AuditFacts
<1> DEFINE n == auditClicks + 1
           q == [phase |-> "sent", tenant |-> view[t].filter.tenant, key |-> n, result |-> 0]
           v == [view[t] EXCEPT !.export = 0, !.exportFor = NoValue]
<1>1. view' = [view EXCEPT ![t] = v] /\ exportReq' = [exportReq EXCEPT ![t] = q] /\ UNCHANGED <<fetch, exports>>
  BY <1>0 DEF export
<1>2. view[t].filter.tenant \in AuditTenants
  BY <1>0 DEF export, ViewOK
<1>3. /\ DOMAIN q = {"phase", "tenant", "key", "result"} /\ q.phase = "sent"
      /\ q.tenant = view[t].filter.tenant /\ q.key = n /\ q.result = 0
  OBVIOUS
<1>4. /\ DOMAIN v = DOMAIN view[t] /\ v.filter = view[t].filter /\ v.pages = view[t].pages /\ v.export = 0
  BY <1>0 DEF ViewOK
<1> HIDE DEF q, v
<1>5. ViewOK(exports, v)
  BY <1>0, <1>4 DEF ViewOK
<1>6. \A i \in DOMAIN exports : exports[i].key # n
  BY <1>0 DEF ExportsOK
<1>7. RequestOK(exports, n, q)
  BY <1>0, <1>2, <1>3, <1>6 DEF RequestOK
<1>8. \A u \in AuditTabs : KeysApart(q, exportReq[u])
  <2>1. \A u \in AuditTabs : exportReq[u].phase # "idle" => exportReq[u].key \in 1..auditClicks
    BY DEF AuditInv, RequestOK
  <2>2. \A u \in AuditTabs : exportReq[u].phase # "idle" => exportReq[u].key # n
    BY <1>0, <2>1
  <2> QED
    BY <1>3, <2>2 DEF KeysApart
<1>9. ExportsOK(exports, n) /\ n \in Nat /\ auditClicks <= n
  BY <1>0 DEF ExportsOK
<1>10. OnlyAt(view, view', t) /\ OnlyAt(fetch, fetch', t) /\ OnlyAt(exportReq, exportReq', t)
       /\ fetch'[t] = fetch[t] /\ view'[t] = v /\ exportReq'[t] = q /\ exports' = exports /\ auditClicks' = n
  BY <1>0, <1>1 DEF OnlyAt
<1> QED
  BY <1>0, <1>5, <1>7, <1>8, <1>9, <1>10, AuditFrame

LEMMA AuditClickKeeps ==
    ASSUME AuditInv, NEW t \in AuditTabs, AuditClick(t)
    PROVE  AuditInv'
<1>0. /\ Len(exports) \in Nat /\ ViewOK(exports, view[t]) /\ FetchOK(fetch[t])
      /\ t \in DOMAIN view /\ t \in DOMAIN fetch /\ t \in DOMAIN exportReq
  BY AuditFacts
<1>1. auditClicks' = auditClicks + 1
  BY DEF AuditClick
<1>2. ASSUME NEW url \in AuditLinks, openAudit(t, url)
      PROVE  AuditInv'
  <2>1. /\ OnlyAt(view, view', t) /\ OnlyAt(fetch, fetch', t) /\ OnlyAt(exportReq, exportReq', t)
        /\ view'[t] = Opened(t, url) /\ fetch'[t] = Idle /\ exportReq'[t] = NoExport /\ UNCHANGED exports
    BY <1>0, <1>2 DEF openAudit, OnlyAt
  <2> QED
    BY <1>0, <1>1, <2>1, OpenedOK, IdleOK, AuditQuiet
<1>3. ASSUME NEW e \in AuditEvents, select(t, e)
      PROVE  AuditInv'
  <2>1. /\ OnlyAt(view, view', t) /\ OnlyAt(fetch, fetch', t) /\ OnlyAt(exportReq, exportReq', t)
        /\ view'[t] = [view[t] EXCEPT !.selectedId = e.id]
        /\ fetch'[t] = fetch[t] /\ exportReq'[t] = exportReq[t] /\ UNCHANGED exports
    BY <1>0, <1>3 DEF select, OnlyAt
  <2>2. ViewOK(exports, [view[t] EXCEPT !.selectedId = e.id])
    BY <1>0, ViewMarks
  <2> QED
    BY <1>0, <1>1, <2>1, <2>2, AuditQuiet
<1>4. ASSUME NEW p \in AuditPills, setParam(t, p[1], p[2])
      PROVE  AuditInv'
  <2>1. /\ OnlyAt(view, view', t) /\ OnlyAt(fetch, fetch', t) /\ OnlyAt(exportReq, exportReq', t)
        /\ view'[t] = view[t] /\ fetch'[t] = fetch[t] /\ exportReq'[t] = exportReq[t] /\ UNCHANGED exports
    BY <1>4 DEF setParam, OnlyAt
  <2> QED
    BY <1>0, <1>1, <2>1, AuditQuiet
<1>5. Len(view[t].pages) \in Nat
  BY <1>0, SeqIsList DEF ViewOK, PagesOK, IsList
<1>6. CASE fetchNextPage(t)
  <2>1. hasNextPage(view[t].pages) /\ Starts(t, view[t].pages, Len(view[t].pages) + 1, TRUE)
    BY <1>6 DEF fetchNextPage
  <2>2. PagesOK(view[t].pages, view[t].filter)
    BY <1>0 DEF ViewOK
  <2>3. Len(view[t].pages) + 1 \in Nat
    BY <1>5
  <2> QED
    BY <1>1, <2>1, <2>2, <2>3, StartsKeeps
<1>7. CASE refetchOnFocus(t)
  BY <1>1, <1>5, <1>7, EmptyPagesOK, StartsKeeps DEF refetchOnFocus
<1> QED
  BY <1>1, <1>2, <1>3, <1>4, <1>6, <1>7, ExportKeeps DEF AuditClick

LEMMA RequestKeeps ==
    ASSUME AuditInv, NEW t \in AuditTabs, requestAuditExport(t)
    PROVE  AuditInv'
<1>0. /\ ExportsOK(exports, auditClicks) /\ Len(exports) \in Nat /\ DOMAIN exports = 1..Len(exports)
      /\ ExGrows(exports, exports) /\ auditClicks \in Nat
      /\ ViewOK(exports, view[t]) /\ FetchOK(fetch[t]) /\ RequestOK(exports, auditClicks, exportReq[t])
      /\ t \in DOMAIN view /\ t \in DOMAIN fetch /\ t \in DOMAIN exportReq
      /\ \A u \in AuditTabs \ {t} : KeysApart(exportReq[t], exportReq[u])
  BY AuditFacts
<1> DEFINE req == exportReq[t]
           new == [tenant |-> req.tenant, key |-> req.key]
<1>1. new.tenant = req.tenant /\ new.key = req.key
  OBVIOUS
<1>2. PICK i \in (IF ReplayOf(req) = {} THEN {Len(exports) + 1} ELSE ReplayOf(req)), phase \in {"sent", "answered"} :
         /\ exports' = IF i \in DOMAIN exports THEN exports ELSE Append(exports, new)
         /\ exportReq' = [exportReq EXCEPT ![t] = [req EXCEPT !.phase = phase, !.result = i]]
  BY <1>0 DEF requestAuditExport
<1>3. req.phase = "sent" /\ UNCHANGED <<view, fetch, auditClicks>>
  BY DEF requestAuditExport
<1>4. req.tenant \in AuditTenants /\ req.key \in 1..auditClicks
  BY <1>0, <1>3 DEF RequestOK
<1> DEFINE q == [req EXCEPT !.phase = phase, !.result = i]
<1>5. DOMAIN q = {"phase", "tenant", "key", "result"} /\ q.phase = phase /\ q.result = i
      /\ q.tenant = req.tenant /\ q.key = req.key
  BY <1>0 DEF RequestOK
<1> HIDE DEF q, new
<1>6. CASE ReplayOf(req) # {}
  <2>1. i \in DOMAIN exports /\ exports[i] = new
    BY <1>6 DEF ReplayOf, new
  <2>2. exports' = exports
    BY <1>2, <2>1
  <2>3. i \in 0..Len(exports) /\ i # 0
    BY <1>0, <2>1
  <2>4. RequestOK(exports, auditClicks, q)
    BY <1>0, <1>1, <1>3, <1>4, <1>5, <2>1, <2>3 DEF RequestOK
  <2>5. \A u \in AuditTabs \ {t} : KeysApart(q, exportReq[u])
    BY <1>0, <1>3, <1>5 DEF KeysApart
  <2>6. OnlyAt(view, view', t) /\ OnlyAt(fetch, fetch', t) /\ OnlyAt(exportReq, exportReq', t) /\ exportReq'[t] = q
    BY <1>0, <1>2, <1>3 DEF OnlyAt, q
  <2> QED
    BY <1>0, <1>3, <2>2, <2>4, <2>5, <2>6, AuditFrame
<1>7. CASE ReplayOf(req) = {}
  <2>1. i = Len(exports) + 1 /\ exports' = Append(exports, new)
    <3>1. i = Len(exports) + 1
      BY <1>7
    <3>2. i \notin DOMAIN exports
      BY <1>0, <3>1
    <3> QED
      BY <1>2, <3>1, <3>2
  <2>2. /\ IsSeq(exports') /\ Len(exports') = i /\ exports'[i] = new
        /\ \A k \in DOMAIN exports : k \in DOMAIN exports' /\ exports'[k] = exports[k]
    BY <1>0, <2>1, AppendFacts DEF ExportsOK
  <2>3. DOMAIN exports' = 1..i
    BY <2>2, SeqIsList DEF IsList
  <2>4. \A k \in DOMAIN exports' : k = i \/ k \in DOMAIN exports
    BY <1>0, <2>1, <2>3
  <2>5. \A k \in DOMAIN exports : exports[k].key # new.key
    <3>1. ASSUME NEW k \in DOMAIN exports, exports[k].key = new.key
          PROVE  FALSE
      <4>1. exports[k].tenant = req.tenant /\ exports[k] = [tenant |-> exports[k].tenant, key |-> exports[k].key]
        BY <1>0, <1>1, <1>3, <3>1 DEF RequestOK, ExportsOK
      <4>2. exports[k] = [tenant |-> req.tenant, key |-> req.key]
        BY <1>1, <3>1, <4>1
      <4> QED
        BY <1>7, <4>2 DEF ReplayOf
    <3> QED
      BY <3>1
  <2>6. new = [tenant |-> new.tenant, key |-> new.key]
    BY <1>1 DEF new
  <2>7. ExportsOK(exports', auditClicks)
    <3>1. \A k \in DOMAIN exports' : /\ exports'[k] = [tenant |-> exports'[k].tenant, key |-> exports'[k].key]
                                     /\ exports'[k].tenant \in AuditTenants /\ exports'[k].key \in 1..auditClicks
      BY <1>0, <1>1, <1>4, <2>2, <2>4, <2>6 DEF ExportsOK
    <3>2. \A k, m \in DOMAIN exports' : exports'[k].key = exports'[m].key => k = m
      BY <1>0, <2>2, <2>4, <2>5 DEF ExportsOK
    <3> QED
      BY <1>0, <2>2, <3>1, <3>2 DEF ExportsOK
  <2>8. ExGrows(exports, exports') /\ i \in Nat /\ i # 0
    BY <1>0, <2>1, <2>2, <2>3 DEF ExGrows
  <2>9. RequestOK(exports', auditClicks, q)
    <3>1. \A k \in DOMAIN exports' : exports'[k].key = q.key => exports'[k].tenant = q.tenant
      BY <1>1, <1>5, <2>2, <2>4, <2>5
    <3>2. q.result \in 0..Len(exports')
      BY <1>5, <2>2, <2>8
    <3> QED
      BY <1>1, <1>4, <1>5, <2>2, <2>8, <3>1, <3>2 DEF RequestOK
  <2>10. ViewOK(exports', view[t])
    BY <1>0, <2>8 DEF ViewOK, ExGrows
  <2>11. \A u \in AuditTabs \ {t} :
            /\ KeysApart(q, exportReq[u])
            /\ exportReq[u].phase # "idle" =>
                  \A k \in DOMAIN exports' \ DOMAIN exports : exports'[k].key # exportReq[u].key
    <3>1. \A u \in AuditTabs \ {t} : exportReq[u].phase # "idle" => req.key # exportReq[u].key
      BY <1>0, <1>3 DEF KeysApart
    <3> QED
      BY <1>1, <1>5, <2>2, <2>4, <3>1 DEF KeysApart
  <2>12. OnlyAt(view, view', t) /\ OnlyAt(fetch, fetch', t) /\ OnlyAt(exportReq, exportReq', t) /\ exportReq'[t] = q
    BY <1>0, <1>2, <1>3 DEF OnlyAt, q
  <2> QED
    BY <1>0, <1>3, <2>7, <2>8, <2>9, <2>10, <2>11, <2>12, AuditFrame
<1> QED
  BY <1>6, <1>7

LEMMA AuditWorkKeeps ==
    ASSUME AuditInv, NEW t \in AuditTabs, AuditWork(t) \/ fetchLost(t) \/ exportLost(t)
    PROVE  AuditInv'
<1>0. /\ Len(exports) \in Nat /\ DOMAIN exports = 1..Len(exports) /\ auditClicks \in Nat
      /\ ViewOK(exports, view[t]) /\ FetchOK(fetch[t]) /\ RequestOK(exports, auditClicks, exportReq[t])
      /\ t \in DOMAIN view /\ t \in DOMAIN fetch /\ t \in DOMAIN exportReq
  BY AuditFacts
<1>1. CASE navigated(t)
  <2> DEFINE f == auditFilterFromSearch(t, nav[t])
             first == FirstPage(f)
             v == [view[t] EXCEPT !.url = nav[t], !.filter = f, !.pages = first, !.failed = FALSE]
  <2>1. view' = [view EXCEPT ![t] = v] /\ UNCHANGED <<fetch, exportReq, exports, auditClicks>>
    BY <1>0, <1>1 DEF navigated
  <2>2. f.tenant \in AuditTenants \cup {NoValue} /\ PagesOK(first, f) /\ first # <<>>
    BY FilterTenant, FirstPageOK
  <2> HIDE DEF f, first
  <2>3. /\ DOMAIN v = DOMAIN view[t] /\ v.filter = f /\ v.pages = first
        /\ v.export = view[t].export /\ v.exportFor = view[t].exportFor
    BY <1>0 DEF ViewOK
  <2> HIDE DEF v
  <2>4. ViewOK(exports, v)
    BY <1>0, <2>2, <2>3 DEF ViewOK
  <2>5. /\ OnlyAt(view, view', t) /\ OnlyAt(fetch, fetch', t) /\ OnlyAt(exportReq, exportReq', t)
        /\ view'[t] = v /\ fetch'[t] = fetch[t] /\ exportReq'[t] = exportReq[t]
    BY <1>0, <2>1 DEF OnlyAt
  <2> QED
    BY <1>0, <2>1, <2>4, <2>5, AuditQuiet
<1>2. CASE getAuditPage(t)
  <2> DEFINE more == Append(fetch[t].pages, listAuditEvents(fetch[t].filter, OffsetOf(fetch[t].pages)))
             phase == IF Len(more) = fetch[t].want \/ ~hasNextPage(more) THEN "answered" ELSE "sent"
             q == [fetch[t] EXCEPT !.pages = more, !.phase = phase]
  <2>1. fetch' = [fetch EXCEPT ![t] = q] /\ fetch[t].phase = "sent" /\ UNCHANGED <<view, exportReq, exports, auditClicks>>
    BY <1>0, <1>2 DEF getAuditPage
  <2>2. PagesOK(fetch[t].pages, fetch[t].filter) /\ (fetch[t].pages = <<>> \/ hasNextPage(fetch[t].pages))
    BY <1>0, <2>1 DEF FetchOK
  <2>3. PagesOK(more, fetch[t].filter) /\ Len(more) = Len(fetch[t].pages) + 1 /\ Len(fetch[t].pages) \in Nat
    BY <2>2, NextPage, SeqIsList DEF PagesOK, IsList
  <2> HIDE DEF more
  <2>4. more # <<>>
    BY <2>3
  <2>5. phase \in {"sent", "answered"} /\ (phase = "sent" => hasNextPage(more))
    OBVIOUS
  <2> HIDE DEF phase
  <2>6. /\ DOMAIN q = DOMAIN fetch[t] /\ q.pages = more /\ q.phase = phase
        /\ q.filter = fetch[t].filter /\ q.want = fetch[t].want
    BY <1>0 DEF FetchOK
  <2> HIDE DEF q
  <2>7. FetchOK(q)
    BY <1>0, <2>3, <2>4, <2>5, <2>6 DEF FetchOK
  <2>8. /\ OnlyAt(view, view', t) /\ OnlyAt(fetch, fetch', t) /\ OnlyAt(exportReq, exportReq', t)
        /\ view'[t] = view[t] /\ fetch'[t] = q /\ exportReq'[t] = exportReq[t]
    BY <1>0, <2>1 DEF OnlyAt
  <2> QED
    BY <1>0, <2>1, <2>7, <2>8, AuditQuiet
<1>3. CASE fetched(t)
  <2> DEFINE v == [view[t] EXCEPT !.pages = fetch[t].pages, !.failed = FALSE]
  <2>1. /\ view' = IF SameAuditKey(t) THEN [view EXCEPT ![t] = v] ELSE view
        /\ fetch' = [fetch EXCEPT ![t] = Idle] /\ UNCHANGED <<exportReq, exports, auditClicks>>
    BY <1>0, <1>3 DEF fetched
  <2>2. SameAuditKey(t) => PagesOK(fetch[t].pages, view[t].filter) /\ fetch[t].pages # <<>>
    BY <1>0, <1>3 DEF fetched, FetchOK, SameAuditKey
  <2>3. /\ DOMAIN v = DOMAIN view[t] /\ v.filter = view[t].filter /\ v.pages = fetch[t].pages
        /\ v.export = view[t].export /\ v.exportFor = view[t].exportFor
    BY <1>0 DEF ViewOK
  <2> HIDE DEF v
  <2>4. SameAuditKey(t) => ViewOK(exports, v)
    BY <1>0, <2>2, <2>3 DEF ViewOK
  <2>5. /\ OnlyAt(view, view', t) /\ OnlyAt(fetch, fetch', t) /\ OnlyAt(exportReq, exportReq', t)
        /\ view'[t] \in {v, view[t]} /\ (~SameAuditKey(t) => view'[t] = view[t])
        /\ fetch'[t] = Idle /\ exportReq'[t] = exportReq[t]
    BY <1>0, <2>1 DEF OnlyAt
  <2>6. ViewOK(exports, view'[t])
    BY <1>0, <2>4, <2>5
  <2> QED
    BY <1>0, <2>1, <2>5, <2>6, IdleOK, AuditQuiet
<1>4. CASE exported(t)
  <2> DEFINE q == exportReq[t]
             v == [view[t] EXCEPT !.export = q.result, !.exportFor = q.tenant]
  <2>1. view' = [view EXCEPT ![t] = v] /\ exportReq' = [exportReq EXCEPT ![t] = NoExport]
        /\ UNCHANGED <<fetch, exports, auditClicks>>
    BY <1>0, <1>4 DEF exported
  <2>2. q.result \in 0..Len(exports) /\ exports[q.result].tenant = q.tenant
    BY <1>0, <1>4 DEF exported, RequestOK
  <2> HIDE DEF q
  <2>3. /\ DOMAIN v = DOMAIN view[t] /\ v.filter = view[t].filter /\ v.pages = view[t].pages
        /\ v.export = q.result /\ v.exportFor = q.tenant
    BY <1>0 DEF ViewOK
  <2> HIDE DEF v
  <2>4. ViewOK(exports, v)
    BY <1>0, <2>2, <2>3 DEF ViewOK
  <2>5. /\ OnlyAt(view, view', t) /\ OnlyAt(fetch, fetch', t) /\ OnlyAt(exportReq, exportReq', t)
        /\ view'[t] = v /\ fetch'[t] = fetch[t] /\ exportReq'[t] = NoExport
    BY <1>0, <2>1 DEF OnlyAt
  <2> QED
    BY <1>0, <2>1, <2>4, <2>5, AuditQuiet
<1>5. CASE fetchLost(t)
  <2> DEFINE x == view[t].failed \/ SameAuditKey(t)
             v == [view[t] EXCEPT !.failed = x]
  <2>1. view' = [view EXCEPT ![t] = v] /\ fetch' = [fetch EXCEPT ![t] = Idle]
        /\ UNCHANGED <<exportReq, exports, auditClicks>>
    BY <1>0, <1>5 DEF fetchLost
  <2> HIDE DEF x
  <2>2. ViewOK(exports, v)
    BY <1>0, ViewMarks
  <2> HIDE DEF v
  <2>3. /\ OnlyAt(view, view', t) /\ OnlyAt(fetch, fetch', t) /\ OnlyAt(exportReq, exportReq', t)
        /\ view'[t] = v /\ fetch'[t] = Idle /\ exportReq'[t] = exportReq[t]
    BY <1>0, <2>1 DEF OnlyAt
  <2> QED
    BY <1>0, <2>1, <2>2, <2>3, IdleOK, AuditQuiet
<1>6. CASE exportLost(t)
  <2>1. /\ OnlyAt(view, view', t) /\ OnlyAt(fetch, fetch', t) /\ OnlyAt(exportReq, exportReq', t)
        /\ view'[t] = view[t] /\ fetch'[t] = fetch[t] /\ exportReq'[t] = NoExport
        /\ UNCHANGED <<exports, auditClicks>>
    BY <1>0, <1>6 DEF exportLost, OnlyAt
  <2> QED
    BY <1>0, <2>1, AuditQuiet
<1> QED
  BY <1>1, <1>2, <1>3, <1>4, <1>5, <1>6, RequestKeeps DEF AuditWork

LEMMA AuditInitInv == AuditInit => AuditInv
<1> SUFFICES ASSUME AuditInit
             PROVE  AuditInv
  OBVIOUS
<1>1. /\ view = [t \in AuditTabs |-> Opened(t, Blank)] /\ fetch = [t \in AuditTabs |-> Idle]
      /\ exportReq = [t \in AuditTabs |-> NoExport] /\ exports = <<>> /\ auditClicks = 0
  BY DEF AuditInit
<1>2. exports \in Seq({}) /\ Len(exports) = 0 /\ DOMAIN exports = {}
  BY <1>1
<1>3. ExportsOK(exports, auditClicks)
  BY <1>1, <1>2 DEF ExportsOK, IsSeq
<1>4. NoExport.phase = "idle" /\ NoExport.result = 0 /\ DOMAIN NoExport = {"phase", "tenant", "key", "result"}
  BY DEF NoExport
<1>5. RequestOK(exports, auditClicks, NoExport)
  BY <1>2, <1>4 DEF RequestOK
<1>6. \A t \in AuditTabs : ViewOK(exports, Opened(t, Blank))
  BY <1>2, OpenedOK
<1> QED
  BY <1>1, <1>3, <1>4, <1>5, <1>6, IdleOK DEF AuditInv, KeysApart

LEMMA AuditStep == AuditInv /\ [AuditNext]_auditVars => AuditInv'
<1> SUFFICES ASSUME AuditInv, [AuditNext]_auditVars
             PROVE  AuditInv'
  OBVIOUS
<1>1. CASE UNCHANGED auditVars
  BY <1>1 DEF auditVars, AuditInv
<1>2. CASE AuditNext
  BY <1>2, AuditClickKeeps, AuditWorkKeeps DEF AuditNext
<1> QED
  BY <1>1, <1>2

LEMMA AuditInvariant == AuditSpec => []AuditInv
  BY AuditInitInv, AuditStep, PTL DEF AuditSpec

(* Types of the audit log: filters, fetches and exports have the shapes the    *)
(* code gives them.                                                            *)
THEOREM AuditTyped == AuditSpec => []AuditTypeOK
<1>1. AuditInv => AuditTypeOK
  BY DEF AuditInv, AuditTypeOK, ExportsOK, ViewOK, FetchOK, RequestOK
<1> QED
  BY <1>1, AuditInvariant, PTL

(* Behind listAuditEvents' offset cursor the pages on screen are the stream's  *)
(* from the first on, whatever fetches and navigations overlap.                *)
THEOREM PagesFollowStream == AuditSpec => []PagesArePrefix
<1>1. AuditInv => PagesArePrefix
  BY DEF AuditInv, ViewOK, PagesOK, PagesArePrefix
<1> QED
  BY <1>1, AuditInvariant, PTL

(* Nothing newer than what is on screen is left out: the sort and the pages    *)
(* together show every matching event down to the oldest that is loaded.       *)
THEOREM NewestFirst == AuditSpec => []NoNewerLeftOut
<1>1. AuditInv => NoNewerLeftOut
  <2> SUFFICES ASSUME AuditInv, NEW t \in AuditTabs, NEW e \in shown(view[t].pages),
                      NEW d \in Filtered(view[t].filter), Newer(d, e)
               PROVE  d \in shown(view[t].pages)
    BY DEF NoNewerLeftOut
  <2>1. PagesOK(view[t].pages, view[t].filter)
    BY DEF AuditInv, ViewOK
  <2> QED
    BY <2>1, ShownPrefix
<1> QED
  BY <1>1, AuditInvariant, PTL

(* requestAuditExport mints one export per click, however often the request is *)
(* delivered, and the notice names an export of the tenant it was asked for.   *)
THEOREM ExportsOnce == AuditSpec => []ExportPerClick
<1>1. AuditInv => ExportPerClick
  BY DEF AuditInv, ExportsOK, ViewOK, ExportPerClick
<1> QED
  BY <1>1, AuditInvariant, PTL

-----------------------------------------------------------------------------
(* The two lists together *)

(* Each list goes its own way: what the operators do on one leaves the other  *)
(* as it was (reconcile/server.ts and audit/server.ts share no state).        *)
THEOREM ListsApart == Spec => RunsSpec /\ AuditSpec
<1>1. Init => RunsInit /\ AuditInit
  BY DEF Init
<1>2. [Next]_vars => [RunsNext]_runsVars /\ [AuditNext]_auditVars
  <2> USE DEF runsVars, auditVars
  <2>1. ASSUME UNCHANGED vars PROVE UNCHANGED runsVars /\ UNCHANGED auditVars
    BY <2>1 DEF vars
  <2>2. ASSUME Next PROVE [RunsNext]_runsVars /\ [AuditNext]_auditVars
    BY <2>2 DEF Next
  <2> QED
    BY <2>1, <2>2
<1> QED
  BY <1>1, <1>2, PTL DEF Spec, RunsSpec, AuditSpec

(* So the console keeps every promise of both lists.                          *)
THEOREM ListsKeepPromises ==
    Spec => [](/\ LiveMarksAgree /\ RetryReplaysAll /\ SettledIsFinal /\ NoRowSkipped
               /\ PagesArePrefix /\ NoNewerLeftOut)
BY ListsApart, MarksAgree, RetriesReplayAll, SettledStays, RowsComplete, PagesFollowStream, NewestFirst, PTL
=============================================================================
