---------------------------- MODULE SpecHistory -----------------------------
(***************************************************************************)
(* What the write path promises, without requests, tables or indexes: each *)
(* slug owns one linear history of specs.  A history starts once, grows by *)
(* one version at a time, never changes behind its end, and never repeats  *)
(* its last version.                                                       *)
(***************************************************************************)
EXTENDS Naturals, Sequences

CONSTANTS Slug, Body

VARIABLE history      \* [Slug -> Seq(Body)]; position g is generation g

Init == history = [s \in Slug |-> <<>>]

Create(s, b) ==
  /\ history[s] = <<>>
  /\ history' = [history EXCEPT ![s] = <<b>>]

Update(s, b) ==
  /\ history[s] # <<>>
  /\ history[s][Len(history[s])] # b
  /\ history' = [history EXCEPT ![s] = Append(@, b)]

Next == \E s \in Slug, b \in Body : Create(s, b) \/ Update(s, b)

Spec == Init /\ [][Next]_history
=============================================================================
