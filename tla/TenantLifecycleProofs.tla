------------------------ MODULE TenantLifecycleProofs -----------------------
(***************************************************************************)
(* Proofs about TenantLifecycle, for any set of workers, any retry budget  *)
(* and any bound on the failures counted.                                  *)
(***************************************************************************)
EXTENDS TenantLifecycle, TLAPS

(* What a copy knows of the row.  While the xmin of its load is current,   *)
(* the copy's failure count is the committed one plus what was called on   *)
(* it, and a copy of a deleted tenant is that tenant unchanged.            *)
CopyInv(w) ==
  copy[w] # NoCopy =>
    /\ Coherent(copy[w])
    /\ fresh[w] =>
         /\ copy[w].failures =
              (IF tally[w].converged THEN 0 ELSE failed) + tally[w].failures
         /\ row.phase = "Deleted" => copy[w] = row

(* A copy that is not loaded has an empty tally.                           *)
TallyInv(w) == copy[w] = NoCopy => tally[w] = NoTally

(* The inductive invariant behind StatusCoherent, NoFailureLost and        *)
(* DeletedIsFinal.                                                         *)
Inv ==
  /\ TypeOK
  /\ StatusCoherent
  /\ NoFailureLost
  /\ \A w \in Worker : CopyInv(w) /\ TallyInv(w)
-----------------------------------------------------------------------------
(* NoCopy is not a status: its phase is none of the eight.                 *)
LEMMA NoCopyIsNoStatus == NoCopy \notin Statuses /\ Created \in Statuses
  BY DEF NoCopy, Created, Statuses, Phases

(* The typing of TenantStatus rows and copies is preserved by every step.  *)
LEMMA TypeStep == TypeOK /\ [Next]_vars => TypeOK'
<1> SUFFICES ASSUME TypeOK, [Next]_vars PROVE TypeOK'
  OBVIOUS
<1> USE LifecycleAssumption
<1>1. ASSUME NEW w \in Worker, NEW to \in Phases, NEW s \in Statuses, Mutate(w, to, s)
      PROVE  /\ row' \in Statuses
             /\ copy' \in [Worker -> Statuses \cup {NoCopy}]
             /\ fresh' \in [Worker -> BOOLEAN]
             /\ failed' \in Nat
  BY <1>1 DEF Mutate, TypeOK, Statuses
<1>2. ASSUME NEW w \in Worker, copy[w] # NoCopy
      PROVE  copy[w] \in Statuses
  BY <1>2 DEF TypeOK
<1>3. CASE UNCHANGED vars
  BY <1>3 DEF vars, TypeOK
<1>4. ASSUME NEW w \in Worker, BeginPlanning(w) PROVE TypeOK'
  <2>1. [copy[w] EXCEPT !.scheduled = FALSE] \in Statuses
    BY <1>2, <1>4 DEF BeginPlanning, Mutate, Statuses
  <2> QED BY <1>1, <1>4, <2>1 DEF BeginPlanning, TypeOK, Phases
<1>5. ASSUME NEW w \in Worker, BeginApplying(w) PROVE TypeOK'
  <2>1. copy[w] \in Statuses
    BY <1>2, <1>5 DEF BeginApplying, Mutate
  <2> QED BY <1>1, <1>5, <2>1 DEF BeginApplying, TypeOK, Phases
<1>6. ASSUME NEW w \in Worker, NEW g \in Generation, MarkReady(w, g) PROVE TypeOK'
  <2>1. [copy[w] EXCEPT !.observed = g, !.failures = 0, !.scheduled = FALSE] \in Statuses
    BY <1>2, <1>6 DEF MarkReady, Mutate, Statuses
  <2> QED BY <1>1, <1>6, <2>1 DEF MarkReady, TypeOK, Phases
<1>7. ASSUME NEW w \in Worker, MarkDegraded(w) PROVE TypeOK'
  <2>0. copy[w] \in Statuses
    BY <1>2, <1>7 DEF MarkDegraded, Mutate
  <2>1. [copy[w] EXCEPT !.failures = @ + 1, !.scheduled = TRUE] \in Statuses
    <3>1. ASSUME NEW s \in Statuses, NEW n \in Nat
          PROVE  [s EXCEPT !.failures = n, !.scheduled = TRUE] \in Statuses
      BY DEF Statuses
    <3>2. copy[w].failures + 1 \in Nat
      BY <2>0 DEF Statuses
    <3> QED BY <2>0, <3>1, <3>2
  <2>2. tally' \in [Worker -> [converged : BOOLEAN, failures : Nat]]
    BY <1>7 DEF MarkDegraded, TypeOK
  <2> QED BY <1>1, <1>7, <2>1, <2>2 DEF MarkDegraded, TypeOK, Phases
<1>8. ASSUME NEW w \in Worker, MarkFailed(w) PROVE TypeOK'
  <2>1. [copy[w] EXCEPT !.scheduled = FALSE] \in Statuses
    BY <1>2, <1>8 DEF MarkFailed, Mutate, Statuses
  <2> QED BY <1>1, <1>8, <2>1 DEF MarkFailed, TypeOK, Phases
<1>9. ASSUME NEW w \in Worker, BeginDeleting(w) PROVE TypeOK'
  <2>1. copy[w] \in Statuses
    BY <1>2, <1>9 DEF BeginDeleting, Mutate
  <2> QED BY <1>1, <1>9, <2>1 DEF BeginDeleting, TypeOK, Phases
<1>10. ASSUME NEW w \in Worker, MarkDeleted(w) PROVE TypeOK'
  <2>1. [copy[w] EXCEPT !.scheduled = FALSE] \in Statuses
    BY <1>2, <1>10 DEF MarkDeleted, Mutate, Statuses
  <2> QED BY <1>1, <1>10, <2>1 DEF MarkDeleted, TypeOK, Phases
<1>11. ASSUME NEW w \in Worker, Load(w) PROVE TypeOK'
  BY <1>11 DEF Load, TypeOK
<1>12. ASSUME NEW w \in Worker, Save(w) PROVE TypeOK'
  BY <1>2, <1>12 DEF Save, Drop, NoTally, TypeOK
<1>13. ASSUME NEW w \in Worker, Discard(w) PROVE TypeOK'
  BY <1>13 DEF Discard, Drop, NoTally, TypeOK
<1> QED
  BY <1>3, <1>4, <1>5, <1>6, <1>7, <1>8, <1>9, <1>10, <1>11, <1>12, <1>13 DEF Next
-----------------------------------------------------------------------------
(* A method call disturbs only the caller's copy, so it keeps the          *)
(* invariant when the new copy is coherent and its failure count matches   *)
(* its tally.  No method is legal on a current copy of a deleted tenant.   *)
LEMMA MutateKeepsInv ==
  ASSUME NEW w \in Worker, NEW to \in Phases, NEW s \in Statuses,
         Inv, TypeOK', Mutate(w, to, s),
         \A v \in Worker : v # w => tally'[v] = tally[v],
         Coherent(copy'[w]),
         fresh[w] => copy'[w].failures =
                       (IF tally'[w].converged THEN 0 ELSE failed) + tally'[w].failures
  PROVE  Inv'
<1>1. /\ row' = row /\ fresh' = fresh /\ failed' = failed
      /\ copy'[w] \in Statuses /\ copy'[w] # NoCopy
      /\ \A v \in Worker : v # w => copy'[v] = copy[v]
  BY NoCopyIsNoStatus DEF Mutate, Inv, TypeOK, Statuses
<1>2. ~(fresh[w] /\ row.phase = "Deleted")
  <2> SUFFICES ASSUME fresh[w], row.phase = "Deleted" PROVE FALSE
    OBVIOUS
  <2>1. copy[w].phase = "Deleted"
    BY DEF Inv, CopyInv, Mutate
  <2> QED BY <2>1 DEF Mutate, IsLegal, LegalFrom
<1>3. StatusCoherent' /\ NoFailureLost'
  BY <1>1 DEF Inv, StatusCoherent, NoFailureLost, Coherent
<1>4. CopyInv(w)' /\ TallyInv(w)'
  BY <1>1, <1>2 DEF CopyInv, TallyInv, Coherent
<1>5. ASSUME NEW v \in Worker, v # w PROVE CopyInv(v)' /\ TallyInv(v)'
  <2>1. CopyInv(v) /\ TallyInv(v)
    BY DEF Inv
  <2> QED BY <1>1, <1>5, <2>1 DEF CopyInv, TallyInv, Coherent
<1> QED BY <1>3, <1>4, <1>5 DEF Inv

(* The invariant is inductive: one step per method, then the units of work. *)
LEMMA InvStep == Inv /\ [Next]_vars => Inv'
<1> SUFFICES ASSUME Inv, [Next]_vars PROVE Inv'
  OBVIOUS
<1> USE LifecycleAssumption
<1>1. TypeOK /\ TypeOK'
  BY TypeStep DEF Inv
<1>2. CASE UNCHANGED vars
  BY <1>2 DEF vars, Inv, TypeOK, StatusCoherent, NoFailureLost, CopyInv, TallyInv, Coherent
<1>3. ASSUME NEW w \in Worker, copy[w] # NoCopy
      PROVE  copy[w] \in Statuses /\ Coherent(copy[w])
             /\ (fresh[w] => copy[w].failures =
                   (IF tally[w].converged THEN 0 ELSE failed) + tally[w].failures)
  BY <1>1, <1>3 DEF Inv, TypeOK, CopyInv
<1>4. ASSUME NEW w \in Worker, BeginPlanning(w) PROVE Inv'
  <2>1. copy[w] # NoCopy /\ copy[w] \in Statuses /\ tally' = tally
    BY <1>3, <1>4 DEF BeginPlanning, Mutate
  <2>2. [copy[w] EXCEPT !.scheduled = FALSE] \in Statuses
    BY <2>1 DEF Statuses
  <2>3. copy'[w] = [copy[w] EXCEPT !.phase = "Planning", !.scheduled = FALSE]
    BY <1>1, <1>4, <2>1 DEF BeginPlanning, Mutate, TypeOK, Statuses
  <2>4. Coherent(copy'[w]) /\ copy'[w].failures = copy[w].failures
    BY <2>1, <2>3 DEF Coherent, Statuses
  <2> QED BY <1>1, <1>3, <1>4, <2>1, <2>2, <2>4, MutateKeepsInv DEF BeginPlanning, Phases
<1>5. ASSUME NEW w \in Worker, BeginApplying(w) PROVE Inv'
  <2>1. copy[w] # NoCopy /\ copy[w] \in Statuses /\ tally' = tally
        /\ copy[w].phase = "Planning"
    BY <1>3, <1>5 DEF BeginApplying, Mutate, IsLegal, LegalFrom, Statuses, Phases
  <2>3. copy'[w] = [copy[w] EXCEPT !.phase = "Applying"]
    BY <1>1, <1>5, <2>1 DEF BeginApplying, Mutate, TypeOK, Statuses
  <2>4. Coherent(copy'[w]) /\ copy'[w].failures = copy[w].failures
    BY <1>3, <2>1, <2>3 DEF Coherent, Statuses
  <2> QED BY <1>1, <1>3, <1>5, <2>1, <2>4, MutateKeepsInv DEF BeginApplying, Phases
<1>6. ASSUME NEW w \in Worker, NEW g \in Generation, MarkReady(w, g) PROVE Inv'
  <2> DEFINE s == [copy[w] EXCEPT !.observed = g, !.failures = 0, !.scheduled = FALSE]
  <2>1. copy[w] # NoCopy /\ copy[w] \in Statuses
    BY <1>3, <1>6 DEF MarkReady, Mutate
  <2>2. s \in Statuses
    BY <2>1 DEF Statuses
  <2>3. copy'[w] = [s EXCEPT !.phase = "Ready"]
    BY <1>1, <1>6, <2>1 DEF MarkReady, Mutate, TypeOK, Statuses
  <2>4. Coherent(copy'[w]) /\ copy'[w].failures = 0
    BY <2>1, <2>3 DEF Coherent, Statuses
  <2>5. /\ tally'[w] = [converged |-> TRUE, failures |-> 0]
        /\ \A v \in Worker : v # w => tally'[v] = tally[v]
    BY <1>1, <1>6 DEF MarkReady, TypeOK
  <2>6. Mutate(w, "Ready", s)
    BY <1>6 DEF MarkReady
  <2> QED BY <1>1, <2>2, <2>4, <2>5, <2>6, MutateKeepsInv DEF Phases
<1>7. ASSUME NEW w \in Worker, MarkDegraded(w) PROVE Inv'
  <2> DEFINE s == [copy[w] EXCEPT !.failures = @ + 1, !.scheduled = TRUE]
  <2>1. copy[w] # NoCopy /\ copy[w] \in Statuses /\ copy[w].failures \in Nat
    BY <1>3, <1>7 DEF MarkDegraded, Mutate, Statuses
  <2>2. copy[w].failures + 1 \in Nat
    BY <2>1
  <2>3. s \in Statuses /\ s.failures = copy[w].failures + 1 /\ s.scheduled
    <3>1. ASSUME NEW c \in Statuses, NEW n \in Nat
          PROVE  LET d == [c EXCEPT !.failures = n, !.scheduled = TRUE]
                 IN  d \in Statuses /\ d.failures = n /\ d.scheduled
      BY DEF Statuses
    <3> QED BY <2>1, <2>2, <3>1
  <2>4. Mutate(w, "Degraded", s)
    BY <1>7 DEF MarkDegraded
  <2> HIDE DEF s
  <2>5. /\ copy'[w].phase = "Degraded" /\ copy'[w].scheduled
        /\ copy'[w].failures = copy[w].failures + 1
    BY <1>1, <2>3, <2>4 DEF Mutate, TypeOK, Statuses
  <2>6. Coherent(copy'[w])
    BY <2>1, <2>5 DEF Coherent
  <2>7. /\ tally'[w].converged = tally[w].converged
        /\ tally'[w].failures = tally[w].failures + 1
        /\ \A v \in Worker : v # w => tally'[v] = tally[v]
    BY <1>1, <1>7 DEF MarkDegraded, TypeOK
  <2>8. fresh[w] => copy'[w].failures =
          (IF tally'[w].converged THEN 0 ELSE failed) + tally'[w].failures
    BY <1>1, <1>3, <2>1, <2>5, <2>7 DEF TypeOK
  <2> QED BY <1>1, <2>3, <2>4, <2>6, <2>7, <2>8, MutateKeepsInv DEF Phases
<1>8. ASSUME NEW w \in Worker, MarkFailed(w) PROVE Inv'
  <2>1. copy[w] # NoCopy /\ copy[w] \in Statuses /\ tally' = tally
    BY <1>3, <1>8 DEF MarkFailed, Mutate
  <2>2. [copy[w] EXCEPT !.scheduled = FALSE] \in Statuses
    BY <2>1 DEF Statuses
  <2>3. copy'[w] = [copy[w] EXCEPT !.phase = "Failed", !.scheduled = FALSE]
    BY <1>1, <1>8, <2>1 DEF MarkFailed, Mutate, TypeOK, Statuses
  <2>4. Coherent(copy'[w]) /\ copy'[w].failures = copy[w].failures
    BY <1>8, <2>1, <2>3 DEF MarkFailed, IsExhausted, Coherent, Statuses
  <2> QED BY <1>1, <1>3, <1>8, <2>1, <2>2, <2>4, MutateKeepsInv DEF MarkFailed, Phases
<1>9. ASSUME NEW w \in Worker, BeginDeleting(w) PROVE Inv'
  <2>1. copy[w] # NoCopy /\ copy[w] \in Statuses /\ tally' = tally
    BY <1>3, <1>9 DEF BeginDeleting, Mutate
  <2>3. copy'[w] = [copy[w] EXCEPT !.phase = "Deleting"]
    BY <1>1, <1>9, <2>1 DEF BeginDeleting, Mutate, TypeOK, Statuses
  <2>4. Coherent(copy'[w]) /\ copy'[w].failures = copy[w].failures
    BY <2>1, <2>3 DEF Coherent, Statuses
  <2> QED BY <1>1, <1>3, <1>9, <2>1, <2>4, MutateKeepsInv DEF BeginDeleting, Phases
<1>10. ASSUME NEW w \in Worker, MarkDeleted(w) PROVE Inv'
  <2>1. copy[w] # NoCopy /\ copy[w] \in Statuses /\ tally' = tally
    BY <1>3, <1>10 DEF MarkDeleted, Mutate
  <2>2. [copy[w] EXCEPT !.scheduled = FALSE] \in Statuses
    BY <2>1 DEF Statuses
  <2>3. copy'[w] = [copy[w] EXCEPT !.phase = "Deleted", !.scheduled = FALSE]
    BY <1>1, <1>10, <2>1 DEF MarkDeleted, Mutate, TypeOK, Statuses
  <2>4. Coherent(copy'[w]) /\ copy'[w].failures = copy[w].failures
    BY <2>1, <2>3 DEF Coherent, Statuses
  <2> QED BY <1>1, <1>3, <1>10, <2>1, <2>2, <2>4, MutateKeepsInv DEF MarkDeleted, Phases
<1>11. ASSUME NEW w \in Worker, Load(w) PROVE Inv'
  <2>1. /\ row' = row /\ failed' = failed /\ tally' = tally
        /\ copy'[w] = row /\ fresh'[w] = TRUE /\ tally[w] = NoTally
        /\ \A v \in Worker : v # w => copy'[v] = copy[v] /\ fresh'[v] = fresh[v]
    BY <1>1, <1>11 DEF Load, TypeOK, Inv, TallyInv
  <2>2. StatusCoherent' /\ NoFailureLost'
    BY <2>1 DEF Inv, StatusCoherent, NoFailureLost, Coherent
  <2>3. row # NoCopy /\ row.failures \in Nat
    BY <1>1, NoCopyIsNoStatus DEF TypeOK, Statuses
  <2>4. CopyInv(w)' /\ TallyInv(w)'
    BY <2>1, <2>3 DEF Inv, CopyInv, TallyInv, NoTally, StatusCoherent, NoFailureLost, Coherent
  <2>5. ASSUME NEW v \in Worker, v # w PROVE CopyInv(v)' /\ TallyInv(v)'
    BY <2>1, <2>5 DEF Inv, CopyInv, TallyInv, Coherent
  <2> QED BY <1>1, <2>2, <2>4, <2>5 DEF Inv
<1>12. ASSUME NEW w \in Worker, Save(w) PROVE Inv'
  <2>1. /\ copy[w] # NoCopy /\ fresh[w] /\ row' = copy[w]
        /\ failed' = (IF tally[w].converged THEN 0 ELSE failed) + tally[w].failures
        /\ copy'[w] = NoCopy /\ tally'[w] = NoTally
        /\ \A v \in Worker : ~fresh'[v]
        /\ \A v \in Worker : v # w => copy'[v] = copy[v] /\ tally'[v] = tally[v]
    BY <1>1, <1>12 DEF Save, XminMatches, Drop, TypeOK
  <2>2. StatusCoherent' /\ NoFailureLost'
    BY <1>3, <2>1 DEF StatusCoherent, NoFailureLost, Coherent
  <2>3. ASSUME NEW v \in Worker PROVE CopyInv(v)' /\ TallyInv(v)'
    BY <2>1 DEF Inv, CopyInv, TallyInv, Coherent
  <2> QED BY <1>1, <2>2, <2>3 DEF Inv
<1>13. ASSUME NEW w \in Worker, Discard(w) PROVE Inv'
  <2>1. /\ row' = row /\ failed' = failed /\ fresh' = fresh
        /\ copy'[w] = NoCopy /\ tally'[w] = NoTally
        /\ \A v \in Worker : v # w => copy'[v] = copy[v] /\ tally'[v] = tally[v]
    BY <1>1, <1>13 DEF Discard, Drop, TypeOK
  <2>2. StatusCoherent' /\ NoFailureLost'
    BY <2>1 DEF Inv, StatusCoherent, NoFailureLost, Coherent
  <2>3. ASSUME NEW v \in Worker PROVE CopyInv(v)' /\ TallyInv(v)'
    BY <2>1 DEF Inv, CopyInv, TallyInv, Coherent
  <2> QED BY <1>1, <2>2, <2>3 DEF Inv
<1> QED
  BY <1>2, <1>4, <1>5, <1>6, <1>7, <1>8, <1>9, <1>10, <1>11, <1>12, <1>13 DEF Next

(* A freshly created tenant satisfies the invariant: no copies are loaded. *)
LEMMA InvInit == Init => Inv
  BY NoCopyIsNoStatus
     DEF Init, Inv, TypeOK, StatusCoherent, NoFailureLost, CopyInv, TallyInv,
         Coherent, Created, NoTally

(* The inductive invariant holds throughout.                               *)
THEOREM Invariance == Spec => []Inv
  BY InvInit, InvStep, PTL DEF Spec

(* Type correctness of the status row, the copies and the counters.        *)
THEOREM TypeCorrect == Spec => []TypeOK
<1>1. Inv => TypeOK
  BY DEF Inv
<1> QED BY Invariance, <1>1, PTL

(* Every persisted TenantStatus is one the lifecycle knows: Failed is      *)
(* earned, Degraded has its retry, Ready has neither failures nor retry.   *)
THEOREM StatusAlwaysCoherent == Spec => []StatusCoherent
<1>1. Inv => StatusCoherent
  BY DEF Inv
<1> QED BY Invariance, <1>1, PTL

(* The xmin token loses no failure: ConsecutiveFailures is the number of   *)
(* failed runs committed since the last convergence.                       *)
THEOREM FailuresNeverLost == Spec => []NoFailureLost
<1>1. Inv => NoFailureLost
  BY DEF Inv
<1> QED BY Invariance, <1>1, PTL

(* A deleted tenant stays as it is, whatever copies of it workers hold.    *)
THEOREM DeletionFinal == Spec => DeletedIsFinal
<1>1. Inv /\ [Next]_vars => [row.phase = "Deleted" => row' = row]_vars
  <2> SUFFICES ASSUME Inv, Next, row.phase = "Deleted" PROVE row' = row
    BY DEF vars
  <2>1. ASSUME NEW w \in Worker, Save(w) PROVE row' = row
    BY <2>1 DEF Save, XminMatches, Inv, CopyInv
  <2> QED
    BY <2>1 DEF Next, Load, Discard, BeginPlanning, BeginApplying, MarkReady, MarkDegraded,
                MarkFailed, BeginDeleting, MarkDeleted, Mutate
<1> QED BY Invariance, <1>1, PTL DEF Spec, DeletedIsFinal
=============================================================================
