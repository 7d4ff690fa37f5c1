--------------------------- MODULE TenantLifecycle --------------------------
(***************************************************************************)
(* The lifecycle of one tenant: the TenantStatus aggregate, the transition *)
(* table of TenantPhaseTransitions and the retry budget of BackoffPolicy,  *)
(* with several workers on one tenant_status row.                          *)
(*                                                                         *)
(* A worker loads the row, calls methods of the aggregate on its tracked   *)
(* copy and saves it.  The save carries the xmin of the load: it is        *)
(* refused when another save came in between.  Which methods a worker      *)
(* calls, and in which order, is left open: the aggregate itself has to    *)
(* refuse what is wrong.                                                   *)
(*                                                                         *)
(* NextAttemptAt is abstracted to whether it is set, ObservedGeneration to *)
(* the generation last reported to MarkReady.                              *)
(***************************************************************************)
EXTENDS Naturals

CONSTANTS Worker,
          Generation,    \* generations a run may report as observed
          MaxAttempts,   \* BackoffPolicy.MaxAttempts
          MaxFailures    \* bound: failures in a row that are counted

ASSUME LifecycleAssumption ==
  /\ Generation \subseteq Nat /\ MaxAttempts \in Nat \ {0} /\ MaxFailures \in Nat

VARIABLES row,     \* the tenant_status row
          copy,    \* [Worker -> tracked entity], NoCopy = not loaded
          fresh,   \* [Worker -> BOOLEAN]: the row still has the xmin of the load
          tally,   \* history: per copy, the failures and convergences called on it
          failed   \* history: runs that failed since the last convergence, by commits

vars == <<row, copy, fresh, tally, failed>>
-----------------------------------------------------------------------------
Phases == {"Pending", "Planning", "Applying", "Ready", "Degraded", "Failed",
           "Deleting", "Deleted"}

(* TenantPhaseTransitions.Allowed.                                         *)
LegalFrom(phase) ==
  CASE phase = "Pending"  -> {"Planning"}
    [] phase = "Planning" -> {"Applying", "Ready"}
    [] phase = "Applying" -> {"Ready", "Degraded"}
    [] phase = "Ready"    -> {"Planning", "Deleting"}
    [] phase = "Degraded" -> {"Planning", "Failed", "Deleting"}
    [] phase = "Failed"   -> {"Planning"}
    [] phase = "Deleting" -> {"Deleted", "Degraded"}
    [] phase = "Deleted"  -> {}

IsLegal(from, to) == to \in LegalFrom(from)

Statuses == [phase : Phases, observed : Nat, failures : Nat, scheduled : BOOLEAN]

(* TenantStatus.Create.                                                    *)
Created == [phase |-> "Pending", observed |-> 0, failures |-> 0, scheduled |-> FALSE]

NoCopy == [Created EXCEPT !.phase = "none"]

NoTally == [converged |-> FALSE, failures |-> 0]

AlwaysExhausted(failures) == TRUE  \* mutant: the budget is not looked at

IsExhausted(failures) == failures >= MaxAttempts
-----------------------------------------------------------------------------
(* The methods of the aggregate, on the copy of worker w.  A call refused  *)
(* by Transition or by the budget changes nothing: both come first.  The   *)
(* jitter of MarkDegraded is taken to be in [0,1), as DelayFor documents:  *)
(* any other throws after Phase and ConsecutiveFailures have changed.      *)

Mutate(w, to, s) ==
  /\ copy[w] # NoCopy
  /\ IsLegal(copy[w].phase, to)
  /\ copy' = [copy EXCEPT ![w] = [s EXCEPT !.phase = to]]
  /\ UNCHANGED <<row, fresh, failed>>

BeginPlanning(w) ==
  /\ Mutate(w, "Planning", [copy[w] EXCEPT !.scheduled = FALSE])
  /\ UNCHANGED tally

BeginApplying(w) == Mutate(w, "Applying", copy[w]) /\ UNCHANGED tally

MarkReady(w, g) ==
  /\ Mutate(w, "Ready", [copy[w] EXCEPT !.observed = g, !.failures = 0,
                                        !.scheduled = FALSE])
  /\ tally' = [tally EXCEPT ![w] = [converged |-> TRUE, failures |-> 0]]

MarkDegraded(w) ==
  /\ copy[w].failures < MaxFailures
  /\ Mutate(w, "Degraded", [copy[w] EXCEPT !.failures = @ + 1, !.scheduled = TRUE])
  /\ tally' = [tally EXCEPT ![w].failures = @ + 1]

MarkFailed(w) ==
  /\ IsExhausted(copy[w].failures)
  /\ Mutate(w, "Failed", [copy[w] EXCEPT !.scheduled = FALSE])
  /\ UNCHANGED tally

(* NextAttemptAt is left as it is.                                         *)
BeginDeleting(w) == Mutate(w, "Deleting", copy[w]) /\ UNCHANGED tally

MarkDeleted(w) ==
  /\ Mutate(w, "Deleted", [copy[w] EXCEPT !.scheduled = FALSE])
  /\ UNCHANGED tally
-----------------------------------------------------------------------------
(* Units of work.                                                          *)

Drop(w) ==
  /\ copy' = [copy EXCEPT ![w] = NoCopy]
  /\ tally' = [tally EXCEPT ![w] = NoTally]

Load(w) ==
  /\ copy[w] = NoCopy
  /\ copy' = [copy EXCEPT ![w] = row]
  /\ fresh' = [fresh EXCEPT ![w] = TRUE]
  /\ UNCHANGED <<row, tally, failed>>

IgnoreXmin(w) == TRUE  \* mutant: the concurrency token is not configured

(* UPDATE ... WHERE xmin = <the xmin of the load>.                         *)
XminMatches(w) == fresh[w]

Save(w) ==
  /\ copy[w] # NoCopy
  /\ XminMatches(w)
  /\ row' = copy[w]
  /\ fresh' = [v \in Worker |-> FALSE]
  /\ failed' = (IF tally[w].converged THEN 0 ELSE failed) + tally[w].failures
  /\ Drop(w)

(* DbUpdateConcurrencyException, a DomainException out of a method or the  *)
(* death of the worker: the unit of work is lost.                          *)
Discard(w) ==
  /\ copy[w] # NoCopy
  /\ Drop(w)
  /\ UNCHANGED <<row, fresh, failed>>
-----------------------------------------------------------------------------
Init ==
  /\ row = Created
  /\ copy = [w \in Worker |-> NoCopy]
  /\ fresh = [w \in Worker |-> FALSE]
  /\ tally = [w \in Worker |-> NoTally]
  /\ failed = 0

Next ==
  \E w \in Worker :
    \/ Load(w) \/ Save(w) \/ Discard(w)
    \/ BeginPlanning(w) \/ BeginApplying(w)
    \/ \E g \in Generation : MarkReady(w, g)
    \/ MarkDegraded(w) \/ MarkFailed(w)
    \/ BeginDeleting(w) \/ MarkDeleted(w)

Spec == Init /\ [][Next]_vars
-----------------------------------------------------------------------------
(* Correctness.                                                            *)

TypeOK ==
  /\ row \in Statuses
  /\ copy \in [Worker -> Statuses \cup {NoCopy}]
  /\ fresh \in [Worker -> BOOLEAN]
  /\ tally \in [Worker -> [converged : BOOLEAN, failures : Nat]]
  /\ failed \in Nat

Coherent(s) ==
  /\ s.phase = "Failed" => s.failures >= MaxAttempts /\ ~s.scheduled
  /\ s.phase = "Degraded" => s.failures >= 1 /\ s.scheduled
  /\ s.phase = "Ready" => s.failures = 0 /\ ~s.scheduled
  /\ s.phase \in {"Pending", "Planning", "Applying", "Deleted"} => ~s.scheduled
  /\ s.phase = "Pending" => s.failures = 0 /\ s.observed = 0

(* Whatever methods workers call in whatever order, a persisted status is  *)
(* one the lifecycle knows: Failed only after MaxAttempts failures in a    *)
(* row, a Degraded tenant always has its retry scheduled, a converged one  *)
(* neither failures nor a retry.                                           *)
StatusCoherent == Coherent(row)

(* No failure is lost or counted twice when workers race on the row: the   *)
(* persisted ConsecutiveFailures, on which the retry budget and Failed     *)
(* hang, is the number of failed runs committed since the last convergence *)
(* ("two workers racing on the same status row cannot silently clobber").  *)
NoFailureLost == row.failures = failed

(* Teardown is final: no worker that loaded the tenant before it was       *)
(* deleted brings it back.                                                 *)
DeletedIsFinal == [][row.phase = "Deleted" => row' = row]_vars
=============================================================================
