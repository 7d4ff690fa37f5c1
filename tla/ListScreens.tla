------------------------------ MODULE ListScreens ------------------------------
(***************************************************************************)
(* The platform's two lists put together: reconcile runs and audit events. *)
(* Their stores are separate maps of one process and neither reads the     *)
(* other, so steps of the two commute: a behaviour is the tabs at work on  *)
(* one of the lists while the other rests.                                 *)
(***************************************************************************)
EXTENDS RunsConsole, AuditConsole

VARIABLE listed     \* the list the operators work on

vars == <<listed, runsVars, auditVars>>

Init == listed \in {"runs", "audit"} /\ RunsInit /\ AuditInit

Next ==
    /\ UNCHANGED listed
    /\ \/ listed = "runs" /\ RunsNext /\ UNCHANGED auditVars
       \/ listed = "audit" /\ AuditNext /\ UNCHANGED runsVars

Spec == Init /\ [][Next]_vars
=============================================================================
