---------------------------- MODULE SpecConsoleMC ----------------------------
(* Two editors of one tenant, one of them also on the history and run pages.  *)
(* The seeds: a run that settled, and one in flight whose script never ends   *)
(* it (the fixtures have both).                                               *)
EXTENDS SpecConsole, TLC

CONSTANTS t1, t2, a, b, bad

SettledRun == [finished |-> TRUE, step |-> 0, script |-> <<>>, retryOf |-> 0,
               changes |-> [c \in 1..Changes |-> "applied"]]
OpenRun == [SettledRun EXCEPT !.finished = FALSE,
              !.script = <<[changes |-> <<>>, finish |-> FALSE]>>]
MCSeedRuns == <<SettledRun, OpenRun>>
MCSeedBodies == <<a, b>>
MCUses == t1 :> {"edit", "validate", "focus", "resent"} @@ t2 :> {"restore", "runs", "resent"}
==============================================================================
