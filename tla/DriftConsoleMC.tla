---------------------------- MODULE DriftConsoleMC ----------------------------
(* One operator on the platform page and one on a tenant's page, over a       *)
(* finding healed by hand and one of low severity, which is acknowledged.     *)
EXTENDS DriftConsole, TLC

CONSTANTS globex, f1, f2, platformOp, tenantOp

MCTenantOf == f1 :> globex @@ f2 :> globex
MCSeverityOf == f1 :> "high" @@ f2 :> "low"
MCScopeOf == platformOp :> None @@ tenantOp :> globex
MCFilterInputs == [tenant : {globex}, severity : {"low", "unknown"}]
MCUses == platformOp :> {"drawer", "row", "resync"} @@ tenantOp :> {"table", "focus", "filter"}
====
