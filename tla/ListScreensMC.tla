---------------------------- MODULE ListScreensMC ----------------------------
(* Two tabs on each list, one on all tenants and one on a tenant.  Four        *)
(* fixture runs: settled without and with changes, deleting for good,          *)
(* applying.  Five audit events of two tenants, two of them at the same time,  *)
(* in pages of two.                                                            *)
EXTENDS ListScreens, TLC

Seed(ten, tr, o, changes, at, sp) ==
    [tenant |-> ten, trigger |-> tr, outcome |-> o, changeOutcomes |-> changes, attempt |-> at, special |-> sp]
MCRunSeeds ==
    << Seed("a", "resync", "Drift", <<>>, None, TRUE),
       Seed("b", "backoff", "Failed", <<"failed", "skipped">>, [n |-> 8, max |-> 8], FALSE),
       Seed("b", "delete", "Deleting", <<"applying">>, None, FALSE),
       Seed("a", "manual", "Applying", <<"applying", "pending">>, None, TRUE) >>

Step(changes, finish) == [changes |-> changes, finish |-> finish]
MCLiveScripts ==
    << <<>>, <<>>, <<Step(<<>>, None)>>,
       <<Step((1 :> "applied") @@ (2 :> "applying"), None), Step(2 :> "applied", None), Step(<<>>, "Applied")>> >>

MCScopeOf == [t \in Tabs |-> IF t = "t1" THEN None ELSE "a"]
MCTenantRuns == ("a" :> 31) @@ ("b" :> None)

RunLink(ten, tr, o, c, l) == [tenant |-> ten, trigger |-> tr, outcome |-> o, cursor |-> c, limit |-> l]
MCRunLinks == {RunLink(None, None, None, 4, 3), RunLink("b", "typo", None, None, None),
               RunLink(None, None, "Applying", 4, None)}
MCPills == {<<"tenant", "b">>, <<"tenant", None>>, <<"outcome", "Applying">>, <<"trigger", "manual">>}

Event(id, at, tenant, actor, action) == [id |-> id, at |-> at, tenant |-> tenant, actor |-> actor, action |-> action]
MCAuditEvents == {Event(1, 9, "a", "worker", "ReconcileDegraded"), Event(2, 7, "a", "ops", "SpecUpdated"),
                  Event(3, 7, "b", "worker", "DriftDetected"), Event(4, 3, "a", "worker", "ReconcileDegraded"),
                  Event(5, 8, "b", "ops", "SpecUpdated")}
MCAuditScope == [t \in AuditTabs |-> IF t = "t1" THEN NoValue ELSE "a"]
AuditLink(tenant, actor, action, event) == [tenant |-> tenant, actor |-> actor, action |-> action, event |-> event]
MCAuditLinks == {AuditLink(NoValue, NoValue, NoValue, 4), AuditLink("gone", NoValue, "SpecUpdated", NoValue),
                 AuditLink("b", "ghost", NoValue, NoValue)}
MCAuditPills == {<<"tenant", "b">>, <<"tenant", NoValue>>, <<"actor", "worker">>, <<"action", "SpecUpdated">>}
=============================================================================
