--------------------------- MODULE TenantConsoleMC ----------------------------
(* One operator creates tenants while another walks the list.                 *)
EXTENDS TenantConsole, TLC

MCPages == {"/dashboard", "/tenants", "/tenants/new", "/tenants/[slug]"}
MCPhaseOf == "acme" :> "Ready" @@ "globex" :> "Ready" @@ "wayne" :> "Failed"
MCDerive == "Vertex" :> "vertex" @@ "Globex" :> "globex"
MCMatches == "x" :> {"globex", "vertex", "apex"}
MCUses == "ann" :> {"/tenants/new", "slug", "source", "lossy"}
          @@ "bob" :> {"/tenants", "search", "wait", "expiry", "logout", "script", "link"}
MCStartsAt == "ann" :> {"/tenants/new"} @@ "bob" :> {"/tenants", "/"}
MCFixtures == <<"acme", "globex", "wayne">>
===============================================================================
