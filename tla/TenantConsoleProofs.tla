-------------------------- MODULE TenantConsoleProofs --------------------------
(***************************************************************************)
(* Invariants of the console's tenant pages, for any number of operators,  *)
(* tenants and pages and without the bounds of the TLC instance: no        *)
(* redirect loop, one tenant per slug, walks over the list that miss       *)
(* nothing, and slugs that were checked before they are submitted.         *)
(***************************************************************************)
EXTENDS TenantConsole, FiniteSetTheorems, WellFoundedInduction, TLAPS

-----------------------------------------------------------------------------
(* Part 1: redirects *)

Cookies == {"none", "live", "dead"}
Paths == Pages \cup {"/", "/login"}
Tab == [path : Paths, stage : {"proxy", "layout", "shown", "problem"},
        next : Paths \cup NextInputs \cup {None}, status : Int, hops : 0..2]

(* How many redirects may lie behind a tab, by where it is.  After one of     *)
(* them /login is only reached with a cookie that does not open, so the next  *)
(* step shows it.                                                             *)
Behind(t, cookie) ==
    /\ t.stage = "proxy" /\ t.path = "/login" => (t.hops = 0 \/ cookie # "live")
    /\ t.stage = "proxy" /\ t.path = "/" => t.hops = 0
    /\ t.stage = "proxy" /\ t.path \notin {"/", "/login"} => t.hops <= 1
    /\ t.stage = "layout" => t.path # "/login" /\ t.hops <= 1
    /\ t.stage = "layout" /\ t.path = "/" => t.hops = 0

SessionInv ==
    /\ tab \in [Operators -> Tab] /\ jar \in [Operators -> Cookies]
    /\ \A o \in Operators : Behind(tab[o], jar[o])

(* One operator's tab and cookie move; everybody else's stay. *)
LEMMA OneTabMoves ==
    ASSUME SessionInv, NEW o \in Operators, NEW t \in Tab, NEW cookie \in Cookies,
           tab' = [tab EXCEPT ![o] = t], jar' = [jar EXCEPT ![o] = cookie], Behind(t, cookie)
    PROVE  SessionInv'
<1>1. tab' \in [Operators -> Tab] /\ jar' \in [Operators -> Cookies]
  BY DEF SessionInv
<1>2. ASSUME NEW p \in Operators PROVE Behind(tab'[p], jar'[p])
  <2>1. CASE p = o
    BY <2>1 DEF SessionInv
  <2>2. CASE p # o
    <3>1. tab'[p] = tab[p] /\ jar'[p] = jar[p]
      BY <2>2 DEF SessionInv
    <3> QED
      BY <3>1 DEF SessionInv
  <2> QED
    BY <2>1, <2>2
<1> QED
  BY <1>1, <1>2 DEF SessionInv

(* A page opened by a link, a form or the address bar starts without redirects. *)
LEMMA OpeningKeeps ==
    ASSUME SessionInv, NEW o \in Operators, NEW path \in Paths, NEW next \in Paths \cup NextInputs \cup {None},
           NEW cookie \in Cookies, GoTo(o, path, next), jar' = [jar EXCEPT ![o] = cookie]
    PROVE  SessionInv'
<1> DEFINE t == At(path, next)
<1>1. t \in Tab
  BY DEF At, Tab
<1>2. Behind(t, cookie)
  BY DEF At, Behind
<1>3. tab' = [tab EXCEPT ![o] = t]
  BY DEF GoTo
<1> QED
  BY <1>1, <1>2, <1>3, OneTabMoves

(* The cookie stays as it is. *)
LEMMA SameCookie ==
    ASSUME SessionInv, NEW o \in Operators, UNCHANGED jar
    PROVE  jar[o] \in Cookies /\ jar' = [jar EXCEPT ![o] = jar[o]]
BY DEF SessionInv

LEMMA ProxyKeeps ==
    ASSUME SessionInv, NEW o \in Operators, proxy(o)
    PROVE  SessionInv'
<1> USE ConsoleSessionAssumption
<1>t. /\ tab[o] \in Tab /\ Behind(tab[o], jar[o]) /\ tab[o].stage = "proxy"
      /\ UNCHANGED jar /\ jar[o] \in Cookies /\ jar' = [jar EXCEPT ![o] = jar[o]]
  BY SameCookie DEF SessionInv, proxy
<1>1. CASE tab[o].path = "/login" /\ proxySession(o) /\ Redirect(o, "/dashboard", None)
  <2> DEFINE t == [At("/dashboard", None) EXCEPT !.hops = IF tab[o].hops = MaxHops THEN MaxHops ELSE tab[o].hops + 1]
  <2>1. tab[o].hops = 0
    BY <1>t, <1>1 DEF Behind, proxySession, openSession
  <2>2. t \in Tab /\ Behind(t, jar[o])
    BY <2>1 DEF At, Tab, Paths, Behind, MaxHops
  <2>3. tab' = [tab EXCEPT ![o] = t]
    BY <1>1 DEF Redirect
  <2> QED
    BY <2>2, <2>3, <1>t, OneTabMoves
<1>2. CASE tab[o].path = "/login" /\ ~proxySession(o) /\ tab' = [tab EXCEPT ![o].stage = "shown"]
  <2> DEFINE t == [tab[o] EXCEPT !.stage = "shown"]
  <2>1. t \in Tab /\ Behind(t, jar[o])
    BY <1>t DEF Tab, Behind
  <2> QED
    BY <2>1, <1>2, <1>t, OneTabMoves
<1>3. ASSUME tab[o].path # "/login", ~proxySession(o), Redirect(o, "/login", IF tab[o].path = "/" THEN None ELSE tab[o].path)
      PROVE  SessionInv'
  <2> DEFINE next == IF tab[o].path = "/" THEN None ELSE tab[o].path
             t == [At("/login", next) EXCEPT !.hops = IF tab[o].hops = MaxHops THEN MaxHops ELSE tab[o].hops + 1]
  <2>1. tab[o].hops \in 0..1 /\ jar[o] # "live" /\ next \in Paths \cup {None}
    BY <1>t, <1>3 DEF Behind, proxySession, openSession, Tab
  <2>2. t \in Tab /\ Behind(t, jar[o])
    BY <2>1 DEF At, Tab, Paths, Behind, MaxHops
  <2>3. tab' = [tab EXCEPT ![o] = t]
    BY <1>3 DEF Redirect
  <2> HIDE DEF t
  <2> QED
    BY <2>2, <2>3, <1>t, OneTabMoves
<1>4. CASE tab[o].path # "/login" /\ proxySession(o) /\ tab' = [tab EXCEPT ![o].stage = "layout"]
  <2> DEFINE t == [tab[o] EXCEPT !.stage = "layout"]
  <2>1. t \in Tab /\ Behind(t, jar[o])
    BY <1>t, <1>4 DEF Tab, Behind
  <2> QED
    BY <2>1, <1>4, <1>t, OneTabMoves
<1> QED
  BY <1>1, <1>2, <1>3, <1>4 DEF proxy

LEMMA HomeKeeps ==
    ASSUME SessionInv, NEW o \in Operators, Home(o)
    PROVE  SessionInv'
<1> USE ConsoleSessionAssumption
<1> DEFINE t == [At("/dashboard", None) EXCEPT !.hops = IF tab[o].hops = MaxHops THEN MaxHops ELSE tab[o].hops + 1]
<1>1. /\ UNCHANGED jar /\ jar[o] \in Cookies /\ jar' = [jar EXCEPT ![o] = jar[o]]
  BY SameCookie DEF Home
<1>2. tab[o].hops = 0
  BY DEF SessionInv, Behind, Home
<1>3. t \in Tab /\ Behind(t, jar[o])
  BY <1>2 DEF At, Tab, Paths, Behind, MaxHops
<1>4. tab' = [tab EXCEPT ![o] = t]
  BY DEF Home, Redirect
<1> QED
  BY <1>1, <1>3, <1>4, OneTabMoves

LEMMA LayoutKeeps ==
    ASSUME SessionInv, NEW o \in Operators, requireOperator(o)
    PROVE  SessionInv'
<1>1. /\ UNCHANGED jar /\ jar[o] \in Cookies /\ jar' = [jar EXCEPT ![o] = jar[o]]
      /\ tab[o] \in Tab /\ Behind(tab[o], jar[o]) /\ tab[o].stage = "layout" /\ tab[o].path # "/"
  BY SameCookie DEF SessionInv, requireOperator
<1>2. CASE currentOperator(o)
  <2> DEFINE t == [tab[o] EXCEPT !.stage = "shown"]
  <2>1. t \in Tab /\ Behind(t, jar[o])
    BY <1>1 DEF Tab, Behind
  <2>2. tab' = [tab EXCEPT ![o] = t]
    BY <1>2 DEF requireOperator
  <2> QED
    BY <2>1, <2>2, <1>1, OneTabMoves
<1>3. CASE ~currentOperator(o)
  <2> DEFINE t == [At("/login", None) EXCEPT !.hops = IF tab[o].hops = MaxHops THEN MaxHops ELSE tab[o].hops + 1]
  <2>1. tab[o].hops \in 0..1 /\ jar[o] # "live"
    BY <1>1, <1>3 DEF Behind, currentOperator, openSession, Tab
  <2>2. t \in Tab /\ Behind(t, jar[o])
    BY <2>1 DEF At, Tab, Paths, Behind, MaxHops
  <2>3. tab' = [tab EXCEPT ![o] = t]
    BY <1>3 DEF Redirect, requireOperator
  <2> QED
    BY <2>2, <2>3, <1>1, OneTabMoves
<1> QED
  BY <1>2, <1>3

LEMMA LoginKeeps ==
    ASSUME SessionInv, NEW o \in Operators, login(o)
    PROVE  SessionInv'
<1>1. CASE LoginRefusal # 0
  <2> DEFINE t == [tab[o] EXCEPT !.stage = "problem", !.status = LoginRefusal]
  <2>1. /\ UNCHANGED jar /\ jar[o] \in Cookies /\ jar' = [jar EXCEPT ![o] = jar[o]]
    BY <1>1, SameCookie DEF login
  <2>2. LoginRefusal \in Int
    BY DEF LoginRefusal
  <2>3. tab[o] \in Tab /\ tab' = [tab EXCEPT ![o] = t]
    BY <1>1 DEF login, SessionInv
  <2>4. t \in Tab /\ Behind(t, jar[o])
    BY <2>2, <2>3 DEF Tab, Behind
  <2> QED
    BY <2>1, <2>3, <2>4, OneTabMoves
<1>2. CASE LoginRefusal = 0
  <2>1. jar' = [jar EXCEPT ![o] = "live"] /\ GoTo(o, safeNextPath(tab[o].next), None)
    BY <1>2 DEF login
  <2>2. safeNextPath(tab[o].next) \in Paths
    BY ConsoleSessionAssumption DEF safeNextPath, Paths
  <2> QED
    BY <2>1, <2>2, OpeningKeeps DEF Cookies
<1> QED
  BY <1>1, <1>2

LEMMA ExpireKeeps ==
    ASSUME SessionInv, NEW o \in Operators, expire(o)
    PROVE  SessionInv'
<1>1. PICK cookie \in {"none", "dead"} : jar' = [jar EXCEPT ![o] = cookie]
  BY DEF expire
<1>2. tab[o] \in Tab /\ tab' = [tab EXCEPT ![o] = tab[o]]
  BY DEF expire, SessionInv
<1>3. Behind(tab[o], cookie)
  BY DEF SessionInv, Behind
<1> QED
  BY <1>1, <1>2, <1>3, OneTabMoves DEF Cookies

(* What Set changes is the page; the session is untouched. *)
LEMMA QuietKeeps ==
    ASSUME SessionInv, UNCHANGED sessionVars
    PROVE  SessionInv'
BY DEF SessionInv, sessionVars, Behind

(* The wizard's and the list's own actions: every one of them ends in Set. *)
LEMMA PageStepsQuiet ==
    ASSUME NEW o \in Operators,
           \/ debounce(o) \/ slugCheck(o) \/ postGuard(o) \/ postCreate(o) \/ answered(o)
           \/ timerFires(o) \/ poll(o) \/ loseAnswer(o) \/ nextPage(o) \/ prevPage(o) \/ submit(o)
           \/ fillSource(o) \/ resyncInterval(o)
           \/ (\E ph \in PhasePills \cup {None} : phasePill(o, ph))
           \/ (\E q \in Queries \cup {None} : schedule(o, q))
           \/ (\E n \in Names : displayName(o, n))
           \/ (\E s \in Slugs \cup {None} : editSlug(o, s))
           \/ (\E from \in Sources : startFrom(o, from))
           \/ (\E step \in {"identity", "authorization", "review"} : goTo(o, step))
           \/ (\E s \in Slugs, origin, key \in BOOLEAN : postDirect(o, s, origin, key))
    PROVE  UNCHANGED sessionVars
<1>1. ASSUME NEW p, Set(o, p) PROVE UNCHANGED sessionVars
  BY <1>1 DEF Set
<1>2. CASE debounce(o) \/ slugCheck(o) \/ answered(o) \/ submit(o) \/ fillSource(o) \/ resyncInterval(o)
  BY <1>1, <1>2 DEF debounce, slugCheck, answered, submit, fillSource, resyncInterval, Update
<1>3. CASE postGuard(o) \/ timerFires(o) \/ poll(o) \/ loseAnswer(o)
  BY <1>1, <1>3 DEF postGuard, timerFires, poll, loseAnswer
<1>4. CASE nextPage(o) \/ prevPage(o) \/ \E ph \in PhasePills \cup {None} : phasePill(o, ph)
  BY <1>1, <1>4 DEF nextPage, prevPage, phasePill, Go
<1>5. CASE \/ (\E n \in Names : displayName(o, n)) \/ (\E s \in Slugs \cup {None} : editSlug(o, s))
           \/ (\E from \in Sources : startFrom(o, from))
           \/ (\E step \in {"identity", "authorization", "review"} : goTo(o, step))
  BY <1>1, <1>5 DEF displayName, editSlug, startFrom, goTo, Update
<1>6. CASE \E q \in Queries \cup {None} : schedule(o, q)
  BY <1>1, <1>6 DEF schedule
<1>7. CASE postCreate(o) \/ \E s \in Slugs, origin, key \in BOOLEAN : postDirect(o, s, origin, key)
  BY <1>7 DEF postCreate, postDirect
<1> QED
  BY <1>2, <1>3, <1>4, <1>5, <1>6, <1>7

LEMMA SystemKeeps ==
    ASSUME SessionInv, NEW o \in Operators, System(o)
    PROVE  SessionInv'
<1>1. CASE proxy(o)
  BY <1>1, ProxyKeeps
<1>2. CASE Home(o)
  BY <1>2, HomeKeeps
<1>3. CASE Render(o)
  BY <1>3, LayoutKeeps DEF Render
<1>4. CASE arrive(o)
  <2>1. CASE proxySession(o)
    BY <1>4, <2>1, QuietKeeps DEF arrive, Set
  <2>2. CASE ~proxySession(o)
    <3>1. GoTo(o, "/login", "/tenants") /\ UNCHANGED jar
      BY <1>4, <2>2 DEF arrive
    <3> QED
      BY <3>1, SameCookie, OpeningKeeps, TenantConsoleAssumption DEF Paths
  <2> QED
    BY <2>1, <2>2
<1>5. CASE push(o)
  <2>1. GoTo(o, "/tenants/[slug]", None) /\ UNCHANGED jar
    BY <1>5 DEF push
  <2> QED
    BY <2>1, SameCookie, OpeningKeeps, TenantConsoleAssumption DEF Paths
<1>6. CASE debounce(o) \/ slugCheck(o) \/ postGuard(o) \/ postCreate(o) \/ answered(o)
  BY <1>6, PageStepsQuiet, QuietKeeps
<1> QED
  BY <1>1, <1>2, <1>3, <1>4, <1>5, <1>6 DEF System

LEMMA OperatorKeeps ==
    ASSUME SessionInv, NEW o \in Operators, OperatorStep(o)
    PROVE  SessionInv'
<1>1. CASE login(o)
  BY <1>1, LoginKeeps
<1>2. CASE logout(o)
  <2>1. GoTo(o, "/login", None) /\ jar' = [jar EXCEPT ![o] = "none"]
    BY <1>2 DEF logout
  <2> QED
    BY <2>1, OpeningKeeps DEF Paths, Cookies
<1>3. ASSUME NEW path \in Pages \cup {"/"}, visit(o, path) PROVE SessionInv'
  <2>1. GoTo(o, path, None) /\ UNCHANGED jar
    BY <1>3 DEF visit
  <2> QED
    BY <2>1, SameCookie, OpeningKeeps DEF Paths
<1>4. ASSUME NEW n \in NextInputs, visitLogin(o, n) PROVE SessionInv'
  <2>1. GoTo(o, "/login", n) /\ UNCHANGED jar
    BY <1>4 DEF visitLogin
  <2> QED
    BY <2>1, SameCookie, OpeningKeeps DEF Paths
<1>5. CASE \/ nextPage(o) \/ prevPage(o) \/ submit(o) \/ fillSource(o) \/ resyncInterval(o)
           \/ (\E ph \in PhasePills \cup {None} : phasePill(o, ph))
           \/ (\E q \in Queries \cup {None} : schedule(o, q))
           \/ (\E n \in Names : displayName(o, n))
           \/ (\E s \in Slugs \cup {None} : editSlug(o, s))
           \/ (\E from \in Sources : startFrom(o, from))
           \/ (\E step \in {"identity", "authorization", "review"} : goTo(o, step))
           \/ (\E s \in Slugs, origin, key \in BOOLEAN : postDirect(o, s, origin, key))
  BY <1>5, PageStepsQuiet, QuietKeeps
<1> QED
  BY <1>1, <1>2, <1>3, <1>4, <1>5 DEF OperatorStep

LEMMA SessionInvariant == Spec => []SessionInv
<1>1. Init => SessionInv
  <2> SUFFICES ASSUME Init PROVE SessionInv
    OBVIOUS
  <2>1. jar \in [Operators -> Cookies]
    BY DEF Init, SessionInit, Cookies
  <2>2. PICK start \in [Operators -> Pages \cup {"/"}] : tab = [o \in Operators |-> At(start[o], None)]
    BY DEF Init, SessionInit
  <2>3. ASSUME NEW o \in Operators PROVE tab[o] \in Tab /\ Behind(tab[o], jar[o])
    <3>1. tab[o] = At(start[o], None) /\ start[o] \in Paths
      BY <2>2 DEF Paths
    <3> QED
      BY <3>1 DEF At, Tab, Behind
  <2>4. tab \in [Operators -> Tab]
    BY <2>2, <2>3
  <2> QED
    BY <2>1, <2>3, <2>4 DEF SessionInv
<1>2. SessionInv /\ [Next]_vars => SessionInv'
  <2> SUFFICES ASSUME SessionInv, [Next]_vars PROVE SessionInv'
    OBVIOUS
  <2>1. ASSUME NEW o \in Operators, System(o) PROVE SessionInv'
    BY <2>1, SystemKeeps
  <2>2. ASSUME NEW o \in Operators, timerFires(o) \/ poll(o) \/ loseAnswer(o) PROVE SessionInv'
    BY <2>2, PageStepsQuiet, QuietKeeps
  <2>3. ASSUME NEW o \in Operators, expire(o) PROVE SessionInv'
    BY <2>3, ExpireKeeps
  <2>4. ASSUME NEW o \in Operators, OperatorStep(o) PROVE SessionInv'
    BY <2>4, OperatorKeeps
  <2>5. CASE restart
    BY <2>5, QuietKeeps DEF restart
  <2>6. CASE UNCHANGED vars
    BY <2>6, QuietKeeps DEF vars, sessionVars
  <2> QED
    BY <2>1, <2>2, <2>3, <2>4, <2>5, <2>6 DEF Next
<1> QED
  BY <1>1, <1>2, PTL DEF Spec

(* At most two redirects before a page is shown, for any operators, pages and *)
(* deployments, and however cookies expire between the proxy's check and the  *)
(* layout's (proxy.ts, server/auth/operator.ts).                              *)
THEOREM RedirectsEnd == Spec => []NoRedirectLoop
<1>1. SessionInv => NoRedirectLoop
  BY DEF SessionInv, NoRedirectLoop, Tab
<1> QED
  BY <1>1, SessionInvariant, PTL

-----------------------------------------------------------------------------
(* Part 2: slugs *)

(* OneTenantPerSlug in terms of the two parts of the list. *)
CreatedInv ==
    /\ created \in Seq(ValidSlugs)
    /\ \A i, j \in DOMAIN created : created[i] = created[j] => i = j
    /\ Ran(created) \cap Ran(Fixtures) = {}

(* Where the rows of the list come from. *)
LEMMA RowsOfList ==
    ASSUME CreatedInv
    PROVE  /\ DOMAIN allTenants = 1..(Len(created) + Len(Fixtures))
           /\ \A i \in 1..Len(created) : allTenants[i] = created[Len(created) + 1 - i]
           /\ \A i \in (Len(created) + 1)..(Len(created) + Len(Fixtures)) :
                 allTenants[i] = Fixtures[i - Len(created)]
<1> USE TenantConsoleAssumption
<1> DEFINE n == Len(created)
<1>1. created \in Seq(ValidSlugs) /\ n \in Nat /\ DOMAIN created = 1..n
  BY DEF CreatedInv
<1>2. Reversed(created) \in [1..n -> ValidSlugs]
  BY <1>1 DEF Reversed
<1>3. Reversed(created) \in Seq(ValidSlugs) /\ Len(Reversed(created)) = n
  BY <1>1, <1>2
<1>4. \A i \in 1..n : Reversed(created)[i] = created[n + 1 - i]
  BY <1>1 DEF Reversed
<1> DEFINE S == ValidSlugs \cup DOMAIN PhaseOf
           newest == Reversed(created)
<1>5. newest \in Seq(S) /\ Fixtures \in Seq(S)
  BY <1>3
<1> HIDE DEF newest, S
<1>6. /\ DOMAIN (newest \o Fixtures) = 1..(Len(newest) + Len(Fixtures))
      /\ \A i \in 1..Len(newest) : (newest \o Fixtures)[i] = newest[i]
      /\ \A i \in (Len(newest) + 1)..(Len(newest) + Len(Fixtures)) :
            (newest \o Fixtures)[i] = Fixtures[i - Len(newest)]
  BY <1>5
<1> QED
  BY <1>3, <1>4, <1>6 DEF allTenants, newest

(* A slug findAny does not find is neither a fixture's nor a created one's. *)
LEMMA FreeSlug ==
    ASSUME CreatedInv, NEW slug, ~findAny(slug)
    PROVE  slug \notin Ran(created) /\ slug \notin Ran(Fixtures)
<1> USE TenantConsoleAssumption, RowsOfList
<1>1. DOMAIN created = 1..Len(created) /\ Len(created) \in Nat /\ DOMAIN Fixtures = 1..Len(Fixtures) /\ Len(Fixtures) \in Nat
  BY DEF CreatedInv
<1>2. ASSUME NEW i \in DOMAIN created, created[i] = slug PROVE FALSE
  <2>1. Len(created) + 1 - i \in DOMAIN allTenants /\ allTenants[Len(created) + 1 - i] = slug
    BY <1>1, <1>2
  <2> QED
    BY <2>1 DEF findAny, Ran
<1>3. ASSUME NEW i \in DOMAIN Fixtures, Fixtures[i] = slug PROVE FALSE
  <2>1. Len(created) + i \in DOMAIN allTenants /\ allTenants[Len(created) + i] = slug
    BY <1>1, <1>3
  <2> QED
    BY <2>1 DEF findAny, Ran
<1> QED
  BY <1>2, <1>3 DEF Ran

LEMMA CreatedDistinct ==
    ASSUME CreatedInv
    PROVE  OneTenantPerSlug
<1> USE TenantConsoleAssumption, RowsOfList
<1> DEFINE n == Len(created)  all == allTenants
<1>1. DOMAIN created = 1..n /\ n \in Nat /\ DOMAIN Fixtures = 1..Len(Fixtures) /\ Len(Fixtures) \in Nat
  BY DEF CreatedInv
<1> SUFFICES ASSUME NEW i \in DOMAIN all, NEW j \in DOMAIN all, all[i] = all[j] PROVE i = j
  BY DEF OneTenantPerSlug
<1>2. CASE i <= n /\ j <= n
  <2>1. created[n + 1 - i] = created[n + 1 - j] /\ n + 1 - i \in DOMAIN created /\ n + 1 - j \in DOMAIN created
    BY <1>1, <1>2
  <2>2. n + 1 - i = n + 1 - j
    BY <2>1 DEF CreatedInv
  <2> QED
    BY <1>1, <2>2
<1>3. CASE i > n /\ j > n
  <2>1. Fixtures[i - n] = Fixtures[j - n] /\ i - n \in DOMAIN Fixtures /\ j - n \in DOMAIN Fixtures
    BY <1>1, <1>3
  <2>2. i - n = j - n
    BY <2>1
  <2> QED
    BY <1>1, <2>2
<1>4. ASSUME NEW k \in 1..n, NEW l \in (n + 1)..(n + Len(Fixtures)), all[k] = all[l] PROVE FALSE
  <2>1. created[n + 1 - k] \in Ran(created)
    BY <1>1 DEF Ran
  <2>2. Fixtures[l - n] \in Ran(Fixtures)
    <3>1. l - n \in 1..Len(Fixtures)
      <4> HIDE DEF n
      <4> QED
        BY <1>1
    <3> QED
      BY <1>1, <3>1 DEF Ran
  <2>3. created[n + 1 - k] = Fixtures[l - n]
    BY <1>4
  <2> QED
    BY <2>1, <2>2, <2>3 DEF CreatedInv
<1> QED
  BY <1>1, <1>2, <1>3, <1>4

(* Only createTenant, called by the wizard or by a script, and a restart      *)
(* change the list of created tenants.                                        *)
LEMMA WhoCreates ==
    ASSUME [Next]_vars
    PROVE  \/ UNCHANGED created
           \/ created' = <<>>
           \/ \E slug \in ValidSlugs : ~findAny(slug) /\ created' = Append(created, slug)
<1>0. ASSUME NEW body, createStatus(body) = 201 PROVE body.slug \in ValidSlugs /\ ~findAny(body.slug)
  BY <1>0 DEF createStatus
<1>1. ASSUME NEW o \in Operators, System(o)
      PROVE  UNCHANGED created \/ \E slug \in ValidSlugs : ~findAny(slug) /\ created' = Append(created, slug)
  <2>1. CASE postCreate(o)
    BY <2>1, <1>0 DEF postCreate, createTenant
  <2>2. CASE Render(o) \/ push(o) \/ arrive(o)
    BY <2>2 DEF Render, push, arrive, Set
  <2>3. CASE debounce(o) \/ slugCheck(o) \/ postGuard(o) \/ answered(o)
    BY <2>3 DEF debounce, slugCheck, postGuard, answered, Update, Set
  <2> QED
    BY <1>1, <2>1, <2>2, <2>3 DEF System
<1>2. ASSUME NEW o \in Operators, OperatorStep(o)
      PROVE  UNCHANGED created \/ \E slug \in ValidSlugs : ~findAny(slug) /\ created' = Append(created, slug)
  <2>1. ASSUME NEW s, NEW origin, NEW key, postDirect(o, s, origin, key)
        PROVE  UNCHANGED created \/ \E slug \in ValidSlugs : ~findAny(slug) /\ created' = Append(created, slug)
    <3> DEFINE body == [slug |-> s, resyncInRange |-> TRUE]
    <3>1. CASE createStatus(body) = 201
      <4>1. s \in ValidSlugs /\ ~findAny(s)
        BY <3>1, <1>0
      <4> QED
        BY <4>1, <2>1 DEF postDirect
    <3>2. CASE createStatus(body) # 201
      BY <2>1, <3>2 DEF postDirect
    <3> QED
      BY <3>1, <3>2
  <2>2. ASSUME NEW p, Set(o, p) PROVE UNCHANGED created
    BY <2>2 DEF Set
  <2>3. CASE nextPage(o) \/ prevPage(o) \/ \E ph \in PhasePills \cup {None} : phasePill(o, ph)
    BY <2>2, <2>3 DEF nextPage, prevPage, phasePill, Go
  <2>4. CASE submit(o) \/ fillSource(o) \/ resyncInterval(o)
    BY <2>2, <2>4 DEF submit, fillSource, resyncInterval, Update
  <2>5. CASE \/ (\E n \in Names : displayName(o, n)) \/ (\E s \in Slugs \cup {None} : editSlug(o, s))
             \/ (\E from \in Sources : startFrom(o, from))
             \/ (\E step \in {"identity", "authorization", "review"} : goTo(o, step))
             \/ (\E q \in Queries \cup {None} : schedule(o, q))
    BY <2>2, <2>5 DEF displayName, editSlug, startFrom, goTo, schedule, Update
  <2> QED
    BY <1>2, <2>1, <2>3, <2>4, <2>5 DEF OperatorStep
<1>3. ASSUME NEW o \in Operators, timerFires(o) \/ poll(o) \/ loseAnswer(o) PROVE UNCHANGED created
  BY <1>3 DEF timerFires, poll, loseAnswer, Set
<1>4. CASE restart
  BY <1>4 DEF restart
<1>5. CASE UNCHANGED vars
  BY <1>5 DEF vars
<1> QED
  BY <1>1, <1>2, <1>3, <1>4, <1>5 DEF Next

LEMMA CreatedStep ==
    ASSUME CreatedInv, [Next]_vars
    PROVE  CreatedInv'
<1> USE TenantConsoleAssumption
<1>1. CASE UNCHANGED created
  <2>1. Ran(created') = Ran(created)
    BY <1>1
  <2> QED
    BY <1>1, <2>1 DEF CreatedInv
<1>2. CASE created' = <<>>
  BY <1>2 DEF CreatedInv, Ran
<1>3. ASSUME NEW slug \in ValidSlugs, ~findAny(slug), created' = Append(created, slug) PROVE CreatedInv'
  <2>1. slug \notin Ran(created) /\ slug \notin Ran(Fixtures)
    BY <1>3, FreeSlug
  <2>2. created \in Seq(ValidSlugs) /\ created' \in Seq(ValidSlugs) /\ DOMAIN created = 1..Len(created)
        /\ Len(created) \in Nat /\ DOMAIN created' = 1..(Len(created) + 1)
    BY <1>3 DEF CreatedInv
  <2>3. /\ \A i \in 1..Len(created) : created'[i] = created[i]
        /\ created'[Len(created) + 1] = slug
    BY <1>3, <2>2
  <2>4. \A i \in 1..Len(created) : created'[i] \in Ran(created) /\ created'[i] # slug
    BY <2>1, <2>2, <2>3 DEF Ran
  <2>5. \A i, j \in DOMAIN created' : created'[i] = created'[j] => i = j
    BY <2>2, <2>3, <2>4 DEF CreatedInv
  <2>6. Ran(created)' \cap Ran(Fixtures) = {}
    <3>1. \A i \in DOMAIN created' : created'[i] \notin Ran(Fixtures)
      BY <2>1, <2>2, <2>3, <2>4 DEF CreatedInv
    <3> QED
      BY <3>1 DEF Ran
  <2> QED
    BY <2>2, <2>5, <2>6 DEF CreatedInv, Ran
<1> QED
  BY <1>1, <1>2, <1>3, WhoCreates

LEMMA CreatedInvariant == Spec => []CreatedInv
<1>1. Init => CreatedInv
  BY DEF Init, CreatedInv, Ran
<1>2. CreatedInv /\ [Next]_vars => CreatedInv'
  BY CreatedStep
<1> QED
  BY <1>1, <1>2, PTL DEF Spec

(* No slug names two tenants, for any fixtures, any number of wizards, scripts *)
(* and restarts, and however often a POST is repeated (createTenant).          *)
THEOREM SlugsStayUnique == Spec => []OneTenantPerSlug
<1>1. CreatedInv => OneTenantPerSlug
  BY CreatedDistinct
<1> QED
  BY <1>1, CreatedInvariant, PTL

-----------------------------------------------------------------------------
(* Part 3: the order of the list *)

AllSlugs == ValidSlugs \cup DOMAIN PhaseOf
Filters == [phase : PhasePills \cup {None}, q : Queries \cup {None}, cursor : AllSlugs \cup {None}]

(* A nonempty set of numbers has a least one, and a bounded one a greatest. *)
LEMMA LeastOf ==
    ASSUME NEW T \in SUBSET Nat, T # {}
    PROVE  \E x \in T : \A y \in T : x <= y
<1>1. PICK x \in T : \A y \in T : ~(<<y, x>> \in OpToRel(<, Nat))
  BY NatLessThanWellFounded, WFMin, Zenon
<1>2. \A y \in T : ~(y < x)
  BY <1>1 DEF OpToRel
<1> QED
  BY <1>2

LEMMA GreatestOf ==
    ASSUME NEW n \in Nat, NEW T \in SUBSET (1..n), T # {}
    PROVE  \E x \in T : \A y \in T : y <= x
<1> DEFINE U == {n - y : y \in T}
<1>1. U \in SUBSET Nat
  <2>1. \A y \in T : n - y \in Nat
    OBVIOUS
  <2> QED
    BY <2>1
<1>2. \A y \in T : n - y \in U
  OBVIOUS
<1>3. \A u \in U : \E y \in T : u = n - y
  OBVIOUS
<1> HIDE DEF U
<1>4. PICK u \in U : \A v \in U : u <= v
  BY <1>1, <1>2, LeastOf, Zenon
<1>5. PICK x \in T : u = n - x
  BY <1>3
<1>6. \A y \in T : n - x <= n - y
  BY <1>2, <1>4, <1>5
<1> QED
  BY <1>6

(* A page is a first part of the rest, and empty only if the rest is. *)
LEMMA FirstRowsFacts ==
    ASSUME NEW n \in Nat, NEW S \in SUBSET (1..n)
    PROVE  /\ FirstRows(S) \subseteq S
           /\ \A j \in S \ FirstRows(S) : \A i \in FirstRows(S) : i < j
           /\ FirstRows(S) # S => \E i \in FirstRows(S) : \A x \in FirstRows(S) : x <= i
<1> DEFINE rows == FirstRows(S)
           Ahead(i) == {x \in S : x < i}
<1>0. PageSize \in Nat \ {0}
  BY TenantConsoleAssumption
<1>1. rows = {i \in S : Cardinality(Ahead(i)) < PageSize}
  BY DEF FirstRows
<1>2. IsFiniteSet(S) /\ S \in SUBSET Nat /\ \A x \in S : x \in Int
  <2>1. IsFiniteSet(1..n)
    BY FS_Interval
  <2>2. IsFiniteSet(S)
    BY <2>1, FS_Subset, Zenon
  <2> QED
    BY <2>2
<1>3. \A i : IsFiniteSet(Ahead(i)) /\ Cardinality(Ahead(i)) \in Nat
  BY <1>2, FS_Subset, FS_CardinalityType
<1>4. ASSUME NEW j \in S \ rows, NEW i \in rows
      PROVE  i < j
  <2>0. i \in Int /\ j \in Int /\ i \in S /\ j \in S
    BY <1>1, <1>2
  <2>1. SUFFICES ASSUME j <= i
                 PROVE  FALSE
    BY <2>0
  <2>2. Ahead(j) \subseteq Ahead(i)
    <3>1. \A x \in S : x < j => x < i
      BY <1>2, <2>0, <2>1
    <3> QED
      BY <3>1, Zenon
  <2>3. Cardinality(Ahead(j)) <= Cardinality(Ahead(i))
    BY <1>3, <2>2, FS_Subset
  <2>4. Cardinality(Ahead(i)) < PageSize /\ ~(Cardinality(Ahead(j)) < PageSize)
    BY <1>1
  <2> HIDE DEF Ahead
  <2> QED
    BY <1>0, <1>3, <2>3, <2>4
<1>5. ASSUME rows # S
      PROVE  \E i \in rows : \A x \in rows : x <= i
  <2>1. S # {}
    BY <1>1, <1>5
  <2>2. PICK g \in S : \A y \in S : g <= y
    BY <1>2, <2>1, LeastOf, Zenon
  <2>3. Ahead(g) = {}
    <3>1. \A x \in S : ~(x < g)
      BY <1>2, <2>2
    <3> QED
      BY <3>1, Zenon
  <2>4. g \in rows
    BY <1>0, <1>1, <2>3, FS_EmptySet
  <2>5. rows \in SUBSET (1..n) /\ rows # {}
    BY <1>1, <2>4
  <2> HIDE DEF rows
  <2> QED
    BY <2>5, GreatestOf, Zenon
<1> QED
  BY <1>1, <1>4, <1>5

(* all is a list of distinct slugs with n entries. *)
IsOrder(all, n) ==
    /\ n \in Nat /\ DOMAIN all = 1..n
    /\ \A i \in 1..n : all[i] \in AllSlugs
    /\ \A i, j \in 1..n : all[i] = all[j] => i = j
Before(all, a, b) == \E i, j \in DOMAIN all : i < j /\ all[i] = a /\ all[j] = b

(* What a walk still owes: every tenant of its base that it has not shown is  *)
(* in the list, matches, and comes after the cursor.                          *)
Waiting(all, f, base, seen) ==
    \A u \in base \ seen : /\ u \in Ran(all) /\ Keeps(f, u)
                           /\ f.cursor \in Ran(all) => Before(all, f.cursor, u)

LEMMA NowInOrder ==
    ASSUME CreatedInv
    PROVE  IsOrder(allTenants, Len(created) + Len(Fixtures))
<1> USE TenantConsoleAssumption
<1>1. /\ Len(created) \in Nat /\ Len(Fixtures) \in Nat /\ DOMAIN created = 1..Len(created)
      /\ DOMAIN Fixtures = 1..Len(Fixtures)
      /\ \A i \in 1..Len(created) : created[i] \in ValidSlugs
      /\ \A i \in 1..Len(Fixtures) : Fixtures[i] \in DOMAIN PhaseOf
  BY DEF CreatedInv
<1>2. \A i \in 1..(Len(created) + Len(Fixtures)) : allTenants[i] \in AllSlugs
  BY <1>1, RowsOfList DEF AllSlugs
<1>3. \A i, j \in DOMAIN allTenants : allTenants[i] = allTenants[j] => i = j
  BY CreatedDistinct DEF OneTenantPerSlug
<1> QED
  BY <1>1, <1>2, <1>3, RowsOfList DEF IsOrder

(* What one answer of listTenants does for a walk. *)
LEMMA AnswerServesWalk ==
    ASSUME CreatedInv, NEW f \in Filters, NEW base, NEW seen, Waiting(allTenants, f, base, seen)
    PROVE  LET d == listTenants(f)
               new == seen \cup d.items
           IN  /\ d = [items |-> d.items, nextCursor |-> d.nextCursor]
               /\ d.items \subseteq AllSlugs /\ d.nextCursor \in AllSlugs \cup {None}
               /\ d.nextCursor # None => /\ Keeps(f, d.nextCursor)
                                         /\ Waiting(allTenants, [f EXCEPT !.cursor = d.nextCursor], base, new)
               /\ d.nextCursor = None => base \subseteq new
<1> DEFINE all == allTenants
           n == Len(created) + Len(Fixtures)
           S == Matching(f)
           rest == AfterCursor(S, f.cursor)
           rows == FirstRows(rest)
           last == CHOOSE i \in rows : \A j \in rows : j <= i
           d == listTenants(f)
           new == seen \cup d.items
<1>1. IsOrder(all, n)
  BY NowInOrder
<1> HIDE DEF all, n
<1>2. S = {i \in 1..n : Keeps(f, all[i])}
  BY <1>1 DEF Matching, IsOrder, all
<1>3. rest = {i \in S : \A k \in S : all[k] = f.cursor => i > k}
  BY DEF AfterCursor, all
<1> HIDE DEF S
<1>4. rest \in SUBSET (1..n) /\ rest \subseteq S
  BY <1>2, <1>3
<1>5. d.items = {all[i] : i \in rows} /\ d.nextCursor = (IF rows = rest THEN None ELSE all[last])
      /\ d = [items |-> d.items, nextCursor |-> d.nextCursor]
  BY DEF listTenants, SlugsAt, all, S
<1> HIDE DEF rest, d
<1>6. /\ rows \subseteq rest
      /\ \A j \in rest \ rows : \A i \in rows : i < j
      /\ rows # rest => last \in rows
  <2>1. n \in Nat
    BY <1>1 DEF IsOrder
  <2>2. /\ rows \subseteq rest
        /\ \A j \in rest \ rows : \A i \in rows : i < j
        /\ rows # rest => \E i \in rows : \A x \in rows : x <= i
    BY <1>4, <2>1, FirstRowsFacts
  <2> HIDE DEF rows
  <2> QED
    BY <2>2
<1> HIDE DEF rows, last
<1>7. \A i \in rest : all[i] \in AllSlugs /\ Keeps(f, all[i]) /\ i \in 1..n
  BY <1>1, <1>2, <1>4 DEF IsOrder
<1>8. None \notin AllSlugs
  BY TenantConsoleAssumption DEF AllSlugs
<1>9. d.nextCursor = None <=> rows = rest
  BY <1>5, <1>6, <1>7, <1>8
(* A tenant that is still owed is in the rest and not on the page. *)
<1>10. ASSUME NEW u \in base \ new
       PROVE  \E j \in rest \ rows : all[j] = u
  <2>1. u \in base \ seen /\ u \notin d.items
    OBVIOUS
  <2>2. u \in Ran(all) /\ Keeps(f, u) /\ (f.cursor \in Ran(all) => Before(all, f.cursor, u))
    BY <2>1 DEF Waiting, all
  <2>3. PICK j \in 1..n : all[j] = u
    BY <1>1, <2>2 DEF Ran, IsOrder
  <2>4. j \in S
    BY <1>2, <2>2, <2>3
  <2>5. ASSUME NEW k \in S, all[k] = f.cursor
        PROVE  j > k
    <3>1. k \in 1..n /\ f.cursor \in Ran(all)
      BY <1>1, <1>2, <2>5 DEF Ran, IsOrder
    <3>2. PICK i \in 1..n, m \in 1..n : i < m /\ all[i] = f.cursor /\ all[m] = u
      BY <1>1, <2>2, <3>1 DEF Before, IsOrder
    <3>3. i = k /\ m = j
      BY <1>1, <2>3, <2>5, <3>1, <3>2 DEF IsOrder
    <3> QED
      BY <3>2, <3>3
  <2>6. j \in rest
    BY <1>3, <2>4, <2>5
  <2>7. j \notin rows
    BY <1>5, <2>1, <2>3
  <2> QED
    BY <2>3, <2>6, <2>7
<1>11. d.nextCursor = None => base \subseteq new
  BY <1>9, <1>10
<1>12. ASSUME d.nextCursor # None
       PROVE  Keeps(f, d.nextCursor) /\ Waiting(all, [f EXCEPT !.cursor = d.nextCursor], base, new)
  <2>1. last \in rows /\ last \in rest /\ d.nextCursor = all[last]
    BY <1>5, <1>6, <1>9, <1>12
  <2>2. Keeps(f, d.nextCursor) /\ last \in 1..n
    BY <1>7, <2>1
  <2> DEFINE g == [f EXCEPT !.cursor = d.nextCursor]
  <2>3. g.cursor = d.nextCursor /\ g.phase = f.phase /\ g.q = f.q
    BY DEF Filters
  <2> HIDE DEF g
  <2>4. ASSUME NEW u \in base \ new
        PROVE  u \in Ran(all) /\ Keeps(g, u) /\ Before(all, g.cursor, u)
    <3>1. PICK j \in rest \ rows : all[j] = u
      BY <1>10
    <3>2. j \in 1..n /\ Keeps(f, u) /\ last < j
      BY <1>6, <1>7, <2>1, <3>1
    <3>3. u \in Ran(all) /\ Before(all, all[last], u)
      BY <1>1, <2>2, <3>1, <3>2 DEF Ran, Before, IsOrder
    <3> QED
      BY <2>1, <2>3, <3>2, <3>3 DEF Keeps
  <2> QED
    BY <2>2, <2>4 DEF Waiting, g
<1>13. d.items \subseteq AllSlugs /\ d.nextCursor \in AllSlugs \cup {None}
  BY <1>5, <1>6, <1>7
<1> QED
  BY <1>5, <1>11, <1>12, <1>13 DEF d, all

(* A tenant is added in front of the list, or all but the fixtures are gone:  *)
(* what a walk owes is the same.                                              *)
LEMMA OwesSameAfterCreate ==
    ASSUME NEW all, NEW new, NEW n, IsOrder(all, n), IsOrder(new, n + 1),
           \A i \in 1..n : new[i + 1] = all[i],
           NEW f, NEW base, NEW seen, Waiting(all, f, base, seen)
    PROVE  Waiting(new, f, base, seen)
<1>1. n \in Nat /\ DOMAIN all = 1..n /\ DOMAIN new = 1..(n + 1)
  BY DEF IsOrder
<1>2. \A i \in 1..n : i + 1 \in 1..(n + 1)
  BY <1>1
<1> SUFFICES ASSUME NEW u \in base \ seen
             PROVE  /\ u \in Ran(new) /\ Keeps(f, u)
                    /\ f.cursor \in Ran(new) => Before(new, f.cursor, u)
  BY DEF Waiting
<1>3. u \in Ran(all) /\ Keeps(f, u) /\ (f.cursor \in Ran(all) => Before(all, f.cursor, u))
  BY DEF Waiting
<1>4. PICK j \in 1..n : all[j] = u
  BY <1>1, <1>3 DEF Ran
<1>5. u = new[j + 1] /\ j + 1 \in DOMAIN new
  BY <1>1, <1>2, <1>4
<1>6. u \in Ran(new)
  BY <1>5 DEF Ran
<1>7. ASSUME f.cursor \in Ran(new)
      PROVE  Before(new, f.cursor, u)
  <2>1. PICK k \in 1..(n + 1) : new[k] = f.cursor
    BY <1>1, <1>7 DEF Ran
  <2>2. CASE k = 1
    <3>1. 1 \in DOMAIN new /\ 1 < j + 1
      BY <1>1, <2>1, <2>2
    <3> QED
      BY <1>5, <2>1, <2>2, <3>1 DEF Before
  <2>3. CASE k # 1
    <3>1. k - 1 \in 1..n /\ (k - 1) + 1 = k
      BY <1>1, <2>3
    <3>2. all[k - 1] = f.cursor
      BY <2>1, <3>1
    <3>3. f.cursor \in Ran(all)
      BY <1>1, <3>1, <3>2 DEF Ran
    <3>4. PICK i \in 1..n, m \in 1..n : i < m /\ all[i] = f.cursor /\ all[m] = u
      BY <1>1, <1>3, <3>3 DEF Before
    <3>5. i + 1 < m + 1 /\ new[i + 1] = f.cursor /\ new[m + 1] = u /\ i + 1 \in DOMAIN new /\ m + 1 \in DOMAIN new
      BY <1>1, <1>2, <3>4
    <3> QED
      BY <3>5 DEF Before
  <2> QED
    BY <2>2, <2>3
<1> QED
  BY <1>3, <1>6, <1>7

LEMMA OwesFixturesAfterRestart ==
    ASSUME NEW all, NEW new, NEW n \in Nat, NEW m \in Nat, IsOrder(all, n + m), IsOrder(new, m),
           \A i \in 1..m : new[i] = all[n + i],
           NEW f, NEW base, NEW seen, Waiting(all, f, base, seen)
    PROVE  Waiting(new, f, base \cap Ran(new), seen)
<1>1. DOMAIN all = 1..(n + m) /\ DOMAIN new = 1..m
  BY DEF IsOrder
<1>2. \A i \in 1..m : n + i \in 1..(n + m)
  OBVIOUS
<1> SUFFICES ASSUME NEW u \in (base \cap Ran(new)) \ seen
             PROVE  /\ u \in Ran(new) /\ Keeps(f, u)
                    /\ f.cursor \in Ran(new) => Before(new, f.cursor, u)
  BY DEF Waiting
<1>3. u \in Ran(all) /\ Keeps(f, u) /\ (f.cursor \in Ran(all) => Before(all, f.cursor, u))
  BY DEF Waiting
<1>4. PICK j \in 1..m : new[j] = u
  BY <1>1 DEF Ran
<1>5. ASSUME f.cursor \in Ran(new)
      PROVE  Before(new, f.cursor, u)
  <2>1. PICK k \in 1..m : new[k] = f.cursor
    BY <1>1, <1>5 DEF Ran
  <2>2. all[n + k] = f.cursor /\ all[n + j] = u /\ n + k \in 1..(n + m) /\ n + j \in 1..(n + m)
    BY <1>2, <1>4, <2>1
  <2>3. f.cursor \in Ran(all)
    BY <1>1, <2>2 DEF Ran
  <2>4. PICK i \in 1..(n + m), l \in 1..(n + m) : i < l /\ all[i] = f.cursor /\ all[l] = u
    BY <1>1, <1>3, <2>3 DEF Before
  <2>5. i = n + k /\ l = n + j
    BY <2>2, <2>4 DEF IsOrder
  <2>6. k < j
    BY <2>4, <2>5
  <2> QED
    BY <1>1, <1>4, <2>1, <2>6 DEF Before
<1> QED
  BY <1>3, <1>5

(* The list after a step that adds a tenant, and after a restart. *)
LEMMA ListAfterCreate ==
    ASSUME CreatedInv, CreatedInv', NEW slug \in ValidSlugs, created' = Append(created, slug)
    PROVE  LET n == Len(created) + Len(Fixtures)
           IN  /\ IsOrder(allTenants, n) /\ IsOrder(allTenants', n + 1)
               /\ \A i \in 1..n : allTenants'[i + 1] = allTenants[i]
<1> USE TenantConsoleAssumption
<1> DEFINE c == Len(created)  m == Len(Fixtures)
<1>1. created \in Seq(ValidSlugs) /\ c \in Nat /\ m \in Nat /\ DOMAIN created = 1..c
  BY DEF CreatedInv
<1>2. Len(created') = c + 1 /\ \A i \in 1..c : created'[i] = created[i]
  BY <1>1
<1>3. IsOrder(allTenants, c + m) /\ IsOrder(allTenants', (c + 1) + m)
  <2>1. IsOrder(allTenants, c + m)
    BY NowInOrder
  <2>2. (CreatedInv => IsOrder(allTenants, Len(created) + Len(Fixtures)))'
    BY NowInOrder, PTL
  <2> QED
    BY <1>2, <2>1, <2>2
<1>4. /\ \A i \in 1..c : allTenants[i] = created[c + 1 - i]
      /\ \A i \in (c + 1)..(c + m) : allTenants[i] = Fixtures[i - c]
  BY RowsOfList
<1>5. /\ \A i \in 1..(c + 1) : allTenants'[i] = created'[c + 2 - i]
      /\ \A i \in (c + 2)..(c + 1 + m) : allTenants'[i] = Fixtures[i - (c + 1)]
  <2>1. (CreatedInv => /\ \A i \in 1..Len(created) : allTenants[i] = created[Len(created) + 1 - i]
                       /\ \A i \in (Len(created) + 1)..(Len(created) + Len(Fixtures)) :
                             allTenants[i] = Fixtures[i - Len(created)])'
    BY RowsOfList, PTL
  <2>2. /\ \A i \in 1..Len(created') : allTenants'[i] = created'[Len(created') + 1 - i]
        /\ \A i \in (Len(created') + 1)..(Len(created') + Len(Fixtures)) : allTenants'[i] = Fixtures[i - Len(created')]
    BY <2>1
  <2>3. (c + 1) + 1 = c + 2
    BY <1>1
  <2> QED
    BY <1>2, <2>2, <2>3
<1>6. ASSUME NEW i \in 1..(c + m)
      PROVE  allTenants'[i + 1] = allTenants[i]
  <2>1. CASE i <= c
    <3>1. i \in 1..c /\ i + 1 \in 1..(c + 1) /\ c + 2 - (i + 1) = c + 1 - i /\ c + 1 - i \in 1..c
      BY <1>1, <2>1
    <3>2. allTenants'[i + 1] = created'[c + 1 - i] /\ allTenants[i] = created[c + 1 - i]
      BY <1>4, <1>5, <3>1
    <3> QED
      BY <1>2, <3>1, <3>2
  <2>2. CASE i > c
    <3>1. i \in (c + 1)..(c + m) /\ i + 1 \in (c + 2)..(c + 1 + m) /\ (i + 1) - (c + 1) = i - c
      BY <1>1, <2>2
    <3> QED
      BY <1>4, <1>5, <3>1
  <2> QED
    BY <1>1, <2>1, <2>2
<1>7. (c + 1) + m = (c + m) + 1
  BY <1>1
<1> QED
  BY <1>3, <1>6, <1>7

LEMMA ListAfterRestart ==
    ASSUME CreatedInv, CreatedInv', created' = <<>>
    PROVE  LET n == Len(created)
               m == Len(Fixtures)
           IN  /\ n \in Nat /\ m \in Nat /\ IsOrder(allTenants, n + m) /\ IsOrder(allTenants', m)
               /\ \A i \in 1..m : allTenants'[i] = allTenants[n + i]
               /\ Ran(allTenants') = Ran(Fixtures)
<1> USE TenantConsoleAssumption
<1> DEFINE c == Len(created)  m == Len(Fixtures)
<1>1. created \in Seq(ValidSlugs) /\ c \in Nat /\ m \in Nat /\ DOMAIN Fixtures = 1..m
  BY DEF CreatedInv
<1>2. Len(created') = 0
  OBVIOUS
<1>3. IsOrder(allTenants, c + m) /\ IsOrder(allTenants', m)
  <2>1. IsOrder(allTenants, c + m)
    BY NowInOrder
  <2>2. (CreatedInv => IsOrder(allTenants, Len(created) + Len(Fixtures)))'
    BY NowInOrder, PTL
  <2>3. 0 + m = m
    BY <1>1
  <2> QED
    BY <1>2, <2>1, <2>2, <2>3
<1>4. \A i \in (c + 1)..(c + m) : allTenants[i] = Fixtures[i - c]
  BY RowsOfList
<1>5. \A i \in 1..m : allTenants'[i] = Fixtures[i]
  <2>1. (CreatedInv => \A i \in (Len(created) + 1)..(Len(created) + Len(Fixtures)) :
                          allTenants[i] = Fixtures[i - Len(created)])'
    BY RowsOfList, PTL
  <2>2. \A i \in (0 + 1)..(0 + m) : allTenants'[i] = Fixtures[i - 0]
    BY <1>2, <2>1
  <2>3. \A i \in 1..m : i \in (0 + 1)..(0 + m) /\ i - 0 = i
    BY <1>1
  <2> QED
    BY <2>2, <2>3
<1>6. ASSUME NEW i \in 1..m
      PROVE  allTenants'[i] = allTenants[c + i]
  <2>1. c + i \in (c + 1)..(c + m) /\ (c + i) - c = i
    BY <1>1
  <2> QED
    BY <1>4, <1>5, <2>1
<1>7. Ran(allTenants') = Ran(Fixtures)
  <2>1. DOMAIN allTenants' = 1..m
    BY <1>3 DEF IsOrder
  <2> QED
    BY <1>1, <1>5, <2>1 DEF Ran
<1> QED
  BY <1>1, <1>3, <1>6, <1>7

-----------------------------------------------------------------------------
(* Part 4: pages *)

(* The wizard: its later steps are on show only with a complete identity, and *)
(* what it sent was answered for by the slug check.                           *)
Steps == {"identity", "authorization", "review"}
Body == [slug : ValidSlugs, resyncInRange : BOOLEAN]
WizardRec(w) ==
    /\ w = [kind |-> "wizard", name |-> w.name, slug |-> w.slug, slugEdited |-> w.slugEdited,
            startFrom |-> w.startFrom, given |-> w.given, resyncInRange |-> w.resyncInRange,
            urlStep |-> w.urlStep, debounced |-> w.debounced, check |-> w.check, post |-> w.post,
            sent |-> w.sent, status |-> w.status]
    /\ w.slug \in Slugs \cup {None} /\ w.debounced \in Slugs \cup {None}
    /\ w.check \in [ValidSlugs -> {"none", "error", "available", "taken"}]
SentChecked(w) ==
    w.sent # None \/ w.post # "idle" => w.sent.slug \in ValidSlugs /\ w.check[w.sent.slug] # "none"
WizardOK(w) ==
    /\ WizardRec(w) /\ SentChecked(w)
    /\ w.urlStep \in Steps
    /\ w.urlStep # "identity" => identityComplete(w)

(* Every edit of the wizard ends in Settle. *)
LEMMA SettleKeeps ==
    ASSUME NEW w, WizardRec(w), SentChecked(w), w.urlStep \in Steps
    PROVE  WizardOK(Settle(w))
<1>1. CASE identityComplete(w)
  BY <1>1 DEF WizardOK, Settle
<1>2. CASE ~identityComplete(w)
  <2> DEFINE v == [w EXCEPT !.urlStep = "identity"]
  <2>1. WizardRec(v)
    BY DEF WizardRec
  <2>2. SentChecked(v) /\ v.urlStep = "identity"
    BY DEF WizardRec, SentChecked
  <2>3. Settle(w) = v
    BY <1>2 DEF Settle
  <2> QED
    BY <2>1, <2>2, <2>3 DEF WizardOK, Steps
<1> QED
  BY <1>1, <1>2

(* Continue is offered for a slug the check found available. *)
LEMMA CompleteIsChecked ==
    ASSUME NEW w, WizardRec(w), identityComplete(w)
    PROVE  w.slug \in ValidSlugs /\ w.check[w.slug] # "none"
<1>0. None \notin ValidSlugs /\ w.slug \in Slugs \cup {None}
  BY TenantConsoleAssumption DEF WizardRec
<1>1. slugStatus(w) = "available"
  BY DEF identityComplete
<1>2. w.slug # None /\ w.slug \in ValidSlugs
  BY <1>0, <1>1 DEF slugStatus
<1>3. w.slug = w.debounced /\ w.check[w.debounced] # "none"
  BY <1>1, <1>2 DEF slugStatus
<1> QED
  BY <1>2, <1>3

(* The list: what the page on show, the page its Next button leads to, and a  *)
(* navigation under way still owe a walk.                                     *)
ListRec(l) ==
    /\ l = [kind |-> "list", filter |-> l.filter, data |-> l.data, going |-> l.going, box |-> l.box,
            timer |-> l.timer, seen |-> l.seen, base |-> l.base]
    /\ l.filter \in Filters /\ l.going \in Filters \cup {None} /\ l.box \in Queries \cup {None}
    /\ l.timer \in [q : Queries \cup {None}, filter : Filters] \cup {None}
OnRow(f) == f.cursor # None => Keeps(f, f.cursor)
DataServes(all, l) ==
    /\ l.data = [items |-> l.data.items, nextCursor |-> l.data.nextCursor]
    /\ l.data.nextCursor \in AllSlugs \cup {None}
    /\ l.data.nextCursor # None => /\ Keeps(l.filter, l.data.nextCursor)
                                   /\ Waiting(all, [l.filter EXCEPT !.cursor = l.data.nextCursor], l.base, l.seen)
    /\ l.data.nextCursor = None => l.base \subseteq l.seen
GoingServes(all, l) ==
    l.going # None => OnRow(l.going) /\ (l.going.cursor # None => Waiting(all, l.going, l.base, l.seen))
ListOK(all, l) ==
    /\ ListRec(l) /\ OnRow(l.filter) /\ Waiting(all, l.filter, l.base, l.seen)
    /\ DataServes(all, l) /\ GoingServes(all, l)

PageOK(all, p) == p = NoPage \/ ListOK(all, p) \/ WizardOK(p)
PagesInv == /\ page = [o \in Operators |-> page[o]]
            /\ \A o \in Operators : PageOK(allTenants, page[o])

LEMMA KindsOfPages ==
    ASSUME NEW all, NEW p, PageOK(all, p)
    PROVE  /\ p.kind \in {"none", "list", "wizard"}
           /\ p.kind = "list" => ListOK(all, p)
           /\ p.kind = "wizard" => WizardOK(p)
<1>1. NoPage.kind = "none"
  BY DEF NoPage
<1>2. ListOK(all, p) => p.kind = "list"
  BY DEF ListOK, ListRec
<1>3. WizardOK(p) => p.kind = "wizard"
  BY DEF WizardOK, WizardRec
<1> QED
  BY <1>1, <1>2, <1>3 DEF PageOK

(* One operator's page changes. *)
LEMMA OnePageMoves ==
    ASSUME PagesInv, UNCHANGED created, NEW o \in Operators, NEW p, PageOK(allTenants, p),
           page' = [page EXCEPT ![o] = p]
    PROVE  PagesInv'
<1>1. allTenants' = allTenants
  BY DEF allTenants, Reversed
<1>2. DOMAIN page = Operators
  BY DEF PagesInv
<1>3. page' = [q \in Operators |-> page'[q]]
  BY <1>2
<1>4. ASSUME NEW q \in Operators PROVE PageOK(allTenants, page'[q])
  <2>1. CASE q = o
    <3>1. page'[q] = p
      BY <1>2, <2>1
    <3> QED
      BY <3>1
  <2>2. CASE q # o
    <3>1. page'[q] = page[q]
      BY <1>2, <2>2
    <3> QED
      BY <3>1 DEF PagesInv
  <2> QED
    BY <2>1, <2>2
<1>5. \A q \in Operators : PageOK(allTenants', page'[q])
  BY <1>1, <1>4
<1> QED
  BY <1>3, <1>5 DEF PagesInv

LEMMA PagesStay ==
    ASSUME PagesInv, UNCHANGED created, UNCHANGED page
    PROVE  PagesInv'
<1>1. allTenants' = allTenants
  BY DEF allTenants, Reversed
<1> QED
  BY <1>1 DEF PagesInv

(* The wizard's actions *)

LEMMA UpdateKeeps ==
    ASSUME PagesInv, NEW o \in Operators, NEW w, WizardRec(w), SentChecked(w), w.urlStep \in Steps, Update(o, w)
    PROVE  PagesInv'
<1>1. PageOK(allTenants, Settle(w))
  BY SettleKeeps DEF PageOK
<1>2. UNCHANGED created /\ page' = [page EXCEPT ![o] = Settle(w)]
  BY DEF Update, Set
<1> QED
  BY <1>1, <1>2, OnePageMoves

LEMMA OnWizardFacts ==
    ASSUME PagesInv, NEW o \in Operators, P(o).kind = "wizard"
    PROVE  WizardOK(P(o)) /\ WizardRec(P(o)) /\ SentChecked(P(o)) /\ P(o).urlStep \in Steps
<1>1. PageOK(allTenants, P(o))
  BY DEF PagesInv, P
<1>2. WizardOK(P(o))
  BY <1>1, KindsOfPages
<1> QED
  BY <1>2 DEF WizardOK

LEMMA FormKeeps ==
    ASSUME PagesInv, NEW o \in Operators,
           \/ debounce(o) \/ submit(o) \/ fillSource(o) \/ resyncInterval(o) \/ slugCheck(o)
           \/ (\E n \in Names : displayName(o, n))
           \/ (\E s \in Slugs \cup {None} : editSlug(o, s))
           \/ (\E from \in Sources : startFrom(o, from))
           \/ (\E step \in Steps : goTo(o, step))
    PROVE  PagesInv'
<1> DEFINE w == P(o)
<1>0. OnWizard(o)
  BY DEF debounce, submit, fillSource, resyncInterval, slugCheck, displayName, editSlug, startFrom, goTo
<1>1. WizardOK(w) /\ WizardRec(w) /\ SentChecked(w) /\ w.urlStep \in Steps
  BY <1>0, OnWizardFacts DEF OnWizard
<1> HIDE DEF w
<1>3. CASE debounce(o)
  <2> DEFINE v == [w EXCEPT !.debounced = w.slug]
  <2>1. WizardRec(v) /\ SentChecked(v) /\ v.urlStep \in Steps
    BY <1>1 DEF WizardRec, SentChecked
  <2>2. Update(o, v)
    BY <1>3 DEF debounce, w
  <2> QED
    BY <2>1, <2>2, UpdateKeeps
<1>4. CASE fillSource(o)
  <2> DEFINE flipped == ~w.given
             v == [w EXCEPT !.given = flipped]
  <2>2. Update(o, v)
    BY <1>4 DEF fillSource, w
  <2> HIDE DEF flipped
  <2>1. WizardRec(v) /\ SentChecked(v) /\ v.urlStep \in Steps
    BY <1>1 DEF WizardRec, SentChecked
  <2> QED
    BY <2>1, <2>2, UpdateKeeps
<1>5. CASE resyncInterval(o)
  <2> DEFINE flipped == ~w.resyncInRange
             v == [w EXCEPT !.resyncInRange = flipped]
  <2>2. Update(o, v)
    BY <1>5 DEF resyncInterval, w
  <2> HIDE DEF flipped
  <2>1. WizardRec(v) /\ SentChecked(v) /\ v.urlStep \in Steps
    BY <1>1 DEF WizardRec, SentChecked
  <2> QED
    BY <2>1, <2>2, UpdateKeeps
<1>6. ASSUME NEW n \in Names, displayName(o, n)
      PROVE  PagesInv'
  <2> DEFINE s == IF w.slugEdited THEN w.slug ELSE deriveSlug[n]
             v == [w EXCEPT !.name = n, !.slug = s]
  <2>1. s \in Slugs \cup {None}
    BY <1>1, TenantConsoleAssumption DEF WizardRec
  <2>2. Update(o, v)
    BY <1>6 DEF displayName, w
  <2> HIDE DEF s
  <2>3. WizardRec(v)
    <3> DEFINE u == [w EXCEPT !.name = n]
    <3>1. WizardRec(u)
      BY <1>1 DEF WizardRec
    <3>2. v = [u EXCEPT !.slug = s]
      OBVIOUS
    <3> HIDE DEF u, v
    <3> QED
      BY <2>1, <3>1, <3>2 DEF WizardRec
  <2>4. v.check = w.check /\ v.sent = w.sent /\ v.post = w.post /\ v.urlStep = w.urlStep
    BY <1>1 DEF WizardRec
  <2>5. SentChecked(v) /\ v.urlStep \in Steps
    BY <1>1, <2>4 DEF SentChecked
  <2> QED
    BY <2>2, <2>3, <2>5, UpdateKeeps
<1>7. ASSUME NEW s \in Slugs \cup {None}, editSlug(o, s)
      PROVE  PagesInv'
  <2> DEFINE edited == s # None
             v == [w EXCEPT !.slug = s, !.slugEdited = edited]
  <2>1. Update(o, v)
    BY <1>7 DEF editSlug, w
  <2> HIDE DEF edited
  <2>2. WizardRec(v)
    <3> DEFINE u == [w EXCEPT !.slug = s]
    <3>1. WizardRec(u)
      BY <1>1 DEF WizardRec
    <3>2. v = [u EXCEPT !.slugEdited = edited]
      OBVIOUS
    <3> HIDE DEF u, v
    <3> QED
      BY <3>1, <3>2 DEF WizardRec
  <2>3. v.check = w.check /\ v.sent = w.sent /\ v.post = w.post /\ v.urlStep = w.urlStep
    BY <1>1 DEF WizardRec
  <2>4. SentChecked(v) /\ v.urlStep \in Steps
    BY <1>1, <2>3 DEF SentChecked
  <2> QED
    BY <2>1, <2>2, <2>4, UpdateKeeps
<1>8. ASSUME NEW from \in Sources, startFrom(o, from)
      PROVE  PagesInv'
  <2> DEFINE v == [w EXCEPT !.startFrom = from]
  <2>1. WizardRec(v) /\ SentChecked(v) /\ v.urlStep \in Steps
    BY <1>1 DEF WizardRec, SentChecked
  <2>2. Update(o, v)
    BY <1>8 DEF startFrom, w
  <2> QED
    BY <2>1, <2>2, UpdateKeeps
<1>9. ASSUME NEW step \in Steps, goTo(o, step)
      PROVE  PagesInv'
  <2> DEFINE v == [w EXCEPT !.urlStep = step]
  <2>1. WizardRec(v) /\ SentChecked(v) /\ v.urlStep \in Steps
    BY <1>1 DEF WizardRec, SentChecked
  <2>2. Update(o, v)
    BY <1>9 DEF goTo, w
  <2> QED
    BY <2>1, <2>2, UpdateKeeps
<1>10. CASE submit(o)
  <2> DEFINE body == [slug |-> w.slug, resyncInRange |-> w.resyncInRange]
             v == [w EXCEPT !.post = "guard", !.status = 0, !.sent = body]
  <2>1. w.slug \in ValidSlugs /\ w.check[w.slug] # "none"
    <3>1. identityComplete(w)
      BY <1>1, <1>10 DEF WizardOK, submit, w
    <3> QED
      BY <1>1, <3>1, CompleteIsChecked
  <2>2. Update(o, v)
    BY <1>10 DEF submit, w
  <2>3. body.slug = w.slug
    OBVIOUS
  <2> HIDE DEF body
  <2>4. WizardRec(v)
    <3> DEFINE u == [w EXCEPT !.post = "guard"]
               t == [u EXCEPT !.status = 0]
    <3>1. WizardRec(u)
      BY <1>1 DEF WizardRec
    <3>2. v = [t EXCEPT !.sent = body]
      OBVIOUS
    <3> HIDE DEF u
    <3>3. WizardRec(t)
      BY <3>1 DEF WizardRec
    <3> HIDE DEF t, v
    <3> QED
      BY <3>2, <3>3 DEF WizardRec
  <2>5. v.check = w.check /\ v.sent = body /\ v.urlStep = w.urlStep
    BY <1>1 DEF WizardRec
  <2>6. SentChecked(v) /\ v.urlStep \in Steps
    BY <1>1, <2>1, <2>3, <2>5 DEF SentChecked
  <2> QED
    BY <2>2, <2>4, <2>6, UpdateKeeps
<1>11. CASE slugCheck(o)
  <2> DEFINE s == w.debounced
             answer == Checked(o, s)
             v == [w EXCEPT !.check[s] = answer]
  <2>1. s \in ValidSlugs /\ answer \in {"error", "available", "taken"}
    BY <1>11 DEF slugCheck, Checked, w
  <2>2. Update(o, v)
    BY <1>11 DEF slugCheck, w
  <2> HIDE DEF s, answer
  <2>3. WizardRec(v) /\ v.check = [w.check EXCEPT ![s] = answer] /\ v.sent = w.sent /\ v.post = w.post
        /\ v.urlStep \in Steps
    BY <1>1, <2>1 DEF WizardRec
  <2>4. SentChecked(v)
    BY <1>1, <2>1, <2>3 DEF SentChecked, WizardRec
  <2> QED
    BY <2>2, <2>3, <2>4, UpdateKeeps
<1> QED
  BY <1>3, <1>4, <1>5, <1>6, <1>7, <1>8, <1>9, <1>10, <1>11

(* The POST's steps leave the form alone; only loseAnswer, answered and the   *)
(* next submit can leave "idle" behind.                                       *)
LEMMA PostStep ==
    ASSUME NEW w, WizardOK(w), NEW post, NEW status, post # "idle" => w.post # "idle"
    PROVE  WizardOK([w EXCEPT !.post = post, !.status = status])
<1> DEFINE u == [w EXCEPT !.post = post]
           v == [u EXCEPT !.status = status]
<1>1. [w EXCEPT !.post = post, !.status = status] = v
  OBVIOUS
<1>2. WizardRec(w) /\ SentChecked(w) /\ w.urlStep \in Steps
  BY DEF WizardOK
<1>3. WizardRec(u) /\ u.post = post /\ u.sent = w.sent /\ u.check = w.check /\ u.urlStep = w.urlStep
      /\ u.name = w.name /\ u.slug = w.slug /\ u.debounced = w.debounced /\ u.startFrom = w.startFrom /\ u.given = w.given
  BY <1>2 DEF WizardRec
<1> HIDE DEF u
<1>4. WizardRec(v) /\ v.post = post /\ v.sent = w.sent /\ v.check = w.check /\ v.urlStep = w.urlStep
      /\ v.name = w.name /\ v.slug = w.slug /\ v.debounced = w.debounced /\ v.startFrom = w.startFrom /\ v.given = w.given
  BY <1>3 DEF WizardRec
<1> HIDE DEF v
<1>5. SentChecked(v)
  BY <1>2, <1>4 DEF SentChecked
<1>6. identityComplete(w) => identityComplete(v)
  BY <1>4 DEF identityComplete, slugStatus
<1>7. WizardOK(v)
  BY <1>2, <1>4, <1>5, <1>6 DEF WizardOK
<1> QED
  BY <1>1, <1>7

LEMMA PostKeeps ==
    ASSUME PagesInv, NEW o \in Operators, postGuard(o) \/ loseAnswer(o) \/ answered(o)
    PROVE  PagesInv'
<1> DEFINE w == P(o)
<1>0. WizardOK(w) /\ WizardRec(w) /\ SentChecked(w) /\ w.urlStep \in Steps
  BY OnWizardFacts DEF postGuard, loseAnswer, answered
<1>1. ASSUME NEW post, NEW status, post # "idle" => w.post # "idle", Set(o, [w EXCEPT !.post = post, !.status = status])
      PROVE  PagesInv'
  <2>1. PageOK(allTenants, [w EXCEPT !.post = post, !.status = status])
    BY <1>0, <1>1, PostStep DEF PageOK
  <2>2. UNCHANGED created /\ page' = [page EXCEPT ![o] = [w EXCEPT !.post = post, !.status = status]]
    BY <1>1 DEF Set
  <2> QED
    BY <2>1, <2>2, OnePageMoves
<1>2. CASE postGuard(o)
  <2> DEFINE refusal == guardRoute(o, FALSE, TRUE, TRUE)
             post == IF refusal = 0 THEN "create" ELSE "answered"
  <2>1. w.post # "idle" /\ Set(o, [w EXCEPT !.post = post, !.status = refusal])
    BY <1>2 DEF postGuard
  <2> HIDE DEF w, post, refusal
  <2> QED
    BY <2>1, <1>1
<1>3. CASE loseAnswer(o)
  <2>1. Set(o, [w EXCEPT !.post = "idle", !.status = -1])
    BY <1>3 DEF loseAnswer
  <2> HIDE DEF w
  <2> QED
    BY <2>1, <1>1
<1>4. CASE answered(o) /\ w.status # 201
  <2> DEFINE v == [w EXCEPT !.post = "idle"]
  <2>1. WizardRec(v) /\ v.check = w.check /\ v.sent = w.sent /\ v.post = "idle" /\ v.urlStep = w.urlStep
    BY <1>0 DEF WizardRec
  <2>2. SentChecked(v)
    BY <1>0, <2>1 DEF SentChecked
  <2>3. Update(o, v)
    BY <1>4 DEF answered
  <2> QED
    BY <1>0, <2>1, <2>2, <2>3, UpdateKeeps
<1>5. CASE answered(o) /\ w.status = 201
  <2> DEFINE s == w.sent.slug
             answer == Checked(o, s)
             u == [w EXCEPT !.post = "push"]
             v == [u EXCEPT !.check[s] = answer]
  <2>1. s \in ValidSlugs
    BY <1>0, <1>5 DEF answered, SentChecked
  <2>2. answer \in {"error", "available", "taken"}
    BY DEF Checked
  <2>3. Update(o, [w EXCEPT !.post = "push", !.check[s] = answer])
    BY <1>5 DEF answered
  <2>4. [w EXCEPT !.post = "push", !.check[s] = answer] = v
    OBVIOUS
  <2>5. WizardRec(u) /\ u.check = w.check /\ u.sent = w.sent /\ u.urlStep = w.urlStep
    BY <1>0 DEF WizardRec
  <2> HIDE DEF w, s, u, answer
  <2>6. WizardRec(v) /\ v.check = [u.check EXCEPT ![s] = answer] /\ v.sent = u.sent /\ v.urlStep = u.urlStep
    BY <2>1, <2>2, <2>5 DEF WizardRec
  <2>7. w.check \in [ValidSlugs -> {"none", "error", "available", "taken"}] /\ v.check[s] = answer
    BY <1>0, <2>1, <2>5, <2>6 DEF WizardRec
  <2> HIDE DEF v
  <2>8. SentChecked(v)
    <3>1. v.sent.slug = s
      BY <2>5, <2>6 DEF s
    <3> QED
      BY <2>1, <2>2, <2>7, <3>1 DEF SentChecked
  <2> QED
    BY <1>0, <2>3, <2>4, <2>5, <2>6, <2>8, UpdateKeeps
<1> QED
  BY <1>2, <1>3, <1>4, <1>5

(* A tenant is created: every page is still right about the longer list. *)
LEMMA PagesAfterCreate ==
    ASSUME PagesInv, CreatedInv, CreatedInv', NEW slug \in ValidSlugs, created' = Append(created, slug)
    PROVE  \A q \in Operators : PageOK(allTenants', page[q])
<1> DEFINE n == Len(created) + Len(Fixtures)
           all == allTenants
           new == allTenants'
<1>1. IsOrder(all, n) /\ IsOrder(new, n + 1) /\ \A i \in 1..n : new[i + 1] = all[i]
  BY ListAfterCreate
<1> SUFFICES ASSUME NEW q \in Operators
             PROVE  PageOK(new, page[q])
  OBVIOUS
<1> DEFINE p == page[q]
<1>2. PageOK(all, p)
  BY DEF PagesInv
<1> HIDE DEF all, new, n, p
<1>3. ASSUME ListOK(all, p)
      PROVE  ListOK(new, p)
  <2>0. ListRec(p) /\ OnRow(p.filter) /\ Waiting(all, p.filter, p.base, p.seen) /\ DataServes(all, p) /\ GoingServes(all, p)
    BY <1>3 DEF ListOK
  <2>1. ASSUME NEW f, Waiting(all, f, p.base, p.seen) PROVE Waiting(new, f, p.base, p.seen)
    BY <1>1, <2>1, OwesSameAfterCreate
  <2>2. DataServes(new, p)
    BY <2>0, <2>1 DEF DataServes
  <2>3. GoingServes(new, p)
    BY <2>0, <2>1 DEF GoingServes
  <2> QED
    BY <2>0, <2>1, <2>2, <2>3 DEF ListOK
<1>4. PageOK(new, p)
  BY <1>2, <1>3 DEF PageOK
<1> QED
  BY <1>4 DEF p

LEMMA CreateKeeps ==
    ASSUME PagesInv, CreatedInv, CreatedInv', NEW o \in Operators,
           postCreate(o) \/ \E s \in Slugs, origin, key \in BOOLEAN : postDirect(o, s, origin, key)
    PROVE  PagesInv'
<1>0. ASSUME NEW body, createStatus(body) = 201 PROVE body.slug \in ValidSlugs
  BY <1>0 DEF createStatus
<1>1. UNCHANGED created \/ \E slug \in ValidSlugs : created' = Append(created, slug)
  <2>1. CASE postCreate(o)
    BY <2>1, <1>0 DEF postCreate, createTenant
  <2>2. ASSUME NEW s, NEW origin, NEW key, postDirect(o, s, origin, key)
        PROVE  UNCHANGED created \/ \E slug \in ValidSlugs : created' = Append(created, slug)
    <3> DEFINE body == [slug |-> s, resyncInRange |-> TRUE]
    <3>1. CASE createStatus(body) = 201
      <4>1. s \in ValidSlugs
        BY <3>1, <1>0
      <4> QED
        BY <4>1, <2>2 DEF postDirect
    <3>2. CASE createStatus(body) # 201
      BY <2>2, <3>2 DEF postDirect
    <3> QED
      BY <3>1, <3>2
  <2> QED
    BY <2>1, <2>2
<1>2. \A q \in Operators : PageOK(allTenants', page[q])
  <2>1. CASE UNCHANGED created
    <3>1. allTenants' = allTenants
      BY <2>1 DEF allTenants, Reversed
    <3> QED
      BY <3>1 DEF PagesInv
  <2>2. CASE \E slug \in ValidSlugs : created' = Append(created, slug)
    BY <2>2, PagesAfterCreate
  <2> QED
    BY <1>1, <2>1, <2>2
<1>3. CASE postCreate(o)
  <2> DEFINE w == P(o)
             v == [w EXCEPT !.post = "answered", !.status = createStatus(w.sent)]
  <2>1. WizardOK(w) /\ w.post # "idle"
    BY <1>3, OnWizardFacts DEF postCreate
  <2>2. WizardOK(v)
    <3> HIDE DEF w
    <3> QED
      BY <2>1, PostStep
  <2>3. page' = [page EXCEPT ![o] = v]
    BY <1>3 DEF postCreate, P
  <2>4. DOMAIN page = Operators
    BY DEF PagesInv
  <2> HIDE DEF v, w
  <2>5. ASSUME NEW q \in Operators PROVE PageOK(allTenants', page'[q])
    <3>1. CASE q = o
      BY <2>2, <2>3, <2>4, <3>1 DEF PageOK
    <3>2. CASE q # o
      <4>1. page'[q] = page[q]
        BY <2>3, <2>4, <3>2
      <4> QED
        BY <1>2, <4>1
    <3> QED
      BY <3>1, <3>2
  <2>6. page' = [q \in Operators |-> page'[q]]
    BY <2>3, <2>4
  <2> QED
    BY <2>5, <2>6 DEF PagesInv
<1>4. CASE \E s \in Slugs, origin, key \in BOOLEAN : postDirect(o, s, origin, key)
  <2>1. UNCHANGED page
    BY <1>4 DEF postDirect
  <2> QED
    BY <1>2, <2>1 DEF PagesInv
<1> QED
  BY <1>3, <1>4

(* The list's actions *)

LEMMA OwesLess ==
    ASSUME NEW all, NEW f, NEW base, NEW seen, NEW more, Waiting(all, f, base, seen), seen \subseteq more
    PROVE  Waiting(all, f, base, more)
BY DEF Waiting

(* An answer of the server for the filter on show. *)
LEMMA AnswerKeeps ==
    ASSUME CreatedInv, NEW v, NEW old, ListRec(v), OnRow(v.filter),
           Waiting(allTenants, v.filter, v.base, old),
           v.data = listTenants(v.filter), v.seen = old \cup v.data.items, GoingServes(allTenants, v)
    PROVE  ListOK(allTenants, v)
<1>1. v.filter \in Filters
  BY DEF ListRec
<1>2. /\ v.data = [items |-> v.data.items, nextCursor |-> v.data.nextCursor]
      /\ v.data.nextCursor \in AllSlugs \cup {None}
      /\ v.data.nextCursor # None =>
            /\ Keeps(v.filter, v.data.nextCursor)
            /\ Waiting(allTenants, [v.filter EXCEPT !.cursor = v.data.nextCursor], v.base, old \cup v.data.items)
      /\ v.data.nextCursor = None => v.base \subseteq old \cup v.data.items
  BY <1>1, AnswerServesWalk
<1>3. DataServes(allTenants, v)
  BY <1>2 DEF DataServes
<1>4. Waiting(allTenants, v.filter, v.base, v.seen)
  BY OwesLess
<1> QED
  BY <1>3, <1>4 DEF ListOK

(* A walk that begins owes the rows of its list; it has no cursor yet. *)
LEMMA WalkBegins ==
    ASSUME CreatedInv, NEW f \in Filters, f.cursor = None
    PROVE  Waiting(allTenants, f, SlugsAt(Matching(f)), {})
<1>1. None \notin Ran(allTenants)
  <2>1. \A i \in DOMAIN allTenants : allTenants[i] \in AllSlugs
    BY NowInOrder DEF IsOrder
  <2> QED
    BY <2>1, TenantConsoleAssumption DEF Ran, AllSlugs
<1>2. \A u \in SlugsAt(Matching(f)) : u \in Ran(allTenants) /\ Keeps(f, u)
  BY DEF SlugsAt, Matching, Ran
<1> QED
  BY <1>1, <1>2 DEF Waiting

(* A list page as the server renders it: a first page begins a walk. *)
LEMMA PageRendered ==
    ASSUME CreatedInv, NEW f \in Filters, NEW seen, NEW base, NEW box \in Queries \cup {None},
           NEW timer \in [q : Queries \cup {None}, filter : Filters] \cup {None},
           OnRow(f), f.cursor # None => Waiting(allTenants, f, base, seen)
    PROVE  ListOK(allTenants, ListPage(f, seen, base, box, timer))
<1> DEFINE v == ListPage(f, seen, base, box, timer)
           old == IF f.cursor = None THEN {} ELSE seen
           base1 == IF f.cursor = None THEN SlugsAt(Matching(f)) ELSE base
           d == listTenants(f)
<1>1. v = [kind |-> "list", filter |-> f, data |-> d, going |-> None, box |-> box, timer |-> timer,
           seen |-> d.items \cup old, base |-> base1]
  BY DEF ListPage
<1>2. Waiting(allTenants, f, base1, old)
  BY WalkBegins
<1> HIDE DEF v, old, base1, d
<1>3. /\ v.filter = f /\ v.data = d /\ v.going = None /\ v.box = box /\ v.timer = timer
      /\ v.seen = d.items \cup old /\ v.base = base1
  BY <1>1
<1>4. ListRec(v)
  BY <1>1, <1>3 DEF ListRec
<1>5. v.seen = old \cup v.data.items
  BY <1>3
<1>6. GoingServes(allTenants, v)
  BY <1>3 DEF GoingServes
<1>7. v.data = listTenants(v.filter)
  BY <1>3 DEF d
<1>8. ListOK(allTenants, v)
  BY <1>2, <1>3, <1>4, <1>5, <1>6, <1>7, AnswerKeeps
<1> QED
  BY <1>8 DEF v

(* The rows stay; where the page is going, the box and the timer change. *)
LEMMA ListMoves ==
    ASSUME NEW all, NEW l, NEW v, ListOK(all, l), ListRec(v), v.filter = l.filter, v.data = l.data,
           v.seen = l.seen, v.base = l.base, GoingServes(all, v)
    PROVE  ListOK(all, v)
<1>1. DataServes(all, v)
  BY DEF ListOK, DataServes
<1> QED
  BY <1>1 DEF ListOK

LEMMA OnListFacts ==
    ASSUME PagesInv, NEW o \in Operators, OnList(o)
    PROVE  /\ ListOK(allTenants, P(o)) /\ ListRec(P(o)) /\ P(o).filter \in Filters
           /\ GoingServes(allTenants, P(o)) /\ DataServes(allTenants, P(o))
<1>1. PageOK(allTenants, P(o)) /\ P(o).kind = "list"
  BY DEF PagesInv, P, OnList
<1>2. ListOK(allTenants, P(o))
  BY <1>1, KindsOfPages
<1> QED
  BY <1>2 DEF ListOK, ListRec

(* tenantListHref with a patch that keeps the cursor asks for the first page. *)
LEMMA HrefStartsOver ==
    ASSUME NEW f \in Filters
    PROVE  /\ \A ph \in PhasePills \cup {None} :
                 LET g == tenantListHref(f, [f EXCEPT !.phase = ph]) IN g \in Filters /\ g.cursor = None
           /\ \A q \in Queries \cup {None} :
                 LET g == tenantListHref(f, [f EXCEPT !.q = q]) IN g \in Filters /\ g.cursor = None
BY DEF tenantListHref, Filters

LEMMA GoKeeps ==
    ASSUME PagesInv, NEW o \in Operators, OnList(o), NEW g \in Filters, Go(o, g),
           OnRow(g), g.cursor # None => Waiting(allTenants, g, P(o).base, P(o).seen)
    PROVE  PagesInv'
<1> DEFINE l == P(o)  v == [l EXCEPT !.going = g]
<1>1. ListOK(allTenants, l) /\ ListRec(l)
  BY OnListFacts
<1>2. UNCHANGED created /\ page' = [page EXCEPT ![o] = v]
  BY DEF Go, Set
<1>3. g.cursor # None => Waiting(allTenants, g, l.base, l.seen)
  OBVIOUS
<1> HIDE DEF l
<1>4. ListRec(v) /\ v.filter = l.filter /\ v.data = l.data /\ v.seen = l.seen /\ v.base = l.base /\ v.going = g
  BY <1>1 DEF ListRec
<1> HIDE DEF v
<1>5. GoingServes(allTenants, v)
  BY <1>3, <1>4 DEF GoingServes
<1>6. PageOK(allTenants, v)
  BY <1>1, <1>4, <1>5, ListMoves DEF PageOK
<1> QED
  BY <1>2, <1>6, OnePageMoves

LEMMA ListClicksKeep ==
    ASSUME PagesInv, NEW o \in Operators,
           nextPage(o) \/ prevPage(o) \/ \E ph \in PhasePills \cup {None} : phasePill(o, ph)
    PROVE  PagesInv'
<1> DEFINE l == P(o)  f == l.filter
<1>0. OnList(o)
  BY DEF nextPage, prevPage, phasePill
<1>1. ListOK(allTenants, l) /\ f \in Filters /\ DataServes(allTenants, l)
  BY <1>0, OnListFacts
<1>2. ASSUME NEW g \in Filters, g.cursor = None, Go(o, g)
      PROVE  PagesInv'
  <2>1. OnRow(g)
    BY <1>2 DEF OnRow
  <2> QED
    BY <1>0, <1>2, <2>1, GoKeeps
<1>3. ASSUME NEW ph \in PhasePills \cup {None}, phasePill(o, ph)
      PROVE  PagesInv'
  <2>1. Go(o, tenantListHref(f, [f EXCEPT !.phase = ph]))
    BY <1>3 DEF phasePill
  <2> HIDE DEF f
  <2> QED
    BY <1>1, <1>2, <2>1, HrefStartsOver
<1>4. CASE prevPage(o)
  <2> DEFINE g == [f EXCEPT !.cursor = None]
  <2>1. Go(o, g)
    BY <1>4 DEF prevPage
  <2>2. g \in Filters /\ g.cursor = None
    <3> HIDE DEF f
    <3> QED
      BY <1>1 DEF Filters
  <2> QED
    BY <1>2, <2>1, <2>2
<1>5. CASE nextPage(o)
  <2> DEFINE c == l.data.nextCursor
             g == [f EXCEPT !.cursor = c]
  <2>1. Go(o, g) /\ c # None
    BY <1>5 DEF nextPage
  <2>2. c \in AllSlugs /\ Keeps(f, c) /\ Waiting(allTenants, g, l.base, l.seen)
    BY <1>1, <2>1 DEF DataServes
  <2>3. g \in Filters /\ g.cursor = c /\ g.phase = f.phase /\ g.q = f.q
    <3> HIDE DEF f, c
    <3> QED
      BY <1>1, <2>2 DEF Filters
  <2>4. OnRow(g)
    BY <2>2, <2>3 DEF OnRow, Keeps
  <2> HIDE DEF g
  <2> QED
    BY <1>0, <2>1, <2>2, <2>3, <2>4, GoKeeps
<1> QED
  BY <1>3, <1>4, <1>5

LEMMA SearchKeeps ==
    ASSUME PagesInv, NEW o \in Operators, timerFires(o) \/ \E q \in Queries \cup {None} : schedule(o, q)
    PROVE  PagesInv'
<1> DEFINE l == P(o)
<1>0. ListOK(allTenants, l) /\ ListRec(l) /\ l.filter \in Filters /\ GoingServes(allTenants, l)
  BY OnListFacts DEF timerFires, schedule
<1>1. ASSUME NEW q \in Queries \cup {None}, schedule(o, q)
      PROVE  PagesInv'
  <2> DEFINE t == [q |-> q, filter |-> l.filter]
             u == [l EXCEPT !.box = q]
             v == [u EXCEPT !.timer = t]
  <2>1. Set(o, v)
    BY <1>1 DEF schedule
  <2>2. t \in [q : Queries \cup {None}, filter : Filters]
    BY <1>0
  <2> HIDE DEF l, t
  <2>3. ListRec(u) /\ u.filter = l.filter /\ u.data = l.data /\ u.seen = l.seen /\ u.base = l.base /\ u.going = l.going
    BY <1>0 DEF ListRec
  <2> HIDE DEF u
  <2>4. ListRec(v) /\ v.filter = l.filter /\ v.data = l.data /\ v.seen = l.seen /\ v.base = l.base /\ v.going = l.going
    BY <2>2, <2>3 DEF ListRec
  <2> HIDE DEF v
  <2>5. GoingServes(allTenants, v)
    BY <1>0, <2>4 DEF GoingServes
  <2>6. PageOK(allTenants, v)
    BY <1>0, <2>4, <2>5, ListMoves DEF PageOK
  <2> QED
    BY <2>1, <2>6, OnePageMoves DEF Set
<1>2. CASE timerFires(o)
  <2> DEFINE t == l.timer
             g == IF t.q = t.filter.q THEN l.going ELSE tenantListHref(t.filter, [t.filter EXCEPT !.q = t.q])
             u == [l EXCEPT !.timer = None]
             v == [u EXCEPT !.going = g]
  <2>1. Set(o, [l EXCEPT !.timer = None, !.going = g]) /\ t # None
    BY <1>2 DEF timerFires
  <2>2. [l EXCEPT !.timer = None, !.going = g] = v
    OBVIOUS
  <2>3. t.q \in Queries \cup {None} /\ t.filter \in Filters
    BY <1>0, <2>1 DEF ListRec
  <2>4. g = l.going \/ (g \in Filters /\ g.cursor = None)
    BY <2>3, HrefStartsOver
  <2>5. l.going \in Filters \cup {None}
    BY <1>0 DEF ListRec
  <2> HIDE DEF l, g, t
  <2>6. ListRec(u) /\ u.filter = l.filter /\ u.data = l.data /\ u.seen = l.seen /\ u.base = l.base
    BY <1>0 DEF ListRec
  <2> HIDE DEF u
  <2>7. ListRec(v) /\ v.filter = l.filter /\ v.data = l.data /\ v.seen = l.seen /\ v.base = l.base /\ v.going = g
    BY <2>4, <2>5, <2>6 DEF ListRec
  <2> HIDE DEF v
  <2>8. GoingServes(allTenants, v)
    BY <1>0, <2>4, <2>7 DEF GoingServes, OnRow
  <2>9. PageOK(allTenants, v)
    BY <1>0, <2>7, <2>8, ListMoves DEF PageOK
  <2> QED
    BY <2>1, <2>2, <2>9, OnePageMoves DEF Set
<1> QED
  BY <1>1, <1>2

(* The poll: a longer walk over the same filter. *)
LEMMA PollKeeps ==
    ASSUME PagesInv, CreatedInv, NEW o \in Operators, poll(o)
    PROVE  PagesInv'
<1> DEFINE l == P(o)
           d == listTenants(l.filter)
           more == l.seen \cup d.items
           u == [l EXCEPT !.data = d]
           v == [u EXCEPT !.seen = more]
<1>0. ListOK(allTenants, l) /\ ListRec(l) /\ GoingServes(allTenants, l)
  BY OnListFacts DEF poll
<1>1. Set(o, [l EXCEPT !.data = d, !.seen = more])
  BY DEF poll
<1>2. [l EXCEPT !.data = d, !.seen = more] = v
  OBVIOUS
<1> HIDE DEF l, d, more
<1>3. ListRec(u) /\ u.filter = l.filter /\ u.data = d /\ u.base = l.base /\ u.going = l.going
  BY <1>0 DEF ListRec
<1> HIDE DEF u
<1>4. ListRec(v) /\ v.filter = l.filter /\ v.data = d /\ v.base = l.base /\ v.going = l.going /\ v.seen = more
  BY <1>3 DEF ListRec
<1> HIDE DEF v
<1>5. GoingServes(allTenants, v)
  BY <1>0, <1>4, OwesLess DEF GoingServes, more
<1>6. ListOK(allTenants, v)
  BY <1>0, <1>4, <1>5, AnswerKeeps DEF ListOK, more, d
<1> QED
  BY <1>1, <1>2, <1>6, OnePageMoves DEF Set, PageOK

(* Rendering, leaving, and everything else *)

LEMMA NewPageKeeps ==
    ASSUME PagesInv, UNCHANGED created, NEW o \in Operators, NewPage(o)
    PROVE  PagesInv'
BY OnePageMoves DEF NewPage, PageOK

LEMMA RenderKeeps ==
    ASSUME PagesInv, CreatedInv, NEW o \in Operators, Render(o)
    PROVE  PagesInv'
<1>1. PageOK(allTenants, ListPage(NoFilter, {}, {}, None, None))
  <2>1. NoFilter \in Filters /\ NoFilter.cursor = None
    BY DEF NoFilter, Filters
  <2>2. OnRow(NoFilter)
    BY <2>1 DEF OnRow
  <2> QED
    BY <2>1, <2>2, PageRendered DEF PageOK
<1>2. PageOK(allTenants, Wizard)
  <2>1. Wizard.urlStep = "identity" /\ Wizard.sent = None /\ Wizard.post = "idle"
    BY DEF Wizard
  <2>2. WizardRec(Wizard)
    BY DEF Wizard, WizardRec
  <2>3. SentChecked(Wizard)
    BY <2>1 DEF SentChecked
  <2> QED
    BY <2>1, <2>2, <2>3 DEF PageOK, WizardOK, Steps
<1>3. PageOK(allTenants, NoPage)
  BY DEF PageOK
<1> DEFINE p == CASE ~currentOperator(o) -> NoPage
                  [] currentOperator(o) /\ tab[o].path = "/tenants" -> ListPage(NoFilter, {}, {}, None, None)
                  [] currentOperator(o) /\ tab[o].path = "/tenants/new" -> Wizard
                  [] OTHER -> NoPage
<1>4. p \in {NoPage, ListPage(NoFilter, {}, {}, None, None), Wizard}
  OBVIOUS
<1>5. PageOK(allTenants, p)
  BY <1>1, <1>2, <1>3, <1>4
<1>6. UNCHANGED created /\ page' = [page EXCEPT ![o] = p]
  BY DEF Render
<1> HIDE DEF p
<1> QED
  BY <1>5, <1>6, OnePageMoves

LEMMA ArriveKeeps ==
    ASSUME PagesInv, CreatedInv, NEW o \in Operators, arrive(o)
    PROVE  PagesInv'
<1> DEFINE l == P(o)  g == l.going
<1>0. ListOK(allTenants, l) /\ ListRec(l) /\ GoingServes(allTenants, l)
  BY OnListFacts DEF arrive
<1>1. CASE proxySession(o)
  <2> DEFINE v == ListPage(g, l.seen, l.base, l.box, l.timer)
  <2>1. Set(o, v) /\ g # None
    BY <1>1 DEF arrive
  <2>2. g \in Filters /\ l.box \in Queries \cup {None}
        /\ l.timer \in [q : Queries \cup {None}, filter : Filters] \cup {None}
    BY <1>0, <2>1 DEF ListRec
  <2>3. OnRow(g) /\ (g.cursor # None => Waiting(allTenants, g, l.base, l.seen))
    BY <1>0, <2>1 DEF GoingServes
  <2> HIDE DEF l, g
  <2>4. PageOK(allTenants, v)
    BY <2>2, <2>3, PageRendered DEF PageOK
  <2> QED
    BY <2>1, <2>4, OnePageMoves DEF Set
<1>2. CASE ~proxySession(o)
  <2>1. NewPage(o) /\ UNCHANGED created
    BY <1>2 DEF arrive
  <2> QED
    BY <2>1, NewPageKeeps
<1> QED
  BY <1>1, <1>2

(* A restart: what a walk owes is cut down to the fixtures. *)
LEMMA RestartKeeps ==
    ASSUME PagesInv, CreatedInv, CreatedInv', restart
    PROVE  PagesInv'
<1> DEFINE n == Len(created)  m == Len(Fixtures)
           all == allTenants  new == allTenants'
<1>1. /\ n \in Nat /\ m \in Nat /\ IsOrder(all, n + m) /\ IsOrder(new, m)
      /\ \A i \in 1..m : new[i] = all[n + i]
      /\ Ran(new) = Ran(Fixtures)
  BY ListAfterRestart DEF restart
<1>2. page' = [o \in Operators |-> IF page[o].kind # "list" THEN page[o]
                                   ELSE [page[o] EXCEPT !.base = @ \cap Ran(Fixtures)]]
  BY DEF restart
<1>3. ASSUME NEW o \in Operators
      PROVE  PageOK(new, page'[o])
  <2> DEFINE l == page[o]  b == l.base \cap Ran(Fixtures)  v == [l EXCEPT !.base = b]
  <2>0. PageOK(all, l)
    BY DEF PagesInv
  <2>1. CASE l.kind # "list"
    <3>1. page'[o] = l
      BY <1>2, <2>1
    <3>2. ~ListOK(all, l)
      BY <2>1 DEF ListOK, ListRec
    <3> QED
      BY <2>0, <3>1, <3>2 DEF PageOK
  <2>2. CASE l.kind = "list"
    <3>1. page'[o] = v
      BY <1>2, <2>2
    <3>2. ListOK(all, l)
      BY <2>0, <2>2, KindsOfPages
    <3> HIDE DEF l, all, new, n, m
    <3>3. ListRec(v) /\ v.filter = l.filter /\ v.data = l.data /\ v.seen = l.seen /\ v.base = b /\ v.going = l.going
      BY <3>2 DEF ListOK, ListRec
    <3> HIDE DEF v
    <3>4. b = l.base \cap Ran(new)
      BY <1>1
    <3> HIDE DEF b
    <3>5. ASSUME NEW f, Waiting(all, f, l.base, l.seen)
          PROVE  Waiting(new, f, b, l.seen)
      BY <1>1, <3>4, <3>5, OwesFixturesAfterRestart
    <3>6. DataServes(new, v)
      <4>1. DataServes(all, l)
        BY <3>2 DEF ListOK
      <4> QED
        BY <3>3, <3>4, <3>5, <4>1 DEF DataServes
    <3>7. GoingServes(new, v)
      <4>1. GoingServes(all, l)
        BY <3>2 DEF ListOK
      <4> QED
        BY <3>3, <3>5, <4>1 DEF GoingServes
    <3>8. ListOK(new, v)
      BY <3>2, <3>3, <3>5, <3>6, <3>7 DEF ListOK
    <3> QED
      BY <3>1, <3>8 DEF PageOK
  <2> QED
    BY <2>1, <2>2
<1>4. page' = [o \in Operators |-> page'[o]]
  BY <1>2
<1> HIDE DEF all
<1> QED
  BY <1>3, <1>4 DEF PagesInv

LEMMA PagesSystem ==
    ASSUME PagesInv, CreatedInv, CreatedInv', NEW o \in Operators, System(o)
    PROVE  PagesInv'
<1>1. CASE (proxy(o) \/ Home(o)) /\ UNCHANGED <<created, page>>
  BY <1>1, PagesStay
<1>2. CASE Render(o)
  BY <1>2, RenderKeeps
<1>3. CASE arrive(o)
  BY <1>3, ArriveKeeps
<1>4. CASE debounce(o) \/ slugCheck(o)
  BY <1>4, FormKeeps
<1>5. CASE postGuard(o) \/ answered(o)
  BY <1>5, PostKeeps
<1>6. CASE postCreate(o)
  BY <1>6, CreateKeeps
<1>7. CASE push(o)
  BY <1>7, NewPageKeeps DEF push
<1> QED
  BY <1>1, <1>2, <1>3, <1>4, <1>5, <1>6, <1>7 DEF System

LEMMA PagesOperator ==
    ASSUME PagesInv, CreatedInv, CreatedInv', NEW o \in Operators, OperatorStep(o)
    PROVE  PagesInv'
<1>1. CASE login(o) /\ UNCHANGED <<created, page>>
  BY <1>1, PagesStay
<1>2. CASE NewPage(o) /\ UNCHANGED created
  BY <1>2, NewPageKeeps
<1>3. CASE nextPage(o) \/ prevPage(o) \/ \E ph \in PhasePills \cup {None} : phasePill(o, ph)
  BY <1>3, ListClicksKeep
<1>4. CASE \E q \in Queries \cup {None} : schedule(o, q)
  BY <1>4, SearchKeeps
<1>5. CASE \/ submit(o) \/ fillSource(o) \/ resyncInterval(o)
           \/ (\E n \in Names : displayName(o, n))
           \/ (\E s \in Slugs \cup {None} : editSlug(o, s))
           \/ (\E from \in Sources : startFrom(o, from))
           \/ (\E step \in Steps : goTo(o, step))
  BY <1>5, FormKeeps
<1>6. CASE \E s \in Slugs, origin, key \in BOOLEAN : postDirect(o, s, origin, key)
  BY <1>6, CreateKeeps
<1> QED
  BY <1>1, <1>2, <1>3, <1>4, <1>5, <1>6 DEF OperatorStep, Steps

LEMMA PagesStep ==
    ASSUME PagesInv, CreatedInv, CreatedInv', [Next]_vars
    PROVE  PagesInv'
<1>1. ASSUME NEW o \in Operators, System(o) PROVE PagesInv'
  BY <1>1, PagesSystem
<1>2. ASSUME NEW o \in Operators, timerFires(o) PROVE PagesInv'
  BY <1>2, SearchKeeps
<1>3. ASSUME NEW o \in Operators, poll(o) PROVE PagesInv'
  BY <1>3, PollKeeps
<1>4. ASSUME NEW o \in Operators, loseAnswer(o) PROVE PagesInv'
  BY <1>4, PostKeeps
<1>5. ASSUME NEW o \in Operators, OperatorStep(o) PROVE PagesInv'
  BY <1>5, PagesOperator
<1>6. CASE restart
  BY <1>6, RestartKeeps
<1>7. CASE UNCHANGED <<created, page>>
  BY <1>7, PagesStay
<1> QED
  BY <1>1, <1>2, <1>3, <1>4, <1>5, <1>6, <1>7 DEF Next, vars

LEMMA PagesInvariant == Spec => []PagesInv
<1>1. Init => PagesInv
  BY DEF Init, PagesInv, PageOK
<1>2. CreatedInv /\ PagesInv /\ [Next]_vars => (CreatedInv' => PagesInv')
  BY PagesStep
<1> QED
  BY <1>1, <1>2, CreatedInvariant, PTL DEF Spec

(* A walk over the pages shows every tenant that was there when it began, for *)
(* any page size, filters, searches and number of tenants, whoever creates    *)
(* tenants meanwhile (listTenants, tenantListHref).                           *)
THEOREM WalksMissNothing == Spec => []NoTenantSkipped
<1>1. PagesInv => NoTenantSkipped
  <2> SUFFICES ASSUME PagesInv, NEW o \in Operators, page[o].kind = "list"
               PROVE  page[o].data.nextCursor = None => page[o].base \subseteq page[o].seen
    BY DEF NoTenantSkipped
  <2>1. ListOK(allTenants, page[o])
    BY KindsOfPages DEF PagesInv
  <2> QED
    BY <2>1 DEF ListOK, DataServes
<1> QED
  BY <1>1, PagesInvariant, PTL

(* A wizard submits only slugs the server answered for, however they are      *)
(* retyped (useSlugCheck, wizard step guards).                                *)
THEOREM ChecksComeFirst == Spec => []SubmittedWasChecked
<1>1. PagesInv => SubmittedWasChecked
  <2> SUFFICES ASSUME PagesInv, NEW o \in Operators, page[o].kind = "wizard", page[o].sent # None
               PROVE  page[o].sent.slug \in ValidSlugs /\ page[o].check[page[o].sent.slug] # "none"
    BY DEF SubmittedWasChecked
  <2>1. WizardOK(page[o])
    BY KindsOfPages DEF PagesInv
  <2> QED
    BY <2>1 DEF WizardOK, SentChecked
<1> QED
  BY <1>1, PagesInvariant, PTL

(* Tabs, pages and filters keep their ranges, and the cursor in a list's URL  *)
(* is a row its other parameters describe.                                    *)
THEOREM TenantPagesTyped == Spec => []TypeOK
<1>1. SessionInv /\ CreatedInv /\ PagesInv => TypeOK
  <2> SUFFICES ASSUME SessionInv, CreatedInv, PagesInv PROVE TypeOK
    OBVIOUS
  <2>1. jar \in [Operators -> {"none", "live", "dead"}] /\ \A o \in Operators : tab[o] \in Tab
    BY DEF SessionInv, Cookies
  <2>2. Ran(created) \subseteq ValidSlugs
    BY DEF CreatedInv, Ran
  <2>3. ASSUME NEW o \in Operators
        PROVE  /\ page[o].kind \in {"none", "list", "wizard"}
               /\ page[o].kind = "list" => OnRow(page[o].filter)
               /\ page[o].kind = "wizard" => page[o].urlStep \in Steps /\ page[o].slug \in Slugs \cup {None}
    <3>1. PageOK(allTenants, page[o])
      BY DEF PagesInv
    <3> QED
      BY <3>1, KindsOfPages DEF ListOK, WizardOK, WizardRec
  <2> QED
    BY <2>1, <2>2, <2>3 DEF TypeOK, Tab, Paths, Steps, OnRow
<1> QED
  BY <1>1, SessionInvariant, CreatedInvariant, PagesInvariant, PTL

================================================================================
