---------------------------- MODULE TenantConsole -----------------------------
(***************************************************************************)
(* The tenant pages of the console on top of ConsoleSession: the store of  *)
(* tenants created here (features/tenants/server.ts), the paged list with  *)
(* its filters and search in the URL, and the new-tenant wizard with its   *)
(* debounced slug check.                                                   *)
(***************************************************************************)
EXTENDS ConsoleSession

CONSTANTS
    Fixtures,       \* slugs of the fixture tenants in their fixed order
    PhaseOf,        \* phase of each fixture tenant; a created one is Pending
    Slugs,          \* slugs an operator may type
    ValidSlugs,     \* the ones validateSlug accepts
    Sources,        \* blank, copy, yaml: what a new spec may start from
    Names,          \* display names
    deriveSlug,     \* Names -> Slugs, or None
    Queries,        \* search texts
    Matches,        \* Queries -> the slugs whose row contains the text
    PhasePills,     \* phases the filter bar offers
    PageSize,
    Uses,           \* Operators -> the controls each may use (bounds them)
    MaxClicks, MaxRestarts      \* bounds

ASSUME TenantConsoleAssumption ==
    /\ {"/tenants", "/tenants/new", "/tenants/[slug]"} \subseteq Pages
    /\ ValidSlugs \subseteq Slugs /\ None \notin Slugs \cup DOMAIN PhaseOf /\ "blank" \in Sources
    /\ deriveSlug \in [Names -> Slugs \cup {None}]
    /\ PageSize \in Nat \ {0} /\ MaxClicks \in Nat /\ MaxRestarts \in Nat
    /\ Fixtures \in Seq(DOMAIN PhaseOf)
    /\ \A i, j \in DOMAIN Fixtures : Fixtures[i] = Fixtures[j] => i = j

VARIABLES
    created,        \* slugs of the created tenants in order
    page,           \* client state of each operator's tab
    clicks, restarts

vars == <<sessionVars, created, page, clicks, restarts>>

-----------------------------------------------------------------------------
(* features/tenants/server.ts *)

Ran(s) == {s[i] : i \in DOMAIN s}
Reversed(s) == [i \in DOMAIN s |-> s[Len(s) + 1 - i]]

(* Newest created tenants first, then the fixtures in their order. *)
allTenants == Reversed(created) \o Fixtures
FindsCreatedOnly(slug) == slug \in Ran(created)           \* mutant: fixtures forgotten
findAny(slug) == slug \in Ran(allTenants)

phase(slug) == IF slug \in Ran(Fixtures) THEN PhaseOf[slug] ELSE "Pending"
Keeps(f, slug) == /\ f.phase # None => phase(slug) = f.phase
                  /\ f.q # None => slug \in Matches[f.q]

(* The rows a filter keeps, by their places in the list. *)
Matching(f) == {i \in DOMAIN allTenants : Keeps(f, allTenants[i])}
SlugsAt(S) == {allTenants[i] : i \in S}

(* The cursor is the slug of the last row of the page before; an unknown one  *)
(* starts at the first page.                                                  *)
StartsOneLate(S, c) == {i \in S : \A k \in S : allTenants[k] = c => i > k + 1}   \* mutant: off by one
AfterCursor(S, c) == {i \in S : \A k \in S : allTenants[k] = c => i > k}
FirstRows(S) == {i \in S : Cardinality({j \in S : j < i}) < PageSize}
listTenants(f) ==
    LET rest == AfterCursor(Matching(f), f.cursor)
        rows == FirstRows(rest)
    IN  [items |-> SlugsAt(rows),
         nextCursor |-> IF rows = rest THEN None ELSE allTenants[CHOOSE i \in rows : \A j \in rows : j <= i]]

isSlugAvailable(slug) == slug \in ValidSlugs /\ ~findAny(slug)

(* CreateTenantInputSchema, then createTenant: the status of the POST. *)
createStatus(body) == IF body.slug \notin ValidSlugs \/ ~body.resyncInRange THEN 400
                      ELSE IF findAny(body.slug) THEN 409 ELSE 201
createTenant(body) == created' = IF createStatus(body) = 201 THEN Append(created, body.slug) ELSE created

-----------------------------------------------------------------------------
(* Pages as the server renders them *)

NoFilter == [phase |-> None, q |-> None, cursor |-> None]
NoPage == [kind |-> "none"]

(* seen and base remember what a walk over the pages showed, and what the     *)
(* list held when the walk began.                                             *)
ListPage(f, seen, base, box, timer) ==
    LET data == listTenants(f)
        from0 == f.cursor = None
    IN  [kind |-> "list", filter |-> f, data |-> data, going |-> None, box |-> box, timer |-> timer,
         seen |-> data.items \cup (IF from0 THEN {} ELSE seen),
         base |-> IF from0 THEN SlugsAt(Matching(f)) ELSE base]
Wizard == [kind |-> "wizard", name |-> None, slug |-> None, slugEdited |-> FALSE, startFrom |-> "blank",
           given |-> FALSE, resyncInRange |-> TRUE, urlStep |-> "identity", debounced |-> None,
           check |-> [s \in ValidSlugs |-> "none"], post |-> "idle", sent |-> None, status |-> 0]

NewPage(o) == page' = [page EXCEPT ![o] = NoPage]
Render(o) ==
    /\ requireOperator(o)
    /\ page' = [page EXCEPT ![o] =
         CASE ~currentOperator(o) -> NoPage
           [] currentOperator(o) /\ tab[o].path = "/tenants" -> ListPage(NoFilter, {}, {}, None, None)
           [] currentOperator(o) /\ tab[o].path = "/tenants/new" -> Wizard
           [] OTHER -> NoPage]
    /\ UNCHANGED created

-----------------------------------------------------------------------------
(* The list *)

P(o) == page[o]
OnList(o) == Shows(o, "/tenants") /\ P(o).kind = "list"
OnWizard(o) == Shows(o, "/tenants/new") /\ P(o).kind = "wizard"
Set(o, p) == page' = [page EXCEPT ![o] = p] /\ UNCHANGED <<sessionVars, created>>

(* tenantListHref: a patch without a cursor clears the cursor. *)
tenantListHref(f, patch) == IF patch.cursor = f.cursor THEN [patch EXCEPT !.cursor = None] ELSE patch
Go(o, f) == Set(o, [P(o) EXCEPT !.going = f])

phasePill(o, ph) == OnList(o) /\ Go(o, tenantListHref(P(o).filter, [P(o).filter EXCEPT !.phase = ph]))
nextPage(o) == OnList(o) /\ P(o).data.nextCursor # None
               /\ Go(o, [P(o).filter EXCEPT !.cursor = P(o).data.nextCursor])
prevPage(o) == OnList(o) /\ P(o).filter.cursor # None
               /\ Go(o, [P(o).filter EXCEPT !.cursor = None])

(* TenantSearch: the timer keeps the filter of the render it was set in. *)
schedule(o, q) == OnList(o) /\ q # P(o).box
                  /\ Set(o, [P(o) EXCEPT !.box = q, !.timer = [q |-> q, filter |-> P(o).filter]])
timerFires(o) ==
    /\ OnList(o) /\ P(o).timer # None
    /\ LET t == P(o).timer
       IN  Set(o, [P(o) EXCEPT !.timer = None,
                     !.going = IF t.q = t.filter.q THEN @
                               ELSE tenantListHref(t.filter, [t.filter EXCEPT !.q = t.q])])

(* The navigation reaches the server through the proxy; the box and its timer *)
(* live on.                                                                   *)
arrive(o) ==
    /\ OnList(o) /\ P(o).going # None
    /\ IF proxySession(o)
       THEN Set(o, ListPage(P(o).going, P(o).seen, P(o).base, P(o).box, P(o).timer))
       ELSE GoTo(o, "/login", "/tenants") /\ NewPage(o) /\ UNCHANGED <<deployment, jar, created>>

(* The poll of the page on show; a refusal keeps the previous rows. *)
poll(o) ==
    /\ OnList(o) /\ P(o).data # listTenants(P(o).filter) /\ guardRoute(o, TRUE, TRUE, FALSE) = 0
    /\ LET data == listTenants(P(o).filter)
       IN  Set(o, [P(o) EXCEPT !.data = data, !.seen = @ \cup data.items])

-----------------------------------------------------------------------------
(* The wizard *)

(* useSlugCheck *)
AnswerOfDebounced(w) == IF w.debounced \in ValidSlugs THEN w.check[w.debounced] ELSE "empty"   \* mutant
slugStatus(w) ==
    CASE w.slug = None -> "empty"
      [] w.slug # None /\ w.slug \notin ValidSlugs -> "invalid"
      [] w.slug \in ValidSlugs /\ (w.slug # w.debounced \/ w.check[w.debounced] = "none") -> "checking"
      [] OTHER -> w.check[w.debounced]

identityComplete(w) == /\ w.name # None /\ slugStatus(w) = "available"
                       /\ w.startFrom # "blank" => w.given

(* A step whose data is gone falls back to identity, in the URL too. *)
Settle(w) == IF identityComplete(w) THEN w ELSE [w EXCEPT !.urlStep = "identity"]
Update(o, w) == Set(o, Settle(w))
Pending(w) == w.post # "idle"

(* formReducer; only the identity step has these fields. *)
displayName(o, n) == /\ OnWizard(o) /\ P(o).urlStep = "identity" /\ n # P(o).name
                     /\ Update(o, [P(o) EXCEPT !.name = n,
                                     !.slug = IF P(o).slugEdited THEN @ ELSE deriveSlug[n]])
editSlug(o, s) == /\ OnWizard(o) /\ P(o).urlStep = "identity" /\ s # P(o).slug
                  /\ Update(o, [P(o) EXCEPT !.slug = s, !.slugEdited = s # None])
startFrom(o, from) == /\ OnWizard(o) /\ P(o).urlStep = "identity" /\ from # P(o).startFrom
                      /\ Update(o, [P(o) EXCEPT !.startFrom = from])
fillSource(o) == /\ OnWizard(o) /\ P(o).urlStep = "identity" /\ P(o).startFrom # "blank"
                 /\ Update(o, [P(o) EXCEPT !.given = ~@])
resyncInterval(o) == /\ OnWizard(o) /\ P(o).urlStep = "identity"
                     /\ Update(o, [P(o) EXCEPT !.resyncInRange = ~@])

debounce(o) == OnWizard(o) /\ P(o).debounced # P(o).slug
               /\ Update(o, [P(o) EXCEPT !.debounced = P(o).slug])

(* GET slug-check, at first and again on focus; 401 is an error. *)
Checked(o, s) == IF guardRoute(o, TRUE, TRUE, FALSE) # 0 THEN "error"
                 ELSE IF isSlugAvailable(s) THEN "available" ELSE "taken"
slugCheck(o) ==
    /\ OnWizard(o) /\ P(o).debounced \in ValidSlugs
    /\ P(o).check[P(o).debounced] # Checked(o, P(o).debounced)
    /\ Update(o, [P(o) EXCEPT !.check[P(o).debounced] = Checked(o, P(o).debounced)])

(* Continue and Back: one step at a time. *)
Adjacent == {<<"identity", "authorization">>, <<"authorization", "review">>,
             <<"review", "authorization">>, <<"authorization", "identity">>}
goTo(o, step) ==
    /\ OnWizard(o) /\ <<P(o).urlStep, step>> \in Adjacent /\ (step = "identity" \/ identityComplete(P(o)))
    /\ Update(o, [P(o) EXCEPT !.urlStep = step])

(* Create tenant: POST /api/tenants is guarded, reads its body, creates. *)
submit(o) ==
    /\ OnWizard(o) /\ P(o).urlStep = "review" /\ ~Pending(P(o))
    /\ Update(o, [P(o) EXCEPT !.post = "guard", !.status = 0,
                    !.sent = [slug |-> P(o).slug, resyncInRange |-> P(o).resyncInRange]])
postGuard(o) ==
    LET refusal == guardRoute(o, FALSE, TRUE, TRUE)
    IN  /\ P(o).kind = "wizard" /\ P(o).post = "guard"
        /\ Set(o, [P(o) EXCEPT !.post = IF refusal = 0 THEN "create" ELSE "answered", !.status = refusal])
postCreate(o) ==
    /\ P(o).kind = "wizard" /\ P(o).post = "create"
    /\ createTenant(P(o).sent)
    /\ page' = [page EXCEPT ![o].post = "answered", ![o].status = createStatus(P(o).sent)]
    /\ UNCHANGED sessionVars
loseAnswer(o) ==
    /\ P(o).kind = "wizard" /\ P(o).post = "answered"
    /\ Set(o, [P(o) EXCEPT !.post = "idle", !.status = -1])

(* A refusal is shown on the review step; a success refreshes every tenants   *)
(* query, the slug check among them, and only then opens the tenant's page.   *)
answered(o) ==
    /\ P(o).kind = "wizard" /\ P(o).post = "answered"
    /\ IF P(o).status = 201
       THEN Update(o, [P(o) EXCEPT !.post = "push", !.check[P(o).sent.slug] = Checked(o, P(o).sent.slug)])
       ELSE Update(o, [P(o) EXCEPT !.post = "idle"])
push(o) ==
    /\ P(o).kind = "wizard" /\ P(o).post = "push"
    /\ GoTo(o, "/tenants/[slug]", None) /\ NewPage(o)
    /\ UNCHANGED <<deployment, jar, created>>

(* A script with the operator's cookie, which may forget a header. *)
postDirect(o, s, origin, key) ==
    /\ created' = IF guardRoute(o, FALSE, origin, key) = 0 /\ createStatus([slug |-> s, resyncInRange |-> TRUE]) = 201
                  THEN Append(created, s) ELSE created
    /\ UNCHANGED <<sessionVars, page>>

(* The store is process-local; what it held is gone, for the walks as well. *)
restart ==
    /\ created' = <<>>
    /\ page' = [o \in Operators |-> IF page[o].kind # "list" THEN page[o]
                                    ELSE [page[o] EXCEPT !.base = @ \cap Ran(Fixtures)]]
    /\ UNCHANGED sessionVars

-----------------------------------------------------------------------------
Init == SessionInit /\ created = <<>> /\ page = [o \in Operators |-> NoPage]
        /\ clicks = 0 /\ restarts = 0

System(o) == \/ (proxy(o) \/ Home(o)) /\ UNCHANGED <<created, page>>
             \/ Render(o)
             \/ arrive(o) \/ debounce(o) \/ slugCheck(o)
             \/ postGuard(o) \/ postCreate(o) \/ answered(o) \/ push(o)

OperatorStep(o) ==
    \/ login(o) /\ UNCHANGED <<created, page>>
    \/ "logout" \in Uses[o] /\ logout(o) /\ NewPage(o) /\ UNCHANGED created
    \/ (\E path \in Pages \cup {"/"} : path \in Uses[o] /\ visit(o, path)) /\ NewPage(o) /\ UNCHANGED created
    \/ "link" \in Uses[o] /\ (\E n \in NextInputs : visitLogin(o, n)) /\ NewPage(o) /\ UNCHANGED created
    \/ \E ph \in PhasePills \cup {None} : phasePill(o, ph)
    \/ nextPage(o) \/ prevPage(o)
    \/ "search" \in Uses[o] /\ \E q \in Queries \cup {None} : schedule(o, q)
    \/ \E n \in Names : displayName(o, n)
    \/ "slug" \in Uses[o] /\ \E s \in Slugs \cup {None} : editSlug(o, s)
    \/ "source" \in Uses[o] /\ (fillSource(o) \/ resyncInterval(o) \/ \E from \in Sources : startFrom(o, from))
    \/ \E step \in {"identity", "authorization", "review"} : goTo(o, step)
    \/ submit(o)
    \/ "script" \in Uses[o] /\ \E s \in Slugs, origin, key \in BOOLEAN : postDirect(o, s, origin, key)

Next ==
    \/ /\ UNCHANGED <<clicks, restarts>>
       /\ \E o \in Operators : \/ System(o)
                               \/ "wait" \in Uses[o] /\ (timerFires(o) \/ poll(o))
                               \/ "expiry" \in Uses[o] /\ expire(o) /\ UNCHANGED <<created, page>>
                               \/ "lossy" \in Uses[o] /\ loseAnswer(o)
    \/ clicks < MaxClicks /\ clicks' = clicks + 1 /\ UNCHANGED restarts /\ \E o \in Operators : OperatorStep(o)
    \/ restarts < MaxRestarts /\ restarts' = restarts + 1 /\ UNCHANGED clicks /\ restart

Spec == Init /\ [][Next]_vars

-----------------------------------------------------------------------------
(* Properties *)

(* Tabs, pages and filters keep their ranges, and a cursor in the URL of the   *)
(* list is always a row of the list its other parameters describe, unless the  *)
(* row is gone (tenantListHref).                                               *)
TypeOK ==
    /\ jar \in [Operators -> {"none", "live", "dead"}]
    /\ Ran(created) \subseteq ValidSlugs
    /\ \A o \in Operators :
          /\ tab[o].path \in Pages \cup {"/", "/login"}
          /\ tab[o].stage \in {"proxy", "layout", "shown", "problem"}
          /\ page[o].kind \in {"none", "list", "wizard"}
          /\ page[o].kind = "list" =>
                LET f == page[o].filter
                IN  f.cursor # None => Keeps(f, f.cursor)
          /\ page[o].kind = "wizard" =>
                page[o].urlStep \in {"identity", "authorization", "review"} /\ page[o].slug \in Slugs \cup {None}

(* No slug ever names two tenants, however many wizards saw it as available    *)
(* and however often a POST is repeated (createTenant).                        *)
OneTenantPerSlug ==
    \A i, j \in DOMAIN allTenants : allTenants[i] = allTenants[j] => i = j

(* A walk over the pages of the list that reaches the end has shown every      *)
(* tenant that was there when it began, whoever created tenants meanwhile.     *)
NoTenantSkipped ==
    \A o \in Operators :
        page[o].kind = "list" => (page[o].data.nextCursor = None => page[o].base \subseteq page[o].seen)

(* The slug a wizard submits is one the server answered for, even when it was  *)
(* retyped within the debounce and whatever was edited while a POST ran.       *)
SubmittedWasChecked ==
    \A o \in Operators : page[o].kind = "wizard" /\ page[o].sent # None =>
        page[o].sent.slug \in ValidSlugs /\ page[o].check[page[o].sent.slug] # "none"
===============================================================================
