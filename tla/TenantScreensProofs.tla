-------------------------- MODULE TenantScreensProofs --------------------------
(***************************************************************************)
(* The six screens of a tenant, for any operators and data. Each part      *)
(* below finds the inductive invariant of one screen and its store, and    *)
(* the last puts them together: no step of one screen touches another's    *)
(* state, so ScreenInv is, for each value of page, the invariant of that   *)
(* screen. What parseModel, diffLines and explain return is a recursive    *)
(* definition over data; the theorems about drafts, comparisons and        *)
(* decisions reduce what the screens show to three facts on those          *)
(* functions alone (ParserTrue, DiffTrue, ResolverTrue).                   *)
(***************************************************************************)
EXTENDS TenantScreens, FiniteSetTheorems, TLAPS

(* What a drawer or an invitation under way may hold as its address. *)
Draws(s) == "email" \in DOMAIN s /\ s.email \in Addresses \cup {None}
Asks(c) == /\ {"email", "kind", "by"} \subseteq DOMAIN c
           /\ c.by \in Operators
           /\ c.kind = "invite" => c.email \in Addresses

(* The state of the server counts what was sent, and knows no member. *)
Counted ==
    /\ sent \in [Addresses -> Nat] /\ invited \subseteq Addresses
    /\ \A e \in Addresses : sent[e] = IF e \in invited THEN 1 ELSE 0
    /\ invited \cap Members = {}

ScreensInv == /\ \A c \in handled : Asks(c)
              /\ DOMAIN screen = Operators /\ \A o \in Operators : Draws(screen[o])

MembersInv == Counted /\ ScreensInv

(* SetScreen replaces one screen; remounting the inspector keeps the address. *)
LEMMA ScreenSet ==
    ASSUME ScreensInv, NEW o \in Operators, NEW s, Draws(s), M!SetScreen(o, s)
    PROVE  DOMAIN screen' = Operators /\ \A p \in Operators : Draws(screen'[p])
<1>1. Draws([s EXCEPT !.deleting = 0])
  BY DEF Draws
<1>2. \E t : Draws(t) /\ screen' = [screen EXCEPT ![o] = t]
  BY <1>1 DEF M!SetScreen
<1>3. PICK t : Draws(t) /\ screen' = [screen EXCEPT ![o] = t]
  BY <1>2
<1> QED
  BY <1>3 DEF ScreensInv

LEMMA CallSet ==
    ASSUME ScreensInv, NEW c \in handled, NEW d, Asks(d), M!Turns(c, d)
    PROVE  \A e \in handled' : Asks(e)
BY DEF ScreensInv, M!Turns

LEMMA CallDropped ==
    ASSUME ScreensInv, NEW c \in handled, handled' = handled \ {c}
    PROVE  \A e \in handled' : Asks(e)
BY DEF ScreensInv

(* An answer, or the loss of one, leaves the address of the drawer alone. *)
LEMMA IdleDraws ==
    ASSUME NEW s, NEW c, Draws(s)
    PROVE  Draws(M!Idle(s, c))
BY DEF Draws, M!Idle

LEMMA CountedStays ==
    ASSUME Counted, UNCHANGED <<invited, sent>>
    PROVE  Counted'
BY DEF Counted

(* inviteUser is one step after its await: it looks and adds at once. *)
LEMMA InviteKeeps ==
    ASSUME MembersInv, NEW c \in handled, M!inviteUser(c)
    PROVE  MembersInv'
<1> USE AddressesAssumption
<1>1. Asks(c) /\ c.email \in Addresses
  BY DEF MembersInv, ScreensInv, M!inviteUser, Asks
<1>2. ASSUME NEW status, M!Replies(c, status) PROVE \A e \in handled' : Asks(e)
  <2>1. Asks([c EXCEPT !.at = "answered", !.status = status, !.items = {}])
    BY <1>1 DEF Asks
  <2> QED
    BY <1>2, <2>1, CallSet DEF MembersInv, M!Replies
<1>3. ScreensInv'
  BY <1>2 DEF MembersInv, ScreensInv, M!inviteUser
<1>4. CASE UNCHANGED <<invited, sent>>
  BY <1>3, <1>4, CountedStays DEF MembersInv
<1>5. CASE /\ ~M!Known(c.email) /\ invited' = invited \cup {lower[c.email]}
           /\ sent' = [sent EXCEPT ![lower[c.email]] = @ + 1]
  <2> DEFINE a == lower[c.email]
  <2>1. a \in Addresses /\ a \notin Members /\ a \notin invited
    BY <1>1, <1>5 DEF M!Known
  <2> HIDE DEF a
  <2>2. sent[a] = 0 /\ sent \in [Addresses -> Nat] /\ invited \subseteq Addresses
    BY <2>1 DEF MembersInv, Counted
  <2>3. sent' = [sent EXCEPT ![a] = 1] /\ invited' = invited \cup {a}
    BY <1>5, <2>2 DEF a
  <2>4. sent' \in [Addresses -> Nat] /\ invited' \subseteq Addresses /\ invited' \cap Members = {}
    BY <2>1, <2>2, <2>3 DEF MembersInv, Counted
  <2>5. \A e \in Addresses : sent'[e] = IF e \in invited' THEN 1 ELSE 0
    BY <2>1, <2>2, <2>3 DEF MembersInv, Counted
  <2> QED
    BY <1>3, <2>4, <2>5 DEF MembersInv, Counted
<1> QED
  BY <1>4, <1>5 DEF M!inviteUser

(* The server's part in the roles screen. *)
LEMMA RolesServerKeeps ==
    ASSUME MembersInv, NEW c \in handled, M!rolesFor(c) \/ M!listRoles(c) \/ M!deleteRole(c)
    PROVE  MembersInv'
<1>1. Asks(c)
  BY DEF MembersInv, ScreensInv
<1>2. UNCHANGED <<invited, sent, screen>>
  BY DEF M!rolesFor, M!listRoles, M!deleteRole
<1>3. \E d : Asks(d) /\ M!Turns(c, d)
  <2>1. CASE M!rolesFor(c)
    <3>1. ASSUME NEW v, NEW items PROVE Asks([c EXCEPT !.at = v, !.items = items]) /\ Asks([c EXCEPT !.at = v])
      BY <1>1 DEF Asks
    <3> QED
      BY <2>1, <3>1 DEF M!rolesFor
  <2>2. CASE M!listRoles(c)
    <3>1. Asks([c EXCEPT !.at = "answered", !.status = 200])
      BY <1>1 DEF Asks
    <3> QED
      BY <2>2, <3>1 DEF M!listRoles
  <2>3. CASE M!deleteRole(c)
    <3>1. ASSUME NEW status PROVE Asks([c EXCEPT !.at = "answered", !.status = status, !.items = {}])
      BY <1>1 DEF Asks
    <3> QED
      BY <2>3, <3>1 DEF M!deleteRole, M!Replies
  <2> QED
    BY <2>1, <2>2, <2>3
<1>4. \A e \in handled' : Asks(e)
  BY <1>3, CallSet DEF MembersInv
<1> QED
  BY <1>2, <1>4, CountedStays DEF MembersInv, ScreensInv

(* What a browser does with an answer. *)
LEMMA ReceiveKeeps ==
    ASSUME MembersInv, NEW c \in handled,
           M!receiveInvite(c) \/ M!receiveDelete(c) \/ M!receiveRoles(c) \/ M!memberCallFails(c)
    PROVE  MembersInv'
<1> DEFINE o == c.by
<1>1. Asks(c) /\ o \in Operators /\ Draws(screen[o]) /\ ScreensInv
  BY DEF MembersInv, ScreensInv, Asks
<1>2. UNCHANGED <<invited, sent>>
  BY DEF M!receiveInvite, M!receiveDelete, M!receiveRoles, M!memberCallFails
<1> DEFINE s == M!Idle(screen[o], c)
<1>3. Draws(s)
  BY <1>1, IdleDraws
<1>4. \E t : Draws(t) /\ M!SetScreen(o, t)
  <2> HIDE DEF s, o
  <2>1. Draws([s EXCEPT !.note = lower[c.email], !.email = None])
    BY <1>3 DEF Draws
  <2>2. ASSUME NEW id PROVE Draws([s EXCEPT !.selected = None, !.listing = id])
    BY <1>3 DEF Draws
  <2>3. ASSUME NEW items PROVE Draws([s EXCEPT !.matrix = items])
    BY <1>3 DEF Draws
  <2>4. CASE M!receiveInvite(c)
    BY <1>3, <2>1, <2>4 DEF M!receiveInvite, s, o
  <2>5. CASE M!receiveDelete(c)
    BY <1>3, <2>2, <2>5 DEF M!receiveDelete, s, o
  <2>6. CASE M!receiveRoles(c)
    BY <1>1, <2>3, <2>6 DEF M!receiveRoles, s, o
  <2>7. CASE M!memberCallFails(c)
    BY <1>3, <2>7 DEF M!memberCallFails, s, o
  <2> QED
    BY <2>4, <2>5, <2>6, <2>7
<1>5. DOMAIN screen' = Operators /\ \A p \in Operators : Draws(screen'[p])
  BY <1>1, <1>4, ScreenSet
<1>6. \A e \in handled' : Asks(e)
  <2>1. Asks([c EXCEPT !.kind = "list", !.at = "sent", !.status = 0])
    BY <1>1 DEF Asks
  <2>2. handled' = handled \ {c} \/ M!Turns(c, [c EXCEPT !.kind = "list", !.at = "sent", !.status = 0])
    BY DEF M!receiveInvite, M!receiveDelete, M!receiveRoles, M!memberCallFails
  <2> QED
    BY <1>1, <2>1, <2>2, CallSet, CallDropped
<1> QED
  BY <1>2, <1>5, <1>6, CountedStays DEF MembersInv, ScreensInv

(* What an operator does. *)
LEMMA OperatorKeeps ==
    ASSUME MembersInv, NEW o \in Operators,
           \/ M!remove(o) \/ M!submit(o) \/ M!windowFocusRoles(o)
           \/ (\E e \in Addresses : M!typeEmail(o, e))
           \/ (\E r \in SeedRoles : M!select(o, r))
    PROVE  MembersInv'
<1>1. Draws(screen[o]) /\ ScreensInv
  BY DEF MembersInv, ScreensInv
<1>2. UNCHANGED <<invited, sent>>
  BY DEF M!remove, M!submit, M!windowFocusRoles, M!typeEmail, M!select, M!Sends
<1>3. \E t : Draws(t) /\ M!SetScreen(o, t)
  <2> DEFINE s == screen[o]
  <2>1. Draws([s EXCEPT !.note = None])
    BY <1>1 DEF Draws
  <2>2. ASSUME NEW e \in Addresses PROVE Draws([s EXCEPT !.email = e])
    BY <1>1 DEF Draws
  <2>3. ASSUME NEW v PROVE Draws([s EXCEPT !.selected = v]) /\ Draws([s EXCEPT !.deleting = v]) /\ Draws([s EXCEPT !.listing = v])
    BY <1>1 DEF Draws
  <2> QED
    BY <2>1, <2>2, <2>3 DEF M!remove, M!submit, M!windowFocusRoles, M!typeEmail, M!select
<1>4. DOMAIN screen' = Operators /\ \A p \in Operators : Draws(screen'[p])
  BY <1>1, <1>3, ScreenSet
<1>5. \A e \in handled' : Asks(e)
  <2>1. CASE M!submit(o)
    <3>1. screen[o].email \in Addresses
      BY <1>1, <2>1 DEF Draws, M!submit
    <3>2. Asks(M!Request(o, "invite", screen[o].email, None))
      BY <3>1 DEF Asks, M!Request
    <3> QED
      BY <1>1, <2>1, <3>2 DEF M!submit, M!Sends, ScreensInv
  <2>2. CASE M!remove(o) \/ M!windowFocusRoles(o)
    <3>1. ASSUME NEW r PROVE Asks(M!Request(o, "delete", None, r)) /\ Asks(M!Request(o, "list", None, r))
      BY DEF Asks, M!Request
    <3> QED
      BY <1>1, <2>2, <3>1 DEF M!remove, M!windowFocusRoles, M!Sends, ScreensInv
  <2>3. CASE UNCHANGED handled
    BY <1>1, <2>3 DEF ScreensInv
  <2> QED
    BY <2>1, <2>2, <2>3 DEF M!typeEmail, M!select
<1> QED
  BY <1>2, <1>4, <1>5, CountedStays DEF MembersInv, ScreensInv

LEMMA MembersInvInit == page = "members" /\ Init => MembersInv
<1> SUFFICES ASSUME Init, page = "members" PROVE MembersInv
  OBVIOUS
<1>1. M!MembersInit
  BY DEF Init
<1>2. Counted
  BY <1>1 DEF M!MembersInit, Counted
<1>3. ASSUME NEW p PROVE Draws(M!Opened(p))
  BY DEF Draws, M!Opened
<1>4. PICK p \in {"users", "roles"} : screen = [o \in Operators |-> M!Opened(p)]
  BY <1>1 DEF M!MembersInit
<1>5. ScreensInv
  BY <1>1, <1>3, <1>4 DEF M!MembersInit, ScreensInv
<1> QED
  BY <1>2, <1>5 DEF MembersInv

LEMMA MembersInvStep == page = "members" /\ MembersInv /\ [Next]_vars => MembersInv'
<1> SUFFICES ASSUME page = "members", MembersInv, [Next]_vars PROVE MembersInv'
  OBVIOUS
<1>1. CASE UNCHANGED memberVars
  BY <1>1, CountedStays DEF MembersInv, ScreensInv, memberVars
<1>2. CASE M!MembersNext
  BY <1>2, InviteKeeps, RolesServerKeeps, ReceiveKeeps, OperatorKeeps DEF M!MembersNext
<1> QED
  BY <1>1, <1>2 DEF Next, vars

-----------------------------------------------------------------------------
(* Identity providers *)

(* A form knows which issuer its probe was for; a call knows its operator. *)
Probes(f) == /\ {"probe", "probed", "probing", "issuer"} \subseteq DOMAIN f
             /\ f.probe = f.probed
Sender(c) == "by" \in DOMAIN c /\ c.by \in Operators \cup {None}
ProbesInv == /\ DOMAIN form = Operators /\ \A o \in Operators : Probes(form[o])
             /\ \A c \in calls : Sender(c)

LEMMA FormSet ==
    ASSUME ProbesInv, NEW o \in Operators, NEW f, Probes(f), P!SetForm(o, f), \A c \in calls' : Sender(c)
    PROVE  ProbesInv'
BY DEF ProbesInv, P!SetForm

LEMMA QuietProbes ==
    ASSUME NEW f, NEW c, Probes(f)
    PROVE  Probes(P!Quiet(f, c))
BY DEF Probes, P!Quiet

LEMMA MountProbes ==
    ASSUME NEW data, NEW id
    PROVE  Probes(P!Mount(data, id))
BY DEF Probes, P!Mount

LEMMA OrphanSenders ==
    ASSUME ProbesInv, NEW o, NEW kinds
    PROVE  \A c \in P!Orphaned(o, kinds) : Sender(c)
<1>1. ASSUME NEW c \in calls PROVE Sender(c) /\ Sender([c EXCEPT !.by = None])
  BY DEF ProbesInv, Sender
<1> QED
  BY <1>1 DEF P!Orphaned

(* A handler of the server. *)
LEMMA ProviderServerKeeps ==
    ASSUME ProbesInv, NEW c \in calls,
           P!providersFor(c) \/ P!listIdentityProviders(c) \/ P!testIdentityProvider(c) \/ P!stageIdentityProvider(c)
    PROVE  ProbesInv'
<1>1. Sender(c)
  BY DEF ProbesInv
<1>2. UNCHANGED form
  BY DEF P!providersFor, P!listIdentityProviders, P!testIdentityProvider, P!stageIdentityProvider
<1>3. ASSUME NEW at, NEW items
      PROVE  /\ Sender([c EXCEPT !.at = at, !.items = items]) /\ Sender([c EXCEPT !.at = at])
  BY <1>1 DEF Sender
<1>4. ASSUME NEW d, Sender(d), P!Becomes(c, d) PROVE \A e \in calls' : Sender(e)
  BY <1>4 DEF P!Becomes, ProbesInv
<1>5. ASSUME NEW how, P!Answered(c, how) PROVE \A e \in calls' : Sender(e)
  <2>1. Sender([c EXCEPT !.at = how, !.items = None])
    BY <1>3
  <2>2. \A e \in calls' : e \in calls \/ e = [c EXCEPT !.at = how, !.items = None]
    BY <1>5 DEF P!Answered
  <2> QED
    BY <2>1, <2>2 DEF ProbesInv
<1>6. ASSUME calls' = calls \ {c} PROVE \A e \in calls' : Sender(e)
  BY <1>6 DEF ProbesInv
<1>7. \A e \in calls' : Sender(e)
  <2>1. CASE P!providersFor(c)
    BY <2>1, <1>3, <1>4 DEF P!providersFor
  <2>2. CASE P!listIdentityProviders(c)
    BY <2>2, <1>3, <1>4, <1>6 DEF P!listIdentityProviders
  <2>3. CASE P!testIdentityProvider(c)
    BY <2>3, <1>5 DEF P!testIdentityProvider
  <2>4. CASE P!stageIdentityProvider(c)
    BY <2>4, <1>5 DEF P!stageIdentityProvider
  <2> QED
    BY <2>1, <2>2, <2>3, <2>4
<1> QED
  BY <1>2, <1>7 DEF ProbesInv

(* The browser takes an answer, or learns that there is none. *)
LEMMA ProviderAnswerKeeps ==
    ASSUME ProbesInv, NEW c \in calls,
           P!receiveProbe(c) \/ P!receiveStaged(c) \/ P!receiveIdps(c) \/ P!callFails(c)
    PROVE  ProbesInv'
<1> DEFINE o == c.by
           f == P!Quiet(form[o], c)
<1>1. Sender(c) /\ o \in Operators
  BY DEF ProbesInv, Sender, P!receiveProbe, P!receiveStaged, P!receiveIdps, P!callFails
<1>2. Probes(f)
  BY <1>1, QuietProbes DEF ProbesInv
<1>3. ASSUME NEW kind PROVE Sender([c EXCEPT !.kind = kind, !.at = "sent", !.items = None])
  BY <1>1 DEF Sender
<1>4. Sender([c EXCEPT !.by = None])
  BY <1>1 DEF Sender
<1>5. \A e \in calls' : Sender(e)
  <2>1. CASE P!receiveProbe(c)
    BY <2>1 DEF P!receiveProbe, ProbesInv
  <2>2. CASE P!receiveStaged(c)
    BY <2>2, <1>3, OrphanSenders DEF P!receiveStaged
  <2>3. CASE P!receiveIdps(c)
    BY <2>3, OrphanSenders DEF P!receiveIdps, ProbesInv
  <2>4. CASE P!callFails(c)
    BY <2>4, <1>4 DEF P!callFails, ProbesInv
  <2> QED
    BY <2>1, <2>2, <2>3, <2>4
<1>6. \E g : Probes(g) /\ P!SetForm(o, g)
  <2> HIDE DEF f, o
  <2>1. Probes(P!Probed(f, c))
    BY <1>2 DEF Probes, P!Probed
  <2>2. ASSUME NEW n PROVE Probes([f EXCEPT !.secret = FALSE, !.replacing = FALSE, !.listing = n])
    BY <1>2 DEF Probes
  <2>3. ASSUME NEW data PROVE Probes([f EXCEPT !.data = data])
    BY <1>2 DEF Probes
  <2>4. CASE P!receiveProbe(c)
    BY <2>1, <2>4 DEF P!receiveProbe, f, o
  <2>5. CASE P!receiveStaged(c)
    BY <2>2, <2>5 DEF P!receiveStaged, f, o
  <2>6. CASE P!receiveIdps(c)
    BY <2>3, <2>6, MountProbes DEF P!receiveIdps, f, o
  <2>7. CASE P!callFails(c)
    BY <1>2, <2>7 DEF P!callFails, f, o
  <2> QED
    BY <2>4, <2>5, <2>6, <2>7
<1> QED
  BY <1>1, <1>5, <1>6, FormSet

(* Typing and clicking in the form. *)
LEMMA FormKeeps ==
    ASSUME ProbesInv, NEW o \in Operators,
           \/ P!replaceSecret(o) \/ P!keepCurrent(o) \/ P!typeSecret(o) \/ P!onIssuerBlur(o) \/ P!testDiscovery(o)
           \/ P!stage(o) \/ P!windowFocusIdps(o)
           \/ \E i \in Issuers : P!typeIssuer(o, i)
    PROVE  ProbesInv'
<1> DEFINE f == form[o]
<1>1. Probes(f)
  BY DEF ProbesInv
<1>2. \A c \in calls' : Sender(c)
  <2>1. ASSUME NEW kind PROVE Sender(P!Call(o, kind))
    BY DEF Sender, P!Call
  <2>2. UNCHANGED calls \/ \E kind : calls' = calls \cup {P!Call(o, kind)}
    BY DEF P!replaceSecret, P!keepCurrent, P!typeSecret, P!onIssuerBlur, P!testDiscovery, P!stage,
           P!windowFocusIdps, P!typeIssuer, P!Typing, P!runProbe, P!Sends
  <2> QED
    BY <2>1, <2>2 DEF ProbesInv
<1>3. \E g : Probes(g) /\ P!SetForm(o, g)
  <2> HIDE DEF f
  <2>1. ASSUME NEW v
        PROVE  /\ Probes([f EXCEPT !.issuer = v]) /\ Probes([f EXCEPT !.replacing = v]) /\ Probes([f EXCEPT !.secret = v])
               /\ Probes([f EXCEPT !.probing = v]) /\ Probes([f EXCEPT !.staging = v]) /\ Probes([f EXCEPT !.listing = v])
    BY <1>1 DEF Probes
  <2>2. Probes([f EXCEPT !.replacing = FALSE, !.secret = FALSE])
    BY <1>1 DEF Probes
  <2>3. CASE \/ P!replaceSecret(o) \/ P!keepCurrent(o) \/ P!typeSecret(o)
             \/ \E i \in Issuers : P!typeIssuer(o, i)
    BY <2>1, <2>2, <2>3 DEF P!replaceSecret, P!keepCurrent, P!typeSecret, P!typeIssuer, P!Typing, f
  <2>4. CASE P!onIssuerBlur(o) \/ P!testDiscovery(o) \/ P!stage(o) \/ P!windowFocusIdps(o)
    BY <2>1, <2>4 DEF P!onIssuerBlur, P!testDiscovery, P!runProbe, P!stage, P!windowFocusIdps, f
  <2> QED
    BY <2>3, <2>4
<1> QED
  BY <1>2, <1>3, FormSet

LEMMA ProbesInvInit == page = "providers" /\ Init => ProbesInv
<1> SUFFICES ASSUME Init, page = "providers" PROVE ProbesInv
  OBVIOUS
<1>1. P!ProviderInit
  BY DEF Init
<1>2. PICK id \in Providers : form = [o \in Operators |-> P!Mount(SeedIdps, id)]
  BY <1>1 DEF P!ProviderInit
<1> QED
  BY <1>1, <1>2, MountProbes DEF P!ProviderInit, ProbesInv

LEMMA ProbesInvStep == page = "providers" /\ ProbesInv /\ [Next]_vars => ProbesInv'
<1> SUFFICES ASSUME page = "providers", ProbesInv, [Next]_vars PROVE ProbesInv'
  OBVIOUS
<1>1. CASE UNCHANGED idpVars
  BY <1>1 DEF ProbesInv, idpVars
<1>2. CASE P!ProviderNext
  BY <1>2, ProviderServerKeeps, ProviderAnswerKeeps, FormKeeps DEF P!ProviderNext
<1> QED
  BY <1>1, <1>2 DEF Next, vars

LEMMA ToneFollows == ProbesInv => P!IssuerToneTrue
<1> SUFFICES ASSUME ProbesInv, NEW o \in Operators
             PROVE  /\ P!issuerTone(form[o]) = "ok" => form[o].issuer \in Routable
                    /\ P!issuerTone(form[o]) = "blocked" => form[o].issuer \notin Routable
  BY DEF P!IssuerToneTrue
<1> DEFINE f == form[o]
           silent == f.probing # 0 \/ f.issuer # f.probed \/ f.probe = None
<1>1. f.probe = f.probed
  BY DEF ProbesInv, Probes
<1>2. /\ silent => P!issuerTone(f) = "none"
      /\ ~silent /\ f.probe \in Routable => P!issuerTone(f) = "ok"
      /\ ~silent /\ f.probe \notin Routable => P!issuerTone(f) = "blocked"
  BY DEF P!issuerTone, P!probeIssuer
<1> HIDE DEF f
<1>3. P!issuerTone(f) # "none" => f.issuer = f.probe
  BY <1>1, <1>2
<1>4. /\ P!issuerTone(f) = "ok" => f.issuer \in Routable
      /\ P!issuerTone(f) = "blocked" => f.issuer \notin Routable
  BY <1>2, <1>3
<1> QED
  BY <1>4 DEF f

-----------------------------------------------------------------------------
(* Relations *)

(* Keeping some places of a list closes it up: every place that is kept has a *)
(* rank, and every rank up to their number is taken.                          *)
Upto(K, i) == {j \in K : j <= i}
Rank(K, i) == Cardinality(Upto(K, i))

LEMMA RankFacts ==
    ASSUME NEW n \in Nat, NEW K \in SUBSET (1..n)
    PROVE  /\ IsFiniteSet(K) /\ Cardinality(K) \in Nat
           /\ \A i \in K : Rank(K, i) \in 1..Cardinality(K)
           /\ \A i, k \in K : Rank(K, i) = Rank(K, k) => i = k
<1>1. IsFiniteSet(K) /\ Cardinality(K) \in Nat /\ \A i \in K : i \in Int
  <2>1. IsFiniteSet(1..n)
    BY FS_Interval
  <2>2. IsFiniteSet(K)
    BY <2>1, FS_Subset, Zenon
  <2> QED
    BY <2>2, FS_CardinalityType
<1>2. \A i : Upto(K, i) \in SUBSET K
  BY DEF Upto
<1>3. \A i : IsFiniteSet(Upto(K, i)) /\ Rank(K, i) \in Nat
  BY <1>1, <1>2, FS_Subset, FS_CardinalityType DEF Rank
<1>4. ASSUME NEW i \in K
      PROVE  Rank(K, i) \in 1..Cardinality(K)
  <2>1. i \in Upto(K, i)
    BY <1>1 DEF Upto
  <2>2. Rank(K, i) # 0
    BY <1>3, <2>1, FS_EmptySet DEF Rank
  <2>3. Rank(K, i) <= Cardinality(K)
    BY <1>1, <1>2, FS_Subset DEF Rank
  <2> QED
    BY <1>1, <1>3, <2>2, <2>3
<1>5. ASSUME NEW i \in K, NEW k \in K, i < k
      PROVE  Rank(K, i) # Rank(K, k)
  <2> DEFINE below == Upto(K, i)
             upTo == Upto(K, k)
  <2>1. below \in SUBSET upTo
    <3>1. \A j \in K : j <= i => j <= k
      BY <1>1, <1>5
    <3> QED
      BY <3>1 DEF Upto
  <2>2. k \in upTo /\ k \notin below
    <3>1. k <= k /\ ~(k <= i)
      BY <1>1, <1>5
    <3> QED
      BY <3>1 DEF Upto
  <2>3. IsFiniteSet(upTo)
    BY <1>3
  <2> HIDE DEF below, upTo
  <2>4. Cardinality(below) = Cardinality(upTo) => below = upTo
    BY <2>1, <2>3, FS_Subset
  <2> QED
    BY <2>2, <2>4 DEF below, upTo, Rank
<1>6. \A i, k \in K : Rank(K, i) = Rank(K, k) => i = k
  <2>1. \A i, k \in K : i < k \/ k < i \/ i = k
    BY <1>1
  <2> QED
    BY <1>5, <2>1
<1> QED
  BY <1>1, <1>4, <1>6

LEMMA RankOnto ==
    ASSUME NEW n \in Nat, NEW K \in SUBSET (1..n), NEW p \in 1..Cardinality(K)
    PROVE  \E i \in K : Rank(K, i) = p
<1> DEFINE c == Cardinality(K)
           T == 1..c
           g == [i \in K |-> Rank(K, i)]
<1>1. IsFiniteSet(K) /\ c \in Nat
  BY RankFacts
<1>2. g \in Injection(K, T)
  <2>1. g \in [K -> T] /\ \A a, b \in K : g[a] = g[b] => a = b
    BY RankFacts
  <2> QED
    BY <2>1 DEF Injection, IsInjective
<1>3. IsFiniteSet(T) /\ Cardinality(T) = c
  <2> HIDE DEF c
  <2> QED
    BY <1>1, FS_Interval
<1>4. g \in Surjection(K, T)
  <2> HIDE DEF g, T
  <2> QED
    BY <1>1, <1>2, <1>3, FS_Injection DEF c
<1>5. \E i \in K : g[i] = p
  <2> HIDE DEF g
  <2> QED
    BY <1>4 DEF Surjection
<1> QED
  BY <1>5

Distinct(s) == \A i, j \in DOMAIN s : s[i] = s[j] => i = j

LEMMA WithoutFacts ==
    ASSUME NEW s \in Seq(Tuples), NEW gone
    PROVE  LET r == R!Without(s, gone)
           IN  /\ r \in Seq(Tuples) /\ R!Ran(r) = R!Ran(s) \ gone
               /\ Distinct(s) => Distinct(r)
<1> DEFINE n == Len(s)
           K == {i \in DOMAIN s : s[i] \notin gone}
           c == Cardinality(K)
           at == [p \in 1..c |-> CHOOSE i \in K : Rank(K, i) = p]
           r == R!Without(s, gone)
<1>1. n \in Nat /\ DOMAIN s = 1..n /\ \A i \in 1..n : s[i] \in Tuples
  OBVIOUS
<1>2. K \in SUBSET (1..n)
  BY <1>1
<1>3. c \in Nat /\ \A i \in K : Rank(K, i) \in 1..c
  BY <1>1, <1>2, RankFacts
<1>4. r = [p \in 1..c |-> s[CHOOSE i \in K : Rank(K, i) = p]]
  BY Zenon DEF R!Without, Rank, Upto, R!Cardinality, Cardinality
<1>5. ASSUME NEW p \in 1..c PROVE at[p] \in K /\ Rank(K, at[p]) = p
  <2>1. \E i \in K : Rank(K, i) = p
    <3> HIDE DEF K, n
    <3> QED
      BY <1>1, <1>2, RankOnto DEF c
  <2>2. at[p] = CHOOSE i \in K : Rank(K, i) = p
    OBVIOUS
  <2> HIDE DEF K, at
  <2> QED
    BY <2>1, <2>2
<1>6. ASSUME NEW i \in K PROVE at[Rank(K, i)] = i
  <2>1. Rank(K, i) \in 1..c
    BY <1>3
  <2>2. at[Rank(K, i)] \in K /\ Rank(K, at[Rank(K, i)]) = Rank(K, i)
    BY <1>5, <2>1
  <2> HIDE DEF K, at, n
  <2> QED
    BY <1>1, <1>2, <2>2, RankFacts
<1>7. DOMAIN r = 1..c /\ \A p \in 1..c : r[p] = s[at[p]]
  BY <1>4
<1> HIDE DEF r, at
<1>8. r \in [1..c -> Tuples]
  <2>1. \A p \in 1..c : s[at[p]] \in Tuples
    BY <1>1, <1>5
  <2> HIDE DEF K, c
  <2> QED
    BY <1>4, <1>7, <2>1
<1>9. r \in Seq(Tuples)
  <2> HIDE DEF c
  <2> QED
    BY <1>3, <1>8
<1>10. R!Ran(r) = R!Ran(s) \ gone
  <2>1. ASSUME NEW t \in R!Ran(r) PROVE t \in R!Ran(s) \ gone
    <3>1. PICK p \in 1..c : t = s[at[p]]
      BY <1>7 DEF R!Ran
    <3> QED
      BY <1>5, <3>1 DEF R!Ran
  <2>2. ASSUME NEW t \in R!Ran(s) \ gone PROVE t \in R!Ran(r)
    <3>1. PICK i \in K : t = s[i]
      BY DEF R!Ran
    <3>2. Rank(K, i) \in DOMAIN r /\ r[Rank(K, i)] = t
      BY <1>3, <1>6, <1>7, <3>1
    <3> HIDE DEF K
    <3> QED
      BY <3>2 DEF R!Ran
  <2> QED
    BY <2>1, <2>2
<1>11. ASSUME Distinct(s) PROVE Distinct(r)
  <2> SUFFICES ASSUME NEW p \in 1..c, NEW q \in 1..c, r[p] = r[q] PROVE p = q
    BY <1>7 DEF Distinct
  <2>1. at[p] = at[q]
    <3>1. s[at[p]] = s[at[q]]
      BY <1>7
    <3>2. at[p] \in DOMAIN s /\ at[q] \in DOMAIN s
      BY <1>5
    <3> QED
      BY <1>11, <3>1, <3>2 DEF Distinct
  <2> HIDE DEF K, c
  <2> QED
    BY <1>5, <2>1
<1> QED
  BY <1>9, <1>10, <1>11 DEF r

LEMMA StageInFacts ==
    ASSUME NEW s \in Seq(Tuples), Distinct(s), NEW t \in Tuples
    PROVE  R!StageIn(s, t) \in Seq(Tuples) /\ Distinct(R!StageIn(s, t))
<1>1. CASE t \in R!Ran(s)
  BY <1>1 DEF R!StageIn
<1>2. CASE t \notin R!Ran(s)
  <2> DEFINE r == Append(s, t)  n == Len(s)
  <2>1. n \in Nat /\ DOMAIN s = 1..n /\ r \in Seq(Tuples) /\ DOMAIN r = 1..(n + 1)
        /\ (\A i \in 1..n : r[i] = s[i]) /\ r[n + 1] = t
    OBVIOUS
  <2>2. \A i \in 1..n : s[i] # t
    BY <1>2, <2>1 DEF R!Ran
  <2> HIDE DEF r, n
  <2>3. Distinct(r)
    BY <2>1, <2>2 DEF Distinct
  <2> QED
    BY <1>2, <2>1, <2>3 DEF R!StageIn, r
<1> QED
  BY <1>1, <1>2

(* What one batch does to a store. *)
StoreRec == [items : Seq(Tuples), total : Int]
TotalTrue(obj) == obj \in StoreRec /\ Distinct(obj.items) /\ obj.total = Len(obj.items) + Hidden
Batch(b) == b.writes \in Seq(Tuples) /\ Distinct(b.writes)

LEMMA ApplyFacts ==
    ASSUME NEW obj, TotalTrue(obj), NEW b, Batch(b)
    PROVE  /\ TotalTrue(R!Apply(obj, b))
           /\ R!Ran(R!Apply(obj, b).items) = (R!Ran(obj.items) \ R!Ran(b.deletes)) \cup R!Ran(b.writes)
<1> USE SeedAssumption
<1> DEFINE items == obj.items
           del == R!Deleted(items, b)
           new == R!Written(items, b)
           all == del \o new
           total == R!TotalAfter(obj, b)
<1>1. items \in Seq(Tuples) /\ Distinct(items) /\ obj.total = Len(items) + Hidden /\ b.writes \in Seq(Tuples) /\ Distinct(b.writes)
  BY DEF TotalTrue, StoreRec, Batch
<1>2. del \in Seq(Tuples) /\ Distinct(del) /\ R!Ran(del) = R!Ran(items) \ R!Ran(b.deletes)
  BY <1>1, WithoutFacts DEF R!Deleted
<1>3. new \in Seq(Tuples) /\ Distinct(new) /\ R!Ran(new) = R!Ran(b.writes) \ R!Ran(del)
  BY <1>1, WithoutFacts DEF R!Written
<1>4. R!Apply(obj, b) = [items |-> all, total |-> total]
  BY DEF R!Apply
<1>5. total = obj.total + Len(new) - (Len(items) - Len(del))
  BY DEF R!TotalAfter
<1> HIDE DEF items, del, new, total
<1>6. /\ Len(del) \in Nat /\ Len(new) \in Nat /\ Len(items) \in Nat
      /\ DOMAIN del = 1..Len(del) /\ DOMAIN new = 1..Len(new)
  BY <1>1, <1>2, <1>3
<1>7. /\ all \in Seq(Tuples) /\ Len(all) = Len(del) + Len(new) /\ DOMAIN all = 1..(Len(del) + Len(new))
      /\ \A i \in 1..Len(del) : all[i] = del[i]
      /\ \A i \in (Len(del) + 1)..(Len(del) + Len(new)) : all[i] = new[i - Len(del)]
  BY <1>2, <1>3
<1> HIDE DEF all
<1>8. \A i \in 1..Len(del), j \in 1..Len(new) : del[i] # new[j]
  <2>1. \A i \in 1..Len(del) : del[i] \in R!Ran(del)
    BY <1>6 DEF R!Ran
  <2>2. \A j \in 1..Len(new) : new[j] \in R!Ran(new)
    BY <1>6 DEF R!Ran
  <2> QED
    BY <1>3, <2>1, <2>2
<1>9. Distinct(all)
  <2> SUFFICES ASSUME NEW i \in DOMAIN all, NEW j \in DOMAIN all, all[i] = all[j] PROVE i = j
    BY DEF Distinct
  <2> DEFINE d == Len(del)
  <2>1. CASE i <= d /\ j <= d
    <3>1. i \in DOMAIN del /\ j \in DOMAIN del /\ del[i] = del[j]
      BY <1>6, <1>7, <2>1
    <3> QED
      BY <1>2, <3>1 DEF Distinct
  <2>2. CASE i > d /\ j > d
    <3>1. i - d \in DOMAIN new /\ j - d \in DOMAIN new /\ new[i - d] = new[j - d]
      <4>1. i \in (d + 1)..(d + Len(new)) /\ j \in (d + 1)..(d + Len(new))
        BY <1>6, <1>7, <2>2
      <4>2. all[i] = new[i - d] /\ all[j] = new[j - d]
        BY <1>7, <4>1
      <4>3. d \in Nat /\ Len(new) \in Nat /\ DOMAIN new = 1..Len(new)
        BY <1>6
      <4> HIDE DEF d
      <4>4. i - d \in 1..Len(new) /\ j - d \in 1..Len(new)
        BY <4>1, <4>3
      <4> QED
        BY <4>2, <4>3, <4>4
    <3>2. i - d = j - d
      BY <1>3, <3>1 DEF Distinct
    <3> QED
      BY <1>6, <1>7, <3>2
  <2>3. ASSUME NEW k \in DOMAIN all, NEW l \in DOMAIN all, k <= d, l > d, all[k] = all[l] PROVE FALSE
    <3>1. k \in 1..d /\ l - d \in 1..Len(new) /\ del[k] = new[l - d]
      BY <1>6, <1>7, <2>3
    <3> QED
      BY <1>8, <3>1
  <2> QED
    BY <1>6, <1>7, <2>1, <2>2, <2>3
<1>10. R!Ran(all) = R!Ran(del) \cup R!Ran(new)
  <2>1. ASSUME NEW t \in R!Ran(all) PROVE t \in R!Ran(del) \cup R!Ran(new)
    <3>1. PICK i \in 1..(Len(del) + Len(new)) : t = all[i]
      BY <1>7 DEF R!Ran
    <3>2. CASE i <= Len(del)
      <4>1. i \in DOMAIN del /\ t = del[i]
        BY <1>6, <1>7, <3>1, <3>2
      <4> QED
        BY <4>1 DEF R!Ran
    <3>3. CASE i > Len(del)
      <4>1. i - Len(del) \in DOMAIN new /\ t = new[i - Len(del)]
        BY <1>6, <1>7, <3>1, <3>3
      <4> QED
        BY <4>1 DEF R!Ran
    <3> QED
      BY <1>6, <3>2, <3>3
  <2>2. ASSUME NEW i \in DOMAIN del PROVE del[i] \in R!Ran(all)
    <3>1. i \in DOMAIN all /\ all[i] = del[i]
      BY <1>6, <1>7
    <3> QED
      BY <3>1 DEF R!Ran
  <2>3. ASSUME NEW i \in DOMAIN new PROVE new[i] \in R!Ran(all)
    <3>1. i + Len(del) \in DOMAIN all /\ all[i + Len(del)] = new[i]
      BY <1>6, <1>7
    <3> QED
      BY <3>1 DEF R!Ran
  <2>4. R!Ran(del) \subseteq R!Ran(all) /\ R!Ran(new) \subseteq R!Ran(all)
    BY <2>2, <2>3 DEF R!Ran
  <2> QED
    BY <2>1, <2>4
<1>11. total \in Int /\ total = Len(all) + Hidden
  BY <1>1, <1>5, <1>6, <1>7
<1>12. TotalTrue([items |-> all, total |-> total])
  BY <1>7, <1>9, <1>11 DEF TotalTrue, StoreRec
<1>13. R!Ran(all) = (R!Ran(items) \ R!Ran(b.deletes)) \cup R!Ran(b.writes)
  BY <1>2, <1>3, <1>10
<1> QED
  BY <1>4, <1>12, <1>13 DEF items


(* The writes of a batch are distinct; a handler that has its store has one   *)
(* the process built.                                                         *)
WriteOK(w, s) == /\ {"at", "obj", "batch", "key", "id"} \subseteq DOMAIN w
                 /\ Batch(w.batch)
                 /\ w.at = "hot" => w.obj \in DOMAIN s
TabOK(t) == /\ {"writes", "deletes", "key", "pending", "fetch"} \subseteq DOMAIN t
            /\ {"at", "obj", "got", "from", "page"} \subseteq DOMAIN t.fetch
            /\ t.writes \in Seq(Tuples) /\ Distinct(t.writes)
StoresOK == objs \in Seq(StoreRec) /\ store \in 0..Len(objs) /\ \A i \in DOMAIN objs : TotalTrue(objs[i])
WritesOK == \A w \in writes : WriteOK(w, objs)
TabsOK == DOMAIN tab = Operators /\ \A o \in Operators : TabOK(tab[o])

(* The batch applied last to a store is still in force there.                 *)
InForce(items, b) ==
    R!Ran(b.writes) \subseteq R!Ran(items) /\ (R!Ran(b.deletes) \ R!Ran(b.writes)) \cap R!Ran(items) = {}
Latest(s, i) == \A k \in DOMAIN s : k > i => s[k].obj # s[i].obj
AppliedOK ==
    /\ \E S : applied \in Seq(S)
    /\ \A i \in DOMAIN applied :
         /\ applied[i].obj \in DOMAIN objs
         /\ Latest(applied, i) => InForce(objs[applied[i].obj].items, applied[i].batch)

RelInv == StoresOK /\ WritesOK /\ TabsOK /\ AppliedOK /\ R!RetryAloneIsNoOp

LEMMA FreshTrue == TotalTrue(R!Fresh)
<1> USE SeedAssumption
<1>1. R!Fresh = [items |-> Seed, total |-> Len(Seed) + Hidden] /\ Len(Seed) + Hidden \in Int
  BY DEF R!Fresh
<1> QED
  BY <1>1 DEF TotalTrue, StoreRec, Distinct

(* A step that builds no store and applies no batch. *)
LEMMA QuietRel ==
    ASSUME RelInv, UNCHANGED <<objs, store, applied>>, WritesOK', TabsOK'
    PROVE  RelInv'
BY DEF RelInv, StoresOK, AppliedOK, R!RetryAloneIsNoOp, R!Repeats

LEMMA TabSet ==
    ASSUME TabsOK, NEW o \in Operators, NEW t, TabOK(t), R!SetTab(o, t)
    PROVE  TabsOK'
BY DEF TabsOK, R!SetTab

(* storeFor may build a store: the ones there stay. *)
LEMMA StoreForKeeps ==
    ASSUME RelInv, NEW c, {"at", "obj"} \subseteq DOMAIN c, R!storeFor(c),
           applied' = applied
    PROVE  /\ StoresOK' /\ AppliedOK' /\ R!RetryAloneIsNoOp'
           /\ \A w : WriteOK(w, objs) => WriteOK(w, objs')
           /\ \A w : w = R!Resolved(c) => (w.at = "hot" => w.obj \in DOMAIN objs')
<1>1. StoresOK /\ AppliedOK
  BY DEF RelInv
<1>2. DOMAIN objs = 1..Len(objs) /\ Len(objs) \in Nat
  BY <1>1 DEF StoresOK
<1>3. R!RetryAloneIsNoOp'
  BY DEF RelInv, R!RetryAloneIsNoOp, R!Repeats
<1>4. CASE c.at = "sent" /\ UNCHANGED <<objs, store>>
  <2>1. StoresOK' /\ AppliedOK'
    BY <1>1, <1>4 DEF StoresOK, AppliedOK
  <2>2. ASSUME NEW w, w = R!Resolved(c), w.at = "hot" PROVE w.obj \in DOMAIN objs'
    <3>1. CASE store = 0
      BY <1>4, <2>2, <3>1 DEF R!Resolved
    <3>2. CASE store # 0
      <4>1. w = [[c EXCEPT !.at = "hot"] EXCEPT !.obj = store]
        BY <1>4, <2>2, <3>2 DEF R!Resolved
      <4>2. w.obj = store
        BY <4>1
      <4> QED
        BY <1>1, <1>2, <1>4, <3>2, <4>2 DEF StoresOK
    <3> QED
      BY <3>1, <3>2
  <2> QED
    BY <1>3, <1>4, <2>1, <2>2 DEF WriteOK
<1>5. CASE c.at = "cold" /\ objs' = Append(objs, R!Fresh) /\ store' = Len(objs) + 1
  <2>1. /\ objs' \in Seq(StoreRec) /\ Len(objs') = Len(objs) + 1 /\ DOMAIN objs' = 1..(Len(objs) + 1)
        /\ \A i \in DOMAIN objs : objs'[i] = objs[i]
        /\ objs'[Len(objs) + 1] = R!Fresh
    <3>1. R!Fresh \in StoreRec
      BY FreshTrue DEF TotalTrue
    <3> QED
      BY <1>1, <1>5, <3>1 DEF StoresOK
  <2>2. DOMAIN objs \subseteq DOMAIN objs'
    BY <1>2, <2>1
  <2>3. StoresOK'
    <3>1. \A i \in DOMAIN objs' : i \in DOMAIN objs \/ i = Len(objs) + 1
      BY <1>2, <2>1
    <3>2. \A i \in DOMAIN objs' : TotalTrue(objs'[i])
      BY <1>1, <2>1, <3>1, FreshTrue DEF StoresOK
    <3> QED
      BY <1>2, <1>5, <2>1, <3>2 DEF StoresOK
  <2>4. AppliedOK'
    BY <1>1, <2>1, <2>2 DEF AppliedOK
  <2>5. ASSUME NEW w, w = R!Resolved(c) PROVE w.obj \in DOMAIN objs'
    <3>1. w = [[c EXCEPT !.at = "hot"] EXCEPT !.obj = Len(objs) + 1]
      BY <1>5, <2>5 DEF R!Resolved
    <3>2. w.obj = Len(objs) + 1
      BY <3>1
    <3> QED
      BY <1>2, <2>1, <3>2
  <2> QED
    BY <1>3, <2>2, <2>3, <2>4, <2>5 DEF WriteOK
<1> QED
  BY <1>4, <1>5 DEF R!storeFor

LEMMA ArriveKeeps ==
    ASSUME RelInv, NEW w \in writes, R!writeArrives(w)
    PROVE  RelInv'
<1>1. WriteOK(w, objs) /\ TabsOK /\ WritesOK
  BY DEF RelInv, WritesOK
<1>2. /\ R!storeFor(w) /\ writes' = (writes \ {w}) \cup {R!Resolved(w)}
      /\ tab' = tab /\ applied' = applied
  BY DEF R!writeArrives
<1>3. TabsOK'
  BY <1>1, <1>2 DEF TabsOK
<1> DEFINE r == R!Resolved(w)
<1>4. {"at", "obj", "batch", "key", "id"} \subseteq DOMAIN r /\ r.batch = w.batch
  <2>1. CASE w.at = "sent" /\ store = 0
    <3>1. r = [w EXCEPT !.at = "cold"]
      BY <2>1 DEF R!Resolved
    <3> HIDE DEF r
    <3> QED
      BY <1>1, <3>1 DEF WriteOK
  <2>2. CASE ~(w.at = "sent" /\ store = 0)
    <3> DEFINE x == IF w.at = "cold" THEN Len(objs) + 1 ELSE store
    <3>1. r = [w EXCEPT !.at = "hot", !.obj = x]
      BY <2>2 DEF R!Resolved
    <3> HIDE DEF r, x
    <3>2. r = [[w EXCEPT !.at = "hot"] EXCEPT !.obj = x]
      BY <3>1
    <3> QED
      BY <1>1, <3>2 DEF WriteOK
  <2> QED
    BY <2>1, <2>2
<1>5. /\ StoresOK' /\ AppliedOK' /\ R!RetryAloneIsNoOp'
      /\ \A v : WriteOK(v, objs) => WriteOK(v, objs')
      /\ r.at = "hot" => r.obj \in DOMAIN objs'
  BY <1>1, <1>2, StoreForKeeps DEF WriteOK
<1> HIDE DEF r
<1>6. WriteOK(r, objs')
  BY <1>1, <1>4, <1>5 DEF WriteOK
<1>7. WritesOK'
  BY <1>1, <1>2, <1>5, <1>6 DEF WritesOK, r
<1> QED
  BY <1>3, <1>5, <1>7 DEF RelInv

(* writeRelations: a refused batch changes no store, an accepted one is in    *)
(* force afterwards, and changes nothing where it was in force before.        *)
LEMMA WriteKeeps ==
    ASSUME RelInv, NEW w \in writes, R!writeRelations(w)
    PROVE  RelInv'
<1> DEFINE b == w.batch  obj == objs[w.obj]  new == R!Apply(obj, b)
<1>1. WriteOK(w, objs) /\ TabsOK /\ WritesOK /\ StoresOK /\ AppliedOK /\ R!RetryAloneIsNoOp
  BY DEF RelInv, WritesOK
<1>2. w.obj \in DOMAIN objs /\ Batch(b) /\ TotalTrue(obj)
  <2>1. w.at = "hot"
    BY DEF R!writeRelations
  <2>2. w.obj \in DOMAIN objs /\ Batch(b)
    BY <1>1, <2>1 DEF WriteOK
  <2> QED
    BY <1>1, <2>2 DEF StoresOK
<1>3. TabsOK'
  BY <1>1 DEF TabsOK, R!writeRelations
<1>4. ASSUME DOMAIN objs' = DOMAIN objs PROVE WritesOK'
  <2>1. \A v : WriteOK(v, objs) => WriteOK(v, objs')
    BY <1>4 DEF WriteOK
  <2>2. ASSUME NEW x \in {"refused", "written"} PROVE WriteOK([w EXCEPT !.at = x], objs')
    BY <1>1, <2>2 DEF WriteOK
  <2>3. [w EXCEPT !.at = IF R!Refused(b) THEN "refused" ELSE "written"]
          \in {[w EXCEPT !.at = x] : x \in {"refused", "written"}}
    OBVIOUS
  <2> QED
    BY <1>1, <2>1, <2>2, <2>3 DEF WritesOK, R!writeRelations
<1>5. CASE R!Refused(b)
  <2>1. UNCHANGED <<objs, store, applied>>
    BY <1>5 DEF R!writeRelations
  <2> QED
    BY <1>3, <1>4, <2>1, QuietRel
<1>6. CASE ~R!Refused(b)
  <2>1. PICK ch : /\ objs' = [objs EXCEPT ![w.obj] = new] /\ store' = store
                  /\ ch = (R!Ran(obj.items) # R!Ran(objs'[w.obj].items))
                  /\ applied' = Append(applied, [key |-> w.key, batch |-> b, obj |-> w.obj, changed |-> ch])
    BY <1>6 DEF R!writeRelations
  <2> DEFINE e == [key |-> w.key, batch |-> b, obj |-> w.obj, changed |-> ch]
             n == Len(applied)
  <2>2. /\ TotalTrue(new)
        /\ R!Ran(new.items) = (R!Ran(obj.items) \ R!Ran(b.deletes)) \cup R!Ran(b.writes)
    BY <1>2, ApplyFacts
  <2>3. InForce(new.items, b)
    BY <2>2 DEF InForce
  <2>4. InForce(obj.items, b) => R!Ran(new.items) = R!Ran(obj.items)
    BY <2>2 DEF InForce
  <2> HIDE DEF new, obj, e
  <2>5. DOMAIN objs' = DOMAIN objs /\ objs'[w.obj] = new /\ \A i \in DOMAIN objs : i # w.obj => objs'[i] = objs[i]
    BY <1>2, <2>1
  <2>6. StoresOK'
    <3>1. objs' \in Seq(StoreRec) /\ Len(objs') = Len(objs)
      BY <1>1, <1>2, <2>1, <2>2 DEF StoresOK, TotalTrue
    <3>2. \A i \in DOMAIN objs' : TotalTrue(objs'[i])
      BY <1>1, <2>2, <2>5 DEF StoresOK
    <3> QED
      BY <1>1, <2>1, <3>1, <3>2 DEF StoresOK
  <2>7. /\ n \in Nat /\ DOMAIN applied = 1..n /\ DOMAIN applied' = 1..(n + 1)
        /\ (\A i \in 1..n : applied'[i] = applied[i]) /\ applied'[n + 1] = e
        /\ \E S : applied' \in Seq(S)
    <3>1. PICK S : applied \in Seq(S)
      BY <1>1 DEF AppliedOK
    <3>2. applied \in Seq(S \cup {e}) /\ e \in S \cup {e} /\ applied' = Append(applied, e)
      BY <2>1, <3>1 DEF e
    <3> QED
      BY <3>2
  <2>8. e.obj = w.obj /\ e.batch = b /\ e.key = w.key /\ e.changed = ch
    BY DEF e
  <2> HIDE DEF n, b
  <2>9. ASSUME NEW i \in DOMAIN applied'
        PROVE  /\ applied'[i].obj \in DOMAIN objs'
               /\ Latest(applied', i) => InForce(objs'[applied'[i].obj].items, applied'[i].batch)
    <3>1. CASE i = n + 1
      BY <1>2, <2>3, <2>5, <2>7, <2>8, <3>1
    <3>2. CASE i \in 1..n
      <4>1. applied'[i] = applied[i] /\ i \in DOMAIN applied
        BY <2>7, <3>2
      <4>2. ASSUME Latest(applied', i)
            PROVE  /\ Latest(applied, i) /\ applied[i].obj # w.obj
        <5>1. n + 1 \in DOMAIN applied' /\ n + 1 > i /\ DOMAIN applied \subseteq DOMAIN applied'
          BY <2>7, <3>2
        <5>2. applied[i].obj # w.obj
          BY <2>7, <2>8, <4>1, <4>2, <5>1 DEF Latest
        <5>3. \A k \in DOMAIN applied : applied'[k] = applied[k]
          BY <2>7
        <5> QED
          BY <4>1, <4>2, <5>1, <5>2, <5>3 DEF Latest
      <4> QED
        BY <1>1, <2>5, <4>1, <4>2 DEF AppliedOK
    <3> QED
      BY <2>7, <3>1, <3>2
  <2>10. ASSUME NEW i \in DOMAIN applied', NEW j \in DOMAIN applied', (R!Repeats(i, j))',
                \A k \in (i + 1)..(j - 1) : applied'[k].obj # applied'[j].obj
         PROVE  ~applied'[j].changed
    <3>1. i < j /\ applied'[i].obj = applied'[j].obj /\ applied'[i].batch = applied'[j].batch
      BY <2>10 DEF R!Repeats
    <3>2. i \in 1..n /\ applied'[i] = applied[i]
      BY <2>7, <3>1
    <3>3. CASE j \in 1..n
      <4>1. applied'[j] = applied[j]
        BY <2>7, <3>3
      <4>2. applied'[i].key = applied'[j].key
        BY <2>10 DEF R!Repeats
      <4>3. R!Repeats(i, j)
        BY <3>1, <3>2, <4>1, <4>2 DEF R!Repeats
      <4>4. \A k \in (i + 1)..(j - 1) : applied[k].obj # applied[j].obj
        <5>1. \A k \in (i + 1)..(j - 1) : k \in 1..n
          BY <2>7, <3>2, <3>3
        <5> QED
          BY <2>7, <2>10, <4>1, <5>1
      <4>5. i \in DOMAIN applied /\ j \in DOMAIN applied
        BY <2>7, <3>2, <3>3
      <4> QED
        BY <1>1, <4>1, <4>3, <4>4, <4>5 DEF R!RetryAloneIsNoOp
    <3>4. CASE j = n + 1
      <4>1. applied'[j] = e
        BY <2>7, <3>4
      <4>2. applied[i].obj = w.obj /\ applied[i].batch = b
        BY <2>8, <3>1, <3>2, <4>1
      <4>3. \A k \in DOMAIN applied : k > i => applied[k].obj # w.obj
        <5>1. \A k \in 1..n : k > i => k \in (i + 1)..(j - 1)
          BY <2>7, <3>2, <3>4
        <5> QED
          BY <2>7, <2>8, <2>10, <4>1, <5>1
      <4>4. InForce(objs[w.obj].items, b)
        BY <1>1, <2>7, <3>2, <4>2, <4>3 DEF AppliedOK, Latest
      <4>5. R!Ran(new.items) = R!Ran(obj.items)
        BY <2>4, <4>4 DEF obj
      <4> QED
        BY <2>1, <2>5, <2>8, <4>1, <4>5
    <3> QED
      BY <2>7, <3>3, <3>4
  <2>11. AppliedOK'
    BY <2>7, <2>9 DEF AppliedOK
  <2>12. R!RetryAloneIsNoOp'
    BY <2>10 DEF R!RetryAloneIsNoOp
  <2> QED
    BY <1>3, <1>4, <2>5, <2>6, <2>11, <2>12 DEF RelInv
<1> QED
  BY <1>5, <1>6

(* A step of an operator leaves the stores alone and replaces one tab; what   *)
(* it sends is the batch of that tab.                                         *)
LEMMA OperatorStep ==
    ASSUME RelInv, NEW o \in Operators, NEW t, TabOK(t), R!SetTab(o, t),
           UNCHANGED <<objs, store, applied>>, \A w \in writes' : w \in writes \/ WriteOK(w, objs)
    PROVE  RelInv'
<1>1. TabsOK'
  BY TabSet DEF RelInv
<1>2. WritesOK'
  BY DEF RelInv, WritesOK
<1> QED
  BY <1>1, <1>2, QuietRel

LEMMA TabEdits ==
    ASSUME NEW t, TabOK(t)
    PROVE  /\ \A s : s \in Seq(Tuples) /\ Distinct(s) => TabOK([t EXCEPT !.writes = s])
           /\ \A x : /\ TabOK([t EXCEPT !.deletes = x]) /\ TabOK([t EXCEPT !.key = x])
                     /\ TabOK([t EXCEPT !.pending = x])
                     /\ {"at", "obj", "got", "from", "page"} \subseteq DOMAIN x
                          => TabOK([t EXCEPT !.fetch = x])
           /\ TabOK(R!ensureKey(t)) /\ TabOK(R!discarded(t)) /\ TabOK(R!refetch(t))
           /\ \A a, b, c, d : TabOK(R!Fetch(t, a, b, c, d))
           /\ \A a, b, c : LET u == [t EXCEPT !.rows = a, !.next = b, !.pages = c, !.fetch = R!NoFetch]
                           IN  TabOK(u)
<1>1. ASSUME NEW s \in Seq(Tuples), Distinct(s) PROVE TabOK([t EXCEPT !.writes = s])
  BY <1>1 DEF TabOK
<1>2. ASSUME NEW x PROVE TabOK([t EXCEPT !.deletes = x]) /\ TabOK([t EXCEPT !.key = x]) /\ TabOK([t EXCEPT !.pending = x])
  BY DEF TabOK
<1>3. ASSUME NEW x, {"at", "obj", "got", "from", "page"} \subseteq DOMAIN x
      PROVE  TabOK([t EXCEPT !.fetch = x])
  BY <1>3 DEF TabOK
<1>4. TabOK(R!ensureKey(t))
  <2>1. R!ensureKey(t) = t \/ R!ensureKey(t) = [t EXCEPT !.key = R!FreshKey]
    BY DEF R!ensureKey
  <2> QED
    BY <1>2, <2>1
<1>5. TabOK(R!discarded(t))
  <2> DEFINE u == [t EXCEPT !.writes = <<>>]
             v == [u EXCEPT !.deletes = <<>>]
  <2>1. TabOK(u)
    BY DEF TabOK, Distinct
  <2>2. R!discarded(t) = [v EXCEPT !.key = 0]
    BY DEF R!discarded
  <2> HIDE DEF u
  <2>3. TabOK(v)
    BY <2>1 DEF TabOK
  <2> HIDE DEF v
  <2> QED
    BY <2>2, <2>3 DEF TabOK
<1>6. \A a, b, c, d : TabOK(R!Fetch(t, a, b, c, d))
  BY <1>3 DEF R!Fetch
<1>7. TabOK(R!refetch(t))
  BY <1>6 DEF R!refetch
<1>8. ASSUME NEW a, NEW b, NEW c
      PROVE  TabOK([t EXCEPT !.rows = a, !.next = b, !.pages = c, !.fetch = R!NoFetch])
  <2> DEFINE u == [[[t EXCEPT !.rows = a] EXCEPT !.next = b] EXCEPT !.pages = c]
             f == R!NoFetch
  <2>1. TabOK(u)
    BY DEF TabOK
  <2>2. {"at", "obj", "got", "from", "page"} \subseteq DOMAIN f
    BY DEF R!NoFetch
  <2>3. [t EXCEPT !.rows = a, !.next = b, !.pages = c, !.fetch = f] = [u EXCEPT !.fetch = f]
    OBVIOUS
  <2> HIDE DEF u, f
  <2>4. TabOK([u EXCEPT !.fetch = f])
    BY <2>1, <2>2 DEF TabOK
  <2> QED
    BY <2>3, <2>4 DEF f
<1> QED
  BY <1>1, <1>2, <1>3, <1>4, <1>5, <1>6, <1>7, <1>8

LEMMA ResolvedShape ==
    ASSUME NEW f, {"at", "obj", "got", "from", "page"} \subseteq DOMAIN f
    PROVE  {"at", "obj", "got", "from", "page"} \subseteq DOMAIN R!Resolved(f)
BY DEF R!Resolved

(* Staging, unstaging, discarding and sending.                                *)
LEMMA BatchKeeps ==
    ASSUME RelInv, NEW o \in Operators, NEW t,
           \/ t \in Tuples /\ R!addWrite(o, t)
           \/ R!stageDelete(o, t) \/ R!unstage(o, t) \/ R!discard(o) \/ R!write(o)
    PROVE  RelInv'
<1> DEFINE T == tab[o]
<1>1. TabOK(T) /\ T.writes \in Seq(Tuples) /\ Distinct(T.writes)
  BY DEF RelInv, TabsOK, TabOK
<1> HIDE DEF T
<1>2. CASE t \in Tuples /\ R!addWrite(o, t)
  <2>1. R!StageIn(T.writes, t) \in Seq(Tuples) /\ Distinct(R!StageIn(T.writes, t))
    BY <1>1, <1>2, StageInFacts
  <2>2. [T EXCEPT !.writes = R!StageIn(@, t)] = [T EXCEPT !.writes = R!StageIn(T.writes, t)]
    OBVIOUS
  <2>3. TabOK(R!ensureKey([T EXCEPT !.writes = R!StageIn(@, t)]))
    BY <1>1, <2>1, <2>2, TabEdits
  <2>4. /\ R!SetTab(o, R!ensureKey([T EXCEPT !.writes = R!StageIn(@, t)]))
        /\ UNCHANGED <<objs, store, writes, applied>>
    BY <1>2 DEF R!addWrite, R!Stages, T
  <2> QED
    BY <2>3, <2>4, OperatorStep
<1>3. CASE R!stageDelete(o, t)
  <2>1. [T EXCEPT !.deletes = R!StageIn(@, t)] = [T EXCEPT !.deletes = R!StageIn(T.deletes, t)]
    OBVIOUS
  <2>2. TabOK(R!ensureKey([T EXCEPT !.deletes = R!StageIn(@, t)]))
    BY <1>1, <2>1, TabEdits
  <2>3. /\ R!SetTab(o, R!ensureKey([T EXCEPT !.deletes = R!StageIn(@, t)]))
        /\ UNCHANGED <<objs, store, writes, applied>>
    BY <1>3 DEF R!stageDelete, R!Stages, T
  <2> QED
    BY <2>2, <2>3, OperatorStep
<1>4. CASE R!unstage(o, t)
  <2>1. R!Without(T.writes, {t}) \in Seq(Tuples) /\ Distinct(R!Without(T.writes, {t}))
    BY <1>1, WithoutFacts
  <2>2. /\ [T EXCEPT !.writes = R!Without(@, {t})] = [T EXCEPT !.writes = R!Without(T.writes, {t})]
        /\ [T EXCEPT !.deletes = R!Without(@, {t})] = [T EXCEPT !.deletes = R!Without(T.deletes, {t})]
    OBVIOUS
  <2>3. /\ TabOK([T EXCEPT !.writes = R!Without(@, {t})])
        /\ TabOK([T EXCEPT !.deletes = R!Without(@, {t})])
    BY <1>1, <2>1, <2>2, TabEdits
  <2>4. /\ \/ R!SetTab(o, [T EXCEPT !.writes = R!Without(@, {t})])
           \/ R!SetTab(o, [T EXCEPT !.deletes = R!Without(@, {t})])
        /\ UNCHANGED <<objs, store, writes, applied>>
    BY <1>4 DEF R!unstage, T
  <2> QED
    BY <2>3, <2>4, OperatorStep
<1>5. CASE R!discard(o)
  <2>1. R!SetTab(o, R!discarded(T)) /\ UNCHANGED <<objs, store, writes, applied>>
    BY <1>5 DEF R!discard, T
  <2> QED
    BY <1>1, <2>1, TabEdits, OperatorStep
<1>6. CASE R!write(o)
  <2> DEFINE b == [writes |-> T.writes, deletes |-> T.deletes]
             w == [id |-> relClicks', key |-> T.key, at |-> "sent", obj |-> 0, batch |-> b]
  <2>1. /\ writes' = writes \cup {w} /\ UNCHANGED <<objs, store, applied>>
        /\ R!SetTab(o, [T EXCEPT !.pending = relClicks'])
    BY <1>6 DEF R!write, T
  <2>2. WriteOK(w, objs)
    BY <1>1 DEF WriteOK, Batch
  <2>3. TabOK([T EXCEPT !.pending = relClicks'])
    BY <1>1, TabEdits
  <2> HIDE DEF w
  <2> QED
    BY <2>1, <2>2, <2>3, OperatorStep
<1> QED
  BY <1>2, <1>3, <1>4, <1>5, <1>6

(* Asking for pages and receiving them.                                       *)
LEMMA FetchKeeps ==
    ASSUME RelInv, NEW o \in Operators,
           \/ R!windowFocus(o) \/ R!fetchNextPage(o) \/ R!fetchArrives(o) \/ R!receivePage(o) \/ R!fetchFails(o)
    PROVE  RelInv'
<1> DEFINE T == tab[o]
<1>1. TabOK(T) /\ {"at", "obj", "got", "from", "page"} \subseteq DOMAIN T.fetch
  BY DEF RelInv, TabsOK, TabOK
<1> HIDE DEF T
<1>2. CASE R!windowFocus(o)
  <2>1. R!SetTab(o, R!refetch(T)) /\ UNCHANGED <<objs, store, writes, applied>>
    BY <1>2 DEF R!windowFocus, T
  <2> QED
    BY <1>1, <2>1, TabEdits, OperatorStep
<1>3. CASE R!fetchNextPage(o)
  <2>1. /\ R!SetTab(o, R!Fetch(T, T.rows, T.next, T.pages + 1, T.pages + 1))
        /\ UNCHANGED <<objs, store, writes, applied>>
    BY <1>3 DEF R!fetchNextPage, T
  <2>2. \A a, b, c, d : TabOK(R!Fetch(T, a, b, c, d))
    BY <1>1, TabEdits
  <2> QED
    BY <2>1, <2>2, OperatorStep
<1>4. CASE R!fetchArrives(o)
  <2> DEFINE f == T.fetch
  <2>1. /\ R!storeFor(f) /\ R!SetTab(o, [T EXCEPT !.fetch = R!Resolved(@)])
        /\ writes' = writes /\ applied' = applied
    BY <1>4 DEF R!fetchArrives, T
  <2>2. [T EXCEPT !.fetch = R!Resolved(@)] = [T EXCEPT !.fetch = R!Resolved(f)]
    OBVIOUS
  <2> HIDE DEF f
  <2>3. TabOK([T EXCEPT !.fetch = R!Resolved(f)])
    BY <1>1, ResolvedShape, TabEdits DEF f
  <2>4. TabsOK'
    BY <2>1, <2>2, <2>3, TabSet DEF RelInv
  <2>5. {"at", "obj"} \subseteq DOMAIN f
    BY <1>1 DEF f
  <2>6. /\ StoresOK' /\ AppliedOK' /\ R!RetryAloneIsNoOp'
        /\ \A w : WriteOK(w, objs) => WriteOK(w, objs')
    BY <2>1, <2>5, StoreForKeeps
  <2>7. WritesOK'
    BY <2>1, <2>6 DEF RelInv, WritesOK
  <2> QED
    BY <2>4, <2>6, <2>7 DEF RelInv
<1>5. CASE R!receivePage(o)
  <2> DEFINE f == T.fetch
             page1 == R!listRelations(objs[f.obj], f.from)
             got == f.got \o page1.items
             g == [f EXCEPT !.at = "sent", !.got = got, !.from = page1.nextCursor, !.page = @ + 1]
             next == [T EXCEPT !.fetch = g]
             done == [T EXCEPT !.rows = got, !.next = page1.nextCursor, !.pages = f.page, !.fetch = R!NoFetch]
  <2>1. /\ R!SetTab(o, next) \/ R!SetTab(o, done)
        /\ UNCHANGED <<objs, store, writes, applied>>
    BY <1>5 DEF R!receivePage, T
  <2>2. TabOK(done)
    BY <1>1, TabEdits
  <2>3. {"at", "obj", "got", "from", "page"} \subseteq DOMAIN g
    BY <1>1
  <2> HIDE DEF g, done
  <2>4. TabOK(next)
    BY <1>1, <2>3, TabEdits
  <2> QED
    BY <2>1, <2>2, <2>4, OperatorStep
<1>6. CASE R!fetchFails(o)
  <2>1. R!SetTab(o, [T EXCEPT !.fetch = R!NoFetch]) /\ UNCHANGED <<objs, store, writes, applied>>
    BY <1>6 DEF R!fetchFails, T
  <2>2. {"at", "obj", "got", "from", "page"} \subseteq DOMAIN R!NoFetch
    BY DEF R!NoFetch
  <2>3. TabOK([T EXCEPT !.fetch = R!NoFetch])
    BY <1>1, <2>2, TabEdits
  <2> QED
    BY <2>1, <2>3, OperatorStep
<1> QED
  BY <1>2, <1>3, <1>4, <1>5, <1>6

(* Answers, lost calls and a restart.                                         *)
LEMMA RelAnswerKeeps ==
    ASSUME RelInv, NEW o \in Operators, R!receiveAnswer(o) \/ R!loseCall(o)
    PROVE  RelInv'
<1> DEFINE T == tab[o]
<1>1. TabOK(T)
  BY DEF RelInv, TabsOK
<1> HIDE DEF T
<1>2. TabOK([T EXCEPT !.pending = 0]) /\ TabOK([R!refetch(R!discarded(T)) EXCEPT !.pending = 0])
  <2>1. TabOK(R!refetch(R!discarded(T)))
    BY <1>1, TabEdits
  <2> QED
    BY <1>1, <2>1, TabEdits
<1>3. \/ R!SetTab(o, [T EXCEPT !.pending = 0])
      \/ R!SetTab(o, [R!refetch(R!discarded(T)) EXCEPT !.pending = 0])
  BY DEF R!receiveAnswer, R!loseCall, T
<1>4. UNCHANGED <<objs, store, applied>> /\ writes' \subseteq writes
  BY DEF R!receiveAnswer, R!loseCall
<1> QED
  BY <1>2, <1>3, <1>4, OperatorStep

LEMMA RelRestartKeeps ==
    ASSUME RelInv, R!restart
    PROVE  RelInv'
<1>1. objs' = <<>> /\ store' = 0 /\ writes' = {} /\ applied' = <<>>
  BY DEF R!restart
<1>2. StoresOK' /\ WritesOK' /\ AppliedOK' /\ R!RetryAloneIsNoOp'
  <2>1. DOMAIN (<<>>) = {} /\ Len(<<>>) = 0 /\ \A S : <<>> \in Seq(S)
    OBVIOUS
  <2> QED
    BY <1>1, <2>1 DEF StoresOK, WritesOK, AppliedOK, R!RetryAloneIsNoOp
<1>3. TabsOK'
  <2>1. tab' = [o \in Operators |-> [tab[o] EXCEPT !.pending = 0, !.fetch = R!NoFetch]]
    BY DEF R!restart
  <2>2. ASSUME NEW o \in Operators PROVE TabOK([tab[o] EXCEPT !.pending = 0, !.fetch = R!NoFetch])
    <3> DEFINE u == [tab[o] EXCEPT !.pending = 0]  f == R!NoFetch
    <3>1. TabOK(u)
      BY TabEdits DEF RelInv, TabsOK
    <3>2. {"at", "obj", "got", "from", "page"} \subseteq DOMAIN f
      BY DEF R!NoFetch
    <3>3. [tab[o] EXCEPT !.pending = 0, !.fetch = f] = [u EXCEPT !.fetch = f]
      OBVIOUS
    <3> HIDE DEF u, f
    <3>4. TabOK([u EXCEPT !.fetch = f])
      BY <3>1, <3>2, TabEdits
    <3> QED
      BY <3>3, <3>4 DEF f
  <2> QED
    BY <2>1, <2>2 DEF TabsOK
<1> QED
  BY <1>2, <1>3 DEF RelInv

LEMMA RelInvInit == page = "relations" /\ Init => RelInv
<1> SUFFICES ASSUME page = "relations", Init PROVE RelInv
  OBVIOUS
<1>1. R!RelInit
  BY DEF Init
<1>2. objs = <<R!Fresh>> /\ store = 1 /\ writes = {} /\ applied = <<>>
  BY <1>1 DEF R!RelInit
<1>3. StoresOK
  <2> DEFINE f == R!Fresh
  <2>1. TotalTrue(f) /\ f \in StoreRec
    BY FreshTrue DEF TotalTrue
  <2> HIDE DEF f
  <2>2. <<f>> \in Seq(StoreRec) /\ Len(<<f>>) = 1 /\ DOMAIN <<f>> = 1..1 /\ <<f>>[1] = f
    BY <2>1
  <2> QED
    BY <1>2, <2>1, <2>2 DEF StoresOK, f
<1>4. WritesOK /\ AppliedOK /\ R!RetryAloneIsNoOp
  <2>1. DOMAIN (<<>>) = {} /\ \A S : <<>> \in Seq(S)
    OBVIOUS
  <2> QED
    BY <1>2, <2>1 DEF WritesOK, AppliedOK, R!RetryAloneIsNoOp
<1>5. TabsOK
  <2> DEFINE e == R!EmptyTab  rows == R!FirstPage.items  next == R!FirstPage.nextCursor
             t == [e EXCEPT !.rows = rows, !.pages = 1, !.next = next]
  <2>1. tab = [o \in Operators |-> t]
    BY <1>1 DEF R!RelInit
  <2>2. TabOK(e)
    BY DEF TabOK, R!EmptyTab, R!NoFetch, Distinct
  <2> HIDE DEF e, rows, next
  <2>3. TabOK(t)
    BY <2>2 DEF TabOK
  <2> HIDE DEF t
  <2> QED
    BY <2>1, <2>3 DEF TabsOK
<1> QED
  BY <1>3, <1>4, <1>5 DEF RelInv

LEMMA RelInvStep == page = "relations" /\ RelInv /\ [Next]_vars => RelInv'
<1> SUFFICES ASSUME page = "relations", RelInv, [Next]_vars PROVE RelInv'
  OBVIOUS
<1>1. CASE UNCHANGED vars
  <2>1. UNCHANGED <<objs, store, writes, tab, applied>>
    BY <1>1 DEF vars, relVars
  <2> QED
    BY <2>1, QuietRel DEF RelInv, WritesOK, TabsOK
<1>2. CASE R!RelNext
  <2>1. CASE R!restart
    BY <2>1, RelRestartKeeps
  <2>2. ASSUME NEW w \in writes, R!writeArrives(w) \/ R!writeRelations(w) \/ R!dropAnswer(w)
        PROVE  RelInv'
    <3>1. CASE R!dropAnswer(w)
      <4>1. UNCHANGED <<objs, store, tab, applied>> /\ writes' \subseteq writes
        BY <3>1 DEF R!dropAnswer
      <4>2. WritesOK' /\ TabsOK'
        BY <4>1 DEF RelInv, WritesOK, TabsOK
      <4> QED
        BY <4>1, <4>2, QuietRel
    <3> QED
      BY <2>2, <3>1, ArriveKeeps, WriteKeeps
  <2>3. ASSUME NEW o \in Operators,
               \/ R!windowFocus(o) \/ R!fetchNextPage(o) \/ R!fetchArrives(o) \/ R!receivePage(o)
               \/ R!fetchFails(o) \/ R!receiveAnswer(o) \/ R!loseCall(o)
        PROVE  RelInv'
    BY <2>3, FetchKeeps, RelAnswerKeeps
  <2>4. ASSUME NEW o \in Operators, NEW t \in Tuples,
               \/ R!addWrite(o, t) \/ R!stageDelete(o, t) \/ R!unstage(o, t) \/ R!discard(o) \/ R!write(o)
        PROVE  RelInv'
    BY <2>4, BatchKeeps
  <2>5. ASSUME NEW o \in Operators, R!discard(o) \/ R!write(o) PROVE RelInv'
    BY <2>5, BatchKeeps
  <2> QED
    BY <1>2, <2>1, <2>2, <2>3, <2>4, <2>5 DEF R!RelNext
<1> QED
  BY <1>1, <1>2 DEF Next

LEMMA DistinctCounts ==
    ASSUME NEW s \in Seq(Tuples), Distinct(s)
    PROVE  Cardinality(R!Ran(s)) = Len(s)
<1> DEFINE n == Len(s)  D == 1..n  V == R!Ran(s)
<1>1. n \in Nat /\ DOMAIN s = D /\ s \in [D -> V]
  <2>1. n \in Nat /\ DOMAIN s = D /\ s = [i \in D |-> s[i]]
    OBVIOUS
  <2>2. \A i \in D : s[i] \in V
    BY <2>1 DEF R!Ran
  <2> HIDE DEF V, D, n
  <2> QED
    BY <2>1, <2>2
<1>2. \A v \in V : \E i \in D : s[i] = v
  BY <1>1 DEF R!Ran
<1> HIDE DEF V
<1>3. s \in Bijection(D, V)
  BY <1>1, <1>2 DEF Distinct, Bijection, Injection, IsInjective, Surjection
<1>4. IsFiniteSet(D) /\ Cardinality(D) = n
  BY <1>1, FS_Interval
<1> HIDE DEF D
<1>5. Cardinality(V) = Cardinality(D)
  BY <1>3, <1>4, FS_Bijection DEF ExistsBijection
<1> QED
  BY <1>4, <1>5 DEF V

-----------------------------------------------------------------------------
(* Authorization model *)

(* A model with at most one draft, which parses; the verdict of a validation  *)
(* is that of the text it names; an editor shows such a model.                *)
Kept(m) == m \in Models /\ A!WithOneDraft(m) /\ m.draft \in Parsing
Verdict(b) == b # None /\ b.ok => b.of \in Parsing
Awaits(c, s) ==
    /\ {"id", "by", "kind", "dsl", "at", "obj", "body"} \subseteq DOMAIN c
    /\ c.by \in Operators
    /\ c.kind \in {"get", "validate", "stage"}
    /\ c.at = "ready" => c.obj \in DOMAIN s
    /\ c.at = "answered" /\ c.kind = "get" => Kept(c.body)
    /\ c.at = "answered" /\ c.kind = "validate" => Verdict(c.body)
Edits(e) ==
    /\ {"data", "local", "validation", "validating", "staging", "getting"} \subseteq DOMAIN e
    /\ Kept(e.data) /\ Verdict(e.validation)

ModelsOK == /\ seed \in SeedModels
            /\ models \in Seq(Models) /\ current \in 0..Len(models)
            /\ \A i \in DOMAIN models : Kept(models[i])
AskedOK == \A c \in asked : Awaits(c, models)
EditorsOK == DOMAIN editor = Operators /\ \A o \in Operators : Edits(editor[o])
ModelInv == ModelsOK /\ AskedOK /\ EditorsOK

(* Staging once more restages the one draft in place. *)
LEMMA StagedKept ==
    ASSUME NEW m, Kept(m), NEW dsl \in Parsing
    PROVE  Kept(A!Staged(m, dsl))
<1> DEFINE V == [version : Nat, state : {"superseded", "live", "draft"}]
           v == m.liveVersion + 1
           vs == m.versions
           ws == A!Upsert(vs, v)
           n == A!Staged(m, dsl)
<1>1. /\ m.liveVersion \in Nat \ {0} /\ m.draftVersion \in {0, v} /\ vs \in Seq(V) /\ m.live \in Texts
      /\ \A i \in DOMAIN vs : vs[i].version = i
      /\ vs[m.liveVersion].state = "live"
      /\ {i \in DOMAIN vs : vs[i].state = "draft"} = {m.draftVersion} \ {0}
      /\ Len(vs) = (IF m.draftVersion = 0 THEN m.liveVersion ELSE m.draftVersion)
  BY DEF Kept, A!WithOneDraft, Models
<1>2. A!StagedVersion(m) = v
  BY <1>1 DEF A!StagedVersion
<1>3. n = [m EXCEPT !.draft = dsl, !.draftVersion = v, !.versions = ws]
  BY <1>2 DEF A!Staged
<1> HIDE DEF v, vs, V
<1>4. v \in Nat \ {0} /\ v = m.liveVersion + 1 /\ DOMAIN vs = 1..Len(vs)
  BY <1>1 DEF v
<1>5. /\ ws \in Seq(V) /\ Len(ws) = v /\ DOMAIN ws = 1..v
      /\ \A i \in DOMAIN ws : ws[i].version = i
      /\ ws[m.liveVersion].state = "live"
      /\ {i \in DOMAIN ws : ws[i].state = "draft"} = {v}
  <2>1. CASE m.draftVersion = 0
    <3> DEFINE e == [version |-> v, state |-> "draft"]
    <3>1. \A i \in DOMAIN vs : vs[i].version # v
      BY <1>1, <1>4, <2>1
    <3>2. ws = Append(vs, e)
      BY <3>1 DEF A!Upsert
    <3>3. e \in V /\ e.version = v /\ e.state = "draft"
      BY <1>4 DEF V
    <3> HIDE DEF e, ws
    <3>4. /\ ws \in Seq(V) /\ Len(ws) = v /\ DOMAIN ws = 1..v
          /\ (\A i \in DOMAIN vs : ws[i] = vs[i]) /\ ws[v] = e
      BY <1>1, <1>4, <2>1, <3>2, <3>3
    <3>5. \A i \in DOMAIN ws : i \in DOMAIN vs \/ i = v
      BY <1>1, <1>4, <2>1, <3>4
    <3>6. \A i \in DOMAIN vs : vs[i].state # "draft"
      BY <1>1, <2>1
    <3>7. v \in DOMAIN ws /\ m.liveVersion \in DOMAIN vs
      BY <1>1, <1>4, <2>1, <3>4
    <3> QED
      BY <1>1, <3>3, <3>4, <3>5, <3>6, <3>7
  <2>2. CASE m.draftVersion = v
    <3>1. v \in DOMAIN vs /\ Len(vs) = v /\ vs[v].version = v /\ vs[v].state = "draft"
      BY <1>1, <1>4, <2>2
    <3>2. ws = [i \in DOMAIN vs |-> IF vs[i].version = v THEN [vs[i] EXCEPT !.state = "draft"] ELSE vs[i]]
      BY <3>1 DEF A!Upsert
    <3>3. \A i \in DOMAIN vs : vs[i] \in V
      BY <1>1, <1>4
    <3>4. [vs[v] EXCEPT !.state = "draft"] = vs[v]
      BY <3>1, <3>3 DEF V
    <3> HIDE DEF ws
    <3>5. \A i \in DOMAIN vs : ws[i] = vs[i]
      BY <1>1, <3>2, <3>4
    <3>6. ws = vs
      <4>1. vs = [i \in DOMAIN vs |-> vs[i]]
        BY <1>1
      <4>2. ws = [i \in DOMAIN vs |-> ws[i]]
        BY <3>2
      <4> QED
        BY <3>5, <4>1, <4>2
    <3> QED
      BY <1>1, <1>4, <2>2, <3>1, <3>6
  <2> QED
    BY <1>1, <2>1, <2>2
<1>6. n \in Models /\ n.draft = dsl /\ n.draftVersion = v /\ n.versions = ws /\ n.liveVersion = m.liveVersion
  <2>1. dsl \in Texts /\ m \in Models
    BY DEF Parsing, Kept
  <2> HIDE DEF ws, n
  <2> QED
    BY <1>3, <1>4, <1>5, <2>1 DEF Models, V
<1>7. A!WithOneDraft(n)
  <2> HIDE DEF ws, n
  <2> QED
    BY <1>4, <1>5, <1>6 DEF A!WithOneDraft
<1> HIDE DEF n
<1>8. Kept(n)
  BY <1>6, <1>7 DEF Kept
<1> QED
  BY <1>8 DEF n

(* A call that is answered, moves on or leaves.                               *)
LEMMA QuietModel ==
    ASSUME ModelInv, UNCHANGED <<seed, models, current>>, AskedOK', EditorsOK'
    PROVE  ModelInv'
BY DEF ModelInv, ModelsOK

LEMMA TakesKeeps ==
    ASSUME ModelInv, NEW c \in asked, NEW d, Awaits(d, models), A!Takes(c, d), UNCHANGED models
    PROVE  AskedOK'
BY DEF ModelInv, AskedOK, A!Takes

LEMMA StateForKeeps ==
    ASSUME ModelInv, NEW c \in asked, A!stateFor(c)
    PROVE  ModelInv'
<1> USE SeedModelsAssumption
<1>1. Awaits(c, models) /\ ModelsOK /\ c.kind # "validate" /\ UNCHANGED <<seed, editor>>
  BY DEF ModelInv, AskedOK, A!stateFor
<1>2. EditorsOK'
  BY <1>1 DEF ModelInv, EditorsOK
<1>3. models \in Seq(Models) /\ DOMAIN models = 1..Len(models) /\ Len(models) \in Nat /\ current \in 0..Len(models)
  BY <1>1 DEF ModelsOK
<1>4. CASE c.at = "sent" /\ current # 0 /\ A!Takes(c, [c EXCEPT !.at = "ready", !.obj = current]) /\ UNCHANGED <<models, current>>
  <2> DEFINE d == [[c EXCEPT !.at = "ready"] EXCEPT !.obj = current]
  <2>1. [c EXCEPT !.at = "ready", !.obj = current] = d
    OBVIOUS
  <2>2. current \in DOMAIN models
    BY <1>3, <1>4
  <2>3. Awaits(d, models)
    BY <1>1, <2>2 DEF Awaits
  <2> HIDE DEF d
  <2> QED
    BY <1>1, <1>2, <1>4, <2>1, <2>3, TakesKeeps, QuietModel
<1>5. CASE c.at = "sent" /\ current = 0 /\ A!Takes(c, [c EXCEPT !.at = "cold"]) /\ UNCHANGED <<models, current>>
  <2>1. Awaits([c EXCEPT !.at = "cold"], models)
    BY <1>1 DEF Awaits
  <2> QED
    BY <1>1, <1>2, <1>5, <2>1, TakesKeeps, QuietModel
<1>6. CASE /\ c.at = "cold" /\ A!Takes(c, [c EXCEPT !.at = "ready", !.obj = Len(models) + 1])
           /\ models' = Append(models, seed) /\ current' = Len(models) + 1
  <2> DEFINE d == [[c EXCEPT !.at = "ready"] EXCEPT !.obj = Len(models) + 1]
  <2>1. [c EXCEPT !.at = "ready", !.obj = Len(models) + 1] = d
    OBVIOUS
  <2>2. seed \in Models /\ Kept(seed)
    BY <1>1 DEF ModelsOK, Kept
  <2>3. /\ models' \in Seq(Models) /\ Len(models') = Len(models) + 1 /\ DOMAIN models' = 1..(Len(models) + 1)
        /\ \A i \in DOMAIN models : models'[i] = models[i]
        /\ models'[Len(models) + 1] = seed
    BY <1>3, <1>6, <2>2
  <2>4. \A i \in DOMAIN models' : i \in DOMAIN models \/ i = Len(models) + 1
    BY <1>3, <2>3
  <2>5. \A i \in DOMAIN models' : Kept(models'[i])
    BY <1>1, <2>2, <2>3, <2>4 DEF ModelsOK
  <2>6. ModelsOK'
    BY <1>1, <1>3, <1>6, <2>3, <2>5 DEF ModelsOK
  <2>7. Len(models) + 1 \in DOMAIN models' /\ DOMAIN models \subseteq DOMAIN models'
    BY <1>3, <2>3
  <2>8. Awaits(d, models')
    BY <1>1, <2>7 DEF Awaits
  <2>9. \A e : Awaits(e, models) => Awaits(e, models')
    BY <2>7 DEF Awaits
  <2> HIDE DEF d
  <2>10. AskedOK'
    BY <1>6, <2>1, <2>8, <2>9 DEF ModelInv, AskedOK, A!Takes
  <2> QED
    BY <1>2, <2>6, <2>10 DEF ModelInv
<1> QED
  BY <1>1, <1>4, <1>5, <1>6 DEF A!stateFor

(* The handlers past stateFor.                                                *)
LEMMA ModelServerKeeps ==
    ASSUME ModelInv, NEW c \in asked, A!getAuthorizationModel(c) \/ A!validateModel(c) \/ A!stageModel(c)
    PROVE  ModelInv'
<1>1. Awaits(c, models) /\ ModelsOK
  BY DEF ModelInv, AskedOK
<1>2. UNCHANGED <<seed, current, editor>>
  BY DEF A!getAuthorizationModel, A!validateModel, A!stageModel
<1>3. EditorsOK'
  BY <1>2 DEF ModelInv, EditorsOK
<1>4. ASSUME NEW b, c.kind = "get" => Kept(b), c.kind = "validate" => Verdict(b)
      PROVE  Awaits([c EXCEPT !.at = "answered", !.body = b], models)
  <2> DEFINE d == [[c EXCEPT !.at = "answered"] EXCEPT !.body = b]
  <2>1. [c EXCEPT !.at = "answered", !.body = b] = d
    OBVIOUS
  <2>2. Awaits(d, models)
    BY <1>1, <1>4 DEF Awaits
  <2> QED
    BY <2>1, <2>2
<1>5. CASE A!getAuthorizationModel(c)
  <2> DEFINE b == models[c.obj]
  <2>1. c.kind = "get" /\ A!Takes(c, [c EXCEPT !.at = "answered", !.body = b]) /\ UNCHANGED models
    BY <1>5 DEF A!getAuthorizationModel, A!Answers
  <2>2. c.at = "ready"
    BY <1>5 DEF A!getAuthorizationModel
  <2>3. Kept(b)
    BY <1>1, <2>2 DEF Awaits, ModelsOK
  <2> HIDE DEF b
  <2>4. Awaits([c EXCEPT !.at = "answered", !.body = b], models)
    BY <1>4, <2>1, <2>3
  <2> QED
    BY <1>2, <1>3, <2>1, <2>4, TakesKeeps, QuietModel
<1>6. CASE A!validateModel(c)
  <2> DEFINE ok == c.dsl \in Parsing
             b == [ok |-> ok, of |-> c.dsl]
  <2>1. c.kind = "validate" /\ A!Takes(c, [c EXCEPT !.at = "answered", !.body = b]) /\ UNCHANGED models
    BY <1>6 DEF A!validateModel, A!Answers
  <2>2. ok => c.dsl \in Parsing
    OBVIOUS
  <2> HIDE DEF ok
  <2>3. b.ok = ok /\ b.of = c.dsl
    OBVIOUS
  <2> HIDE DEF b
  <2>4. Verdict(b)
    BY <2>2, <2>3, Zenon DEF Verdict
  <2>5. Awaits([c EXCEPT !.at = "answered", !.body = b], models)
    BY <1>4, <2>1, <2>4
  <2> QED
    BY <1>2, <1>3, <2>1, <2>5, TakesKeeps, QuietModel
<1>7. CASE A!stageModel(c)
  <2> DEFINE new == A!Staged(models[c.obj], c.dsl)
             d == [c EXCEPT !.at = "answered", !.body = None]
  <2>1. /\ c.kind = "stage" /\ c.at = "ready" /\ c.dsl \in Parsing /\ A!Takes(c, d)
        /\ models' = [models EXCEPT ![c.obj] = new]
    BY <1>7 DEF A!stageModel, A!Answers
  <2>2. c.obj \in DOMAIN models
    BY <1>1, <2>1 DEF Awaits
  <2>3. Kept(new)
    BY <1>1, <2>1, <2>2, StagedKept DEF ModelsOK
  <2>4. Awaits(d, models)
    BY <1>4, <2>1
  <2> HIDE DEF new, d
  <2>5. /\ models' \in Seq(Models) /\ Len(models') = Len(models) /\ DOMAIN models' = DOMAIN models
        /\ \A i \in DOMAIN models : models'[i] = IF i = c.obj THEN new ELSE models[i]
    BY <1>1, <2>1, <2>2, <2>3 DEF ModelsOK, Kept
  <2>6. ModelsOK'
    BY <1>1, <1>2, <2>3, <2>5 DEF ModelsOK
  <2>7. \A e : Awaits(e, models) => Awaits(e, models')
    BY <2>5 DEF Awaits
  <2>8. AskedOK'
    BY <2>1, <2>4, <2>7 DEF ModelInv, AskedOK, A!Takes
  <2> QED
    BY <1>3, <2>6, <2>8 DEF ModelInv
<1> QED
  BY <1>5, <1>6, <1>7

LEMMA EditorSet ==
    ASSUME EditorsOK, NEW o \in Operators, NEW e, Edits(e), A!SetEditor(o, e)
    PROVE  EditorsOK'
BY DEF EditorsOK, A!SetEditor

LEMMA EditFacts ==
    ASSUME NEW e, Edits(e)
    PROVE  /\ \A x : /\ Edits([e EXCEPT !.local = x]) /\ Edits([e EXCEPT !.validating = x])
                     /\ Edits([e EXCEPT !.staging = x]) /\ Edits([e EXCEPT !.getting = x])
                     /\ Verdict(x) => Edits([e EXCEPT !.validation = x])
                     /\ Kept(x) => Edits([e EXCEPT !.data = x])
           /\ \A c : Edits(A!Resting(e, c))
<1>1. ASSUME NEW x
      PROVE  /\ Edits([e EXCEPT !.local = x]) /\ Edits([e EXCEPT !.validating = x])
             /\ Edits([e EXCEPT !.staging = x]) /\ Edits([e EXCEPT !.getting = x])
             /\ Verdict(x) => Edits([e EXCEPT !.validation = x])
             /\ Kept(x) => Edits([e EXCEPT !.data = x])
  BY DEF Edits
<1>2. ASSUME NEW c PROVE Edits(A!Resting(e, c))
  <2>1. \A x, y, z : [e EXCEPT !.validating = x, !.staging = y, !.getting = z]
                       = [[[e EXCEPT !.validating = x] EXCEPT !.staging = y] EXCEPT !.getting = z]
    OBVIOUS
  <2>2. ASSUME NEW x, NEW y, NEW z PROVE Edits([e EXCEPT !.validating = x, !.staging = y, !.getting = z])
    <3> DEFINE f == [e EXCEPT !.validating = x]  g == [f EXCEPT !.staging = y]
    <3>1. Edits(f)
      BY DEF Edits
    <3> HIDE DEF f
    <3>2. Edits(g)
      BY <3>1 DEF Edits
    <3> HIDE DEF g
    <3>3. Edits([g EXCEPT !.getting = z])
      BY <3>2 DEF Edits
    <3> QED
      BY <2>1, <3>3 DEF f, g
  <2>3. \E x, y, z : A!Resting(e, c) = [e EXCEPT !.validating = x, !.staging = y, !.getting = z]
    BY DEF A!Resting
  <2>4. PICK x, y, z : A!Resting(e, c) = [e EXCEPT !.validating = x, !.staging = y, !.getting = z]
    BY <2>3, Zenon
  <2>5. Edits([e EXCEPT !.validating = x, !.staging = y, !.getting = z])
    BY <2>2, Zenon
  <2> QED
    BY <2>4, <2>5, Zenon
<1> QED
  BY <1>1, <1>2

(* What an operator types and asks for.                                       *)
LEMMA EditorKeeps ==
    ASSUME ModelInv, NEW o \in Operators, NEW t,
           A!typeDsl(o, t) \/ A!revert(o) \/ A!validate(o) \/ A!stageDraft(o) \/ A!windowFocusModel(o)
    PROVE  ModelInv'
<1> DEFINE e == editor[o]
<1>1. Edits(e) /\ EditorsOK
  BY DEF ModelInv, EditorsOK
<1>2. UNCHANGED <<seed, models, current>>
  BY DEF A!typeDsl, A!revert, A!validate, A!stageDraft, A!windowFocusModel, A!Posts
<1>3. AskedOK'
  <2>1. ASSUME NEW kind \in {"get", "validate", "stage"} PROVE Awaits(A!Sent(o, kind), models)
    BY DEF Awaits, A!Sent
  <2>2. CASE UNCHANGED asked
    BY <1>2, <2>2 DEF ModelInv, AskedOK
  <2>3. CASE \E kind \in {"get", "validate", "stage"} : asked' = asked \cup {A!Sent(o, kind)}
    BY <1>2, <2>1, <2>3 DEF ModelInv, AskedOK
  <2> QED
    BY <2>2, <2>3 DEF A!typeDsl, A!revert, A!validate, A!stageDraft, A!windowFocusModel, A!Posts
<1>4. EditorsOK'
  <2>1. \E x : \/ A!SetEditor(o, [e EXCEPT !.local = x]) \/ A!SetEditor(o, [e EXCEPT !.validating = x])
               \/ A!SetEditor(o, [e EXCEPT !.staging = x]) \/ A!SetEditor(o, [e EXCEPT !.getting = x])
    BY DEF A!typeDsl, A!revert, A!validate, A!stageDraft, A!windowFocusModel
  <2> HIDE DEF e
  <2> QED
    BY <1>1, <2>1, EditFacts, EditorSet
<1> QED
  BY <1>2, <1>3, <1>4, QuietModel

(* What comes back, or is lost.                                               *)
LEMMA ModelAnswerKeeps ==
    ASSUME ModelInv, NEW c \in asked,
           A!receiveValidation(c) \/ A!receiveStage(c) \/ A!receiveModel(c) \/ A!modelCallFails(c)
    PROVE  ModelInv'
<1>1. Awaits(c, models) /\ EditorsOK /\ c.by \in Operators
  BY DEF ModelInv, AskedOK, Awaits
<1> DEFINE o == c.by
           e == editor[o]
           r == A!Resting(e, c)
<1>2. Edits(e) /\ Edits(r)
  BY <1>1, EditFacts DEF EditorsOK
<1>3. UNCHANGED <<seed, models, current>>
  BY DEF A!receiveValidation, A!receiveStage, A!receiveModel, A!modelCallFails
<1>4. CASE A!receiveStage(c)
  <2> DEFINE d == [[c EXCEPT !.kind = "get"] EXCEPT !.at = "sent"]
             f == [r EXCEPT !.local = None]
  <2>1. A!Takes(c, [c EXCEPT !.kind = "get", !.at = "sent"])
        /\ A!SetEditor(o, [r EXCEPT !.local = None, !.getting = c.id])
    BY <1>4 DEF A!receiveStage
  <2>2. [c EXCEPT !.kind = "get", !.at = "sent"] = d
        /\ [r EXCEPT !.local = None, !.getting = c.id] = [f EXCEPT !.getting = c.id]
    OBVIOUS
  <2>3. Awaits(d, models)
    BY <1>1 DEF Awaits
  <2> HIDE DEF r, d
  <2>4. Edits(f)
    BY <1>2, EditFacts
  <2> HIDE DEF f
  <2>5. Edits([f EXCEPT !.getting = c.id])
    BY <2>4, EditFacts
  <2> HIDE DEF o
  <2>6. EditorsOK'
    BY <1>1, <2>1, <2>2, <2>5, EditorSet DEF o
  <2>7. AskedOK'
    BY <1>3, <2>1, <2>2, <2>3, TakesKeeps
  <2> QED
    BY <1>3, <2>6, <2>7, QuietModel
<1>5. CASE A!receiveValidation(c) \/ A!receiveModel(c) \/ A!modelCallFails(c)
  <2>1. asked' = asked \ {c}
    BY <1>5 DEF A!receiveValidation, A!receiveModel, A!modelCallFails
  <2>2. AskedOK'
    BY <1>3, <2>1 DEF ModelInv, AskedOK
  <2>3. \E f : Edits(f) /\ A!SetEditor(o, f)
    <3>1. CASE A!receiveValidation(c)
      <4>1. Verdict(c.body)
        BY <1>1, <3>1 DEF A!receiveValidation, Awaits
      <4>2. A!SetEditor(o, [r EXCEPT !.validation = c.body])
        BY <3>1 DEF A!receiveValidation
      <4> HIDE DEF r
      <4>3. Edits([r EXCEPT !.validation = c.body])
        BY <1>2, <4>1, EditFacts
      <4> QED
        BY <4>2, <4>3
    <3>2. CASE A!receiveModel(c)
      <4>1. c.at = "answered" /\ c.kind = "get"
        BY <3>2 DEF A!receiveModel
      <4>2. Kept(c.body)
        BY <1>1, <4>1 DEF Awaits
      <4>3. A!SetEditor(o, [r EXCEPT !.data = c.body]) \/ A!SetEditor(o, e)
        BY <3>2 DEF A!receiveModel
      <4> HIDE DEF r, e
      <4>4. Edits([r EXCEPT !.data = c.body])
        BY <1>2, <4>2, EditFacts
      <4> QED
        BY <1>2, <4>3, <4>4
    <3>3. CASE A!modelCallFails(c)
      BY <1>2, <3>3 DEF A!modelCallFails
    <3> QED
      BY <1>5, <3>1, <3>2, <3>3
  <2> HIDE DEF o
  <2>4. EditorsOK'
    BY <1>1, <2>3, EditorSet DEF o
  <2> QED
    BY <1>3, <2>2, <2>4, QuietModel
<1> QED
  BY <1>4, <1>5

LEMMA ModelInvInit == page = "model" /\ Init => ModelInv
<1> SUFFICES ASSUME page = "model", Init PROVE ModelInv
  OBVIOUS
<1> USE SeedModelsAssumption
<1>1. A!ModelInit
  BY DEF Init
<1>2. seed \in SeedModels /\ seed \in Models /\ Kept(seed)
  BY <1>1 DEF A!ModelInit, Kept
<1>3. ModelsOK
  <2>1. CASE models = <<seed>> /\ current = 1
    <3>1. models \in Seq(Models) /\ Len(models) = 1 /\ DOMAIN models = 1..1 /\ models[1] = seed
      BY <1>2, <2>1
    <3> QED
      BY <1>2, <2>1, <3>1 DEF ModelsOK
  <2>2. CASE models = <<>> /\ current = 0
    <3>1. models \in Seq(Models) /\ Len(models) = 0 /\ DOMAIN models = {}
      BY <2>2
    <3> QED
      BY <1>2, <2>2, <3>1 DEF ModelsOK
  <2> QED
    BY <1>1, <2>1, <2>2 DEF A!ModelInit
<1>4. AskedOK
  BY <1>1 DEF A!ModelInit, AskedOK
<1>5. EditorsOK
  <2> DEFINE e == [data |-> seed, local |-> None, validation |-> None, validating |-> 0, staging |-> 0, getting |-> 0]
  <2>1. editor = [o \in Operators |-> e]
    BY <1>1 DEF A!ModelInit
  <2>2. Edits(e)
    BY <1>2 DEF Edits, Verdict
  <2> HIDE DEF e
  <2> QED
    BY <2>1, <2>2 DEF EditorsOK
<1> QED
  BY <1>3, <1>4, <1>5 DEF ModelInv

LEMMA ModelInvStep == page = "model" /\ ModelInv /\ [Next]_vars => ModelInv'
<1> SUFFICES ASSUME page = "model", ModelInv, [Next]_vars PROVE ModelInv'
  OBVIOUS
<1>1. CASE UNCHANGED vars
  <2>1. UNCHANGED <<seed, models, current, asked, editor>>
    BY <1>1 DEF vars, modelVars
  <2>2. AskedOK' /\ EditorsOK'
    BY <2>1 DEF ModelInv, AskedOK, EditorsOK
  <2> QED
    BY <2>1, <2>2, QuietModel
<1>2. CASE A!ModelNext
  <2>1. ASSUME NEW c \in asked,
               \/ A!stateFor(c) \/ A!getAuthorizationModel(c) \/ A!validateModel(c) \/ A!stageModel(c)
               \/ A!receiveValidation(c) \/ A!receiveStage(c) \/ A!receiveModel(c) \/ A!modelCallFails(c)
        PROVE  ModelInv'
    BY <2>1, StateForKeeps, ModelServerKeeps, ModelAnswerKeeps
  <2>2. ASSUME NEW o \in Operators, NEW t,
               A!typeDsl(o, t) \/ A!revert(o) \/ A!validate(o) \/ A!stageDraft(o) \/ A!windowFocusModel(o)
        PROVE  ModelInv'
    BY <2>2, EditorKeeps
  <2> QED
    BY <1>2, <2>1, <2>2 DEF A!ModelNext
<1> QED
  BY <1>1, <1>2 DEF Next

-----------------------------------------------------------------------------
(* Spec history *)

Bodies == Docs \cup SavedDocs
(* A list the page has read is the beginning of the history.                  *)
Begins(p, h) == /\ \E S : p \in Seq(S)
                /\ Len(p) \in 1..Len(h) /\ \A i \in 1..Len(p) : p[i] = h[i]
VersionsOK ==
    /\ \E S : history \in Seq(S)
    /\ \A i \in DOMAIN history :
         /\ history[i].body \in Bodies
         /\ history[i].summary # None =>
              i > 1 /\ history[i].summary = H!describeChange(history[i - 1].body, history[i].body)
PageOK == /\ {"items", "fetched", "a", "b"} \subseteq DOMAIN compare
          /\ Begins(compare.items, history)
          /\ compare.fetched # None => Begins(compare.fetched, history)
HistoryInv == VersionsOK /\ PageOK

(* Whatever the link names, the older of two generations comes first.         *)
LEMMA SelectionFacts ==
    ASSUME NEW n \in Nat \ {0}, NEW a, NEW b
    PROVE  LET s == H!resolveSelection(n, a, b)
           IN  s.a \in 1..n /\ s.b \in 1..n /\ (s.a < s.b \/ s.b = 1)
<1> DEFINE B == IF b \in 1..n THEN b ELSE n
           F == IF B > 1 THEN B - 1 ELSE B
           A1 == IF a \in 1..n /\ a # B THEN a ELSE F
           s == H!resolveSelection(n, a, b)
<1>1. s = [a |-> H!Min({A1, B}), b |-> H!Max({A1, B})]
  BY DEF H!resolveSelection
<1>2. B \in 1..n /\ F \in 1..n /\ (F < B \/ B = 1)
  OBVIOUS
<1> HIDE DEF F, B
<1>3. A1 \in 1..n /\ (A1 # B \/ B = 1)
  BY <1>2
<1> HIDE DEF A1, s
<1>4. ASSUME NEW x \in 1..n, NEW y \in 1..n
      PROVE  /\ H!Min({x, y}) = IF x <= y THEN x ELSE y
             /\ H!Max({x, y}) = IF x <= y THEN y ELSE x
  BY DEF H!Min, H!Max
<1>5. H!Min({A1, B}) = (IF A1 <= B THEN A1 ELSE B) /\ H!Max({A1, B}) = (IF A1 <= B THEN B ELSE A1)
  BY <1>2, <1>3, <1>4
<1>6. s.a = H!Min({A1, B}) /\ s.b = H!Max({A1, B})
  BY <1>1
<1>7. CASE A1 = B
  BY <1>2, <1>3, <1>5, <1>6, <1>7 DEF s
<1>8. CASE A1 # B
  BY <1>2, <1>3, <1>5, <1>6, <1>8 DEF s
<1> QED
  BY <1>7, <1>8 DEF s

(* A save adds one version and describes its change; the page reads the list. *)
LEMMA HistoryStep ==
    ASSUME HistoryInv, H!HistoryNext
    PROVE  HistoryInv'
<1>1. CASE \E d \in SavedDocs : H!saveVersion(d)
  <2>1. PICK d \in SavedDocs : H!saveVersion(d)
    BY <1>1
  <2> DEFINE n == Len(history)
             v == [body |-> d, summary |-> H!describeChange(H!Last(history).body, d)]
  <2>2. history' = Append(history, v) /\ compare' = compare
    BY <2>1 DEF H!saveVersion
  <2>3. n \in Nat \ {0} /\ DOMAIN history = 1..n
    BY DEF HistoryInv, VersionsOK, PageOK, Begins
  <2>4. v.body = d /\ v.summary = H!describeChange(history[n].body, d)
    BY DEF H!Last
  <2> HIDE DEF v
  <2>5. /\ \E S : history' \in Seq(S)
        /\ Len(history') = n + 1 /\ DOMAIN history' = 1..(n + 1)
        /\ (\A i \in 1..n : history'[i] = history[i]) /\ history'[n + 1] = v
    <3>1. PICK S : history \in Seq(S)
      BY DEF HistoryInv, VersionsOK
    <3>2. history \in Seq(S \cup {v}) /\ v \in S \cup {v}
      BY <3>1
    <3> QED
      BY <2>2, <3>2
  <2>6. ASSUME NEW i \in DOMAIN history'
        PROVE  /\ history'[i].body \in Bodies
               /\ history'[i].summary # None =>
                    i > 1 /\ history'[i].summary = H!describeChange(history'[i - 1].body, history'[i].body)
    <3>1. CASE i \in 1..n
      <4>1. i > 1 => i - 1 \in 1..n
        BY <3>1
      <4> QED
        BY <2>3, <2>5, <3>1, <4>1 DEF HistoryInv, VersionsOK
    <3>2. CASE i = n + 1
      <4>1. i > 1 /\ i - 1 = n /\ n \in 1..n
        BY <2>3, <3>2
      <4> QED
        BY <2>4, <2>5, <3>2, <4>1 DEF Bodies
    <3> QED
      BY <2>3, <2>5, <3>1, <3>2
  <2>7. \A p : Begins(p, history) => Begins(p, history')
    <3> SUFFICES ASSUME NEW p, Begins(p, history) PROVE Begins(p, history')
      OBVIOUS
    <3>1. Len(p) \in 1..n
      BY DEF Begins
    <3>2. Len(p) \in 1..(n + 1) /\ \A i \in 1..Len(p) : i \in 1..n
      BY <2>3, <3>1
    <3> QED
      BY <2>5, <3>2 DEF Begins
  <2>8. VersionsOK'
    BY <2>5, <2>6 DEF VersionsOK
  <2>9. PageOK'
    BY <2>2, <2>7 DEF HistoryInv, PageOK
  <2> QED
    BY <2>8, <2>9 DEF HistoryInv
<1>2. CASE \/ \E g : H!select(g)
           \/ H!listVersions \/ H!receiveVersions \/ H!versionsFail
  <2>0. UNCHANGED history
    BY <1>2 DEF H!select, H!listVersions, H!receiveVersions, H!versionsFail
  <2>1. VersionsOK'
    BY <2>0 DEF HistoryInv, VersionsOK
  <2>2. Begins(history, history)
    BY DEF HistoryInv, VersionsOK, PageOK, Begins
  <2>3. \A x, y : /\ "items" \in DOMAIN compare /\ "fetched" \in DOMAIN compare
                  /\ [compare EXCEPT !.a = x, !.b = y] = [[compare EXCEPT !.a = x] EXCEPT !.b = y]
                  /\ [compare EXCEPT !.items = x, !.fetched = y] = [[compare EXCEPT !.items = x] EXCEPT !.fetched = y]
    BY DEF HistoryInv, PageOK
  <2>4. ASSUME \E g : H!select(g) PROVE PageOK'
    <3>1. PICK x, y : compare' = [compare EXCEPT !.a = x, !.b = y]
      BY <2>4 DEF H!select
    <3>2. compare' = [[compare EXCEPT !.a = x] EXCEPT !.b = y]
      BY <2>3, <3>1
    <3> QED
      BY <2>0, <3>2 DEF HistoryInv, PageOK
  <2>5. ASSUME H!listVersions PROVE PageOK'
    <3>1. compare' = [compare EXCEPT !.fetched = history]
      BY <2>5 DEF H!listVersions
    <3> QED
      BY <2>0, <2>2, <3>1 DEF HistoryInv, PageOK
  <2>6. ASSUME H!receiveVersions PROVE PageOK'
    <3>1. compare' = [compare EXCEPT !.items = compare.fetched, !.fetched = None] /\ compare.fetched # None
      BY <2>6 DEF H!receiveVersions
    <3>2. compare' = [[compare EXCEPT !.items = compare.fetched] EXCEPT !.fetched = None]
      BY <2>3, <3>1
    <3> QED
      BY <2>0, <3>1, <3>2 DEF HistoryInv, PageOK
  <2>7. ASSUME H!versionsFail PROVE PageOK'
    <3>1. compare' = [compare EXCEPT !.fetched = None]
      BY <2>7 DEF H!versionsFail
    <3> QED
      BY <2>0, <3>1 DEF HistoryInv, PageOK
  <2> QED
    BY <1>2, <2>1, <2>4, <2>5, <2>6, <2>7 DEF HistoryInv
<1> QED
  BY <1>1, <1>2 DEF H!HistoryNext

LEMMA HistoryInvInit == page = "history" /\ Init => HistoryInv
<1> SUFFICES ASSUME page = "history", Init PROVE HistoryInv
  OBVIOUS
<1>1. H!HistoryInit
  BY DEF Init
<1>2. PICK d \in Docs, e \in Docs : history = <<[body |-> d, summary |-> None], [body |-> e, summary |-> None]>>
  BY <1>1 DEF H!HistoryInit
<1>3. PICK l \in Links : compare = [items |-> history, fetched |-> None, a |-> l[1], b |-> l[2]]
  BY <1>1 DEF H!HistoryInit
<1> DEFINE v == [body |-> d, summary |-> None]
           w == [body |-> e, summary |-> None]
<1>4. v.body \in Bodies /\ v.summary = None /\ w.body \in Bodies /\ w.summary = None
  BY DEF Bodies
<1>5. history = <<v, w>>
  BY <1>2
<1> HIDE DEF v, w
<1>6. /\ history \in Seq({v, w}) /\ Len(history) = 2 /\ DOMAIN history = 1..2
      /\ \A i \in 1..2 : history[i] = v \/ history[i] = w
  BY <1>5
<1>7. VersionsOK
  BY <1>4, <1>6 DEF VersionsOK
<1>8. Begins(history, history)
  BY <1>6 DEF Begins
<1>9. PageOK
  BY <1>3, <1>8 DEF PageOK
<1> QED
  BY <1>7, <1>9 DEF HistoryInv

LEMMA HistoryInvStep == page = "history" /\ HistoryInv /\ [Next]_vars => HistoryInv'
<1> SUFFICES ASSUME page = "history", HistoryInv, [Next]_vars PROVE HistoryInv'
  OBVIOUS
<1>1. CASE UNCHANGED vars
  BY <1>1 DEF vars, historyVars, HistoryInv, VersionsOK, PageOK
<1>2. CASE H!HistoryNext
  BY <1>2, HistoryStep
<1> QED
  BY <1>1, <1>2 DEF Next

(* What the page compares. *)
Compared == LET n == Len(compare.items)
                a == H!sel.a
                b == H!sel.b
            IN  /\ a \in 1..n /\ b \in 1..n /\ (a < b \/ b = 1)
                /\ n <= Len(history) /\ H!Body(a) = history[a].body /\ H!Body(b) = history[b].body

LEMMA ComparedHolds == HistoryInv => Compared
<1> SUFFICES ASSUME HistoryInv PROVE Compared
  OBVIOUS
<1> DEFINE n == Len(compare.items)
           s == H!sel
<1>1. n \in Nat \ {0} /\ Len(history) \in Nat /\ n <= Len(history) /\ \A i \in 1..n : compare.items[i] = history[i]
  BY DEF HistoryInv, VersionsOK, PageOK, Begins
<1>2. s = H!resolveSelection(n, compare.a, compare.b)
  BY DEF H!sel
<1> HIDE DEF n, s
<1>3. s.a \in 1..n /\ s.b \in 1..n /\ (s.a < s.b \/ s.b = 1)
  BY <1>1, <1>2, SelectionFacts
<1> QED
  BY <1>1, <1>3 DEF Compared, H!Body, n, s

-----------------------------------------------------------------------------
(* Playground *)

(* A decision is cached, or on its way, under the question it answers.        *)
Decision(q) == Y!explain(model, tuples, q)
ViewOK(v) == /\ {"submitted", "cache", "recent", "asking", "batching", "batch"} \subseteq DOMAIN v
             /\ v.submitted \in DOMAIN v.cache
             /\ \A q \in DOMAIN v.cache : q \in Checks /\ v.cache[q] = Decision(q)
Question(p) == /\ {"id", "kind", "body", "answer"} \subseteq DOMAIN p
               /\ p.kind = "explain" => p.body \in Checks /\ (p.answer # None => p.answer = Decision(p.body))
PlayInv == /\ model \in AuthModels /\ tuples \in TupleSets
           /\ ViewOK(view) /\ \A p \in posted : Question(p)

LEMMA RestedOK ==
    ASSUME PlayInv, NEW p
    PROVE  ViewOK(Y!Rested(p))
<1> DEFINE x == IF view.asking = p.id THEN 0 ELSE view.asking
           y == IF view.batching = p.id THEN 0 ELSE view.batching
           u == [view EXCEPT !.asking = x]
<1>1. Y!Rested(p) = [u EXCEPT !.batching = y]
  BY DEF Y!Rested
<1> HIDE DEF x, y
<1>2. ViewOK(u)
  BY DEF PlayInv, ViewOK
<1> HIDE DEF u
<1>3. ViewOK([u EXCEPT !.batching = y])
  BY <1>2 DEF ViewOK
<1> QED
  BY <1>1, <1>3

LEMMA PlayFrame ==
    ASSUME UNCHANGED <<model, tuples>>
    PROVE  /\ \A v : ViewOK(v) => ViewOK(v)'
           /\ \A p : Question(p) => Question(p)'
BY DEF ViewOK, Question, Decision

LEMMA PlayStep ==
    ASSUME PlayInv, Y!PlayNext
    PROVE  PlayInv'
<1>1. UNCHANGED <<model, tuples>>
  BY DEF Y!PlayNext, Y!submit, Y!rerun, Y!submitBatch, Y!Asking, Y!answerQuestion, Y!receiveExplain,
         Y!receiveBatch, Y!questionFails
<1>2. ViewOK(view) /\ \A p \in posted : Question(p)
  BY DEF PlayInv
<1>3. ASSUME NEW v, ViewOK(v), view' = v, \A p \in posted' : Question(p)
      PROVE  PlayInv'
  <2>1. ViewOK(view)'
    BY <1>1, <1>3 DEF ViewOK, Decision
  <2>2. \A p \in posted' : Question(p)'
    BY <1>1, <1>3, PlayFrame
  <2> QED
    BY <1>1, <2>1, <2>2 DEF PlayInv
<1>4. ASSUME NEW kind, NEW body, Y!Asking(kind, body), kind = "explain" => body \in Checks
      PROVE  PlayInv'
  <2> DEFINE p == [id |-> questions + 1, kind |-> kind, body |-> body, answer |-> None]
  <2>1. Question(p)
    BY <1>4 DEF Question
  <2>2. posted' = posted \cup {p}
    BY <1>4 DEF Y!Asking
  <2>3. view' = [view EXCEPT !.batching = questions + 1] \/ view' = [view EXCEPT !.asking = questions + 1]
    BY <1>4 DEF Y!Asking
  <2>4. ViewOK([view EXCEPT !.batching = questions + 1]) /\ ViewOK([view EXCEPT !.asking = questions + 1])
    BY <1>2 DEF ViewOK
  <2> HIDE DEF p
  <2>5. \A q \in posted' : Question(q)
    BY <1>2, <2>1, <2>2
  <2> QED
    BY <1>3, <2>3, <2>4, <2>5
<1>5. ASSUME NEW q \in Checks, Y!submit(q) \/ Y!rerun(q) PROVE PlayInv'
  BY <1>4, <1>5 DEF Y!submit, Y!rerun
<1>6. ASSUME NEW qs, Y!submitBatch(qs) PROVE PlayInv'
  BY <1>4, <1>6 DEF Y!submitBatch
<1>7. ASSUME NEW p \in posted, Y!answerQuestion(p) PROVE PlayInv'
  <2> DEFINE a == IF p.kind = "explain" THEN Y!explain(model, tuples, p.body)
                  ELSE [i \in DOMAIN p.body |-> Y!explain(model, tuples, p.body[i]).allowed]
             d == [p EXCEPT !.answer = a]
  <2>1. posted' = (posted \ {p}) \cup {d} /\ view' = view
    BY <1>7 DEF Y!answerQuestion
  <2>2. p.kind = "explain" => a = Decision(p.body)
    BY DEF Decision
  <2> HIDE DEF a
  <2>3. Question(d)
    BY <1>2, <2>2 DEF Question
  <2> HIDE DEF d
  <2> QED
    BY <1>2, <1>3, <2>1, <2>3
<1>8. ASSUME NEW p \in posted, Y!receiveExplain(p) PROVE PlayInv'
  <2> DEFINE r == Y!Rested(p)
             c == Y!Cached(p)
             x == Y!addRecent(r.recent, p.body)
             v1 == [r EXCEPT !.cache = c]
             v2 == [v1 EXCEPT !.submitted = p.body]
             v3 == [v2 EXCEPT !.batch = <<>>]
             v4 == [v3 EXCEPT !.recent = x]
  <2>1. p.kind = "explain" /\ p.answer # None /\ posted' = posted \ {p}
        /\ view' = [r EXCEPT !.submitted = p.body, !.cache = c, !.batch = <<>>, !.recent = Y!addRecent(@, p.body)]
    BY <1>8 DEF Y!receiveExplain
  <2>2. ViewOK(r)
    BY RestedOK
  <2>3. p.body \in Checks /\ p.answer = Decision(p.body)
    BY <1>2, <2>1 DEF Question
  <2>4. /\ DOMAIN c = DOMAIN view.cache \cup {p.body}
        /\ \A q \in DOMAIN c : c[q] = IF q = p.body THEN p.answer ELSE view.cache[q]
    BY DEF Y!Cached
  <2>5. \A q \in DOMAIN c : q \in Checks /\ c[q] = Decision(q)
    BY <1>2, <2>3, <2>4 DEF ViewOK
  <2> HIDE DEF r, c
  <2>6. view' = v4
    BY <2>1, <2>2 DEF ViewOK
  <2> HIDE DEF x
  <2>7. {"submitted", "cache", "recent", "asking", "batching", "batch"} \subseteq DOMAIN v2
        /\ v2.submitted = p.body /\ v2.cache = c
    BY <2>2 DEF ViewOK
  <2> HIDE DEF v2
  <2>8. ViewOK(v2)
    BY <2>4, <2>5, <2>7 DEF ViewOK
  <2>9. ViewOK(v3)
    BY <2>8 DEF ViewOK
  <2> HIDE DEF v3
  <2>10. ViewOK(v4)
    BY <2>9 DEF ViewOK
  <2> HIDE DEF v4
  <2> QED
    BY <1>2, <1>3, <2>1, <2>6, <2>10
<1>9. ASSUME NEW p \in posted, Y!receiveBatch(p) PROVE PlayInv'
  <2> DEFINE r == Y!Rested(p)
             b == [i \in DOMAIN p.body |-> <<p.body[i], p.answer[i]>>]
  <2>1. posted' = posted \ {p} /\ view' = [r EXCEPT !.batch = b]
    BY <1>9 DEF Y!receiveBatch
  <2>2. ViewOK(r)
    BY RestedOK
  <2> HIDE DEF r, b
  <2>3. ViewOK([r EXCEPT !.batch = b])
    BY <2>2 DEF ViewOK
  <2> QED
    BY <1>2, <1>3, <2>1, <2>3
<1>10. ASSUME NEW p \in posted, Y!questionFails(p) PROVE PlayInv'
  <2>1. posted' = posted \ {p} /\ view' = Y!Rested(p)
    BY <1>10 DEF Y!questionFails
  <2> QED
    BY <1>2, <1>3, <2>1, RestedOK
<1> QED
  BY <1>5, <1>6, <1>7, <1>8, <1>9, <1>10 DEF Y!PlayNext

LEMMA PlayInvInit == page = "playground" /\ Init => PlayInv
<1> SUFFICES ASSUME page = "playground", Init PROVE PlayInv
  OBVIOUS
<1>1. Y!PlayInit
  BY DEF Init
<1>2. PICK q \in Checks : view = [submitted |-> q, cache |-> [c \in {q} |-> Decision(q)],
                                  recent |-> <<>>, asking |-> 0, batching |-> 0, batch |-> <<>>]
  BY <1>1 DEF Y!PlayInit, Decision
<1>3. ViewOK(view)
  BY <1>2 DEF ViewOK
<1> QED
  BY <1>1, <1>3 DEF Y!PlayInit, PlayInv

LEMMA PlayInvStep == page = "playground" /\ PlayInv /\ [Next]_vars => PlayInv'
<1> SUFFICES ASSUME page = "playground", PlayInv, [Next]_vars PROVE PlayInv'
  OBVIOUS
<1>1. CASE UNCHANGED vars
  <2>1. UNCHANGED <<model, tuples, view, posted>>
    BY <1>1 DEF vars, playVars
  <2> QED
    BY <2>1 DEF PlayInv, ViewOK, Question, Decision
<1>2. CASE Y!PlayNext
  BY <1>2, PlayStep
<1> QED
  BY <1>1, <1>2 DEF Next


-----------------------------------------------------------------------------
(* The screens together *)

(* Each screen keeps its invariant while it is the one at work.               *)
ScreenInv == /\ page = "relations" => RelInv
             /\ page = "providers" => ProbesInv
             /\ page = "members" => MembersInv
             /\ page = "model" => ModelInv
             /\ page = "playground" => PlayInv
             /\ page = "history" => HistoryInv

LEMMA ScreensKeep == Spec => []ScreenInv
<1>1. Init => ScreenInv
  BY RelInvInit, ProbesInvInit, MembersInvInit, ModelInvInit, PlayInvInit, HistoryInvInit DEF ScreenInv
<1>2. ScreenInv /\ [Next]_vars => ScreenInv'
  <2>1. [Next]_vars => page' = page
    BY DEF Next, vars
  <2> QED
    BY <2>1, RelInvStep, ProbesInvStep, MembersInvStep, ModelInvStep, PlayInvStep, HistoryInvStep DEF ScreenInv
<1> QED
  BY <1>1, <1>2, PTL DEF Spec

(* Every screen's state has its type: a handler that has its store or model   *)
(* has one the process built, a decision is cached for the question shown, a  *)
(* page of the history lists what the server has (the six server.ts and their *)
(* pages).                                                                    *)
THEOREM ScreensTyped == Spec => []TypeOK
<1>1. ScreenInv => TypeOK
  <2> SUFFICES ASSUME ScreenInv PROVE TypeOK
    OBVIOUS
  <2>1. page = "relations" => R!RelTypeOK
    BY DEF ScreenInv, RelInv, StoresOK, WritesOK, WriteOK, TabsOK, TabOK, StoreRec, R!RelTypeOK
  <2>2. page = "providers" => P!ProviderTypeOK
    BY DEF ScreenInv, ProbesInv, Probes, Sender, P!ProviderTypeOK
  <2>3. page = "members" => M!MembersTypeOK
    BY DEF ScreenInv, MembersInv, Counted, ScreensInv, Draws, Asks, M!MembersTypeOK
  <2>4. page = "model" => A!ModelTypeOK
    <3> SUFFICES ASSUME ModelInv PROVE A!ModelTypeOK
      BY DEF ScreenInv
    <3>1. ASSUME NEW m \in A!Stored \cup A!Shown PROVE m.draft \in Texts /\ m.versions # <<>>
      <4>1. Kept(m)
        BY DEF ModelInv, ModelsOK, EditorsOK, Edits, A!Stored, A!Shown
      <4>2. m \in Models /\ Len(m.versions) = IF m.draftVersion = 0 THEN m.liveVersion ELSE m.draftVersion
        BY <4>1 DEF Kept, A!WithOneDraft
      <4>3. Len(m.versions) # 0
        BY <4>2 DEF Models
      <4> QED
        BY <4>2, <4>3 DEF Models
    <3> QED
      BY <3>1 DEF ModelInv, ModelsOK, AskedOK, Awaits, EditorsOK, A!ModelTypeOK
  <2>5. page = "playground" => Y!PlayTypeOK
    BY DEF ScreenInv, PlayInv, ViewOK, Question, Y!PlayTypeOK
  <2>6. page = "history" => H!HistoryTypeOK
    <3> SUFFICES ASSUME HistoryInv PROVE H!HistoryTypeOK
      BY DEF ScreenInv
    <3>1. \A g \in DOMAIN history : history[g].body \in Docs \cup SavedDocs
      BY DEF HistoryInv, VersionsOK, Bodies
    <3>2. /\ Len(compare.items) \in 1..Len(history)
          /\ \A g \in DOMAIN compare.items : compare.items[g] = history[g]
      BY DEF HistoryInv, PageOK, Begins
    <3> QED
      BY <3>1, <3>2 DEF H!HistoryTypeOK
  <2> QED
    BY <2>1, <2>2, <2>3, <2>4, <2>5, <2>6 DEF TypeOK
<1> QED
  BY <1>1, ScreensKeep, PTL

(* An address is invited at most once while the process lives, in whatever    *)
(* case it is typed and however calls interleave or are lost, and a member    *)
(* never (inviteUser in users/server.ts).                                     *)
THEOREM InvitationsUnique == Spec => []InvitedOnce
<1>1. ScreenInv => InvitedOnce
  <2> SUFFICES ASSUME MembersInv, NEW e \in Addresses
               PROVE  sent[lower[e]] <= 1 /\ (lower[e] \in Members => sent[lower[e]] = 0)
    BY DEF ScreenInv, InvitedOnce, M!InvitedOnce
  <2> QED
    BY AddressesAssumption DEF MembersInv, Counted
<1> QED
  BY <1>1, ScreensKeep, PTL

(* The tone beside the issuer field is the guard's verdict on what the field  *)
(* holds, in whatever order probes are answered and forms remounted, for any  *)
(* operators, issuers and calls under way (issuerTone in connection-form.tsx).*)
THEOREM TonesTrue == Spec => []IssuerToneTrue
<1>1. ScreenInv => IssuerToneTrue
  BY ToneFollows DEF ScreenInv, IssuerToneTrue
<1> QED
  BY <1>1, ScreensKeep, PTL

(* Whatever batches are applied, in whatever order and by whom, a tuple store *)
(* never holds a tuple twice and its total counts exactly the tuples it       *)
(* gained and lost (writeRelations in relations/server.ts).                   *)
THEOREM TuplesAlwaysCounted == Spec => []TuplesCounted
<1>1. ScreenInv => TuplesCounted
  <2> SUFFICES ASSUME RelInv, NEW i \in DOMAIN objs
               PROVE  /\ R!Cardinality(R!Ran(objs[i].items)) = Len(objs[i].items)
                      /\ objs[i].total = Len(objs[i].items) + Hidden
    BY DEF ScreenInv, TuplesCounted, R!TuplesCounted
  <2>1. TotalTrue(objs[i])
    BY DEF RelInv, StoresOK
  <2>2. objs[i].items \in Seq(Tuples) /\ Distinct(objs[i].items)
    BY <2>1 DEF TotalTrue, StoreRec
  <2>3. \A S : R!Cardinality(S) = Cardinality(S)
    BY Zenon DEF R!Cardinality, Cardinality
  <2> QED
    BY <2>1, <2>2, <2>3, DistinctCounts DEF TotalTrue
<1> QED
  BY <1>1, ScreensKeep, PTL

(* A batch that was applied and is sent again, its answer lost, changes       *)
(* nothing when no other batch reached that store in between (the handler     *)
(* does not read the Idempotency-Key: it deletes what is there and writes     *)
(* what is not).                                                              *)
THEOREM RetriesChangeNothing == Spec => []RetryAloneIsNoOp
<1>1. ScreenInv => RetryAloneIsNoOp
  BY DEF ScreenInv, RelInv, RetryAloneIsNoOp
<1> QED
  BY <1>1, ScreensKeep, PTL

(* Two operators may stage at once, from stale pages and again after a lost   *)
(* answer: every model the server or a page has keeps its live version and at *)
(* most one draft, the version after it, with a text that parses (stageModel  *)
(* in authz-model/server.ts).                                                 *)
THEOREM OneDraftAtATime ==
    Spec => [](page = "model" => A!OneDraft /\ \A m \in A!Stored \cup A!Shown : m.draft \in Parsing)
<1>1. ScreenInv => (page = "model" => A!OneDraft /\ \A m \in A!Stored \cup A!Shown : m.draft \in Parsing)
  <2> SUFFICES ASSUME ModelInv, NEW m \in A!Stored \cup A!Shown
               PROVE  A!WithOneDraft(m) /\ m.draft \in Parsing
    BY DEF ScreenInv, A!OneDraft
  <2>1. Kept(m)
    BY DEF ModelInv, ModelsOK, EditorsOK, Edits, A!Stored, A!Shown
  <2> QED
    BY <2>1 DEF Kept
<1> QED
  BY <1>1, ScreensKeep, PTL

(* The rest of OneDraft is about parseModel and summarize alone: when these   *)
(* are right about the texts (ParserTrue), every draft is closed and          *)
(* unambiguous and every validation on a page describes the text it is about, *)
(* however calls interleave.                                                  *)
THEOREM DraftsSound == ParserTrue => (Spec => []OneDraft)
<1>1. ParserTrue => ParserTrue'
  BY DEF ParserTrue
<1>2. ParserTrue /\ ScreenInv => OneDraft
  <2> SUFFICES ASSUME ParserTrue, ModelInv
               PROVE  /\ A!OneDraft
                      /\ \A m \in A!Stored \cup A!Shown : m.draft \in Sound
                      /\ \A o \in Operators : LET v == editor[o].validation IN v # None /\ v.ok => v.of \in Described
    BY Zenon DEF ScreenInv, OneDraft
  <2>1. \A m \in A!Stored \cup A!Shown : Kept(m)
    BY DEF ModelInv, ModelsOK, EditorsOK, Edits, A!Stored, A!Shown
  <2>2. A!OneDraft /\ \A m \in A!Stored \cup A!Shown : m.draft \in Sound
    BY <2>1 DEF Kept, A!OneDraft, ParserTrue
  <2>3. ASSUME NEW o \in Operators PROVE LET v == editor[o].validation IN v # None /\ v.ok => v.of \in Described
    <3>1. Verdict(editor[o].validation)
      BY DEF ModelInv, EditorsOK, Edits
    <3> QED
      BY <3>1, Zenon DEF Verdict, ParserTrue
  <2> QED
    BY <2>2, <2>3
<1> QED
  BY <1>1, <1>2, ScreensKeep, PTL

(* Whatever was saved meanwhile, whatever the link names and however lists    *)
(* are lost, the page puts an older generation beside a newer one of those it *)
(* loaded, and each pane has the text the server has under that number        *)
(* (resolveSelection in spec-history-view.tsx).                               *)
THEOREM PanesAreVersions == Spec => [](page = "history" => Compared)
<1>1. ScreenInv => (page = "history" => Compared)
  BY ComparedHolds DEF ScreenInv
<1> QED
  BY <1>1, ScreensKeep, PTL

(* The rest of CompareFaithful is about diffLines alone: where it explains    *)
(* any two texts the history may hold (DiffTrue), the page shows no wrong     *)
(* line, number or count, and every save is summarised as what it changed.    *)
THEOREM ComparisonsFaithful == DiffTrue => (Spec => []CompareFaithful)
<1>1. DiffTrue => DiffTrue'
  BY DEF DiffTrue
<1>2. DiffTrue /\ ScreenInv => CompareFaithful
  <2> SUFFICES ASSUME DiffTrue, HistoryInv PROVE H!CompareFaithful
    BY DEF ScreenInv, CompareFaithful
  <2> DEFINE a == H!sel.a
             b == H!sel.b
  <2>1. /\ a \in 1..Len(compare.items) /\ b \in 1..Len(compare.items) /\ (a < b \/ b = 1)
        /\ Len(compare.items) <= Len(history) /\ H!Body(a) = history[a].body /\ H!Body(b) = history[b].body
    BY ComparedHolds DEF Compared
  <2>2. Len(history) \in Nat /\ Len(compare.items) \in Nat /\ DOMAIN history = 1..Len(history)
    BY DEF HistoryInv, VersionsOK, PageOK, Begins
  <2> HIDE DEF a, b
  <2>3. history[a].body \in Bodies /\ history[b].body \in Bodies
    BY <2>1, <2>2 DEF HistoryInv, VersionsOK
  <2>4. \A ops \in {H!diffLines(H!Body(a), H!Body(b))} : H!Explains(ops, history[a].body, history[b].body)
    BY <2>1, <2>3 DEF DiffTrue, Bodies
  <2>5. ASSUME NEW g \in DOMAIN history, history[g].summary # None
        PROVE  H!Counts(history[g].summary, history[g - 1].body, history[g].body)
    <3>1. g > 1 /\ history[g].summary = H!describeChange(history[g - 1].body, history[g].body)
      BY <2>5 DEF HistoryInv, VersionsOK
    <3>2. g - 1 \in DOMAIN history
      BY <2>2, <2>5, <3>1
    <3>3. history[g - 1].body \in Bodies /\ history[g].body \in Bodies
      BY <2>5, <3>2 DEF HistoryInv, VersionsOK
    <3> QED
      BY <3>1, <3>3 DEF DiffTrue, Bodies
  <2>6. 1 <= a /\ b <= Len(compare.items)
    BY <2>1, <2>2
  <2> QED
    BY <2>1, <2>4, <2>5, <2>6 DEF H!CompareFaithful, a, b
<1> QED
  BY <1>1, <1>2, ScreensKeep, PTL

(* In whatever order answers arrive, are lost or are asked for again, the     *)
(* decision on the page is the resolver's for the question on the page        *)
(* (onSuccess in playground-view.tsx).                                        *)
THEOREM DecisionsMatch ==
    Spec => [](page = "playground" => view.cache[view.submitted] = Y!explain(model, tuples, view.submitted))
<1>1. ScreenInv => (page = "playground" => view.cache[view.submitted] = Y!explain(model, tuples, view.submitted))
  BY DEF ScreenInv, PlayInv, ViewOK, Decision
<1> QED
  BY <1>1, ScreensKeep, PTL

(* The rest of ExplainAgrees is about explain alone: where it is right about  *)
(* every question (ResolverTrue), so is the page.                             *)
THEOREM DecisionsRight == ResolverTrue => (Spec => []ExplainAgrees)
<1>1. ResolverTrue => ResolverTrue'
  BY DEF ResolverTrue
<1>2. ResolverTrue /\ ScreenInv => ExplainAgrees
  <2> SUFFICES ASSUME ResolverTrue, PlayInv
               PROVE  Y!Agrees(model, tuples, view.submitted, view.cache[view.submitted])
    BY DEF ScreenInv, ExplainAgrees, Y!ExplainAgrees
  <2>1. /\ model \in AuthModels /\ tuples \in TupleSets /\ view.submitted \in Checks
        /\ view.cache[view.submitted] = Y!explain(model, tuples, view.submitted)
    BY DEF PlayInv, ViewOK, Decision
  <2> QED
    BY <2>1 DEF ResolverTrue
<1> QED
  BY <1>1, <1>2, ScreensKeep, PTL
================================================================================
