---------------------------- MODULE ProviderConsole ----------------------------
(***************************************************************************)
(* The identity-provider screen of one tenant: the connections of          *)
(* features/identity-providers/server.ts, the list of idp-view.tsx and the *)
(* form of connection-form.tsx with its probe of the issuer on blur.       *)
(*                                                                         *)
(* The server keeps a connection array it never mutates: a handler reads   *)
(* the array, awaits, and puts back a copy with one entry replaced.        *)
(***************************************************************************)
EXTENDS Integers, FiniteSets

CONSTANTS
    Operators,
    Providers,
    Issuers,
    Routable,       \* issuers the SSRF-guarded probe accepts
    SeedIdps,       \* the fixture connections
    None,
    MaxIdpClicks,   \* bound: clicks and edits of each operator
    MaxCalls        \* bound: calls under way at once

VARIABLES
    idps,           \* the connections of the map; None before the first read
    calls,          \* probes and stagings the server has not answered
    form,           \* the list and the form each operator sees
    idpClicks

idpVars == <<idps, calls, form, idpClicks>>

-----------------------------------------------------------------------------
(* identity-providers/probe.ts and server.ts *)

(* The outcome of a probe depends on the issuer alone: kind only words it. *)
probeIssuer(issuer) == issuer \in Routable

Entry == [issuer : Issuers, hasSecret : BOOLEAN, state : {"applied", "pending_apply", "disabled"},
          staged : BOOLEAN, lastProbe : Issuers \cup {None}]

Becomes(c, d) == calls' = (calls \ {c}) \cup {d}
(* The answer leaves; one nobody waits for is gone. *)
Answered(c, how) == calls' = (calls \ {c}) \cup (IF c.by = None THEN {} ELSE {[c EXCEPT !.at = how, !.items = None]})

(* providersFor: the array of the map; a miss awaits the tenant and then sets *)
(* the map to the fixture connections, whatever it holds by then.             *)
providersFor(c) ==
    /\ \/ /\ c.at = "sent" /\ idps # None
          /\ Becomes(c, [c EXCEPT !.at = "read", !.items = idps]) /\ UNCHANGED idps
       \/ /\ c.at = "sent" /\ idps = None
          /\ Becomes(c, [c EXCEPT !.at = "cold"]) /\ UNCHANGED idps
       \/ /\ c.at = "cold"
          /\ Becomes(c, [c EXCEPT !.at = "read", !.items = SeedIdps]) /\ idps' = SeedIdps
    /\ UNCHANGED <<form, idpClicks>>

listIdentityProviders(c) == /\ c.at = "read" /\ c.kind = "list"
                            /\ IF c.by = None THEN calls' = calls \ {c} ELSE Becomes(c, [c EXCEPT !.at = "done"])
                            /\ UNCHANGED <<idps, form, idpClicks>>

(* The result is remembered on the connection; the other entries are those of *)
(* the array read before the await.                                           *)
testIdentityProvider(c) ==
    /\ c.at = "read" /\ c.kind = "test" /\ Answered(c, "done")
    /\ idps' = [c.items EXCEPT ![c.idp].lastProbe = c.issuer]
    /\ UNCHANGED <<form, idpClicks>>

(* The issuer is probed again and a bad one refused; a secret is remembered   *)
(* only as hasSecret; a disabled connection stays disabled.                   *)
StagedIdp(p, c) == [p EXCEPT !.issuer = c.issuer, !.hasSecret = @ \/ c.secret, !.staged = TRUE,
                             !.state = IF @ = "disabled" THEN "disabled" ELSE "pending_apply"]
stageIdentityProvider(c) ==
    /\ c.at = "read" /\ c.kind = "stage"
    /\ \/ /\ probeIssuer(c.issuer) /\ Answered(c, "done")
          /\ idps' = [c.items EXCEPT ![c.idp] = StagedIdp(@, c)]
       \/ /\ ~probeIssuer(c.issuer) /\ Answered(c, "refused") /\ UNCHANGED idps
    /\ UNCHANGED <<form, idpClicks>>

-----------------------------------------------------------------------------
(* connection-form.tsx and idp-view.tsx *)

(* A mount of the form: useState takes its values from the connection once. *)
Mount(data, id) ==
    [data |-> data, idp |-> id, issuer |-> data[id].issuer, replacing |-> ~data[id].hasSecret,
     secret |-> FALSE, probe |-> data[id].lastProbe, probed |-> data[id].lastProbe,
     probing |-> 0, staging |-> 0, listing |-> 0]

(* The pages were rendered by this process, or by one that restarted since. *)
ProviderInit ==
    /\ idps \in {SeedIdps, None} /\ calls = {} /\ idpClicks = [o \in Operators |-> 0]
    /\ \E id \in Providers : form = [o \in Operators |-> Mount(SeedIdps, id)]

SetForm(o, f) == form' = [form EXCEPT ![o] = f]
IdpClicked(o) == idpClicks[o] < MaxIdpClicks[o] /\ idpClicks' = [idpClicks EXCEPT ![o] = @ + 1]
Typing(o, f) == IdpClicked(o) /\ SetForm(o, f) /\ UNCHANGED <<idps, calls>>

(* Calls whose component is gone: their answers reach nobody. *)
Orphaned(o, kinds) ==
    LET gone(c) == c.by = o /\ c.kind \in kinds
    IN  {c \in calls : ~gone(c)}
          \cup {[c EXCEPT !.by = None] : c \in {d \in calls : gone(d) /\ d.at \in {"sent", "cold", "read"}}}

typeIssuer(o, i) == i # form[o].issuer /\ Typing(o, [form[o] EXCEPT !.issuer = i])
replaceSecret(o) == ~form[o].replacing /\ Typing(o, [form[o] EXCEPT !.replacing = TRUE])
keepCurrent(o) == /\ form[o].replacing /\ form[o].data[form[o].idp].hasSecret
                  /\ Typing(o, [form[o] EXCEPT !.replacing = FALSE, !.secret = FALSE])
typeSecret(o) == form[o].replacing /\ ~form[o].secret /\ Typing(o, [form[o] EXCEPT !.secret = TRUE])

Call(o, kind) == [id |-> idpClicks[o] + 1, by |-> o, idp |-> form[o].idp, kind |-> kind, issuer |-> form[o].issuer,
                  secret |-> form[o].replacing /\ form[o].secret, at |-> "sent", items |-> None]
Sends(o, kind) == Cardinality(calls) < MaxCalls /\ calls' = calls \cup {Call(o, kind)}
runProbe(o) == /\ IdpClicked(o) /\ Sends(o, "test")
               /\ SetForm(o, [form[o] EXCEPT !.probing = idpClicks[o] + 1]) /\ UNCHANGED idps
onIssuerBlur(o) == form[o].issuer # form[o].probed /\ runProbe(o)
testDiscovery(o) == form[o].probing = 0 /\ runProbe(o)
stage(o) == /\ form[o].staging = 0 /\ IdpClicked(o) /\ Sends(o, "stage")
            /\ SetForm(o, [form[o] EXCEPT !.staging = idpClicks[o] + 1]) /\ UNCHANGED idps
windowFocusIdps(o) == /\ form[o].listing = 0 /\ IdpClicked(o) /\ Sends(o, "list")
                      /\ SetForm(o, [form[o] EXCEPT !.listing = idpClicks[o] + 1]) /\ UNCHANGED idps

(* onSuccess of the probe runs for every call of this mount, in the order the *)
(* answers arrive; isPending follows the latest call only.                    *)
Quiet(f, c) == [f EXCEPT !.probing = IF @ = c.id THEN 0 ELSE @, !.staging = IF @ = c.id THEN 0 ELSE @,
                         !.listing = IF @ = c.id THEN 0 ELSE @]
NotesTheField(f, c) == [f EXCEPT !.probe = c.issuer, !.probed = f.issuer]       \* mutant
Probed(f, c) == [f EXCEPT !.probe = c.issuer, !.probed = c.issuer]
receiveProbe(c) ==
    /\ c.at = "done" /\ c.kind = "test" /\ c.by # None /\ calls' = calls \ {c}
    /\ SetForm(c.by, Probed(Quiet(form[c.by], c), c)) /\ UNCHANGED <<idps, idpClicks>>

(* A staging clears the secret and starts a new fetch of the list in place of *)
(* the one under way.                                                         *)
receiveStaged(c) ==
    /\ c.at = "done" /\ c.kind = "stage" /\ c.by # None
    /\ SetForm(c.by, [Quiet(form[c.by], c) EXCEPT !.secret = FALSE, !.replacing = FALSE, !.listing = c.id])
    /\ calls' = (Orphaned(c.by, {"list"}) \ {c}) \cup {[c EXCEPT !.kind = "list", !.at = "sent", !.items = None]}
    /\ UNCHANGED <<idps, idpClicks>>

(* The form is keyed by the connection and its staged generation: it is       *)
(* mounted anew, edits and calls and all, when that generation appears.       *)
receiveIdps(c) ==
    /\ c.at = "done" /\ c.kind = "list" /\ c.by # None
    /\ LET o == c.by
           remount == c.items[form[o].idp].staged # form[o].data[form[o].idp].staged
       IN  /\ SetForm(o, IF remount THEN Mount(c.items, form[o].idp)
                         ELSE [Quiet(form[o], c) EXCEPT !.data = c.items])
           /\ calls' = (IF remount THEN Orphaned(o, {"test", "stage", "list"})
                        ELSE calls \ {c})
    /\ UNCHANGED <<idps, idpClicks>>

(* An error answer, or none: the call or its answer is lost, or the server    *)
(* goes on with a call nobody waits for.                                      *)
callFails(c) ==
    /\ c.by # None
    /\ \/ c.at \in {"refused", "done"} /\ calls' = calls \ {c}
       \/ c.at = "sent" /\ calls' \in {calls \ {c}, (calls \ {c}) \cup {[c EXCEPT !.by = None]}}
    /\ SetForm(c.by, Quiet(form[c.by], c)) /\ UNCHANGED <<idps, idpClicks>>

ProviderNext ==
    \/ \E c \in calls : \/ providersFor(c) \/ listIdentityProviders(c) \/ testIdentityProvider(c)
                        \/ stageIdentityProvider(c) \/ receiveProbe(c) \/ receiveStaged(c) \/ receiveIdps(c)
                        \/ callFails(c)
    \/ \E o \in Operators :
         \/ replaceSecret(o) \/ keepCurrent(o) \/ typeSecret(o) \/ onIssuerBlur(o) \/ testDiscovery(o)
         \/ stage(o) \/ windowFocusIdps(o)
         \/ \E i \in Issuers : typeIssuer(o, i)

-----------------------------------------------------------------------------
(* Properties *)

issuerTone(f) == IF f.probing # 0 \/ f.issuer # f.probed \/ f.probe = None THEN "none"
                 ELSE IF probeIssuer(f.probe) THEN "ok" ELSE "blocked"

ProviderTypeOK ==
    /\ \A c \in calls : c.by \in Operators \cup {None}
    /\ DOMAIN form = Operators /\ \A o \in Operators : {"issuer", "probe", "probed"} \subseteq DOMAIN form[o]

(* Probes are fired on every blur and their answers may arrive in any order,  *)
(* after more typing, after a restart or a remount of the form; "discovery    *)
(* ok" beside the issuer field is shown only for an issuer the guard accepts, *)
(* and "blocked" only for one it refuses (issuerTone in connection-form.tsx). *)
IssuerToneTrue ==
    \A o \in Operators : /\ issuerTone(form[o]) = "ok" => form[o].issuer \in Routable
                         /\ issuerTone(form[o]) = "blocked" => form[o].issuer \notin Routable

=============================================================================
