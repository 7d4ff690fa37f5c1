---------------------------- MODULE ConsoleSession ----------------------------
(***************************************************************************)
(* How an operator's browser gets to a page of the console: the sealed     *)
(* session cookie (server/session.ts), the proxy in front of every page    *)
(* (proxy.ts), the second check of the layouts (server/auth/operator.ts),  *)
(* signing in and out (app/api/auth), and the guard of the API routes      *)
(* (server/http/guard.ts).                                                 *)
(***************************************************************************)
EXTENDS Integers, Sequences, FiniteSets

CONSTANTS
    Operators,
    StartsAt,       \* Operators -> the paths each may open first
    Pages,          \* paths of pages behind the session, "/dashboard" among them
    NextInputs,     \* ?next= values that reach the sign-in page; a page or not
    Deployments,    \* values of AUTH_MODE and NODE_ENV, as one name each
    None

ASSUME ConsoleSessionAssumption ==
    /\ "/dashboard" \in Pages /\ {"/", "/login"} \cap Pages = {}
    /\ Deployments \subseteq {"mock", "oidc", "unknown", "production"}

VARIABLES
    deployment,
    jar,            \* each operator's cookie: none, live, or dead (expired or of another key)
    tab             \* each operator's browser tab

sessionVars == <<deployment, jar, tab>>

(* tab.stage: the proxy is next, the layout is next, the page is up, or a     *)
(* problem document is shown instead; hops counts redirects on the way.       *)
At(path, next) == [path |-> path, stage |-> "proxy", next |-> next, status |-> 0, hops |-> 0]
GoTo(o, path, next) == tab' = [tab EXCEPT ![o] = At(path, next)]
MaxHops == 5    \* the count of redirects stops here
Redirect(o, path, next) ==
    tab' = [tab EXCEPT ![o] = [At(path, next) EXCEPT !.hops = IF tab[o].hops = MaxHops THEN MaxHops
                                                             ELSE tab[o].hops + 1]]
Shows(o, path) == tab[o].stage = "shown" /\ tab[o].path = path

SessionInit ==
    /\ deployment \in Deployments
    /\ jar = [o \in Operators |-> "live"]
    /\ \E start \in [Operators -> Pages \cup {"/"}] :
          /\ \A o \in Operators : start[o] \in StartsAt[o]
          /\ tab = [o \in Operators |-> At(start[o], None)]

(* A session, or null for anything that is not an unexpired cookie of ours. *)
openSession(cookie) == cookie = "live"

(* The proxy reads the cookie only. *)
CookiePresent(o) == jar[o] # "none"                       \* mutant: does not open it
proxySession(o) == openSession(jar[o])

proxy(o) ==
    LET path == tab[o].path
    IN  /\ tab[o].stage = "proxy"
        /\ \/ /\ path = "/login" /\ proxySession(o)
              /\ Redirect(o, "/dashboard", None)
           \/ /\ path = "/login" /\ ~proxySession(o)
              /\ tab' = [tab EXCEPT ![o].stage = "shown"]
           \/ /\ path # "/login" /\ ~proxySession(o)
              /\ Redirect(o, "/login", IF path = "/" THEN None ELSE path)
           \/ /\ path # "/login" /\ proxySession(o)
              /\ tab' = [tab EXCEPT ![o].stage = "layout"]
        /\ UNCHANGED <<deployment, jar>>

(* The home page redirects; every other page sits below a layout that calls   *)
(* requireOperator, which knows no next.                                      *)
currentOperator(o) == openSession(jar[o])
Home(o) ==
    /\ tab[o].stage = "layout" /\ tab[o].path = "/"
    /\ Redirect(o, "/dashboard", None)
    /\ UNCHANGED <<deployment, jar>>
requireOperator(o) ==
    /\ tab[o].stage = "layout" /\ tab[o].path # "/"
    /\ IF currentOperator(o) THEN tab' = [tab EXCEPT ![o].stage = "shown"]
       ELSE Redirect(o, "/login", None)
    /\ UNCHANGED <<deployment, jar>>

(* GET /api/auth/login: only the mock mode outside production signs in. *)
safeNextPath(raw) == IF raw \in Pages \cup {"/", "/login"} THEN raw ELSE "/dashboard"
LoginRefusal == CASE deployment = "oidc" -> 501 [] deployment = "unknown" -> 500
                  [] deployment = "production" -> 403 [] OTHER -> 0
login(o) ==
    /\ Shows(o, "/login")
    /\ IF LoginRefusal # 0
       THEN tab' = [tab EXCEPT ![o].stage = "problem", ![o].status = LoginRefusal] /\ UNCHANGED jar
       ELSE jar' = [jar EXCEPT ![o] = "live"] /\ GoTo(o, safeNextPath(tab[o].next), None)
    /\ UNCHANGED deployment

(* The sidebar's sign-out form, a same-origin POST. *)
logout(o) ==
    /\ tab[o].stage = "shown" /\ tab[o].path # "/login"
    /\ jar' = [jar EXCEPT ![o] = "none"] /\ GoTo(o, "/login", None)
    /\ UNCHANGED deployment

(* exp passes, or SESSION_SECRET changed: the browser may still send the      *)
(* cookie, or have dropped it at its maxAge.                                  *)
expire(o) ==
    /\ jar[o] = "live"
    /\ \E cookie \in {"none", "dead"} : jar' = [jar EXCEPT ![o] = cookie]
    /\ UNCHANGED <<deployment, tab>>

(* A link or the address bar. *)
visit(o, path) == tab[o].stage \in {"shown", "problem"} /\ GoTo(o, path, None)
                  /\ UNCHANGED <<deployment, jar>>
visitLogin(o, next) == tab[o].stage \in {"shown", "problem"} /\ GoTo(o, "/login", next)
                       /\ UNCHANGED <<deployment, jar>>

(* guardRoute: 0 when the request may go on. *)
guardRoute(o, get, origin, key) ==
    IF ~currentOperator(o) THEN 401
    ELSE IF get THEN 0
    ELSE IF ~origin THEN 403
    ELSE IF ~key THEN 400 ELSE 0

(* A browser that asked for a page is redirected at most twice before it is   *)
(* shown one, whatever becomes of its cookie between the proxy's check and    *)
(* the layout's: no redirect loop between /login and /dashboard.              *)
NoRedirectLoop == \A o \in Operators : tab[o].hops <= 2
===============================================================================
