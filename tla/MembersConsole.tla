---------------------------- MODULE MembersConsole ----------------------------
(***************************************************************************)
(* The users and the roles screens of one tenant: invitations              *)
(* (features/users) and the removal of a role (features/roles).            *)
(***************************************************************************)
EXTENDS Integers, FiniteSets

CONSTANTS
    Operators,
    Addresses,      \* what an operator may type as an email
    lower,          \* Addresses -> Addresses: toLowerCase
    Members,        \* lowercased emails of the users in the mirror
    SeedRoles,      \* role keys of the roles fixture
    Bound,          \* the ones some relation tuple binds to
    StagedRoles,    \* the ones the fixture marks as staged
    None,
    MaxMemberClicks, MaxHandled     \* bounds: clicks and edits, calls under way at once

VARIABLES
    invited,        \* lowercased emails with a pending invite
    sent,           \* history: invitations made since the process started, per lowercased email
    roles,          \* roles of the map; None before the first read
    handled,        \* calls the server has not answered
    screen,         \* drawer, matrix and inspector of each operator
    memberClicks

memberVars == <<invited, sent, roles, handled, screen, memberClicks>>

-----------------------------------------------------------------------------
(* features/users/server.ts *)

Turns(c, d) == handled' = (handled \ {c}) \cup {d}
Replies(c, status) == Turns(c, [c EXCEPT !.at = "answered", !.status = status, !.items = {}])

(* inviteUser after its await: the mirror and the pending invites, compared in *)
(* lower case; the state is created, read and written in one step.  The       *)
(* drawer offers just the roles the server accepts, so 422 does not arise.    *)
KnownAsTyped(email) == email \in Members \cup invited     \* mutant: case not folded
Known(email) == lower[email] \in Members \cup invited
inviteUser(c) ==
    /\ c.kind = "invite" /\ c.at = "sent"
    /\ \/ Known(c.email) /\ Replies(c, 409) /\ UNCHANGED <<invited, sent>>
       \/ /\ ~Known(c.email) /\ Replies(c, 202)
          /\ invited' = invited \cup {lower[c.email]}
          /\ sent' = [sent EXCEPT ![lower[c.email]] = @ + 1]
    /\ UNCHANGED <<roles, screen, memberClicks>>

-----------------------------------------------------------------------------
(* features/roles/server.ts *)

(* rolesFor and the read of deleteRole: the array is taken before the await. *)
rolesFor(c) ==
    /\ c.kind # "invite"
    /\ \/ /\ c.at = "sent" /\ roles # None
          /\ Turns(c, [c EXCEPT !.at = "read", !.items = roles]) /\ UNCHANGED roles
       \/ /\ c.at = "sent" /\ roles = None
          /\ Turns(c, [c EXCEPT !.at = "cold"]) /\ UNCHANGED roles
       \/ /\ c.at = "cold"
          /\ Turns(c, [c EXCEPT !.at = "read", !.items = SeedRoles]) /\ roles' = SeedRoles
    /\ UNCHANGED <<invited, sent, screen, memberClicks>>

listRoles(c) == /\ c.kind = "list" /\ c.at = "read" /\ Turns(c, [c EXCEPT !.at = "answered", !.status = 200])
                /\ UNCHANGED <<invited, sent, roles, screen, memberClicks>>
DeleteStatus(key, items) == IF key \notin items THEN 404 ELSE IF key \in Bound THEN 409 ELSE 202
deleteRole(c) ==
    /\ c.kind = "delete" /\ c.at = "read"
    /\ Replies(c, DeleteStatus(c.role, c.items))
    /\ roles' = IF DeleteStatus(c.role, c.items) = 202 THEN c.items \ {c.role} ELSE roles
    /\ UNCHANGED <<invited, sent, screen, memberClicks>>

-----------------------------------------------------------------------------
(* invite-drawer.tsx, roles-view.tsx, role-inspector.tsx *)

Opened(page) == [page |-> page, email |-> None, note |-> None, matrix |-> SeedRoles,
                selected |-> None, deleting |-> 0, listing |-> 0]

(* The staged role if there is one, else the first, whichever that is. *)
pickDefault(matrix) == CHOOSE r \in matrix : StagedRoles \cap matrix # {} => r \in StagedRoles
(* The role of the inspector: the selected one while the matrix has it. *)
selected(s) == IF s.selected \in s.matrix THEN s.selected ELSE IF s.matrix = {} THEN None ELSE pickDefault(s.matrix)

(* The pages were rendered by this process, or by one that restarted since. *)
MembersInit ==
    /\ invited = {} /\ sent = [e \in Addresses |-> 0] /\ roles \in {SeedRoles, None}
    /\ handled = {} /\ (\E page \in {"users", "roles"} : screen = [o \in Operators |-> Opened(page)]) /\ memberClicks = 0

(* The inspector is keyed by its role: another role, another mount. *)
SetScreen(o, s) == screen' = [screen EXCEPT ![o] = IF selected(s) = selected(screen[o]) THEN s
                                                   ELSE [s EXCEPT !.deleting = 0]]
MemberClicked == memberClicks < MaxMemberClicks /\ memberClicks' = memberClicks + 1
Request(o, kind, email, role) ==
    [id |-> memberClicks + 1, by |-> o, kind |-> kind, email |-> email, role |-> role,
     at |-> "sent", items |-> {}, status |-> 0]
Sends(c) == Cardinality(handled) < MaxHandled /\ handled' = handled \cup {c} /\ UNCHANGED <<invited, sent, roles>>

typeEmail(o, e) == /\ screen[o].page = "users" /\ screen[o].email # e /\ MemberClicked /\ SetScreen(o, [screen[o] EXCEPT !.email = e])
                   /\ UNCHANGED <<invited, sent, roles, handled>>
(* Enter sends the form also while the button is off for the call before. *)
submit(o) ==
    /\ screen[o].email # None /\ MemberClicked
    /\ Sends(Request(o, "invite", screen[o].email, None))
    /\ SetScreen(o, [screen[o] EXCEPT !.note = None])
select(o, r) == /\ screen[o].page = "roles" /\ MemberClicked /\ r \in screen[o].matrix /\ r # screen[o].selected
                /\ SetScreen(o, [screen[o] EXCEPT !.selected = r])
                /\ UNCHANGED <<invited, sent, roles, handled>>
remove(o) == /\ screen[o].page = "roles" /\ selected(screen[o]) # None /\ screen[o].deleting = 0 /\ MemberClicked
             /\ Sends(Request(o, "delete", None, selected(screen[o])))
             /\ SetScreen(o, [screen[o] EXCEPT !.deleting = memberClicks + 1])
windowFocusRoles(o) == /\ screen[o].page = "roles" /\ screen[o].listing = 0 /\ MemberClicked
                       /\ Sends(Request(o, "list", None, None))
                       /\ SetScreen(o, [screen[o] EXCEPT !.listing = memberClicks + 1])

Idle(s, c) == [s EXCEPT !.deleting = IF @ = c.id THEN 0 ELSE @, !.listing = IF @ = c.id THEN 0 ELSE @]
receiveInvite(c) ==
    /\ c.kind = "invite" /\ c.at = "answered" /\ handled' = handled \ {c}
    /\ SetScreen(c.by, IF c.status = 202 THEN [Idle(screen[c.by], c) EXCEPT !.note = lower[c.email], !.email = None]
                       ELSE Idle(screen[c.by], c))
    /\ UNCHANGED <<invited, sent, roles, memberClicks>>
(* onDeleted drops the selection, then the matrix is fetched again. *)
receiveDelete(c) ==
    /\ c.kind = "delete" /\ c.at = "answered"
    /\ \/ /\ c.status = 202
          /\ Turns(c, [c EXCEPT !.kind = "list", !.at = "sent", !.status = 0])
          /\ SetScreen(c.by, [Idle(screen[c.by], c) EXCEPT !.selected = None, !.listing = c.id])
       \/ /\ c.status # 202 /\ handled' = handled \ {c} /\ SetScreen(c.by, Idle(screen[c.by], c))
    /\ UNCHANGED <<invited, sent, roles, memberClicks>>
receiveRoles(c) ==
    /\ c.kind = "list" /\ c.at = "answered" /\ handled' = handled \ {c}
    /\ SetScreen(c.by, IF c.id # screen[c.by].listing THEN screen[c.by]
                       ELSE [Idle(screen[c.by], c) EXCEPT !.matrix = c.items])
    /\ UNCHANGED <<invited, sent, roles, memberClicks>>
(* A lost answer, or a call lost on the way. *)
memberCallFails(c) ==
    /\ c.at \in {"sent", "answered"} /\ handled' = handled \ {c} /\ SetScreen(c.by, Idle(screen[c.by], c))
    /\ UNCHANGED <<invited, sent, roles, memberClicks>>

MembersNext ==
    \/ \E c \in handled : \/ inviteUser(c) \/ rolesFor(c) \/ listRoles(c) \/ deleteRole(c)
                          \/ receiveInvite(c) \/ receiveDelete(c) \/ receiveRoles(c) \/ memberCallFails(c)
    \/ \E o \in Operators :
         \/ remove(o) \/ submit(o) \/ windowFocusRoles(o)
         \/ \E e \in Addresses : typeEmail(o, e)
         \/ \E r \in SeedRoles : select(o, r)

-----------------------------------------------------------------------------
(* Properties *)

MembersTypeOK ==
    /\ invited \subseteq Addresses /\ sent \in [Addresses -> Nat]
    /\ \A c \in handled : c.by \in Operators /\ (c.kind = "invite" => c.email \in Addresses)
    /\ DOMAIN screen = Operators /\ \A o \in Operators : screen[o].email \in Addresses \cup {None}

(* However two operators and their retries interleave, an address is invited  *)
(* at most once while the process lives, in whatever case it is typed, and a  *)
(* user who is in the mirror never (inviteUser in users/server.ts).           *)
InvitedOnce == \A e \in Addresses : /\ sent[lower[e]] <= 1
                                    /\ lower[e] \in Members => sent[lower[e]] = 0

=============================================================================
