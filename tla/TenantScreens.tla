----------------------------- MODULE TenantScreens -----------------------------
(***************************************************************************)
(* The other screens of a tenant - relations, identity providers, users    *)
(* and roles, authorization model, playground, spec history - put          *)
(* together.  Each has a server map of its own and none reads another's    *)
(* (the playground resolves against its fixture tuples), so a behaviour is *)
(* two operators at work on one of the screens.                            *)
(***************************************************************************)
EXTENDS Integers, Sequences, FiniteSets, ModelDsl

CONSTANTS Operators, None
CONSTANTS Tuples, Typed, Reserved, InModel, Seed, Hidden, PageSize, MaxBatch, MaxRelClicks, RestartFrom
CONSTANTS Providers, Issuers, Routable, SeedIdps, MaxIdpClicks, MaxCalls
CONSTANTS Addresses, lower, Members, SeedRoles, Bound, StagedRoles, MaxMemberClicks, MaxHandled
CONSTANTS Texts, lines, TypedBy, SeedModels, MaxModelClicks, MaxAsked
CONSTANTS Subjects, typeOf, AuthModels, TupleSets, Checks, MaxQuestions
CONSTANTS Docs, SavedDocs, Links, Blank, yamlKey, MAX_CELLS, MaxCompareClicks

(* toLowerCase gives an address, and the empty field is none. *)
ASSUME AddressesAssumption == lower \in [Addresses -> Addresses] /\ None \notin Addresses

(* The fixture tuples are distinct.  The total the index reports is more than *)
(* those for a fixture tenant, and less for one created here, which reports 0. *)
ASSUME SeedAssumption ==
    /\ Seed \in Seq(Tuples) /\ \A i, j \in DOMAIN Seed : Seed[i] = Seed[j] => i = j
    /\ Hidden \in Int

(* The texts of the model screen that parse, and what a validation of one says. *)
Parsing == {t \in Texts : parseModel(lines[t]).issues = <<>>}
Summary(t) == summarize(parseModel(lines[t]))

VARIABLES page      \* the screen the operators are on
VARIABLES objs, store, writes, tab, applied, relClicks, relRestarts
VARIABLES idps, calls, form, idpClicks
VARIABLES invited, sent, roles, handled, screen, memberClicks
VARIABLES seed, models, current, asked, editor, modelClicks
VARIABLES model, tuples, posted, view, questions
VARIABLES history, compare, compareClicks

R == INSTANCE RelationsConsole
P == INSTANCE ProviderConsole
M == INSTANCE MembersConsole
A == INSTANCE ModelConsole
Y == INSTANCE PlaygroundConsole
H == INSTANCE HistoryConsole

(* The fixture models are models with at most one draft, which parses. *)
Models == [live : Texts, draft : Texts, liveVersion : Nat \ {0}, draftVersion : Nat,
           versions : Seq([version : Nat, state : {"superseded", "live", "draft"}])]
ASSUME SeedModelsAssumption ==
    \A m \in SeedModels : m \in Models /\ A!WithOneDraft(m) /\ m.draft \in Parsing

relVars == <<objs, store, writes, tab, applied, relClicks, relRestarts>>
idpVars == <<idps, calls, form, idpClicks>>
memberVars == <<invited, sent, roles, handled, screen, memberClicks>>
modelVars == <<seed, models, current, asked, editor, modelClicks>>
playVars == <<model, tuples, posted, view, questions>>
historyVars == <<history, compare, compareClicks>>
vars == <<page, relVars, idpVars, memberVars, modelVars, playVars, historyVars>>

(* A screen nobody opened holds nothing: its map is empty and no tab shows it. *)
relIdle == objs = <<>> /\ store = 0 /\ writes = {} /\ tab = <<>> /\ applied = <<>> /\ relClicks = 0 /\ relRestarts = 0
idpIdle == idps = None /\ calls = {} /\ form = <<>> /\ idpClicks = <<>>
memberIdle == invited = {} /\ sent = <<>> /\ roles = None /\ handled = {} /\ screen = <<>> /\ memberClicks = 0
modelIdle == seed = None /\ models = <<>> /\ current = 0 /\ asked = {} /\ editor = <<>> /\ modelClicks = 0
playIdle == model = None /\ tuples = <<>> /\ posted = {} /\ view = None /\ questions = 0
historyIdle == history = <<>> /\ compare = None /\ compareClicks = 0

Init ==
    /\ page \in {"relations", "providers", "members", "model", "playground", "history"}
    /\ IF page = "relations" THEN R!RelInit ELSE relIdle
    /\ IF page = "providers" THEN P!ProviderInit ELSE idpIdle
    /\ IF page = "members" THEN M!MembersInit ELSE memberIdle
    /\ IF page = "model" THEN A!ModelInit ELSE modelIdle
    /\ IF page = "playground" THEN Y!PlayInit ELSE playIdle
    /\ IF page = "history" THEN H!HistoryInit ELSE historyIdle

Next ==
    /\ UNCHANGED page
    /\ \/ /\ page = "relations" /\ R!RelNext
          /\ UNCHANGED <<idpVars, memberVars, modelVars, playVars, historyVars>>
       \/ /\ page = "providers" /\ P!ProviderNext
          /\ UNCHANGED <<relVars, memberVars, modelVars, playVars, historyVars>>
       \/ /\ page = "members" /\ M!MembersNext
          /\ UNCHANGED <<relVars, idpVars, modelVars, playVars, historyVars>>
       \/ /\ page = "model" /\ A!ModelNext
          /\ UNCHANGED <<relVars, idpVars, memberVars, playVars, historyVars>>
       \/ /\ page = "playground" /\ Y!PlayNext
          /\ UNCHANGED <<relVars, idpVars, memberVars, modelVars, historyVars>>
       \/ /\ page = "history" /\ H!HistoryNext
          /\ UNCHANGED <<relVars, idpVars, memberVars, modelVars, playVars>>

Spec == Init /\ [][Next]_vars

-----------------------------------------------------------------------------
(* Properties *)

(* Every screen's state has its type: a handler that has its store or model   *)
(* has one the process built, a page lists what the server has (the six       *)
(* server.ts and their pages).                                                *)
TypeOK ==
    /\ page = "relations" => R!RelTypeOK
    /\ page = "providers" => P!ProviderTypeOK
    /\ page = "members" => M!MembersTypeOK
    /\ page = "model" => A!ModelTypeOK
    /\ page = "playground" => Y!PlayTypeOK
    /\ page = "history" => H!HistoryTypeOK

(* A tuple store never holds a tuple twice and its total counts exactly what  *)
(* it gained and lost (writeRelations in relations/server.ts).                *)
TuplesCounted == page = "relations" => R!TuplesCounted

(* A staged batch sent again changes nothing when no other batch was applied  *)
(* in between (writeRelations deletes before it skips what is there).         *)
RetryAloneIsNoOp == page = "relations" => R!RetryAloneIsNoOp

(* Whatever order probes are answered in, the tone beside the issuer field is *)
(* the guard's verdict on what the field holds (connection-form.tsx).         *)
IssuerToneTrue == page = "providers" => P!IssuerToneTrue

(* An address is invited at most once while the process lives, in whatever    *)
(* case it is typed, and a member never (inviteUser in users/server.ts).      *)
InvitedOnce == page = "members" => M!InvitedOnce

(* The texts in which nothing is missing or ambiguous, and those a caption    *)
(* describes as they are.                                                     *)
Sound == {t \in Texts : Closed(lines[t]) /\ Unambiguous(lines[t])}
Described == {t \in Parsing : Describes(lines[t], Summary(t))}
ParserTrue == Parsing \subseteq Sound /\ Parsing \subseteq Described

(* A model has its live version and at most one draft, the next version; in   *)
(* the draft nothing a relation mentions is missing or defined twice, and the *)
(* counts and the depth a validation reports are those of its text, the depth *)
(* unless rewrites form a cycle (stageModel in authz-model/server.ts,         *)
(* parseModel and summarize in dsl.ts).                                       *)
OneDraft ==
    page = "model" =>
      /\ A!OneDraft
      /\ \A m \in A!Stored \cup A!Shown : m.draft \in Sound
      /\ \A o \in Operators : LET v == editor[o].validation IN v # None /\ v.ok => v.of \in Described

(* What explain has to be for any question about any tenant. *)
ResolverTrue == \A m \in AuthModels, ts \in TupleSets, q \in Checks : Y!Agrees(m, ts, q, Y!explain(m, ts, q))

(* The decision shown is the one for the question shown, and it is right up   *)
(* to the depth cap, which is then reported (explain in resolver.ts).         *)
ExplainAgrees == page = "playground" => Y!ExplainAgrees

(* What the diff has to be for any two texts the history holds. *)
DiffTrue == \A before, after \in Docs \cup SavedDocs :
              /\ H!Explains(H!diffLines(before, after), before, after)
              /\ H!Counts(H!describeChange(before, after), before, after)

(* The history page puts an older generation beside a newer one, line for     *)
(* line as the server has them, and marks no more than changed (diffLines in  *)
(* spec/diff.ts, resolveSelection in spec-history-view.tsx).                  *)
CompareFaithful == page = "history" => H!CompareFaithful

=============================================================================
