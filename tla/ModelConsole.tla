------------------------------ MODULE ModelConsole ------------------------------
(***************************************************************************)
(* The authorization-model screen of one tenant: the live and the draft    *)
(* DSL of features/authz-model/server.ts and the editor of model-view.tsx. *)
(***************************************************************************)
EXTENDS Integers, Sequences, FiniteSets

CONSTANTS
    Operators,
    Texts,          \* names of DSL texts
    TypedBy,        \* Operators -> the texts each may type (bounds them)
    Parsing,        \* the ones parseModel (ModelDsl) reports no issue for
    SeedModels,     \* models of the fixtures: [live, draft, liveVersion, draftVersion, versions]
    None,
    MaxModelClicks, MaxAsked        \* bounds: clicks and edits, calls under way at once

VARIABLES
    seed,           \* the fixture model of this tenant
    models,         \* every model object built since the process started
    current,        \* the one the map holds; 0 when it is empty
    asked,          \* calls the server has not answered
    editor,         \* client state of each operator
    modelClicks

modelVars == <<seed, models, current, asked, editor, modelClicks>>

-----------------------------------------------------------------------------
(* features/authz-model/server.ts *)

Takes(c, d) == asked' = (asked \ {c}) \cup {d}
Answers(c, body) == Takes(c, [c EXCEPT !.at = "answered", !.body = body])

(* stateFor: a miss builds a model object after an await and sets the map. *)
stateFor(c) ==
    /\ c.kind # "validate"
    /\ \/ /\ c.at = "sent" /\ current # 0
          /\ Takes(c, [c EXCEPT !.at = "ready", !.obj = current]) /\ UNCHANGED <<models, current>>
       \/ /\ c.at = "sent" /\ current = 0
          /\ Takes(c, [c EXCEPT !.at = "cold"]) /\ UNCHANGED <<models, current>>
       \/ /\ c.at = "cold" /\ Takes(c, [c EXCEPT !.at = "ready", !.obj = Len(models) + 1])
          /\ models' = Append(models, seed) /\ current' = Len(models) + 1
    /\ UNCHANGED <<seed, editor, modelClicks>>

getAuthorizationModel(c) == /\ c.kind = "get" /\ c.at = "ready" /\ Answers(c, models[c.obj])
                            /\ UNCHANGED <<seed, models, current, editor, modelClicks>>
(* The answer says what summarize finds, here by the text it is about; the    *)
(* page itself does not remember which text that was.                         *)
validateModel(c) == /\ c.kind = "validate" /\ c.at = "sent" /\ Answers(c, [ok |-> c.dsl \in Parsing, of |-> c.dsl])
                    /\ UNCHANGED <<seed, models, current, editor, modelClicks>>

(* stageModel: one draft version, restaged in place.  A text that does not    *)
(* parse is refused with 400, which the editor never sends.                   *)
NextEachTime(m) == (IF m.draftVersion = 0 THEN m.liveVersion ELSE m.draftVersion) + 1     \* mutant
StagedVersion(m) == IF m.draftVersion = 0 THEN m.liveVersion + 1 ELSE m.draftVersion
Upsert(versions, v) ==
    IF \E i \in DOMAIN versions : versions[i].version = v
    THEN [i \in DOMAIN versions |-> IF versions[i].version = v THEN [versions[i] EXCEPT !.state = "draft"] ELSE versions[i]]
    ELSE Append(versions, [version |-> v, state |-> "draft"])
Staged(m, dsl) == [m EXCEPT !.draft = dsl, !.draftVersion = StagedVersion(m),
                            !.versions = Upsert(@, StagedVersion(m))]
stageModel(c) ==
    /\ c.kind = "stage" /\ c.at = "ready"
    /\ c.dsl \in Parsing /\ Answers(c, None) /\ models' = [models EXCEPT ![c.obj] = Staged(@, c.dsl)]
    /\ UNCHANGED <<seed, current, editor, modelClicks>>

-----------------------------------------------------------------------------
(* model-view.tsx *)

(* The pages were rendered by this process, or by one that restarted since. *)
ModelInit ==
    /\ seed \in SeedModels /\ asked = {} /\ modelClicks = 0
    /\ \/ models = <<seed>> /\ current = 1
       \/ models = <<>> /\ current = 0
    /\ editor = [o \in Operators |-> [data |-> seed, local |-> None, validation |-> None,
                                      validating |-> 0, staging |-> 0, getting |-> 0]]

draft(o) == IF editor[o].local = None THEN editor[o].data.draft ELSE editor[o].local
SetEditor(o, e) == editor' = [editor EXCEPT ![o] = e]
ModelClicked == modelClicks < MaxModelClicks /\ modelClicks' = modelClicks + 1
Sent(o, kind) == [id |-> modelClicks + 1, by |-> o, kind |-> kind, dsl |-> draft(o), at |-> "sent", obj |-> 0,
                  body |-> None]
Posts(o, kind) == /\ ModelClicked /\ Cardinality(asked) < MaxAsked /\ asked' = asked \cup {Sent(o, kind)}
                  /\ UNCHANGED <<seed, models, current>>

typeDsl(o, t) == /\ t # draft(o) /\ ModelClicked /\ SetEditor(o, [editor[o] EXCEPT !.local = t])
                 /\ UNCHANGED <<seed, models, current, asked>>
revert(o) == /\ editor[o].local \notin {None, editor[o].data.draft} /\ ModelClicked
             /\ SetEditor(o, [editor[o] EXCEPT !.local = None])
             /\ UNCHANGED <<seed, models, current, asked>>
validate(o) == /\ editor[o].validating = 0 /\ Posts(o, "validate")
               /\ SetEditor(o, [editor[o] EXCEPT !.validating = modelClicks + 1])
(* The button is off while the text in the editor does not parse. *)
stageDraft(o) == /\ editor[o].staging = 0 /\ draft(o) \in Parsing /\ Posts(o, "stage")
                 /\ SetEditor(o, [editor[o] EXCEPT !.staging = modelClicks + 1])
windowFocusModel(o) == /\ editor[o].getting = 0 /\ Posts(o, "get")
                       /\ SetEditor(o, [editor[o] EXCEPT !.getting = modelClicks + 1])

Resting(e, c) == [e EXCEPT !.validating = IF @ = c.id THEN 0 ELSE @, !.staging = IF @ = c.id THEN 0 ELSE @,
                           !.getting = IF @ = c.id THEN 0 ELSE @]
(* The result shown is that of the last answer, for whatever text it was. *)
receiveValidation(c) ==
    /\ c.kind = "validate" /\ c.at = "answered" /\ asked' = asked \ {c}
    /\ SetEditor(c.by, [Resting(editor[c.by], c) EXCEPT !.validation = c.body])
    /\ UNCHANGED <<seed, models, current, modelClicks>>
(* A staging drops the local text, also what was typed since it was sent, and *)
(* fetches the model again.                                                   *)
receiveStage(c) ==
    /\ c.kind = "stage" /\ c.at = "answered"
    /\ Takes(c, [c EXCEPT !.kind = "get", !.at = "sent"])
    /\ SetEditor(c.by, [Resting(editor[c.by], c) EXCEPT !.local = None, !.getting = c.id])
    /\ UNCHANGED <<seed, models, current, modelClicks>>
receiveModel(c) ==
    /\ c.kind = "get" /\ c.at = "answered" /\ asked' = asked \ {c}
    /\ SetEditor(c.by, IF editor[c.by].getting = c.id THEN [Resting(editor[c.by], c) EXCEPT !.data = c.body]
                       ELSE editor[c.by])
    /\ UNCHANGED <<seed, models, current, modelClicks>>
modelCallFails(c) ==
    /\ c.at \in {"sent", "answered"} /\ asked' = asked \ {c} /\ SetEditor(c.by, Resting(editor[c.by], c))
    /\ UNCHANGED <<seed, models, current, modelClicks>>

ModelNext ==
    \/ \E c \in asked : \/ stateFor(c) \/ getAuthorizationModel(c) \/ validateModel(c) \/ stageModel(c)
                        \/ receiveValidation(c) \/ receiveStage(c) \/ receiveModel(c) \/ modelCallFails(c)
    \/ \E o \in Operators : \/ revert(o) \/ validate(o) \/ stageDraft(o) \/ windowFocusModel(o)
                            \/ \E t \in TypedBy[o] : typeDsl(o, t)

-----------------------------------------------------------------------------
(* Properties *)

Shown == {editor[o].data : o \in Operators}
Stored == {models[i] : i \in DOMAIN models}

ModelTypeOK ==
    /\ current \in 0..Len(models)
    /\ \A c \in asked : c.by \in Operators /\ (c.at = "ready" => c.obj \in DOMAIN models)
    /\ \A m \in Stored \cup Shown : m.draft \in Texts /\ m.versions # <<>>
    /\ DOMAIN editor = Operators

(* Two operators may stage at once, from stale pages and again after a lost   *)
(* answer: every model, stored or on a page, has the live version and at most *)
(* one draft, and the draft is the version after the live one and the last of *)
(* the history (stageModel in authz-model/server.ts).                         *)
WithOneDraft(m) ==
    /\ \A i \in DOMAIN m.versions : m.versions[i].version = i
    /\ m.versions[m.liveVersion].state = "live"
    /\ m.draftVersion \in {0, m.liveVersion + 1}
    /\ {i \in DOMAIN m.versions : m.versions[i].state = "draft"} = {m.draftVersion} \ {0}
    /\ Len(m.versions) = (IF m.draftVersion = 0 THEN m.liveVersion ELSE m.draftVersion)
OneDraft == \A m \in Stored \cup Shown : WithOneDraft(m)

=============================================================================
