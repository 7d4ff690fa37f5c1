---- MODULE TenantScreensMC ----
(* Small instance of TenantScreens: two operators, the shapes of the fixtures. *)
EXTENDS TenantScreens, TLC

MCSeed == <<"a", "b">>
MCClicks == [o \in Operators |-> IF o = "o1" THEN 3 ELSE 1]
MCIdps == [on |-> [issuer |-> "good", hasSecret |-> TRUE, state |-> "pending_apply", staged |-> TRUE, lastProbe |-> "good"],
           off |-> [issuer |-> "good", hasSecret |-> FALSE, state |-> "disabled", staged |-> FALSE, lastProbe |-> None]]
MCLower == ("Ann" :> "ann") @@ ("ann" :> "ann") @@ ("mira" :> "mira")

(* The fixture's two types with one relation fewer on each, its draft, folders  *)
(* that inherit from their parent, and three texts the parser refuses.          *)
Line(k) == [kind |-> k]
Type(t) == [kind |-> "type", name |-> t]
Define(r, terms) == [kind |-> "define", name |-> r, terms |-> terms]
User == [kind |-> "direct", types |-> <<"user">>]
Folder == [kind |-> "direct", types |-> <<"folder">>]
Computed(r) == [kind |-> "computed", relation |-> r]
From(r) == [kind |-> "from", relation |-> r, via |-> "parent"]
Header == <<Line("model"), Line("schema"), Line("blank"), Type("user")>>
FolderOf(defines) == <<Type("folder"), Line("relations")>> \o defines
DocumentOf(r) == <<Type("document"), Line("relations"), Define("parent", <<Folder>>), Define("editor", <<User>>),
                   Define("viewer", <<User, Computed("editor"), From(r)>>)>>
LiveLines == Header \o FolderOf(<<Define("editor", <<User>>), Define("viewer", <<User, Computed("editor")>>)>>)
             \o DocumentOf("viewer")
MCLines ==
    [live |-> LiveLines, draft |-> LiveLines \o <<Define("auditor", <<User, Computed("viewer")>>)>>,
     nested |-> Header \o FolderOf(<<Define("parent", <<Folder>>), Define("viewer", <<User, From("viewer")>>)>>)
                \o DocumentOf("viewer"),
     dangling |-> Header \o FolderOf(<<Define("editor", <<User>>)>>) \o DocumentOf("viewer"),
     twice |-> Header \o FolderOf(<<Define("editor", <<User>>), Define("editor", <<User>>)>>) \o DocumentOf("editor"),
     headless |-> <<Line("relations"), Define("viewer", <<User, Computed("x"), Line("other")>>), Line("other")>>]
MCTexts == DOMAIN MCLines
MCTypedBy == [o \in Operators |-> IF o = "o1" THEN MCTexts \ {"live"} ELSE {"nested"}]

Version(v, s) == [version |-> v, state |-> s]
AcmeModel == [live |-> "live", draft |-> "draft", liveVersion |-> 2, draftVersion |-> 3,
              versions |-> <<Version(1, "superseded"), Version(2, "live"), Version(3, "draft")>>]
GenericModel == [live |-> "live", draft |-> "live", liveVersion |-> 1, draftVersion |-> 0,
                 versions |-> <<Version(1, "live")>>]
MCSeedModels == {AcmeModel, GenericModel}

(* The model of the fixtures, and one with nested folders and a cycle of relations. *)
Def(direct, computed, ttu) == [direct |-> direct, computed |-> computed, tupleToUserset |-> ttu]
Direct == Def(TRUE, <<>>, <<>>)
FromParent(r) == <<[tupleset |-> "parent", relation |-> r]>>
MCTypeOf == [raj |-> "user", f1 |-> "folder", f2 |-> "folder", f3 |-> "folder", doc |-> "document"]
FlatFolders == [folder |-> [editor |-> Direct, viewer |-> Def(TRUE, <<"editor">>, <<>>)],
                document |-> [parent |-> Direct, editor |-> Direct,
                              viewer |-> Def(TRUE, <<"editor">>, FromParent("editor"))]]
NestedFolders == [folder |-> [parent |-> Direct, editor |-> Def(TRUE, <<"viewer">>, <<>>),
                              viewer |-> Def(FALSE, <<"editor">>, FromParent("viewer"))],
                  document |-> [parent |-> Direct, share |-> Def(FALSE, <<"viewer">>, <<>>),
                                viewer |-> Def(FALSE, <<>>, FromParent("viewer"))]]
MCAuthModels == {FlatFolders, NestedFolders}
Candidates == << <<"doc", "parent", "f1">>, <<"f1", "parent", "f2">>, <<"f2", "parent", "f3">>, <<"f3", "parent", "f1">>,
                 <<"f3", "editor", "raj">>, <<"doc", "editor", "raj">> >>
MCTupleSets == {LET In(t) == \E i \in S : Candidates[i] = t IN SelectSeq(Candidates, In) : S \in SUBSET DOMAIN Candidates}
Check(r, o) == [user |-> "raj", relation |-> r, object |-> o]
MCChecks == {Check("viewer", "doc"), Check("share", "doc")}

(* Lines: a key with two values, a list item, the empty line.  Every text of up *)
(* to three lines, with and without a trailing newline; a saved one too long    *)
(* for the table.                                                               *)
MCKey == [l \in {"k1", "k2", "item", ""} |->
            IF l = "" THEN None ELSE [item |-> l = "item", key |-> "k"]]
MCDocs == UNION {[1..n -> {"k1", "k2", "item"}] : n \in 1..3} \cup {<<"">>, <<"k1", "">>, <<"k1", "k2", "">>}
MCSavedDocs == {<<"k1", "item", "k2", "k1">>}
MCLinks == {<<0, 0>>, <<3, 1>>}
====
