----------------------------- MODULE HistoryConsole -----------------------------
(***************************************************************************)
(* The version comparison of a tenant's spec: the line diff of             *)
(* features/spec/diff.ts, the summary saveSpec records with it, and the    *)
(* history page that picks two generations and shows what changed.         *)
(* Writing a version is SpecConsole's subject; here it is one step.        *)
(***************************************************************************)
EXTENDS Integers, Sequences, FiniteSets, SequencesExt

CONSTANTS
    Docs,           \* spec texts the tenant starts with: sequences of lines
    SavedDocs,      \* the ones saved while the page is open
    Links,          \* ?a=&b= of the link the page is opened from, 0 for a missing or bad one
    Blank,          \* the empty line
    yamlKey,        \* line -> [item, key] of a YAML key, or None for another line
    MAX_CELLS,      \* above this many cells no table is built
    None,
    MaxCompareClicks    \* bound: clicks, saves and fetches

VARIABLES
    history,        \* the server's versions, oldest first: [body, summary]
    compare,        \* the page: [items, fetched, a, b], a and b as in the URL
    compareClicks

historyVars == <<history, compare, compareClicks>>

-----------------------------------------------------------------------------
(* diff.ts *)

(* A trailing newline does not read as an extra empty line. *)
split(text) == IF Len(text) > 1 /\ Last(text) = Blank THEN Front(text) ELSE text

Op(kind, left, right, leftN, rightN) ==
    [kind |-> kind, left |-> left, right |-> right, leftN |-> leftN, rightN |-> rightN]
Equal(A, i, B, j) == Op("equal", A[i], B[j], i, j)
Removed(A, i) == Op("removed", A[i], None, i, 0)
Added(B, j) == Op("added", None, B[j], 0, j)

(* What is left of A from i and of B from j: removed, then added. *)
LosesTheTail(A, B, i, j) == [k \in 1..(Len(A) - i + 1) |-> Removed(A, i + k - 1)]      \* mutant
Rest(A, B, i, j) == [k \in 1..(Len(A) - i + 1) |-> Removed(A, i + k - 1)]
                    \o [k \in 1..(Len(B) - j + 1) |-> Added(B, j + k - 1)]

alignLines(a, b) ==
    LET A == split(a)
        B == split(b)
        lcs[i \in 1..(Len(A) + 1), j \in 1..(Len(B) + 1)] ==
          IF i > Len(A) \/ j > Len(B) THEN 0
          ELSE IF A[i] = B[j] THEN lcs[i + 1, j + 1] + 1
          ELSE Max({lcs[i + 1, j], lcs[i, j + 1]})
        walk[i \in 1..(Len(A) + 1), j \in 1..(Len(B) + 1)] ==
          IF i > Len(A) \/ j > Len(B) THEN Rest(A, B, i, j)
          ELSE IF A[i] = B[j] THEN <<Equal(A, i, B, j)>> \o walk[i + 1, j + 1]
          ELSE IF lcs[i + 1, j] >= lcs[i, j + 1] THEN <<Removed(A, i)>> \o walk[i + 1, j]
          ELSE <<Added(B, j)>> \o walk[i, j + 1]
    IN  IF Len(A) * Len(B) > MAX_CELLS THEN Rest(A, B, 1, 1) ELSE walk[1, 1]

(* A run of removed lines and the run of added lines after it become changed  *)
(* lines when they have the same plain keys, line by line.                    *)
runEnd(ops, i, kind) == Min({j \in i..(Len(ops) + 1) : j > Len(ops) \/ ops[j].kind # kind})
pairable(removed, added) ==
    /\ Len(removed) = Len(added)
    /\ \A k \in DOMAIN removed :
         LET lk == yamlKey[removed[k].left]
         IN  lk # None /\ lk = yamlKey[added[k].right] /\ ~lk.item
pairChanges(ops) ==
    LET from[i \in 1..(Len(ops) + 1)] ==
          IF i > Len(ops) THEN <<>>
          ELSE IF ops[i].kind # "removed" THEN <<ops[i]>> \o from[i + 1]
          ELSE LET j == runEnd(ops, i, "removed")
                   k == runEnd(ops, j, "added")
                   removed == SubSeq(ops, i, j - 1)
                   added == SubSeq(ops, j, k - 1)
               IN  (IF pairable(removed, added)
                    THEN [n \in DOMAIN removed |-> Op("changed", removed[n].left, added[n].right,
                                                      removed[n].leftN, added[n].rightN)]
                    ELSE removed \o added) \o from[k]
    IN  from[1]
diffLines(a, b) == pairChanges(alignLines(a, b))

Count(ops, kind) == Cardinality({i \in DOMAIN ops : ops[i].kind = kind})
summarize(ops) ==
    [added |-> Count(ops, "added"), removed |-> Count(ops, "removed"), changed |-> Count(ops, "changed"),
     unchanged |-> Count(ops, "equal"),
     hunks |-> Cardinality({i \in DOMAIN ops : ops[i].kind # "equal" /\ (i = 1 \/ ops[i - 1].kind = "equal")})]

Row(kind, text, n) == [kind |-> kind, text |-> text, n |-> n]
Right(op) == Row(IF op.kind = "equal" THEN "context" ELSE op.kind, op.right, op.rightN)
Left(op) == Row(IF op.kind = "equal" THEN "context" ELSE op.kind, op.left, op.leftN)

(* The unified view with everything shown, and the change preview in which a  *)
(* run of equal lines is one row that says how many it hides.                 *)
unifiedLines(ops) == [i \in DOMAIN ops |-> IF ops[i].kind = "removed" THEN Left(ops[i]) ELSE Right(ops[i])]
changePreview(ops) ==
    LET from[i \in 1..(Len(ops) + 1)] ==
          IF i > Len(ops) THEN <<>>
          ELSE IF ops[i].kind # "equal" THEN <<unifiedLines(ops)[i]>> \o from[i + 1]
          ELSE LET j == runEnd(ops, i, "equal") IN <<Row("context", None, j - i)>> \o from[j]
    IN  from[1]
sideBySide(ops) ==
    LET OnLeft(op) == op.kind # "added"
        OnRight(op) == op.kind # "removed"
        left == SelectSeq(ops, OnLeft)
        right == SelectSeq(ops, OnRight)
    IN  [left |-> [i \in DOMAIN left |-> Left(left[i])], right |-> [i \in DOMAIN right |-> Right(right[i])]]

-----------------------------------------------------------------------------
(* server.ts: a save describes its change, the list is read whole *)

describeChange(before, after) == summarize(diffLines(before, after))

ClickCompare == compareClicks < MaxCompareClicks /\ compareClicks' = compareClicks + 1
saveVersion(body) ==
    /\ ClickCompare
    /\ history' = Append(history, [body |-> body, summary |-> describeChange(Last(history).body, body)])
    /\ UNCHANGED compare
listVersions == /\ compare.fetched = None /\ ClickCompare
                /\ compare' = [compare EXCEPT !.fetched = history] /\ UNCHANGED history
receiveVersions == /\ compare.fetched # None
                   /\ compare' = [compare EXCEPT !.items = compare.fetched, !.fetched = None]
                   /\ UNCHANGED <<history, compareClicks>>
versionsFail == /\ compare.fetched # None /\ compare' = [compare EXCEPT !.fetched = None]
                /\ UNCHANGED <<history, compareClicks>>

-----------------------------------------------------------------------------
(* spec-history-view.tsx; a generation is its place in the history *)

(* The page is opened from a link that may name any two generations, or none. *)
(* The seeds carry summaries the fixtures spell out.                          *)
HistoryInit ==
    /\ \E d, e \in Docs : history = <<[body |-> d, summary |-> None], [body |-> e, summary |-> None]>>
    /\ \E l \in Links : compare = [items |-> history, fetched |-> None, a |-> l[1], b |-> l[2]]
    /\ compareClicks = 0

resolveSelection(n, a, b) ==
    LET B == IF b \in 1..n THEN b ELSE n
        fallbackA == IF B > 1 THEN B - 1 ELSE B
        A == IF a \in 1..n /\ a # B THEN a ELSE fallbackA
    IN  [a |-> Min({A, B}), b |-> Max({A, B})]
nextSelection(sel, clicked) ==
    IF clicked \in {sel.a, sel.b} THEN sel
    ELSE IF clicked > sel.b THEN [a |-> sel.b, b |-> clicked]
    ELSE [a |-> clicked, b |-> sel.b]
sel == resolveSelection(Len(compare.items), compare.a, compare.b)
Body(g) == compare.items[g].body
select(g) ==
    LET next == nextSelection(sel, g)
    IN  /\ ClickCompare /\ compare' = [compare EXCEPT !.a = next.a, !.b = next.b] /\ UNCHANGED history

HistoryNext ==
    \/ \E d \in SavedDocs : saveVersion(d)
    \/ \E g \in DOMAIN compare.items : select(g)
    \/ listVersions \/ receiveVersions \/ versionsFail

-----------------------------------------------------------------------------
(* Properties *)

TextsOf(rows) == [i \in DOMAIN rows |-> rows[i].text]
Numbered(rows) == \A i \in DOMAIN rows : rows[i].n = i
Subsequences(s) == {LET index == SetToSortSeq(S, <) IN [i \in DOMAIN index |-> s[index[i]]] : S \in SUBSET DOMAIN s}

(* What a diff of two texts has to be, whatever the algorithm. *)
Explains(ops, before, after) ==
    LET A == split(before)
        B == split(after)
        s == summarize(ops)
        panes == sideBySide(ops)
        kept(row) == row.kind # "removed"
        longest == Max({Len(c) : c \in Subsequences(A) \cap Subsequences(B)})
    IN  /\ TextsOf(panes.left) = A /\ Numbered(panes.left)
        /\ TextsOf(panes.right) = B /\ Numbered(panes.right)
        /\ TextsOf(SelectSeq(unifiedLines(ops), kept)) = B
        /\ s.unchanged = (IF Len(A) * Len(B) > MAX_CELLS THEN 0 ELSE longest)
        /\ s.hunks = 0 <=> s.unchanged = Len(A) /\ A = B
        /\ Count(changePreview(ops), "context") <= s.hunks + 1
        /\ Len(changePreview(ops)) = Count(changePreview(ops), "context") + s.added + s.removed + s.changed

(* What the summary of a save has to say of it. *)
Counts(s, before, after) == /\ s.added - s.removed = Len(split(after)) - Len(split(before))
                            /\ s.hunks = 0 => split(after) = split(before)

HistoryTypeOK ==
    /\ \A g \in DOMAIN history : history[g].body \in Docs \cup SavedDocs
    /\ Len(compare.items) \in 1..Len(history) /\ \A g \in DOMAIN compare.items : compare.items[g] = history[g]

(* Whatever was saved meanwhile and whatever the link names, the page puts an *)
(* older generation beside a newer one of those it loaded, each pane is that  *)
(* generation line for line as the server has it, no more lines are marked    *)
(* than had to be, and "no changes" means none; a save's summary counts what  *)
(* the save changed (diffLines in spec/diff.ts, resolveSelection).            *)
CompareFaithful ==
    /\ 1 <= sel.a /\ sel.b <= Len(compare.items) /\ (sel.a < sel.b \/ sel.b = 1)
    /\ LET before == history[sel.a].body
           after == history[sel.b].body
       IN  /\ <<Body(sel.a), Body(sel.b)>> = <<before, after>>
           /\ \A ops \in {diffLines(Body(sel.a), Body(sel.b))} : Explains(ops, before, after)
    /\ \A g \in {h \in DOMAIN history : history[h].summary # None} :
         Counts(history[g].summary, history[g - 1].body, history[g].body)

=============================================================================
