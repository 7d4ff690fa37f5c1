--------------------------- MODULE RelationsConsole ---------------------------
(***************************************************************************)
(* The relations screen of one tenant: the tuple store of                  *)
(* features/relations/server.ts, the paged table and the staged batch of   *)
(* relations-view.tsx, and the write of batch-write-panel.tsx.             *)
(*                                                                         *)
(* A handler is cut at each of its awaits.  A call may be lost on either   *)
(* side of the server; the operator then sends the batch that is still     *)
(* staged again, under the key it already has.                             *)
(***************************************************************************)
EXTENDS Integers, Sequences, FiniteSets

CONSTANTS
    Operators,
    Tuples,
    Typed,          \* the ones an operator may type into the form
    Reserved,       \* tuples that name platform:*
    InModel,        \* tuples whose relation the tenant's model defines
    Seed,           \* the materialised fixture tuples, in order
    Hidden,         \* how many more the index reports: less than 0 for a tenant created here
    PageSize,
    MaxBatch,       \* bound on the changes a batch stages
    MaxRelClicks,   \* bound
    RestartFrom     \* bound: the process restarts at most once, after this many clicks

VARIABLES
    objs,           \* every store object built since the process started
    store,          \* the one the map holds; 0 when the map is empty
    writes,         \* batch writes the server has not finished answering
    tab,            \* client state of each operator
    applied,        \* history: the batches applied, in order
    relClicks, relRestarts

relVars == <<objs, store, writes, tab, applied, relClicks, relRestarts>>

Ran(s) == {s[i] : i \in DOMAIN s}
Least(a, b) == IF a < b THEN a ELSE b
(* filter: what is kept of s closes up in its order. *)
Without(s, gone) ==
    LET kept == {i \in DOMAIN s : s[i] \notin gone}
        Place(i) == Cardinality({j \in kept : j <= i})
    IN  [n \in 1..Cardinality(kept) |-> s[CHOOSE i \in kept : Place(i) = n]]
StageIn(s, t) == IF t \in Ran(s) THEN s ELSE Append(s, t)

-----------------------------------------------------------------------------
(* features/relations/server.ts *)

Fresh == [items |-> Seed, total |-> Len(Seed) + Hidden]

(* storeFor: the map is read, a miss awaits the tenant, and the object built  *)
(* is put into the map whatever the map holds by then.                        *)
Resolved(c) == IF c.at = "sent" /\ store = 0 THEN [c EXCEPT !.at = "cold"]
               ELSE [c EXCEPT !.at = "hot", !.obj = IF c.at = "cold" THEN Len(objs) + 1 ELSE store]
storeFor(c) ==
    \/ c.at = "sent" /\ UNCHANGED <<objs, store>>
    \/ c.at = "cold" /\ objs' = Append(objs, Fresh) /\ store' = Len(objs) + 1

(* One page: the rows from the offset on, and the offset after the last of them. *)
listRelations(obj, offset) ==
    LET end == Least(offset + PageSize, Len(obj.items))
    IN  [items |-> SubSeq(obj.items, offset + 1, end),
         nextCursor |-> IF end < Len(obj.items) THEN end ELSE 0]

Refused(b) == \/ (Ran(b.writes) \cup Ran(b.deletes)) \cap Reserved # {}
              \/ ~(Ran(b.writes) \subseteq InModel)

(* Deletes first, then the writes that are not there yet. *)
Deleted(items, b) == Without(items, Ran(b.deletes))
SkipsBeforeDeleting(items, b) == Without(b.writes, Ran(items))            \* mutant
Written(items, b) == Without(b.writes, Ran(Deleted(items, b)))
CountsTheAsked(obj, b) == obj.total + Len(b.writes) - Len(b.deletes)      \* mutant
TotalAfter(obj, b) ==
    obj.total + Len(Written(obj.items, b)) - (Len(obj.items) - Len(Deleted(obj.items, b)))
Apply(obj, b) == [items |-> Deleted(obj.items, b) \o Written(obj.items, b), total |-> TotalAfter(obj, b)]

(* writeRelations: every change is validated before any is applied; the        *)
(* Idempotency-Key of the request is not read.                                *)
writeRelations(w) ==
    /\ w \in writes /\ w.at = "hot"
    /\ writes' = (writes \ {w}) \cup {[w EXCEPT !.at = IF Refused(w.batch) THEN "refused" ELSE "written"]}
    /\ IF Refused(w.batch) THEN UNCHANGED <<objs, applied>>
       ELSE /\ objs' = [objs EXCEPT ![w.obj] = Apply(@, w.batch)]
            /\ applied' = Append(applied,
                 [key |-> w.key, batch |-> w.batch, obj |-> w.obj,
                  changed |-> Ran(objs[w.obj].items) # Ran(objs'[w.obj].items)])
    /\ UNCHANGED <<store, tab, relClicks, relRestarts>>

writeArrives(w) ==
    /\ w \in writes /\ storeFor(w) /\ writes' = (writes \ {w}) \cup {Resolved(w)}
    /\ UNCHANGED <<tab, applied, relClicks, relRestarts>>

-----------------------------------------------------------------------------
(* relations-view.tsx *)

NoFetch == [at |-> "none", obj |-> 0, got |-> <<>>, from |-> 0, page |-> 0, last |-> 0]
EmptyTab == [writes |-> <<>>, deletes |-> <<>>, key |-> 0, pending |-> 0,
             rows |-> <<>>, pages |-> 0, next |-> 0, fetch |-> NoFetch]
FirstPage == listRelations(Fresh, 0)

(* The server renders the page with its first rows. *)
RelInit ==
    /\ objs = <<Fresh>> /\ store = 1 /\ writes = {} /\ applied = <<>>
    /\ tab = [o \in Operators |-> [EmptyTab EXCEPT !.rows = FirstPage.items, !.pages = 1,
                                                   !.next = FirstPage.nextCursor]]
    /\ relClicks = 0 /\ relRestarts = 0

Staged(o) == Len(tab[o].writes) + Len(tab[o].deletes)

(* ensureKey: a batch gets its key when its first change is staged. *)
Used == {a.key : a \in Ran(applied)} \cup {w.key : w \in writes} \cup {tab[p].key : p \in Operators} \cup {0}
FreshKey == CHOOSE k \in 0..Cardinality(Used) : k \notin Used /\ \A j \in 0..k - 1 : j \in Used
ensureKey(t) == IF t.key = 0 THEN [t EXCEPT !.key = FreshKey] ELSE t
SetTab(o, t) == tab' = [tab EXCEPT ![o] = t]
Clicked == relClicks < MaxRelClicks /\ relClicks' = relClicks + 1
Stages(o, t) == /\ Clicked /\ Staged(o) < MaxBatch /\ SetTab(o, ensureKey(t))
                /\ UNCHANGED <<objs, store, writes, applied, relRestarts>>
addWrite(o, t) == t \in Typed /\ Stages(o, [tab[o] EXCEPT !.writes = StageIn(@, t)])
stageDelete(o, t) == t \in Ran(tab[o].rows) /\ Stages(o, [tab[o] EXCEPT !.deletes = StageIn(@, t)])
unstage(o, t) ==
    /\ Clicked
    /\ \/ t \in Ran(tab[o].writes) /\ SetTab(o, [tab[o] EXCEPT !.writes = Without(@, {t})])
       \/ t \in Ran(tab[o].deletes) /\ SetTab(o, [tab[o] EXCEPT !.deletes = Without(@, {t})])
    /\ UNCHANGED <<objs, store, writes, applied, relRestarts>>
discarded(t) == [t EXCEPT !.writes = <<>>, !.deletes = <<>>, !.key = 0]
discard(o) == /\ Clicked /\ Staged(o) > 0 /\ SetTab(o, discarded(tab[o]))
              /\ UNCHANGED <<objs, store, writes, applied, relRestarts>>

(* The Write button: the batch and the key of this render. *)
write(o) ==
    /\ Staged(o) > 0 /\ tab[o].pending = 0 /\ Clicked
    /\ writes' = writes \cup {[id |-> relClicks', key |-> tab[o].key, at |-> "sent", obj |-> 0,
                               batch |-> [writes |-> tab[o].writes, deletes |-> tab[o].deletes]]}
    /\ SetTab(o, [tab[o] EXCEPT !.pending = relClicks'])
    /\ UNCHANGED <<objs, store, applied, relRestarts>>

(* A new fetch replaces the one under way; pages are asked for one by one. *)
Fetch(t, got, from, page, last) ==
    [t EXCEPT !.fetch = [at |-> "sent", obj |-> 0, got |-> got, from |-> from, page |-> page, last |-> last]]
refetch(t) == Fetch(t, <<>>, 0, 1, t.pages)
windowFocus(o) ==
    /\ tab[o].fetch.at = "none" /\ Clicked
    /\ SetTab(o, refetch(tab[o]))
    /\ UNCHANGED <<objs, store, writes, applied, relRestarts>>
fetchNextPage(o) ==
    /\ tab[o].next > 0 /\ Clicked
    /\ SetTab(o, Fetch(tab[o], tab[o].rows, tab[o].next, tab[o].pages + 1, tab[o].pages + 1))
    /\ UNCHANGED <<objs, store, writes, applied, relRestarts>>

fetchArrives(o) ==
    /\ storeFor(tab[o].fetch) /\ SetTab(o, [tab[o] EXCEPT !.fetch = Resolved(@)])
    /\ UNCHANGED <<writes, applied, relClicks, relRestarts>>
(* The schema of a page refuses a total below 0, and the fetch then fails. *)
receivePage(o) ==
    LET f == tab[o].fetch
        page == listRelations(objs[f.obj], f.from)
        got == f.got \o page.items
    IN  /\ f.at = "hot" /\ objs[f.obj].total >= 0
        /\ SetTab(o, IF f.page < f.last /\ page.nextCursor > 0
                     THEN [tab[o] EXCEPT !.fetch = [f EXCEPT !.at = "sent", !.got = got,
                                                    !.from = page.nextCursor, !.page = @ + 1]]
                     ELSE [tab[o] EXCEPT !.rows = got, !.next = page.nextCursor, !.pages = f.page,
                                         !.fetch = NoFetch])
        /\ UNCHANGED <<objs, store, writes, applied, relClicks, relRestarts>>
fetchFails(o) == /\ tab[o].fetch.at # "none" /\ SetTab(o, [tab[o] EXCEPT !.fetch = NoFetch])
                 /\ UNCHANGED <<objs, store, writes, applied, relClicks, relRestarts>>

(* onSuccess: the staged batch goes, whatever was staged since, and the table *)
(* is fetched again.  An error leaves the batch and its key as they are.      *)
receiveAnswer(o) ==
    \E w \in writes :
      /\ w.id = tab[o].pending /\ w.at \in {"refused", "written"}
      /\ writes' = writes \ {w}
      /\ SetTab(o, IF w.at = "written"
                   THEN [refetch(discarded(tab[o])) EXCEPT !.pending = 0]
                   ELSE [tab[o] EXCEPT !.pending = 0])
      /\ UNCHANGED <<objs, store, applied, relClicks, relRestarts>>
(* The call fails on the way there, or its answer on the way back. *)
loseCall(o) ==
    /\ tab[o].pending # 0
    /\ SetTab(o, [tab[o] EXCEPT !.pending = 0])
    /\ \E w \in writes : w.id = tab[o].pending /\ writes' \in {writes, writes \ {w}}
    /\ UNCHANGED <<objs, store, applied, relClicks, relRestarts>>
(* The server drops the answer nobody waits for. *)
dropAnswer(w) == /\ w \in writes /\ w.at \in {"refused", "written"}
                 /\ \A o \in Operators : tab[o].pending # w.id
                 /\ writes' = writes \ {w}
                 /\ UNCHANGED <<objs, store, tab, applied, relClicks, relRestarts>>

(* The process restarts: the module-level map is empty and every call fails. *)
restart ==
    /\ relRestarts = 0 /\ relClicks >= RestartFrom /\ relRestarts' = relRestarts + 1
    /\ objs' = <<>> /\ store' = 0 /\ writes' = {} /\ applied' = <<>>
    /\ tab' = [o \in Operators |->
         [tab[o] EXCEPT !.pending = 0, !.fetch = NoFetch]]
    /\ UNCHANGED relClicks

RelNext ==
    \/ restart
    \/ \E w \in writes : writeArrives(w) \/ writeRelations(w) \/ dropAnswer(w)
    \/ \E o \in Operators :
         \/ discard(o) \/ write(o) \/ windowFocus(o) \/ fetchNextPage(o) \/ fetchArrives(o)
         \/ receivePage(o) \/ fetchFails(o) \/ receiveAnswer(o) \/ loseCall(o)
         \/ \E t \in Tuples : addWrite(o, t) \/ stageDelete(o, t) \/ unstage(o, t)

-----------------------------------------------------------------------------
(* Properties *)

RelTypeOK ==
    /\ store \in 0..Len(objs) /\ objs \in Seq([items : Seq(Tuples), total : Int])
    /\ \A w \in writes : w.at = "hot" => w.obj \in DOMAIN objs
    /\ DOMAIN tab = Operators /\ \A o \in Operators : tab[o].writes \in Seq(Tuples)

(* Whatever batches are applied, in whatever order and however often, a store *)
(* never holds a tuple twice, and the total it reports counts exactly the     *)
(* tuples it gained and lost: a row deleted by both operators counts once, a  *)
(* write that was there already not at all (writeRelations, relations/server).*)
TuplesCounted ==
    \A i \in DOMAIN objs :
      /\ Cardinality(Ran(objs[i].items)) = Len(objs[i].items)
      /\ objs[i].total = Len(objs[i].items) + Hidden

Repeats(i, j) == /\ i < j /\ applied[i].obj = applied[j].obj
                 /\ applied[i].key = applied[j].key /\ applied[i].batch = applied[j].batch

(* Sending the staged batch again after its answer was lost changes nothing   *)
(* when no other batch was applied in between (writeRelations deletes what is *)
(* there and writes what is not).                                             *)
RetryAloneIsNoOp ==
    \A i, j \in DOMAIN applied :
      Repeats(i, j) /\ (\A k \in i + 1..j - 1 : applied[k].obj # applied[j].obj)
        => ~applied[j].changed

=============================================================================
