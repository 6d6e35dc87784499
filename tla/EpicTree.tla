------------------------------ MODULE EpicTree ------------------------------
(***************************************************************************)
(* The tree of epics with the tasks filed in it: creating, re-parenting,   *)
(* grouping by repository, deleting, and the status roll-up every one of   *)
(* these owes the ancestors of what it touched.                            *)
(*                                                                         *)
(* Each reducer is one transaction, so it is a function from the rows of   *)
(* the store to the rows it leaves, built from the functions the reducers  *)
(* share.  What makes the component hard is inside the transaction: the    *)
(* order of the recalculations, the bound of the walks, and which epic a   *)
(* routed row really landed in.                                            *)
(***************************************************************************)
EXTENDS Integers, FiniteSets, FiniteSetsExt, Functions

CONSTANTS
    MaxAncestorWalk,    \* MAX_ANCESTOR_WALK
    TreeSettings        \* the trees, and what happens to one in a behaviour

Root == 0       \* the absent epic: no parent, or a user board

NoRepo == "none"

AllCalls == {"create", "place", "reparent", "group", "move", "repo", "update",
             "phoenix", "delete", "batch"}

ASSUME EpicTreeAssumption ==
    /\ MaxAncestorWalk \in Nat
    /\ \A c \in TreeSettings :
           /\ c.epics \in Nat /\ c.tasks \in Nat /\ c.depth \in Nat \ {0}
           /\ NoRepo \notin c.repos /\ c.calls \subseteq AllCalls

VARIABLES
    store,          \* the rows: epics and tasks by id, and the ids drawn so far
    treeSetting     \* the member of TreeSettings a behaviour belongs to: it never changes

treeVars == <<store, treeSetting>>

Repos == treeSetting.repos
MaxEpicDepth == treeSetting.depth     \* MAX_EPIC_DEPTH
Calls == treeSetting.calls            \* what people do, of AllCalls

(* "running" stands for running and review: the roll-up and the deletes    *)
(* only ask whether a row is done.                                         *)
Status == {"backlog", "running", "done"}

(* `group` is the repository a repo-group sub-epic was created for, NoRepo *)
(* for an epic made by hand.                                               *)
NewEpic(parent) == [status |-> "backlog", parent |-> parent, group |-> NoRepo, grouped |-> FALSE]
RepoGroup(parent, repo) == [NewEpic(parent) EXCEPT !.group = repo]

NewTask(epic, repo, phoenix) ==
    [status |-> "backlog", epic |-> epic, repo |-> repo, phoenix |-> phoenix]

Epics(s) == DOMAIN s.epic
Tasks(s) == DOMAIN s.task

SubEpics(s, e) == {c \in Epics(s) : s.epic[c].parent = e}
TasksOf(s, e) == {t \in Tasks(s) : s.task[t].epic = e}

(* An insert takes the next id; ids are never reused.                      *)
Rows(old, id, row) == [i \in DOMAIN old \cup {id} |-> IF i = id THEN row ELSE old[i]]

InsertEpic(s, row) ==
    [s EXCEPT !.epic = Rows(@, s.epics + 1, row), !.epics = @ + 1]

InsertTask(s, row) ==
    [s EXCEPT !.task = Rows(@, s.tasks + 1, row), !.tasks = @ + 1]

----------------------------------------------------------------------------
(* The roll-up *)

ChildStatuses(s, e) ==
    {s.task[t].status : t \in TasksOf(s, e)} \cup {s.epic[c].status : c \in SubEpics(s, e)}

DeriveEpicStatus(current, children) ==
    IF children = {} THEN current
    ELSE IF children = {"done"} THEN "done"
    ELSE IF current = "done" THEN "backlog"
    ELSE current

RecalculateOne(s, e) ==
    [s EXCEPT !.epic[e].status = DeriveEpicStatus(@, ChildStatuses(s, e))]

(* The epic, then its ancestors, as far up as the walk goes.               *)
RolledUp(w) ==
    IF w.at \notin Epics(w.store) THEN w
    ELSE [at |-> w.store.epic[w.at].parent, store |-> RecalculateOne(w.store, w.at)]

RecalculateEpicChain(s, e) ==
    LET step[k \in Nat] == IF k = 0 THEN [at |-> e, store |-> s] ELSE RolledUp(step[k - 1])
    IN  step[MaxEpicDepth].store

----------------------------------------------------------------------------
(* The shape of the tree *)

(* The hop cap refuses too: a walk that has not met the root is no proof.  *)
Hop(s, e, at) == IF at \in {Root, e} THEN at ELSE s.epic[at].parent

ValidEpicParent(s, e, parent) ==
    LET up[k \in Nat] == IF k = 0 THEN parent ELSE Hop(s, e, up[k - 1])
    IN  up[MaxAncestorWalk] = Root

(* The levels below an epic, no epic visited twice.                        *)
OneLevelDown(s, w) ==
    LET next == {c \in Epics(s) : s.epic[c].parent \in w.at} \ w.seen
    IN  [at |-> next, seen |-> w.seen \cup next]

LevelsBelow(s, e, depth) ==
    LET level[k \in Nat] ==
            IF k = 0 THEN [at |-> {e}, seen |-> {e}] ELSE OneLevelDown(s, level[k - 1])
    IN  level[depth]

SubtreeExceedsDepth(s, e) == LevelsBelow(s, e, MaxEpicDepth + 1).at # {}

SubtreeIds(s, e) == LevelsBelow(s, e, Cardinality(Epics(s))).seen

(* Faulty: only the epic's own tasks are judged.                           *)
OwnTasksDone(s, e) ==
    /\ ~SubtreeExceedsDepth(s, e)
    /\ \A t \in TasksOf(s, e) : s.task[t].status = "done"

EpicDeletable(s, e) ==
    /\ ~SubtreeExceedsDepth(s, e)
    /\ \A t \in Tasks(s) :
           s.task[t].epic \in SubtreeIds(s, e) => s.task[t].status = "done"

WithoutTasks(s, ts) == [s EXCEPT !.task = [t \in Tasks(s) \ ts |-> s.task[t]]]

(* The epics a recursive delete reaches: it stops below MaxEpicDepth.      *)
Doomed(s, e) == LevelsBelow(s, e, MaxEpicDepth).seen

WithoutEpics(s, es) ==
    LET left == WithoutTasks(s, {t \in Tasks(s) : s.task[t].epic \in es})
    IN  [left EXCEPT !.epic = [x \in Epics(s) \ es |-> s.epic[x]]]

DeleteEpicSubtree(s, e) == WithoutEpics(s, Doomed(s, e))

----------------------------------------------------------------------------
(* Grouping by repository.  The epics here have no feed command: those of  *)
(* a feed group through ingestion (FeedIngest).                            *)

RepoGroups(s, root, repo) == {c \in SubEpics(s, root) : s.epic[c].group = repo}

AutoGroups(s, e) == e \in Epics(s) /\ s.epic[e].grouped

(* Where a task of `repo` filed in `e` lives, and the store once that epic *)
(* is there.                                                               *)
RouteToRepoGroup(s, e, repo) ==
    IF ~AutoGroups(s, e) THEN [epic |-> e, store |-> s]
    ELSE IF RepoGroups(s, e, repo) # {} THEN [epic |-> Min(RepoGroups(s, e, repo)), store |-> s]
    ELSE [epic |-> s.epics + 1, store |-> InsertEpic(s, RepoGroup(e, repo))]

GroupingRootOf(s, e) ==
    IF AutoGroups(s, e) THEN e
    ELSE IF e \in Epics(s) /\ s.epic[e].group # NoRepo /\ AutoGroups(s, s.epic[e].parent)
    THEN s.epic[e].parent
    ELSE Root

DeleteIfEmptyRepoGroup(s, e) ==
    IF e \notin Epics(s) \/ s.epic[e].group = NoRepo THEN s
    ELSE IF TasksOf(s, e) # {} \/ SubEpics(s, e) # {} THEN RecalculateEpicChain(s, e)
    ELSE DeleteEpicSubtree(s, e)

(* The tasks of `home` each get the epic it names.                         *)
Relink(s, home) ==
    [s EXCEPT !.task = [t \in Tasks(s) |-> IF t \in DOMAIN home
                                           THEN [s.task[t] EXCEPT !.epic = home[t]]
                                           ELSE s.task[t]]]

RelinkTask(s, t, e) == Relink(s, [x \in {t} |-> e])

(* After a repository change: the task moves to the sub-epic of its new    *)
(* repository, and the one it left goes when it is empty.                  *)
RerouteOnRepoChange(s, t) ==
    LET current == s.task[t].epic
        root == GroupingRootOf(s, current)
        route == RouteToRepoGroup(s, root, s.task[t].repo)
        moved == RelinkTask(route.store, t, route.epic)
        left == IF current # root THEN DeleteIfEmptyRepoGroup(moved, current) ELSE moved
    IN  IF root = Root \/ route.epic = current THEN s
        ELSE RecalculateEpicChain(left, route.epic)

(* The repositories of an epic's tasks that have no sub-epic yet.          *)
Ungrouped(s, root) ==
    {r \in {s.task[t].repo : t \in TasksOf(s, root)} : RepoGroups(s, root, r) = {}}

(* New sub-epics, with ids drawn in any order of the tasks.                *)
Drawn(s, root) ==
    Bijection(Ungrouped(s, root), s.epics + 1 .. s.epics + Cardinality(Ungrouped(s, root)))

WithGroups(s, root, drawn) ==
    [s EXCEPT !.epics = @ + Cardinality(DOMAIN drawn),
              !.epic = [x \in Epics(s) \cup Range(drawn) |->
                            IF x \in Epics(s) THEN s.epic[x]
                            ELSE RepoGroup(root, CHOOSE r \in DOMAIN drawn : drawn[r] = x)]]

(* The sub-epics that tasks joined are recalculated once each, and none of *)
(* them is below another; then the root's chain.                           *)
Regrouped(s, root, drawn) ==
    LET group(r) == IF r \in DOMAIN drawn THEN drawn[r] ELSE Min(RepoGroups(s, root, r))
        home == [t \in TasksOf(s, root) |-> group(s.task[t].repo)]
        moved == Relink(WithGroups(s, root, drawn), home)
        rolled == [moved EXCEPT !.epic = [x \in Epics(moved) |->
                       IF x \in Range(home) THEN RecalculateOne(moved, x).epic[x]
                       ELSE moved.epic[x]]]
    IN  RecalculateEpicChain(rolled, root)

(* The tasks go first: the delete of a sub-epic takes its tasks with it.   *)
FlattenOne(s, root, sub) ==
    DeleteIfEmptyRepoGroup(Relink(s, [t \in TasksOf(s, sub) |-> root]), sub)

RepoGroupsOf(s, root) == {c \in SubEpics(s, root) : s.epic[c].group # NoRepo}

(* An order in which a reducer takes the members of a set it has not       *)
(* sorted.                                                                 *)
Orders(set) == Bijection(1..Cardinality(set), set)

FlattenedTree(s, root, order) ==
    LET run[k \in 0..Cardinality(DOMAIN order)] ==
            IF k = 0 THEN s ELSE FlattenOne(run[k - 1], root, order[k])
    IN  RecalculateEpicChain(run[Cardinality(DOMAIN order)], root)

----------------------------------------------------------------------------
(* Writes of one task *)

(* A close of a phoenix task routes its successor as a new task of the     *)
(* closed one's epic; the close recalculates the epic it was closed in.    *)
Respawn(s, t) ==
    LET closed == s.task[t]
        route == RouteToRepoGroup(s, closed.epic, closed.repo)
    IN  InsertTask([route.store EXCEPT !.task[t].phoenix = FALSE],
                   NewTask(route.epic, closed.repo, TRUE))

Respawns(s, t, status) ==
    status = "done" /\ s.task[t].status # "done" /\ s.task[t].phoenix

(* A patch of the status and the repository; naming the current value      *)
(* changes nothing.                                                        *)
PatchTask(s, t, status, repo) ==
    LET prior == s.task[t]
        patched == [s EXCEPT !.task[t].status = status, !.task[t].repo = repo]
        born == IF Respawns(s, t, status) THEN Respawn(patched, t) ELSE patched
        rolled == IF status # prior.status THEN RecalculateEpicChain(born, prior.epic) ELSE born
    IN  IF repo # prior.repo THEN RerouteOnRepoChange(rolled, t) ELSE rolled

(* Routed first, then compared.  Both chains, and in that order.           *)
MoveTask(s, t, e) ==
    LET was == s.task[t].epic
        route == RouteToRepoGroup(s, e, s.task[t].repo)
        moved == RelinkTask(route.store, t, route.epic)
    IN  IF route.epic = was THEN s
        ELSE RecalculateEpicChain(RecalculateEpicChain(moved, was), route.epic)

(* A call that names the repository moves the task before it patches it.   *)
UpdateTask(s, t, e, status, repo, namesRepo) ==
    IF namesRepo THEN PatchTask(MoveTask(s, t, e), t, status, repo)
    ELSE MoveTask(PatchTask(s, t, status, repo), t, e)

----------------------------------------------------------------------------
(* The reducers *)

TreeInit ==
    /\ treeSetting \in TreeSettings
    /\ store = [epic |-> <<>>, task |-> <<>>, epics |-> 0, tasks |-> 0]

(* Bounds: rows ever made.                                                 *)
Leaves(s) ==
    /\ s.epics <= treeSetting.epics /\ s.tasks <= treeSetting.tasks
    /\ store' = s
    /\ UNCHANGED treeSetting

CreateEpic(parent) ==
    /\ parent \in Epics(store) \cup {Root}
    /\ Leaves(RecalculateEpicChain(InsertEpic(store, NewEpic(parent)), parent))

CreateTask(e, repo, phoenix) ==
    /\ e \in Epics(store) \cup {Root}
    /\ LET route == RouteToRepoGroup(store, e, repo)
       IN  Leaves(RecalculateEpicChain(
               InsertTask(route.store, NewTask(route.epic, repo, phoenix)), route.epic))

(* The patch, then the epic's chain, then that of the parent it had.       *)
(* Faulty first: the parent it left is forgotten.                          *)
PatchedForgetsTheLeft(s, e, row) == RecalculateEpicChain([s EXCEPT !.epic[e] = row], e)

PatchedEpic(s, e, row) ==
    RecalculateEpicChain(RecalculateEpicChain([s EXCEPT !.epic[e] = row], e), s.epic[e].parent)

SetEpicStatus(e, status) ==
    Leaves(PatchedEpic(store, e, [store.epic[e] EXCEPT !.status = status]))

SetEpicParent(e, parent) ==
    /\ parent \in Epics(store) \cup {Root}
    /\ store.epic[e].group = NoRepo
    /\ parent # Root => ValidEpicParent(store, e, parent)
    /\ Leaves(PatchedEpic(store, e, [store.epic[e] EXCEPT !.parent = parent]))

SetGroupByRepo(e, on) ==
    /\ store.epic[e].grouped # on
    /\ Leaves(PatchedEpic(store, e, [store.epic[e] EXCEPT !.grouped = on]))

Regroup(e) ==
    IF AutoGroups(store, e)
    THEN \E drawn \in Drawn(store, e) : Leaves(Regrouped(store, e, drawn))
    ELSE Leaves(RecalculateEpicChain(store, e))

Flatten(e) ==
    \E order \in Orders(RepoGroupsOf(store, e)) : Leaves(FlattenedTree(store, e, order))

(* An update names what changes; the rest keeps its value.                 *)
RefileTask(t, e) ==
    /\ e \in Epics(store) \cup {Root}
    /\ Leaves(MoveTask(store, t, e))

PatchTaskRow(t, status, repo) == Leaves(PatchTask(store, t, status, repo))

UpdateTaskRow(t, e, status, repo, namesRepo) ==
    /\ e \in Epics(store) \cup {Root}
    /\ repo # store.task[t].repo => namesRepo
    /\ Leaves(UpdateTask(store, t, e, status, repo, namesRepo))

RemoveTask(t) ==
    /\ store.task[t].status = "done"
    /\ Leaves(RecalculateEpicChain(WithoutTasks(store, {t}), store.task[t].epic))

RemoveEpic(e) ==
    /\ EpicDeletable(store, e)
    /\ Leaves(RecalculateEpicChain(DeleteEpicSubtree(store, e), store.epic[e].parent))

RecalculateAll(s, order) ==
    LET run[k \in 0..Cardinality(DOMAIN order)] ==
            IF k = 0 THEN s ELSE RecalculateEpicChain(run[k - 1], order[k])
    IN  run[Cardinality(DOMAIN order)]

(* Everything is judged before anything is deleted, and what was deleted   *)
(* with an earlier item is skipped: a chain from an epic that is gone does *)
(* nothing.  The chains run in no fixed order.                             *)
BatchDelete(ts, es) ==
    LET doomed == UNION {Doomed(store, e) : e \in es}
        left == {t \in ts : store.task[t].epic \notin doomed}
        gone == WithoutTasks(WithoutEpics(store, doomed), left)
        touched == {store.epic[e].parent : e \in es} \cup {store.task[t].epic : t \in left}
    IN  /\ \A e \in es : EpicDeletable(store, e)
        /\ \A t \in ts : store.task[t].status = "done"
        /\ \E order \in Orders(touched) : Leaves(RecalculateAll(gone, order))

TreeNext ==
    \/ \E p \in Epics(store) \cup {Root} : "create" \in Calls /\ CreateEpic(p)
    \/ \E e \in Epics(store) \cup {Root}, r \in Repos, phoenix \in BOOLEAN :
           /\ phoenix => "phoenix" \in Calls
           /\ CreateTask(e, r, phoenix)
    \/ \E e \in Epics(store), s \in Status : "place" \in Calls /\ SetEpicStatus(e, s)
    \/ \E e \in Epics(store), p \in Epics(store) \cup {Root} :
           "reparent" \in Calls /\ SetEpicParent(e, p)
    \/ \E e \in Epics(store), on \in BOOLEAN : "group" \in Calls /\ SetGroupByRepo(e, on)
    \/ \E e \in Epics(store) : "group" \in Calls /\ (Regroup(e) \/ Flatten(e))
    \/ \E t \in Tasks(store), e \in Epics(store) \cup {Root} :
           "move" \in Calls /\ RefileTask(t, e)
    \/ \E t \in Tasks(store), s \in Status : PatchTaskRow(t, s, store.task[t].repo)
    \/ \E t \in Tasks(store), r \in Repos :
           "repo" \in Calls /\ PatchTaskRow(t, store.task[t].status, r)
    \/ \E t \in Tasks(store), e \in Epics(store) \cup {Root}, s \in Status, r \in Repos,
          names \in BOOLEAN : "update" \in Calls /\ UpdateTaskRow(t, e, s, r, names)
    \/ \E t \in Tasks(store) : "delete" \in Calls /\ RemoveTask(t)
    \/ \E e \in Epics(store) : "delete" \in Calls /\ RemoveEpic(e)
    \/ \E ts \in SUBSET Tasks(store), es \in SUBSET Epics(store) :
           "batch" \in Calls /\ BatchDelete(ts, es)

TreeSpec == TreeInit /\ [][TreeNext]_treeVars

----------------------------------------------------------------------------
(* Properties *)

(* Every row is one the store can hold.                                    *)
EpicRows == [status : Status, parent : Nat, group : Repos \cup {NoRepo}, grouped : BOOLEAN]
TaskRows == [status : Status, epic : Nat, repo : Repos, phoenix : BOOLEAN]

TreeTypeOK ==
    /\ store.epics \in 0..treeSetting.epics /\ store.tasks \in 0..treeSetting.tasks
    /\ Epics(store) \subseteq 1..store.epics /\ Tasks(store) \subseteq 1..store.tasks
    /\ \A e \in Epics(store) : store.epic[e] \in EpicRows
    /\ \A t \in Tasks(store) : store.task[t] \in TaskRows

(* Parents exist and so do the epics tasks are filed in; and no epics are  *)
(* each other's ancestors: of any of them, one has its parent elsewhere.   *)
Forest(s) ==
    /\ \A e \in Epics(s) : s.epic[e].parent \in Epics(s) \cup {Root}
    /\ \A t \in Tasks(s) : s.task[t].epic \in Epics(s) \cup {Root}
    /\ \A some \in SUBSET Epics(s) :
           some # {} => \E e \in some : s.epic[e].parent \notin some

(* The epics that disagree with their children: one with children is done  *)
(* exactly when all of them are (EpicStatusRecalculation).                 *)
Stale(s) ==
    {e \in Epics(s) :
        /\ ChildStatuses(s, e) # {}
        /\ ~(s.epic[e].status = "done" <=> ChildStatuses(s, e) = {"done"})}

(* The roll-up reaches as far as its walk, and the close of a phoenix      *)
(* recalculates the epic it was closed in, not its successor's.            *)
RollUpReaches == treeSetting.epics <= MaxEpicDepth /\ "phoenix" \notin Calls

(* Whatever the sequence of re-parentings, regroupings and deletes, the    *)
(* epics are a forest in which every task has its place (the walk of       *)
(* validate_epic_parent and the delete's depth check against the plain     *)
(* definition), and an epic with children is done exactly when all of them *)
(* are, after every transaction.                                           *)
TreesStayWhole ==
    /\ TreeTypeOK
    /\ Forest(store)
    /\ RollUpReaches => Stale(store) = {}

(* A task leaves the store only when its work was finished: no regrouping  *)
(* or flattening loses a task with the sub-epic it deletes, and no delete  *)
(* of an epic or of a batch takes unfinished work anywhere below it.       *)
DeletesOnlyFinishedWork ==
    \A t \in Tasks(store) : t \notin Tasks(store') => store.task[t].status = "done"

(* A status written by hand stays until the epic's children all finish:    *)
(* an epic with an unfinished child before and after a transaction that    *)
(* does not name its status keeps the status it has.                       *)
PreservesPlacements ==
    \A e \in Epics(store) \cap Epics(store') :
        store'.epic[e].status # store.epic[e].status =>
            \/ ChildStatuses(store, e) \subseteq {"done"}
            \/ ChildStatuses(store', e) \subseteq {"done"}
            \/ \E s \in Status : SetEpicStatus(e, s)

(* Where tasks stay in the epic they were made in: a task that changes its *)
(* epic is there in neither while the first of the two is recalculated.    *)
TasksStayPut == Calls \cap {"group", "move", "repo", "update"} = {}

(* Beyond the reach of the roll-up a placed epic can be above a stale one, *)
(* and follow it later.                                                    *)
TreesKeepWork ==
    [][/\ DeletesOnlyFinishedWork
       /\ RollUpReaches /\ TasksStayPut => PreservesPlacements]_treeVars
=============================================================================
