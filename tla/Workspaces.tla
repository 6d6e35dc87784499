----------------------------- MODULE Workspaces -----------------------------
(***************************************************************************)
(* Who sees what in the store, and what must follow when that changes:     *)
(* workspaces with their members and admins, private epics and packages,   *)
(* and the rows that hang on sight - follows, poll claims, unseen marks,   *)
(* bookmarks and package links.                                            *)
(*                                                                         *)
(* A reducer is one transaction: a guard on the caller and the rows, and   *)
(* the rows it leaves.  Sight is derived - from a membership, a chain of   *)
(* parents and a creator - so any of a dozen reducers can take it away,    *)
(* and each must clear what the person held through it.                    *)
(***************************************************************************)
EXTENDS Naturals, FiniteSets

CONSTANTS
    Person,         \* the people with a profile; each has one host
    Workspace, Epic, Task, Package,     \* ids, never reused
    Nobody,         \* no person: no owner, no claim, no feed command
    Root,           \* no parent epic, or no epic: a user board
    Starts          \* the stores a behaviour starts from, and its operations

ASSUME WorkspacesAssumption ==
    /\ Nobody \notin Person
    /\ Root \notin Epic
    /\ Epic \cap Task = {}

VARIABLES
    store,
    taker,      \* who took private work from its holder in the last call, if it did
    ops         \* the operations of this behaviour: they never change

vars == <<store, taker, ops>>

Life == {"unborn", "live", "deleted"}
Role == {"none", "member", "admin"}

EpicRow == [life : Life, parent : Epic \cup {Root}, ws : Workspace, private : BOOLEAN,
            creator : Person, setter : Person \cup {Nobody}]     \* Nobody: no feed command

TaskRow == [life : Life, epic : Epic \cup {Root}, owner : Person \cup {Nobody},
            creator : Person, done : BOOLEAN]

PackageRow == [life : Life, ws : Workspace, private : BOOLEAN, creator : Person]

Store == [super : SUBSET Person, ws : [Workspace -> Life],
          role : [Workspace -> [Person -> Role]],
          epic : [Epic -> EpicRow], task : [Task -> TaskRow], package : [Package -> PackageRow],
          follows : SUBSET (Person \X Epic), unseen : SUBSET (Person \X Task),
          bookmarks : SUBSET (Person \X Task), links : SUBSET (Package \X (Epic \cup Task)),
          epicClaim : [Epic -> Person \cup {Nobody}], taskClaim : [Task -> Person \cup {Nobody}]]

Live(f) == {i \in DOMAIN f : f[i].life = "live"}
Fresh(f, i) == f[i].life = "unborn"
Open(s) == {w \in Workspace : s.ws[w] = "live"}

----------------------------------------------------------------------------
(* Sight *)

Member(s, p, w) == s.role[w][p] # "none"
Admin(s, p, w) == s.role[w][p] = "admin"

(* The epic and everything above it: the least set that has the epic and,  *)
(* with an epic, its parent.                                               *)
UpClosed(s, es) == \A x \in es : s.epic[x].parent # Root => s.epic[x].parent \in es

Line(s, e) ==
    LET closed == {es \in SUBSET Epic : e \in es /\ UpClosed(s, es)}
    IN  {x \in Epic : \A es \in closed : x \in es}

SubtreeIds(s, e) == {x \in Live(s.epic) : e \in Line(s, x)}
TasksIn(s, es) == {t \in Live(s.task) : s.task[t].epic \in es}

(* Whom an epic is private to: the creator of the nearest private epic at  *)
(* or above it; Nobody when it is public all the way up.                   *)
PrivateHolder(s, e) ==
    LET private == {x \in Line(s, e) : s.epic[x].private}
        nearest == {x \in private : private \subseteq Line(s, x)}
    IN  IF nearest = {} THEN Nobody ELSE s.epic[CHOOSE x \in nearest : TRUE].creator

SeesEpic(s, p, e) ==
    /\ e \in Live(s.epic)
    /\ Member(s, p, s.epic[e].ws)
    /\ PrivateHolder(s, e) \in {Nobody, p}

SeesTask(s, p, t) ==
    /\ t \in Live(s.task)
    /\ IF s.task[t].epic = Root THEN s.task[t].owner = p ELSE SeesEpic(s, p, s.task[t].epic)

SeesPackage(s, p, k) ==
    /\ k \in Live(s.package)
    /\ Member(s, p, s.package[k].ws)
    /\ ~s.package[k].private \/ s.package[k].creator = p

(* Whom a task is private to.                                              *)
TaskHolder(s, e, owner) == IF e = Root THEN owner ELSE PrivateHolder(s, e)
HolderOfTask(s, t) == TaskHolder(s, s.task[t].epic, s.task[t].owner)

MaySetVisibility(s, p, creator, w) == creator = p \/ Admin(s, p, w) \/ p \in s.super

EpicIsUnseen(s, e) ==
    LET holder == PrivateHolder(s, e) IN holder # Nobody /\ ~Member(s, holder, s.epic[e].ws)

PackageIsUnseen(s, k) ==
    s.package[k].private /\ ~Member(s, s.package[k].creator, s.package[k].ws)

----------------------------------------------------------------------------
(* What a loss of sight clears *)

(* The poll claims on the epics, and on their tasks, of a set of epics and *)
(* the people who lose them.                                               *)
ReleaseEpicClaims(s, lost) ==
    [s EXCEPT !.epicClaim = [e \in Epic |-> IF <<e, @[e]>> \in lost THEN Nobody ELSE @[e]]]

ReleaseTaskClaims(s, lost) ==
    [s EXCEPT !.taskClaim = [t \in Task |-> IF /\ t \in Live(s.task)
                                               /\ <<s.task[t].epic, @[t]>> \in lost
                                            THEN Nobody ELSE @[t]]]

WithoutSight(s, es) == {x \in es \X Person : ~SeesEpic(s, x[2], x[1])}

(* The faulty form: the epic's own claim goes but not those of its subtree. *)
ReleaseOwnClaims(s, e) ==
    LET lost == WithoutSight(s, {e}) IN ReleaseTaskClaims(ReleaseEpicClaims(s, lost), lost)

ReleaseClaimsWithoutSight(s, e) ==
    LET lost == WithoutSight(s, SubtreeIds(s, e))
    IN  ReleaseTaskClaims(ReleaseEpicClaims(s, lost), lost)

(* Unseen marks and bookmarks.                                             *)
DropMarks(s, lost) == [s EXCEPT !.unseen = @ \ lost, !.bookmarks = @ \ lost]

ClearMarks(s, t) == DropMarks(s, Person \X {t})

DropLinksTo(s, items) == [s EXCEPT !.links = {l \in @ : l[2] \notin items}]

EndFollows(s, es, people) == [s EXCEPT !.follows = @ \ (people \X es)]

(* The three of them, for the people who leave.                            *)
EndHolds(s, es, people) ==
    LET lost == es \X people
        claims == ReleaseTaskClaims(ReleaseEpicClaims(s, lost), lost)
    IN  DropMarks(EndFollows(claims, es, people), people \X TasksIn(s, es))

DeleteTaskRow(s, t) == [DropLinksTo(ClearMarks(s, t), {t}) EXCEPT !.task[t].life = "deleted"]

DeleteEpicSubtree(s, e) ==
    LET es == SubtreeIds(s, e)
        ts == TasksIn(s, es)
        gone == DropLinksTo(DropMarks(s, Person \X ts), es \cup ts)
    IN  [gone EXCEPT
             !.epic = [x \in Epic |-> IF x \in es THEN [@[x] EXCEPT !.life = "deleted"] ELSE @[x]],
             !.task = [t \in Task |-> IF t \in ts THEN [@[t] EXCEPT !.life = "deleted"] ELSE @[t]]]

DeletePackageRows(s, k) ==
    [s EXCEPT !.package[k].life = "deleted", !.links = {l \in @ : l[1] # k}]

HoldsEpic(s, p, e) == e \in Live(s.epic) /\ PrivateHolder(s, e) = p
HoldsTask(s, p, t) == t \in Live(s.task) /\ HolderOfTask(s, t) = p

(* A call that commits.  Private work is taken when its holder has it no   *)
(* longer: it is exposed, handed on, or an epic that is deleted.           *)
KeepsEpic(s, r, e) ==
    LET holder == PrivateHolder(s, e) IN holder = Nobody \/ HoldsEpic(r, holder, e)
KeepsTask(s, r, t) ==
    LET holder == HolderOfTask(s, t) IN holder = Nobody \/ HoldsTask(r, holder, t)

Taken(s, r) ==
    \/ \E e \in Live(s.epic) : ~KeepsEpic(s, r, e)
    \/ \E t \in Live(s.task) \cap Live(r.task) : ~KeepsTask(s, r, t)

Commit(p, r) ==
    /\ store' = r
    /\ taker' = IF Taken(store, r) THEN p ELSE Nobody
    /\ UNCHANGED ops

----------------------------------------------------------------------------
(* People and workspaces *)

ClaimSuperAdmin(p) ==
    /\ store.super = {}
    /\ Commit(p, [store EXCEPT !.super = {p}])

GrantSuperAdmin(p, q) ==
    /\ p \in store.super
    /\ Commit(p, [store EXCEPT !.super = @ \cup {q}])

RevokeSuperAdmin(p, q) ==
    /\ p \in store.super
    /\ q \in store.super
    /\ Cardinality(store.super) > 1
    /\ Commit(p, [store EXCEPT !.super = @ \ {q}])

(* The creator is not made a member.                                       *)
CreateWorkspace(p, w) ==
    /\ p \in store.super
    /\ store.ws[w] = "unborn"
    /\ Commit(p, [store EXCEPT !.ws[w] = "live"])

DeleteWorkspace(p, w) ==
    /\ p \in store.super
    /\ w \in Open(store)
    /\ \A e \in Live(store.epic) : store.epic[e].ws # w
    /\ \A k \in Live(store.package) : store.package[k].ws # w
    /\ Commit(p, [store EXCEPT !.ws[w] = "deleted", !.role[w] = [q \in Person |-> "none"]])

MayAdminister(p, w) == w \in Open(store) /\ (p \in store.super \/ Admin(store, p, w))

AddMember(p, w, q, role) ==
    /\ MayAdminister(p, w)
    /\ ~Member(store, q, w)
    /\ Commit(p, [store EXCEPT !.role[w][q] = role])

(* A workspace may be left with no admin.                                  *)
SetMemberRole(p, w, q, role) ==
    /\ Member(store, q, w)
    /\ MayAdminister(p, w)
    /\ Commit(p, [store EXCEPT !.role[w][q] = role])

Removed(s, w, q) ==
    LET es == {e \in Live(s.epic) : s.epic[e].ws = w}
    IN  EndHolds([s EXCEPT !.role[w][q] = "none"], es, {q})

RemoveMember(p, w, q) ==
    /\ Member(store, q, w)
    /\ MayAdminister(p, w)
    /\ Commit(p, Removed(store, w, q))

----------------------------------------------------------------------------
(* Epics *)

CreateEpic(p, e, parent, w, private) ==
    /\ Fresh(store.epic, e)
    /\ IF parent = Root THEN w \in Open(store) /\ Member(store, p, w)
       ELSE SeesEpic(store, p, parent) /\ w = store.epic[parent].ws
    /\ Commit(p, [store EXCEPT !.epic[e] = [life |-> "live", parent |-> parent, ws |-> w,
                                            private |-> private, creator |-> p,
                                            setter |-> Nobody]])

HolderAfter(s, e, parent) ==
    IF s.epic[e].private THEN s.epic[e].creator
    ELSE IF parent = Root THEN Nobody ELSE PrivateHolder(s, parent)

MayMoveUnder(p, e, parent) ==
    /\ SeesEpic(store, p, e)
    /\ parent # Root =>
           /\ SeesEpic(store, p, parent)
           /\ store.epic[parent].ws = store.epic[e].ws
           /\ e \notin Line(store, parent)
    /\ HolderAfter(store, e, parent) # PrivateHolder(store, e) =>
           MaySetVisibility(store, p, store.epic[e].creator, store.epic[e].ws)

Reparent(p, e, parent) ==
    /\ MayMoveUnder(p, e, parent)
    /\ parent # store.epic[e].parent
    /\ Commit(p, ReleaseClaimsWithoutSight([store EXCEPT !.epic[e].parent = parent], e))

(* A changed command is its caller's, and other hosts' claims go; a        *)
(* cleared one is nobody's.                                                *)
CommandSet(s, p, e, setter) ==
    ReleaseEpicClaims([s EXCEPT !.epic[e].setter = setter], {e} \X (Person \ {p}))

SetFeedCommand(p, e, setter) ==
    /\ SeesEpic(store, p, e)
    /\ setter = Nobody => store.epic[e].setter # Nobody
    /\ MaySetVisibility(store, p, store.epic[e].creator, store.epic[e].ws)
    /\ Commit(p, CommandSet(store, p, e, setter))

(* Sight is asked before authority.                                        *)
(* The faulty form: authority alone.                                       *)
MayFlipUnseen(p, e) ==
    e \in Live(store.epic) /\ MaySetVisibility(store, p, store.epic[e].creator, store.epic[e].ws)

MayFlip(p, e) ==
    SeesEpic(store, p, e) /\ MaySetVisibility(store, p, store.epic[e].creator, store.epic[e].ws)

SetEpicVisibility(p, e, private) ==
    /\ MayFlip(p, e)
    /\ Commit(p, ReleaseClaimsWithoutSight([store EXCEPT !.epic[e].private = private], e))

TreeMovedTo(s, e, w) ==
    [s EXCEPT !.epic = [x \in Epic |-> IF x \in SubtreeIds(s, e) THEN [@[x] EXCEPT !.ws = w]
                                       ELSE @[x]]]

(* The faulty form: whoever may not see the destination goes on following. *)
MovedWithItsFollows(s, e, w) ==
    LET es == SubtreeIds(s, e)
    IN  [EndHolds(DropLinksTo(TreeMovedTo(s, e, w), es \cup TasksIn(s, es)), es,
                  {p \in Person : ~Member(s, p, w)}) EXCEPT !.follows = s.follows]

MovedTo(s, e, w) ==
    LET es == SubtreeIds(s, e)
    IN  EndHolds(DropLinksTo(TreeMovedTo(s, e, w), es \cup TasksIn(s, es)), es,
                 {p \in Person : ~Member(s, p, w)})

(* A super-admin needs no sight of a public epic; nobody moves a tree with *)
(* an epic that is private to somebody else.                               *)
MoveEpicToWorkspace(p, e, w) ==
    /\ e \in Live(store.epic)
    /\ p \in store.super \/ SeesEpic(store, p, e)
    /\ store.epic[e].parent = Root
    /\ w \in Open(store) \ {store.epic[e].ws}
    /\ p \in store.super \/ (Admin(store, p, store.epic[e].ws) /\ Admin(store, p, w))
    /\ \A x \in SubtreeIds(store, e) : PrivateHolder(store, x) \in {Nobody, p}
    /\ Commit(p, MovedTo(store, e, w))

Deletable(e) == \A t \in TasksIn(store, SubtreeIds(store, e)) : store.task[t].done

DeleteEpic(p, e) ==
    /\ \A x \in {e} \cup SubtreeIds(store, e) : SeesEpic(store, p, x)
    /\ Deletable(e)
    /\ Commit(p, DeleteEpicSubtree(store, e))

DeleteUnseenEpic(p, e) ==
    /\ p \in store.super
    /\ e \in Live(store.epic)
    /\ EpicIsUnseen(store, e)
    /\ Deletable(e)
    /\ Commit(p, DeleteEpicSubtree(store, e))

----------------------------------------------------------------------------
(* Tasks *)

EntersSeen(p, e) == e = Root \/ SeesEpic(store, p, e)

(* `signal` marks the task for everyone who sees its epic now.             *)
CreateTask(p, t, e, signal) ==
    /\ Fresh(store.task, t)
    /\ EntersSeen(p, e)
    /\ Commit(p, [store EXCEPT
                      !.task[t] = [life |-> "live", epic |-> e, creator |-> p, done |-> FALSE,
                                   owner |-> IF e = Root THEN p ELSE Nobody],
                      !.unseen = @ \cup {m \in Person \X {t} : signal /\ e # Root
                                                                /\ SeesEpic(store, m[1], e)}])

(* Who may take a task to `e`: off its epic onto the caller's board, its   *)
(* creator or an admin; elsewhere, inside its workspace, anyone if it      *)
(* stays private to the same person, else that person or an admin.         *)
MayMoveTask(p, t, e) ==
    LET row == store.task[t]
        ws == store.epic[IF e = Root THEN row.epic ELSE e].ws
        privileged == p \in store.super \/ Admin(store, p, ws)
        before == HolderOfTask(store, t)
    IN  IF e = Root THEN row.creator = p \/ privileged
        ELSE /\ row.epic # Root => store.epic[row.epic].ws = ws
             /\ before \in {PrivateHolder(store, e), p} \/ privileged

(* Links go only with a move between two workspaces, which nobody may      *)
(* make: a task that comes from a user board keeps them.                   *)
MovedTask(s, p, t, e) ==
    LET was == s.task[t].epic
        links == IF Root \notin {was, e} /\ s.epic[was].ws # s.epic[e].ws
                 THEN DropLinksTo(s, {t}).links ELSE s.links
    IN  [s EXCEPT !.task[t].epic = e, !.task[t].owner = IF e = Root THEN p ELSE Nobody,
                  !.unseen = {m \in @ : m[2] # t}, !.links = links]

SetTaskEpic(p, t, e) ==
    /\ SeesTask(store, p, t)
    /\ EntersSeen(p, e)
    /\ e # store.task[t].epic
    /\ MayMoveTask(p, t, e)
    /\ Commit(p, MovedTask(store, p, t, e))

FinishTask(p, t) ==
    /\ SeesTask(store, p, t)
    /\ ~store.task[t].done
    /\ Commit(p, [ClearMarks(store, t) EXCEPT !.task[t].done = TRUE])

DeleteTask(p, t) ==
    /\ SeesTask(store, p, t)
    /\ store.task[t].done
    /\ Commit(p, DeleteTaskRow(store, t))

SetBookmark(p, t, on) ==
    /\ SeesTask(store, p, t)
    /\ on => ~store.task[t].done
    /\ Commit(p, [store EXCEPT !.bookmarks = IF on THEN @ \cup {<<p, t>>} ELSE @ \ {<<p, t>>}])

MarkTaskSeen(p, t) ==
    /\ SeesTask(store, p, t)
    /\ Commit(p, [store EXCEPT !.unseen = @ \ {<<p, t>>}])

----------------------------------------------------------------------------
(* Follows and poll claims *)

SubscribeToEpic(p, e) ==
    /\ SeesEpic(store, p, e)
    /\ Commit(p, [store EXCEPT !.follows = @ \cup {<<p, e>>}])

(* The person's claims go wherever nothing they follow is above any more.  *)
(* A follow may end whose epic is out of sight.                            *)
Unfollowed(s, p, e) ==
    LET rest == [s EXCEPT !.follows = @ \ {<<p, e>>}]
        lost == {x \in SubtreeIds(s, e) : \A y \in Line(s, x) : <<p, y>> \notin rest.follows}
    IN  ReleaseEpicClaims(rest, lost \X {p})

UnsubscribeFromEpic(p, e) ==
    /\ e \in Live(store.epic)
    /\ <<p, e>> \in store.follows
    /\ Commit(p, Unfollowed(store, p, e))

(* The reducer asks for sight, and that a command is its setter's.  What   *)
(* the caller's board lists it does not ask: the board read that, awaited  *)
(* the owners and then spawned the job that claims, and may have           *)
(* unfollowed the epic, or the command been cleared, meanwhile.            *)
MayClaimEpic(p, e) == SeesEpic(store, p, e) /\ store.epic[e].setter \in {Nobody, p}

(* The first claim stands; an override is a person's own act.              *)
ClaimEpicPoll(p, e) ==
    /\ MayClaimEpic(p, e)
    /\ store.epicClaim[e] = Nobody
    /\ Commit(p, [store EXCEPT !.epicClaim[e] = p])

OverrideEpicPoll(p, e) ==
    /\ MayClaimEpic(p, e)
    /\ Commit(p, [store EXCEPT !.epicClaim[e] = p])

ClaimTaskPoll(p, t) ==
    /\ SeesTask(store, p, t)
    /\ store.taskClaim[t] = Nobody
    /\ Commit(p, [store EXCEPT !.taskClaim[t] = p])

OverrideTaskPoll(p, t) ==
    /\ SeesTask(store, p, t)
    /\ Commit(p, [store EXCEPT !.taskClaim[t] = p])

----------------------------------------------------------------------------
(* Work packages *)

CreatePackage(p, k, w, private) ==
    /\ Fresh(store.package, k)
    /\ w \in Open(store) /\ Member(store, p, w)
    /\ Commit(p, [store EXCEPT !.package[k] = [life |-> "live", ws |-> w, private |-> private,
                                               creator |-> p]])

SetPackageVisibility(p, k, private) ==
    /\ SeesPackage(store, p, k)
    /\ MaySetVisibility(store, p, store.package[k].creator, store.package[k].ws)
    /\ Commit(p, [store EXCEPT !.package[k].private = private])

DeletePackage(p, k) ==
    /\ SeesPackage(store, p, k) \/ (p \in store.super /\ k \in Live(store.package)
                                                     /\ PackageIsUnseen(store, k))
    /\ Commit(p, DeletePackageRows(store, k))

SeesItem(p, i) ==
    \/ i \in Epic /\ SeesEpic(store, p, i)
    \/ i \in Task /\ SeesTask(store, p, i)

(* No workspace for a task on a user board.                                *)
ItemWorkspaces(s, i) ==
    IF i \in Epic THEN {s.epic[i].ws}
    ELSE {s.epic[e].ws : e \in {s.task[i].epic} \ {Root}}

MayLink(p, k, i) ==
    /\ SeesPackage(store, p, k)
    /\ SeesItem(p, i)
    /\ ItemWorkspaces(store, i) \subseteq {store.package[k].ws}

LinkItem(p, k, i) ==
    /\ MayLink(p, k, i)
    /\ Commit(p, [store EXCEPT !.links = @ \cup {<<k, i>>}])

UnlinkItem(p, k, i) ==
    /\ SeesPackage(store, p, k)
    /\ SeesItem(p, i)
    /\ Commit(p, [store EXCEPT !.links = @ \ {<<k, i>>}])

----------------------------------------------------------------------------
PeopleStep(p) ==
    \/ "admins" \in ops /\ (ClaimSuperAdmin(p) \/ \E q \in Person : \/ GrantSuperAdmin(p, q)
                                                                     \/ RevokeSuperAdmin(p, q))
    \/ \E w \in Workspace : "workspaces" \in ops /\ (CreateWorkspace(p, w) \/ DeleteWorkspace(p, w))
    \/ \E w \in Workspace, q \in Person :
           \/ "roles" \in ops /\ \E r \in Role \ {"none"} : \/ AddMember(p, w, q, r)
                                                            \/ SetMemberRole(p, w, q, r)
           \/ "members" \in ops /\ (AddMember(p, w, q, "member") \/ RemoveMember(p, w, q))

EpicStep(p) ==
    \E e \in Epic :
        \/ \E d \in Epic \cup {Root}, w \in Workspace, private \in BOOLEAN :
               "epics" \in ops /\ CreateEpic(p, e, d, w, private)
        \/ \E d \in Epic \cup {Root} : "reparent" \in ops /\ Reparent(p, e, d)
        \/ \E private \in BOOLEAN : "flip" \in ops /\ SetEpicVisibility(p, e, private)
        \/ \E w \in Workspace : "carry" \in ops /\ MoveEpicToWorkspace(p, e, w)
        \/ "delete" \in ops /\ DeleteEpic(p, e)
        \/ "hatch" \in ops /\ DeleteUnseenEpic(p, e)
        \/ "follow" \in ops /\ (SubscribeToEpic(p, e) \/ UnsubscribeFromEpic(p, e))
        \/ \E setter \in {p, Nobody} : "feed" \in ops /\ SetFeedCommand(p, e, setter)
        \/ "feed" \in ops /\ (ClaimEpicPoll(p, e) \/ OverrideEpicPoll(p, e))

TaskStep(p) ==
    \E t \in Task :
        \/ \E e \in Epic, signal \in BOOLEAN : "tasks" \in ops /\ CreateTask(p, t, e, signal)
        \/ \E e \in Epic : "move" \in ops /\ SetTaskEpic(p, t, e)
        \/ "board" \in ops /\ (CreateTask(p, t, Root, FALSE) \/ SetTaskEpic(p, t, Root))
        \/ "delete" \in ops /\ (FinishTask(p, t) \/ DeleteTask(p, t))
        \/ "poll" \in ops /\ (ClaimTaskPoll(p, t) \/ OverrideTaskPoll(p, t))
        \/ "marks" \in ops /\ (MarkTaskSeen(p, t) \/ \E on \in BOOLEAN : SetBookmark(p, t, on))

PackageStep(p) ==
    \E k \in Package :
        \/ \E w \in Workspace, private \in BOOLEAN :
               "packages" \in ops /\ CreatePackage(p, k, w, private)
        \/ \E private \in BOOLEAN : "packages" \in ops /\ SetPackageVisibility(p, k, private)
        \/ "packages" \in ops /\ DeletePackage(p, k)
        \/ \E i \in Epic \cup Task : "links" \in ops /\ (LinkItem(p, k, i) \/ UnlinkItem(p, k, i))

Next == \E p \in Person : PeopleStep(p) \/ EpicStep(p) \/ TaskStep(p) \/ PackageStep(p)

----------------------------------------------------------------------------
(* What a store never loses *)

(* Every row is one the store can hold, and a task has an owner exactly    *)
(* when it is in no epic (validate_task_ownership).                        *)
RowsAreWhole(s) ==
    /\ s \in Store
    /\ \A t \in Live(s.task) : (s.task[t].epic = Root) = (s.task[t].owner # Nobody)

(* SubEpicSharesItsParentsWorkspace: creations, re-parentings and moves to *)
(* another workspace never leave part of a tree behind.                    *)
SubEpicSharesItsParentsWorkspace(s) ==
    \A e \in Live(s.epic) : s.epic[e].parent # Root =>
        /\ s.epic[e].parent \in Live(s.epic)
        /\ s.epic[s.epic[e].parent].ws = s.epic[e].ws

(* DeleteWorkspace against every call that puts work into a workspace:     *)
(* there is always one, so somebody can always be made to see the work.    *)
NothingIsStranded(s) ==
    /\ \A e \in Live(s.epic) : s.epic[e].ws \in Open(s)
    /\ \A k \in Live(s.package) : s.package[k].ws \in Open(s)

(* ClaimsFollowSight, epics: whatever takes an epic out of a person's      *)
(* sight takes their host's claim too, or its feed is run by nobody.       *)
EpicClaimsFollowSight(s) ==
    \A e \in Live(s.epic) : s.epicClaim[e] # Nobody => SeesEpic(s, s.epicClaim[e], e)

(* ClaimsFollowSight, tasks.                                               *)
TaskClaimsFollowSight(s) ==
    \A t \in Live(s.task) : s.taskClaim[t] # Nobody => SeesTask(s, s.taskClaim[t], t)

(* FeedCommandRunsOnSettersHost: the host that holds a feed's claim, and   *)
(* so runs its command, is that of whoever set the command.  A claim made  *)
(* while there was none goes when another person sets one.                 *)
CommandsRunOnTheirSettersHost(s) ==
    \A e \in Live(s.epic) : s.epic[e].setter # Nobody => s.epicClaim[e] \in {Nobody, s.epic[e].setter}

(* RemoveMember and MoveEpicToWorkspace: nobody follows an epic of a       *)
(* workspace they are not in, so a person added again starts afresh.       *)
FollowsStayInside(s) ==
    \A f \in s.follows : f[2] \in Live(s.epic) => Member(s, f[1], s.epic[f[2]].ws)

(* The same for the marks on new tasks.                                    *)
UnseenMarksStayInside(s) ==
    \A m \in s.unseen :
        /\ m[2] \in Live(s.task)
        /\ s.task[m[2]].epic # Root
        /\ Member(s, m[1], s.epic[s.task[m[2]].epic].ws)

(* Links are between rows that exist.                                      *)
LinksAreBetweenRows(s) ==
    \A l \in s.links : l[1] \in Live(s.package) /\ l[2] \in Live(s.epic) \cup Live(s.task)

(* LinkedItemsShareThePackagesWorkspace.                                   *)
LinkedItemsShareThePackagesWorkspace(s, items) ==
    \A l \in s.links : l[2] \in items =>
        ItemWorkspaces(s, l[2]) \subseteq {s.package[l[1]].ws}

(* A tree has no cycle, a task that is there is in an epic that is there,  *)
(* and nothing hangs on a row that was never made.                         *)
NoCycles(s) ==
    \A e \in Live(s.epic) : s.epic[e].parent # Root => e \notin Line(s, s.epic[e].parent)

TasksAreFiled(s) == \A t \in Live(s.task) : s.task[t].epic \in Live(s.epic) \cup {Root}

FreshRowsAreBare(s) ==
    /\ \A e \in Epic : Fresh(s.epic, e) => s.epicClaim[e] = Nobody
    /\ \A f \in s.follows : ~Fresh(s.epic, f[2])
    /\ \A t \in Task : Fresh(s.task, t) => s.taskClaim[t] = Nobody

NoUserBoards(s) == \A t \in Live(s.task) : s.task[t].epic # Root

(* Whoever made an epic private saw the one it is under: so it was until   *)
(* an epic is flipped or moved.                                            *)
HoldersNest(s) ==
    \A e \in Live(s.epic) : s.epic[e].private /\ s.epic[e].parent # Root =>
        PrivateHolder(s, s.epic[e].parent) \in {Nobody, s.epic[e].creator}

(* A task keeps the claim of whoever loses it with its move, and one that  *)
(* passed over a user board its links.                                     *)
TasksMove(o) == o \cap {"move", "board"} # {}
TreesChange(o) == o \cap {"flip", "reparent"} # {}
LinkedItems(o) == IF "board" \in o THEN Epic ELSE Epic \cup Task

Sound(s, o) ==
    /\ RowsAreWhole(s)
    /\ NoCycles(s)
    /\ TasksAreFiled(s)
    /\ FreshRowsAreBare(s)
    /\ SubEpicSharesItsParentsWorkspace(s)
    /\ NothingIsStranded(s)
    /\ EpicClaimsFollowSight(s)
    /\ CommandsRunOnTheirSettersHost(s)
    /\ FollowsStayInside(s)
    /\ UnseenMarksStayInside(s)
    /\ LinksAreBetweenRows(s)
    /\ LinkedItemsShareThePackagesWorkspace(s, LinkedItems(o))
    /\ "board" \notin o => NoUserBoards(s)
    /\ ~TasksMove(o) => TaskClaimsFollowSight(s)
    /\ ~TreesChange(o) => HoldersNest(s)

(* A behaviour may start from any store the calls can have left.           *)
ASSUME StartsAssumption == \A c \in Starts : Sound(c.store, c.ops)

Init ==
    /\ \E c \in Starts : store = c.store /\ ops = c.ops
    /\ taker = Nobody

Spec == Init /\ [][Next]_vars

----------------------------------------------------------------------------
(* Properties *)

(* The types, and the rows as validate_task_ownership wants them.          *)
TypeOK == RowsAreWhole(store) /\ taker \in Person \cup {Nobody}

(* ClaimsFollowSight: whatever takes an epic or a task out of a person's   *)
(* sight - a removal, a flip or re-parenting of an epic above it, a move   *)
(* to another workspace - takes their host's claim of its poll too, and a  *)
(* feed runs on the host of whoever set it.                                *)
ClaimsFollowSight ==
    /\ EpicClaimsFollowSight(store)
    /\ CommandsRunOnTheirSettersHost(store)
    /\ ~TasksMove(ops) => TaskClaimsFollowSight(store)

(* No call on one of two related rows leaves the other behind in another   *)
(* workspace, or in none: sub-epics, follows, marks on new tasks and       *)
(* package links keep to the workspace of what they hang on, and every     *)
(* epic and package is in a workspace that exists.                         *)
NothingPointsAcross ==
    /\ TypeOK
    /\ NothingIsStranded(store)
    /\ SubEpicSharesItsParentsWorkspace(store)
    /\ FollowsStayInside(store)
    /\ UnseenMarksStayInside(store)
    /\ LinksAreBetweenRows(store)
    /\ LinkedItemsShareThePackagesWorkspace(store, LinkedItems(ops))

(* AtLeastOneSuperAdminOnceClaimed.                                        *)
KeepsASuperAdmin == store.super # {} => store'.super # {}

(* Work that is private to a person stops being so - becomes public or     *)
(* private to another - only by a call of that person, whatever is done to *)
(* the epics above it and whoever administers the workspace.               *)
ExposesOnlyTheTakersWork ==
    /\ \A e \in Live(store.epic) \cap Live(store'.epic) :
           ~KeepsEpic(store, store', e) => taker' = PrivateHolder(store, e)
    /\ \A t \in Live(store.task) \cap Live(store'.task) :
           ~KeepsTask(store, store', t) => taker' = HolderOfTask(store, t)

(* A private epic goes with an epic above it only when its holder deletes  *)
(* it, or has left the workspace so that nobody can see it.                *)
DeletesOnlyTheTakersWork ==
    \A e \in Live(store.epic) : store'.epic[e].life = "deleted" =>
        \/ PrivateHolder(store, e) \in {Nobody, taker'}
        \/ ~Member(store, PrivateHolder(store, e), store.epic[e].ws)

(* Private work is exposed, and is deleted with what is above it, by its   *)
(* holder alone - the deletes of what nobody sees go by the root of a tree *)
(* - and once there is a super admin there always is.                      *)
HoldersDecide ==
    [][/\ KeepsASuperAdmin
       /\ ExposesOnlyTheTakersWork
       /\ "hatch" \notin ops \/ ~TreesChange(ops) => DeletesOnlyTheTakersWork]_vars
=============================================================================
