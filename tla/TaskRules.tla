------------------------------ MODULE TaskRules ------------------------------
(***************************************************************************)
(* The pure rules of the store module over one Task row, one epic row and  *)
(* one agent row: what a claim, a release, a provisioned worktree, a       *)
(* failed launch, a status write or a close does to the row it is given.   *)
(* Every reducer modelled in this project is built from these.             *)
(*                                                                         *)
(* A row keeps the fields some rule reads.  `due` abstracts next_due read  *)
(* against the store's clock: "none" is no pending run, "ahead" one that   *)
(* is still to come, "due" one whose minute has passed.                    *)
(***************************************************************************)

CONSTANTS
    Task,       \* task ids
    Host,       \* host ids (machines)
    User,       \* caller identities
    Epic,       \* epic ids
    Worktree,   \* worktree paths
    Window,     \* tmux window names
    None,       \* the store's absent value ("" or 0)
    EpicOf,     \* the epic a task is filed in, None for a user board
    Parent      \* the parent of an epic, None for a root

(* The forest of epics is at most two levels deep here: the chain walk of  *)
(* recalculate_epic_chain is unrolled twice (see EpicTree in README).      *)
ASSUME TaskRulesAssumption ==
    /\ None \notin Task \cup Host \cup User \cup Epic \cup Worktree \cup Window
    /\ EpicOf \in [Task -> Epic \cup {None}]
    /\ Parent \in [Epic -> Epic \cup {None}]
    /\ \A e \in Epic : Parent[e] # None => Parent[Parent[e]] = None

Status == {"backlog", "running", "review", "done"}

(* A task id is "unborn" until a create draws it and "deleted" for good    *)
(* once its row is gone: generated ids are never drawn twice.              *)
TaskRow == [status : Status \cup {"unborn", "deleted"},
            worktree : Worktree \cup {None},
            host : Host \cup {None},
            schedule : BOOLEAN,
            due : {"none", "ahead", "due"},
            phoenix : BOOLEAN]

BlankTask == [status |-> "unborn", worktree |-> None, host |-> None,
              schedule |-> FALSE, due |-> "none", phoenix |-> FALSE]

DeletedTask == [BlankTask EXCEPT !.status = "deleted"]

Exists(row) == row.status \in Status

----------------------------------------------------------------------------
(* The claim and its release *)

ClaimableBy(row, h) == row.host \in {None, h}

IsBareClaim(row) == row.status = "running" /\ row.worktree = None

ClaimedTask(row) == [row EXCEPT !.status = "running"]

ReleasedTask(row) == [row EXCEPT !.status = "backlog"]

(* Faulty: worktree and host swapped. *)
DispatchedTaskSwapped(row, w, h) ==
    [row EXCEPT !.worktree = h, !.host = w, !.due = "none"]

DispatchedTask(row, w, h) ==
    [row EXCEPT !.worktree = w, !.host = h, !.due = "none"]

----------------------------------------------------------------------------
(* Schedules *)

ArmedTask(row) == [row EXCEPT !.due = IF row.schedule THEN "ahead" ELSE "none"]

(* What a failed launch of a scheduled task leaves: a one-off is disarmed, *)
(* a phoenix task waits for its next match.                                *)
ScheduleAfterFailedLaunch(row, origin) ==
    IF origin = "schedule" /\ row.schedule
    THEN [row EXCEPT !.due = IF row.phoenix THEN "ahead" ELSE "none"]
    ELSE row

(* Faulty: the failed launch keeps its claim. *)
TaskKeepsItsClaim(row, origin) ==
    IF row.status = "backlog" THEN ScheduleAfterFailedLaunch(row, origin) ELSE row

(* Faulty: whatever runs is released, a task with a worktree too.          *)
RunningTaskIsReleased(row, origin) ==
    LET base == IF row.status = "running" THEN ReleasedTask(row) ELSE row
    IN  IF base.status = "backlog"
        THEN ScheduleAfterFailedLaunch(base, origin)
        ELSE base

TaskAfterFailedRequest(row, origin) ==
    LET base == IF IsBareClaim(row) THEN ReleasedTask(row) ELSE row
    IN  IF base.status = "backlog"
        THEN ScheduleAfterFailedLaunch(base, origin)
        ELSE base

(* A hand status write from status `prior`.  Faulty first: leaving backlog *)
(* by hand cancels nothing.                                                *)
CancelsOnlyPastBacklog(prior, row) ==
    \/ row.status = "done"
    \/ prior = "running" /\ row.status # "running"

CancelsPendingRun(prior, row) ==
    \/ prior = "backlog" /\ row.status # "backlog"
    \/ row.status = "done"
    \/ prior = "running" /\ row.status # "running"

ReArms(prior, row) ==
    /\ prior # "backlog"
    /\ row.status = "backlog"
    /\ row.phoenix
    /\ row.schedule

ScheduleAfterStatusWrite(prior, row) ==
    [row EXCEPT !.due = IF ReArms(prior, row) THEN "ahead"
                        ELSE IF CancelsPendingRun(prior, row) THEN "none"
                        ELSE @]

(* SetSchedule and ClearSchedule.  A schedule is only taken by a backlog   *)
(* task or a phoenix one.                                                  *)
MayTakeSchedule(row) == row.status = "backlog" \/ row.phoenix

ApplySchedule(row, on) ==
    [row EXCEPT !.schedule = on,
                !.due = IF on /\ row.status = "backlog" THEN "ahead" ELSE "none"]

----------------------------------------------------------------------------
(* Closing and respawning *)

DoneTask(row) == [row EXCEPT !.status = "done", !.due = "none"]

ShouldRespawnPhoenix(prior, row) ==
    row.status = "done" /\ prior # "done" /\ row.phoenix

PhoenixSuccessor(row) ==
    ArmedTask([BlankTask EXCEPT !.status = "backlog",
                                !.phoenix = TRUE,
                                !.schedule = row.schedule])

----------------------------------------------------------------------------
(* The current agent of a task.  An ended agent holds nothing and no rule  *)
(* reads it again, so ending one is becoming NoAgent.                      *)

AgentRow == [current : BOOLEAN,
             host : Host \cup {None},
             window : Window \cup {None}]

NoAgent == [current |-> FALSE, host |-> None, window |-> None]

(* Faulty: an agent with no host. *)
NewAgentWithoutHost(h) == [current |-> TRUE, host |-> None, window |-> None]

NewAgent(h) == [current |-> TRUE, host |-> h, window |-> None]

WithWindow(ag, w) == IF ag.current THEN [ag EXCEPT !.window = w] ELSE ag

FollowTaskWrite(ag, prior, row) ==
    IF prior.worktree # None /\ row.worktree = None THEN NoAgent ELSE ag

----------------------------------------------------------------------------
(* The epic status rollup *)

DeriveEpicStatus(current, children) ==
    IF children = {} THEN current
    ELSE IF children = {"done"} THEN "done"
    ELSE IF current = "done" THEN "backlog"
    ELSE current

TasksIn(ts, e) == {t \in Task : EpicOf[t] = e /\ Exists(ts[t])}

SubEpics(e) == {c \in Epic : Parent[c] = e}

ChildStatuses(ts, es, e) ==
    {ts[t].status : t \in TasksIn(ts, e)} \cup {es[c] : c \in SubEpics(e)}

Recalculated(ts, es, E) ==
    [e \in Epic |-> IF e \in E
                    THEN DeriveEpicStatus(es[e], ChildStatuses(ts, es, e))
                    ELSE es[e]]

ParentsOf(E) == {Parent[e] : e \in E \cap Epic}

(* Each epic of E, then its parent: two rounds of the chain's loop.  The   *)
(* faulty form stops after the first.                                      *)
RecalculatedOnce(ts, es, E) == Recalculated(ts, es, E)

RecalculatedChains(ts, es, E) ==
    Recalculated(ts, Recalculated(ts, es, E), ParentsOf(E))

============================================================================
