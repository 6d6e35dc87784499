----------------------------- MODULE FinishTask -----------------------------
(***************************************************************************)
(* The git half of a wrap-up with action rebase (src/src/dispatch/         *)
(* finish.rs): a host's board serves the wrap-ups of the tasks of one      *)
(* repository, each on a task of its own, so their steps interleave in one *)
(* primary checkout.  Every git command is one step.  People use that      *)
(* checkout too, teammates push, the deadline of a row passes and the      *)
(* board crashes between any two steps.                                    *)
(*                                                                         *)
(* A branch is the set of its commits: the work of task t is the commit t, *)
(* a teammate's push is a member of Push.  Only the base branch ever joins *)
(* two lines of work, so "is an ancestor of" is set inclusion.             *)
(*                                                                         *)
(* The request row is taken from SessionRequests with its claim, backstop  *)
(* and report; its token is the row's state "done".                        *)
(***************************************************************************)
EXTENDS FiniteSets

CONSTANTS
    Task,       \* tasks with a worktree in the repository
    Push,       \* commits teammates push to origin
    Person,     \* whoever else uses the primary checkout
    Nobody,
    Events      \* which outside events a run allows

ASSUME FinishTaskAssumption == Person # Nobody /\ {Person, Nobody} \cap Task = {}

VARIABLES
    tip,        \* the commits of the base branch and of the branch a person made
    head,       \* the branch the primary checkout is on
    merge,      \* whose unfinished merge the primary checkout is in
    origin,     \* the commits of origin's base branch
    branch,     \* the commits of each task's branch
    worktree,   \* the state of each task's worktree
    row,        \* the wrap-up request of each task
    late,       \* tasks whose row is past its deadline
    step,       \* how far the host is with each task
    quiet       \* no outside event happens any more

finishVars == <<tip, head, merge, origin, branch, worktree, row, late, step, quiet>>
primary == <<tip, head, merge>>
rowVars == <<row, late>>

Commit == Task \cup Push
AttemptStep == {"check", "pull", "abort pull", "rebase", "abort rebase",
                "abort conflict", "fast forward", "rebased", "failed", "conflict"}

FinishInit ==
    /\ tip = [b \in {"base", "other"} |-> {}]
    /\ head = "base"
    /\ merge = Nobody
    /\ origin = {}
    /\ branch = [t \in Task |-> {t}]
    /\ worktree = [t \in Task |-> "clean"]
    /\ row = [t \in Task |-> "none"]
    /\ late = {}
    /\ step = [t \in Task |-> "idle"]
    /\ quiet = FALSE

Serving(t) == step[t] # "idle"
Goto(t, s) == step' = [step EXCEPT ![t] = s]

(***************************************************************************)
(* The agent and the row.                                                  *)
(***************************************************************************)
(* The agent asks, and its host's board takes the row up.  Uncommitted      *)
(* changes, which a rebase stopped at a conflict is, are refused.           *)
RequestWrapUp(t) ==
    /\ row[t] \notin {"running", "done"}
    /\ ~Serving(t)
    /\ worktree[t] # "conflicted"
    /\ row' = [row EXCEPT ![t] = "running"]
    /\ late' = late \ {t}
    /\ Goto(t, "check")
    /\ UNCHANGED <<primary, origin, branch, worktree, quiet>>

DeadlinePasses(t) ==
    /\ "deadline" \in Events /\ ~quiet
    /\ row[t] = "running" /\ t \notin late
    /\ late' = late \cup {t}
    /\ UNCHANGED <<primary, origin, branch, worktree, row, step, quiet>>

Backstop(t) ==
    /\ row[t] = "running" /\ t \in late
    /\ row' = [row EXCEPT ![t] = "failed"]
    /\ UNCHANGED <<primary, origin, branch, worktree, late, step, quiet>>

(* The store takes a done report only in time, and any report only of a row *)
(* that is still running; a refused done report is followed by a failure.   *)
Reported(t) ==
    CASE row[t] # "running" -> row[t]
      [] step[t] = "rebased" -> IF t \in late THEN "failed" ELSE "done"
      [] OTHER -> step[t]

ReportRebase(t) ==
    /\ step[t] \in {"rebased", "failed", "conflict"}
    /\ row' = [row EXCEPT ![t] = Reported(t)]
    /\ Goto(t, "idle")
    /\ UNCHANGED <<primary, origin, branch, worktree, late, quiet>>

(* The agent, told to resolve and try again or refused for a conflict left  *)
(* in its worktree, rebases its branch by itself.                           *)
Resolve(t) ==
    /\ row[t] = "conflict" \/ (row[t] = "failed" /\ worktree[t] = "conflicted")
    /\ ~Serving(t)
    /\ branch' = [branch EXCEPT ![t] = @ \cup tip["base"]]
    /\ worktree' = [worktree EXCEPT ![t] = "clean"]
    /\ UNCHANGED <<primary, origin, rowVars, step, quiet>>

(***************************************************************************)
(* The attempt (finish_task_with_abort_runner).  A command does not start  *)
(* past the deadline and is killed at it; an abort is exempt.              *)
(***************************************************************************)
PrimaryClean == merge = Nobody

CheckPrimaryWorktree(t) ==
    /\ step[t] = "check"
    /\ Goto(t, IF t \notin late /\ head = "base" /\ PrimaryClean THEN "pull" ELSE "failed")
    /\ UNCHANGED <<primary, origin, branch, worktree, rowVars, quiet>>

Diverged == ~(origin \subseteq tip[head]) /\ ~(tip[head] \subseteq origin)

PullSucceeds(t) ==
    /\ t \notin late /\ merge = Nobody
    /\ tip' = [tip EXCEPT ![head] = @ \cup origin]
    /\ Goto(t, "rebase")
    /\ UNCHANGED merge

(* No command ran, git refused, the network failed, or a merge of the two   *)
(* lines stopped at a conflict or was killed.                               *)
PullFails(t) ==
    /\ \/ t \in late
       \/ merge # Nobody
       \/ "pull fails" \in Events /\ ~quiet
       \/ Diverged
    /\ merge' = IF Diverged /\ merge = Nobody /\ t \notin late THEN t ELSE merge
    /\ Goto(t, "abort pull")
    /\ UNCHANGED tip

(* The probe for a remote does not start past the deadline either.         *)
PullIsNotTried(t) ==
    /\ t \in late
    /\ Goto(t, "failed")
    /\ UNCHANGED <<tip, merge>>

PullBase(t) ==
    /\ step[t] = "pull"
    /\ PullSucceeds(t) \/ PullFails(t) \/ PullIsNotTried(t)
    /\ UNCHANGED <<head, origin, branch, worktree, rowVars, quiet>>

(* MERGE_HEAD is probed and whatever merge is in progress is aborted.       *)
AbortMergeIfInProgress(t) ==
    /\ step[t] = "abort pull"
    /\ merge' = Nobody
    /\ Goto(t, "failed")
    /\ UNCHANGED <<tip, head, origin, branch, worktree, rowVars, quiet>>

RebaseSucceeds(t) ==
    /\ t \notin late /\ worktree[t] = "clean"
    /\ branch' = [branch EXCEPT ![t] = @ \cup tip["base"]]
    /\ Goto(t, "fast forward")
    /\ UNCHANGED worktree

RebaseConflicts(t) ==
    /\ t \notin late /\ worktree[t] = "clean"
    /\ ~(tip["base"] \subseteq branch[t])
    /\ worktree' = [worktree EXCEPT ![t] = "conflicted"]
    /\ Goto(t, "abort conflict")
    /\ UNCHANGED branch

(* Not started, refused because an earlier rebase is unfinished, or killed. *)
RebaseFails(t) ==
    /\ \/ (t \in late \/ worktree[t] # "clean") /\ UNCHANGED worktree
       \/ /\ "deadline" \in Events /\ ~quiet /\ t \notin late
          /\ worktree' = [worktree EXCEPT ![t] = "stopped"]
    /\ Goto(t, "abort rebase")
    /\ UNCHANGED branch

RebaseBranch(t) ==
    /\ step[t] = "rebase"
    /\ RebaseSucceeds(t) \/ RebaseConflicts(t) \/ RebaseFails(t)
    /\ UNCHANGED <<primary, origin, rowVars, quiet>>

(* The faulty form that aborts only a rebase that stopped at a conflict.   *)
AbortConflictsOnly(t) ==
    /\ step[t] \in {"abort rebase", "abort conflict"}
    /\ worktree' = [worktree EXCEPT ![t] = IF step[t] = "abort rebase" THEN @ ELSE "clean"]
    /\ Goto(t, IF step[t] = "abort conflict" THEN "conflict" ELSE "failed")
    /\ UNCHANGED <<primary, origin, branch, rowVars, quiet>>

AbortRebase(t) ==
    /\ step[t] \in {"abort rebase", "abort conflict"}
    /\ \/ worktree' = [worktree EXCEPT ![t] = "clean"]
       \/ "abort fails" \in Events /\ ~quiet /\ UNCHANGED worktree
    /\ Goto(t, IF step[t] = "abort conflict" THEN "conflict" ELSE "failed")
    /\ UNCHANGED <<primary, origin, branch, rowVars, quiet>>

(* git merge --ff-only, on whatever branch is checked out.                  *)
MayFastForward(t) ==
    t \notin late /\ merge = Nobody /\ tip[head] \subseteq branch[t]

(* The faulty form that does not read how the fast-forward ended.          *)
FastForwardUnread(t) ==
    /\ step[t] = "fast forward"
    /\ tip' = IF MayFastForward(t) THEN [tip EXCEPT ![head] = branch[t]] ELSE tip
    /\ Goto(t, "rebased")
    /\ UNCHANGED <<head, merge, origin, branch, worktree, rowVars, quiet>>

FastForwardBase(t) ==
    /\ step[t] = "fast forward"
    /\ \/ /\ MayFastForward(t)
          /\ tip' = [tip EXCEPT ![head] = branch[t]]
          /\ Goto(t, "rebased")
       \/ /\ ~MayFastForward(t) \/ ("deadline" \in Events /\ ~quiet)
          /\ UNCHANGED tip
          /\ Goto(t, "failed")
    /\ UNCHANGED <<head, merge, origin, branch, worktree, rowVars, quiet>>

(***************************************************************************)
(* A board that dies leaves git where it was; the next one fails the rows  *)
(* it finds running.                                                       *)
(***************************************************************************)
Crash ==
    /\ "crash" \in Events /\ ~quiet
    /\ step' = [t \in Task |-> "idle"]
    /\ row' = [t \in Task |-> IF row[t] = "running" THEN "failed" ELSE row[t]]
    /\ UNCHANGED <<primary, origin, branch, worktree, late, quiet>>

(***************************************************************************)
(* People.                                                                 *)
(***************************************************************************)

(* A person makes a branch of their own off the base, or comes back.        *)
CheckOut ==
    /\ ~quiet
    /\ \/ "check out" \in Events
       \/ "check out between" \in Events /\ \A t \in Task : step[t] \in {"idle", "check"}
    /\ merge = Nobody
    /\ \/ head = "base" /\ head' = "other" /\ tip' = [tip EXCEPT !["other"] = tip["base"]]
       \/ head = "other" /\ head' = "base" /\ UNCHANGED tip
    /\ UNCHANGED <<merge, origin, branch, worktree, rowVars, step, quiet>>

PersonMerges ==
    /\ "merge" \in Events /\ ~quiet
    /\ merge = Nobody
    /\ merge' = Person
    /\ UNCHANGED <<tip, head, origin, branch, worktree, rowVars, step, quiet>>

(* Also of a merge a dead board or a failed attempt left behind.            *)
PersonConcludes ==
    /\ merge # Nobody
    /\ merge \in Task => ~Serving(merge)
    /\ merge' = Nobody
    /\ UNCHANGED <<tip, head, origin, branch, worktree, rowVars, step, quiet>>

TeammatePushes ==
    /\ ~quiet
    /\ \E c \in Push \ origin : origin' = origin \cup {c}
    /\ UNCHANGED <<primary, branch, worktree, rowVars, step, quiet>>

PersonPushes ==
    /\ ~quiet
    /\ origin \subseteq tip["base"] /\ origin # tip["base"]
    /\ origin' = tip["base"]
    /\ UNCHANGED <<primary, branch, worktree, rowVars, step, quiet>>

(* The outside events end with the primary checkout on the base branch, out *)
(* of any merge and level with origin.                                      *)
FallQuiet ==
    /\ ~quiet
    /\ quiet' = TRUE
    /\ head' = "base" /\ merge' = Nobody
    /\ tip' = [tip EXCEPT !["base"] = @ \cup origin]
    /\ UNCHANGED <<origin, branch, worktree, rowVars, step>>

HostStep(t) ==
    \/ CheckPrimaryWorktree(t) \/ PullBase(t) \/ AbortMergeIfInProgress(t)
    \/ RebaseBranch(t) \/ AbortRebase(t) \/ FastForwardBase(t) \/ ReportRebase(t)

PersonStep ==
    CheckOut \/ PersonMerges \/ PersonConcludes \/ TeammatePushes \/ PersonPushes \/ FallQuiet

FinishNext ==
    \/ \E t \in Task :
        \/ RequestWrapUp(t) \/ Resolve(t) \/ DeadlinePasses(t) \/ Backstop(t)
        \/ HostStep(t)
    \/ PersonStep
    \/ Crash

FinishSpec == FinishInit /\ [][FinishNext]_finishVars

(* A live board works through what it took up, an agent asks again until its *)
(* work has landed, and one that is told so often resolves its conflict.    *)
FinishFairness ==
    \A t \in Task :
        /\ WF_finishVars(HostStep(t))
        /\ WF_finishVars(RequestWrapUp(t))
        /\ SF_finishVars(Resolve(t))

FinishFairSpec == FinishSpec /\ FinishFairness

-----------------------------------------------------------------------------
FinishTypeOK ==
    /\ tip \in [{"base", "other"} -> SUBSET Commit]
    /\ head \in {"base", "other"}
    /\ merge \in Task \cup {Person, Nobody}
    /\ origin \subseteq Commit
    /\ branch \in [Task -> SUBSET Commit]
    /\ worktree \in [Task -> {"clean", "stopped", "conflicted"}]
    /\ row \in [Task -> {"none", "running", "done", "failed", "conflict"}]
    /\ late \subseteq Task
    /\ step \in [Task -> {"idle"} \cup AttemptStep]
    /\ quiet \in BOOLEAN

(* A task whose wrap-up is done, whose agent therefore holds the token that *)
(* closes the session, has all of its branch on the base branch: whatever   *)
(* other wrap-ups, pulls and pushes ran between its check and its           *)
(* fast-forward (finish_task_with_abort_runner, report_rebase_done).        *)
ReportedMeansLanded == \A t \in Task : row[t] = "done" => branch[t] \subseteq tip["base"]

(* The host leaves neither a merge in the primary checkout nor a rebase in  *)
(* the worktree when it is done with an attempt, however the attempt ended and *)
(* although the deadline stops everything but the aborts.                   *)
HostLeavesGitClean ==
    \A t \in Task : Serving(t) \/ (merge # t /\ worktree[t] = "clean")

(* Wrap-ups that race in one checkout end with git as they found it, and   *)
(* one that is reported done has landed. The first does not survive a      *)
(* crash or an abort that fails, the second a person who changes branches  *)
(* in the middle.                                                          *)
WrapUpsAreClean ==
    /\ "check out" \notin Events => ReportedMeansLanded
    /\ {"crash", "abort fails"} \cap Events = {} => HostLeavesGitClean

(* A merge a person has in progress in the primary checkout ends by that    *)
(* person: a wrap-up whose pull fails does not abort it.                    *)
PersonsMergeIsKept == [][merge = Person /\ merge' # Person => UNCHANGED step]_finishVars

(* Wrap-ups that compete for one base branch do not starve each other, and  *)
(* neither a crash nor a kill in the middle leaves a worktree no later wrap-up *)
(* gets past: once people leave the checkout alone every task's work lands. *)
Landed(t) == row[t] = "done"
=============================================================================
