------------------------------ MODULE DispatchHost ------------------------------
(***************************************************************************)
(* The host side of a dispatch: a board serves the request rows that name  *)
(* its machine.  It claims a row, makes a worktree and a tmux window, and  *)
(* reports, or rolls back what it made and reports the failure.  Between   *)
(* any two of these steps every reducer of DispatchRequests may run, and   *)
(* so may the board's other attempts; the board itself may be restarted,   *)
(* and what it has on disk and in tmux outlives it.                        *)
(*                                                                         *)
(* A call to the store either is a step of DispatchRequests or changes no  *)
(* store variable (it was refused, or never arrived).                      *)
(***************************************************************************)
EXTENDS DispatchRequests

CONSTANTS
    OwnerOf,   \* the identity a host's board connects with
    PathOf,    \* worktree_paths(task): the worktree's path
    WindowOf,  \* worktree_paths(task): the window's name
    Settings   \* the surroundings to check, one of them for each behaviour

(* Both names are made from the task's id: <id>-<slug> and task-<id>.      *)
ASSUME HostAssumption ==
    /\ OwnerOf \in [Host -> User]
    /\ PathOf \in [Task -> Worktree]
    /\ WindowOf \in [Task -> Window]
    /\ \A s, t \in Task : PathOf[s] = PathOf[t] \/ WindowOf[s] = WindowOf[t] => s = t
    /\ Settings \subseteq [faults : SUBSET {"crash", "killed", "lost", "teardown"},
                          prompt : BOOLEAN]

VARIABLES
    board,    \* whether a host's board serves rows or has yet to recover
    attempt,  \* the board's attempt at each row it was handed
    trees,    \* the worktrees on each host's disk
    windows,  \* the live tmux windows of each host: a name, and who opened it
    setting   \* the surroundings of this behaviour

hostVars == <<board, attempt, trees, windows>>
vars == <<storeVars, hostVars, setting>>

Faults == setting.faults  \* what may go wrong around the boards
Prompt == setting.prompt  \* a live board ends an attempt before its task is taken again

(* Where an attempt is.  It rests in "idle" (not handed out), "refused"    *)
(* (its claim was), "kept" (ServedDispatch::Dispatched) and "failed"       *)
(* (ServedDispatch::Failed).                                               *)
Resting == {"idle", "refused", "kept", "failed"}
Stage == Resting \cup {"claiming", "claimed", "measured", "treed", "cleared", "opened",
                       "launched", "repeating", "killing", "removing", "failing"}

(* `age` is the row's age on the board's clock, up to the deadline.        *)
AttemptRow == [at : Stage, task : Task \cup {None}, host : Host \cup {None},
               age : 0 .. Deadline, reuses : BOOLEAN]

NoAttempt == [at |-> "idle", task |-> None, host |-> None, age |-> 0, reuses |-> FALSE]

Serving(r) == attempt[r].at \notin Resting
Working(r) == Serving(r) /\ attempt[r].at # "claiming"
Provisioning(r) == Working(r) /\ attempt[r].at \notin {"claimed", "failing"}
InTime(r) == attempt[r].age < Deadline

At(r, stage) == attempt' = [attempt EXCEPT ![r].at = stage]

Owner(r) == OwnerOf[attempt[r].host]
Path(r) == PathOf[attempt[r].task]

Name(r) == WindowOf[attempt[r].task]
Disk(r) == trees[attempt[r].host]
Tmux(r) == windows[attempt[r].host]
Named(r) == {w \in Tmux(r) : w[1] = Name(r)}

----------------------------------------------------------------------------
(* Claiming a delivered row *)

(* DispatchRequestObserver::observe, and serve_rows' check of who asked. *)
Observe(r) ==
    LET h == request[r].host
    IN  /\ request[r].state = "requested"
        /\ board[h] = "up"
        /\ request[r].by = OwnerOf[h]
        /\ attempt[r].at = "idle"
        /\ attempt' = [attempt EXCEPT ![r] =
                         [NoAttempt EXCEPT !.at = "claiming", !.task = request[r].task,
                                           !.host = h,
                                           !.age = IF request[r].age < Deadline
                                                   THEN request[r].age ELSE Deadline]]
        /\ UNCHANGED <<storeVars, board, trees, windows>>

ClaimAccepted(r) ==
    /\ attempt[r].at = "claiming"
    /\ ClaimDispatchRequest(Owner(r), r)
    /\ At(r, "claimed")
    /\ UNCHANGED <<board, trees, windows>>

ClaimRefused(r) ==
    /\ attempt[r].at = "claiming"
    /\ request[r].state # "requested"
    /\ At(r, "refused")
    /\ UNCHANGED <<storeVars, board, trees, windows>>

(* No answer, whether the claim landed or not: the row is released, to be  *)
(* handed out again while it is still requested.  Faulty first: it is      *)
(* served as if it had been accepted.                                      *)
ClaimNotSentServed(r) ==
    /\ "lost" \in Faults
    /\ attempt[r].at = "claiming"
    /\ At(r, "claimed")
    /\ UNCHANGED <<storeVars, board, trees, windows>>

ClaimNotSent(r) ==
    /\ "lost" \in Faults
    /\ attempt[r].at = "claiming"
    /\ ClaimDispatchRequest(Owner(r), r) \/ UNCHANGED storeVars
    /\ attempt' = [attempt EXCEPT ![r] = NoAttempt]
    /\ UNCHANGED <<board, trees, windows>>

----------------------------------------------------------------------------
(* Provisioning.  DeadlineRunner starts no subprocess at or past the       *)
(* deadline; any step may fail.                                            *)

(* The deadline has passed, the task is gone, or preparing inputs failed. *)
GiveUp(r) ==
    /\ attempt[r].at = "claimed"
    /\ At(r, "failing")
    /\ UNCHANGED <<storeVars, board, trees, windows>>

(* Fresh or reused is decided here, before the fetch. *)
Measure(r) ==
    /\ attempt[r].at = "claimed"
    /\ InTime(r)
    /\ attempt' = [attempt EXCEPT ![r].at = "measured", ![r].reuses = Path(r) \in Disk(r)]
    /\ UNCHANGED <<storeVars, board, trees, windows>>

ReuseWorktree(r) ==
    /\ attempt[r].at = "measured"
    /\ attempt[r].reuses
    /\ At(r, "treed")
    /\ UNCHANGED <<storeVars, board, trees, windows>>

AddWorktree(r) ==
    /\ attempt[r].at = "measured"
    /\ ~attempt[r].reuses
    /\ InTime(r)
    /\ Path(r) \notin Disk(r)
    /\ trees' = [trees EXCEPT ![attempt[r].host] = @ \cup {Path(r)}]
    /\ At(r, "treed")
    /\ UNCHANGED <<storeVars, board, windows>>

(* The fetch or the add failed: nothing is rolled back.  An add that was   *)
(* killed at its bound may have made the worktree by then.                 *)
WorktreeFails(r) ==
    /\ attempt[r].at = "measured"
    /\ At(r, "failing")
    /\ \/ UNCHANGED trees
       \/ /\ "killed" \in Faults
          /\ ~attempt[r].reuses
          /\ trees' = [trees EXCEPT ![attempt[r].host] = @ \cup {Path(r)}]
    /\ UNCHANGED <<storeVars, board, windows>>

(* What is left to undo once the window is gone, or was never opened.      *)
(* Faulty first: the worktree, even one this attempt found there.          *)
AlwaysRemoves(r) == "removing"

AfterWindow(r) == IF attempt[r].reuses THEN "failing" ELSE "removing"

(* refuse_duplicate_window_name, and then new-window: two tmux calls. *)
CheckName(r) ==
    /\ attempt[r].at = "treed"
    /\ InTime(r)
    /\ Named(r) = {}
    /\ At(r, "cleared")
    /\ UNCHANGED <<storeVars, board, trees, windows>>

(* No window of this attempt's is rolled back, one that a killed           *)
(* new-window had asked for included.                                      *)
WindowFails(r) ==
    /\ attempt[r].at \in {"treed", "cleared"}
    /\ At(r, AfterWindow(r))
    /\ \/ UNCHANGED windows
       \/ /\ "killed" \in Faults
          /\ attempt[r].at = "cleared"
          /\ windows' = [windows EXCEPT ![attempt[r].host] = @ \cup {<<Name(r), r>>}]
    /\ UNCHANGED <<storeVars, board, trees>>

OpenWindow(r) ==
    /\ attempt[r].at = "cleared"
    /\ InTime(r)
    /\ windows' = [windows EXCEPT ![attempt[r].host] = @ \cup {<<Name(r), r>>}]
    /\ At(r, "opened")
    /\ UNCHANGED <<storeVars, board, trees>>

(* The prompt is written in the worktree and the keys go to the one window *)
(* of that name; an ambiguous name is refused.                             *)
Launch(r) ==
    /\ attempt[r].at = "opened"
    /\ InTime(r)
    /\ Path(r) \in Disk(r)
    /\ Cardinality(Named(r)) = 1
    /\ At(r, "launched")
    /\ UNCHANGED <<storeVars, board, trees, windows>>

LaunchFails(r) ==
    /\ attempt[r].at = "opened"
    /\ At(r, "killing")
    /\ UNCHANGED <<storeVars, board, trees, windows>>

----------------------------------------------------------------------------
(* Reporting.  A dispatched report that gets no answer is sent once more.  *)

ReportLands(r) == ReportDispatchProvisioned(Owner(r), r, Path(r), Name(r))

ReportWouldLand(r) ==
    /\ request[r].state = "provisioning"
    /\ request[r].age < Deadline
    /\ Exists(task[request[r].task])

ReportAccepted(r) ==
    /\ attempt[r].at \in {"launched", "repeating"}
    /\ \/ ReportLands(r)
       \/ ReportIsRepeat(r, Path(r), Name(r)) /\ UNCHANGED storeVars
    /\ At(r, "kept")
    /\ UNCHANGED <<board, trees, windows>>

ReportRefused(r) ==
    /\ attempt[r].at \in {"launched", "repeating"}
    /\ ~ReportWouldLand(r)
    /\ ~ReportIsRepeat(r, Path(r), Name(r))
    /\ At(r, "killing")
    /\ UNCHANGED <<storeVars, board, trees, windows>>

ReportUnanswered(r) ==
    /\ "lost" \in Faults
    /\ \/ attempt[r].at = "launched" /\ At(r, "repeating")
       \/ attempt[r].at = "repeating" /\ At(r, "killing")
    /\ ReportLands(r) \/ UNCHANGED storeVars
    /\ UNCHANGED <<board, trees, windows>>

----------------------------------------------------------------------------
(* Rolling back: the window by its name, then the worktree if this attempt *)
(* made it.  Two windows of the name make the kill fail, which ends the    *)
(* rollback.                                                               *)

(* Faulty: an ambiguous name is waited on. *)
KillWindowWaits(r) ==
    /\ attempt[r].at = "killing"
    /\ Cardinality(Named(r)) <= 1
    /\ windows' = [windows EXCEPT ![attempt[r].host] = @ \ Named(r)]
    /\ At(r, AfterWindow(r))
    /\ UNCHANGED <<storeVars, board, trees>>

KillWindow(r) ==
    /\ attempt[r].at = "killing"
    /\ \/ /\ Cardinality(Named(r)) <= 1
          /\ windows' = [windows EXCEPT ![attempt[r].host] = @ \ Named(r)]
          /\ At(r, AfterWindow(r))
       \/ /\ Cardinality(Named(r)) > 1 \/ "teardown" \in Faults
          /\ UNCHANGED windows
          /\ At(r, "failing")
    /\ UNCHANGED <<storeVars, board, trees>>

RemoveWorktree(r) ==
    /\ attempt[r].at = "removing"
    /\ \/ trees' = [trees EXCEPT ![attempt[r].host] = @ \ {Path(r)}]
       \/ "teardown" \in Faults /\ UNCHANGED trees
    /\ At(r, "failing")
    /\ UNCHANGED <<storeVars, board, windows>>

(* A refused report means the row failed under this host; one that is lost *)
(* is not repeated.                                                        *)
ReportFailure(r) ==
    /\ attempt[r].at = "failing"
    /\ \/ ReportDispatchFailed(Owner(r), r)
       \/ request[r].state # "provisioning" /\ UNCHANGED storeVars
       \/ "lost" \in Faults /\ UNCHANGED storeVars
    /\ At(r, "failed")
    /\ UNCHANGED <<board, trees, windows>>

----------------------------------------------------------------------------
(* The board *)

Crash(h) ==
    /\ "crash" \in Faults
    /\ board[h] = "up"
    /\ board' = [board EXCEPT ![h] = "starting"]
    /\ attempt' = [r \in RequestId |->
                     IF attempt[r].host = h THEN NoAttempt ELSE attempt[r]]
    /\ UNCHANGED <<storeVars, trees, windows>>

(* recover_dispatch_requests: the sweep, then the rows are served.  The    *)
(* board serves on even when the sweep never arrived.  Faulty first: the   *)
(* board serves without sweeping.                                          *)
RecoverWithoutSweep(h) ==
    /\ board[h] = "starting"
    /\ ActingFor(OwnerOf[h], h)
    /\ board' = [board EXCEPT ![h] = "up"]
    /\ UNCHANGED <<storeVars, attempt, trees, windows>>

Recover(h) ==
    /\ board[h] = "starting"
    /\ ActingFor(OwnerOf[h], h)
    /\ board' = [board EXCEPT ![h] = "up"]
    /\ \/ FailInterruptedDispatchRequests(OwnerOf[h], h)
       \/ Interrupted(h) = {} /\ UNCHANGED storeVars
       \/ "lost" \in Faults /\ UNCHANGED storeVars
    /\ UNCHANGED <<attempt, trees, windows>>

----------------------------------------------------------------------------
(* Everybody else's calls, and time *)

(* Prompt: a rollback ends before its task is dispatched again, by a hand  *)
(* that closed the task and reopened it, and before the backstop's grace   *)
(* is over (store-split.allium DispatchRequestTimesOut: "so a live host's  *)
(* stop and rollback land first").                                         *)
NobodyWorksOn(t) == ~\E r \in RequestId : Working(r) /\ attempt[r].task = t

RollbacksLandFirst ==
    \A r \in OpenRequests : request[r].age + 1 = Backstop => ~Provisioning(r)

UserStep ==
    /\ \/ \E h \in Host : RegisterHost(OwnerOf[h], h)
       \/ \E u \in User, t \in Task, h \in Host, o \in Origins, gone \in SUBSET Prunable :
            /\ Prompt => NobodyWorksOn(t)
            /\ RequestDispatch(u, t, h, o, gone)
       \/ \E u \in User, t \in Task, s \in Task, p \in Patches : PatchTask(u, t, p, s)
       \/ \E t \in Task : CreateTask(t, FALSE, FALSE)
       \/ \E t \in Task : CloseTask(t, t)
       \/ \E t \in Task : DeleteTask(t)
       \/ \E r \in RequestId : ExpireDispatchRequest(r)
    /\ UNCHANGED hostVars

AgedAttempt(r) ==
    IF Serving(r) /\ InTime(r)
    THEN [attempt[r] EXCEPT !.age = @ + 1] ELSE attempt[r]

TimePasses ==
    /\ Prompt => RollbacksLandFirst
    /\ request' = [r \in RequestId |-> Aged(request[r])]
    /\ attempt' = [r \in RequestId |-> AgedAttempt(r)]
    /\ <<request, attempt>>' # <<request, attempt>>
    /\ UNCHANGED <<hosts, task, agent, epic, timers, nextRequest, board, trees, windows>>

----------------------------------------------------------------------------
(* The specification *)

HostInit ==
    /\ Init
    /\ board = [h \in Host |-> "starting"]
    /\ attempt = [r \in RequestId |-> NoAttempt]
    /\ trees = [h \in Host |-> {}]
    /\ windows = [h \in Host |-> {}]
    /\ setting \in Settings

(* What the board does next about a row it was handed. *)
Proceed(r) ==
    \/ ClaimAccepted(r) \/ ClaimRefused(r) \/ ClaimNotSent(r)
    \/ GiveUp(r) \/ Measure(r) \/ ReuseWorktree(r) \/ AddWorktree(r) \/ WorktreeFails(r)
    \/ CheckName(r) \/ WindowFails(r) \/ OpenWindow(r) \/ Launch(r) \/ LaunchFails(r)
    \/ ReportAccepted(r) \/ ReportRefused(r) \/ ReportUnanswered(r)
    \/ KillWindow(r) \/ RemoveWorktree(r) \/ ReportFailure(r)

HostNext ==
    /\ UNCHANGED setting
    /\ \/ \E r \in RequestId : Observe(r) \/ Proceed(r)
       \/ \E h \in Host : Crash(h) \/ Recover(h)
       \/ UserStep
       \/ TimePasses

HostSpec == HostInit /\ [][HostNext]_vars

(* serve_one runs to its end on its own task. *)
HostFairSpec ==
    HostSpec /\ \A r \in RequestId : WF_<<storeVars, hostVars>>(Proceed(r))
----------------------------------------------------------------------------
(* Properties *)

HostTypeOK ==
    /\ board \in [Host -> {"starting", "up"}]
    /\ attempt \in [RequestId -> AttemptRow]
    /\ trees \in [Host -> SUBSET Worktree]
    /\ windows \in [Host -> SUBSET (Window \X RequestId)]
    /\ setting \in Settings

(* store-split.allium OnlyTheClaimedRequestProvisions: nothing is made for *)
(* a row whose claim the store did not accept.                             *)
OnlyTheClaimedRequestProvisions ==
    \A r \in RequestId : Working(r) => request[r].state # "requested"

(* dispatch.allium DispatchClaimExclusive: no two attempts provision one   *)
(* task at once.                                                           *)
DispatchClaimExclusive ==
    \A a, b \in RequestId :
        Provisioning(a) /\ Provisioning(b) /\ attempt[a].task = attempt[b].task => a = b

(* dispatch.allium TmuxWindowNamesAreUnique. *)
TmuxWindowNamesAreUnique ==
    \A h \in Host : \A v, w \in windows[h] : v[1] = w[1] => v = w

(* A window outlives the attempt that opened it only for a request that    *)
(* was dispatched: no agent keeps running for a row that failed, timed out *)
(* or was deleted under its host.                                          *)
AgentsBelongToDispatchedRequests ==
    \A h \in Host : \A w \in windows[h] :
        \/ Working(w[2])
        \/ attempt[w[2]].at = "kept" /\ request[w[2]].state # "failed"

(* A dispatched request that no attempt is still settling has its window   *)
(* and its worktree: no rollback takes away what a report recorded.        *)
DispatchedRequestsKeepTheirAgent ==
    \A r \in RequestId :
        request[r].state = "dispatched" /\ ~Working(r) =>
            /\ <<request[r].window, r>> \in windows[request[r].host]
            /\ request[r].worktree \in trees[request[r].host]

(* "A failed dispatch leaves no trace of what it created": a worktree on   *)
(* disk is one an attempt still works in, or one a report recorded.        *)
FailedAttemptsLeaveNoWorktree ==
    \A h \in Host : \A p \in trees[h] :
        \E r \in RequestId :
            attempt[r].host = h /\ Path(r) = p /\ (Working(r) \/ attempt[r].at = "kept")

(* The restart sweep runs before a row is served, so a board that serves   *)
(* has an attempt at every row its host claimed.                           *)
ClaimedRowsAreBeingServed ==
    \A r \in RequestId :
        request[r].state = "provisioning" /\ board[request[r].host] = "up" => Working(r)

(* A failed dispatch leaves no trace: where nothing goes wrong around the  *)
(* boards and they end what they are at, two attempts never provision one  *)
(* task, no agent runs for a row that failed, none that was dispatched     *)
(* loses its worktree to a rollback, and no worktree is left that nobody   *)
(* works in.                                                               *)
FailuresLeaveNoTrace ==
    Faults = {} /\ Prompt =>
        /\ DispatchClaimExclusive
        /\ AgentsBelongToDispatchedRequests
        /\ DispatchedRequestsKeepTheirAgent
        /\ FailedAttemptsLeaveNoWorktree

(* The sweep of a restart runs before a board serves a row, so a board     *)
(* that serves is at every row its host claimed, unless calls are lost.    *)
RestartedBoardsServeTheirClaims == "lost" \notin Faults => ClaimedRowsAreBeingServed

(* dispatch.allium: a failed request leaves its task "dispatchable exactly *)
(* as before", after a restart too.  The sweep leaves the window of the    *)
(* interrupted attempt, whose name the next attempt is refused.            *)
ReleasedTasksAreDispatchable ==
    \A t \in Task, h \in Host :
        /\ task[t].status = "backlog"
        /\ board[h] = "up"
        /\ ~\E r \in RequestId : Working(r) /\ attempt[r].task = t
        => ~\E w \in windows[h] : w[1] = WindowOf[t] /\ attempt[w[2]].at # "kept"

(* An attempt that was claimed ends, whatever fails around it. *)
EveryAttemptEnds ==
    \A r \in RequestId : Working(r) ~> ~Working(r)
============================================================================
