----------------------------- MODULE BoardTasks -----------------------------
(***************************************************************************)
(* What a board does to a task with an agent: moving, reordering,          *)
(* resuming, retrying and deleting it from a copy of the row that may be   *)
(* behind the store, with tmux and git run beside the event loop and       *)
(* answering by message.                                                   *)
(*                                                                         *)
(* One task, and one board to a machine, so a board names its machine too. *)
(* The window of a task has one name for life ("task-<id>"): a pointer is  *)
(* there or not, and what matters is which session the window holds.       *)
(***************************************************************************)
EXTENDS Integers, Sequences, FiniteSets

CONSTANTS
    NoMachine,      \* the empty host of a row
    BoardSettings   \* the boards, keys and bounds of a behaviour

NoOne == 0          \* no agent

Status == {"backlog", "running", "review", "done"}

AllKeys == {"forward", "backward", "done", "reorder", "resume", "retry resume",
            "retry fresh", "dispatch", "delete", "dies", "reopen"}

ASSUME BoardTasksAssumption ==
    \A c \in BoardSettings :
        /\ NoMachine \notin c.boards
        /\ c.agents \in Nat \ {0}
        /\ c.ops \subseteq AllKeys
        /\ c.from \in {"backlog", "running", "done"}

VARIABLES
    row,        \* the task's row in the store, with its current agent
    copy,       \* each board's copy of it
    request,    \* the board whose machine an open dispatch request names
    inWindow,   \* the session in the task's window, on each machine
    disk,       \* whether the task's worktree is on each machine's disk
    check,      \* whether a window check of a board is under way
    kill,       \* whether the kill of a window is under way
    resume,     \* a board's resume: "none", "asked" or "answered"
    cleanup,    \* a teardown under way: "none", or its follow-up
    inbox,      \* the messages a board has still to handle, oldest first
    born,       \* the agents the task has been given so far
    boardSetting  \* the member of BoardSettings a behaviour belongs to: it never changes

Board == boardSetting.boards        \* boards, each on a machine of its own
MaxBorn == boardSetting.agents      \* the bound on the agents the task is given
Keys == boardSetting.ops            \* the key presses and outside events that happen
StartStatus == boardSetting.from    \* the status the task starts in

jobVars == <<check, kill, resume, cleanup>>

workVars == <<row, copy, request, inWindow, disk, jobVars, inbox, born>>
boardVars == <<workVars, boardSetting>>

FollowUp == {"clear pointer", "delete row"}

(* `sub` keeps what a property reads: whether the agent crashed.           *)
BoardRow == [status : Status \cup {"deleted"}, crashed : BOOLEAN, worktree : BOOLEAN,
             host : Board \cup {NoMachine}, window : BOOLEAN, agent : 0..MaxBorn]

Deleted == [status |-> "deleted", crashed |-> FALSE, worktree |-> FALSE,
            host |-> NoMachine, window |-> FALSE, agent |-> NoOne]

BoardMessage == {"window gone", "resumed", "resume failed", "cleanup failed"} \cup FollowUp

Shown(b) == copy[b].status # "deleted"

LocallyOwned(b) == copy[b].host \in {NoMachine, b}

----------------------------------------------------------------------------
(* What a board writes *)

(* PersistFields::from_task: the board's copy, with what the caller means  *)
(* to clear.                                                               *)
Keep == [worktree |-> FALSE, window |-> FALSE]
ReleasingWindow == [worktree |-> FALSE, window |-> TRUE]
ReleasingWorktree == [worktree |-> TRUE, window |-> TRUE]

(* The session facts go to the current agent, and a patch that names a     *)
(* window for a task without one is refused whole.                         *)
Patchable(r) == r.status # "deleted"

Accepts(r, c, release) ==
    Patchable(r) /\ (c.window /\ ~release.window => r.agent # NoOne)

(* An absent value of the copy is left out of the write, never sent as a   *)
(* clear.  An agent ends with its worktree, and its window pointer with it.*)
Written(r, c, release) ==
    LET worktree == ~release.worktree /\ (c.worktree \/ r.worktree)
        ends == r.worktree /\ ~worktree
    IN  [status |-> c.status,
         crashed |-> c.crashed,
         worktree |-> worktree,
         host |-> IF release.worktree THEN NoMachine
                  ELSE IF c.host # NoMachine THEN c.host ELSE r.host,
         window |-> ~ends /\ ~release.window /\ (c.window \/ r.window),
         agent |-> IF ends THEN NoOne ELSE r.agent]

Persisted(r, c, release) ==
    IF Accepts(r, c, release) THEN Written(r, c, release) ELSE r

(* A handler changes the board's copy to `c` and persists it.              *)
Persist(b, c, release) ==
    /\ copy' = [copy EXCEPT ![b] = c]
    /\ row' = Persisted(row, c, release)

MovedTo(c, status) == [c EXCEPT !.status = status, !.crashed = FALSE]

(* take_detach: the window leaves the copy and its kill starts.            *)
Detach(b) ==
    kill' = [kill EXCEPT ![b] = @ \/ copy[b].window]

DetachRelease(b) == IF copy[b].window THEN ReleasingWindow ELSE Keep

----------------------------------------------------------------------------
(* Key presses *)

Next1 == [backlog |-> "running", running |-> "review", review |-> "done"]
Prev1 == [running |-> "backlog", review |-> "running", done |-> "review"]

MoveForward(b) ==
    /\ "forward" \in Keys
    /\ copy[b].status \in {"backlog", "running"}
    /\ Persist(b, MovedTo(copy[b], Next1[copy[b].status]), Keep)
    /\ UNCHANGED <<request, inWindow, disk, jobVars, inbox, born>>

MoveBackward(b) ==
    /\ "backward" \in Keys
    /\ copy[b].status \in DOMAIN Prev1
    /\ Detach(b)
    /\ Persist(b, [MovedTo(copy[b], Prev1[copy[b].status]) EXCEPT !.window = FALSE],
               DetachRelease(b))
    /\ UNCHANGED <<request, inWindow, disk, check, resume, cleanup, inbox, born>>

ConfirmDone(b) ==
    /\ "done" \in Keys
    /\ copy[b].status \in Status \ {"done"}
    /\ Detach(b)
    /\ Persist(b, [MovedTo(copy[b], "done") EXCEPT !.window = FALSE], DetachRelease(b))
    /\ UNCHANGED <<request, inWindow, disk, check, resume, cleanup, inbox, born>>

(* The position is not modelled: what matters is the rest of the row the   *)
(* write carries.                                                          *)
Reorder(b) ==
    /\ "reorder" \in Keys
    /\ Shown(b)
    /\ Persist(b, copy[b], Keep)
    /\ UNCHANGED <<request, inWindow, disk, jobVars, inbox, born>>

AskResume(b) ==
    /\ "resume" \in Keys
    /\ copy[b].status \in {"running", "review", "done"}
    /\ LocallyOwned(b)
    /\ copy[b].worktree
    /\ ~copy[b].window
    /\ resume[b] = "none"
    /\ resume' = [resume EXCEPT ![b] = "asked"]
    /\ UNCHANGED <<row, copy, request, inWindow, disk, check, kill, cleanup, inbox, born>>

RetryResume(b) ==
    /\ "retry resume" \in Keys
    /\ copy[b].status = "running"
    /\ copy[b].worktree
    /\ LocallyOwned(b)
    /\ Detach(b)
    /\ copy' = [copy EXCEPT ![b].crashed = FALSE, ![b].window = FALSE]
    /\ resume' = [resume EXCEPT ![b] = IF @ = "none" THEN "asked" ELSE @]
    /\ UNCHANGED <<row, request, inWindow, disk, check, cleanup, inbox, born>>

(* The kill is the quick first step of the teardown and is taken with the  *)
(* key press; the removal of the worktree takes as long as git does.  One  *)
(* teardown of a board at a time bounds the jobs.                          *)
TakeCleanup(b, followUp) ==
    /\ cleanup[b] = "none"
    /\ \A i \in DOMAIN inbox[b] : inbox[b][i] \notin FollowUp \cup {"cleanup failed"}
    /\ inWindow' = [inWindow EXCEPT ![b] = IF copy[b].window THEN NoOne ELSE @]
    /\ cleanup' = [cleanup EXCEPT ![b] = followUp]

(* Answers whether the request was taken; a refusal changes nothing.       *)
Requestable(r, b) ==
    r.status = "backlog" /\ r.host \in {NoMachine, b} /\ request = NoMachine

RetryAfresh(b) ==
    /\ "retry fresh" \in Keys
    /\ copy[b].status = "running"
    /\ LocallyOwned(b)
    /\ born < MaxBorn
    /\ Persist(b, [MovedTo(copy[b], "backlog") EXCEPT !.worktree = FALSE,
                       !.host = NoMachine, !.window = FALSE], ReleasingWorktree)
    /\ request' = IF Requestable(row', b) THEN b ELSE request
    /\ IF copy[b].worktree \/ copy[b].window
       THEN TakeCleanup(b, "clear pointer")
       ELSE UNCHANGED <<inWindow, cleanup>>
    /\ UNCHANGED <<disk, check, kill, resume, inbox, born>>

AskDispatch(b) ==
    /\ "dispatch" \in Keys
    /\ copy[b].status = "backlog"
    /\ LocallyOwned(b)
    /\ Requestable(row, b)
    /\ born < MaxBorn
    /\ request' = b
    /\ UNCHANGED <<row, copy, inWindow, disk, jobVars, inbox, born>>

(* The guard re-reads the store's row before anything is torn down; the    *)
(* card leaves the board either way and a refusal brings it back.          *)
PassesDeleteGuard(r) == r.status \in {"done", "deleted"}

DeletedRow(r) == IF r.status = "done" THEN Deleted ELSE r

(* The faulty form that deletes beside the teardown it starts.             *)
DeleteTaskAtOnce(b) ==
    /\ "delete" \in Keys
    /\ copy[b].status = "done"
    /\ cleanup[b] = "none"
    /\ row' = DeletedRow(row)
    /\ copy' = [copy EXCEPT ![b] = row']
    /\ IF copy[b].worktree \/ copy[b].window
       THEN TakeCleanup(b, "delete row") ELSE UNCHANGED <<inWindow, cleanup>>
    /\ UNCHANGED <<request, disk, check, kill, resume, inbox, born>>

DeleteTask(b) ==
    /\ "delete" \in Keys
    /\ copy[b].status = "done"
    /\ IF ~PassesDeleteGuard(row)
       THEN /\ copy' = [copy EXCEPT ![b] = row]
            /\ UNCHANGED <<row, inWindow, cleanup>>
       ELSE IF copy[b].worktree \/ copy[b].window
       THEN /\ TakeCleanup(b, "delete row")
            /\ copy' = [copy EXCEPT ![b] = Deleted]
            /\ UNCHANGED row
       ELSE /\ row' = DeletedRow(row)
            /\ copy' = [copy EXCEPT ![b] = Deleted]
            /\ UNCHANGED <<inWindow, cleanup>>
    /\ UNCHANGED <<request, disk, check, kill, resume, inbox, born>>

----------------------------------------------------------------------------
(* tmux and git, beside the event loop *)

(* One check and one answer at a time bounds the inbox.                    *)
TickWindowCheck(b) ==
    /\ copy[b].window
    /\ ~check[b]
    /\ \A i \in DOMAIN inbox[b] : inbox[b][i] # "window gone"
    /\ check' = [check EXCEPT ![b] = TRUE]
    /\ UNCHANGED <<row, copy, request, inWindow, disk, kill, resume, cleanup, inbox, born>>

Send(b, message) == inbox' = [inbox EXCEPT ![b] = Append(@, message)]

(* The windows looked for are those of the board's own machine.            *)
WindowChecked(b) ==
    /\ check[b]
    /\ check' = [check EXCEPT ![b] = FALSE]
    /\ IF inWindow[b] = NoOne THEN Send(b, "window gone") ELSE UNCHANGED inbox
    /\ UNCHANGED <<row, copy, request, inWindow, disk, kill, resume, cleanup, born>>

WindowKilled(b) ==
    /\ kill[b]
    /\ kill' = [kill EXCEPT ![b] = FALSE]
    /\ inWindow' = [inWindow EXCEPT ![b] = NoOne]
    /\ UNCHANGED <<row, copy, request, disk, check, resume, cleanup, inbox, born>>

(* A window that is still there is reattached, else a new one continues    *)
(* the session of the current agent; a task without one has none to        *)
(* continue, and tmux may fail.                                            *)
ResumeRuns(b) ==
    /\ resume[b] = "asked"
    /\ resume' = [resume EXCEPT ![b] = "answered"]
    /\ \/ /\ row.agent # NoOne
          /\ inWindow' = [inWindow EXCEPT ![b] = IF @ = NoOne THEN row.agent ELSE @]
          /\ Send(b, "resumed")
       \/ /\ Send(b, "resume failed")
          /\ UNCHANGED inWindow
    /\ UNCHANGED <<row, copy, request, disk, check, kill, cleanup, born>>

(* What is left on disk decides: a path that was never there is released,  *)
(* and a removal may fail for one that is.                                 *)
RemovesTheWorktree(b) == disk' = [disk EXCEPT ![b] = FALSE]
LeavesTheWorktree(b) == disk[b] /\ UNCHANGED disk

(* A teardown that released the worktree earns its follow-up.              *)
CleanupEnds(b) ==
    /\ cleanup[b] # "none"
    /\ \/ RemovesTheWorktree(b) /\ Send(b, cleanup[b])
       \/ LeavesTheWorktree(b) /\ Send(b, "cleanup failed")
    /\ cleanup' = [cleanup EXCEPT ![b] = "none"]
    /\ UNCHANGED <<row, copy, request, inWindow, check, kill, resume, born>>

----------------------------------------------------------------------------
(* Messages *)

Receive(b, message) ==
    /\ inbox[b] # <<>>
    /\ Head(inbox[b]) = message
    /\ inbox' = [inbox EXCEPT ![b] = Tail(@)]

(* The faulty form that leaves the pointer of a crashed agent in the store *)
(* and on the board.                                                       *)
HandleWindowGoneKeeping(b) ==
    /\ Receive(b, "window gone")
    /\ IF Shown(b)
       THEN Persist(b, [copy[b] EXCEPT !.crashed = @ \/ copy[b].status = "running"], Keep)
       ELSE UNCHANGED <<row, copy>>
    /\ UNCHANGED <<request, inWindow, disk, jobVars, born>>

(* A running task whose window went away has crashed.                      *)
AgentCrashed(c) == [c EXCEPT !.crashed = TRUE, !.window = FALSE]

(* The message names the task alone.                                       *)
HandleWindowGone(b) ==
    /\ Receive(b, "window gone")
    /\ IF Shown(b)
       THEN Persist(b, IF copy[b].status = "running" THEN AgentCrashed(copy[b])
                       ELSE [copy[b] EXCEPT !.window = FALSE], ReleasingWindow)
       ELSE UNCHANGED <<row, copy>>
    /\ UNCHANGED <<request, inWindow, disk, jobVars, born>>

HandleResumed(b) ==
    /\ Receive(b, "resumed")
    /\ resume' = [resume EXCEPT ![b] = "none"]
    /\ IF Shown(b)
       THEN Persist(b, [MovedTo(copy[b], "running") EXCEPT !.window = TRUE], Keep)
       ELSE UNCHANGED <<row, copy>>
    /\ UNCHANGED <<request, inWindow, disk, check, kill, cleanup, born>>

HandleResumeFailed(b) ==
    /\ Receive(b, "resume failed")
    /\ resume' = [resume EXCEPT ![b] = "none"]
    /\ UNCHANGED <<row, copy, request, inWindow, disk, check, kill, cleanup, born>>

(* clear_worktree_pointer, whatever the row holds by now.                  *)
PointerCleared(r) ==
    IF r.status = "deleted" THEN r
    ELSE [r EXCEPT !.worktree = FALSE, !.host = NoMachine, !.window = FALSE,
              !.agent = IF r.worktree THEN NoOne ELSE @]

(* The copy keeps its host.                                                *)
HandleReleased(b) ==
    /\ Receive(b, "clear pointer")
    /\ copy' = [copy EXCEPT ![b].worktree = FALSE, ![b].window = FALSE]
    /\ row' = PointerCleared(row)
    /\ UNCHANGED <<request, inWindow, disk, jobVars, born>>

HandleReleasedToDelete(b) ==
    /\ Receive(b, "delete row")
    /\ row' = DeletedRow(row)
    /\ copy' = [copy EXCEPT ![b] = IF PassesDeleteGuard(row) THEN @ ELSE row]
    /\ UNCHANGED <<request, inWindow, disk, jobVars, born>>

HandleCleanupFailed(b) ==
    /\ Receive(b, "cleanup failed")
    /\ copy' = [copy EXCEPT ![b] = row]
    /\ UNCHANGED <<row, request, inWindow, disk, jobVars, born>>

(* A refresh replaces the copy whole.                                      *)
RefreshCopy(b) ==
    /\ copy[b] # row
    /\ copy' = [copy EXCEPT ![b] = row]
    /\ UNCHANGED <<row, request, inWindow, disk, jobVars, inbox, born>>

----------------------------------------------------------------------------
(* The other writers *)

(* The host of an open request provisions the worktree, reusing one that   *)
(* is there, and starts an agent (DispatchRequests and DispatchHost model  *)
(* it step by step).                                                       *)
Launch ==
    /\ request # NoMachine
    /\ request' = NoMachine
    /\ IF row.status = "backlog"
       THEN /\ disk' = [disk EXCEPT ![request] = TRUE]
            /\ born' = born + 1
            /\ inWindow' = [inWindow EXCEPT ![request] = born']
            /\ row' = [status |-> "running", crashed |-> FALSE, worktree |-> TRUE,
                       host |-> request, window |-> TRUE, agent |-> born']
       ELSE UNCHANGED <<row, inWindow, disk, born>>
    /\ UNCHANGED <<copy, jobVars, inbox>>

(* The Stop hook of the session in the window, and a prompt after it.      *)
StopHook(b) ==
    /\ inWindow[b] # NoOne
    /\ row.status = "running"
    /\ row' = [row EXCEPT !.status = "review", !.crashed = FALSE]
    /\ UNCHANGED <<copy, request, inWindow, disk, jobVars, inbox, born>>

SessionDies(b) ==
    /\ "dies" \in Keys
    /\ inWindow[b] # NoOne
    /\ inWindow' = [inWindow EXCEPT ![b] = NoOne]
    /\ UNCHANGED <<row, copy, request, disk, jobVars, inbox, born>>

(* A client of the store takes a finished task up again.                   *)
Reopen ==
    /\ "reopen" \in Keys
    /\ row.status = "done"
    /\ row' = [row EXCEPT !.status = "running", !.crashed = FALSE]
    /\ UNCHANGED <<copy, request, inWindow, disk, jobVars, inbox, born>>
----------------------------------------------------------------------------

StartRow(b) ==
    IF StartStatus = "backlog" THEN [Deleted EXCEPT !.status = "backlog"]
    ELSE [status |-> StartStatus, crashed |-> FALSE, worktree |-> TRUE,
          host |-> b, window |-> StartStatus = "running", agent |-> 1]

(* The task waits, or it runs or is finished on one of the machines; every *)
(* board has seen it.                                                      *)
BoardInit ==
    /\ boardSetting \in BoardSettings
    /\ \E b \in Board :
        /\ row = StartRow(b)
        /\ copy = [o \in Board |-> row]
        /\ request = NoMachine
        /\ inWindow = [o \in Board |-> IF o = b /\ row.window THEN 1 ELSE NoOne]
        /\ disk = [o \in Board |-> o = b /\ row.worktree]
        /\ check = [o \in Board |-> FALSE]
        /\ kill = [o \in Board |-> FALSE]
        /\ resume = [o \in Board |-> "none"]
        /\ cleanup = [o \in Board |-> "none"]
        /\ inbox = [o \in Board |-> <<>>]
        /\ born = row.agent

KeyPress(b) ==
    \/ MoveForward(b) \/ MoveBackward(b) \/ ConfirmDone(b) \/ Reorder(b)
    \/ AskResume(b) \/ RetryResume(b) \/ RetryAfresh(b) \/ AskDispatch(b) \/ DeleteTask(b)

HandleMessage(b) ==
    \/ HandleWindowGone(b) \/ HandleResumed(b) \/ HandleResumeFailed(b)
    \/ HandleReleased(b) \/ HandleReleasedToDelete(b) \/ HandleCleanupFailed(b)

CardStep ==
    \/ \E b \in Board :
           \/ KeyPress(b)
           \/ TickWindowCheck(b) \/ WindowChecked(b) \/ WindowKilled(b)
           \/ ResumeRuns(b) \/ CleanupEnds(b)
           \/ HandleMessage(b) \/ RefreshCopy(b)
           \/ StopHook(b) \/ SessionDies(b)
    \/ Launch
    \/ Reopen

BoardNext == CardStep /\ UNCHANGED boardSetting

BoardSpec == BoardInit /\ [][BoardNext]_boardVars

(* A board's loop ticks, takes its messages in and refreshes, and what it  *)
(* started beside the loop ends.                                           *)
BoardFairness ==
    \A b \in Board :
        /\ WF_workVars(TickWindowCheck(b))
        /\ WF_workVars(WindowChecked(b))
        /\ WF_workVars(WindowKilled(b))
        /\ WF_workVars(ResumeRuns(b))
        /\ WF_workVars(CleanupEnds(b))
        /\ WF_workVars(HandleMessage(b))
        /\ WF_workVars(RefreshCopy(b))

BoardFairSpec == BoardSpec /\ BoardFairness

----------------------------------------------------------------------------
(* Properties *)

(* The rows, copies, jobs and messages are what the code can hold, and a   *)
(* window is held by an agent (agents.allium, A4).                         *)
BoardTypeOK ==
    /\ row \in BoardRow
    /\ copy \in [Board -> BoardRow]
    /\ request \in Board \cup {NoMachine}
    /\ inWindow \in [Board -> 0..MaxBorn]
    /\ disk \in [Board -> BOOLEAN]
    /\ check \in [Board -> BOOLEAN]
    /\ kill \in [Board -> BOOLEAN]
    /\ resume \in [Board -> {"none", "asked", "answered"}]
    /\ cleanup \in [Board -> FollowUp \cup {"none"}]
    /\ inbox \in [Board -> Seq(BoardMessage)]
    /\ row.window => row.agent # NoOne

(* A task has a host if and only if it has a worktree (core.allium,        *)
(* HostTracksWorktree), whatever copies were written over the row.         *)
HostTracksWorktree ==
    row.worktree <=> row.host # NoMachine

(* The session in the window of a task that is not deleted is that of its  *)
(* current agent, and the row names the machine it is on: no write of a    *)
(* board takes a task away from an agent that works on it                  *)
(* (ABoardWriteLeavesThePointersAlone).                                    *)
SessionIsTheCurrentAgents ==
    \A b \in Board :
        inWindow[b] # NoOne /\ row.status # "deleted" =>
            row.agent = inWindow[b] /\ row.host = b

(* No write of a board takes a worktree or a window away from a row except *)
(* where it means to: a detach, a window that went away, a fresh retry,    *)
(* the teardown it started, or the end of the row                          *)
(* (ABoardWriteLeavesThePointersAlone).                                    *)
ReleasesPointersOnPurpose ==
    /\ row.worktree /\ ~row'.worktree =>
           \E b \in Board : RetryAfresh(b) \/ HandleReleased(b)
                            \/ DeleteTask(b) \/ HandleReleasedToDelete(b)
    /\ row.window /\ ~row'.window /\ row'.worktree =>
           \E b \in Board : MoveBackward(b) \/ ConfirmDone(b) \/ HandleWindowGone(b)

(* A task shown as crashed has no session: its window was seen gone, and   *)
(* only a resume that is still being answered may have opened another.     *)
CrashedAgentsAreDead ==
    row.crashed => \A b \in Board : inWindow[b] # NoOne => resume[b] # "none"

(* A row is forgotten only when no worktree of it is left on a disk        *)
(* (WorktreeReleaseIsGated).                                               *)
NoWorktreeIsForgotten ==
    row.status = "deleted" => \A b \in Board : ~disk[b]

OneBoard == \A a, b \in Board : a = b

(* Whatever copies are written over the row, it keeps the agent and the    *)
(* machine that have its worktree; but a fresh retry leaves the host of    *)
(* the copy behind.  Where one board works on the task, no delete forgets  *)
(* a worktree, and no task whose agent lives is shown as crashed.          *)
RowsKeepTheirAgents ==
    /\ [](/\ BoardTypeOK
          /\ "retry fresh" \notin Keys => HostTracksWorktree /\ SessionIsTheCurrentAgents
          /\ OneBoard /\ {"dispatch", "retry fresh"} \cap Keys = {} => NoWorktreeIsForgotten
          /\ OneBoard /\ {"dispatch", "retry fresh", "delete"} \cap Keys = {} =>
                 CrashedAgentsAreDead)
    /\ [][ReleasesPointersOnPurpose]_boardVars

(* A session works in a worktree that is there, however slow the teardown  *)
(* before its launch was.                                                  *)
SessionsHaveTheirWorktree ==
    \A b \in Board : inWindow[b] # NoOne => disk[b]

(* A reorder changes the position of a card and nothing else of the row.   *)
ReordersOnlyMoveTheCard == [][\A b \in Board : Reorder(b) => row' = row]_boardVars

(* The board reports a task resumed when a session is there.               *)
ResumedTasksHaveASession ==
    [][\A b \in Board : HandleResumed(b) => inWindow[b] # NoOne]_boardVars

(* The row names a window of `b` that is not there.                        *)
WindowLost(b) == row.window /\ row.host = b /\ inWindow[b] = NoOne
KeysRest == \A b \in Board : ~KeyPress(b)
=============================================================================
