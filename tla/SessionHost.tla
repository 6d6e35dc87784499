---------------------------- MODULE SessionHost ----------------------------
(***************************************************************************)
(* The board's reactor for the rows that close sessions (src/src/runtime/  *)
(* session_host.rs): what it remembers between two looks at the store, in  *)
(* which order it starts, and the windows it kills.                        *)
(*                                                                         *)
(* A session is one life of a task's agent, and has at most one row that   *)
(* closes it with its window, so the row carries the session's number. A   *)
(* window is named after its task, whichever session is in it.             *)
(*                                                                         *)
(* Rebase rows are served by the same reactor; their work is FinishTask,   *)
(* and what the store makes of all of them is SessionRequests.             *)
(***************************************************************************)
EXTENDS Naturals

CONSTANTS
    Task,           \* tasks dispatched to this host
    MaxSessions,    \* the bound on sessions
    MaxFaults,      \* the bound on crashes, lost calls and failing kills
    Ops             \* which outside events a run allows

SessionHostAssumption == MaxSessions \in Nat \ {0} /\ MaxFaults \in Nat

VARIABLES
    row,            \* what the store knows of each session and its row
    task,           \* the task of each session
    born,           \* the sessions so far
    late,           \* rows past their deadline
    inWindow,       \* the session in each task's window, 0 for no window
    board,          \* how far the board has started
    settled,        \* whether it knows its own identity
    served,         \* rows it has handed out
    openExits,      \* rows it has seen open and not yet torn down
    job,            \* what it is doing for a row it handed out
    kills,          \* rows seen failed whose window it is killing
    mine,           \* rows this board claimed
    leftBehind,     \* a history: rows whose window its last kill did not end
    faults

Session == 1 .. MaxSessions

boardVars == <<board, settled, served, openExits, job, kills, mine>>
storeVars == <<row, task, born, late>>
vars == <<storeVars, inWindow, boardVars, leftBehind, faults>>

OpenStates == {"requested", "running"}
FailedStates == {"failed", "interrupted"}
NoJobs == [q \in Session |-> "none"]

RowIsOpen(q) == row[q] \in OpenStates
OpenRows == {q \in Session : RowIsOpen(q)}

Init ==
    /\ row = [q \in Session |-> "absent"]
    /\ task \in [Session -> Task] /\ \A q, r \in Session : task[q] = task[r]
    /\ born = 0
    /\ late = {}
    /\ inWindow = [t \in Task |-> 0]
    /\ board = "down"
    /\ settled = FALSE
    /\ served = {} /\ openExits = {} /\ kills = {} /\ mine = {}
    /\ job = NoJobs
    /\ leftBehind = {}
    /\ faults = 0

Fault == faults < MaxFaults /\ faults' = faults + 1

(***************************************************************************)
(* The store and the sessions.                                             *)
(***************************************************************************)
(* A window whose name is taken is refused (new_window).                   *)
Dispatch(t) ==
    /\ born < MaxSessions
    /\ inWindow[t] = 0
    /\ \A q \in 1 .. born : task[q] = t => row[q] # "live"
    /\ born' = born + 1
    /\ row' = [row EXCEPT ![born + 1] = "live"]
    /\ task' = [task EXCEPT ![born + 1] = t]
    /\ inWindow' = [inWindow EXCEPT ![t] = born + 1]
    /\ UNCHANGED <<late, boardVars, faults, leftBehind>>

(* A close of the session, by its agent or over update_tasks.              *)
CloseSession(q) ==
    /\ row[q] = "live"
    /\ row' = [row EXCEPT ![q] = "requested"]
    /\ UNCHANGED <<task, born, late, inWindow, boardVars, faults, leftBehind>>

(* A later close of the task fails the row that is still open.             *)
CloseAgain(q) ==
    /\ "close again" \in Ops
    /\ RowIsOpen(q)
    /\ row' = [row EXCEPT ![q] = "failed"]
    /\ UNCHANGED <<task, born, late, inWindow, boardVars, faults, leftBehind>>

DeadlinePasses(q) ==
    /\ "deadline" \in Ops
    /\ RowIsOpen(q) /\ q \notin late
    /\ late' = late \cup {q}
    /\ UNCHANGED <<row, task, born, inWindow, boardVars, faults, leftBehind>>

Backstop(q) ==
    /\ RowIsOpen(q) /\ q \in late
    /\ row' = [row EXCEPT ![q] = "failed"]
    /\ UNCHANGED <<task, born, late, inWindow, boardVars, faults, leftBehind>>

(* The agent of a closed session ends by itself.                           *)
AgentLeaves(t) ==
    /\ "leave" \in Ops
    /\ inWindow[t] # 0
    /\ row[inWindow[t]] # "live"
    /\ inWindow' = [inWindow EXCEPT ![t] = 0]
    /\ UNCHANGED <<storeVars, boardVars, faults, leftBehind>>

(***************************************************************************)
(* The observer and what is done with its answer.                          *)
(***************************************************************************)
SeenFailed == {q \in openExits : row[q] \in FailedStates}
ToServe == {q \in Session : row[q] = "requested"} \ served

Handed(to) == [q \in Session |-> IF q \in ToServe THEN to ELSE job[q]]

(* The faulty form that holds back the rows to serve only.                 *)
HeldBackToServe ==
    /\ ~settled
    /\ openExits' = (openExits \ SeenFailed) \cup OpenRows
    /\ UNCHANGED <<served, kills, job>>

(* Without an identity everything is held back for the next look.          *)
HeldBack ==
    /\ ~settled
    /\ openExits' = openExits \cup OpenRows
    /\ UNCHANGED <<served, kills, job>>

ActedOn(to) ==
    /\ settled
    /\ openExits' = (openExits \ SeenFailed) \cup OpenRows
    /\ kills' = kills \cup SeenFailed
    /\ served' = served \cup ToServe
    /\ job' = Handed(to)

(* The row pump, after each reload of the board.                           *)
ServeRows ==
    /\ board = "up"
    /\ HeldBack \/ ActedOn("claim")
    /\ UNCHANGED <<storeVars, inWindow, board, settled, mine, faults, leftBehind>>

(***************************************************************************)
(* Startup: note the open rows, fail the running ones, kill the windows of *)
(* those, and only then serve.                                             *)
(***************************************************************************)
NoteOpen ==
    /\ board = "down"
    /\ board' = "noted"
    /\ openExits' = OpenRows
    /\ UNCHANGED <<storeVars, inWindow, settled, served, job, kills, mine, faults, leftBehind>>

Interrupted == [q \in Session |-> IF row[q] = "running" THEN "interrupted" ELSE row[q]]

Sweep ==
    /\ board = "noted"
    /\ board' = "swept"
    /\ \/ row' = Interrupted /\ UNCHANGED faults
       \/ row' \in {row, Interrupted} /\ Fault
    /\ UNCHANGED <<task, born, late, inWindow, settled, served, openExits, job, kills, mine, leftBehind>>

CatchUp ==
    /\ board = "swept"
    /\ board' = "killing"
    /\ HeldBack \/ ActedOn("waits")
    /\ UNCHANGED <<storeVars, inWindow, settled, mine, faults, leftBehind>>

KillsAwaited ==
    /\ board = "killing"
    /\ kills = {}
    /\ board' = "up"
    /\ job' = [q \in Session |-> IF job[q] = "waits" THEN "claim" ELSE job[q]]
    /\ UNCHANGED <<storeVars, inWindow, settled, served, openExits, kills, mine, faults, leftBehind>>

IdentitySettles ==
    /\ board # "down" /\ ~settled
    /\ settled' = TRUE
    /\ UNCHANGED <<storeVars, inWindow, board, served, openExits, job, kills, mine, faults, leftBehind>>

Crash ==
    /\ board # "down"
    /\ Fault
    /\ board' = "down" /\ settled' = FALSE
    /\ served' = {} /\ openExits' = {} /\ kills' = {} /\ mine' = {}
    /\ job' = NoJobs
    /\ UNCHANGED <<storeVars, inWindow, leftBehind>>

(***************************************************************************)
(* Serving one row.                                                        *)
(***************************************************************************)
Goto(q, s) == job' = [job EXCEPT ![q] = s]

ClaimIsTaken(q) == row[q] = "requested" /\ q \notin late
Claimed(q) == IF ClaimIsTaken(q) THEN [row EXCEPT ![q] = "running"] ELSE row

(* A claim without an answer, sent or not, releases the row.               *)
Claim(q) ==
    /\ job[q] = "claim"
    /\ \/ /\ row' = Claimed(q)
          /\ Goto(q, IF ClaimIsTaken(q) THEN "kill" ELSE "none")
          /\ mine' = IF ClaimIsTaken(q) THEN mine \cup {q} ELSE mine
          /\ UNCHANGED <<served, faults>>
       \/ /\ Fault
          /\ row' \in {row, Claimed(q)}
          /\ Goto(q, "none")
          /\ served' = served \ {q}
          /\ UNCHANGED mine
    /\ UNCHANGED <<task, born, late, inWindow, board, settled, openExits, kills, leftBehind>>

(* A kill does not start past the deadline, and a window that is gone      *)
(* counts as killed.                                                       *)
KillRowWindow(q) ==
    /\ job[q] = "kill"
    /\ \/ /\ q \notin late
          /\ inWindow' = [inWindow EXCEPT ![task[q]] = 0]
          /\ Goto(q, "report done")
          /\ UNCHANGED faults
       \/ /\ UNCHANGED inWindow
          /\ Goto(q, "report failed")
          /\ IF q \in late THEN UNCHANGED faults ELSE Fault
    /\ UNCHANGED <<storeVars, board, settled, served, openExits, kills, mine, leftBehind>>

(* A done report is taken in time and sent again when it got no answer; a  *)
(* refused one, or a lost failure, is only logged.                         *)
ReportOf(q) ==
    CASE row[q] # "running" -> row[q]
      [] job[q] = "report failed" -> "failed"
      [] OTHER -> IF q \in late THEN "running" ELSE "done"

Report(q) ==
    /\ job[q] \in {"report done", "report failed"}
    /\ \/ row' = [row EXCEPT ![q] = ReportOf(q)] /\ UNCHANGED faults
       \/ UNCHANGED row /\ Fault
    /\ Goto(q, "none")
    /\ UNCHANGED <<task, born, late, inWindow, board, settled, served, openExits, kills, mine, leftBehind>>

(* The kill a failed row still owes: best effort, nothing reported.  One   *)
(* that fails is logged and nobody tries again.                            *)
TearDownFailed(q) ==
    /\ q \in kills
    /\ kills' = kills \ {q}
    /\ \/ inWindow' = [inWindow EXCEPT ![task[q]] = 0] /\ UNCHANGED <<leftBehind, faults>>
       \/ leftBehind' = leftBehind \cup {q} /\ UNCHANGED inWindow /\ Fault
    /\ UNCHANGED <<storeVars, board, settled, served, openExits, job, mine>>

ServeOne(q) == Claim(q) \/ KillRowWindow(q) \/ Report(q)
StartStep == NoteOpen \/ Sweep \/ CatchUp \/ KillsAwaited

Next ==
    \/ \E t \in Task : Dispatch(t) \/ AgentLeaves(t)
    \/ \E q \in Session :
        \/ CloseSession(q) \/ CloseAgain(q) \/ DeadlinePasses(q) \/ Backstop(q)
        \/ ServeOne(q) \/ TearDownFailed(q)
    \/ StartStep \/ IdentitySettles \/ Crash \/ ServeRows

Spec == Init /\ [][Next]_vars

(* A board that runs starts up, settles, looks at every change of the rows *)
(* and gets on with its jobs; the store's timer fires.                     *)
Fairness ==
    /\ WF_vars(StartStep)
    /\ WF_vars(IdentitySettles)
    /\ WF_vars(ServeRows)
    /\ \A q \in Session :
        WF_vars(ServeOne(q)) /\ WF_vars(TearDownFailed(q)) /\ WF_vars(Backstop(q))
        /\ WF_vars(DeadlinePasses(q))

FairSpec == Spec /\ Fairness

-----------------------------------------------------------------------------
TypeOK ==
    /\ row \in [Session -> {"absent", "live", "done"} \cup OpenStates \cup FailedStates]
    /\ task \in [Session -> Task]
    /\ born \in 0 .. MaxSessions
    /\ inWindow \in [Task -> 0 .. born]
    /\ board \in {"down", "noted", "swept", "killing", "up"}
    /\ settled \in BOOLEAN
    /\ job \in [Session -> {"none", "waits", "claim", "kill", "report done", "report failed"}]
    /\ late \cup served \cup openExits \cup kills \cup mine \cup leftBehind \subseteq 1 .. born
    /\ faults \in 0 .. MaxFaults

(* A board never fails a row it claimed itself: the sweep of the rows a    *)
(* previous board left running is over before the first claim              *)
(* (recover_session_requests).                                             *)
KeepsOwnClaims == \A q \in mine : row[q] = "running" => row'[q] # "interrupted"

(* The window of a session whose closing row a board has seen open is      *)
(* killed while that board runs: over a claim or a report without answer,  *)
(* a deadline, a later close, a restart sweep, an identity that is not     *)
(* settled yet, and a failing kill, after which there is one more attempt  *)
(* (KillWindowOfFailedExitSession). Only where that fails does it stay.    *)
SeenOpen(q) == q \in openExits
WindowKilled(q) == board = "down" \/ inWindow[task[q]] # q \/ q \in leftBehind

(* Only the window of a session that was closed is killed.                 *)
WorkIsKept ==
    [][\A t \in Task : inWindow[t] # 0 /\ row[inWindow[t]] = "live"
            => inWindow'[t] = inWindow[t]]_vars
=============================================================================
