------------------------------ MODULE MCBoards ------------------------------
(***************************************************************************)
(* Small instances for TLC of the components that follow one task from the *)
(* boards: AgentActivity, BoardTasks, PrPolling and ViewMirror.  A         *)
(* behaviour belongs to one instance, chosen at its start, which is one    *)
(* setting of one component; the variables of the other components rest.   *)
(***************************************************************************)
EXTENDS AgentActivity, BoardTasks, PrPolling, ViewMirror, TLC

CONSTANTS
    Chosen,         \* the instances of a run
    b1, b2, p1, p2, s1, s2

VARIABLE instance

allVars == <<vars, boardVars, prVars, viewVars, instance>>

Turns == {"stop", "prompt", "substart", "substop", "clear"}

Activities ==
    [moves   |-> [subs |-> {s1}, hooks |-> Turns, inOrder |-> FALSE, lossy |-> TRUE,
                  acts |-> {"move", "close", "retry"},
                  clock |-> 2, agents |-> 2, sessions |-> 2, inflight |-> 2],
     crashes |-> [subs |-> {s1}, hooks |-> Turns, inOrder |-> FALSE, lossy |-> TRUE,
                  acts |-> {"close", "crash", "detach", "resume"},
                  clock |-> 2, agents |-> 2, sessions |-> 2, inflight |-> 2],
     swarm   |-> [subs |-> {s1, s2}, hooks |-> Turns, inOrder |-> FALSE, lossy |-> TRUE,
                  acts |-> {"move"},
                  clock |-> 2, agents |-> 1, sessions |-> 1, inflight |-> 2],
     ordered |-> [subs |-> {s1, s2}, hooks |-> Turns, inOrder |-> TRUE, lossy |-> FALSE,
                  acts |-> {"crash", "detach", "resume"},
                  clock |-> 3, agents |-> 1, sessions |-> 3, inflight |-> 1],
     notes   |-> [subs |-> {s1}, hooks |-> {"prompt", "stop", "substart", "note", "tool"},
                  inOrder |-> FALSE, lossy |-> FALSE, acts |-> {},
                  clock |-> 2, agents |-> 1, sessions |-> 1, inflight |-> 2]]

AllActivities == {Activities[i] : i \in DOMAIN Activities}

Keyed(boards, most, from, ops) ==
    [boards |-> boards, agents |-> most, from |-> from, ops |-> ops]

Boards ==
    [pair    |-> Keyed({b1, b2}, 2, "backlog",
                       {"forward", "reorder", "resume", "retry resume", "dies", "dispatch"}),
     keys    |-> Keyed({b1, b2}, 1, "backlog",
                       {"forward", "backward", "done", "reorder", "resume", "retry resume",
                        "dies", "dispatch"}),
     fresh   |-> Keyed({b1, b2}, 2, "backlog",
                       {"reorder", "dispatch", "retry fresh", "dies"}),
     delete  |-> Keyed({b1}, 1, "done",
                       {"done", "reorder", "resume", "delete", "dies", "reopen"}),
     foreign |-> Keyed({b1, b2}, 1, "done", {"reorder", "delete", "reopen"}),
     unborn  |-> Keyed({b1}, 1, "backlog", {"forward", "done", "reorder", "delete", "reopen"}),
     resume  |-> Keyed({b1}, 1, "running",
                       {"forward", "backward", "done", "reorder", "resume", "retry resume",
                        "dies"})]

AllBoards == {Boards[i] : i \in DOMAIN Boards}

Polls(boards, host, threshold, lost, ops) ==
    [boards |-> boards, prs |-> {p1}, first |-> p1, private |-> {}, host |-> host,
     threshold |-> threshold, losses |-> lost, ops |-> ops]

PullRequests ==
    [owned      |-> Polls({b1, b2}, Nobody, 2, 0, {"review", "access", "conflict", "restart"}),
     unreadable |-> Polls({b1}, b1, 3, 0, {"review", "access", "restart", "conflict"}),
     followed   |-> Polls({b1, b2}, Nobody, 2, 1, {"review", "restart"}),
     merged     |-> Polls({b1}, b1, 2, 0, {"review", "conflict", "access"}),
     prompted   |-> Polls({b1}, b1, 2, 1, {"review", "prompt"}),
     moved      |-> [Polls({b1}, Nobody, 1, 1, {"edit url", "access", "dispatch", "move", "prompt"})
                     EXCEPT !.prs = {p1, p2}],
     retargeted |-> [Polls({b1}, Nobody, 2, 0, {"review", "edit url"})
                     EXCEPT !.prs = {p1, p2}, !.private = {p1}]]

AllPullRequests == {PullRequests[i] : i \in DOMAIN PullRequests}

Views ==
    [rows  |-> [texts |-> {"a"}, spoilt |-> TRUE, agents |-> {"first"}],
     board |-> [texts |-> {"a"}, spoilt |-> FALSE, agents |-> {"first"}],
     alone |-> [texts |-> {"a"}, spoilt |-> FALSE, agents |-> {}]]

AllViews == {Views[i] : i \in DOMAIN Views}

ActivityRests == setting = Activities.swarm /\ Init
BoardsRest == boardSetting = Boards.pair /\ BoardInit
PullRequestRests == prSetting = PullRequests.owned /\ PrInit
ViewRests == viewSetting = Views.alone /\ ViewInit

MCInit ==
    \/ /\ \E i \in Chosen \cap DOMAIN Activities :
              instance = i /\ setting = Activities[i] /\ Init
       /\ BoardsRest /\ PullRequestRests /\ ViewRests
    \/ /\ \E i \in Chosen \cap DOMAIN Boards :
              instance = i /\ boardSetting = Boards[i] /\ BoardInit
       /\ ActivityRests /\ PullRequestRests /\ ViewRests
    \/ /\ \E i \in Chosen \cap DOMAIN PullRequests :
              instance = i /\ prSetting = PullRequests[i] /\ PrInit
       /\ ActivityRests /\ BoardsRest /\ ViewRests
    \/ /\ \E i \in Chosen \cap DOMAIN Views :
              instance = i /\ viewSetting = Views[i] /\ ViewInit
       /\ ActivityRests /\ BoardsRest /\ PullRequestRests

OfActivity == instance \in DOMAIN Activities
OfBoards == instance \in DOMAIN Boards
OfPullRequest == instance \in DOMAIN PullRequests
OfView == instance \in DOMAIN Views

MCNext ==
    \/ OfActivity /\ Next /\ UNCHANGED <<boardVars, prVars, viewVars, instance>>
    \/ OfBoards /\ BoardNext /\ UNCHANGED <<vars, prVars, viewVars, instance>>
    \/ OfPullRequest /\ PrNext /\ UNCHANGED <<vars, boardVars, viewVars, instance>>
    \/ OfView /\ ViewNext /\ UNCHANGED <<vars, boardVars, prVars, instance>>

MCSpec == MCInit /\ [][MCNext]_allVars

(* In the instances of the run that checks safety alone, no board and no   *)
(* subagent stands out.                                                    *)
Alike == Permutations({b1, b2}) \cup Permutations({s1, s2})

(* The fairness each component states: a board that runs ticks, handles    *)
(* what comes in and ends what it started.                                 *)
MCFairSpec ==
    /\ MCSpec
    /\ WF_activityVars(OfActivity /\ Deliver)
    /\ WF_activityVars(OfActivity /\ TickSubStatus)
    /\ WF_activityVars(OfActivity /\ WindowGone)
    /\ \A sub \in {s1, s2} : WF_activityVars(OfActivity /\ StopSubagent(sub))
    /\ \A b \in {b1, b2} :
           /\ WF_workVars(OfBoards /\ b \in Board /\ TickWindowCheck(b))
           /\ WF_workVars(OfBoards /\ b \in Board /\ WindowChecked(b))
           /\ WF_workVars(OfBoards /\ b \in Board /\ WindowKilled(b))
           /\ WF_workVars(OfBoards /\ b \in Board /\ ResumeRuns(b))
           /\ WF_workVars(OfBoards /\ b \in Board /\ CleanupEnds(b))
           /\ WF_workVars(OfBoards /\ b \in Board /\ HandleMessage(b))
           /\ WF_workVars(OfBoards /\ b \in Board /\ RefreshCopy(b))
    /\ \A b \in {b1, b2} :
           /\ WF_pollVars(OfPullRequest /\ b \in PrBoard /\ PollStep(b))
           /\ WF_pollVars(OfPullRequest /\ b \in PrBoard /\ HandleAnswer(b))
           /\ WF_pollVars(OfPullRequest /\ b \in PrBoard /\ RunJob(b))
           /\ WF_pollVars(OfPullRequest /\ b \in PrBoard /\ See(b))
    /\ WF_pollVars(OfPullRequest /\ Stop)
    /\ WF_mirrorVars(OfView /\ Callback)
    /\ WF_mirrorVars(OfView /\ Wake)
    /\ WF_mirrorVars(OfView /\ Read)

----------------------------------------------------------------------------
(* Liveness *)

(* A turn that ended leaves the running column, and a block the session    *)
(* reported is shown.                                                      *)
TurnUnapplied(sid) ==
    instance = "ordered" /\ TurnEnded(sid) /\ task.status = "running"
Unshown == instance = "notes" /\ Blocked /\ task.sub # "needs_input"

TurnsAreShown ==
    /\ \A sid \in 1..Activities.ordered.sessions : TurnUnapplied(sid) ~> ~TurnUnapplied(sid)
    /\ Unshown ~> ~Unshown

(* Once nobody presses a key any more, a window the row names that is gone *)
(* does not stay unnoticed.                                                *)
WindowOfB1Lost == instance = "resume" /\ WindowLost(b1)

WindowLossIsNoticed ==
    <>[][instance = "resume" => KeysRest]_workVars =>
        (WindowOfB1Lost ~> ~WindowOfB1Lost)

(* Once GitHub, the people and the agents leave the task alone, it comes   *)
(* to show the state of its pull request whichever board reads it, a merge *)
(* closes it and ends its window, and one that stays unreadable is shown   *)
(* as such.                                                                *)
PullRequestsAreFollowed ==
    /\ <>(instance = "followed" /\ prQuiet)
           => <>[](instance = "followed" => ShowsItsPr)
    /\ <>[](instance = "unreadable" /\ prQuiet /\ prRow.status = "review" /\ ~readable[prRow.url])
           => <>[](instance = "unreadable" => prRow.sub \in {"pr_unreachable", "conflict"})
    /\ <>(instance = "merged" /\ prQuiet)
           => <>[](instance = "merged" => (prRow.status = "done" => prAgent = "none"))

(* Once the store stops changing, the board comes to show the row it       *)
(* serves.                                                                 *)
TheBoardCatchesUp ==
    <>[](instance = "alone" /\ viewQuiet) => <>[](instance = "alone" => ShowsServed)
=============================================================================
