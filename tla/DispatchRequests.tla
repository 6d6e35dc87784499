--------------------------- MODULE DispatchRequests ---------------------------
(***************************************************************************)
(* The store side of a dispatch: the reducers over dispatch_requests,      *)
(* their backstop timers, and the reducers over tasks, agents, epics and   *)
(* hosts that a request in flight can meet.  A reducer is one transaction, *)
(* so each is one action; a refused call writes nothing and is no step.    *)
(*                                                                         *)
(* A request's clock is its age: the ticks since requested_at while it is  *)
(* open, since finished_at once it is not.  `now < deadline` is then       *)
(* age < Deadline, and the backstop is due at age = Deadline + Grace.      *)
(***************************************************************************)
EXTENDS TaskRules, Integers, FiniteSets

CONSTANTS
    MaxRequests,  \* bound: how many request rows a behaviour may draw
    Deadline,     \* config.dispatch_request_timeout, in ticks
    Grace,        \* config.dispatch_request_backstop_grace, in ticks
    Retention,    \* config.request_retention, in ticks
    Origins,      \* the origins a caller may name
    Patches       \* the patches boards send

Backstop == Deadline + Grace

ASSUME TimingAssumption ==
    /\ MaxRequests \in Nat
    /\ Deadline \in Nat \ {0}
    /\ Grace \in Nat \ {0}
    /\ Retention \in Nat \ {0}

(* "mcp" and "quick" requests meet the same rules as "user" ones. *)
ASSUME OriginsAssumption == Origins \subseteq {"user", "epic_chain", "schedule"}

(* A patch names some fields and gives each a value.  Each is named or     *)
(* left out on its own: worktree and host too.                             *)
PatchRow == [names : SUBSET {"status", "worktree", "host", "window", "schedule", "phoenix"},
             status : Status,
             worktree : Worktree \cup {None},
             host : Host \cup {None},
             window : Window \cup {None},
             schedule : BOOLEAN,
             phoenix : BOOLEAN]

ASSUME PatchesAssumption == Patches \subseteq PatchRow

VARIABLES
    hosts,        \* hosts: the owner of each registered host
    task,         \* tasks
    agent,        \* agents: the current agent of each task
    epic,         \* epics: the status of each
    request,      \* dispatch_requests
    timers,       \* dispatch_request_timeouts: the request ids that hold one
    nextRequest   \* the generated id of the next request row

storeVars == <<hosts, task, agent, epic, request, timers, nextRequest>>

RequestId == 1 .. MaxRequests

(* The registry: an owner, "ownerless" (a legacy row), or no row at all.   *)
HostRow == [row : {"unregistered", "ownerless", "owned"}, owner : User \cup {None}]

OpenStates == {"requested", "provisioning"}
TerminalStates == {"dispatched", "failed"}

RequestRow == [state : {"absent"} \cup OpenStates \cup TerminalStates,
               task : Task \cup {None},
               host : Host \cup {None},
               by : User \cup {None},
               origin : {"user", "epic_chain", "schedule"},
               age : Nat,
               worktree : Worktree \cup {None},
               window : Window \cup {None}]

NoRequest == [state |-> "absent", task |-> None, host |-> None, by |-> None,
              origin |-> "user", age |-> 0, worktree |-> None, window |-> None]

IsOpen(r) == request[r].state \in OpenStates
OpenRequests == {r \in RequestId : IsOpen(r)}
RequestsOf(t) == {r \in RequestId : request[r].task = t}

(* Faulty first: the rows no host has claimed are forgotten. *)
ClaimedRequestsOf(t) == {r \in RequestsOf(t) : request[r].state = "provisioning"}

OpenRequestsOf(t) == {r \in OpenRequests : request[r].task = t}

----------------------------------------------------------------------------
(* Hosts *)

ActingFor(u, h) == hosts[h].row = "owned" /\ hosts[h].owner = u

(* A new row names its owner, the caller; a legacy ownerless row is        *)
(* adopted by the first caller who names itself.                           *)
RegisterHost(u, h) ==
    /\ hosts[h].row \in {"unregistered", "ownerless"}
    /\ hosts' = [hosts EXCEPT ![h] = [row |-> "owned", owner |-> u]]
    /\ UNCHANGED <<task, agent, epic, request, timers, nextRequest>>

(* A host that belongs to somebody else: what a patch may not aim at. *)
SomeoneElses(u, h) == h # None /\ hosts[h].row # "unregistered" /\ hosts[h].owner # u

----------------------------------------------------------------------------
(* Requesting *)

MayDispatch(t, h, origin) ==
    /\ task[t].status = "backlog"
    /\ ClaimableBy(task[t], h)
    /\ OpenRequestsOf(t) = {}
    /\ origin = "epic_chain" => ~task[t].phoenix /\ task[t].due # "ahead"
    /\ origin = "schedule" => task[t].due = "due"

NewRequest(t, h, u, origin) ==
    [NoRequest EXCEPT !.state = "requested", !.task = t, !.host = h, !.by = u,
                      !.origin = origin]

(* Terminal rows past their retention.  A request prunes the failed ones   *)
(* and, of the dispatched ones, those no live exit token needs: the tokens *)
(* are not modelled here, so it may be any of them.                        *)
Prunable == {r \in RequestId : /\ request[r].state \in TerminalStates
                               /\ request[r].age = Retention}

Pruned(gone) == [r \in RequestId |-> IF r \in gone THEN NoRequest ELSE request[r]]

(* The writes of a request accepted over the tasks ts, agents ag and epics *)
(* es that the same transaction has already written.                       *)
CreateDispatchRequest(t, h, u, origin, gone, ts, ag, es) ==
    LET claimed == [ts EXCEPT ![t] = ClaimedTask(@)]
    IN  /\ nextRequest \in RequestId
        /\ task' = claimed
        /\ agent' = [ag EXCEPT ![t] = NewAgent(h)]
        /\ epic' = RecalculatedChains(claimed, es, {EpicOf[t]})
        /\ request' = [Pruned(gone) EXCEPT ![nextRequest] = NewRequest(t, h, u, origin)]
        /\ timers' = timers \cup {nextRequest}
        /\ nextRequest' = nextRequest + 1

RequestDispatch(u, t, h, origin, gone) ==
    /\ ActingFor(u, h)
    /\ MayDispatch(t, h, origin)
    /\ {r \in Prunable : request[r].state = "failed"} \subseteq gone
    /\ CreateDispatchRequest(t, h, u, origin, gone, task, agent, epic)
    /\ UNCHANGED hosts

----------------------------------------------------------------------------
(* The host's claim and its reports *)

ClaimDispatchRequest(u, r) ==
    /\ request[r].state = "requested"
    /\ ActingFor(u, request[r].host)
    /\ request' = [request EXCEPT ![r].state = "provisioning"]
    /\ UNCHANGED <<hosts, task, agent, epic, timers, nextRequest>>

(* A report the row already records is accepted and writes nothing. *)
ReportIsRepeat(r, w, win) ==
    /\ request[r].state = "dispatched"
    /\ request[r].worktree = w
    /\ request[r].window = win

ReportDispatchProvisioned(u, r, w, win) ==
    LET t == request[r].task
        ts == [task EXCEPT ![t] = DispatchedTask(@, w, request[r].host)]
    IN  /\ request[r].state = "provisioning"
        /\ ActingFor(u, request[r].host)
        /\ request[r].age < Deadline
        /\ Exists(task[t])
        /\ task' = ts
        /\ agent' = [agent EXCEPT ![t] = WithWindow(@, win)]
        /\ epic' = RecalculatedChains(ts, epic, {EpicOf[t]})
        /\ timers' = timers \ {r}
        /\ request' = [request EXCEPT ![r] =
                         [@ EXCEPT !.state = "dispatched", !.age = 0,
                                   !.worktree = w, !.window = win]]
        /\ UNCHANGED <<hosts, nextRequest>>

----------------------------------------------------------------------------
(* The one failure path.  F is the set of open rows one transaction fails, *)
(* ts, ag and es what it has already written.                              *)

FailedRow(row) == [row EXCEPT !.state = "failed", !.age = 0]

RowsFailed(F) == [r \in RequestId |-> IF r \in F THEN FailedRow(request[r]) ELSE request[r]]

FailedTasks(F) == {request[r].task : r \in F} \cap Task

OriginOf(F, t) == request[CHOOSE r \in F : request[r].task = t].origin

TasksAfterFailure(F, ts) ==
    [t \in Task |-> IF t \in FailedTasks(F) /\ Exists(ts[t])
                    THEN TaskAfterFailedRequest(ts[t], OriginOf(F, t))
                    ELSE ts[t]]

AgentsAfterFailure(F, ts, ag) ==
    [t \in Task |-> IF t \in FailedTasks(F) /\ IsBareClaim(ts[t])
                    THEN NoAgent ELSE ag[t]]

FailDispatchRequests(F) ==
    LET ts == TasksAfterFailure(F, task)
    IN  /\ task' = ts
        /\ agent' = AgentsAfterFailure(F, task, agent)
        /\ epic' = RecalculatedChains(ts, epic, {EpicOf[t] : t \in FailedTasks(F)})
        /\ request' = RowsFailed(F)

ReportDispatchFailed(u, r) ==
    /\ request[r].state = "provisioning"
    /\ ActingFor(u, request[r].host)
    /\ FailDispatchRequests({r})
    /\ timers' = timers \ {r}
    /\ UNCHANGED <<hosts, nextRequest>>

(* Faulty: every row of the host, finished ones included. *)
EveryRowOf(h) == {r \in RequestId : request[r].host = h}

Interrupted(h) ==
    {r \in RequestId : request[r].state = "provisioning" /\ request[r].host = h}

FailInterruptedDispatchRequests(u, h) ==
    /\ ActingFor(u, h)
    /\ Interrupted(h) # {}
    /\ FailDispatchRequests(Interrupted(h))
    /\ timers' = timers \ Interrupted(h)
    /\ UNCHANGED <<hosts, nextRequest>>

(* The scheduled backstop: a row that finished in time is left alone.      *)
ExpireDispatchRequest(r) ==
    /\ r \in timers
    /\ request[r].age >= Backstop
    /\ FailDispatchRequests({r} \cap OpenRequests)
    /\ timers' = timers \ {r}
    /\ UNCHANGED <<hosts, nextRequest>>

----------------------------------------------------------------------------
(* Tasks *)

CreateTask(t, ph, scheduled) ==
    LET ts == [task EXCEPT ![t] =
                 ArmedTask([BlankTask EXCEPT !.status = "backlog", !.phoenix = ph,
                                             !.schedule = scheduled])]
    IN  /\ task[t].status = "unborn"
        /\ task' = ts
        /\ epic' = RecalculatedChains(ts, epic, {EpicOf[t]})
        /\ UNCHANGED <<hosts, agent, request, timers, nextRequest>>

(* The id a phoenix task's successor takes, in the same epic. *)
Successors(t) == {s \in Task : task[s].status = "unborn" /\ EpicOf[s] = EpicOf[t]}

(* A write of `row` over task t that may bring t into done: the tasks it   *)
(* leaves, the successor s taken when the row was a phoenix's.             *)
TasksWithRespawn(t, row, s) ==
    IF ShouldRespawnPhoenix(task[t].status, row)
    THEN [task EXCEPT ![t] = [row EXCEPT !.phoenix = FALSE],
                      ![s] = PhoenixSuccessor(row)]
    ELSE [task EXCEPT ![t] = row]

SuccessorFor(t, row, s) ==
    IF ShouldRespawnPhoenix(task[t].status, row)
    THEN s \in Successors(t)
    ELSE s = t

PatchedTask(row, p) ==
    LET fields == [row EXCEPT
                     !.status = IF "status" \in p.names THEN p.status ELSE @,
                     !.worktree = IF "worktree" \in p.names THEN p.worktree ELSE @,
                     !.host = IF "host" \in p.names THEN p.host ELSE @,
                     !.phoenix = IF "phoenix" \in p.names THEN p.phoenix ELSE @]
        scheduled == IF "schedule" \in p.names
                     THEN ApplySchedule(fields, p.schedule) ELSE fields
    IN  ScheduleAfterStatusWrite(row.status, scheduled)

NamesAWindow(p) == "window" \in p.names /\ p.window # None

(* PatchTaskNeverAimsAnotherHostsTeardown: while another person's host     *)
(* holds the task its pointer and window are out of reach, and a task is   *)
(* never moved onto another person's host.                                 *)
MayAim(u, row, p) ==
    LET rehosts == "host" \in p.names /\ p.host # row.host
        repoints == "worktree" \in p.names /\ p.worktree # row.worktree
    IN  /\ rehosts \/ repoints \/ NamesAWindow(p) => ~SomeoneElses(u, row.host)
        /\ rehosts => ~SomeoneElses(u, p.host)

PatchTask(u, t, p, s) ==
    LET row == PatchedTask(task[t], p)
        ts == TasksWithRespawn(t, row, s)
        ag == IF "window" \in p.names THEN WithWindow(agent[t], p.window) ELSE agent[t]
    IN  /\ Exists(task[t])
        /\ MayAim(u, task[t], p)
        /\ NamesAWindow(p) => agent[t].current
        /\ ("schedule" \in p.names /\ p.schedule) => MayTakeSchedule(row)
        /\ SuccessorFor(t, row, s)
        /\ task' = ts
        /\ agent' = [agent EXCEPT ![t] = FollowTaskWrite(ag, task[t], row)]
        /\ epic' = IF row.status # task[t].status
                   THEN RecalculatedChains(ts, epic, {EpicOf[t]}) ELSE epic
        /\ UNCHANGED <<hosts, request, timers, nextRequest>>

(* Both closes leave the agent current and take its window.  F is the open *)
(* requests a close fails, after its Done write, so that nothing is        *)
(* released and no agent is ended by the failure.                          *)
ClosedAgent(ag) == WithWindow(ag, None)

CloseTask(t, s) ==
    LET row == DoneTask(task[t])
        ts == TasksWithRespawn(t, row, s)
        F == OpenRequestsOf(t)
        failed == TasksAfterFailure(F, ts)
        ended == AgentsAfterFailure(F, ts, agent)
    IN  /\ Exists(task[t])
        /\ SuccessorFor(t, row, s)
        /\ task' = failed
        /\ agent' = [ended EXCEPT ![t] = ClosedAgent(@)]
        /\ request' = RowsFailed(F)
        /\ timers' = timers \ F
        /\ epic' = RecalculatedChains(failed, epic, {EpicOf[t]})
        /\ UNCHANGED <<hosts, nextRequest>>

(* The row, its agent, its requests and their timers go together. *)
DeleteTask(t) ==
    LET ts == [task EXCEPT ![t] = DeletedTask]
    IN  /\ task[t].status = "done"
        /\ task' = ts
        /\ agent' = [agent EXCEPT ![t] = NoAgent]
        /\ request' = Pruned(RequestsOf(t))
        /\ timers' = timers \ OpenRequestsOf(t)
        /\ epic' = RecalculatedChains(ts, epic, {EpicOf[t]})
        /\ UNCHANGED <<hosts, nextRequest>>

----------------------------------------------------------------------------
(* Time *)

MaxAge(row) == IF row.state \in OpenStates THEN Backstop ELSE Retention

Aged(row) == IF row.state # "absent" /\ row.age < MaxAge(row)
             THEN [row EXCEPT !.age = @ + 1] ELSE row

(* One tick for every row at once; an age stops counting at the last value *)
(* any rule tells apart.                                                   *)
Tick ==
    /\ request' = [r \in RequestId |-> Aged(request[r])]
    /\ request' # request
    /\ UNCHANGED <<hosts, task, agent, epic, timers, nextRequest>>

DueTimePasses(t) ==
    /\ task[t].due = "ahead"
    /\ task' = [task EXCEPT ![t].due = "due"]
    /\ UNCHANGED <<hosts, agent, epic, request, timers, nextRequest>>

----------------------------------------------------------------------------
(* The specification *)

Init ==
    /\ hosts \in [Host -> {[row |-> "unregistered", owner |-> None],
                           [row |-> "ownerless", owner |-> None]}]
    /\ task = [t \in Task |-> BlankTask]
    /\ agent = [t \in Task |-> NoAgent]
    /\ epic = [e \in Epic |-> "backlog"]
    /\ request = [r \in RequestId |-> NoRequest]
    /\ timers = {}
    /\ nextRequest = 1

ClientStep(u) ==
    \/ \E h \in Host : RegisterHost(u, h)
    \/ \E t \in Task, h \in Host, o \in Origins, gone \in SUBSET Prunable :
         RequestDispatch(u, t, h, o, gone)
    \/ \E r \in RequestId : ClaimDispatchRequest(u, r)
    \/ \E r \in RequestId, w \in Worktree, win \in Window :
         ReportDispatchProvisioned(u, r, w, win)
    \/ \E r \in RequestId : ReportDispatchFailed(u, r)
    \/ \E h \in Host : FailInterruptedDispatchRequests(u, h)
    \/ \E t \in Task, s \in Task, p \in Patches : PatchTask(u, t, p, s)

Next ==
    \/ \E u \in User : ClientStep(u)
    \/ \E t \in Task, ph \in BOOLEAN, scheduled \in BOOLEAN : CreateTask(t, ph, scheduled)
    \/ \E t \in Task, s \in Task : CloseTask(t, s)
    \/ \E t \in Task : DeleteTask(t)
    \/ \E r \in RequestId : ExpireDispatchRequest(r)
    \/ \E t \in Task : DueTimePasses(t)
    \/ Tick

Spec == Init /\ [][Next]_storeVars

(* Time passes and the module's scheduler runs a timer that is due.        *)
Fairness ==
    /\ WF_storeVars(Tick)
    /\ \A r \in RequestId : WF_storeVars(ExpireDispatchRequest(r))

FairSpec == Spec /\ Fairness
----------------------------------------------------------------------------
(* Properties *)

TypeOK ==
    /\ hosts \in [Host -> HostRow]
    /\ task \in [Task -> TaskRow]
    /\ agent \in [Task -> AgentRow]
    /\ epic \in [Epic -> Status]
    /\ request \in [RequestId -> RequestRow]
    /\ timers \in SUBSET RequestId
    /\ nextRequest \in Nat \ {0}

(* store-split.allium OneOpenDispatchRequestPerTask: request_dispatch, the *)
(* epic chain and a second board racing them never open two requests on    *)
(* one task.                                                               *)
OneOpenDispatchRequestPerTask ==
    \A a, b \in OpenRequests : request[a].task = request[b].task => a = b

(* Every open row has the backstop timer that will end it, and no path     *)
(* that ends a row leaves its timer behind.                                *)
TimerExactlyWhileOpen == timers = OpenRequests

(* A request was written by the owner of the host it names and that owner  *)
(* is still the only one who may claim it or report on it.                 *)
RequestNamesItsHostsOwner ==
    \A r \in RequestId :
        request[r].state # "absent" => ActingFor(request[r].by, request[r].host)

(* The open rows, their timers and the registry agree: one launch per task *)
(* at a time, each with the backstop that will end it and the one owner    *)
(* who may report on it, whichever boards race, restart or give up.        *)
RequestRowsAgree ==
    /\ OneOpenDispatchRequestPerTask
    /\ TimerExactlyWhileOpen
    /\ RequestNamesItsHostsOwner

(* While a launch is open, the task's current agent, if no pointer release *)
(* ended it, is the one that launch started, on the launching host.        *)
OpenLaunchOwnsTheAgent ==
    \A r \in OpenRequests :
        agent[request[r].task].current => agent[request[r].task].host = request[r].host

(* A pending run belongs to a scheduled task that is still in backlog or   *)
(* whose launch has not ended: no close, hand move or failed launch leaves *)
(* one that would fire when the card is next moved to backlog.             *)
PendingRunBelongsToAWaitingTask ==
    \A t \in Task : task[t].due # "none" =>
        task[t].schedule /\ task[t].status \in {"backlog", "running"}

(* The rollup of every reducer leaves each epic done exactly when all of   *)
(* its children, sub-epics included, are done.                             *)
EpicsAreDoneWithTheirChildren ==
    \A e \in Epic :
        ChildStatuses(task, epic, e) # {} =>
            ((epic[e] = "done") <=> (ChildStatuses(task, epic, e) = {"done"}))

(* core.allium LocalHostOwnerIsWrittenOnce. *)
HostOwnerIsWrittenOnce ==
    [][\A h \in Host : hosts[h].row = "owned" => hosts'[h] = hosts[h]]_storeVars

(* Whichever path ends a task's open request (a report, the backstop, a    *)
(* restart sweep, a close, a delete), the task is not left a bare claim    *)
(* that no request will ever finish.                                       *)
NoClaimIsStranded ==
    [][\A t \in Task :
         (OpenRequestsOf(t) # {} /\ OpenRequestsOf(t)' = {}) =>
             ~IsBareClaim(task'[t])]_storeVars

(* However an open request fails (a report, the backstop, a restart sweep, *)
(* a close), it takes back no more than the bare claim it made: a task     *)
(* that moved on meanwhile, or that a board wrote a worktree back into,    *)
(* keeps its status (a close makes it done), its worktree, the host that   *)
(* holds it and its agent.                                                 *)
FailuresTakeOnlyTheClaim ==
    [][\A r \in RequestId :
         LET t == request[r].task IN
         (IsOpen(r) /\ request'[r].state = "failed" /\ ~IsBareClaim(task[t])) =>
             /\ task'[t].status \in {task[t].status, "done"}
             /\ task'[t].worktree = task[t].worktree
             /\ task'[t].host = task[t].host
             /\ agent[t].current => agent'[t].current]_storeVars

(* agents.allium CurrentAgentTracksWorktree, as the document states it: a  *)
(* current agent without a worktree has a launch in flight.  close_task    *)
(* fails the launch after its Done write, so it ends no agent.             *)
CurrentAgentTracksWorktree ==
    \A t \in Task :
        /\ task[t].worktree # None => agent[t].current
        /\ agent[t].current => task[t].worktree # None \/ OpenRequestsOf(t) # {}

(* The backstop ends every request, whatever its host and the callers do.  *)
EveryRequestEnds ==
    \A r \in RequestId : IsOpen(r) ~> ~IsOpen(r)
----------------------------------------------------------------------------
(* What the store promises a host: DispatchLease.  A request's phase is    *)
(* its row's state, a task's holder its open request.                      *)

PhaseOf(r) == IF request[r].state # "absent" THEN request[r].state
              ELSE IF r < nextRequest THEN "forgotten" ELSE "unborn"

Lease == INSTANCE DispatchLease WITH
           Id <- RequestId,
           phase <- [r \in RequestId |-> PhaseOf(r)],
           held <- [t \in Task |-> OpenRequestsOf(t)]

(* Every reducer is a lease step or touches no lease: a task is leased to  *)
(* one request at a time, a lease ends once, an id is never used again.    *)
LeaseIsRespected == Lease!Spec
============================================================================
