----------------------- MODULE DispatchRequests_proofs -----------------------
(***************************************************************************)
(* Proofs about the store side of a dispatch, for every set of tasks,      *)
(* hosts, users, epics, worktrees and windows, every forest of epics, every*)
(* timeout and every set of patches that obeys the assumptions.            *)
(***************************************************************************)
EXTENDS DispatchRequests, TLAPS

(* ----- What the rules of TaskRules do to one row ----- *)

(* A claim, a release, a provisioned worktree and a close give a row back. *)
LEMMA RowRules ==
    ASSUME NEW row \in TaskRow
    PROVE  /\ ClaimedTask(row) \in TaskRow
           /\ ReleasedTask(row) \in TaskRow
           /\ \A w \in Worktree, h \in Host \cup {None} : DispatchedTask(row, w, h) \in TaskRow
           /\ DoneTask(row) \in TaskRow
           /\ ArmedTask(row) \in TaskRow
    BY DEF TaskRow, Status, ClaimedTask, ReleasedTask, DispatchedTask, DoneTask, ArmedTask

LEMMA NewRows ==
    /\ BlankTask \in TaskRow
    /\ DeletedTask \in TaskRow
    /\ \A row \in TaskRow : PhoenixSuccessor(row) \in TaskRow
    /\ \A ph \in BOOLEAN, on \in BOOLEAN :
         ArmedTask([BlankTask EXCEPT !.status = "backlog", !.phoenix = ph,
                                     !.schedule = on]) \in TaskRow
    BY DEF TaskRow, Status, BlankTask, DeletedTask, PhoenixSuccessor, ArmedTask

(* A failed launch never keeps the bare claim, and moves no pointer. *)
LEMMA FailedRequestReleases ==
    ASSUME NEW row \in TaskRow, NEW origin
    PROVE  LET after == TaskAfterFailedRequest(row, origin)
           IN  /\ after \in TaskRow
               /\ after.worktree = row.worktree
               /\ after.host = row.host
               /\ ~IsBareClaim(after)
    BY DEF TaskRow, Status, TaskAfterFailedRequest, ReleasedTask, IsBareClaim,
           ScheduleAfterFailedLaunch

(* The schedule follow-ups of a patch write only the schedule. *)
LEMMA ScheduleRules ==
    ASSUME NEW row \in TaskRow, NEW prior, NEW on \in BOOLEAN
    PROVE  /\ ApplySchedule(row, on) \in TaskRow
           /\ ScheduleAfterStatusWrite(prior, row) \in TaskRow
           /\ ApplySchedule(row, on).worktree = row.worktree
           /\ ApplySchedule(row, on).host = row.host
           /\ ScheduleAfterStatusWrite(prior, row).worktree = row.worktree
           /\ ScheduleAfterStatusWrite(prior, row).host = row.host
    BY DEF TaskRow, Status, ApplySchedule, ScheduleAfterStatusWrite

LEMMA PatchKeepsType ==
    ASSUME NEW row \in TaskRow, NEW p \in Patches
    PROVE  PatchedTask(row, p) \in TaskRow
<1> DEFINE fields == [row EXCEPT
                        !.status = IF "status" \in p.names THEN p.status ELSE @,
                        !.worktree = IF "worktree" \in p.names THEN p.worktree ELSE @,
                        !.host = IF "host" \in p.names THEN p.host ELSE @,
                        !.phoenix = IF "phoenix" \in p.names THEN p.phoenix ELSE @]
           scheduled == IF "schedule" \in p.names
                        THEN ApplySchedule(fields, p.schedule) ELSE fields
<1>1. p \in PatchRow
  BY PatchesAssumption
<1>2. fields \in TaskRow
  BY <1>1 DEF TaskRow, PatchRow, Status
<1>3. scheduled \in TaskRow
  <2> HIDE DEF fields
  <2>1. p.schedule \in BOOLEAN
    BY <1>1 DEF PatchRow
  <2> QED BY <1>2, <2>1, ScheduleRules
<1>4. PatchedTask(row, p) = ScheduleAfterStatusWrite(row.status, scheduled)
  BY DEF PatchedTask
<1> HIDE DEF scheduled
<1> QED BY <1>3, <1>4, ScheduleRules

(* The rollup gives every epic a status, whatever the tasks are. *)
LEMMA RollupKeepsType ==
    ASSUME NEW ts, NEW es \in [Epic -> Status], NEW E
    PROVE  RecalculatedChains(ts, es, E) \in [Epic -> Status]
<1>1. ASSUME NEW fs \in [Epic -> Status], NEW D
      PROVE  Recalculated(ts, fs, D) \in [Epic -> Status]
  BY DEF Recalculated, DeriveEpicStatus, Status
<1> QED BY <1>1 DEF RecalculatedChains

----------------------------------------------------------------------------
(* ----- Type correctness ----- *)

LEMMA AgentRules ==
    /\ NoAgent \in AgentRow
    /\ \A h \in Host \cup {None} : NewAgent(h) \in AgentRow
    /\ \A ag \in AgentRow, w \in Window \cup {None} : WithWindow(ag, w) \in AgentRow
    BY DEF AgentRow, NoAgent, NewAgent, WithWindow

LEMMA RequestRules ==
    /\ NoRequest \in RequestRow
    /\ \A t \in Task, h \in Host, u \in User, o \in Origins : NewRequest(t, h, u, o) \in RequestRow
    /\ \A row \in RequestRow : FailedRow(row) \in RequestRow /\ Aged(row) \in RequestRow
<1>1. NoRequest \in RequestRow
  BY DEF NoRequest, RequestRow, OpenStates, TerminalStates
<1>2. ASSUME NEW t \in Task, NEW h \in Host, NEW u \in User, NEW o \in Origins
      PROVE  NewRequest(t, h, u, o) \in RequestRow
  BY OriginsAssumption DEF NewRequest, NoRequest, RequestRow, OpenStates, TerminalStates
<1>3. ASSUME NEW row \in RequestRow
      PROVE  FailedRow(row) \in RequestRow /\ Aged(row) \in RequestRow
  <2>1. FailedRow(row) \in RequestRow
    BY DEF FailedRow, RequestRow, OpenStates, TerminalStates
  <2>2. row.age + 1 \in Nat
    BY DEF RequestRow
  <2>3. [row EXCEPT !.age = row.age + 1] \in RequestRow
    BY <2>2 DEF RequestRow
  <2> QED BY <2>1, <2>3 DEF Aged
<1> QED BY <1>1, <1>2, <1>3

(* The one failure path gives back rows of every table. *)
LEMMA FailureKeepsType ==
    ASSUME TypeOK, NEW F, NEW ts \in [Task -> TaskRow], NEW ag \in [Task -> AgentRow]
    PROVE  /\ RowsFailed(F) \in [RequestId -> RequestRow]
           /\ TasksAfterFailure(F, ts) \in [Task -> TaskRow]
           /\ AgentsAfterFailure(F, ts, ag) \in [Task -> AgentRow]
<1>1. RowsFailed(F) \in [RequestId -> RequestRow]
  BY RequestRules DEF TypeOK, RowsFailed
<1>2. TasksAfterFailure(F, ts) \in [Task -> TaskRow]
  BY FailedRequestReleases DEF TasksAfterFailure
<1>3. AgentsAfterFailure(F, ts, ag) \in [Task -> AgentRow]
  BY AgentRules DEF AgentsAfterFailure
<1> QED BY <1>1, <1>2, <1>3

LEMMA FailDispatchRequestsKeepsType ==
    ASSUME TypeOK, NEW F, FailDispatchRequests(F)
    PROVE  /\ request' \in [RequestId -> RequestRow]
           /\ task' \in [Task -> TaskRow]
           /\ agent' \in [Task -> AgentRow]
           /\ epic' \in [Epic -> Status]
    BY FailureKeepsType, RollupKeepsType DEF FailDispatchRequests, TypeOK

(* A write that may complete a phoenix task gives back rows. *)
LEMMA RespawnKeepsType ==
    ASSUME TypeOK, NEW t \in Task, NEW s \in Task, NEW row \in TaskRow
    PROVE  TasksWithRespawn(t, row, s) \in [Task -> TaskRow]
<1>1. [row EXCEPT !.phoenix = FALSE] \in TaskRow
  BY DEF TaskRow
<1> QED BY <1>1, NewRows DEF TypeOK, TasksWithRespawn

LEMMA TypeInit == Init => TypeOK
<1> SUFFICES ASSUME Init PROVE TypeOK
  OBVIOUS
<1>1. hosts \in [Host -> HostRow]
  BY DEF Init, HostRow
<1>2. task \in [Task -> TaskRow] /\ agent \in [Task -> AgentRow]
  BY NewRows, AgentRules DEF Init
<1>3. epic \in [Epic -> Status] /\ request \in [RequestId -> RequestRow]
  BY RequestRules DEF Init, Status
<1> QED BY <1>1, <1>2, <1>3 DEF Init, TypeOK

LEMMA TypeStep == TypeOK /\ [Next]_storeVars => TypeOK'
<1> SUFFICES ASSUME TypeOK, [Next]_storeVars PROVE TypeOK'
  OBVIOUS
<1> USE DEF RequestId
<1>1. ASSUME NEW u \in User, NEW h \in Host, RegisterHost(u, h)
      PROVE  TypeOK'
  BY <1>1 DEF RegisterHost, TypeOK, HostRow
<1>2. ASSUME NEW u \in User, NEW t \in Task, NEW h \in Host, NEW o \in Origins,
             NEW gone \in SUBSET Prunable, RequestDispatch(u, t, h, o, gone)
      PROVE  TypeOK'
  <2> DEFINE claimed == [task EXCEPT ![t] = ClaimedTask(@)]
  <2>1. claimed \in [Task -> TaskRow]
    BY RowRules DEF TypeOK
  <2>2. RecalculatedChains(claimed, epic, {EpicOf[t]}) \in [Epic -> Status]
    BY RollupKeepsType DEF TypeOK
  <2>3. request' \in [RequestId -> RequestRow]
    BY <1>2, RequestRules DEF RequestDispatch, CreateDispatchRequest, Pruned, TypeOK
  <2>4. agent' \in [Task -> AgentRow]
    BY <1>2, AgentRules DEF RequestDispatch, CreateDispatchRequest, TypeOK
  <2>5. nextRequest' \in Nat \ {0} /\ timers' \in SUBSET RequestId
    BY <1>2, TimingAssumption DEF RequestDispatch, CreateDispatchRequest, TypeOK
  <2>6. /\ task' = claimed
        /\ epic' = RecalculatedChains(claimed, epic, {EpicOf[t]})
        /\ hosts' = hosts
    BY <1>2 DEF RequestDispatch, CreateDispatchRequest
  <2> HIDE DEF claimed
  <2> QED BY <2>1, <2>2, <2>3, <2>4, <2>5, <2>6 DEF TypeOK
<1>3. ASSUME NEW u \in User, NEW r \in RequestId, ClaimDispatchRequest(u, r)
      PROVE  TypeOK'
  BY <1>3 DEF ClaimDispatchRequest, TypeOK, RequestRow, OpenStates
<1>4. ASSUME NEW u \in User, NEW r \in RequestId, NEW w \in Worktree, NEW win \in Window,
             ReportDispatchProvisioned(u, r, w, win)
      PROVE  TypeOK'
  <2> DEFINE t == request[r].task
             ts == [task EXCEPT ![t] = DispatchedTask(@, w, request[r].host)]
  <2>1. request[r].host \in Host \cup {None}
    BY DEF TypeOK, RequestRow
  <2>2. ts \in [Task -> TaskRow]
    BY <2>1, RowRules DEF TypeOK
  <2>3. RecalculatedChains(ts, epic, {EpicOf[t]}) \in [Epic -> Status]
    BY RollupKeepsType DEF TypeOK
  <2>4. [agent EXCEPT ![t] = WithWindow(@, win)] \in [Task -> AgentRow]
    BY AgentRules DEF TypeOK
  <2>5. request' \in [RequestId -> RequestRow]
    <3> DEFINE done == [request[r] EXCEPT !.state = "dispatched", !.age = 0,
                                          !.worktree = w, !.window = win]
    <3>1. ASSUME NEW row \in RequestRow
          PROVE  [row EXCEPT !.state = "dispatched", !.age = 0,
                             !.worktree = w, !.window = win] \in RequestRow
      BY DEF RequestRow, TerminalStates
    <3>2. request' = [request EXCEPT ![r] = done]
      BY <1>4 DEF ReportDispatchProvisioned
    <3>3. done \in RequestRow
      BY <3>1 DEF TypeOK
    <3> QED BY <3>2, <3>3 DEF TypeOK
  <2> QED BY <1>4, <2>2, <2>3, <2>4, <2>5 DEF ReportDispatchProvisioned, TypeOK
<1>5. ASSUME NEW u \in User, NEW r \in RequestId, ReportDispatchFailed(u, r)
      PROVE  TypeOK'
  BY <1>5, FailDispatchRequestsKeepsType DEF ReportDispatchFailed, TypeOK
<1>6. ASSUME NEW u \in User, NEW h \in Host, FailInterruptedDispatchRequests(u, h)
      PROVE  TypeOK'
  BY <1>6, FailDispatchRequestsKeepsType DEF FailInterruptedDispatchRequests, TypeOK
<1>7. ASSUME NEW u \in User, NEW t \in Task, NEW s \in Task, NEW p \in Patches,
             PatchTask(u, t, p, s)
      PROVE  TypeOK'
  <2> DEFINE row == PatchedTask(task[t], p)
             ts == TasksWithRespawn(t, row, s)
             ag == IF "window" \in p.names THEN WithWindow(agent[t], p.window) ELSE agent[t]
  <2>1. row \in TaskRow
    BY PatchKeepsType DEF TypeOK
  <2> HIDE DEF row
  <2>2. ts \in [Task -> TaskRow]
    BY <2>1, RespawnKeepsType
  <2> HIDE DEF ts
  <2>3. ag \in AgentRow
    BY PatchesAssumption, AgentRules DEF TypeOK, PatchRow
  <2> HIDE DEF ag
  <2>4. FollowTaskWrite(ag, task[t], row) \in AgentRow
    BY <2>3, AgentRules DEF FollowTaskWrite
  <2>5. RecalculatedChains(ts, epic, {EpicOf[t]}) \in [Epic -> Status]
    BY RollupKeepsType DEF TypeOK
  <2>6. /\ task' = ts
        /\ agent' = [agent EXCEPT ![t] = FollowTaskWrite(ag, task[t], row)]
        /\ epic' \in {epic, RecalculatedChains(ts, epic, {EpicOf[t]})}
        /\ UNCHANGED <<hosts, request, timers, nextRequest>>
    BY <1>7 DEF PatchTask, row, ts, ag
  <2> QED BY <2>2, <2>4, <2>5, <2>6 DEF TypeOK
<1>8. ASSUME NEW t \in Task, NEW ph \in BOOLEAN, NEW on \in BOOLEAN, CreateTask(t, ph, on)
      PROVE  TypeOK'
  <2> DEFINE ts == [task EXCEPT ![t] =
                      ArmedTask([BlankTask EXCEPT !.status = "backlog", !.phoenix = ph,
                                                  !.schedule = on])]
  <2>1. ts \in [Task -> TaskRow]
    BY NewRows DEF TypeOK
  <2>2. RecalculatedChains(ts, epic, {EpicOf[t]}) \in [Epic -> Status]
    BY RollupKeepsType DEF TypeOK
  <2> QED BY <1>8, <2>1, <2>2 DEF CreateTask, TypeOK
<1>9. ASSUME NEW t \in Task, NEW s \in Task, CloseTask(t, s)
      PROVE  TypeOK'
  <2> DEFINE ts == TasksWithRespawn(t, DoneTask(task[t]), s)
             F == OpenRequestsOf(t)
             failed == TasksAfterFailure(F, ts)
             ended == AgentsAfterFailure(F, ts, agent)
  <2>1. DoneTask(task[t]) \in TaskRow
    BY RowRules DEF TypeOK
  <2>2. ts \in [Task -> TaskRow]
    BY <2>1, RespawnKeepsType
  <2> HIDE DEF ts, F
  <2>3. /\ failed \in [Task -> TaskRow]
        /\ ended \in [Task -> AgentRow]
        /\ RowsFailed(F) \in [RequestId -> RequestRow]
    BY <2>2, FailureKeepsType DEF TypeOK
  <2> HIDE DEF failed, ended
  <2>4. RecalculatedChains(failed, epic, {EpicOf[t]}) \in [Epic -> Status]
    BY RollupKeepsType DEF TypeOK
  <2>5. ClosedAgent(ended[t]) \in AgentRow
    BY <2>3, AgentRules DEF ClosedAgent
  <2>6. /\ task' = failed
        /\ agent' = [ended EXCEPT ![t] = ClosedAgent(ended[t])]
        /\ request' = RowsFailed(F)
        /\ timers' = timers \ F
        /\ epic' = RecalculatedChains(failed, epic, {EpicOf[t]})
        /\ UNCHANGED <<hosts, nextRequest>>
    BY <1>9 DEF CloseTask, ts, F, failed, ended
  <2> QED BY <2>3, <2>4, <2>5, <2>6 DEF TypeOK
<1>10. ASSUME NEW t \in Task, DeleteTask(t)
       PROVE  TypeOK'
  <2> DEFINE ts == [task EXCEPT ![t] = DeletedTask]
  <2>1. ts \in [Task -> TaskRow]
    BY NewRows DEF TypeOK
  <2>2. RecalculatedChains(ts, epic, {EpicOf[t]}) \in [Epic -> Status]
    BY RollupKeepsType DEF TypeOK
  <2>3. request' \in [RequestId -> RequestRow] /\ agent' \in [Task -> AgentRow]
    BY <1>10, RequestRules, AgentRules DEF DeleteTask, Pruned, TypeOK
  <2> QED BY <1>10, <2>1, <2>2, <2>3 DEF DeleteTask, TypeOK
<1>11. ASSUME NEW r \in RequestId, ExpireDispatchRequest(r)
       PROVE  TypeOK'
  BY <1>11, FailDispatchRequestsKeepsType DEF ExpireDispatchRequest, TypeOK
<1>12. ASSUME NEW t \in Task, DueTimePasses(t)
       PROVE  TypeOK'
  BY <1>12 DEF DueTimePasses, TypeOK, TaskRow
<1>13. CASE Tick
  BY <1>13, RequestRules DEF Tick, TypeOK
<1>14. CASE UNCHANGED storeVars
  BY <1>14 DEF storeVars, TypeOK
<1> QED BY <1>1, <1>2, <1>3, <1>4, <1>5, <1>6, <1>7, <1>8, <1>9, <1>10, <1>11,
           <1>12, <1>13, <1>14 DEF Next, ClientStep

(* Every reducer keeps every table well typed. *)
THEOREM TypeCorrect == Spec => []TypeOK
<1> QED BY TypeInit, TypeStep, PTL DEF Spec

----------------------------------------------------------------------------
(* ----- The request ledger ----- *)

(* What a step does to dispatch_requests and its timers, whatever else the *)
(* reducer writes: the seven ways in which the ledger moves.               *)
Opens(t, h, u, o, gone) ==
    /\ ActingFor(u, h)
    /\ OpenRequestsOf(t) = {}
    /\ gone \subseteq Prunable
    /\ nextRequest \in RequestId
    /\ request' = [Pruned(gone) EXCEPT ![nextRequest] = NewRequest(t, h, u, o)]
    /\ timers' = timers \cup {nextRequest}
    /\ nextRequest' = nextRequest + 1

Starts(r) ==
    /\ request[r].state = "requested"
    /\ request' = [request EXCEPT ![r].state = "provisioning"]
    /\ UNCHANGED <<timers, nextRequest>>

Succeeds(r, w, win) ==
    /\ request[r].state = "provisioning"
    /\ request' = [request EXCEPT ![r] = [@ EXCEPT !.state = "dispatched", !.age = 0,
                                                  !.worktree = w, !.window = win]]
    /\ timers' = timers \ {r}
    /\ UNCHANGED nextRequest

Fails(F) ==
    /\ F \subseteq OpenRequests
    /\ request' = RowsFailed(F)
    /\ timers' = timers \ F
    /\ UNCHANGED nextRequest

Forgets(t) ==
    /\ request' = Pruned(RequestsOf(t))
    /\ timers' = timers \ OpenRequestsOf(t)
    /\ UNCHANGED nextRequest

Ages ==
    /\ request' = [r \in RequestId |-> Aged(request[r])]
    /\ UNCHANGED <<timers, nextRequest>>

LedgerStep ==
    \/ \E t \in Task, h \in Host, u \in User, o \in {"user", "epic_chain", "schedule"},
         gone \in SUBSET RequestId : Opens(t, h, u, o, gone)
    \/ \E r \in RequestId : Starts(r)
    \/ \E r \in RequestId, w \in Worktree, win \in Window : Succeeds(r, w, win)
    \/ \E F \in SUBSET RequestId : Fails(F)
    \/ \E t \in Task : Forgets(t)
    \/ Ages
    \/ UNCHANGED <<request, timers, nextRequest>>

(* Every reducer moves the ledger in one of these ways.  The backstop      *)
(* needs the timers to be those of the open rows.                          *)
LEMMA EveryStepIsALedgerStep ==
    TypeOK /\ TimerExactlyWhileOpen /\ [Next]_storeVars => LedgerStep
<1> SUFFICES ASSUME TypeOK, TimerExactlyWhileOpen, [Next]_storeVars PROVE LedgerStep
  OBVIOUS
<1>1. ASSUME NEW u \in User, NEW t \in Task, NEW h \in Host, NEW o \in Origins,
             NEW gone \in SUBSET Prunable, RequestDispatch(u, t, h, o, gone)
      PROVE  LedgerStep
  <2>1. gone \in SUBSET RequestId
    BY DEF Prunable
  <2>2. Opens(t, h, u, o, gone)
    BY <1>1 DEF RequestDispatch, MayDispatch, CreateDispatchRequest, Opens
  <2> QED BY <2>1, <2>2, OriginsAssumption DEF LedgerStep
<1>2. ASSUME NEW u \in User, NEW r \in RequestId, ClaimDispatchRequest(u, r)
      PROVE  LedgerStep
  BY <1>2 DEF ClaimDispatchRequest, Starts, LedgerStep
<1>3. ASSUME NEW u \in User, NEW r \in RequestId, NEW w \in Worktree, NEW win \in Window,
             ReportDispatchProvisioned(u, r, w, win)
      PROVE  LedgerStep
  <2>1. Succeeds(r, w, win)
    BY <1>3 DEF ReportDispatchProvisioned, Succeeds
  <2> QED BY <2>1 DEF LedgerStep
<1>4. ASSUME NEW u \in User, NEW r \in RequestId, ReportDispatchFailed(u, r)
      PROVE  LedgerStep
  <2>1. Fails({r})
    BY <1>4 DEF ReportDispatchFailed, FailDispatchRequests, Fails, OpenRequests, IsOpen, OpenStates
  <2> QED BY <2>1 DEF LedgerStep
<1>5. ASSUME NEW u \in User, NEW h \in Host, FailInterruptedDispatchRequests(u, h)
      PROVE  LedgerStep
  <2>1. Interrupted(h) \subseteq OpenRequests
    BY DEF Interrupted, OpenRequests, IsOpen, OpenStates
  <2>2. Fails(Interrupted(h))
    BY <1>5, <2>1 DEF FailInterruptedDispatchRequests, FailDispatchRequests, Fails
  <2>3. Interrupted(h) \in SUBSET RequestId
    BY DEF Interrupted
  <2> QED BY <2>2, <2>3 DEF LedgerStep
<1>6. ASSUME NEW t \in Task, NEW s \in Task, CloseTask(t, s)
      PROVE  LedgerStep
  <2>1. Fails(OpenRequestsOf(t))
    BY <1>6 DEF CloseTask, Fails, OpenRequestsOf
  <2>2. OpenRequestsOf(t) \in SUBSET RequestId
    BY DEF OpenRequestsOf, OpenRequests
  <2> QED BY <2>1, <2>2 DEF LedgerStep
<1>7. ASSUME NEW t \in Task, DeleteTask(t)
      PROVE  LedgerStep
  BY <1>7 DEF DeleteTask, Forgets, LedgerStep
<1>8. ASSUME NEW r \in RequestId, ExpireDispatchRequest(r)
      PROVE  LedgerStep
  <2>1. {r} \cap OpenRequests = {r}
    BY <1>8 DEF ExpireDispatchRequest, TimerExactlyWhileOpen
  <2>2. Fails({r})
    BY <1>8, <2>1 DEF ExpireDispatchRequest, FailDispatchRequests, Fails
  <2> QED BY <2>2 DEF LedgerStep
<1>9. CASE Tick
  BY <1>9 DEF Tick, Ages, LedgerStep
<1>10. ASSUME NEW u \in User, NEW h \in Host, RegisterHost(u, h)
       PROVE  LedgerStep
  BY <1>10 DEF RegisterHost, LedgerStep
<1>11. ASSUME NEW u \in User, NEW t \in Task, NEW s \in Task, NEW p \in Patches,
              PatchTask(u, t, p, s)
       PROVE  LedgerStep
  BY <1>11 DEF PatchTask, LedgerStep
<1>12. ASSUME NEW t \in Task, NEW ph \in BOOLEAN, NEW on \in BOOLEAN, CreateTask(t, ph, on)
       PROVE  LedgerStep
  BY <1>12 DEF CreateTask, LedgerStep
<1>13. ASSUME NEW t \in Task, DueTimePasses(t)
       PROVE  LedgerStep
  BY <1>13 DEF DueTimePasses, LedgerStep
<1>14. CASE UNCHANGED storeVars
  BY <1>14 DEF storeVars, LedgerStep
<1> QED BY <1>1, <1>2, <1>3, <1>4, <1>5, <1>6, <1>7, <1>8, <1>9, <1>10, <1>11,
           <1>12, <1>13, <1>14 DEF Next, ClientStep

(* A row in the ledger names a task, a host and a user. *)
RowsAreFilled ==
    \A r \in RequestId : request[r].state # "absent" =>
        request[r].task \in Task /\ request[r].host \in Host /\ request[r].by \in User

(* The id the next row takes was never drawn. *)
IdsAreFresh ==
    \A r \in RequestId : r >= nextRequest => request[r].state = "absent"

(* The inductive invariant of the ledger.  OneOpenDispatchRequestPerTask   *)
(* is not inductive alone: a row opened under a drawn id would replace one *)
(* that is open, and a timer without a row could end the wrong one.        *)
LedgerInv ==
    /\ RowsAreFilled
    /\ IdsAreFresh
    /\ TimerExactlyWhileOpen
    /\ OneOpenDispatchRequestPerTask

(* The row facts a ledger step needs. *)
LEMMA LedgerRows ==
    /\ NoRequest.state = "absent"
    /\ \A t, h, u, o :
         LET row == NewRequest(t, h, u, o)
         IN  row.state = "requested" /\ row.task = t /\ row.host = h /\ row.by = u
    /\ \A row \in RequestRow :
         /\ FailedRow(row).state = "failed"
         /\ FailedRow(row).task = row.task
         /\ FailedRow(row).host = row.host
         /\ FailedRow(row).by = row.by
         /\ Aged(row).state = row.state
         /\ Aged(row).task = row.task
         /\ Aged(row).host = row.host
         /\ Aged(row).by = row.by
<1>1. NoRequest.state = "absent"
  BY DEF NoRequest
<1>2. ASSUME NEW t, NEW h, NEW u, NEW o
      PROVE  LET row == NewRequest(t, h, u, o)
             IN  row.state = "requested" /\ row.task = t /\ row.host = h /\ row.by = u
  BY DEF NewRequest, NoRequest
<1>3. ASSUME NEW row \in RequestRow
      PROVE  /\ FailedRow(row).state = "failed"
             /\ FailedRow(row).task = row.task
             /\ FailedRow(row).host = row.host
             /\ FailedRow(row).by = row.by
             /\ Aged(row).state = row.state
             /\ Aged(row).task = row.task
             /\ Aged(row).host = row.host
             /\ Aged(row).by = row.by
  BY DEF FailedRow, Aged, RequestRow
<1> QED BY <1>1, <1>2, <1>3

LEMMA LedgerInit == Init => LedgerInv
    BY DEF Init, LedgerInv, RowsAreFilled, IdsAreFresh, TimerExactlyWhileOpen,
           OneOpenDispatchRequestPerTask, OpenRequests, IsOpen, OpenStates, NoRequest

LEMMA LedgerInvStep == TypeOK /\ LedgerInv /\ LedgerStep => LedgerInv'
<1> SUFFICES ASSUME TypeOK, LedgerInv, LedgerStep PROVE LedgerInv'
  OBVIOUS
<1> USE DEF LedgerInv, RowsAreFilled, IdsAreFresh, TimerExactlyWhileOpen,
            OneOpenDispatchRequestPerTask, OpenRequests, IsOpen, OpenStates
<1>0. /\ request \in [RequestId -> RequestRow]
      /\ nextRequest \in Nat
      /\ RequestId \subseteq Nat
  BY TimingAssumption DEF TypeOK, RequestId
<1>1. ASSUME NEW t \in Task, NEW h \in Host, NEW u \in User, NEW o,
             NEW gone \in SUBSET RequestId, Opens(t, h, u, o, gone)
      PROVE  LedgerInv'
  <2> DEFINE n == nextRequest
  <2>1. /\ n \in RequestId
        /\ request[n].state = "absent"
        /\ request'[n].state = "requested"
        /\ request'[n].task = t
        /\ request'[n].host = h
        /\ request'[n].by = u
    BY <1>0, <1>1, LedgerRows DEF Opens, Pruned
  <2>2. ASSUME NEW r \in RequestId, r # n
        PROVE  request'[r] = IF r \in gone THEN NoRequest ELSE request[r]
    BY <1>0, <1>1, <2>2 DEF Opens, Pruned
  <2>3. \A r \in RequestId : r # n /\ request'[r].state # "absent" => request'[r] = request[r]
    BY <2>2, LedgerRows
  <2>4. \A r \in RequestId : r \in OpenRequests => r # n /\ request'[r] = request[r]
    BY <1>1, <2>1, <2>2 DEF Opens, Prunable, TerminalStates
  <2>5. RowsAreFilled'
    BY <2>1, <2>3
  <2>6. IdsAreFresh'
    BY <1>0, <1>1, <2>1, <2>2, <2>3 DEF Opens
  <2>7. OpenRequests' = OpenRequests \cup {n}
    BY <2>1, <2>3, <2>4
  <2>8. TimerExactlyWhileOpen'
    BY <1>1, <2>7 DEF Opens
  <2>9. OneOpenDispatchRequestPerTask'
    <3>1. \A r \in OpenRequests : request[r].task # t
      BY <1>1 DEF Opens, OpenRequestsOf
    <3> QED BY <2>1, <2>4, <2>7, <3>1
  <2> QED BY <2>5, <2>6, <2>8, <2>9
<1>2. ASSUME NEW r \in RequestId, Starts(r)
      PROVE  LedgerInv'
  BY <1>0, <1>2 DEF Starts, RequestRow
<1>3. ASSUME NEW r \in RequestId, NEW w \in Worktree, NEW win \in Window, Succeeds(r, w, win)
      PROVE  LedgerInv'
  <2>1. /\ request'[r].state = "dispatched"
        /\ request'[r].task = request[r].task
        /\ request'[r].host = request[r].host
        /\ request'[r].by = request[r].by
        /\ \A q \in RequestId \ {r} : request'[q] = request[q]
    BY <1>0, <1>3 DEF Succeeds, RequestRow
  <2>2. OpenRequests' = OpenRequests \ {r}
    BY <2>1
  <2> QED BY <1>0, <1>3, <2>1, <2>2 DEF Succeeds
<1>4. ASSUME NEW F \in SUBSET RequestId, Fails(F)
      PROVE  LedgerInv'
  <2>1. \A r \in RequestId : request'[r] = IF r \in F THEN FailedRow(request[r]) ELSE request[r]
    BY <1>4 DEF Fails, RowsFailed
  <2>2. \A r \in RequestId :
           /\ request'[r].state = IF r \in F THEN "failed" ELSE request[r].state
           /\ request'[r].task = request[r].task
           /\ request'[r].host = request[r].host
           /\ request'[r].by = request[r].by
    BY <1>0, <2>1, LedgerRows
  <2>3. \A r \in F : request[r].state # "absent"
    BY <1>4 DEF Fails
  <2>4. OpenRequests' = OpenRequests \ F
    BY <2>2
  <2> QED BY <1>0, <1>4, <2>2, <2>3, <2>4 DEF Fails
<1>5. ASSUME NEW t \in Task, Forgets(t)
      PROVE  LedgerInv'
  <2>1. \A r \in RequestId :
           request'[r] = IF r \in RequestsOf(t) THEN NoRequest ELSE request[r]
    BY <1>5 DEF Forgets, Pruned
  <2>2. \A r \in RequestId : request'[r].state # "absent" =>
           r \notin RequestsOf(t) /\ request'[r] = request[r]
    BY <2>1, LedgerRows
  <2>3. OpenRequests' = OpenRequests \ OpenRequestsOf(t)
    BY <2>1, <2>2 DEF OpenRequestsOf, RequestsOf
  <2> QED BY <1>0, <1>5, <2>1, <2>2, <2>3 DEF Forgets
<1>6. CASE Ages
  <2>1. \A r \in RequestId :
           /\ request'[r].state = request[r].state
           /\ request'[r].task = request[r].task
           /\ request'[r].host = request[r].host
           /\ request'[r].by = request[r].by
    BY <1>0, <1>6, LedgerRows DEF Ages
  <2>2. OpenRequests' = OpenRequests
    BY <2>1
  <2> QED BY <1>6, <2>1, <2>2 DEF Ages
<1>7. CASE UNCHANGED <<request, timers, nextRequest>>
  BY <1>7
<1> QED BY <1>1, <1>2, <1>3, <1>4, <1>5, <1>6, <1>7 DEF LedgerStep

LEMMA LedgerInvariant == Spec => []LedgerInv
<1>1. LedgerInv => TimerExactlyWhileOpen
  BY DEF LedgerInv
<1>2. TypeOK /\ LedgerInv /\ [Next]_storeVars => LedgerInv'
  BY <1>1, EveryStepIsALedgerStep, LedgerInvStep
<1> QED BY <1>2, TypeCorrect, LedgerInit, PTL DEF Spec

(* No interleaving of reducers opens two requests on one task. *)
THEOREM OneOpenRequest == Spec => []OneOpenDispatchRequestPerTask
<1>1. LedgerInv => OneOpenDispatchRequestPerTask
  BY DEF LedgerInv
<1> QED BY <1>1, LedgerInvariant, PTL

(* Every open request has its backstop, and nothing else has one. *)
THEOREM EveryOpenRequestHasItsTimer == Spec => []TimerExactlyWhileOpen
<1>1. LedgerInv => TimerExactlyWhileOpen
  BY DEF LedgerInv
<1> QED BY <1>1, LedgerInvariant, PTL

----------------------------------------------------------------------------
(* ----- Hosts and their owners ----- *)

(* Only register_host writes the registry, and never over an owner. *)
LEMMA OwnersAreKept ==
    TypeOK /\ [Next]_storeVars =>
        \A h \in Host : hosts[h].row = "owned" => hosts'[h] = hosts[h]
<1> SUFFICES ASSUME TypeOK, [Next]_storeVars, NEW h \in Host, hosts[h].row = "owned"
             PROVE  hosts'[h] = hosts[h]
  OBVIOUS
<1>1. CASE UNCHANGED hosts
  BY <1>1
<1>2. ASSUME NEW u \in User, NEW g \in Host, RegisterHost(u, g)
      PROVE  hosts'[h] = hosts[h]
  BY <1>2 DEF RegisterHost, TypeOK
<1> QED BY <1>1, <1>2 DEF Next, ClientStep, storeVars, RequestDispatch, ClaimDispatchRequest,
           ReportDispatchProvisioned, ReportDispatchFailed, FailInterruptedDispatchRequests,
           PatchTask, CreateTask, CloseTask, DeleteTask, ExpireDispatchRequest,
           DueTimePasses, Tick

(* LocalHostOwnerIsWrittenOnce: once a host names its owner, nothing the   *)
(* callers do changes that row.                                            *)
THEOREM OwnerIsWrittenOnce == Spec => HostOwnerIsWrittenOnce
<1> QED BY OwnersAreKept, TypeCorrect, PTL DEF Spec, HostOwnerIsWrittenOnce

LEMMA RequestOwnersStep ==
    /\ TypeOK /\ LedgerInv /\ RequestNamesItsHostsOwner
    /\ [Next]_storeVars
    => RequestNamesItsHostsOwner'
<1> SUFFICES ASSUME TypeOK, LedgerInv, RequestNamesItsHostsOwner, [Next]_storeVars
             PROVE  RequestNamesItsHostsOwner'
  OBVIOUS
<1>1. \A h \in Host, u \in User :
         ActingFor(u, h) => hosts'[h].row = "owned" /\ hosts'[h].owner = u
  BY OwnersAreKept DEF ActingFor
<1>2. LedgerStep
  BY EveryStepIsALedgerStep DEF LedgerInv
<1>3. LedgerInv'
  BY <1>2, LedgerInvStep
<1>4. request \in [RequestId -> RequestRow]
  BY DEF TypeOK
<1> SUFFICES ASSUME NEW r \in RequestId, request'[r].state # "absent"
             PROVE  /\ hosts'[request'[r].host].row = "owned"
                    /\ hosts'[request'[r].host].owner = request'[r].by
  BY DEF RequestNamesItsHostsOwner, ActingFor
(* Either the row was there, with the same host and caller, or it is new. *)
<1>5. \/ /\ request[r].state # "absent"
         /\ request'[r].host = request[r].host
         /\ request'[r].by = request[r].by
      \/ ActingFor(request'[r].by, request'[r].host)
  <2>1. ASSUME NEW t \in Task, NEW h \in Host, NEW u \in User, NEW o,
               NEW gone \in SUBSET RequestId, Opens(t, h, u, o, gone)
        PROVE  <1>5!1 \/ <1>5!2
    <3>1. CASE r = nextRequest
      BY <1>4, <2>1, <3>1, LedgerRows DEF Opens, Pruned
    <3>2. CASE r # nextRequest
      <4>1. request'[r] = IF r \in gone THEN NoRequest ELSE request[r]
        BY <1>4, <2>1, <3>2 DEF Opens, Pruned
      <4> QED BY <4>1, LedgerRows
    <3> QED BY <3>1, <3>2
  <2>2. ASSUME NEW q \in RequestId, Starts(q)
        PROVE  <1>5!1 \/ <1>5!2
    BY <1>4, <2>2 DEF Starts, RequestRow
  <2>3. ASSUME NEW q \in RequestId, NEW w \in Worktree, NEW win \in Window, Succeeds(q, w, win)
        PROVE  <1>5!1 \/ <1>5!2
    BY <1>4, <2>3 DEF Succeeds, RequestRow
  <2>4. ASSUME NEW F \in SUBSET RequestId, Fails(F)
        PROVE  <1>5!1 \/ <1>5!2
    <3>1. request'[r] = IF r \in F THEN FailedRow(request[r]) ELSE request[r]
      BY <2>4 DEF Fails, RowsFailed
    <3>2. r \in F => request[r].state # "absent"
      BY <2>4 DEF Fails, OpenRequests, IsOpen, OpenStates
    <3> QED BY <1>4, <3>1, <3>2, LedgerRows
  <2>5. ASSUME NEW t \in Task, Forgets(t)
        PROVE  <1>5!1 \/ <1>5!2
    <3>1. request'[r] = IF r \in RequestsOf(t) THEN NoRequest ELSE request[r]
      BY <2>5 DEF Forgets, Pruned
    <3> QED BY <3>1, LedgerRows
  <2>6. CASE Ages
    BY <1>4, <2>6, LedgerRows DEF Ages
  <2>7. CASE UNCHANGED <<request, timers, nextRequest>>
    BY <2>7
  <2> QED BY <1>2, <2>1, <2>2, <2>3, <2>4, <2>5, <2>6, <2>7 DEF LedgerStep
<1>6. request'[r].host \in Host /\ request'[r].by \in User
  BY <1>3 DEF LedgerInv, RowsAreFilled
<1>7. ActingFor(request'[r].by, request'[r].host)
  BY <1>5 DEF RequestNamesItsHostsOwner
<1> QED BY <1>1, <1>6, <1>7

(* The caller a request names still owns the host it names. *)
THEOREM RequestsNameTheirHostsOwners == Spec => []RequestNamesItsHostsOwner
<1>1. Init => RequestNamesItsHostsOwner
  BY DEF Init, RequestNamesItsHostsOwner, NoRequest
<1> QED BY <1>1, RequestOwnersStep, TypeCorrect, LedgerInvariant, PTL DEF Spec

(* The open rows, their timers and the registry agree in every state. *)
THEOREM RequestRowsStayInAgreement == Spec => []RequestRowsAgree
<1>1. /\ OneOpenDispatchRequestPerTask /\ TimerExactlyWhileOpen
      /\ RequestNamesItsHostsOwner
      => RequestRowsAgree
  BY DEF RequestRowsAgree
<1> QED BY <1>1, OneOpenRequest, EveryOpenRequestHasItsTimer, RequestsNameTheirHostsOwners, PTL

----------------------------------------------------------------------------
(* ----- No claim outlives its request ----- *)

(* Failing the rows F leaves none of their tasks a bare claim. *)
LEMMA FailureReleasesClaims ==
    ASSUME TypeOK, NEW ts \in [Task -> TaskRow], NEW F, NEW t \in FailedTasks(F)
    PROVE  ~IsBareClaim(TasksAfterFailure(F, ts)[t])
<1>1. t \in Task
  BY DEF FailedTasks
<1>2. ts[t] \in TaskRow
  BY <1>1
<1>3. CASE Exists(ts[t])
  <2>1. TasksAfterFailure(F, ts)[t] = TaskAfterFailedRequest(ts[t], OriginOf(F, t))
    BY <1>1, <1>3 DEF TasksAfterFailure
  <2> QED BY <1>2, <2>1, FailedRequestReleases
<1>4. CASE ~Exists(ts[t])
  <2>1. TasksAfterFailure(F, ts)[t] = ts[t]
    BY <1>1, <1>4 DEF TasksAfterFailure
  <2> QED BY <1>4, <2>1 DEF Exists, Status, IsBareClaim
<1> QED BY <1>3, <1>4

(* A task whose rows F leaves out keeps its open requests. *)
LEMMA OtherRowsStayOpen ==
    ASSUME TypeOK, NEW t \in Task, NEW F, OpenRequestsOf(t) \cap F = {},
           request' = RowsFailed(F)
    PROVE  OpenRequestsOf(t) \subseteq OpenRequestsOf(t)'
    BY DEF TypeOK, RowsFailed, OpenRequestsOf, OpenRequests, IsOpen

LEMMA ClaimsStep ==
    TypeOK /\ LedgerInv /\ [Next]_storeVars =>
        \A t \in Task :
            (OpenRequestsOf(t) # {} /\ OpenRequestsOf(t)' = {}) => ~IsBareClaim(task'[t])
<1> SUFFICES ASSUME TypeOK, LedgerInv, [Next]_storeVars, NEW t \in Task,
                    OpenRequestsOf(t) # {}, OpenRequestsOf(t)' = {}
             PROVE  ~IsBareClaim(task'[t])
  OBVIOUS
<1>0. /\ request \in [RequestId -> RequestRow]
      /\ task \in [Task -> TaskRow]
      /\ ~(OpenRequestsOf(t) \subseteq OpenRequestsOf(t)')
  BY DEF TypeOK
<1>1. ASSUME NEW u \in User, NEW x \in Task, NEW h \in Host, NEW o \in Origins,
             NEW gone \in SUBSET Prunable, RequestDispatch(u, x, h, o, gone)
      PROVE  FALSE
  <2>1. \A r \in RequestId : r # nextRequest =>
           request'[r] = IF r \in gone THEN NoRequest ELSE request[r]
    BY <1>0, <1>1 DEF RequestDispatch, CreateDispatchRequest, Pruned
  <2>2. \A r \in OpenRequests : r # nextRequest /\ r \notin gone
    BY <1>1, TimingAssumption
       DEF RequestDispatch, CreateDispatchRequest, LedgerInv, IdsAreFresh, OpenRequests,
           IsOpen, OpenStates, Prunable, TerminalStates, RequestId
  <2> QED BY <1>0, <2>1, <2>2 DEF OpenRequestsOf, OpenRequests, IsOpen
<1>2. ASSUME NEW u \in User, NEW r \in RequestId, ClaimDispatchRequest(u, r)
      PROVE  FALSE
  BY <1>0, <1>2 DEF ClaimDispatchRequest, OpenRequestsOf, OpenRequests, IsOpen, OpenStates,
                    RequestRow
<1>3. ASSUME NEW u \in User, NEW r \in RequestId, NEW w \in Worktree, NEW win \in Window,
             ReportDispatchProvisioned(u, r, w, win)
      PROVE  ~IsBareClaim(task'[t])
  <2>1. \A q \in RequestId : q # r => request'[q] = request[q]
    BY <1>0, <1>3 DEF ReportDispatchProvisioned
  <2>2. request[r].task = t
    BY <1>0, <2>1 DEF OpenRequestsOf, OpenRequests, IsOpen
  <2>3. task'[t] = DispatchedTask(task[t], w, request[r].host)
    BY <1>0, <1>3, <2>2 DEF ReportDispatchProvisioned
  <2>4. task'[t].worktree = w
    BY <1>0, <2>3 DEF DispatchedTask, TaskRow
  <2> QED BY <2>4, TaskRulesAssumption DEF IsBareClaim
<1>4. ASSUME NEW F, FailDispatchRequests(F)
      PROVE  ~IsBareClaim(task'[t])
  <2>1. t \in FailedTasks(F)
    BY <1>0, <1>4, OtherRowsStayOpen
       DEF FailDispatchRequests, FailedTasks, OpenRequestsOf
  <2>2. task' = TasksAfterFailure(F, task)
    BY <1>4 DEF FailDispatchRequests
  <2> QED BY <1>0, <2>1, <2>2, FailureReleasesClaims
<1>5. ASSUME NEW x \in Task, NEW s \in Task, CloseTask(x, s)
      PROVE  ~IsBareClaim(task'[t])
  <2> DEFINE ts == TasksWithRespawn(x, DoneTask(task[x]), s)
             F == OpenRequestsOf(x)
  <2>1. ts \in [Task -> TaskRow]
    BY <1>0, RowRules, RespawnKeepsType
  <2>2. request' = RowsFailed(F) /\ task' = TasksAfterFailure(F, ts)
    BY <1>5 DEF CloseTask
  <2>3. t \in FailedTasks(F)
    BY <1>0, <2>2, OtherRowsStayOpen DEF FailedTasks, OpenRequestsOf
  <2> HIDE DEF ts, F
  <2> QED BY <2>1, <2>2, <2>3, FailureReleasesClaims
<1>6. ASSUME NEW x \in Task, DeleteTask(x)
      PROVE  ~IsBareClaim(task'[t])
  <2>1. CASE x = t
    BY <1>0, <1>6, <2>1 DEF DeleteTask, DeletedTask, BlankTask, IsBareClaim
  <2>2. CASE x # t
    <3>1. \A r \in OpenRequestsOf(t) : request'[r] = request[r]
      BY <1>0, <1>6, <2>2 DEF DeleteTask, Pruned, RequestsOf, OpenRequestsOf, OpenRequests
    <3> QED BY <1>0, <3>1 DEF OpenRequestsOf, OpenRequests, IsOpen
  <2> QED BY <2>1, <2>2
<1>7. CASE Tick
  <2>1. \A r \in RequestId : /\ request'[r].state = request[r].state
                            /\ request'[r].task = request[r].task
    BY <1>0, <1>7, LedgerRows DEF Tick
  <2> QED BY <1>0, <2>1 DEF OpenRequestsOf, OpenRequests, IsOpen
<1>8. CASE UNCHANGED request
  BY <1>0, <1>8 DEF OpenRequestsOf, OpenRequests, IsOpen
<1> QED BY <1>1, <1>2, <1>3, <1>4, <1>5, <1>6, <1>7, <1>8 DEF Next, ClientStep, storeVars,
           RegisterHost, PatchTask, CreateTask, DueTimePasses, ReportDispatchFailed,
           FailInterruptedDispatchRequests, ExpireDispatchRequest

(* Whatever ends a task's open request, the claim it made ends with it. *)
THEOREM ClaimsEndWithTheirRequests == Spec => NoClaimIsStranded
<1> QED BY ClaimsStep, TypeCorrect, LedgerInvariant, PTL DEF Spec, NoClaimIsStranded

----------------------------------------------------------------------------
(* ----- A failure takes back no more than the claim ----- *)

(* What FailuresTakeOnlyTheClaim asks of a step that fails the row r. *)
TaskKeepsTheRest(t) ==
    /\ task'[t].status \in {task[t].status, "done"}
    /\ task'[t].worktree = task[t].worktree
    /\ task'[t].host = task[t].host
    /\ agent[t].current => agent'[t].current

FailsNow(r) == IsOpen(r) /\ request'[r].state = "failed"

(* Failing any rows leaves a task that is no bare claim as it was, but for *)
(* its schedule.                                                           *)
LEMMA FailureSparesTheRest ==
    ASSUME NEW ts \in [Task -> TaskRow], NEW ag \in [Task -> AgentRow], NEW F,
           NEW t \in Task, ~IsBareClaim(ts[t])
    PROVE  /\ TasksAfterFailure(F, ts)[t].status = ts[t].status
           /\ TasksAfterFailure(F, ts)[t].worktree = ts[t].worktree
           /\ TasksAfterFailure(F, ts)[t].host = ts[t].host
           /\ AgentsAfterFailure(F, ts, ag)[t] = ag[t]
<1>1. ASSUME NEW row \in TaskRow, NEW o, ~IsBareClaim(row)
      PROVE  /\ TaskAfterFailedRequest(row, o).status = row.status
             /\ TaskAfterFailedRequest(row, o).worktree = row.worktree
             /\ TaskAfterFailedRequest(row, o).host = row.host
  BY <1>1 DEF TaskRow, TaskAfterFailedRequest, ScheduleAfterFailedLaunch
<1>2. ts[t] \in TaskRow
  OBVIOUS
<1> QED BY <1>1, <1>2 DEF TasksAfterFailure, AgentsAfterFailure

(* A close fails the open rows of its own task, which it has just made     *)
(* done, and leaves that task's agent current.                             *)
LEMMA CloseSparesTheRest ==
    ASSUME TypeOK, NEW x \in Task, NEW s \in Task, CloseTask(x, s), NEW r \in RequestId,
           FailsNow(r)
    PROVE  TaskKeepsTheRest(request[r].task)
<1> DEFINE row == DoneTask(task[x])
           ts == TasksWithRespawn(x, row, s)
           F == OpenRequestsOf(x)
<1>1. /\ task \in [Task -> TaskRow]
      /\ agent \in [Task -> AgentRow]
      /\ request \in [RequestId -> RequestRow]
  BY DEF TypeOK
<1>2. /\ request' = RowsFailed(F)
      /\ task' = TasksAfterFailure(F, ts)
      /\ agent' = [AgentsAfterFailure(F, ts, agent) EXCEPT ![x] = ClosedAgent(@)]
      /\ SuccessorFor(x, row, s)
      /\ Exists(task[x])
  BY DEF CloseTask
<1>3. request[r].task = x
  BY <1>1, <1>2 DEF RowsFailed, FailsNow, IsOpen, OpenStates, OpenRequestsOf, OpenRequests
<1>4. /\ row \in TaskRow
      /\ row.status = "done"
      /\ row.worktree = task[x].worktree
      /\ row.host = task[x].host
  BY <1>1 DEF DoneTask, TaskRow, Status
<1>5. ts \in [Task -> TaskRow]
  BY <1>4, RespawnKeepsType
<1>6. /\ ts[x].status = "done"
      /\ ts[x].worktree = task[x].worktree
      /\ ts[x].host = task[x].host
  <2> HIDE DEF row
  <2>1. CASE ShouldRespawnPhoenix(task[x].status, row)
    <3>1. s # x
      BY <1>2, <2>1 DEF SuccessorFor, Successors, Exists, Status
    <3>2. ts[x] = [row EXCEPT !.phoenix = FALSE]
      BY <1>1, <2>1, <3>1 DEF TasksWithRespawn
    <3> QED BY <1>4, <3>2 DEF TaskRow
  <2>2. CASE ~ShouldRespawnPhoenix(task[x].status, row)
    <3>1. ts[x] = row
      BY <1>1, <2>2 DEF TasksWithRespawn
    <3> QED BY <1>4, <3>1
  <2> QED BY <2>1, <2>2
<1>7. ~IsBareClaim(ts[x])
  BY <1>6 DEF IsBareClaim
<1> HIDE DEF ts, F
<1>8. /\ task'[x].status = "done"
      /\ task'[x].worktree = task[x].worktree
      /\ task'[x].host = task[x].host
      /\ AgentsAfterFailure(F, ts, agent)[x] = agent[x]
  BY <1>1, <1>2, <1>5, <1>6, <1>7, FailureSparesTheRest
<1>9. agent'[x].current = agent[x].current
  <2>1. AgentsAfterFailure(F, ts, agent) \in [Task -> AgentRow]
    BY <1>1, <1>5, FailureKeepsType
  <2>2. agent'[x] = ClosedAgent(agent[x])
    BY <1>2, <1>8, <2>1
  <2>3. \A ag \in AgentRow : ClosedAgent(ag).current = ag.current
    BY DEF ClosedAgent, WithWindow, AgentRow
  <2> QED BY <1>1, <2>2, <2>3
<1> QED BY <1>3, <1>8, <1>9 DEF TaskKeepsTheRest

LEMMA FailuresStep ==
    TypeOK /\ LedgerInv /\ [Next]_storeVars =>
        \A r \in RequestId :
            FailsNow(r) /\ ~IsBareClaim(task[request[r].task])
                => TaskKeepsTheRest(request[r].task)
<1> SUFFICES ASSUME TypeOK, LedgerInv, [Next]_storeVars, NEW r \in RequestId,
                    FailsNow(r), ~IsBareClaim(task[request[r].task])
             PROVE  TaskKeepsTheRest(request[r].task)
  OBVIOUS
<1>0. /\ request \in [RequestId -> RequestRow]
      /\ task \in [Task -> TaskRow]
      /\ agent \in [Task -> AgentRow]
      /\ request[r].state \in OpenStates
      /\ request'[r].state = "failed"
      /\ request[r].task \in Task
  BY DEF TypeOK, FailsNow, IsOpen, OpenStates, LedgerInv, RowsAreFilled
<1>1. ASSUME NEW u \in User, NEW x \in Task, NEW h \in Host, NEW o \in Origins,
             NEW gone \in SUBSET Prunable, RequestDispatch(u, x, h, o, gone)
      PROVE  FALSE
  <2>1. \/ r = nextRequest /\ request'[r] = NewRequest(x, h, u, o)
        \/ request'[r] = NoRequest
        \/ request'[r] = request[r]
    BY <1>0, <1>1 DEF RequestDispatch, CreateDispatchRequest, Pruned
  <2>2. NoRequest.state = "absent" /\ NewRequest(x, h, u, o).state = "requested"
    BY DEF NewRequest, NoRequest
  <2> QED BY <1>0, <2>1, <2>2 DEF OpenStates
<1>2. ASSUME NEW u \in User, NEW q \in RequestId, ClaimDispatchRequest(u, q)
      PROVE  FALSE
  BY <1>0, <1>2 DEF ClaimDispatchRequest, OpenStates, RequestRow
<1>3. ASSUME NEW u \in User, NEW q \in RequestId, NEW w \in Worktree, NEW win \in Window,
             ReportDispatchProvisioned(u, q, w, win)
      PROVE  FALSE
  BY <1>0, <1>3 DEF ReportDispatchProvisioned, OpenStates, RequestRow
<1>4. ASSUME NEW F, FailDispatchRequests(F)
      PROVE  TaskKeepsTheRest(request[r].task)
  <2>1. task' = TasksAfterFailure(F, task) /\ agent' = AgentsAfterFailure(F, task, agent)
    BY <1>4 DEF FailDispatchRequests
  <2> QED BY <1>0, <2>1, FailureSparesTheRest DEF TaskKeepsTheRest
<1>5. ASSUME NEW x \in Task, NEW s \in Task, CloseTask(x, s)
      PROVE  TaskKeepsTheRest(request[r].task)
  BY <1>5, CloseSparesTheRest
<1>6. ASSUME NEW x \in Task, DeleteTask(x)
      PROVE  FALSE
  BY <1>0, <1>6 DEF DeleteTask, Pruned, NoRequest, OpenStates
<1>7. CASE Tick
  BY <1>0, <1>7, LedgerRows DEF Tick, OpenStates
<1>8. CASE UNCHANGED request
  BY <1>0, <1>8 DEF OpenStates
<1> QED BY <1>1, <1>2, <1>3, <1>4, <1>5, <1>6, <1>7, <1>8 DEF Next, ClientStep, storeVars,
           RegisterHost, PatchTask, CreateTask, DueTimePasses, ReportDispatchFailed,
           FailInterruptedDispatchRequests, ExpireDispatchRequest

(* A failing launch gives back its bare claim and takes nothing from a     *)
(* task that moved on: not its status, worktree, host or agent.            *)
THEOREM FailuresSpareWhatMovedOn == Spec => FailuresTakeOnlyTheClaim
<1> QED BY FailuresStep, TypeCorrect, LedgerInvariant, PTL
        DEF Spec, FailuresTakeOnlyTheClaim, FailsNow, TaskKeepsTheRest

----------------------------------------------------------------------------
(* ----- Pending runs ----- *)

Waits(row) == row.due # "none" => row.schedule /\ row.status \in {"backlog", "running"}

(* No rule leaves a run pending on a row that does not wait for one.  A    *)
(* failed launch and a due minute act on a row that may still wait.        *)
LEMMA RowRulesKeepWaiting ==
    ASSUME NEW row \in TaskRow, Waits(row)
    PROVE  /\ Waits(ClaimedTask(row))
           /\ \A w, h : Waits(DispatchedTask(row, w, h))
           /\ \A o : Waits(TaskAfterFailedRequest(row, o))
           /\ row.due = "ahead" => Waits([row EXCEPT !.due = "due"])
    BY DEF TaskRow, Waits, ClaimedTask, DispatchedTask, TaskAfterFailedRequest, ReleasedTask,
           ScheduleAfterFailedLaunch, IsBareClaim

LEMMA NewRowsWait ==
    /\ Waits(BlankTask)
    /\ Waits(DeletedTask)
    /\ \A row \in TaskRow : /\ Waits(DoneTask(row))
                           /\ Waits(PhoenixSuccessor(row))
    /\ \A ph \in BOOLEAN, on \in BOOLEAN :
         Waits(ArmedTask([BlankTask EXCEPT !.status = "backlog", !.phoenix = ph,
                                           !.schedule = on]))
    BY DEF TaskRow, Waits, BlankTask, DeletedTask, DoneTask, PhoenixSuccessor, ArmedTask

(* A patch cancels the run of a row it takes out of backlog or running,    *)
(* and arms only one it leaves scheduled in backlog.                       *)
LEMMA PatchKeepsWaiting ==
    ASSUME NEW row \in TaskRow, NEW p \in Patches, Waits(row)
    PROVE  Waits(PatchedTask(row, p))
<1> DEFINE fields == [row EXCEPT
                        !.status = IF "status" \in p.names THEN p.status ELSE @,
                        !.worktree = IF "worktree" \in p.names THEN p.worktree ELSE @,
                        !.host = IF "host" \in p.names THEN p.host ELSE @,
                        !.phoenix = IF "phoenix" \in p.names THEN p.phoenix ELSE @]
           scheduled == IF "schedule" \in p.names
                        THEN ApplySchedule(fields, p.schedule) ELSE fields
<1>1. p \in PatchRow
  BY PatchesAssumption
<1>2. fields \in TaskRow /\ fields.due = row.due /\ fields.schedule = row.schedule
  BY <1>1 DEF TaskRow, PatchRow, Status
<1> HIDE DEF fields
<1>3. p.schedule \in BOOLEAN
  BY <1>1 DEF PatchRow
<1>4. scheduled \in TaskRow
  BY <1>2, <1>3, ScheduleRules
(* After the patch's own schedule the row waits, unless its status moved.  *)
<1>5. \/ Waits(scheduled)
      \/ scheduled.schedule /\ row.status \in {"backlog", "running"}
  <2>1. CASE "schedule" \in p.names
    BY <1>2, <1>3, <2>1 DEF ApplySchedule, Waits, TaskRow
  <2>2. CASE "schedule" \notin p.names
    BY <1>2, <2>2 DEF Waits
  <2> QED BY <2>1, <2>2
<1>6. PatchedTask(row, p) = ScheduleAfterStatusWrite(row.status, scheduled)
  BY DEF PatchedTask, fields
<1> HIDE DEF scheduled
<1>7. Waits(ScheduleAfterStatusWrite(row.status, scheduled))
  BY <1>4, <1>5 DEF ScheduleAfterStatusWrite, ReArms, CancelsPendingRun, Waits, TaskRow, Status
<1> QED BY <1>6, <1>7

LEMMA RespawnKeepsWaiting ==
    ASSUME TypeOK, PendingRunBelongsToAWaitingTask, NEW t \in Task, NEW s \in Task,
           NEW row \in TaskRow, Waits(row)
    PROVE  \A u \in Task : Waits(TasksWithRespawn(t, row, s)[u])
<1>1. Waits([row EXCEPT !.phoenix = FALSE])
  BY DEF Waits, TaskRow
<1>2. Waits(PhoenixSuccessor(row))
  BY NewRowsWait
<1>3. \A u \in Task : Waits(task[u])
  BY DEF PendingRunBelongsToAWaitingTask, Waits
<1> HIDE DEF Waits
<1> QED BY <1>1, <1>2, <1>3 DEF TasksWithRespawn, TypeOK

LEMMA FailureKeepsWaiting ==
    ASSUME NEW ts \in [Task -> TaskRow], \A u \in Task : Waits(ts[u]), NEW F
    PROVE  \A u \in Task : Waits(TasksAfterFailure(F, ts)[u])
    BY RowRulesKeepWaiting DEF TasksAfterFailure

LEMMA WaitingStep ==
    TypeOK /\ PendingRunBelongsToAWaitingTask /\ [Next]_storeVars =>
        PendingRunBelongsToAWaitingTask'
<1> SUFFICES ASSUME TypeOK, PendingRunBelongsToAWaitingTask, [Next]_storeVars
             PROVE  \A x \in Task : Waits(task'[x])
  BY DEF PendingRunBelongsToAWaitingTask, Waits
<1>0. task \in [Task -> TaskRow] /\ \A x \in Task : Waits(task[x])
  BY DEF TypeOK, PendingRunBelongsToAWaitingTask, Waits
<1>1. ASSUME NEW u \in User, NEW t \in Task, NEW h \in Host, NEW o \in Origins,
             NEW gone \in SUBSET Prunable, RequestDispatch(u, t, h, o, gone)
      PROVE  \A x \in Task : Waits(task'[x])
  <2>1. task' = [task EXCEPT ![t] = ClaimedTask(task[t])]
    BY <1>1 DEF RequestDispatch, CreateDispatchRequest
  <2> QED BY <1>0, <2>1, RowRulesKeepWaiting
<1>2. ASSUME NEW u \in User, NEW r \in RequestId, NEW w \in Worktree, NEW win \in Window,
             ReportDispatchProvisioned(u, r, w, win)
      PROVE  \A x \in Task : Waits(task'[x])
  <2>1. task' = [task EXCEPT ![request[r].task] =
                   DispatchedTask(task[request[r].task], w, request[r].host)]
    BY <1>2 DEF ReportDispatchProvisioned
  <2> QED BY <1>0, <2>1, RowRulesKeepWaiting
<1>3. ASSUME NEW F, FailDispatchRequests(F)
      PROVE  \A x \in Task : Waits(task'[x])
  BY <1>0, <1>3, FailureKeepsWaiting DEF FailDispatchRequests
<1>4. ASSUME NEW u \in User, NEW t \in Task, NEW s \in Task, NEW p \in Patches,
             PatchTask(u, t, p, s)
      PROVE  \A x \in Task : Waits(task'[x])
  <2> DEFINE row == PatchedTask(task[t], p)
  <2>1. row \in TaskRow /\ Waits(row)
    BY <1>0, PatchKeepsType, PatchKeepsWaiting
  <2>2. task' = TasksWithRespawn(t, row, s)
    BY <1>4 DEF PatchTask
  <2> HIDE DEF row
  <2> QED BY <2>1, <2>2, RespawnKeepsWaiting
<1>5. ASSUME NEW t \in Task, NEW ph \in BOOLEAN, NEW on \in BOOLEAN, CreateTask(t, ph, on)
      PROVE  \A x \in Task : Waits(task'[x])
  BY <1>0, <1>5, NewRowsWait DEF CreateTask
<1>6. ASSUME NEW t \in Task, NEW s \in Task, CloseTask(t, s)
      PROVE  \A x \in Task : Waits(task'[x])
  <2> DEFINE row == DoneTask(task[t])
             ts == TasksWithRespawn(t, row, s)
  <2>1. row \in TaskRow /\ Waits(row)
    BY <1>0, RowRules, NewRowsWait
  <2> HIDE DEF row
  <2>2. ts \in [Task -> TaskRow] /\ \A x \in Task : Waits(ts[x])
    BY <2>1, RespawnKeepsType, RespawnKeepsWaiting
  <2>3. task' = TasksAfterFailure(OpenRequestsOf(t), ts)
    BY <1>6 DEF CloseTask, row
  <2> HIDE DEF ts
  <2> QED BY <2>2, <2>3, FailureKeepsWaiting
<1>7. ASSUME NEW t \in Task, DeleteTask(t)
      PROVE  \A x \in Task : Waits(task'[x])
  BY <1>0, <1>7, NewRowsWait DEF DeleteTask
<1>8. ASSUME NEW t \in Task, DueTimePasses(t)
      PROVE  \A x \in Task : Waits(task'[x])
  BY <1>0, <1>8, RowRulesKeepWaiting DEF DueTimePasses
<1>9. CASE UNCHANGED task
  BY <1>0, <1>9
<1> QED BY <1>1, <1>2, <1>3, <1>4, <1>5, <1>6, <1>7, <1>8, <1>9 DEF Next, ClientStep,
           storeVars, RegisterHost, ClaimDispatchRequest, ReportDispatchFailed,
           FailInterruptedDispatchRequests, ExpireDispatchRequest, Tick

LEMMA WaitingInit == Init => PendingRunBelongsToAWaitingTask
    BY DEF Init, PendingRunBelongsToAWaitingTask, BlankTask

(* No close, hand move, failed launch or respawn leaves a run pending on a *)
(* task that is not scheduled, or is past running.                         *)
THEOREM PendingRunsWait == Spec => []PendingRunBelongsToAWaitingTask
<1> QED BY WaitingInit, WaitingStep, TypeCorrect, PTL DEF Spec

----------------------------------------------------------------------------
(* ----- The agent of an open launch ----- *)

(* A step that opens no request: an open row was open before, for the same *)
(* task and host, and an agent that is current was, on the same host.      *)
OpenRowsAreKept ==
    \A r \in OpenRequests' : /\ r \in OpenRequests
                             /\ request'[r].task = request[r].task
                             /\ request'[r].host = request[r].host

AgentsAreKept ==
    \A t \in Task : agent'[t].current => agent[t].current /\ agent'[t].host = agent[t].host

LEMMA AgentsOnlyEnd ==
    ASSUME NEW ag \in AgentRow
    PROVE  /\ ~NoAgent.current
           /\ \A w : /\ WithWindow(ag, w).current = ag.current
                     /\ WithWindow(ag, w).host = ag.host
    BY DEF NoAgent, WithWindow, AgentRow

LEMMA FailureOnlyEndsAgents ==
    ASSUME NEW F, NEW ts, NEW ag \in [Task -> AgentRow], NEW t \in Task
    PROVE  AgentsAfterFailure(F, ts, ag)[t] \in {NoAgent, ag[t]}
    BY DEF AgentsAfterFailure

LEMMA FailedRowsEnd ==
    ASSUME TypeOK, NEW F, request' = RowsFailed(F)
    PROVE  OpenRowsAreKept
<1>1. \A r \in RequestId :
         request'[r] = IF r \in F THEN FailedRow(request[r]) ELSE request[r]
  BY DEF RowsFailed
<1> QED BY <1>1, LedgerRows DEF TypeOK, OpenRowsAreKept, OpenRequests, IsOpen, OpenStates

LEMMA OwnersStep ==
    TypeOK /\ LedgerInv /\ OpenLaunchOwnsTheAgent /\ [Next]_storeVars =>
        OpenLaunchOwnsTheAgent'
<1> SUFFICES ASSUME TypeOK, LedgerInv, OpenLaunchOwnsTheAgent, [Next]_storeVars
             PROVE  OpenLaunchOwnsTheAgent'
  OBVIOUS
<1>0. /\ request \in [RequestId -> RequestRow]
      /\ agent \in [Task -> AgentRow]
      /\ \A r \in OpenRequests : r \in RequestId /\ request[r].task \in Task
  BY DEF TypeOK, LedgerInv, RowsAreFilled, OpenRequests, IsOpen, OpenStates
<1>1. ASSUME OpenRowsAreKept, AgentsAreKept
      PROVE  OpenLaunchOwnsTheAgent'
  BY <1>0, <1>1 DEF OpenRowsAreKept, AgentsAreKept, OpenLaunchOwnsTheAgent
<1>2. UNCHANGED request => OpenRowsAreKept
  BY DEF OpenRowsAreKept, OpenRequests, IsOpen
<1>3. UNCHANGED agent => AgentsAreKept
  BY DEF AgentsAreKept
(* A new launch starts the agent of its own task, which had none open.     *)
<1>4. ASSUME NEW u \in User, NEW t \in Task, NEW h \in Host, NEW o \in Origins,
             NEW gone \in SUBSET Prunable, RequestDispatch(u, t, h, o, gone)
      PROVE  OpenLaunchOwnsTheAgent'
  <2>1. /\ nextRequest \in RequestId
        /\ agent' = [agent EXCEPT ![t] = NewAgent(h)]
        /\ request' = [Pruned(gone) EXCEPT ![nextRequest] = NewRequest(t, h, u, o)]
        /\ OpenRequestsOf(t) = {}
    BY <1>4 DEF RequestDispatch, CreateDispatchRequest, MayDispatch
  <2>2. \A r \in RequestId \ {nextRequest} :
           request'[r] = IF r \in gone THEN NoRequest ELSE request[r]
    BY <2>1 DEF Pruned
  <2>3. request'[nextRequest].task = t /\ request'[nextRequest].host = h
    BY <2>1, LedgerRows DEF Pruned
  <2>4. NewAgent(h).host = h
    BY DEF NewAgent
  <2>5. ASSUME NEW r \in OpenRequests', r # nextRequest
        PROVE  /\ r \in OpenRequests
               /\ request'[r] = request[r]
               /\ request[r].task # t
    <3>1. r \in RequestId /\ request'[r].state \in OpenStates
      BY DEF OpenRequests, IsOpen
    <3>2. request'[r] = request[r]
      BY <2>2, <2>5, <3>1, LedgerRows DEF OpenStates
    <3> QED BY <2>1, <3>1, <3>2 DEF OpenRequestsOf, OpenRequests, IsOpen
  <2> QED BY <1>0, <2>1, <2>3, <2>4, <2>5 DEF OpenLaunchOwnsTheAgent
<1>5. ASSUME NEW u \in User, NEW r \in RequestId, ClaimDispatchRequest(u, r)
      PROVE  OpenLaunchOwnsTheAgent'
  <2>1. OpenRowsAreKept
    BY <1>0, <1>5 DEF ClaimDispatchRequest, OpenRowsAreKept, OpenRequests, IsOpen, OpenStates,
                      RequestRow
  <2> QED BY <1>1, <1>3, <1>5, <2>1 DEF ClaimDispatchRequest
<1>6. ASSUME NEW u \in User, NEW r \in RequestId, NEW w \in Worktree, NEW win \in Window,
             ReportDispatchProvisioned(u, r, w, win)
      PROVE  OpenLaunchOwnsTheAgent'
  <2>1. /\ request'[r].state = "dispatched"
        /\ \A q \in RequestId \ {r} : request'[q] = request[q]
    BY <1>0, <1>6 DEF ReportDispatchProvisioned, RequestRow
  <2>2. OpenRowsAreKept
    BY <2>1 DEF OpenRowsAreKept, OpenRequests, IsOpen, OpenStates
  <2>3. agent' = [agent EXCEPT ![request[r].task] = WithWindow(agent[request[r].task], win)]
    BY <1>6 DEF ReportDispatchProvisioned
  <2>4. AgentsAreKept
    BY <1>0, <2>3, AgentsOnlyEnd DEF AgentsAreKept
  <2> QED BY <1>1, <2>2, <2>4
<1>7. ASSUME NEW F, FailDispatchRequests(F)
      PROVE  OpenLaunchOwnsTheAgent'
  <2>1. OpenRowsAreKept
    BY <1>7, FailedRowsEnd DEF FailDispatchRequests
  <2>2. AgentsAreKept
    BY <1>0, <1>7, AgentsOnlyEnd, FailureOnlyEndsAgents DEF FailDispatchRequests, AgentsAreKept
  <2> QED BY <1>1, <2>1, <2>2
<1>8. ASSUME NEW u \in User, NEW t \in Task, NEW s \in Task, NEW p \in Patches,
             PatchTask(u, t, p, s)
      PROVE  OpenLaunchOwnsTheAgent'
  <2> DEFINE row == PatchedTask(task[t], p)
             ag == IF "window" \in p.names THEN WithWindow(agent[t], p.window) ELSE agent[t]
  <2>1. agent' = [agent EXCEPT ![t] = FollowTaskWrite(ag, task[t], row)]
    BY <1>8 DEF PatchTask
  <2>2. FollowTaskWrite(ag, task[t], row) \in {NoAgent, agent[t], WithWindow(agent[t], p.window)}
    BY DEF FollowTaskWrite
  <2> HIDE DEF row, ag
  <2>3. AgentsAreKept
    BY <1>0, <2>1, <2>2, AgentsOnlyEnd DEF AgentsAreKept
  <2> QED BY <1>1, <1>2, <1>8, <2>3 DEF PatchTask
<1>9. ASSUME NEW t \in Task, NEW s \in Task, CloseTask(t, s)
      PROVE  OpenLaunchOwnsTheAgent'
  <2> DEFINE ts == TasksWithRespawn(t, DoneTask(task[t]), s)
             ended == AgentsAfterFailure(OpenRequestsOf(t), ts, agent)
  <2>1. OpenRowsAreKept
    BY <1>9, FailedRowsEnd DEF CloseTask
  <2>2. \A x \in Task : ended[x] \in {NoAgent, agent[x]}
    BY <1>0, FailureOnlyEndsAgents
  <2>3. agent' = [ended EXCEPT ![t] = WithWindow(ended[t], None)]
    BY <1>9 DEF CloseTask, ClosedAgent
  <2>4. DOMAIN ended = Task
    BY DEF AgentsAfterFailure
  <2> HIDE DEF ended
  <2>5. AgentsAreKept
    BY <1>0, <2>2, <2>3, <2>4, AgentsOnlyEnd, AgentRules DEF AgentsAreKept
  <2> QED BY <1>1, <2>1, <2>5
<1>10. ASSUME NEW t \in Task, DeleteTask(t)
       PROVE  OpenLaunchOwnsTheAgent'
  <2>1. \A r \in RequestId :
           request'[r] = IF r \in RequestsOf(t) THEN NoRequest ELSE request[r]
    BY <1>10 DEF DeleteTask, Pruned
  <2>2. OpenRowsAreKept
    BY <2>1, LedgerRows DEF OpenRowsAreKept, OpenRequests, IsOpen, OpenStates
  <2>3. agent' = [agent EXCEPT ![t] = NoAgent]
    BY <1>10 DEF DeleteTask
  <2>4. AgentsAreKept
    BY <1>0, <2>3, AgentsOnlyEnd DEF AgentsAreKept
  <2> QED BY <1>1, <2>2, <2>4
<1>11. CASE Tick
  <2>1. OpenRowsAreKept
    BY <1>0, <1>11, LedgerRows DEF Tick, OpenRowsAreKept, OpenRequests, IsOpen
  <2> QED BY <1>1, <1>3, <1>11, <2>1 DEF Tick
<1>12. CASE UNCHANGED <<agent, request>>
  BY <1>1, <1>2, <1>3, <1>12
<1> QED BY <1>4, <1>5, <1>6, <1>7, <1>8, <1>9, <1>10, <1>11, <1>12 DEF Next, ClientStep,
           storeVars, RegisterHost, CreateTask, DueTimePasses, ReportDispatchFailed,
           FailInterruptedDispatchRequests, ExpireDispatchRequest

LEMMA OwnersInit == Init => OpenLaunchOwnsTheAgent
    BY DEF Init, OpenLaunchOwnsTheAgent, OpenRequests, IsOpen, OpenStates, NoRequest

(* The agent of a task whose launch is open runs on the launching host:    *)
(* no patch, close, sweep or second request puts another in its place.     *)
THEOREM OpenLaunchesOwnTheirAgents == Spec => []OpenLaunchOwnsTheAgent
<1> QED BY OwnersInit, OwnersStep, TypeCorrect, LedgerInvariant, PTL DEF Spec

----------------------------------------------------------------------------
(* ----- The roll-up of the epics ----- *)

RolledUp(ts, es, e) ==
    ChildStatuses(ts, es, e) # {} => ((es[e] = "done") <=> (ChildStatuses(ts, es, e) = {"done"}))

(* Two states of the tasks that give an epic the same tasks and statuses.  *)
Alike(ts, us, e) == \A t \in Task : EpicOf[t] = e => us[t].status = ts[t].status

LEMMA DerivedStatusRollsUp ==
    ASSUME NEW current, NEW children, children # {}
    PROVE  (DeriveEpicStatus(current, children) = "done") <=> (children = {"done"})
    BY DEF DeriveEpicStatus

LEMMA ChildrenAreAlike ==
    ASSUME NEW ts, NEW us, NEW es, NEW fs, NEW e \in Epic, Alike(ts, us, e),
           \A c \in SubEpics(e) : fs[c] = es[c]
    PROVE  ChildStatuses(us, fs, e) = ChildStatuses(ts, es, e)
<1>1. TasksIn(us, e) = TasksIn(ts, e)
  BY DEF TasksIn, Alike, Exists
<1>2. \A t \in TasksIn(ts, e) : us[t].status = ts[t].status
  BY DEF TasksIn, Alike
<1>3. {us[t].status : t \in TasksIn(us, e)} = {ts[t].status : t \in TasksIn(ts, e)}
  BY <1>1, <1>2
<1>4. {fs[c] : c \in SubEpics(e)} = {es[c] : c \in SubEpics(e)}
  OBVIOUS
<1> QED BY <1>3, <1>4 DEF ChildStatuses

(* The forest is two levels deep: an epic with sub-epics has no parent, so *)
(* what the second round writes no epic of the first round reads.          *)
LEMMA SubEpicsAreLeaves ==
    ASSUME NEW e \in Epic, NEW c \in SubEpics(e)
    PROVE  SubEpics(c) = {}
<1>1. c \in Epic /\ Parent[c] = e /\ e # None /\ c # None
  BY TaskRulesAssumption DEF SubEpics
<1>2. ASSUME NEW d \in SubEpics(c)
      PROVE  FALSE
  <2>1. d \in Epic /\ Parent[d] = c
    BY DEF SubEpics
  <2>2. Parent[Parent[d]] = None
    BY <1>1, <2>1, TaskRulesAssumption
  <2> QED BY <1>1, <2>1, <2>2
<1> QED BY <1>2

LEMMA OnlyParentsAreRecalculatedNext ==
    ASSUME NEW e \in Epic, NEW E
    PROVE  e \in ParentsOf(E) <=> SubEpics(e) \cap E # {}
    BY DEF ParentsOf, SubEpics

(* The two rounds restore the roll-up of every epic when the tasks have    *)
(* changed in no other epic than those of E.                               *)
LEMMA RollupRestores ==
    ASSUME NEW ts, NEW us, NEW es, NEW E, NEW e \in Epic,
           \A x \in Epic : RolledUp(ts, es, x),
           \A t \in Task : EpicOf[t] \notin E => us[t].status = ts[t].status
    PROVE  RolledUp(us, RecalculatedChains(us, es, E), e)
<1> DEFINE fs == Recalculated(us, es, E)
           gs == Recalculated(us, fs, ParentsOf(E))
<1>1. \A x \in Epic :
         fs[x] = IF x \in E THEN DeriveEpicStatus(es[x], ChildStatuses(us, es, x)) ELSE es[x]
  BY DEF Recalculated
<1>2. \A x \in Epic :
         gs[x] = IF x \in ParentsOf(E)
                 THEN DeriveEpicStatus(fs[x], ChildStatuses(us, fs, x)) ELSE fs[x]
  BY DEF Recalculated
<1> HIDE DEF fs, gs
<1>3. \A c \in SubEpics(e) : c \in Epic /\ gs[c] = fs[c]
  <2> SUFFICES ASSUME NEW c \in SubEpics(e) PROVE c \in Epic /\ gs[c] = fs[c]
    OBVIOUS
  <2>1. c \in Epic
    BY DEF SubEpics
  <2>2. c \notin ParentsOf(E)
    BY <2>1, SubEpicsAreLeaves, OnlyParentsAreRecalculatedNext
  <2> QED BY <1>2, <2>1, <2>2
<1>4. \A x : Alike(us, us, x)
  BY DEF Alike
<1>5. RolledUp(us, gs, e)
  <2>1. CASE e \in ParentsOf(E)
    <3>1. ChildStatuses(us, gs, e) = ChildStatuses(us, fs, e)
      BY <1>3, <1>4, ChildrenAreAlike
    <3> QED BY <1>2, <2>1, <3>1, DerivedStatusRollsUp DEF RolledUp
  <2>2. CASE e \notin ParentsOf(E)
    <3>1. gs[e] = fs[e]
      BY <1>2, <2>2
    <3>2. \A c \in SubEpics(e) : gs[c] = es[c]
      BY <1>1, <1>3, <2>2, OnlyParentsAreRecalculatedNext
    <3>3. CASE e \in E
      <4>1. ChildStatuses(us, gs, e) = ChildStatuses(us, es, e)
        BY <1>4, <3>2, ChildrenAreAlike
      <4> QED BY <1>1, <3>1, <3>3, <4>1, DerivedStatusRollsUp DEF RolledUp
    <3>4. CASE e \notin E
      <4>1. Alike(ts, us, e)
        BY <3>4 DEF Alike
      <4>2. ChildStatuses(us, gs, e) = ChildStatuses(ts, es, e)
        BY <3>2, <4>1, ChildrenAreAlike
      <4>3. gs[e] = es[e]
        BY <1>1, <3>1, <3>4
      <4> QED BY <4>2, <4>3 DEF RolledUp
    <3> QED BY <3>3, <3>4
  <2> QED BY <2>1, <2>2
<1> QED BY <1>5 DEF RecalculatedChains, fs, gs

LEMMA UnmovedStaysRolledUp ==
    ASSUME NEW ts, NEW us, NEW es, NEW e \in Epic, RolledUp(ts, es, e),
           \A t \in Task : us[t].status = ts[t].status
    PROVE  RolledUp(us, es, e)
<1>1. Alike(ts, us, e)
  BY DEF Alike
<1>2. ChildStatuses(us, es, e) = ChildStatuses(ts, es, e)
  BY <1>1, ChildrenAreAlike
<1> QED BY <1>2 DEF RolledUp

(* A write that may complete a phoenix moves its own epic's tasks only.    *)
LEMMA RespawnStaysInItsEpic ==
    ASSUME TypeOK, NEW t \in Task, NEW s \in Task, NEW row, SuccessorFor(t, row, s),
           NEW x \in Task, EpicOf[x] # EpicOf[t]
    PROVE  TasksWithRespawn(t, row, s)[x] = task[x]
    BY DEF TypeOK, TasksWithRespawn, SuccessorFor, Successors

LEMMA FailureMovesItsTasks ==
    ASSUME NEW F, NEW ts, NEW x \in Task, x \notin FailedTasks(F)
    PROVE  TasksAfterFailure(F, ts)[x] = ts[x]
    BY DEF TasksAfterFailure

LEMMA RollupStep ==
    TypeOK /\ EpicsAreDoneWithTheirChildren /\ [Next]_storeVars =>
        EpicsAreDoneWithTheirChildren'
<1> SUFFICES ASSUME TypeOK, EpicsAreDoneWithTheirChildren, [Next]_storeVars, NEW e \in Epic
             PROVE  RolledUp(task', epic', e)
  BY DEF EpicsAreDoneWithTheirChildren, RolledUp, ChildStatuses, TasksIn
<1>0. task \in [Task -> TaskRow] /\ \A x \in Epic : RolledUp(task, epic, x)
  BY DEF TypeOK, EpicsAreDoneWithTheirChildren, RolledUp
<1>1. ASSUME NEW E, epic' = RecalculatedChains(task', epic, E),
             \A x \in Task : EpicOf[x] \notin E => task'[x].status = task[x].status
      PROVE  RolledUp(task', epic', e)
  BY <1>0, <1>1, RollupRestores
<1>2. ASSUME UNCHANGED epic, \A x \in Task : task'[x].status = task[x].status
      PROVE  RolledUp(task', epic', e)
  BY <1>0, <1>2, UnmovedStaysRolledUp
<1>3. ASSUME NEW u \in User, NEW t \in Task, NEW h \in Host, NEW o \in Origins,
             NEW gone \in SUBSET Prunable, RequestDispatch(u, t, h, o, gone)
      PROVE  RolledUp(task', epic', e)
  <2>1. /\ task' = [task EXCEPT ![t] = ClaimedTask(task[t])]
        /\ epic' = RecalculatedChains(task', epic, {EpicOf[t]})
    BY <1>3 DEF RequestDispatch, CreateDispatchRequest
  <2> QED BY <1>0, <1>1, <2>1
<1>4. ASSUME NEW u \in User, NEW r \in RequestId, NEW w \in Worktree, NEW win \in Window,
             ReportDispatchProvisioned(u, r, w, win)
      PROVE  RolledUp(task', epic', e)
  <2> DEFINE t == request[r].task
  <2>1. /\ task' = [task EXCEPT ![t] = DispatchedTask(task[t], w, request[r].host)]
        /\ epic' = RecalculatedChains(task', epic, {EpicOf[t]})
    BY <1>4 DEF ReportDispatchProvisioned
  <2> HIDE DEF t
  <2>2. \A x \in Task : x # t => task'[x] = task[x]
    BY <1>0, <2>1
  <2> QED BY <1>1, <2>1, <2>2
<1>5. ASSUME NEW F, FailDispatchRequests(F)
      PROVE  RolledUp(task', epic', e)
  <2>1. /\ task' = TasksAfterFailure(F, task)
        /\ epic' = RecalculatedChains(task', epic, {EpicOf[t] : t \in FailedTasks(F)})
    BY <1>5 DEF FailDispatchRequests
  <2> QED BY <1>1, <2>1, FailureMovesItsTasks
<1>6. ASSUME NEW u \in User, NEW t \in Task, NEW s \in Task, NEW p \in Patches,
             PatchTask(u, t, p, s)
      PROVE  RolledUp(task', epic', e)
  <2> DEFINE row == PatchedTask(task[t], p)
  <2>1. /\ task' = TasksWithRespawn(t, row, s)
        /\ SuccessorFor(t, row, s)
        /\ epic' = IF row.status # task[t].status
                   THEN RecalculatedChains(task', epic, {EpicOf[t]}) ELSE epic
    BY <1>6 DEF PatchTask
  <2> HIDE DEF row
  <2>2. CASE row.status # task[t].status
    BY <1>1, <2>1, <2>2, RespawnStaysInItsEpic
  <2>3. CASE row.status = task[t].status
    <3>1. task' = [task EXCEPT ![t] = row]
      BY <2>1, <2>3 DEF TasksWithRespawn, ShouldRespawnPhoenix
    <3> QED BY <1>0, <1>2, <2>1, <2>3, <3>1
  <2> QED BY <2>2, <2>3
<1>7. ASSUME NEW t \in Task, NEW ph \in BOOLEAN, NEW on \in BOOLEAN, CreateTask(t, ph, on)
      PROVE  RolledUp(task', epic', e)
  <2>1. /\ \A x \in Task : x # t => task'[x] = task[x]
        /\ epic' = RecalculatedChains(task', epic, {EpicOf[t]})
    BY <1>0, <1>7 DEF CreateTask
  <2> QED BY <1>1, <2>1
<1>8. ASSUME NEW t \in Task, NEW s \in Task, CloseTask(t, s)
      PROVE  RolledUp(task', epic', e)
  <2> DEFINE ts == TasksWithRespawn(t, DoneTask(task[t]), s)
  <2>1. /\ task' = TasksAfterFailure(OpenRequestsOf(t), ts)
        /\ SuccessorFor(t, DoneTask(task[t]), s)
        /\ epic' = RecalculatedChains(task', epic, {EpicOf[t]})
    BY <1>8 DEF CloseTask
  <2>2. ASSUME NEW x \in Task, EpicOf[x] # EpicOf[t]
        PROVE  task'[x] = task[x]
    <3>1. x \notin FailedTasks(OpenRequestsOf(t))
      BY <2>2 DEF FailedTasks, OpenRequestsOf
    <3>2. ts[x] = task[x]
      BY <2>1, <2>2, RespawnStaysInItsEpic
    <3> HIDE DEF ts
    <3> QED BY <2>1, <3>1, <3>2, FailureMovesItsTasks
  <2> QED BY <1>1, <2>1, <2>2
<1>9. ASSUME NEW t \in Task, DeleteTask(t)
      PROVE  RolledUp(task', epic', e)
  <2>1. /\ \A x \in Task : x # t => task'[x] = task[x]
        /\ epic' = RecalculatedChains(task', epic, {EpicOf[t]})
    BY <1>0, <1>9 DEF DeleteTask
  <2> QED BY <1>1, <2>1
<1>10. ASSUME NEW t \in Task, DueTimePasses(t)
       PROVE  RolledUp(task', epic', e)
  BY <1>0, <1>2, <1>10 DEF DueTimePasses, TaskRow
<1>11. CASE UNCHANGED <<task, epic>>
  BY <1>2, <1>11
<1> QED BY <1>3, <1>4, <1>5, <1>6, <1>7, <1>8, <1>9, <1>10, <1>11 DEF Next, ClientStep,
           storeVars, RegisterHost, ClaimDispatchRequest, ReportDispatchFailed,
           FailInterruptedDispatchRequests, ExpireDispatchRequest, Tick

LEMMA RollupInit == Init => EpicsAreDoneWithTheirChildren
<1> SUFFICES ASSUME Init, NEW e \in Epic
             PROVE  RolledUp(task, epic, e)
  BY DEF EpicsAreDoneWithTheirChildren, RolledUp
<1>1. TasksIn(task, e) = {}
  BY DEF Init, TasksIn, Exists, BlankTask, Status
<1>2. \A c \in SubEpics(e) : epic[c] = "backlog"
  BY DEF Init, SubEpics
<1>3. "done" \notin ChildStatuses(task, epic, e)
  BY <1>1, <1>2 DEF ChildStatuses
<1>4. epic[e] = "backlog"
  BY DEF Init
<1> QED BY <1>3, <1>4 DEF RolledUp

(* Every reducer that moves a task recalculates enough of the forest: an   *)
(* epic is done exactly while all of its tasks and sub-epics are.          *)
THEOREM EpicsStayRolledUp == Spec => []EpicsAreDoneWithTheirChildren
<1> QED BY RollupInit, RollupStep, TypeCorrect, PTL DEF Spec

----------------------------------------------------------------------------
(* ----- The ledger implements the exclusive lease ----- *)

LEMMA LeaseInit == Init => Lease!Init
    BY TimingAssumption DEF Init, Lease!Init, PhaseOf, RequestId, NoRequest, OpenRequestsOf,
           OpenRequests, IsOpen, OpenStates

LEMMA LeaseStep ==
    TypeOK /\ LedgerInv /\ LedgerStep => [Lease!Next]_(Lease!leaseVars)
<1> DEFINE phase == [r \in RequestId |-> PhaseOf(r)]
           held == [t \in Task |-> OpenRequestsOf(t)]
<1> SUFFICES ASSUME TypeOK, LedgerInv, LedgerStep
             PROVE  Lease!Next \/ (phase' = phase /\ held' = held)
  BY DEF Lease!leaseVars
<1> USE DEF OpenRequestsOf, OpenRequests, IsOpen, OpenStates
<1>0. /\ request \in [RequestId -> RequestRow]
      /\ nextRequest \in Nat
      /\ RequestId \subseteq Nat
  BY TimingAssumption DEF TypeOK, RequestId
<1>1. ASSUME NEW r \in RequestId, Starts(r)
      PROVE  Lease!Start(r)
  <2>1. /\ request'[r].state = "provisioning"
        /\ request'[r].task = request[r].task
        /\ \A q \in RequestId \ {r} : request'[q] = request[q]
        /\ nextRequest' = nextRequest
    BY <1>0, <1>1 DEF Starts, RequestRow
  <2>2. phase[r] = "requested"
    BY <1>1 DEF Starts, PhaseOf
  <2>3. phase' = [phase EXCEPT ![r] = "provisioning"]
    BY <2>1 DEF PhaseOf
  <2>4. held' = held
    BY <1>1, <2>1 DEF Starts
  <2> QED BY <2>2, <2>3, <2>4 DEF Lease!Start
<1>2. ASSUME NEW r \in RequestId, NEW w \in Worktree, NEW win \in Window, Succeeds(r, w, win)
      PROVE  Lease!Succeed(r)
  <2>1. /\ request'[r].state = "dispatched"
        /\ \A q \in RequestId \ {r} : request'[q] = request[q]
        /\ nextRequest' = nextRequest
    BY <1>0, <1>2 DEF Succeeds, RequestRow
  <2>2. phase[r] = "provisioning"
    BY <1>2 DEF Succeeds, PhaseOf
  <2>3. phase' = [phase EXCEPT ![r] = "dispatched"]
    BY <2>1 DEF PhaseOf
  <2>4. held' = [t \in Task |-> held[t] \ {r}]
    BY <2>1
  <2> QED BY <2>2, <2>3, <2>4 DEF Lease!Succeed
<1>3. ASSUME NEW F \in SUBSET RequestId, Fails(F)
      PROVE  Lease!Fail(F)
  <2>1. /\ \A r \in RequestId :
              /\ request'[r].state = IF r \in F THEN "failed" ELSE request[r].state
              /\ request'[r].task = request[r].task
        /\ nextRequest' = nextRequest
    BY <1>0, <1>3, LedgerRows DEF Fails, RowsFailed
  <2>2. \A r \in F : phase[r] \in {"requested", "provisioning"}
    BY <1>3 DEF Fails, PhaseOf
  <2>3. phase' = [r \in RequestId |-> IF r \in F THEN "failed" ELSE phase[r]]
    BY <2>1 DEF PhaseOf
  <2>4. held' = [t \in Task |-> held[t] \ F]
    BY <2>1
  <2> QED BY <2>2, <2>3, <2>4 DEF Lease!Fail
<1>4. ASSUME NEW t \in Task, Forgets(t)
      PROVE  \E gone \in SUBSET RequestId : Lease!Forget(t, gone)
  <2> DEFINE gone == {r \in RequestsOf(t) : request[r].state # "absent"}
  <2>1. /\ \A r \in RequestsOf(t) : request'[r].state = "absent"
        /\ \A r \in RequestId \ RequestsOf(t) : request'[r] = request[r]
        /\ nextRequest' = nextRequest
    BY <1>4, LedgerRows DEF Forgets, Pruned, RequestsOf
  <2>2. \A r \in RequestId : request[r].state # "absent" => r < nextRequest
    BY <1>0 DEF LedgerInv, IdsAreFresh
  <2>3. held[t] \subseteq gone
    BY DEF RequestsOf
  <2>4. \A r \in gone : phase[r] # "unborn"
    BY <1>0 DEF PhaseOf, RequestsOf, RequestRow, TerminalStates
  <2>5. \A u \in Task \ {t} : held[u] \cap gone = {}
    BY DEF RequestsOf
  <2>6. phase' = [r \in RequestId |-> IF r \in gone THEN "forgotten" ELSE phase[r]]
    BY <2>1, <2>2 DEF PhaseOf, RequestsOf
  <2>7. held' = [held EXCEPT ![t] = {}]
    BY <2>1 DEF RequestsOf
  <2>8. gone \in SUBSET RequestId
    BY DEF RequestsOf
  <2> HIDE DEF gone
  <2> QED BY <2>3, <2>4, <2>5, <2>6, <2>7, <2>8 DEF Lease!Forget
<1>5. ASSUME NEW t \in Task, NEW h \in Host, NEW u \in User, NEW o,
             NEW gone \in SUBSET RequestId, Opens(t, h, u, o, gone)
      PROVE  Lease!Take(nextRequest, t, gone) /\ nextRequest \in RequestId
  <2> DEFINE n == nextRequest
  <2>1. /\ n \in RequestId
        /\ n \notin gone
        /\ request[n].state = "absent"
        /\ request'[n].state = "requested"
        /\ request'[n].task = t
        /\ nextRequest' = n + 1
    BY <1>0, <1>5, LedgerRows
       DEF Opens, Pruned, Prunable, TerminalStates, LedgerInv, IdsAreFresh
  <2>2. \A g \in gone : request[g].state \in {"dispatched", "failed"}
    BY <1>5 DEF Opens, Prunable, TerminalStates
  <2>3. \A r \in RequestId \ {n} :
           request'[r] = IF r \in gone THEN NoRequest ELSE request[r]
    BY <1>0, <1>5 DEF Opens, Pruned
  <2>4. \A r \in gone : r < n /\ request'[r].state = "absent"
    BY <1>0, <2>1, <2>2, <2>3, LedgerRows DEF LedgerInv, IdsAreFresh
  <2>5. \A r \in RequestId \ {n} : (r < n + 1) <=> (r < n)
    BY <1>0, <2>1
  <2>6. phase[n] = "unborn" /\ held[t] = {}
    BY <1>0, <1>5, <2>1 DEF PhaseOf, Opens
  <2>7. \A g \in gone : phase[g] \in {"dispatched", "failed"}
    BY <2>2 DEF PhaseOf
  <2>8. phase' = [r \in RequestId |-> IF r = n THEN "requested"
                                      ELSE IF r \in gone THEN "forgotten" ELSE phase[r]]
    <3>1. ASSUME NEW r \in RequestId
          PROVE  PhaseOf(r)' = IF r = n THEN "requested"
                               ELSE IF r \in gone THEN "forgotten" ELSE PhaseOf(r)
      BY <2>1, <2>3, <2>4, <2>5 DEF PhaseOf
    <3> QED BY <3>1
  <2>9. held' = [held EXCEPT ![t] = {n}]
    <3>1. \A r \in OpenRequestsOf(t)' : r # n => r \in OpenRequestsOf(t)
      BY <2>3, <2>4
    <3>2. OpenRequestsOf(t)' = {n}
      BY <1>5, <2>1, <3>1 DEF Opens
    <3>3. \A x \in Task \ {t} : OpenRequestsOf(x)' = OpenRequestsOf(x)
      BY <2>1, <2>2, <2>3, <2>4
    <3> QED BY <3>2, <3>3
  <2> QED BY <2>1, <2>6, <2>7, <2>8, <2>9 DEF Lease!Take
<1>6. CASE Ages
  <2>1. /\ \A r \in RequestId : /\ request'[r].state = request[r].state
                               /\ request'[r].task = request[r].task
        /\ nextRequest' = nextRequest
    BY <1>0, <1>6, LedgerRows DEF Ages
  <2> QED BY <2>1 DEF PhaseOf
<1>7. CASE UNCHANGED <<request, timers, nextRequest>>
  BY <1>7 DEF PhaseOf
<1> QED BY <1>1, <1>2, <1>3, <1>4, <1>5, <1>6, <1>7 DEF LedgerStep, Lease!Next

(* The requests are exclusive leases of the tasks: DispatchLease is what   *)
(* every interleaving of reducers, timers and restarts implements.         *)
THEOREM LeaseIsImplemented == Spec => LeaseIsRespected
<1>1. TypeOK /\ LedgerInv /\ [Next]_storeVars => [Lease!Next]_(Lease!leaseVars)
  BY EveryStepIsALedgerStep, LeaseStep DEF LedgerInv
<1> QED BY <1>1, LeaseInit, TypeCorrect, LedgerInvariant, PTL
        DEF Spec, LeaseIsRespected, Lease!Spec
============================================================================
