----------------------- MODULE SessionRequests_proofs -----------------------
(***************************************************************************)
(* Proofs about the session requests and the exit tokens, for every set of *)
(* tasks, hosts and users, every timeout, every epic that dispatches its   *)
(* next subtask and every set of wrap-up actions.                          *)
(***************************************************************************)
EXTENDS SessionRequests, DispatchRequests_proofs

(* ----- The store under sessions ----- *)

(* A wrap-up deletes old rows and opens none. *)
Prunes(gone) ==
    /\ gone \subseteq Prunable
    /\ request' = Pruned(gone)
    /\ UNCHANGED <<timers, nextRequest>>

LEMMA PrunableFacts ==
    /\ PrunableDispatches \subseteq Prunable
    /\ {r \in Prunable : request[r].state = "failed"} \subseteq PrunableDispatches
    /\ PrunableDispatches \in SUBSET RequestId
    BY DEF PrunableDispatches, VoidsALiveToken, Prunable

(* Every session step is a step of the store, but for a wrap-up, which     *)
(* only prunes, and an exit, which closes its task and may chain.          *)
LEMMA StoreSteps ==
    ASSUME [SessionNext]_allVars
    PROVE  \/ [Next]_storeVars
           \/ \E u \in User, t \in Task, h \in Host, a \in Actions : RequestWrapUp(u, t, h, a)
           \/ \E u \in User, t \in Task, s \in Task, c \in Task, q \in SessionId :
                RequestExitSession(u, t, q, s, c)
<1>1. ASSUME NEW u \in User, SessionClientStep(u)
      PROVE  \/ [Next]_storeVars
             \/ \E t \in Task, h \in Host, a \in Actions : RequestWrapUp(u, t, h, a)
             \/ \E t \in Task, s \in Task, c \in Task, q \in SessionId :
                  RequestExitSession(u, t, q, s, c)
  <2>1. ASSUME NEW t \in Task, NEW s \in Task, NEW h \in Host, NEW pr \in BOOLEAN,
               CloseTaskSession(u, t, s, h, pr)
        PROVE  [Next]_storeVars
    BY <2>1 DEF CloseTaskSession, Next
  <2>2. ASSUME NEW t \in Task, NEW s \in Task, NEW p \in Patches, NEW h \in Host \cup {None},
               NEW pr \in BOOLEAN, PatchTaskSession(u, t, p, s, h, pr)
        PROVE  [Next]_storeVars
    BY <2>2 DEF PatchTaskSession, Next, ClientStep
  <2>3. ASSUME NEW t \in Task, NEW h \in Host, NEW o \in Origins,
               RequestDispatchSession(u, t, h, o)
        PROVE  [Next]_storeVars
    BY <2>3, PrunableFacts DEF RequestDispatchSession, Next, ClientStep
  <2>4. ASSUME NEW r \in RequestId, NEW w \in Worktree, NEW win \in Window,
               ReportDispatchSession(u, r, w, win)
        PROVE  [Next]_storeVars
    BY <2>4 DEF ReportDispatchSession, Next, ClientStep
  <2>5. ASSUME UNCHANGED storeVars
        PROVE  [Next]_storeVars
    BY <2>5
  <2> QED BY <1>1, <2>1, <2>2, <2>3, <2>4, <2>5
          DEF SessionClientStep, ClaimSessionRequest, ReportSessionRequestDone,
              ReportSessionRequestFailed, FailSessionRequests, FailInterruptedSessionRequests
<1>2. CASE DispatchOnlyStep
  <2>1. ASSUME NEW t \in Task, NEW k \in Created, CreateTask(t, k.phoenix, k.schedule)
        PROVE  Next
    <3>1. k.phoenix \in BOOLEAN /\ k.schedule \in BOOLEAN
      BY SessionAssumption
    <3> QED BY <2>1, <3>1 DEF Next
  <2> QED BY <1>2, <2>1 DEF DispatchOnlyStep, Next, ClientStep
<1>3. ASSUME NEW t \in Task, DeleteTaskSession(t)
      PROVE  [Next]_storeVars
  BY <1>3 DEF DeleteTaskSession, Next
<1>4. ASSUME NEW q \in SessionId, ExpireSessionRequest(q)
      PROVE  [Next]_storeVars
  BY <1>4 DEF ExpireSessionRequest
<1>5. CASE SessionTick
  BY <1>5 DEF SessionTick, Tick, Next, storeVars
<1>6. CASE UNCHANGED allVars
  BY <1>6 DEF allVars
<1> QED BY <1>1, <1>2, <1>3, <1>4, <1>5, <1>6 DEF SessionNext

(* What an exit's first half leaves in the tables. *)
LEMMA ExitKeepsType ==
    ASSUME TypeOK, NEW t \in Task, NEW s \in Task, NEW action
    PROVE  LET ts == TasksWithRespawn(t, SessionClosedTask(task[t], action), s)
           IN  /\ ts \in [Task -> TaskRow]
               /\ [agent EXCEPT ![t] = ClosedAgent(@)] \in [Task -> AgentRow]
               /\ RecalculatedChains(ts, epic, {EpicOf[t]}) \in [Epic -> Status]
<1> DEFINE row == SessionClosedTask(task[t], action)
           ts == TasksWithRespawn(t, row, s)
<1>1. row \in TaskRow
  <2>1. task[t] \in TaskRow
    BY DEF TypeOK
  <2>2. [task[t] EXCEPT !.status = "review", !.due = "none"] \in TaskRow
    BY <2>1 DEF TaskRow, Status
  <2> QED BY <2>1, <2>2, RowRules DEF SessionClosedTask
<1> HIDE DEF row
<1>2. ts \in [Task -> TaskRow]
  BY <1>1, RespawnKeepsType
<1>3. [agent EXCEPT ![t] = ClosedAgent(@)] \in [Task -> AgentRow]
  BY AgentRules DEF TypeOK, ClosedAgent
<1>4. RecalculatedChains(ts, epic, {EpicOf[t]}) \in [Epic -> Status]
  BY RollupKeepsType DEF TypeOK
<1> QED BY <1>2, <1>3, <1>4 DEF row

LEMMA ExitStep ==
    ASSUME TypeOK, NEW u \in User, NEW t \in Task, NEW s \in Task, NEW c \in Task,
           NEW q \in SessionId, RequestExitSession(u, t, q, s, c)
    PROVE  /\ TypeOK'
           /\ \/ \E h \in Host : Opens(c, h, u, "epic_chain", PrunableDispatches)
              \/ UNCHANGED <<request, timers, nextRequest>>
<1> DEFINE ts == TasksWithRespawn(t, SessionClosedTask(task[t], session[q].action), s)
           ag == [agent EXCEPT ![t] = ClosedAgent(@)]
           es == RecalculatedChains(ts, epic, {EpicOf[t]})
           claimed == [ts EXCEPT ![c] = ClaimedTask(@)]
           h == task[t].host
<1>1. /\ ts \in [Task -> TaskRow]
      /\ ag \in [Task -> AgentRow]
      /\ es \in [Epic -> Status]
  BY ExitKeepsType
<1>2. h \in Host /\ ActingFor(u, h)
  BY DEF RequestExitSession, TypeOK, TaskRow
<1>3. CASE c \in ChainCandidates(t) /\ CreateDispatchRequest(c, h, u, "epic_chain",
                                            PrunableDispatches, ts, ag, es)
  <2>1. OpenRequestsOf(c) = {}
    BY <1>3 DEF ChainCandidates, MayDispatch
  <2>2. Opens(c, h, u, "epic_chain", PrunableDispatches)
    BY <1>2, <1>3, <2>1, PrunableFacts DEF Opens, CreateDispatchRequest
  <2>3. claimed \in [Task -> TaskRow]
    BY <1>1, RowRules
  <2>4. RecalculatedChains(claimed, es, {EpicOf[c]}) \in [Epic -> Status]
    BY <1>1, RollupKeepsType
  <2>5. NewRequest(c, h, u, "epic_chain") \in RequestRow
    BY <1>2 DEF NewRequest, NoRequest, RequestRow, OpenStates, TerminalStates
  <2>6. request' \in [RequestId -> RequestRow]
    BY <2>2, <2>5, RequestRules DEF Opens, Pruned, TypeOK
  <2>7. [ag EXCEPT ![c] = NewAgent(h)] \in [Task -> AgentRow]
    BY <1>1, <1>2, AgentRules
  <2>8. nextRequest' \in Nat \ {0} /\ timers' \in SUBSET RequestId
    BY <2>2, TimingAssumption DEF Opens, TypeOK, RequestId
  <2>9. /\ task' = claimed
        /\ agent' = [ag EXCEPT ![c] = NewAgent(h)]
        /\ epic' = RecalculatedChains(claimed, es, {EpicOf[c]})
    BY <1>3 DEF CreateDispatchRequest
  <2>10. hosts' = hosts
    BY DEF RequestExitSession
  <2> HIDE DEF ts, ag, es, claimed
  <2> QED BY <1>2, <2>2, <2>3, <2>4, <2>6, <2>7, <2>8, <2>9, <2>10 DEF TypeOK
<1>4. CASE /\ task' = ts /\ agent' = ag /\ epic' = es
           /\ UNCHANGED <<request, timers, nextRequest>>
  <2>1. hosts' = hosts
    BY DEF RequestExitSession
  <2> HIDE DEF ts, ag, es
  <2> QED BY <1>1, <1>4, <2>1 DEF TypeOK
<1> QED BY <1>3, <1>4 DEF RequestExitSession

LEMMA WrapUpStep ==
    ASSUME TypeOK, NEW u \in User, NEW t \in Task, NEW h \in Host, NEW a \in Actions,
           RequestWrapUp(u, t, h, a)
    PROVE  TypeOK' /\ Prunes(PrunableDispatches)
<1>1. Prunes(PrunableDispatches)
  BY PrunableFacts DEF RequestWrapUp, Prunes
<1>2. request' \in [RequestId -> RequestRow]
  BY <1>1, RequestRules DEF Prunes, Pruned, TypeOK
<1> QED BY <1>1, <1>2 DEF RequestWrapUp, TypeOK

LEMMA StoreTypeStep == TypeOK /\ [SessionNext]_allVars => TypeOK'
    BY StoreSteps, TypeStep, ExitStep, WrapUpStep

(* Deleting finished rows leaves the ledger's invariant alone. *)
LEMMA PruningStep ==
    ASSUME TypeOK, LedgerInv, NEW gone, Prunes(gone)
    PROVE  LedgerInv'
<1> USE DEF LedgerInv, RowsAreFilled, IdsAreFresh, TimerExactlyWhileOpen,
            OneOpenDispatchRequestPerTask, OpenRequests, IsOpen, OpenStates
<1>1. \A r \in RequestId : request'[r] = IF r \in gone THEN NoRequest ELSE request[r]
  BY DEF Prunes, Pruned
<1>2. \A r \in RequestId : request'[r].state # "absent" => request'[r] = request[r]
  BY <1>1, LedgerRows
<1>3. OpenRequests' = OpenRequests
  BY <1>1, <1>2 DEF Prunes, Prunable, TerminalStates
<1> QED BY <1>1, <1>2, <1>3, LedgerRows DEF Prunes

LEMMA LedgerUnderSessions ==
    TypeOK /\ LedgerInv /\ [SessionNext]_allVars =>
        /\ LedgerInv'
        /\ LedgerStep \/ Prunes(PrunableDispatches)
<1> SUFFICES ASSUME TypeOK, LedgerInv, [SessionNext]_allVars
             PROVE  LedgerInv' /\ (LedgerStep \/ Prunes(PrunableDispatches))
  OBVIOUS
<1>1. CASE [Next]_storeVars
  <2>1. LedgerStep
    BY <1>1, EveryStepIsALedgerStep DEF LedgerInv
  <2> QED BY <2>1, LedgerInvStep
<1>2. ASSUME NEW u \in User, NEW t \in Task, NEW h \in Host, NEW a \in Actions,
             RequestWrapUp(u, t, h, a)
      PROVE  LedgerInv' /\ Prunes(PrunableDispatches)
  BY <1>2, WrapUpStep, PruningStep
<1>3. ASSUME NEW u \in User, NEW t \in Task, NEW s \in Task, NEW c \in Task,
             NEW q \in SessionId, RequestExitSession(u, t, q, s, c)
      PROVE  LedgerInv' /\ LedgerStep
  <2>1. CASE \E h \in Host : Opens(c, h, u, "epic_chain", PrunableDispatches)
    <3>1. LedgerStep
      BY <2>1, PrunableFacts DEF LedgerStep
    <3> QED BY <3>1, LedgerInvStep
  <2>2. CASE UNCHANGED <<request, timers, nextRequest>>
    <3>1. LedgerStep
      BY <2>2 DEF LedgerStep
    <3> QED BY <3>1, LedgerInvStep
  <2> QED BY <1>3, <2>1, <2>2, ExitStep
<1> QED BY <1>1, <1>2, <1>3, StoreSteps

(* Rows that are pruned are leases that had ended. *)
LEMMA PruningIsALeaseStep ==
    ASSUME TypeOK, LedgerInv, NEW gone, Prunes(gone)
    PROVE  [Lease!Next]_(Lease!leaseVars)
<1> DEFINE phase == [r \in RequestId |-> PhaseOf(r)]
           held == [t \in Task |-> OpenRequestsOf(t)]
<1> USE DEF OpenRequestsOf, OpenRequests, IsOpen, OpenStates
<1>0. /\ request \in [RequestId -> RequestRow]
      /\ nextRequest \in Nat
      /\ RequestId \subseteq Nat
      /\ gone \in SUBSET RequestId
  BY TimingAssumption DEF TypeOK, RequestId, Prunes, Prunable
<1>1. \A r \in RequestId : request'[r] = IF r \in gone THEN NoRequest ELSE request[r]
  BY DEF Prunes, Pruned
<1>2. \A r \in gone : request[r].state \in {"dispatched", "failed"} /\ r < nextRequest
  BY <1>0 DEF Prunes, Prunable, TerminalStates, LedgerInv, IdsAreFresh
<1>3. \A r \in gone : phase[r] \in {"dispatched", "failed"}
  BY <1>0, <1>2 DEF PhaseOf
<1>4. phase' = [r \in RequestId |-> IF r \in gone THEN "forgotten" ELSE phase[r]]
  BY <1>1, <1>2, LedgerRows DEF PhaseOf, Prunes
<1>5. held' = held
  BY <1>1, <1>2, LedgerRows
<1> QED BY <1>0, <1>3, <1>4, <1>5 DEF Lease!Prune, Lease!Next

LEMMA StoreInvariantUnderSessions == SessionSpec => [](TypeOK /\ LedgerInv)
<1>1. SessionInit => TypeOK /\ LedgerInv
  BY TypeInit, LedgerInit DEF SessionInit
<1>2. TypeOK /\ LedgerInv /\ [SessionNext]_allVars => TypeOK' /\ LedgerInv'
  BY StoreTypeStep, LedgerUnderSessions
<1> QED BY <1>1, <1>2, PTL DEF SessionSpec

(* Wrap-ups, exits that chain and retention leave the dispatch requests    *)
(* what they were without them: exclusive leases of their tasks.           *)
THEOREM LeaseSurvivesSessions == SessionSpec => LeaseIsRespected
<1>1. SessionInit => Lease!Init
  BY LeaseInit DEF SessionInit
<1>2. TypeOK /\ LedgerInv /\ [SessionNext]_allVars => [Lease!Next]_(Lease!leaseVars)
  BY LedgerUnderSessions, LeaseStep, PruningIsALeaseStep
<1> QED BY <1>1, <1>2, StoreInvariantUnderSessions, PTL
        DEF SessionSpec, LeaseIsRespected, Lease!Spec
----------------------------------------------------------------------------
(* ----- The safety of the store under sessions ----- *)

StoreSafety ==
    /\ PendingRunBelongsToAWaitingTask
    /\ EpicsAreDoneWithTheirChildren
    /\ OpenLaunchOwnsTheAgent

StoreRows(ts) == \A x \in Task : Waits(ts[x])

LEMMA StoreSafetyInParts ==
    StoreSafety <=> /\ StoreRows(task)
                    /\ \A e \in Epic : RolledUp(task, epic, e)
                    /\ OpenLaunchOwnsTheAgent
    BY DEF StoreSafety, StoreRows, PendingRunBelongsToAWaitingTask,
           Waits, EpicsAreDoneWithTheirChildren, RolledUp

(* A wrap-up deletes finished rows and moves no task, agent or epic.       *)
LEMMA WrapUpKeepsSafety ==
    ASSUME TypeOK, LedgerInv, StoreSafety, NEW u \in User, NEW t \in Task, NEW h \in Host,
           NEW a \in Actions, RequestWrapUp(u, t, h, a)
    PROVE  /\ StoreSafety'
           /\ \A x \in Task : OpenRequestsOf(x) \subseteq OpenRequestsOf(x)'
<1>1. Prunes(PrunableDispatches) /\ UNCHANGED <<task, agent, epic>>
  BY PrunableFacts DEF RequestWrapUp, Prunes
<1>2. \A r \in RequestId :
         request'[r] = IF r \in PrunableDispatches THEN NoRequest ELSE request[r]
  BY <1>1 DEF Prunes, Pruned
<1>3. OpenRowsAreKept
  BY <1>2, LedgerRows DEF OpenRowsAreKept, OpenRequests, IsOpen, OpenStates
<1>4. OpenLaunchOwnsTheAgent'
  BY <1>1, <1>3 DEF OpenRowsAreKept, StoreSafety, OpenLaunchOwnsTheAgent
<1>5. \A x \in Task : OpenRequestsOf(x) \subseteq OpenRequestsOf(x)'
  BY <1>2, PrunableFacts
     DEF OpenRequestsOf, OpenRequests, IsOpen, OpenStates, Prunable, TerminalStates
<1>6. PendingRunBelongsToAWaitingTask'
  BY <1>1 DEF StoreSafety, PendingRunBelongsToAWaitingTask
<1>7. EpicsAreDoneWithTheirChildren'
  <2>1. \A e \in Epic : ChildStatuses(task, epic, e)' = ChildStatuses(task, epic, e)
    BY <1>1 DEF ChildStatuses, TasksIn
  <2> QED BY <1>1, <2>1 DEF StoreSafety, EpicsAreDoneWithTheirChildren
<1> QED BY <1>4, <1>5, <1>6, <1>7 DEF StoreSafety

(* The close of an exit: its task ends in done or review, with no run      *)
(* pending, and the task's own epic is rolled up.                          *)
LEMMA ExitsCloseKeepsSafety ==
    ASSUME TypeOK, StoreSafety, NEW t \in Task, NEW s \in Task, NEW action,
           SuccessorFor(t, SessionClosedTask(task[t], action), s)
    PROVE  LET ts == TasksWithRespawn(t, SessionClosedTask(task[t], action), s)
               es == RecalculatedChains(ts, epic, {EpicOf[t]})
           IN  StoreRows(ts) /\ \A e \in Epic : RolledUp(ts, es, e)
<1> DEFINE row == SessionClosedTask(task[t], action)
           ts == TasksWithRespawn(t, row, s)
           es == RecalculatedChains(ts, epic, {EpicOf[t]})
<1>1. task[t] \in TaskRow
  BY DEF TypeOK
<1>2. row \in TaskRow /\ row.due = "none"
  BY <1>1 DEF SessionClosedTask, DoneTask, TaskRow, Status
<1>3. Waits(row)
  BY <1>2 DEF Waits
<1> HIDE DEF row
<1>4. StoreRows(ts)
  BY <1>2, <1>3, RespawnKeepsWaiting DEF StoreSafety, StoreRows
<1>5. \A x \in Task : EpicOf[x] \notin {EpicOf[t]} => ts[x].status = task[x].status
  BY RespawnStaysInItsEpic DEF row
<1> HIDE DEF ts
<1>6. \A e \in Epic : RolledUp(ts, es, e)
  BY <1>5, RollupRestores, StoreSafetyInParts
<1> QED BY <1>4, <1>6 DEF ts, row

LEMMA ExitKeepsSafety ==
    ASSUME TypeOK, LedgerInv, StoreSafety, NEW u \in User, NEW t \in Task, NEW s \in Task,
           NEW c \in Task, NEW q \in SessionId, RequestExitSession(u, t, q, s, c)
    PROVE  /\ StoreSafety'
           /\ \A x \in Task : OpenRequestsOf(x) \subseteq OpenRequestsOf(x)'
<1> DEFINE ts == TasksWithRespawn(t, SessionClosedTask(task[t], session[q].action), s)
           ag == [agent EXCEPT ![t] = ClosedAgent(@)]
           es == RecalculatedChains(ts, epic, {EpicOf[t]})
           claimed == [ts EXCEPT ![c] = ClaimedTask(@)]
           h == task[t].host
<1>1. /\ ts \in [Task -> TaskRow]
      /\ ag \in [Task -> AgentRow]
  BY ExitKeepsType
<1>2. StoreRows(ts) /\ \A e \in Epic : RolledUp(ts, es, e)
  BY ExitsCloseKeepsSafety DEF RequestExitSession
<1>3. \A x \in Task : ag[x].current = agent[x].current /\ ag[x].host = agent[x].host
  BY AgentsOnlyEnd DEF TypeOK, ClosedAgent
<1>4. /\ request \in [RequestId -> RequestRow]
      /\ \A r \in OpenRequests : r \in RequestId /\ request[r].task \in Task
  BY DEF TypeOK, LedgerInv, RowsAreFilled, OpenRequests, IsOpen, OpenStates
<1>5. CASE c \in ChainCandidates(t) /\ CreateDispatchRequest(c, h, u, "epic_chain",
                                            PrunableDispatches, ts, ag, es)
  <2>1. /\ nextRequest \in RequestId
        /\ task' = claimed
        /\ agent' = [ag EXCEPT ![c] = NewAgent(h)]
        /\ epic' = RecalculatedChains(claimed, es, {EpicOf[c]})
        /\ request' = [Pruned(PrunableDispatches) EXCEPT
                         ![nextRequest] = NewRequest(c, h, u, "epic_chain")]
    BY <1>5 DEF CreateDispatchRequest
  <2> HIDE DEF ts, ag, es
  <2>2. StoreRows(claimed)
    BY <1>1, <1>2, RowRulesKeepWaiting DEF StoreRows
  <2>3. \A x \in Task : EpicOf[x] \notin {EpicOf[c]} => claimed[x].status = ts[x].status
    BY <1>1
  <2> HIDE DEF claimed
  <2>4. \A e \in Epic : RolledUp(claimed, RecalculatedChains(claimed, es, {EpicOf[c]}), e)
    BY <1>2, <2>3, RollupRestores
  <2>5. /\ request'[nextRequest].task = c
        /\ request'[nextRequest].host = h
        /\ request[nextRequest].state = "absent"
    BY <2>1, LedgerRows, TimingAssumption DEF Pruned, LedgerInv, IdsAreFresh, TypeOK, RequestId
  <2>6. \A r \in RequestId \ {nextRequest} :
           request'[r] = IF r \in PrunableDispatches THEN NoRequest ELSE request[r]
    BY <2>1 DEF Pruned
  <2>7. \A r \in OpenRequests : r # nextRequest /\ r \notin PrunableDispatches
    BY <2>5, PrunableFacts DEF OpenRequests, IsOpen, OpenStates, Prunable, TerminalStates
  <2>8. \A x \in Task : OpenRequestsOf(x) \subseteq OpenRequestsOf(x)'
    BY <2>6, <2>7 DEF OpenRequestsOf, OpenRequests, IsOpen
  <2>9. ASSUME NEW r \in OpenRequests', r # nextRequest
        PROVE  /\ r \in OpenRequests
               /\ request'[r] = request[r]
               /\ request[r].task # c
    <3>1. r \in RequestId /\ request'[r].state \in OpenStates
      BY DEF OpenRequests, IsOpen
    <3>2. request'[r] = request[r]
      BY <2>6, <2>9, <3>1, LedgerRows DEF OpenStates
    <3>3. OpenRequestsOf(c) = {}
      BY <1>5 DEF ChainCandidates, MayDispatch
    <3> QED BY <3>1, <3>2, <3>3 DEF OpenRequestsOf, OpenRequests, IsOpen
  <2>10. NewAgent(h).host = h
    BY DEF NewAgent
  <2>11. OpenLaunchOwnsTheAgent'
    BY <1>1, <1>3, <1>4, <2>1, <2>5, <2>9, <2>10 DEF OpenLaunchOwnsTheAgent, StoreSafety
  <2>12. StoreRows(task)' /\ \A e \in Epic : RolledUp(task', epic', e)
    BY <2>1, <2>2, <2>4 DEF StoreRows
  <2>13. StoreSafety'
    BY <2>11, <2>12, StoreSafetyInParts
       DEF StoreSafety, StoreRows, PendingRunBelongsToAWaitingTask,
           Waits, EpicsAreDoneWithTheirChildren, RolledUp, ChildStatuses, TasksIn
  <2> QED BY <2>8, <2>13
<1>6. CASE /\ task' = ts /\ agent' = ag /\ epic' = es
           /\ UNCHANGED <<request, timers, nextRequest>>
  <2> HIDE DEF ts, ag, es
  <2>1. OpenLaunchOwnsTheAgent'
    BY <1>3, <1>4, <1>6 DEF OpenLaunchOwnsTheAgent, StoreSafety, OpenRequests, IsOpen
  <2>2. StoreRows(task)' /\ \A e \in Epic : RolledUp(task', epic', e)
    BY <1>2, <1>6 DEF StoreRows
  <2>3. StoreSafety'
    BY <2>1, <2>2
       DEF StoreSafety, StoreRows, PendingRunBelongsToAWaitingTask,
           Waits, EpicsAreDoneWithTheirChildren, RolledUp, ChildStatuses, TasksIn
  <2> QED BY <1>6, <2>3 DEF OpenRequestsOf, OpenRequests, IsOpen
<1> QED BY <1>5, <1>6 DEF RequestExitSession

LEMMA SafetyUnderSessions == SessionSpec => []StoreSafety
<1>1. SessionInit => StoreSafety
  BY WaitingInit, RollupInit, OwnersInit DEF SessionInit, StoreSafety
<1>2. TypeOK /\ LedgerInv /\ StoreSafety /\ [Next]_storeVars => StoreSafety'
  BY WaitingStep, RollupStep, OwnersStep DEF StoreSafety
<1>3. TypeOK /\ LedgerInv /\ StoreSafety /\ [SessionNext]_allVars => StoreSafety'
  BY <1>2, StoreSteps, WrapUpKeepsSafety, ExitKeepsSafety
<1> QED BY <1>1, <1>3, StoreInvariantUnderSessions, PTL DEF SessionSpec

(* An exit that chains the next subtask leaves its epic, and the one the   *)
(* subtask is claimed in, done exactly while all their children are.       *)
THEOREM EpicsStayRolledUpUnderSessions == SessionSpec => []EpicsAreDoneWithTheirChildren
<1>1. StoreSafety => EpicsAreDoneWithTheirChildren
  BY DEF StoreSafety
<1> QED BY <1>1, SafetyUnderSessions, PTL

(* An exit disarms the task it closes, and a chained subtask takes its     *)
(* claim without losing the run it waits for.                              *)
THEOREM PendingRunsWaitUnderSessions == SessionSpec => []PendingRunBelongsToAWaitingTask
<1>1. StoreSafety => PendingRunBelongsToAWaitingTask
  BY DEF StoreSafety
<1> QED BY <1>1, SafetyUnderSessions, PTL

(* The agent of an open launch runs on the launching host, the chained     *)
(* launches included.                                                      *)
THEOREM OpenLaunchesOwnTheirAgentsUnderSessions == SessionSpec => []OpenLaunchOwnsTheAgent
<1>1. StoreSafety => OpenLaunchOwnsTheAgent
  BY DEF StoreSafety
<1> QED BY <1>1, SafetyUnderSessions, PTL

(* No exit, wrap-up or retention ends a dispatch request that is open, so  *)
(* none strands a claim.                                                   *)
THEOREM ClaimsEndUnderSessions == SessionSpec => NoClaimIsStranded
<1>1. TypeOK /\ LedgerInv /\ StoreSafety /\ [SessionNext]_allVars =>
         \A t \in Task :
             (OpenRequestsOf(t) # {} /\ OpenRequestsOf(t)' = {}) => ~IsBareClaim(task'[t])
  <2> SUFFICES ASSUME TypeOK, LedgerInv, StoreSafety, [SessionNext]_allVars, NEW t \in Task,
                      OpenRequestsOf(t) # {}, OpenRequestsOf(t)' = {}
               PROVE  ~IsBareClaim(task'[t])
    OBVIOUS
  <2>1. ~(OpenRequestsOf(t) \subseteq OpenRequestsOf(t)')
    OBVIOUS
  <2>2. [Next]_storeVars
    BY <2>1, StoreSteps, WrapUpKeepsSafety, ExitKeepsSafety
  <2> QED BY <2>2, ClaimsStep
<1> QED BY <1>1, SafetyUnderSessions, StoreInvariantUnderSessions, PTL
        DEF SessionSpec, NoClaimIsStranded
----------------------------------------------------------------------------
(* ----- What a step does to session_requests ----- *)

(* The row a step may add: open, or a wrap-up written finished.  An exit   *)
(* names a finished wrap-up of its task which no exit has spent.           *)
Addable(row) ==
    /\ row \in SessionRow
    /\ row.task \in Task
    /\ row.age = 0
    /\ row.sinceFinished = {}
    /\ row.state = "requested" \/ (row.state = "done" /\ row.kind = "wrap_up")
    /\ row.kind = "exit_session" => row.token \in DoneWrapUps(row.task) /\ ~Consumed(row.token)

(* A row added once retention has deleted the rows `gone`. *)
Adds(row, gone) ==
    /\ Addable(row)
    /\ OpenSessionsOf(row.task) = {}
    /\ gone = {} \/ gone = PrunableSessions
    /\ nextSession \in SessionId
    /\ session' = [SessionsKept(gone) EXCEPT ![nextSession] = row]
    /\ sessionTimers' = sessionTimers \cup (IF row.state = "requested" THEN {nextSession} ELSE {})
    /\ nextSession' = nextSession + 1

(* A close, which fails the open rows of its task first. *)
Replaces(row) ==
    /\ Addable(row)
    /\ row.state = "requested" /\ row.kind = "close"
    /\ nextSession \in SessionId
    /\ session' = [SessionsFailed(OpenSessionsOf(row.task)) EXCEPT ![nextSession] = row]
    /\ sessionTimers' = (sessionTimers \ OpenSessionsOf(row.task)) \cup {nextSession}
    /\ nextSession' = nextSession + 1

FailsRows(Q) ==
    /\ Q \subseteq OpenSessions
    /\ session' = SessionsFailed(Q)
    /\ sessionTimers' = sessionTimers \ Q
    /\ UNCHANGED nextSession

DeletesOldRows ==
    /\ session' = SessionsKept(PrunableSessions)
    /\ UNCHANGED <<sessionTimers, nextSession>>

ForgetsRows(t) ==
    /\ session' = SessionsKept({q \in SessionId : session[q].task = t})
    /\ sessionTimers' = sessionTimers \ OpenSessionsOf(t)
    /\ UNCHANGED nextSession
    /\ ~Exists(task'[t])

StartsRow(q) ==
    /\ session[q].state = "requested"
    /\ session' = [session EXCEPT ![q] = [@ EXCEPT !.state = "running"]]
    /\ UNCHANGED <<sessionTimers, nextSession>>

FinishesRow(q) ==
    /\ session[q].state = "running"
    /\ session' = [session EXCEPT ![q] = [@ EXCEPT !.state = "done", !.age = 0]]
    /\ sessionTimers' = sessionTimers \ {q}
    /\ UNCHANGED nextSession

(* The dispatch r landed after the wrap-ups of its task. *)
MarksRows(r) ==
    /\ request[r].state = "provisioning"
    /\ request'[r].state = "dispatched"
    /\ request'[r].task = request[r].task
    /\ session' = [q \in SessionId |->
         IF /\ session[q].kind = "wrap_up"
            /\ session[q].state # "failed"
            /\ session[q].task = request[r].task
         THEN [session[q] EXCEPT
                 !.sinceRequested = @ \cup {r},
                 !.sinceFinished = IF SessionIsOpen(q) THEN {} ELSE @ \cup {r}]
         ELSE session[q]]
    /\ UNCHANGED <<sessionTimers, nextSession>>

AgesRows ==
    /\ session' = [q \in SessionId |-> AgedSession(session[q])]
    /\ UNCHANGED <<sessionTimers, nextSession>>

SessionLedgerStep ==
    \/ \E row \in SessionRow, gone \in SUBSET SessionId : Adds(row, gone)
    \/ \E row \in SessionRow : Replaces(row)
    \/ \E Q \in SUBSET SessionId : FailsRows(Q)
    \/ DeletesOldRows
    \/ \E t \in Task : ForgetsRows(t)
    \/ \E q \in SessionId : StartsRow(q) \/ FinishesRow(q)
    \/ \E r \in RequestId : MarksRows(r)
    \/ AgesRows
    \/ UNCHANGED sessionVars

LEMMA NoSessionIsARow == NoSession \in SessionRow
    BY DEF NoSession, SessionRow, OpenSessionStates, FinishedStates

LEMMA NewSessionRow ==
    ASSUME NEW kind \in {"wrap_up", "exit_session", "close"}, NEW u \in User, NEW t \in Task,
           NEW h \in Host, NEW a \in {"rebase", "done", "pr"}
    PROVE  LET row == SessionRequested(kind, u, t, h, a)
           IN  /\ row \in SessionRow
               /\ row.state = "requested" /\ row.kind = kind /\ row.task = t
               /\ row.age = 0 /\ row.sinceFinished = {}
    BY DEF SessionRequested, NoSession, SessionRow, OpenSessionStates, FinishedStates

LEMMA NewWrapUpIsAddable ==
    ASSUME NEW u \in User, NEW t \in Task, NEW h \in Host, NEW a \in Actions
    PROVE  /\ Addable(NewWrapUp(u, t, h, a))
           /\ NewWrapUp(u, t, h, a).task = t
           /\ NewWrapUp(u, t, h, a).state = "requested" <=> a = "rebase"
<1> DEFINE row == SessionRequested("wrap_up", u, t, h, a)
           done == [row EXCEPT !.state = "done"]
<1>1. a \in {"rebase", "done", "pr"}
  BY SessionAssumption
<1>2. row \in SessionRow /\ row.state = "requested" /\ row.kind = "wrap_up" /\ row.task = t
      /\ row.age = 0 /\ row.sinceFinished = {}
  BY <1>1, NewSessionRow
<1> HIDE DEF row
<1>3. done \in SessionRow /\ done.state = "done" /\ done.kind = "wrap_up" /\ done.task = t
      /\ done.age = 0 /\ done.sinceFinished = {}
  BY <1>2 DEF SessionRow, FinishedStates
<1>4. NewWrapUp(u, t, h, a) = IF a = "rebase" THEN row ELSE done
  BY DEF NewWrapUp, row
<1> HIDE DEF done
<1> QED BY <1>2, <1>3, <1>4 DEF Addable
(* The row a close leaves and the rows it fails. *)
LEMMA CloseSessionsIsALedgerStep ==
    ASSUME SessionTypeOK, NEW u \in User, NEW t \in Task, NEW row \in TaskRow,
           NEW owed, NEW h \in Host \cup {None}, NEW Q \in SUBSET OpenSessionsOf(t),
           owed => Q = OpenSessionsOf(t) /\ TeardownHost(row, h) # None,
           CloseSessions(u, t, row, owed, h, Q)
    PROVE  SessionLedgerStep
<1> DEFINE new == SessionRequested("close", u, t, TeardownHost(row, h), "done")
<1>1. CASE owed
  <2>1. TeardownHost(row, h) \in Host
    BY <1>1 DEF TeardownHost, TaskRow
  <2>2. /\ new \in SessionRow /\ new.state = "requested" /\ new.kind = "close"
        /\ new.task = t /\ new.age = 0 /\ new.sinceFinished = {}
    BY <2>1, NewSessionRow
  <2>3. /\ nextSession \in SessionId
        /\ session' = [SessionsFailed(Q) EXCEPT ![nextSession] = new]
        /\ sessionTimers' = (sessionTimers \ Q) \cup {nextSession}
        /\ nextSession' = nextSession + 1
    BY <1>1 DEF CloseSessions
  <2> HIDE DEF new
  <2>5. Addable(new)
    BY <2>2 DEF Addable, Consumed
  <2>6. OpenSessionsOf(new.task) = Q
    BY <1>1, <2>2
  <2>4. Replaces(new)
    BY <2>2, <2>3, <2>5, <2>6 DEF Replaces
  <2> QED BY <2>2, <2>4 DEF SessionLedgerStep
<1>2. CASE ~owed
  <2>1. Q \in SUBSET SessionId /\ Q \subseteq OpenSessions
    BY DEF OpenSessionsOf, OpenSessions
  <2>2. FailsRows(Q)
    BY <1>2, <2>1 DEF CloseSessions, FailsRows
  <2> QED BY <2>1, <2>2 DEF SessionLedgerStep
<1> QED BY <1>1, <1>2

LEMMA ExitIsALedgerStep ==
    ASSUME TypeOK, SessionTypeOK, NEW u \in User, NEW t \in Task, NEW s \in Task, NEW c \in Task,
           NEW q \in SessionId, RequestExitSession(u, t, q, s, c)
    PROVE  SessionLedgerStep
<1> DEFINE base == SessionRequested("exit_session", u, t, task[t].host, session[q].action)
           row == ExitRow(u, t, q)
           gone == IF Chains(t) THEN PrunableSessions ELSE {}
<1>1. task[t].host \in Host /\ session[q].action \in {"rebase", "done", "pr"}
  BY DEF RequestExitSession, TypeOK, SessionTypeOK, TaskRow, SessionRow
<1>2. /\ base \in SessionRow /\ base.state = "requested" /\ base.kind = "exit_session"
      /\ base.task = t /\ base.age = 0 /\ base.sinceFinished = {}
  BY <1>1, NewSessionRow
<1>3. row = [base EXCEPT !.token = q]
  BY DEF ExitRow
<1> HIDE DEF base
<1>4. /\ row \in SessionRow /\ row.state = "requested" /\ row.kind = "exit_session"
      /\ row.task = t /\ row.age = 0 /\ row.sinceFinished = {} /\ row.token = q
  BY <1>2, <1>3 DEF SessionRow
<1>5. /\ q \in DoneWrapUps(t) /\ ~Consumed(q) /\ OpenSessionsOf(t) = {}
  BY DEF RequestExitSession, MayExit, ValidToken, LiveTokens
<1>6. /\ nextSession \in SessionId
      /\ session' = [SessionsKept(gone) EXCEPT ![nextSession] = row]
      /\ sessionTimers' = sessionTimers \cup {nextSession}
      /\ nextSession' = nextSession + 1
  BY DEF RequestExitSession
<1>7. gone \in SUBSET SessionId /\ (gone = {} \/ gone = PrunableSessions)
  BY DEF PrunableSessions, OldSessions
<1> HIDE DEF row, gone
<1>9. Addable(row)
  BY <1>4, <1>5 DEF Addable, Consumed
<1>10. OpenSessionsOf(row.task) = {}
  BY <1>4, <1>5
<1>8. Adds(row, gone)
  BY <1>4, <1>6, <1>7, <1>9, <1>10 DEF Adds
<1> QED BY <1>4, <1>7, <1>8 DEF SessionLedgerStep

LEMMA DeletionEndsTheTask ==
    ASSUME TypeOK, NEW t \in Task, DeleteTaskSession(t)
    PROVE  ~Exists(task'[t])
<1>1. task'[t] = DeletedTask
  BY DEF DeleteTaskSession, DeleteTask, TypeOK
<1> QED BY <1>1 DEF DeletedTask, BlankTask, Exists, Status

LEMMA EverySessionStepIsALedgerStep ==
    /\ TypeOK /\ SessionTypeOK /\ SessionTimerExactlyWhileOpen
    /\ [SessionNext]_allVars
    => SessionLedgerStep
<1> SUFFICES ASSUME TypeOK, SessionTypeOK, SessionTimerExactlyWhileOpen, [SessionNext]_allVars
             PROVE  SessionLedgerStep
  OBVIOUS
<1>1. ASSUME NEW u \in User, NEW t \in Task, NEW h \in Host, NEW a \in Actions,
             RequestWrapUp(u, t, h, a)
      PROVE  SessionLedgerStep
  <2> DEFINE row == NewWrapUp(u, t, h, a)
  <2>1. /\ Addable(row) /\ row.task = t /\ row \in SessionRow
        /\ (row.state = "requested" <=> a = "rebase")
    BY NewWrapUpIsAddable DEF Addable
  <2>2. /\ nextSession \in SessionId
        /\ session' = [SessionsKept(PrunableSessions) EXCEPT ![nextSession] = row]
        /\ sessionTimers' = IF a = "rebase" THEN sessionTimers \cup {nextSession}
                            ELSE sessionTimers
        /\ nextSession' = nextSession + 1
        /\ OpenSessionsOf(t) = {}
    BY <1>1 DEF RequestWrapUp, MayWrapUp
  <2>3. PrunableSessions \in SUBSET SessionId
    BY DEF PrunableSessions, OldSessions
  <2> HIDE DEF row
  <2>4. Adds(row, PrunableSessions)
    BY <2>1, <2>2 DEF Adds
  <2> QED BY <2>1, <2>3, <2>4 DEF SessionLedgerStep
<1>2. ASSUME NEW u \in User, NEW q \in SessionId, ClaimSessionRequest(u, q)
      PROVE  SessionLedgerStep
  <2>1. StartsRow(q)
    BY <1>2 DEF ClaimSessionRequest, StartsRow
  <2> QED BY <2>1 DEF SessionLedgerStep
<1>3. ASSUME NEW u \in User, NEW q \in SessionId, ReportSessionRequestDone(u, q)
      PROVE  SessionLedgerStep
  <2>1. session' = [session EXCEPT ![q] = [session[q] EXCEPT !.state = "done", !.age = 0]]
    BY <1>3 DEF ReportSessionRequestDone, SessionTypeOK, SessionRow
  <2>2. FinishesRow(q)
    BY <1>3, <2>1 DEF ReportSessionRequestDone, FinishesRow
  <2> QED BY <2>2 DEF SessionLedgerStep
<1>4. ASSUME NEW Q \in SUBSET OpenSessions, FailSessionRequests(Q)
      PROVE  SessionLedgerStep
  <2>1. FailsRows(Q)
    BY <1>4 DEF FailSessionRequests, FailsRows
  <2>2. Q \in SUBSET SessionId
    BY DEF OpenSessions
  <2> QED BY <2>1, <2>2 DEF SessionLedgerStep
<1>5. ASSUME NEW u \in User, NEW q \in SessionId, ReportSessionRequestFailed(u, q)
      PROVE  SessionLedgerStep
  <2>1. {q} \in SUBSET OpenSessions
    BY <1>5 DEF ReportSessionRequestFailed, OpenSessions, SessionIsOpen, OpenSessionStates
  <2> QED BY <1>4, <1>5, <2>1 DEF ReportSessionRequestFailed
<1>6. ASSUME NEW u \in User, NEW h \in Host, FailInterruptedSessionRequests(u, h)
      PROVE  SessionLedgerStep
  <2>1. InterruptedSessions(h) \in SUBSET OpenSessions
    BY DEF InterruptedSessions, OpenSessions, SessionIsOpen, OpenSessionStates
  <2> QED BY <1>4, <1>6, <2>1 DEF FailInterruptedSessionRequests
<1>7. ASSUME NEW u \in User, NEW t \in Task, NEW s \in Task, NEW c \in Task,
             NEW q \in SessionId, RequestExitSession(u, t, q, s, c)
      PROVE  SessionLedgerStep
  BY <1>7, ExitIsALedgerStep
<1>8. ASSUME NEW u \in User, NEW t \in Task, NEW s \in Task, NEW h \in Host,
             NEW pr \in BOOLEAN, CloseTaskSession(u, t, s, h, pr)
      PROVE  SessionLedgerStep
  <2> DEFINE owed == OwesATeardown(u, task[t], agent[t].window, pr, h)
  <2>1. owed => TeardownHost(task[t], h) # None
    BY DEF OwesATeardown
  <2>2. CloseSessions(u, t, task[t], owed, h, OpenSessionsOf(t))
    BY <1>8 DEF CloseTaskSession
  <2>3. task[t] \in TaskRow
    BY DEF TypeOK
  <2> HIDE DEF owed
  <2> QED BY <2>1, <2>2, <2>3, CloseSessionsIsALedgerStep
<1>9. ASSUME NEW u \in User, NEW t \in Task, NEW s \in Task, NEW p \in Patches,
             NEW h \in Host \cup {None}, NEW pr \in BOOLEAN, PatchTaskSession(u, t, p, s, h, pr)
      PROVE  SessionLedgerStep
  <2> DEFINE row == PatchedTask(task[t], p)
             owed == /\ h # None
                     /\ task[t].status # "done" /\ row.status = "done"
                     /\ OwesATeardown(u, row, None, pr, h)
             Q == IF owed THEN OpenSessionsOf(t) ELSE {}
  <2>1. owed => TeardownHost(row, h) # None
    BY DEF OwesATeardown
  <2>2. CloseSessions(u, t, row, owed, h, Q)
    BY <1>9 DEF PatchTaskSession
  <2>3. row \in TaskRow
    BY PatchKeepsType DEF TypeOK
  <2>4. Q \in SUBSET OpenSessionsOf(t) /\ (owed => Q = OpenSessionsOf(t))
    OBVIOUS
  <2> HIDE DEF owed, row, Q
  <2> QED BY <2>1, <2>2, <2>3, <2>4, CloseSessionsIsALedgerStep
<1>10. ASSUME NEW u \in User, NEW t \in Task, NEW h \in Host, NEW o \in Origins,
              RequestDispatchSession(u, t, h, o)
       PROVE  SessionLedgerStep
  BY <1>10 DEF RequestDispatchSession, DeletesOldRows, SessionLedgerStep
<1>11. ASSUME NEW u \in User, NEW r \in RequestId, NEW w \in Worktree, NEW win \in Window,
              ReportDispatchSession(u, r, w, win)
       PROVE  SessionLedgerStep
  <2>1. /\ request[r].state = "provisioning"
        /\ request'[r].state = "dispatched"
        /\ request'[r].task = request[r].task
    BY <1>11 DEF ReportDispatchSession, ReportDispatchProvisioned, TypeOK, RequestRow
  <2>2. /\ session' = [q \in SessionId |->
              IF /\ session[q].kind = "wrap_up"
                 /\ session[q].state # "failed"
                 /\ session[q].task = request[r].task
              THEN [session[q] EXCEPT
                      !.sinceRequested = @ \cup {r},
                      !.sinceFinished = IF SessionIsOpen(q) THEN {} ELSE @ \cup {r}]
              ELSE session[q]]
        /\ UNCHANGED <<sessionTimers, nextSession>>
    BY <1>11, Zenon DEF ReportDispatchSession
  <2>3. MarksRows(r)
    BY <2>1, <2>2, Zenon DEF MarksRows
  <2> QED BY <2>3 DEF SessionLedgerStep
<1>12. ASSUME NEW t \in Task, DeleteTaskSession(t)
       PROVE  SessionLedgerStep
  BY <1>12, DeletionEndsTheTask DEF DeleteTaskSession, ForgetsRows, SessionLedgerStep
<1>13. ASSUME NEW q \in SessionId, ExpireSessionRequest(q)
       PROVE  SessionLedgerStep
  <2>1. {q} \cap OpenSessions = {q}
    BY <1>13 DEF ExpireSessionRequest, SessionTimerExactlyWhileOpen
  <2>2. FailsRows({q})
    BY <1>13, <2>1 DEF ExpireSessionRequest, FailsRows
  <2> QED BY <2>2 DEF SessionLedgerStep
<1>14. CASE SessionTick
  BY <1>14 DEF SessionTick, AgesRows, SessionLedgerStep
<1>15. CASE UNCHANGED sessionVars
  BY <1>15 DEF SessionLedgerStep
<1>16. CASE UNCHANGED allVars
  BY <1>15, <1>16 DEF allVars
<1> QED BY <1>1, <1>2, <1>3, <1>5, <1>6, <1>7, <1>8, <1>9, <1>10, <1>11, <1>12, <1>13,
           <1>14, <1>15, <1>16 DEF SessionNext, SessionClientStep
----------------------------------------------------------------------------
(* ----- Type correctness and the ledger of sessions ----- *)

(* What the ways of writing a row keep of it. *)
SameRow(new, row) ==
    /\ new.kind = row.kind
    /\ new.task = row.task
    /\ new.token = row.token

LEMMA SessionRowRules ==
    ASSUME NEW row \in SessionRow
    PROVE  /\ [row EXCEPT !.state = "failed", !.age = 0] \in SessionRow
           /\ [row EXCEPT !.state = "running"] \in SessionRow
           /\ [row EXCEPT !.state = "done", !.age = 0] \in SessionRow
           /\ AgedSession(row) \in SessionRow
           /\ \A R \in SUBSET RequestId, F \in SUBSET RequestId :
                [row EXCEPT !.sinceRequested = R, !.sinceFinished = F] \in SessionRow
<1>1. /\ [row EXCEPT !.state = "failed", !.age = 0] \in SessionRow
      /\ [row EXCEPT !.state = "running"] \in SessionRow
      /\ [row EXCEPT !.state = "done", !.age = 0] \in SessionRow
  BY DEF SessionRow, FinishedStates, OpenSessionStates
<1>2. AgedSession(row) \in SessionRow
  <2>1. row.age + 1 \in Nat
    BY DEF SessionRow
  <2>2. [row EXCEPT !.age = row.age + 1] \in SessionRow
    BY <2>1 DEF SessionRow
  <2> QED BY <2>2 DEF AgedSession
<1>3. ASSUME NEW R \in SUBSET RequestId, NEW F \in SUBSET RequestId
      PROVE  [row EXCEPT !.sinceRequested = R, !.sinceFinished = F] \in SessionRow
  BY DEF SessionRow
<1> QED BY <1>1, <1>2, <1>3

LEMMA SessionTypeInit == SessionInit => SessionTypeOK
    BY NoSessionIsARow DEF SessionInit, SessionTypeOK

LEMMA SessionTypeStep == SessionTypeOK /\ SessionLedgerStep => SessionTypeOK'
<1> SUFFICES ASSUME SessionTypeOK, SessionLedgerStep PROVE SessionTypeOK'
  OBVIOUS
<1>0. /\ session \in [SessionId -> SessionRow]
      /\ sessionTimers \in SUBSET SessionId
      /\ nextSession \in Nat \ {0}
      /\ SessionId \subseteq Nat
  BY SessionAssumption DEF SessionTypeOK, SessionId
<1>1. \A gone : SessionsKept(gone) \in [SessionId -> SessionRow]
  BY <1>0, NoSessionIsARow DEF SessionsKept
<1>2. \A Q : SessionsFailed(Q) \in [SessionId -> SessionRow]
  BY <1>0, SessionRowRules DEF SessionsFailed
<1>3. ASSUME NEW row \in SessionRow, NEW gone, Adds(row, gone)
      PROVE  SessionTypeOK'
  BY <1>0, <1>1, <1>3 DEF Adds, SessionTypeOK
<1>4. ASSUME NEW row \in SessionRow, Replaces(row)
      PROVE  SessionTypeOK'
  <2> DEFINE base == SessionsFailed(OpenSessionsOf(row.task))
  <2>1. base \in [SessionId -> SessionRow]
    BY <1>2
  <2>2. session' = [base EXCEPT ![nextSession] = row]
    BY <1>4 DEF Replaces
  <2>3. /\ nextSession \in SessionId
        /\ sessionTimers' = (sessionTimers \ OpenSessionsOf(row.task)) \cup {nextSession}
        /\ nextSession' = nextSession + 1
    BY <1>4 DEF Replaces
  <2>4. sessionTimers' \in SUBSET SessionId
    BY <1>0, <2>3
  <2>5. nextSession' \in Nat \ {0}
    BY <1>0, <2>3
  <2> HIDE DEF base
  <2> QED BY <2>1, <2>2, <2>3, <2>4, <2>5 DEF SessionTypeOK
<1>5. ASSUME NEW Q, FailsRows(Q)
      PROVE  SessionTypeOK'
  BY <1>0, <1>2, <1>5 DEF FailsRows, SessionTypeOK
<1>6. CASE DeletesOldRows
  BY <1>0, <1>1, <1>6 DEF DeletesOldRows, SessionTypeOK
<1>7. ASSUME NEW t \in Task, ForgetsRows(t)
      PROVE  SessionTypeOK'
  BY <1>0, <1>1, <1>7 DEF ForgetsRows, SessionTypeOK
<1>8. ASSUME NEW q \in SessionId, StartsRow(q)
      PROVE  SessionTypeOK'
  <2>1. [session[q] EXCEPT !.state = "running"] \in SessionRow
    BY <1>0, SessionRowRules
  <2> QED BY <1>0, <1>8, <2>1 DEF StartsRow, SessionTypeOK
<1>9. ASSUME NEW q \in SessionId, FinishesRow(q)
      PROVE  SessionTypeOK'
  <2>1. [session[q] EXCEPT !.state = "done", !.age = 0] \in SessionRow
    BY <1>0, SessionRowRules
  <2> QED BY <1>0, <1>9, <2>1 DEF FinishesRow, SessionTypeOK
<1>10. ASSUME NEW r \in RequestId, MarksRows(r)
       PROVE  SessionTypeOK'
  <2>1. ASSUME NEW q \in SessionId
        PROVE  [session[q] EXCEPT
                  !.sinceRequested = @ \cup {r},
                  !.sinceFinished = IF SessionIsOpen(q) THEN {} ELSE @ \cup {r}] \in SessionRow
    <3>1. /\ session[q] \in SessionRow
          /\ session[q].sinceRequested \cup {r} \in SUBSET RequestId
          /\ session[q].sinceFinished \cup {r} \in SUBSET RequestId
      BY <1>0 DEF SessionRow
    <3>2. \A F \in SUBSET RequestId :
             [session[q] EXCEPT !.sinceRequested = session[q].sinceRequested \cup {r},
                                !.sinceFinished = F] \in SessionRow
      BY <3>1, SessionRowRules
    <3> QED BY <3>1, <3>2
  <2>2. session' \in [SessionId -> SessionRow]
    BY <1>0, <1>10, <2>1 DEF MarksRows
  <2> QED BY <1>0, <1>10, <2>2 DEF MarksRows, SessionTypeOK
<1>11. CASE AgesRows
  BY <1>0, <1>11, SessionRowRules DEF AgesRows, SessionTypeOK
<1>12. CASE UNCHANGED sessionVars
  BY <1>12 DEF sessionVars, SessionTypeOK
<1> QED BY <1>3, <1>4, <1>5, <1>6, <1>7, <1>8, <1>9, <1>10, <1>11, <1>12 DEF SessionLedgerStep

(* A row a step leaves where it was: the same row, opened by nobody and    *)
(* back from nowhere; or no row at all any more.                           *)
Stays(q) ==
    \/ session'[q] = NoSession
    \/ /\ SameRow(session'[q], session[q])
       /\ session'[q].state \in OpenSessionStates => session[q].state \in OpenSessionStates
       /\ session[q].state = "absent" <=> session'[q].state = "absent"
       /\ session[q].state \in FinishedStates => session'[q].state = session[q].state

(* Every step leaves all rows where they were, but for the one it adds;    *)
(* the timers follow the open rows.                                        *)
Moves ==
    /\ SessionTimerExactlyWhileOpen'
    /\ \/ /\ nextSession' = nextSession
          /\ \A q \in SessionId : Stays(q)
       \/ /\ nextSession \in SessionId
          /\ nextSession' = nextSession + 1
          /\ \A q \in SessionId \ {nextSession} : Stays(q)
          /\ Addable(session'[nextSession])
          /\ \A q \in OpenSessions' : q # nextSession =>
               session'[q].task # session'[nextSession].task

(* The id the next row takes was never drawn. *)
SessionIdsAreFresh ==
    \A q \in SessionId :
        /\ q >= nextSession => session[q].state = "absent"
        /\ session[q].state = "absent" => session[q].kind = "none"

(* An exit spent a wrap-up drawn before it, of its own task. *)
TokensArePast ==
    \A x \in SessionId : session[x].kind = "exit_session" =>
        /\ session[x].token \in SessionId
        /\ session[x].token < nextSession
        /\ session[session[x].token].state # "absent" =>
             session[session[x].token].task = session[x].task

(* The inductive invariant of session_requests. *)
SessionsInv ==
    /\ SessionIdsAreFresh
    /\ SessionTimerExactlyWhileOpen
    /\ OneOpenSessionRequestPerTask
    /\ AnExitTokenIsConsumedOnce
    /\ TokensArePast

(* Retention deletes finished rows only. *)
LEMMA PrunableSessionsAreFinished ==
    PrunableSessions \subseteq {q \in SessionId : session[q].state \in FinishedStates}
    BY DEF PrunableSessions, OldSessions

LEMMA EveryLedgerStepMoves ==
    SessionTypeOK /\ SessionsInv /\ SessionLedgerStep => Moves
<1> SUFFICES ASSUME SessionTypeOK, SessionsInv, SessionLedgerStep PROVE Moves
  OBVIOUS
<1> USE DEF OpenSessions, SessionIsOpen, OpenSessionStates, FinishedStates
<1>0. /\ session \in [SessionId -> SessionRow]
      /\ SessionId \subseteq Nat
      /\ nextSession \in Nat
      /\ sessionTimers = OpenSessions
      /\ NoSession.state = "absent"
  BY SessionAssumption DEF SessionTypeOK, SessionId, SessionsInv, SessionTimerExactlyWhileOpen,
                           NoSession
<1>a. \A q \in SessionId : session'[q] = session[q] => Stays(q)
  BY DEF Stays, SameRow
<1>b. ASSUME NEW gone \in SUBSET SessionId, NEW q \in SessionId,
             session'[q] = SessionsKept(gone)[q]
      PROVE  /\ Stays(q)
             /\ session'[q] = IF q \in gone THEN NoSession ELSE session[q]
  BY <1>a, <1>b DEF SessionsKept, Stays
<1>c. ASSUME NEW Q \in SUBSET OpenSessions, NEW q \in SessionId,
             session'[q] = SessionsFailed(Q)[q]
      PROVE  /\ Stays(q)
             /\ session'[q].state = IF q \in Q THEN "failed" ELSE session[q].state
             /\ session'[q].task = session[q].task
  <2>1. CASE q \in Q
    <3>1. session'[q] = [session[q] EXCEPT !.state = "failed", !.age = 0]
      BY <1>c, <2>1 DEF SessionsFailed
    <3>2. session[q] \in SessionRow
      BY <1>0
    <3>3. session'[q].state = "failed" /\ SameRow(session'[q], session[q])
      BY <3>1, <3>2 DEF SessionRow, SameRow
    <3>4. session[q].state \in {"requested", "running"}
      BY <2>1
    <3> QED BY <2>1, <3>3, <3>4 DEF Stays, SameRow
  <2>2. CASE q \notin Q
    <3>1. session'[q] = session[q]
      BY <1>c, <2>2 DEF SessionsFailed
    <3> QED BY <1>a, <2>2, <3>1
  <2> QED BY <2>1, <2>2
<1>1. ASSUME NEW row \in SessionRow, NEW gone \in SUBSET SessionId, Adds(row, gone)
      PROVE  Moves
  <2> DEFINE n == nextSession
  <2>1. n \in SessionId /\ session[n].state = "absent"
    BY <1>0, <1>1 DEF Adds, SessionsInv, SessionIdsAreFresh
  <2>2. session'[n] = row /\ \A q \in SessionId \ {n} : session'[q] = SessionsKept(gone)[q]
    BY <2>1, <1>1 DEF Adds, SessionsKept
  <2>3. \A q \in SessionId \ {n} :
           Stays(q) /\ session'[q] = IF q \in gone THEN NoSession ELSE session[q]
    BY <1>b, <2>2
  <2>4. gone \cap OpenSessions = {}
    BY <1>1, PrunableSessionsAreFinished DEF Adds
  <2>5. OpenSessions' = OpenSessions \cup (IF row.state = "requested" THEN {n} ELSE {})
    BY <1>0, <1>1, <2>1, <2>2, <2>3, <2>4 DEF Adds, Addable
  <2>6. \A q \in OpenSessions' : q # n => session'[q].task # row.task
    BY <1>1, <2>3, <2>4, <2>5 DEF Adds, OpenSessionsOf
  <2> QED BY <1>0, <1>1, <2>1, <2>2, <2>3, <2>5, <2>6
          DEF Adds, Moves, SessionTimerExactlyWhileOpen
<1>2. ASSUME NEW row \in SessionRow, Replaces(row)
      PROVE  Moves
  <2> DEFINE n == nextSession
             Q == OpenSessionsOf(row.task)
  <2>1. n \in SessionId /\ session[n].state = "absent" /\ Q \in SUBSET OpenSessions
    BY <1>0, <1>2 DEF Replaces, SessionsInv, SessionIdsAreFresh, OpenSessionsOf
  <2>2. session'[n] = row /\ \A q \in SessionId \ {n} : session'[q] = SessionsFailed(Q)[q]
    BY <2>1, <1>2 DEF Replaces, SessionsFailed
  <2>3. \A q \in SessionId \ {n} :
           /\ Stays(q)
           /\ session'[q].state = IF q \in Q THEN "failed" ELSE session[q].state
           /\ session'[q].task = session[q].task
    BY <1>c, <2>1, <2>2
  <2>4. OpenSessions' = (OpenSessions \ Q) \cup {n}
    BY <1>2, <2>1, <2>2, <2>3 DEF Replaces
  <2>5. \A q \in OpenSessions' : q # n => session'[q].task # row.task
    BY <2>3, <2>4 DEF OpenSessionsOf
  <2> QED BY <1>0, <1>2, <2>1, <2>2, <2>3, <2>4, <2>5
          DEF Replaces, Moves, SessionTimerExactlyWhileOpen
<1>3. ASSUME NEW Q \in SUBSET SessionId, FailsRows(Q)
      PROVE  Moves
  <2>1. \A q \in SessionId :
           /\ Stays(q)
           /\ session'[q].state = IF q \in Q THEN "failed" ELSE session[q].state
    BY <1>3, <1>c DEF FailsRows
  <2>2. OpenSessions' = OpenSessions \ Q
    BY <2>1
  <2> QED BY <1>0, <1>3, <2>1, <2>2 DEF FailsRows, Moves, SessionTimerExactlyWhileOpen
<1>4. ASSUME NEW gone \in SUBSET SessionId, session' = SessionsKept(gone),
             sessionTimers' = sessionTimers \ gone, nextSession' = nextSession
      PROVE  Moves
  <2>1. \A q \in SessionId :
           Stays(q) /\ session'[q] = IF q \in gone THEN NoSession ELSE session[q]
    BY <1>4, <1>b
  <2>2. OpenSessions' = OpenSessions \ gone
    BY <1>0, <2>1
  <2> QED BY <1>0, <1>4, <2>1, <2>2 DEF Moves, SessionTimerExactlyWhileOpen
<1>5. CASE DeletesOldRows
  <2>1. sessionTimers \ PrunableSessions = sessionTimers
    BY <1>0, PrunableSessionsAreFinished
  <2>2. PrunableSessions \in SUBSET SessionId
    BY PrunableSessionsAreFinished
  <2> QED BY <1>4, <1>5, <2>1, <2>2 DEF DeletesOldRows
<1>6. ASSUME NEW t \in Task, ForgetsRows(t)
      PROVE  Moves
  <2> DEFINE gone == {q \in SessionId : session[q].task = t}
  <2>1. sessionTimers \ OpenSessionsOf(t) = sessionTimers \ gone
    BY <1>0 DEF OpenSessionsOf
  <2> QED BY <1>4, <1>6, <2>1 DEF ForgetsRows
<1>7. ASSUME NEW q \in SessionId, StartsRow(q)
      PROVE  Moves
  <2>1. /\ session'[q].state = "running" /\ SameRow(session'[q], session[q])
        /\ \A x \in SessionId \ {q} : session'[x] = session[x]
    BY <1>0, <1>7 DEF StartsRow, SessionRow, SameRow
  <2>2. \A x \in SessionId : Stays(x)
    BY <1>7, <1>a, <2>1 DEF StartsRow, Stays
  <2>3. OpenSessions' = OpenSessions
    BY <1>7, <2>1 DEF StartsRow
  <2> QED BY <1>0, <1>7, <2>2, <2>3 DEF StartsRow, Moves, SessionTimerExactlyWhileOpen
<1>8. ASSUME NEW q \in SessionId, FinishesRow(q)
      PROVE  Moves
  <2>1. /\ session'[q].state = "done" /\ SameRow(session'[q], session[q])
        /\ \A x \in SessionId \ {q} : session'[x] = session[x]
    BY <1>0, <1>8 DEF FinishesRow, SessionRow, SameRow
  <2>2. \A x \in SessionId : Stays(x)
    BY <1>8, <1>a, <2>1 DEF FinishesRow, Stays
  <2>3. OpenSessions' = OpenSessions \ {q}
    BY <1>8, <2>1 DEF FinishesRow
  <2> QED BY <1>0, <1>8, <2>2, <2>3 DEF FinishesRow, Moves, SessionTimerExactlyWhileOpen
<1>9. ASSUME nextSession' = nextSession, sessionTimers' = sessionTimers,
             \A q \in SessionId : /\ SameRow(session'[q], session[q])
                                  /\ session'[q].state = session[q].state
      PROVE  Moves
  <2>1. \A q \in SessionId : Stays(q)
    BY <1>9 DEF Stays
  <2>2. OpenSessions' = OpenSessions
    BY <1>9
  <2> QED BY <1>0, <1>9, <2>1, <2>2 DEF Moves, SessionTimerExactlyWhileOpen
<1>10. ASSUME NEW r \in RequestId, MarksRows(r)
       PROVE  Moves
  <2>1. \A q \in SessionId : /\ SameRow(session'[q], session[q])
                             /\ session'[q].state = session[q].state
    BY <1>0, <1>10 DEF MarksRows, SessionRow, SameRow
  <2> QED BY <1>9, <1>10, <2>1 DEF MarksRows
<1>11. CASE AgesRows
  <2>1. \A q \in SessionId : /\ SameRow(session'[q], session[q])
                             /\ session'[q].state = session[q].state
    BY <1>0, <1>11 DEF AgesRows, AgedSession, SessionRow, SameRow
  <2> QED BY <1>9, <1>11, <2>1 DEF AgesRows
<1>12. CASE UNCHANGED sessionVars
  BY <1>9, <1>12 DEF sessionVars, SameRow
<1> QED BY <1>1, <1>2, <1>3, <1>5, <1>6, <1>7, <1>8, <1>10, <1>11, <1>12
        DEF SessionLedgerStep

LEMMA SessionsInvInit == SessionInit => SessionsInv
<1> SUFFICES ASSUME SessionInit PROVE SessionsInv
  OBVIOUS
<1>1. \A q \in SessionId : session[q].state = "absent" /\ session[q].kind = "none"
  BY DEF SessionInit, NoSession
<1>2. OpenSessions = {}
  BY <1>1 DEF OpenSessions, SessionIsOpen, OpenSessionStates
<1> QED BY <1>1, <1>2 DEF SessionInit, SessionsInv, SessionIdsAreFresh, TokensArePast,
           SessionTimerExactlyWhileOpen, OneOpenSessionRequestPerTask, AnExitTokenIsConsumedOnce

LEMMA SessionsInvStep ==
    SessionTypeOK /\ SessionTypeOK' /\ SessionsInv /\ Moves => SessionsInv'
<1> SUFFICES ASSUME SessionTypeOK, SessionTypeOK', SessionsInv, Moves PROVE SessionsInv'
  OBVIOUS
<1> USE DEF OpenSessions, SessionIsOpen, OpenSessionStates, FinishedStates
<1>0. /\ SessionId \subseteq Nat
      /\ nextSession \in Nat
      /\ NoSession.state = "absent" /\ NoSession.kind = "none"
      /\ nextSession' \in {nextSession, nextSession + 1}
  BY SessionAssumption DEF SessionTypeOK, SessionId, NoSession, Moves
<1>1. \A q \in SessionId : nextSession' = nextSession \/ q # nextSession => Stays(q)
  BY <1>0 DEF Moves
<1>2. nextSession' # nextSession =>
        /\ nextSession \in SessionId
        /\ nextSession' = nextSession + 1
        /\ Addable(session'[nextSession])
        /\ session[nextSession].state = "absent"
  BY <1>0 DEF Moves, SessionsInv, SessionIdsAreFresh
<1>3. SessionIdsAreFresh'
  <2> SUFFICES ASSUME NEW q \in SessionId
               PROVE  /\ q >= nextSession' => session'[q].state = "absent"
                      /\ session'[q].state = "absent" => session'[q].kind = "none"
    BY DEF SessionIdsAreFresh
  <2>1. CASE nextSession' = nextSession \/ q # nextSession
    <3>1. Stays(q)
      BY <1>1, <2>1
    <3>2. q >= nextSession' => q >= nextSession
      BY <1>0
    <3> QED BY <1>0, <3>1, <3>2 DEF Stays, SameRow, SessionsInv, SessionIdsAreFresh
  <2>2. CASE nextSession' # nextSession /\ q = nextSession
    BY <1>0, <1>2, <2>2 DEF Addable
  <2> QED BY <2>1, <2>2
<1>4. SessionTimerExactlyWhileOpen'
  BY DEF Moves
<1>5. OneOpenSessionRequestPerTask'
  <2> SUFFICES ASSUME NEW a \in OpenSessions', NEW b \in OpenSessions',
                      session'[a].task = session'[b].task
               PROVE  a = b
    BY DEF OneOpenSessionRequestPerTask
  <2>1. ASSUME NEW q \in OpenSessions', nextSession' = nextSession \/ q # nextSession
        PROVE  q \in OpenSessions /\ session'[q].task = session[q].task
    BY <1>0, <1>1, <2>1 DEF Stays, SameRow
  <2>2. nextSession' # nextSession =>
          \A q \in OpenSessions' : q # nextSession =>
             session'[q].task # session'[nextSession].task
    BY <1>0 DEF Moves
  <2>3. CASE nextSession' = nextSession \/ (a # nextSession /\ b # nextSession)
    BY <2>1, <2>3 DEF SessionsInv, OneOpenSessionRequestPerTask
  <2>4. CASE nextSession' # nextSession /\ (a = nextSession \/ b = nextSession)
    BY <2>2, <2>4
  <2> QED BY <2>3, <2>4
<1>6. ASSUME NEW x \in SessionId, session'[x].kind = "exit_session"
      PROVE  \/ /\ nextSession' = nextSession \/ x # nextSession
                /\ session[x].kind = "exit_session"
                /\ SameRow(session'[x], session[x])
             \/ /\ nextSession' # nextSession /\ x = nextSession
                /\ session'[x].token \in DoneWrapUps(session'[x].task)
                /\ ~Consumed(session'[x].token)
  <2>1. CASE nextSession' = nextSession \/ x # nextSession
    BY <1>0, <1>1, <1>6, <2>1 DEF Stays, SameRow
  <2>2. CASE nextSession' # nextSession /\ x = nextSession
    BY <1>2, <1>6, <2>2 DEF Addable
  <2> QED BY <2>1, <2>2
<1>7. AnExitTokenIsConsumedOnce'
  <2> SUFFICES ASSUME NEW a \in SessionId, NEW b \in SessionId,
                      session'[a].kind = "exit_session", session'[b].kind = "exit_session",
                      session'[a].token = session'[b].token
               PROVE  a = b
    BY DEF AnExitTokenIsConsumedOnce
  <2> QED BY <1>6 DEF SameRow, Consumed, SessionsInv, AnExitTokenIsConsumedOnce
<1>8. TokensArePast'
  <2> SUFFICES ASSUME NEW x \in SessionId, session'[x].kind = "exit_session"
               PROVE  LET q == session'[x].token
                      IN  /\ q \in SessionId
                          /\ q < nextSession'
                          /\ session'[q].state # "absent" => session'[q].task = session'[x].task
    BY DEF TokensArePast
  <2> DEFINE q == session'[x].token
  <2>1. /\ q \in SessionId /\ q < nextSession
        /\ session[q].state # "absent" => session[q].task = session'[x].task
    <3>1. CASE session[x].kind = "exit_session" /\ SameRow(session'[x], session[x])
      BY <3>1 DEF SameRow, SessionsInv, TokensArePast
    <3>2. CASE q \in DoneWrapUps(session'[x].task)
      <4>1. q \in SessionId /\ session[q].state = "done" /\ session[q].task = session'[x].task
        BY <3>2 DEF DoneWrapUps
      <4>2. ~(q >= nextSession)
        BY <4>1 DEF SessionsInv, SessionIdsAreFresh
      <4> HIDE DEF q
      <4>3. q \in Nat /\ nextSession \in Nat
        BY <1>0, <4>1
      <4>4. q < nextSession
        BY <4>2, <4>3
      <4> QED BY <4>1, <4>4
    <3> QED BY <1>6, <3>1, <3>2
  <2>2. Stays(q) /\ q < nextSession'
    <3> HIDE DEF q
    <3>1. q # nextSession /\ q < nextSession'
      BY <1>0, <2>1
    <3> QED BY <1>1, <2>1, <3>1
  <2>3. session'[q].state # "absent" =>
          session[q].state # "absent" /\ session'[q].task = session[q].task
    BY <1>0, <2>2 DEF Stays, SameRow
  <2> QED BY <2>1, <2>2, <2>3
<1> QED BY <1>3, <1>4, <1>5, <1>7, <1>8 DEF SessionsInv

LEMMA SessionInvariant == SessionSpec => [](SessionTypeOK /\ SessionsInv)
<1>1. SessionInit => SessionTypeOK /\ SessionsInv
  BY SessionTypeInit, SessionsInvInit
<1>2. /\ TypeOK /\ SessionTypeOK /\ SessionsInv
      /\ [SessionNext]_allVars
      => SessionTypeOK' /\ SessionsInv'
  <2> SUFFICES ASSUME TypeOK, SessionTypeOK, SessionsInv, [SessionNext]_allVars
               PROVE  SessionTypeOK' /\ SessionsInv'
    OBVIOUS
  <2>1. SessionLedgerStep
    BY EverySessionStepIsALedgerStep DEF SessionsInv
  <2>2. SessionTypeOK'
    BY <2>1, SessionTypeStep
  <2>3. Moves
    BY <2>1, EveryLedgerStepMoves
  <2> QED BY <2>2, <2>3, SessionsInvStep
<1>3. SessionSpec => []TypeOK
  BY StoreInvariantUnderSessions, PTL
<1> QED BY <1>1, <1>2, <1>3, PTL DEF SessionSpec

(* Every session row, timer and id keeps its type. *)
THEOREM SessionTypeCorrect == SessionSpec => []SessionTypeOK
    BY SessionInvariant, PTL

(* No interleaving of wrap-ups, exits, closes and patches opens two        *)
(* session requests on one task.                                           *)
THEOREM OneOpenSession == SessionSpec => []OneOpenSessionRequestPerTask
<1>1. SessionsInv => OneOpenSessionRequestPerTask
  BY DEF SessionsInv
<1> QED BY <1>1, SessionInvariant, PTL

(* Every open session request has its backstop, and nothing else has one.  *)
THEOREM EveryOpenSessionHasItsTimer == SessionSpec => []SessionTimerExactlyWhileOpen
<1>1. SessionsInv => SessionTimerExactlyWhileOpen
  BY DEF SessionsInv
<1> QED BY <1>1, SessionInvariant, PTL

(* An exit token closes its task once. *)
THEOREM TokensAreConsumedOnce == SessionSpec => []AnExitTokenIsConsumedOnce
<1>1. SessionsInv => AnExitTokenIsConsumedOnce
  BY DEF SessionsInv
<1> QED BY <1>1, SessionInvariant, PTL

(* The session rows, their timers and the tokens agree in every state. *)
THEOREM SessionRowsStayInAgreement == SessionSpec => []SessionRowsAgree
<1>1. SessionsInv => SessionRowsAgree
  BY DEF SessionsInv, SessionRowsAgree
<1> QED BY <1>1, SessionInvariant, PTL
----------------------------------------------------------------------------
(* ----- Tokens are never revived ----- *)

(* A finished row keeps its age until time passes; one that has just       *)
(* finished starts at zero.                                                *)
RowAges(q) ==
    session'[q].state \in FinishedStates =>
        \/ session[q].state = session'[q].state /\ session'[q].age = session[q].age
        \/ session[q].state \notin FinishedStates /\ session'[q].age = 0

(* A row forgets no dispatch that voids it, and learns only of a dispatch  *)
(* of its own task.                                                        *)
RowMarks(q) ==
    \/ session'[q] = NoSession
    \/ session'[q].sinceFinished = {} /\ session[q].state # "done"
    \/ /\ session'[q].task = session[q].task
       /\ session[q].sinceFinished \subseteq session'[q].sinceFinished
       /\ \A r \in session'[q].sinceFinished \ session[q].sinceFinished :
            /\ request[r].state = "provisioning" /\ request'[r].state = "dispatched"
            /\ request'[r].task = session[q].task

(* The rows that go are those of one task, or those retention deletes. *)
RowsGo ==
    \/ \E t \in Task :
         /\ ~Exists(task'[t])
         /\ \A q \in SessionId :
              session'[q] = IF session[q].task = t THEN NoSession ELSE session[q]
    \/ \E gone \in {{}, PrunableSessions} : \A q \in SessionId :
         session[q].state # "absent" => (session'[q].state = "absent" <=> q \in gone)

Follows ==
    /\ RowsGo
    /\ AgesRows \/ \A q \in SessionId : RowAges(q)
    /\ \A q \in SessionId : RowMarks(q)

LEMMA EveryLedgerStepFollows ==
    SessionTypeOK /\ SessionsInv /\ SessionLedgerStep => Follows
<1> SUFFICES ASSUME SessionTypeOK, SessionsInv, SessionLedgerStep PROVE Follows
  OBVIOUS
<1> USE DEF OpenSessions, SessionIsOpen, OpenSessionStates, FinishedStates
<1>0. /\ session \in [SessionId -> SessionRow]
      /\ SessionId \subseteq Nat
      /\ nextSession \in Nat
      /\ NoSession.state = "absent"
  BY SessionAssumption DEF SessionTypeOK, SessionId, NoSession
<1>a. ASSUME NEW q \in SessionId, session'[q] = session[q] \/ session'[q] = NoSession
      PROVE  RowAges(q) /\ RowMarks(q)
  BY <1>0, <1>a DEF RowAges, RowMarks
<1>b. ASSUME NEW q \in SessionId, NEW row, Addable(row), session'[q] = row,
             session[q].state = "absent"
      PROVE  RowAges(q) /\ RowMarks(q)
  BY <1>0, <1>b DEF RowAges, RowMarks, Addable
<1>c. ASSUME NEW Q \in SUBSET OpenSessions, NEW q \in SessionId,
             session'[q] = SessionsFailed(Q)[q]
      PROVE  /\ RowAges(q) /\ RowMarks(q)
             /\ session[q].state # "absent" => session'[q].state # "absent"
  <2>1. CASE q \in Q
    <3>1. session'[q] = [session[q] EXCEPT !.state = "failed", !.age = 0]
      BY <1>c, <2>1 DEF SessionsFailed
    <3>2. session[q] \in SessionRow /\ session[q].state \in {"requested", "running"}
      BY <1>0, <2>1
    <3>3. /\ session'[q].state = "failed" /\ session'[q].age = 0
          /\ session'[q].task = session[q].task
          /\ session'[q].sinceFinished = session[q].sinceFinished
      BY <3>1, <3>2 DEF SessionRow
    <3> QED BY <3>2, <3>3 DEF RowAges, RowMarks
  <2>2. CASE q \notin Q
    <3>1. session'[q] = session[q]
      BY <1>c, <2>2 DEF SessionsFailed
    <3> QED BY <1>a, <3>1
  <2> QED BY <2>1, <2>2
<1>1. ASSUME NEW row \in SessionRow, NEW gone \in SUBSET SessionId, Adds(row, gone)
      PROVE  Follows
  <2> DEFINE n == nextSession
  <2>1. n \in SessionId /\ session[n].state = "absent" /\ session'[n] = row
    BY <1>0, <1>1 DEF Adds, SessionsInv, SessionIdsAreFresh, SessionsKept
  <2>2. \A q \in SessionId \ {n} : session'[q] = IF q \in gone THEN NoSession ELSE session[q]
    BY <1>1 DEF Adds, SessionsKept
  <2>3. \A q \in SessionId : RowAges(q) /\ RowMarks(q)
    BY <1>1, <1>a, <1>b, <2>1, <2>2 DEF Adds
  <2>4. \A q \in SessionId :
           session[q].state # "absent" => (session'[q].state = "absent" <=> q \in gone)
    BY <1>0, <2>1, <2>2
  <2>5. RowsGo
    BY <1>1, <2>4 DEF Adds, RowsGo
  <2> QED BY <2>3, <2>5 DEF Follows
<1>2. ASSUME NEW row \in SessionRow, Replaces(row)
      PROVE  Follows
  <2> DEFINE n == nextSession
             Q == OpenSessionsOf(row.task)
  <2>1. n \in SessionId /\ session[n].state = "absent" /\ Q \in SUBSET OpenSessions
    BY <1>0, <1>2 DEF Replaces, SessionsInv, SessionIdsAreFresh, OpenSessionsOf
  <2>2. session'[n] = row /\ \A q \in SessionId \ {n} : session'[q] = SessionsFailed(Q)[q]
    BY <2>1, <1>2 DEF Replaces, SessionsFailed
  <2>3. \A q \in SessionId \ {n} :
           /\ RowAges(q) /\ RowMarks(q)
           /\ session[q].state # "absent" => session'[q].state # "absent"
    BY <1>c, <2>1, <2>2
  <2>4. RowAges(n) /\ RowMarks(n)
    BY <1>2, <1>b, <2>1, <2>2 DEF Replaces
  <2>5. RowsGo
    BY <2>1, <2>3 DEF RowsGo
  <2> QED BY <2>3, <2>4, <2>5 DEF Follows
<1>3. ASSUME NEW Q \in SUBSET SessionId, FailsRows(Q)
      PROVE  Follows
  <2>1. \A q \in SessionId :
           /\ RowAges(q) /\ RowMarks(q)
           /\ session[q].state # "absent" => session'[q].state # "absent"
    BY <1>3, <1>c DEF FailsRows
  <2> QED BY <2>1 DEF RowsGo, Follows
<1>4. CASE DeletesOldRows
  <2>1. \A q \in SessionId : session'[q] = IF q \in PrunableSessions THEN NoSession
                                           ELSE session[q]
    BY <1>4 DEF DeletesOldRows, SessionsKept
  <2>2. RowsGo
    BY <1>0, <2>1 DEF RowsGo
  <2> QED BY <1>a, <2>1, <2>2 DEF Follows
<1>5. ASSUME NEW t \in Task, ForgetsRows(t)
      PROVE  Follows
  <2>1. \A q \in SessionId : session'[q] = IF session[q].task = t THEN NoSession
                                           ELSE session[q]
    BY <1>5 DEF ForgetsRows, SessionsKept
  <2>2. ~Exists(task'[t])
    BY <1>5 DEF ForgetsRows
  <2> QED BY <1>a, <2>1, <2>2 DEF RowsGo, Follows
<1>6. ASSUME NEW q \in SessionId, StartsRow(q)
      PROVE  Follows
  <2>1. /\ session'[q].state = "running" /\ session'[q].task = session[q].task
        /\ session'[q].sinceFinished = session[q].sinceFinished
        /\ \A x \in SessionId \ {q} : session'[x] = session[x]
    BY <1>0, <1>6 DEF StartsRow, SessionRow
  <2>2. RowAges(q) /\ RowMarks(q)
    BY <2>1 DEF RowAges, RowMarks
  <2>3. RowsGo
    BY <2>1 DEF RowsGo
  <2> QED BY <1>a, <2>1, <2>2, <2>3 DEF Follows
<1>7. ASSUME NEW q \in SessionId, FinishesRow(q)
      PROVE  Follows
  <2>1. /\ session[q].state = "running"
        /\ session'[q].state = "done" /\ session'[q].age = 0
        /\ session'[q].task = session[q].task
        /\ session'[q].sinceFinished = session[q].sinceFinished
        /\ \A x \in SessionId \ {q} : session'[x] = session[x]
    BY <1>0, <1>7 DEF FinishesRow, SessionRow
  <2>2. RowAges(q) /\ RowMarks(q)
    BY <2>1 DEF RowAges, RowMarks
  <2>3. RowsGo
    BY <2>1 DEF RowsGo
  <2> QED BY <1>a, <2>1, <2>2, <2>3 DEF Follows
<1>8. ASSUME NEW r \in RequestId, MarksRows(r)
      PROVE  Follows
  <2>1. ASSUME NEW q \in SessionId
        PROVE  /\ RowAges(q) /\ RowMarks(q)
               /\ session'[q].state = session[q].state
    <3>1. CASE session'[q] = session[q]
      BY <1>a, <3>1
    <3>2. CASE /\ session[q].task = request[r].task
               /\ session'[q] = [session[q] EXCEPT
                    !.sinceRequested = @ \cup {r},
                    !.sinceFinished = IF SessionIsOpen(q) THEN {} ELSE @ \cup {r}]
      <4>1. session[q] \in SessionRow
        BY <1>0
      <4>2. /\ session'[q].state = session[q].state /\ session'[q].age = session[q].age
            /\ session'[q].task = session[q].task
            /\ session'[q].sinceFinished =
                 IF SessionIsOpen(q) THEN {} ELSE session[q].sinceFinished \cup {r}
        BY <3>2, <4>1 DEF SessionRow
      <4>3. RowAges(q)
        BY <4>2 DEF RowAges
      <4>4. RowMarks(q)
        <5>1. CASE SessionIsOpen(q)
          BY <4>2, <5>1 DEF RowMarks
        <5>2. CASE ~SessionIsOpen(q)
          <6>1. session'[q].sinceFinished = session[q].sinceFinished \cup {r}
            BY <4>2, <5>2
          <6>2. /\ request[r].state = "provisioning" /\ request'[r].state = "dispatched"
                /\ request'[r].task = session[q].task
            BY <1>8, <3>2 DEF MarksRows
          <6> QED BY <4>2, <6>1, <6>2 DEF RowMarks
        <5> QED BY <5>1, <5>2
      <4> QED BY <4>2, <4>3, <4>4
    <3> QED BY <1>8, <3>1, <3>2 DEF MarksRows
  <2> QED BY <2>1 DEF RowsGo, Follows
<1>9. CASE AgesRows
  <2>1. \A q \in SessionId :
           /\ session'[q].state = session[q].state /\ session'[q].task = session[q].task
           /\ session'[q].sinceFinished = session[q].sinceFinished
    BY <1>0, <1>9 DEF AgesRows, AgedSession, SessionRow
  <2> QED BY <1>9, <2>1 DEF RowMarks, RowsGo, Follows
<1>10. CASE UNCHANGED sessionVars
  BY <1>a, <1>10 DEF sessionVars, RowsGo, Follows
<1> QED BY <1>1, <1>2, <1>3, <1>4, <1>5, <1>6, <1>7, <1>8, <1>9, <1>10 DEF SessionLedgerStep

(* A dispatched row stays as it is until its task is deleted, with all the *)
(* session rows of the task, or retention deletes it: and retention keeps  *)
(* the ones that void a live token.                                        *)
RequestsRest ==
    \A r \in RequestId \ PrunableDispatches :
        request[r].state = "dispatched" => request'[r].state = "dispatched"

LEMMA DispatchedRowsRest ==
    TypeOK /\ LedgerInv /\ [SessionNext]_allVars =>
        \/ RequestsRest
        \/ \E t \in Task : ForgetsRows(t) /\ Forgets(t)
<1> SUFFICES ASSUME TypeOK, LedgerInv, [SessionNext]_allVars
             PROVE  RequestsRest \/ \E t \in Task : ForgetsRows(t) /\ Forgets(t)
  OBVIOUS
<1>0. /\ request \in [RequestId -> RequestRow]
      /\ nextRequest \in Nat
      /\ RequestId \subseteq Nat
      /\ nextRequest \in RequestId => request[nextRequest].state = "absent"
  BY TimingAssumption DEF TypeOK, RequestId, LedgerInv, IdsAreFresh
<1>a. request' = request => RequestsRest
  BY DEF RequestsRest
<1>b. ASSUME NEW F, F \subseteq OpenRequests, request' = RowsFailed(F)
      PROVE  RequestsRest
  BY <1>b DEF RequestsRest, RowsFailed, OpenRequests, IsOpen, OpenStates
<1>c. ASSUME request' = Pruned(PrunableDispatches)
      PROVE  RequestsRest
  BY <1>c DEF RequestsRest, Pruned
<1>d. ASSUME NEW row, nextRequest \in RequestId,
             request' = [Pruned(PrunableDispatches) EXCEPT ![nextRequest] = row]
      PROVE  RequestsRest
  BY <1>0, <1>d DEF RequestsRest, Pruned
<1>e. ASSUME NEW r \in RequestId, NEW row, request[r].state # "dispatched",
             request' = [request EXCEPT ![r] = row]
      PROVE  RequestsRest
  BY <1>0, <1>e DEF RequestsRest
<1>1. ASSUME NEW u \in User, SessionClientStep(u)
      PROVE  RequestsRest
  <2>1. ASSUME NEW t \in Task, NEW h \in Host, NEW a \in Actions, RequestWrapUp(u, t, h, a)
        PROVE  RequestsRest
    BY <2>1, <1>c DEF RequestWrapUp
  <2>2. ASSUME NEW t \in Task, NEW s \in Task, NEW c \in Task, NEW q \in SessionId,
               RequestExitSession(u, t, q, s, c)
        PROVE  RequestsRest
    BY <2>2, <1>a, <1>d DEF RequestExitSession, CreateDispatchRequest
  <2>3. ASSUME NEW t \in Task, NEW s \in Task, NEW h \in Host, NEW pr \in BOOLEAN,
               CloseTaskSession(u, t, s, h, pr)
        PROVE  RequestsRest
    <3>1. request' = RowsFailed(OpenRequestsOf(t)) /\ OpenRequestsOf(t) \subseteq OpenRequests
      BY <2>3 DEF CloseTaskSession, CloseTask, OpenRequestsOf
    <3> QED BY <3>1, <1>b
  <2>4. ASSUME NEW t \in Task, NEW s \in Task, NEW p \in Patches, NEW h \in Host \cup {None},
               NEW pr \in BOOLEAN, PatchTaskSession(u, t, p, s, h, pr)
        PROVE  RequestsRest
    BY <2>4, <1>a DEF PatchTaskSession, PatchTask
  <2>5. ASSUME NEW t \in Task, NEW h \in Host, NEW o \in Origins,
               RequestDispatchSession(u, t, h, o)
        PROVE  RequestsRest
    BY <2>5, <1>d DEF RequestDispatchSession, RequestDispatch, CreateDispatchRequest
  <2>6. ASSUME NEW r \in RequestId, NEW w \in Worktree, NEW win \in Window,
               ReportDispatchSession(u, r, w, win)
        PROVE  RequestsRest
    BY <2>6, <1>e DEF ReportDispatchSession, ReportDispatchProvisioned
  <2>7. ASSUME UNCHANGED storeVars
        PROVE  RequestsRest
    BY <2>7, <1>a DEF storeVars
  <2> QED BY <1>1, <2>1, <2>2, <2>3, <2>4, <2>5, <2>6, <2>7
          DEF SessionClientStep, ClaimSessionRequest, ReportSessionRequestDone,
              ReportSessionRequestFailed, FailSessionRequests, FailInterruptedSessionRequests
<1>2. CASE DispatchOnlyStep
  <2>1. ASSUME NEW u \in User, NEW r \in RequestId, ClaimDispatchRequest(u, r)
        PROVE  RequestsRest
    BY <2>1, <1>0, <1>e DEF ClaimDispatchRequest
  <2>2. ASSUME NEW u \in User, NEW r \in RequestId, ReportDispatchFailed(u, r)
        PROVE  RequestsRest
    <3>1. {r} \subseteq OpenRequests /\ request' = RowsFailed({r})
      BY <2>2 DEF ReportDispatchFailed, FailDispatchRequests, OpenRequests, IsOpen, OpenStates
    <3> QED BY <3>1, <1>b
  <2>3. ASSUME NEW u \in User, NEW h \in Host, FailInterruptedDispatchRequests(u, h)
        PROVE  RequestsRest
    <3>1. Interrupted(h) \subseteq OpenRequests /\ request' = RowsFailed(Interrupted(h))
      BY <2>3 DEF FailInterruptedDispatchRequests, FailDispatchRequests, Interrupted,
                  OpenRequests, IsOpen, OpenStates
    <3> QED BY <3>1, <1>b
  <2>4. ASSUME NEW r \in RequestId, ExpireDispatchRequest(r)
        PROVE  RequestsRest
    <3>1. request' = RowsFailed({r} \cap OpenRequests)
      BY <2>4 DEF ExpireDispatchRequest, FailDispatchRequests
    <3> QED BY <3>1, <1>b
  <2>5. ASSUME UNCHANGED request
        PROVE  RequestsRest
    BY <2>5, <1>a
  <2> QED BY <1>2, <2>1, <2>2, <2>3, <2>4, <2>5
          DEF DispatchOnlyStep, RegisterHost, CreateTask, DueTimePasses
<1>3. ASSUME NEW t \in Task, DeleteTaskSession(t)
      PROVE  ForgetsRows(t) /\ Forgets(t)
  BY <1>3, DeletionEndsTheTask DEF DeleteTaskSession, DeleteTask, ForgetsRows, Forgets
<1>4. ASSUME NEW q \in SessionId, ExpireSessionRequest(q)
      PROVE  RequestsRest
  BY <1>4, <1>a DEF ExpireSessionRequest, storeVars
<1>5. CASE SessionTick
  <2>1. \A r \in RequestId : Aged(request[r]).state = request[r].state
    BY <1>0 DEF Aged, RequestRow
  <2> QED BY <1>5, <2>1 DEF SessionTick, RequestsRest
<1>6. CASE UNCHANGED allVars
  BY <1>6, <1>a DEF allVars, storeVars
<1> QED BY <1>1, <1>2, <1>3, <1>4, <1>5, <1>6 DEF SessionNext
(* A drawn row that is dispatched, or gone, is dispatched for the same     *)
(* task after the step, or gone.                                           *)
LEMMA DispatchedRowsStayOrGo ==
    ASSUME TypeOK, LedgerInv, [SessionNext]_allVars
    PROVE  /\ nextRequest' >= nextRequest
           /\ \A r \in RequestId :
                /\ r < nextRequest
                /\ request[r].state \in {"absent", "dispatched"}
                => \/ request'[r].state = "absent"
                   \/ /\ request[r].state = "dispatched" /\ request'[r].state = "dispatched"
                      /\ request'[r].task = request[r].task
<1> DEFINE Rests(r) == \/ request'[r].state = "absent"
                       \/ /\ request[r].state = "dispatched" /\ request'[r].state = "dispatched"
                          /\ request'[r].task = request[r].task
           Goal == /\ nextRequest' >= nextRequest
                   /\ \A r \in RequestId :
                        /\ r < nextRequest
                        /\ request[r].state \in {"absent", "dispatched"}
                        => Rests(r)
<1>0. /\ request \in [RequestId -> RequestRow]
      /\ nextRequest \in Nat
      /\ RequestId \subseteq Nat
      /\ NoRequest.state = "absent"
  BY TimingAssumption DEF TypeOK, RequestId, NoRequest
<1>a. \A r \in RequestId : request'[r] = request[r] \/ request'[r] = NoRequest =>
        (request[r].state \in {"absent", "dispatched"} => Rests(r))
  BY <1>0
<1>1. ASSUME NEW gone, Prunes(gone)
      PROVE  Goal
  BY <1>0, <1>a, <1>1 DEF Prunes, Pruned
<1>2. ASSUME NEW t \in Task, NEW h \in Host, NEW u \in User,
             NEW o \in {"user", "epic_chain", "schedule"}, NEW gone \in SUBSET RequestId,
             Opens(t, h, u, o, gone)
      PROVE  Goal
  <2>1. nextRequest' = nextRequest + 1
    BY <1>2 DEF Opens
  <2>2. \A r \in RequestId : r < nextRequest => request'[r] = Pruned(gone)[r]
    BY <1>0, <1>2 DEF Opens, Pruned
  <2> QED BY <1>0, <1>a, <2>1, <2>2 DEF Pruned
<1>3. ASSUME NEW r \in RequestId, Starts(r)
      PROVE  Goal
  BY <1>0, <1>a, <1>3 DEF Starts
<1>4. ASSUME NEW r \in RequestId, NEW w \in Worktree, NEW win \in Window, Succeeds(r, w, win)
      PROVE  Goal
  BY <1>0, <1>a, <1>4 DEF Succeeds
<1>5. ASSUME NEW F \in SUBSET RequestId, Fails(F)
      PROVE  Goal
  BY <1>0, <1>a, <1>5 DEF Fails, RowsFailed, OpenRequests, IsOpen, OpenStates
<1>6. ASSUME NEW t \in Task, Forgets(t)
      PROVE  Goal
  BY <1>0, <1>a, <1>6 DEF Forgets, Pruned
<1>7. CASE Ages
  <2>1. \A r \in RequestId : /\ Aged(request[r]).state = request[r].state
                             /\ Aged(request[r]).task = request[r].task
    BY <1>0 DEF Aged, RequestRow
  <2> QED BY <1>0, <1>7, <2>1 DEF Ages
<1>8. CASE UNCHANGED <<request, timers, nextRequest>>
  BY <1>0, <1>a, <1>8
<1> QED BY <1>1, <1>2, <1>3, <1>4, <1>5, <1>6, <1>7, <1>8, LedgerUnderSessions DEF LedgerStep

(* An open row is the newest of its task. *)
OpenIsNewest ==
    \A a \in OpenSessions, q \in SessionId :
        session[q].state # "absent" /\ session[q].task = session[a].task => q <= a

(* Of two finished wrap-ups the one drawn first finished first. *)
OlderTokensAreOlder ==
    \A q, n \in SessionId :
        /\ q < n
        /\ q \in DoneWrapUps(session[n].task) /\ n \in DoneWrapUps(session[n].task)
        => session[n].age <= session[q].age

AgesAreCapped ==
    \A q \in SessionId : session[q].state \in FinishedStates => session[q].age <= Retention

(* What voids a token is a dispatch of its task, for as long as it is kept.*)
MarksAreDispatched ==
    \A q \in SessionId : \A r \in session[q].sinceFinished :
        /\ r < nextRequest
        /\ request[r].state \in {"absent", "dispatched"}
        /\ request[r].state = "dispatched" => request[r].task = session[q].task

(* What makes retention safe for the exit tokens.  A superseded token      *)
(* stays superseded because it is never deleted after the one that         *)
(* superseded it, whose age is not greater; a voided one because the       *)
(* dispatch that voids it is of its task, and goes with it.                *)
TokensInv ==
    /\ OpenIsNewest
    /\ OlderTokensAreOlder
    /\ AgesAreCapped
    /\ MarksAreDispatched

LEMMA TokensInvInit == SessionInit => TokensInv
<1> SUFFICES ASSUME SessionInit PROVE TokensInv
  OBVIOUS
<1>1. \A q \in SessionId : session[q].state = "absent" /\ session[q].sinceFinished = {}
  BY DEF SessionInit, NoSession
<1> QED BY <1>1 DEF TokensInv, OpenIsNewest, OlderTokensAreOlder, AgesAreCapped,
                    MarksAreDispatched, OpenSessions, SessionIsOpen, OpenSessionStates,
                    FinishedStates, DoneWrapUps

LEMMA MarksStep ==
    ASSUME TypeOK, LedgerInv, SessionTypeOK, SessionTypeOK', MarksAreDispatched, Moves, Follows,
           [SessionNext]_allVars
    PROVE  MarksAreDispatched'
<1> SUFFICES ASSUME NEW q \in SessionId, NEW r \in session'[q].sinceFinished
             PROVE  /\ r < nextRequest'
                    /\ request'[r].state \in {"absent", "dispatched"}
                    /\ request'[r].state = "dispatched" => request'[r].task = session'[q].task
  BY DEF MarksAreDispatched
<1>0. /\ nextRequest \in Nat /\ nextRequest' \in Nat
      /\ r \in RequestId /\ RequestId \subseteq Nat
      /\ nextRequest' >= nextRequest
  BY TimingAssumption, DispatchedRowsStayOrGo, StoreTypeStep
     DEF TypeOK, SessionTypeOK, SessionRow, RequestId
<1>1. /\ session'[q].task = session[q].task
      /\ \/ r \in session[q].sinceFinished
         \/ /\ request[r].state = "provisioning" /\ request'[r].state = "dispatched"
            /\ request'[r].task = session[q].task
  BY DEF Follows, RowMarks, NoSession
<1>2. CASE r \in session[q].sinceFinished
  <2>1. /\ r < nextRequest
        /\ request[r].state \in {"absent", "dispatched"}
        /\ request[r].state = "dispatched" => request[r].task = session[q].task
    BY <1>2 DEF MarksAreDispatched
  <2>2. \/ request'[r].state = "absent"
        \/ /\ request[r].state = "dispatched" /\ request'[r].state = "dispatched"
           /\ request'[r].task = request[r].task
    BY <1>0, <2>1, DispatchedRowsStayOrGo
  <2> QED BY <1>0, <1>1, <2>1, <2>2
<1>3. CASE /\ request[r].state = "provisioning" /\ request'[r].state = "dispatched"
           /\ request'[r].task = session[q].task
  <2>1. ~(r >= nextRequest)
    BY <1>0, <1>3 DEF LedgerInv, IdsAreFresh
  <2> QED BY <1>0, <1>1, <1>3, <2>1
<1> QED BY <1>1, <1>2, <1>3

LEMMA AgesStep ==
    ASSUME SessionTypeOK, AgesAreCapped, Follows
    PROVE  AgesAreCapped'
<1> SUFFICES ASSUME NEW q \in SessionId, session'[q].state \in FinishedStates
             PROVE  session'[q].age <= Retention
  BY DEF AgesAreCapped
<1>0. session \in [SessionId -> SessionRow] /\ Retention \in Nat \ {0}
  BY TimingAssumption DEF SessionTypeOK
<1>1. CASE AgesRows
  <2>1. /\ session'[q] = AgedSession(session[q])
        /\ session[q] \in SessionRow
    BY <1>0, <1>1 DEF AgesRows
  <2>2. session'[q].state = session[q].state
    BY <2>1 DEF AgedSession, SessionRow
  <2>3. session[q].age <= Retention /\ SessionMaxAge(session[q]) = Retention
    BY <2>2 DEF AgesAreCapped, SessionMaxAge, OpenSessionStates, FinishedStates
  <2>4. session[q].age \in Nat
    BY <2>1 DEF SessionRow
  <2>5. session'[q].age = IF session[q].state # "absent" /\ session[q].age < Retention
                          THEN session[q].age + 1 ELSE session[q].age
    BY <2>1, <2>3 DEF AgedSession, SessionRow
  <2> QED BY <1>0, <2>3, <2>4, <2>5
<1>2. CASE RowAges(q)
  BY <1>0, <1>2 DEF RowAges, AgesAreCapped
<1> QED BY <1>1, <1>2 DEF Follows

(* A row is where it was, unless it is the one the step adds: and then     *)
(* every other row there is was drawn before it.                           *)
LEMMA OldRowsStay ==
    ASSUME SessionTypeOK, SessionsInv, Moves, NEW q \in SessionId,
           session'[q].state # "absent"
    PROVE  \/ /\ Stays(q)
              /\ SameRow(session'[q], session[q])
              /\ session[q].state # "absent"
              /\ q < nextSession
           \/ /\ q = nextSession
              /\ Addable(session'[q])
              /\ \A a \in OpenSessions' : a # q => session'[a].task # session'[q].task
<1>0. SessionId \subseteq Nat /\ nextSession \in Nat /\ NoSession.state = "absent"
  BY SessionAssumption DEF SessionTypeOK, SessionId, NoSession
<1>1. CASE Stays(q)
  <2>1. SameRow(session'[q], session[q]) /\ session[q].state # "absent"
    BY <1>0, <1>1 DEF Stays
  <2>2. ~(q >= nextSession)
    BY <2>1 DEF SessionsInv, SessionIdsAreFresh
  <2> QED BY <1>0, <1>1, <2>1, <2>2
<1>2. CASE ~Stays(q)
  BY <1>2 DEF Moves
<1> QED BY <1>1, <1>2

LEMMA NewestStep ==
    ASSUME SessionTypeOK, SessionTypeOK', SessionsInv, OpenIsNewest, Moves
    PROVE  OpenIsNewest'
<1> USE DEF OpenSessions, SessionIsOpen, OpenSessionStates
<1> SUFFICES ASSUME NEW a \in OpenSessions', NEW q \in SessionId,
                    session'[q].state # "absent", session'[q].task = session'[a].task, q # a
             PROVE  q < a
  BY SessionAssumption DEF OpenIsNewest, SessionId
<1>0. a \in SessionId /\ session'[a].state # "absent" /\ SessionId \subseteq Nat
      /\ NoSession.state = "absent"
  BY SessionAssumption DEF SessionId, NoSession
<1>1. CASE Stays(q) /\ Stays(a)
  <2>1. /\ a \in OpenSessions
        /\ session[q].state # "absent" /\ session[q].task = session[a].task
    BY <1>0, <1>1 DEF Stays, SameRow
  <2>2. q <= a
    BY <2>1 DEF OpenIsNewest
  <2> QED BY <1>0, <2>2
<1>2. CASE ~Stays(q)
  BY <1>2, OldRowsStay
<1>3. CASE Stays(q) /\ ~Stays(a)
  <2>1. a = nextSession
    BY <1>0, <1>3, OldRowsStay
  <2>2. q < nextSession
    BY <1>3, <2>1, OldRowsStay
  <2> QED BY <2>1, <2>2
<1> QED BY <1>1, <1>2, <1>3

LEMMA OlderStep ==
    ASSUME SessionTypeOK, SessionTypeOK', SessionsInv, OpenIsNewest, OlderTokensAreOlder,
           AgesAreCapped, Moves, Follows
    PROVE  OlderTokensAreOlder'
<1> DEFINE IsToken(row) == row.kind = "wrap_up" /\ row.state = "done"
<1> SUFFICES ASSUME NEW q \in SessionId, NEW n \in SessionId, q < n,
                    IsToken(session'[q]), IsToken(session'[n]),
                    session'[q].task = session'[n].task
             PROVE  session'[n].age <= session'[q].age
  BY DEF OlderTokensAreOlder, DoneWrapUps
<1>0. /\ session[q] \in SessionRow /\ session[n] \in SessionRow
      /\ session'[q] \in SessionRow /\ session'[n] \in SessionRow
      /\ SessionId \subseteq Nat /\ nextSession \in Nat /\ Retention \in Nat
      /\ NoSession.state = "absent"
  BY SessionAssumption, TimingAssumption DEF SessionTypeOK, SessionId, NoSession
<1>1. /\ session[q].age \in Nat /\ session[n].age \in Nat
      /\ session'[q].age \in Nat /\ session'[n].age \in Nat
  BY <1>0 DEF SessionRow
<1>2. CASE ~Stays(n)
  <2>1. session'[n].age = 0
    BY <1>2, OldRowsStay DEF Addable
  <2> QED BY <1>1, <2>1
<1>3. CASE Stays(n)
  <2>1. n < nextSession /\ SameRow(session'[n], session[n]) /\ session[n].state # "absent"
    <3>1. SameRow(session'[n], session[n]) /\ session[n].state # "absent"
      BY <1>0, <1>3 DEF Stays
    <3>2. ~(n >= nextSession)
      BY <3>1 DEF SessionsInv, SessionIdsAreFresh
    <3> QED BY <1>0, <3>1, <3>2
  <2>2. q # nextSession
    <3>1. q \in Nat /\ n \in Nat /\ n < nextSession
      BY <1>0, <2>1
    <3> QED BY <1>0, <3>1
  <2>3. SameRow(session'[q], session[q]) /\ session[q].state # "absent"
    BY <2>2, OldRowsStay
  <2>4. session[q].task = session[n].task
    BY <2>1, <2>3 DEF SameRow
  <2>5. ASSUME session[q].state = "done", session[n].state = "done"
        PROVE  session[n].age <= session[q].age
    BY <2>1, <2>3, <2>4, <2>5 DEF SameRow, OlderTokensAreOlder, DoneWrapUps
  <2>6. CASE AgesRows
    <3>1. ASSUME NEW x \in {q, n}
          PROVE  /\ session[x].state = "done"
                 /\ session'[x].age = IF session[x].age < Retention
                                      THEN session[x].age + 1 ELSE session[x].age
      <4>1. session'[x] = AgedSession(session[x]) /\ session[x] \in SessionRow
        BY <1>0, <2>6 DEF AgesRows
      <4>2. session[x].state = "done"
        BY <4>1 DEF AgedSession, SessionRow
      <4>3. SessionMaxAge(session[x]) = Retention
        BY <4>2 DEF SessionMaxAge, OpenSessionStates
      <4> QED BY <4>1, <4>2, <4>3 DEF AgedSession, SessionRow
    <3>2. session[n].age <= session[q].age
      BY <3>1, <2>5
    <3> QED BY <1>0, <1>1, <3>1, <3>2
  <2>7. CASE \A x \in SessionId : RowAges(x)
    <3>1. ASSUME NEW x \in {q, n}
          PROVE  \/ session[x].state = "done" /\ session'[x].age = session[x].age
                 \/ session[x].state \in OpenSessionStates /\ session'[x].age = 0
      <4>1. x \in SessionId /\ session'[x].state = "done" /\ session[x] \in SessionRow
            /\ session[x].state # "absent"
        BY <1>0, <2>1, <2>3
      <4> QED BY <2>7, <4>1 DEF RowAges, SessionRow, FinishedStates
    <3>2. CASE session[q].state = "done" /\ session[n].state = "done"
      BY <2>5, <3>1, <3>2 DEF OpenSessionStates
    <3>3. CASE session[n].state \in OpenSessionStates
      BY <1>1, <3>1, <3>3 DEF OpenSessionStates
    <3>4. CASE session[q].state \in OpenSessionStates
      <4>1. n <= q
        BY <2>1, <2>4, <3>4 DEF OpenIsNewest, OpenSessions, SessionIsOpen
      <4> QED BY <1>0, <4>1
    <3> QED BY <3>1, <3>2, <3>3, <3>4
  <2> QED BY <2>6, <2>7 DEF Follows
<1> QED BY <1>2, <1>3

LEMMA TokensInvariant == SessionSpec => []TokensInv
<1>1. SessionInit => TokensInv
  BY TokensInvInit
<1>2. /\ TypeOK /\ TypeOK' /\ LedgerInv
      /\ SessionTypeOK /\ SessionTypeOK' /\ SessionsInv /\ TokensInv
      /\ [SessionNext]_allVars
      => TokensInv'
  <2> SUFFICES ASSUME TypeOK, TypeOK', LedgerInv, SessionTypeOK, SessionTypeOK', SessionsInv,
                      TokensInv, [SessionNext]_allVars
               PROVE  TokensInv'
    OBVIOUS
  <2>1. SessionLedgerStep
    BY EverySessionStepIsALedgerStep DEF SessionsInv
  <2>2. Moves /\ Follows
    BY <2>1, EveryLedgerStepMoves, EveryLedgerStepFollows
  <2>3. OpenIsNewest /\ OlderTokensAreOlder /\ AgesAreCapped /\ MarksAreDispatched
    BY DEF TokensInv
  <2>4. OpenIsNewest'
    BY <2>2, <2>3, NewestStep
  <2>5. OlderTokensAreOlder'
    BY <2>2, <2>3, OlderStep
  <2>6. AgesAreCapped'
    BY <2>2, <2>3, AgesStep
  <2>7. MarksAreDispatched'
    BY <2>2, <2>3, MarksStep
  <2> QED BY <2>4, <2>5, <2>6, <2>7 DEF TokensInv
<1> QED BY <1>1, <1>2, StoreInvariantUnderSessions, SessionInvariant, PTL DEF SessionSpec

(* The row that spent, superseded or voided a token is deleted no sooner   *)
(* than the token itself.                                                  *)
LEMMA NoTokenIsRevived ==
    ASSUME TypeOK, LedgerInv, SessionTypeOK, SessionsInv, TokensInv, [SessionNext]_allVars,
           NEW q \in SessionId, session[q].kind = "wrap_up", session[q].state = "done",
           ~ValidToken(q)
    PROVE  ~ValidToken(q)'
<1> SUFFICES ASSUME ValidToken(q)' PROVE FALSE
  OBVIOUS
<1> DEFINE t == session[q].task
<1>1. Moves /\ Follows
  <2>1. SessionLedgerStep
    BY EverySessionStepIsALedgerStep DEF SessionsInv
  <2> QED BY <2>1, EveryLedgerStepMoves, EveryLedgerStepFollows
<1>2. /\ SessionId \subseteq Nat /\ nextSession \in Nat /\ Retention \in Nat
      /\ session[q] \in SessionRow
      /\ NoSession.state = "absent"
  BY SessionAssumption, TimingAssumption DEF SessionTypeOK, SessionId, NoSession
<1>3. /\ session'[q].state = "done" /\ session'[q].kind = "wrap_up"
      /\ ~Superseded(q)' /\ ~Consumed(q)' /\ ~Voided(q)'
  BY DEF ValidToken, LiveTokens, DoneWrapUps
<1>4. session'[q].task = t /\ q \in DoneWrapUps(t)
  <2>1. ~(q >= nextSession)
    BY DEF SessionsInv, SessionIdsAreFresh
  <2>2. SameRow(session'[q], session[q])
    BY <1>1, <1>2, <1>3, <2>1, OldRowsStay
  <2> QED BY <2>2 DEF SameRow, DoneWrapUps
(* A row that goes while the token stays was pruned. *)
<1>5. ASSUME NEW x \in SessionId, session[x].task = t, session[x].state # "absent",
             session'[x].state = "absent"
      PROVE  x \in PrunableSessions /\ q \notin PrunableSessions
  BY <1>1, <1>2, <1>3, <1>5 DEF Follows, RowsGo
<1>6. ASSUME NEW x \in SessionId, session'[x].state # "absent", session[x].state # "absent"
      PROVE  Stays(x) /\ SameRow(session'[x], session[x])
  <2>1. ~(x >= nextSession)
    BY <1>6 DEF SessionsInv, SessionIdsAreFresh
  <2> QED BY <1>1, <1>2, <1>6, <2>1, OldRowsStay
<1>7. CASE Superseded(q)
  <2>1. PICK n \in DoneWrapUps(t) : n > q
    BY <1>7 DEF Superseded
  <2>2. /\ n \in SessionId /\ session[n].kind = "wrap_up" /\ session[n].state = "done"
        /\ session[n].task = t
    BY <2>1 DEF DoneWrapUps
  <2>3. CASE session'[n].state # "absent"
    <3>1. session'[n].state = "done" /\ session'[n].kind = "wrap_up" /\ session'[n].task = t
      <4>1. Stays(n) /\ SameRow(session'[n], session[n])
        BY <1>6, <2>2, <2>3
      <4> QED BY <1>2, <2>2, <2>3, <4>1 DEF Stays, SameRow, FinishedStates
    <3>2. Superseded(q)'
      BY <1>4, <2>1, <2>2, <3>1 DEF Superseded, DoneWrapUps
    <3> QED BY <1>3, <3>2
  <2>4. CASE session'[n].state = "absent"
    <3>1. n \in PrunableSessions /\ q \notin PrunableSessions
      BY <1>5, <2>2, <2>4
    <3>2. session[n].age = Retention
      BY <3>1 DEF PrunableSessions, OldSessions
    <3>3. session[n].age <= session[q].age /\ session[q].age <= Retention
      BY <1>4, <2>1, <2>2 DEF TokensInv, OlderTokensAreOlder, AgesAreCapped, FinishedStates
    <3>4. session[q].age \in Nat
      BY <1>2 DEF SessionRow
    <3>5. session[q].age = Retention
      BY <1>2, <3>2, <3>3, <3>4
    <3>6. q \notin LiveTokens
      BY <1>7 DEF LiveTokens
    <3>7. q \in PrunableSessions
      BY <3>5, <3>6 DEF PrunableSessions, PrunableWrapUps, OldSessions, FinishedStates
    <3> QED BY <3>1, <3>7
  <2> QED BY <2>3, <2>4
<1>8. CASE Consumed(q)
  <2>1. PICK x \in SessionId : session[x].kind = "exit_session" /\ session[x].token = q
    BY <1>8 DEF Consumed
  <2>2. session[x].state # "absent" /\ session[x].task = t
    BY <2>1 DEF SessionsInv, SessionIdsAreFresh, TokensArePast
  <2>3. CASE session'[x].state # "absent"
    <3>1. session'[x].kind = "exit_session" /\ session'[x].token = q
      BY <1>6, <2>1, <2>2, <2>3 DEF SameRow
    <3> QED BY <1>3, <3>1 DEF Consumed
  <2>4. CASE session'[x].state = "absent"
    <3>1. x \in PrunableSessions /\ q \notin PrunableSessions
      BY <1>5, <2>2, <2>4
    <3>2. OutlivesItsToken(x)
      BY <2>1, <3>1 DEF PrunableSessions, PrunableWrapUps
    <3>3. q \in PrunableWrapUps
      BY <2>1, <3>2 DEF OutlivesItsToken
    <3> QED BY <3>1, <3>3 DEF PrunableSessions, PrunableWrapUps
  <2> QED BY <2>3, <2>4
<1>9. CASE q \in LiveTokens /\ Voided(q)
  <2>1. PICK r \in session[q].sinceFinished : request[r].state = "dispatched"
    BY <1>9 DEF Voided
  <2>2. r \in RequestId /\ request[r].task = t
    BY <1>2, <2>1 DEF SessionRow, TokensInv, MarksAreDispatched
  <2>3. r \in session'[q].sinceFinished
    BY <1>1, <1>2, <1>3, <2>1 DEF Follows, RowMarks
  <2>4. request'[r].state # "dispatched"
    BY <1>3, <2>3 DEF Voided
  <2>5. r \notin PrunableDispatches
    BY <1>9, <2>1 DEF PrunableDispatches, VoidsALiveToken
  <2>6. ~RequestsRest
    BY <2>1, <2>2, <2>4, <2>5 DEF RequestsRest
  <2>7. PICK d \in Task : ForgetsRows(d) /\ Forgets(d)
    BY <2>6, DispatchedRowsRest
  <2>8. t = d
    BY <2>1, <2>2, <2>4, <2>7 DEF Forgets, Pruned, RequestsOf
  <2>9. session'[q] = NoSession
    BY <2>7, <2>8 DEF ForgetsRows, SessionsKept
  <2> QED BY <1>2, <1>3, <2>9
<1> QED BY <1>4, <1>7, <1>8, <1>9 DEF ValidToken, LiveTokens

(* A token that was spent, superseded or voided never works again, however *)
(* many requests are made and whatever retention deletes meanwhile.        *)
THEOREM SpentTokensStaySpent == SessionSpec => TokensAreNeverRevived
<1>1. /\ TypeOK /\ LedgerInv /\ SessionTypeOK /\ SessionsInv /\ TokensInv
      /\ [SessionNext]_allVars
      => [\A q \in SessionId :
            session[q].kind = "wrap_up" /\ session[q].state = "done" /\ ~ValidToken(q)
                => ~ValidToken(q)']_allVars
  BY NoTokenIsRevived
<1> QED BY <1>1, StoreInvariantUnderSessions, SessionInvariant, TokensInvariant, PTL
        DEF SessionSpec, TokensAreNeverRevived

LEMMA TokenEndsByARule ==
    ASSUME TypeOK, LedgerInv, SessionTypeOK, SessionsInv, [SessionNext]_allVars,
           NEW q \in SessionId, ValidToken(q), ~ValidToken(q)'
    PROVE  \/ Consumed(q)'
           \/ \E n \in DoneWrapUps(session[q].task)' : n > q
           \/ Voided(q)'
           \/ ~Exists(task'[session[q].task])
<1> DEFINE t == session[q].task
<1>1. Moves /\ Follows
  <2>1. SessionLedgerStep
    BY EverySessionStepIsALedgerStep DEF SessionsInv
  <2> QED BY <2>1, EveryLedgerStepMoves, EveryLedgerStepFollows
<1>2. /\ session[q].state = "done" /\ session[q].kind = "wrap_up" /\ q \in LiveTokens
      /\ q < nextSession
  BY SessionAssumption DEF ValidToken, LiveTokens, DoneWrapUps, SessionsInv,
                           SessionIdsAreFresh, SessionTypeOK, SessionId
(* The token's row is still there: only the three rules can fail.          *)
<1>3. CASE session'[q].state # "absent"
  <2>1. Stays(q) /\ SameRow(session'[q], session[q])
    BY <1>1, <1>2, <1>3, OldRowsStay, SessionAssumption DEF SessionTypeOK, SessionId
  <2>2. /\ session'[q].state = "done" /\ session'[q].kind = "wrap_up"
        /\ session'[q].task = t
    BY <1>2, <1>3, <2>1 DEF Stays, SameRow, FinishedStates, NoSession
  <2>3. (q \in DoneWrapUps(session[q].task))'
    BY <2>2 DEF DoneWrapUps
  <2>4. Superseded(q)' \/ Consumed(q)' \/ Voided(q)'
    BY <2>3 DEF ValidToken, LiveTokens
  <2>5. Superseded(q)' => \E n \in DoneWrapUps(t)' : n > q
    BY <2>2 DEF Superseded, DoneWrapUps
  <2> QED BY <2>4, <2>5
(* It is gone: retention keeps live tokens, so the task was deleted.       *)
<1>4. CASE session'[q].state = "absent"
  <2>1. q \notin PrunableSessions
    BY <1>2 DEF PrunableSessions, PrunableWrapUps
  <2>2. PICK d \in Task :
          /\ ~Exists(task'[d])
          /\ session'[q] = IF session[q].task = d THEN NoSession ELSE session[q]
    BY <1>1, <1>2, <1>4, <2>1 DEF Follows, RowsGo
  <2> QED BY <1>2, <1>4, <2>2
<1> QED BY <1>3, <1>4

(* A valid exit token ends by one of the rules: it is spent, a newer       *)
(* wrap-up of its task finished, a dispatch of its task landed, or the     *)
(* task was deleted.  Retention never takes it, however old it is.         *)
THEOREM TokensEndOnlyByARule == SessionSpec => TokensEndByARule
<1>1. /\ TypeOK /\ LedgerInv /\ SessionTypeOK /\ SessionsInv
      /\ [SessionNext]_allVars
      => [\A q \in SessionId :
            ValidToken(q) /\ ~ValidToken(q)' =>
                \/ Consumed(q)'
                \/ \E n \in DoneWrapUps(session[q].task)' : n > q
                \/ Voided(q)'
                \/ ~Exists(task'[session[q].task])]_allVars
  BY TokenEndsByARule
<1> QED BY <1>1, StoreInvariantUnderSessions, SessionInvariant, PTL
        DEF SessionSpec, TokensEndByARule

=============================================================================
