--------------------------- MODULE SessionRequests ---------------------------
(***************************************************************************)
(* The store side of a wrap-up and a close: the reducers over              *)
(* session_requests and their backstop timers, beside those of             *)
(* DispatchRequests.  A done wrap_up row is the exit token: exit_session   *)
(* spends it, closes the task, lets the epic chain request the next        *)
(* subtask and leaves a teardown row for the host, in one transaction.     *)
(*                                                                         *)
(* A session row's clock is its age, as a dispatch row's is.  Stamps are   *)
(* compared in two places only, each with the finished_at of a dispatched  *)
(* request: a row keeps the dispatches later than its own requested_at and *)
(* its own finished_at.                                                    *)
(***************************************************************************)
EXTENDS DispatchRequests

CONSTANTS
    MaxSessions,       \* bound: how many session rows a behaviour may draw
    WrapUpDeadline,    \* config.wrap_up_rebase_timeout, in ticks
    TeardownDeadline,  \* config.exit_session_teardown_timeout, in ticks
    SessionGrace,      \* config.session_request_backstop_grace, in ticks
    AutoDispatch,      \* the epics whose chain dispatches the next subtask
    Actions,           \* the wrap-up actions a caller may name
    Created            \* the kinds of task that are created

ASSUME SessionAssumption ==
    /\ MaxSessions \in Nat
    /\ WrapUpDeadline \in Nat \ {0}
    /\ TeardownDeadline \in Nat \ {0}
    /\ SessionGrace \in Nat \ {0}
    /\ AutoDispatch \subseteq Epic
    /\ Actions \subseteq {"rebase", "done", "pr"}
    /\ Created \subseteq [phoenix : BOOLEAN, schedule : BOOLEAN]

VARIABLES
    session,        \* session_requests
    sessionTimers,  \* session_request_timeouts: the row ids that hold one
    nextSession     \* the generated id of the next session row

sessionVars == <<session, sessionTimers, nextSession>>
allVars == <<storeVars, sessionVars>>

SessionId == 1 .. MaxSessions

OpenSessionStates == {"requested", "running"}
FinishedStates == {"done", "failed"}

SessionRow == [state : {"absent"} \cup OpenSessionStates \cup FinishedStates,
               kind : {"none", "wrap_up", "exit_session", "close"},
               action : {"rebase", "done", "pr"},
               task : Task \cup {None},
               host : Host \cup {None},
               by : User \cup {None},
               age : Nat,
               token : SessionId \cup {0},
               sinceRequested : SUBSET RequestId,
               sinceFinished : SUBSET RequestId]

NoSession == [state |-> "absent", kind |-> "none", action |-> "done", task |-> None,
              host |-> None, by |-> None, age |-> 0, token |-> 0,
              sinceRequested |-> {}, sinceFinished |-> {}]

SessionIsOpen(q) == session[q].state \in OpenSessionStates
OpenSessions == {q \in SessionId : SessionIsOpen(q)}
OpenSessionsOf(t) == {q \in OpenSessions : session[q].task = t}

SessionDeadline(kind) == IF kind = "wrap_up" THEN WrapUpDeadline ELSE TeardownDeadline

SessionBackstop(kind) == SessionDeadline(kind) + SessionGrace

----------------------------------------------------------------------------
(* The exit token *)

DoneWrapUps(t) ==
    {q \in SessionId : /\ session[q].kind = "wrap_up"
                       /\ session[q].state = "done"
                       /\ session[q].task = t}

Consumed(q) == \E x \in SessionId : session[x].kind = "exit_session" /\ session[x].token = q

(* Row ids are drawn in the order of requested_at. *)
Superseded(q) == \E n \in DoneWrapUps(session[q].task) : n > q

(* A dispatched request that finished at or after the wrap-up did, as long *)
(* as its row is there to be read.                                         *)
Voided(q) == \E r \in session[q].sinceFinished : request[r].state = "dispatched"

LiveTokens ==
    {q \in SessionId : /\ q \in DoneWrapUps(session[q].task)
                       /\ ~Superseded(q)
                       /\ ~Consumed(q)}

ValidToken(q) == q \in LiveTokens /\ ~Voided(q)

----------------------------------------------------------------------------
(* Retention: which finished rows a new request deletes, keeping what the  *)
(* token checks read.                                                      *)

OldSessions ==
    {q \in SessionId : session[q].state \in FinishedStates /\ session[q].age = Retention}

(* Faulty first: a token nobody has spent goes with its age. *)
PrunableWrapUpsByAge == {q \in OldSessions : session[q].kind = "wrap_up"}

PrunableWrapUps == {q \in OldSessions : session[q].kind = "wrap_up" /\ q \notin LiveTokens}

(* The row an exit_session spent is going, or has gone. *)
OutlivesItsToken(x) ==
    session[x].token \in PrunableWrapUps \/ session[session[x].token].state = "absent"

PrunableSessions ==
    {q \in OldSessions : \/ q \in PrunableWrapUps
                         \/ session[q].kind = "exit_session" /\ OutlivesItsToken(q)
                         \/ session[q].kind = "close"}

VoidsALiveToken(r) ==
    /\ request[r].state = "dispatched"
    /\ \E q \in LiveTokens : r \in session[q].sinceFinished

(* Faulty first: the dispatched rows that void a token go like the others; *)
(* open rows go with their age.                                            *)
PrunableDispatchesByAge == Prunable

PrunableDispatches == {r \in Prunable : ~VoidsALiveToken(r)}

SessionsKept(gone) == [q \in SessionId |-> IF q \in gone THEN NoSession ELSE session[q]]

----------------------------------------------------------------------------
(* Wrap-up *)

SessionRequested(kind, u, t, h, action) ==
    [NoSession EXCEPT !.state = "requested", !.kind = kind, !.by = u, !.task = t,
                      !.host = h, !.action = action]

(* done and pr have no host work, so the row is written finished. *)
NewWrapUp(u, t, h, action) ==
    LET row == SessionRequested("wrap_up", u, t, h, action)
    IN  IF action = "rebase" THEN row ELSE [row EXCEPT !.state = "done"]

MayWrapUp(t, h) ==
    /\ task[t].status \in {"running", "review"}
    /\ task[t].worktree # None
    /\ task[t].host = h
    /\ OpenSessionsOf(t) = {}

RequestWrapUp(u, t, h, action) ==
    /\ ActingFor(u, h)
    /\ MayWrapUp(t, h)
    /\ nextSession \in SessionId
    /\ request' = Pruned(PrunableDispatches)
    /\ session' = [SessionsKept(PrunableSessions) EXCEPT
                     ![nextSession] = NewWrapUp(u, t, h, action)]
    /\ sessionTimers' = IF action = "rebase"
                        THEN sessionTimers \cup {nextSession} ELSE sessionTimers
    /\ nextSession' = nextSession + 1
    /\ UNCHANGED <<hosts, task, agent, epic, timers, nextRequest>>

----------------------------------------------------------------------------
(* The host's claim and its reports *)

(* A host does not start a row whose deadline has passed. *)
InTime(q) == session[q].age < SessionDeadline(session[q].kind)

ClaimSessionRequest(u, q) ==
    /\ session[q].state = "requested"
    /\ InTime(q)
    /\ ActingFor(u, session[q].host)
    /\ session' = [session EXCEPT ![q].state = "running"]
    /\ UNCHANGED <<storeVars, sessionTimers, nextSession>>

(* Only a rebase has to be reported in time: a close stands whatever its   *)
(* teardown does.                                                          *)
ReportSessionRequestDone(u, q) ==
    /\ session[q].state = "running"
    /\ ActingFor(u, session[q].host)
    /\ session[q].kind = "wrap_up" => InTime(q)
    /\ session' = [session EXCEPT ![q].state = "done", ![q].age = 0]
    /\ sessionTimers' = sessionTimers \ {q}
    /\ UNCHANGED <<storeVars, nextSession>>

(* The one failure path of session rows: it moves no task. *)
SessionsFailed(Q) ==
    [q \in SessionId |-> IF q \in Q THEN [session[q] EXCEPT !.state = "failed", !.age = 0]
                                    ELSE session[q]]

FailSessionRequests(Q) ==
    /\ session' = SessionsFailed(Q)
    /\ sessionTimers' = sessionTimers \ Q
    /\ UNCHANGED <<storeVars, nextSession>>

ReportSessionRequestFailed(u, q) ==
    /\ session[q].state = "running"
    /\ ActingFor(u, session[q].host)
    /\ FailSessionRequests({q})

InterruptedSessions(h) == {q \in SessionId : session[q].state = "running" /\ session[q].host = h}

FailInterruptedSessionRequests(u, h) ==
    /\ ActingFor(u, h)
    /\ InterruptedSessions(h) # {}
    /\ FailSessionRequests(InterruptedSessions(h))

(* Faulty first: a timer that only looks for rows nobody claimed. *)
ExpireUnclaimedSession(q) ==
    /\ q \in sessionTimers
    /\ session[q].age >= SessionBackstop(session[q].kind)
    /\ session' = SessionsFailed({q} \cap {x \in SessionId : session[x].state = "requested"})
    /\ sessionTimers' = sessionTimers \ {q}
    /\ UNCHANGED <<storeVars, nextSession>>

ExpireSessionRequest(q) ==
    /\ q \in sessionTimers
    /\ session[q].age >= SessionBackstop(session[q].kind)
    /\ session' = SessionsFailed({q} \cap OpenSessions)
    /\ sessionTimers' = sessionTimers \ {q}
    /\ UNCHANGED <<storeVars, nextSession>>

----------------------------------------------------------------------------
(* exit_session: the close and the chain *)

(* Faulty first: a token is not asked whether it was spent. *)
MayExitWithSpentToken(t, q) ==
    /\ q \in DoneWrapUps(t)
    /\ ~Superseded(q)
    /\ ~Voided(q)
    /\ agent[t].window # None
    /\ OpenSessionsOf(t) = {}

MayExit(t, q) ==
    /\ q \in DoneWrapUps(t)
    /\ ValidToken(q)
    /\ agent[t].window # None
    /\ OpenSessionsOf(t) = {}

SessionClosedTask(row, action) ==
    IF action = "pr" THEN [row EXCEPT !.status = "review", !.due = "none"] ELSE DoneTask(row)

(* The backlog subtasks an epic_chain request would be accepted for: the   *)
(* chain takes the first of them in board order.                           *)
ChainCandidates(t) ==
    {c \in Task \ {t} : EpicOf[c] = EpicOf[t] /\ MayDispatch(c, task[t].host, "epic_chain")}

Chains(t) == EpicOf[t] \in AutoDispatch /\ ChainCandidates(t) # {}

(* Faulty first: the task's id where the token's belongs. *)
ExitRowOfTask(u, t, q) ==
    [SessionRequested("exit_session", u, t, task[t].host, session[q].action)
        EXCEPT !.token = t]

ExitRow(u, t, q) ==
    [SessionRequested("exit_session", u, t, task[t].host, session[q].action)
        EXCEPT !.token = q]

(* s is the phoenix's successor, c the chained subtask (t itself for none).*)
RequestExitSession(u, t, q, s, c) ==
    LET row == SessionClosedTask(task[t], session[q].action)
        ts == TasksWithRespawn(t, row, s)
        ag == [agent EXCEPT ![t] = ClosedAgent(@)]
        es == RecalculatedChains(ts, epic, {EpicOf[t]})
        kept == SessionsKept(IF Chains(t) THEN PrunableSessions ELSE {})
    IN  /\ task[t].host # None
        /\ ActingFor(u, task[t].host)
        /\ MayExit(t, q)
        /\ SuccessorFor(t, row, s)
        /\ nextSession \in SessionId
        /\ \/ /\ c \in ChainCandidates(t)
              /\ Chains(t)
              /\ CreateDispatchRequest(c, task[t].host, u, "epic_chain",
                                       PrunableDispatches, ts, ag, es)
           \/ /\ c = t
              /\ ~Chains(t)
              /\ task' = ts /\ agent' = ag /\ epic' = es
              /\ UNCHANGED <<request, timers, nextRequest>>
        /\ session' = [kept EXCEPT ![nextSession] = ExitRow(u, t, q)]
        /\ sessionTimers' = sessionTimers \cup {nextSession}
        /\ nextSession' = nextSession + 1
        /\ UNCHANGED hosts

----------------------------------------------------------------------------
(* The other closes.  A close row is written when there is a window or a   *)
(* pull request to close and the caller owns the host that would: the      *)
(* task's, else the caller's own, h.  The task's url is not modelled: pr   *)
(* says whether it is a pull request's, and may be either.                 *)

TeardownHost(row, h) == IF row.host # None THEN row.host ELSE h

OwesATeardown(u, row, window, pr, h) ==
    /\ window # None \/ pr
    /\ TeardownHost(row, h) # None
    /\ ActingFor(u, TeardownHost(row, h))

(* The session half of a close of t whose row, as the teardown reads it,   *)
(* is `row`; Q are the open rows it fails first.                           *)
CloseSessions(u, t, row, owed, h, Q) ==
    IF owed
    THEN /\ nextSession \in SessionId
         /\ session' = [SessionsFailed(Q) EXCEPT
                          ![nextSession] = SessionRequested("close", u, t,
                                                            TeardownHost(row, h), "done")]
         /\ sessionTimers' = (sessionTimers \ Q) \cup {nextSession}
         /\ nextSession' = nextSession + 1
    ELSE /\ session' = SessionsFailed(Q)
         /\ sessionTimers' = sessionTimers \ Q
         /\ UNCHANGED nextSession

CloseTaskSession(u, t, s, h, pr) ==
    /\ CloseTask(t, s)
    /\ CloseSessions(u, t, task[t], OwesATeardown(u, task[t], agent[t].window, pr, h), h,
                     OpenSessionsOf(t))

(* A patch into done closes the pull request only: its row names no        *)
(* window.  h is None for patch_task, the board's host for update_task.    *)
PatchTaskSession(u, t, p, s, h, pr) ==
    LET row == PatchedTask(task[t], p)
        owed == /\ h # None
                /\ task[t].status # "done" /\ row.status = "done"
                /\ OwesATeardown(u, row, None, pr, h)
    IN  /\ PatchTask(u, t, p, s)
        /\ CloseSessions(u, t, row, owed, h, IF owed THEN OpenSessionsOf(t) ELSE {})

DeleteTaskSession(t) ==
    /\ DeleteTask(t)
    /\ session' = SessionsKept({q \in SessionId : session[q].task = t})
    /\ sessionTimers' = sessionTimers \ OpenSessionsOf(t)
    /\ UNCHANGED nextSession

----------------------------------------------------------------------------
(* What a dispatch does to session rows *)

RequestDispatchSession(u, t, h, origin) ==
    /\ RequestDispatch(u, t, h, origin, PrunableDispatches)
    /\ session' = SessionsKept(PrunableSessions)
    /\ UNCHANGED <<sessionTimers, nextSession>>

(* The wrap-ups of the task that are older than its dispatch r. *)
ReportDispatchSession(u, r, w, win) ==
    LET earlier == {q \in SessionId : /\ session[q].kind = "wrap_up"
                                      /\ session[q].state # "failed"
                                      /\ session[q].task = request[r].task}
    IN  /\ ReportDispatchProvisioned(u, r, w, win)
        /\ session' = [q \in SessionId |->
             IF q \notin earlier THEN session[q]
             ELSE [session[q] EXCEPT
                     !.sinceRequested = @ \cup {r},
                     !.sinceFinished = IF SessionIsOpen(q) THEN {} ELSE @ \cup {r}]]
        /\ UNCHANGED <<sessionTimers, nextSession>>

SessionMaxAge(row) ==
    IF row.state \in OpenSessionStates THEN SessionBackstop(row.kind) ELSE Retention

AgedSession(row) == IF row.state # "absent" /\ row.age < SessionMaxAge(row)
                    THEN [row EXCEPT !.age = @ + 1] ELSE row

(* One tick for the rows of both tables. *)
SessionTick ==
    /\ request' = [r \in RequestId |-> Aged(request[r])]
    /\ session' = [q \in SessionId |-> AgedSession(session[q])]
    /\ <<request, session>>' # <<request, session>>
    /\ UNCHANGED <<hosts, task, agent, epic, timers, nextRequest>>
    /\ UNCHANGED <<sessionTimers, nextSession>>

----------------------------------------------------------------------------
(* The specification *)

SessionInit ==
    /\ Init
    /\ session = [q \in SessionId |-> NoSession]
    /\ sessionTimers = {}
    /\ nextSession = 1

SessionClientStep(u) ==
    \/ \E t \in Task, h \in Host, a \in Actions : RequestWrapUp(u, t, h, a)
    \/ \E q \in SessionId : ClaimSessionRequest(u, q)
    \/ \E q \in SessionId : ReportSessionRequestDone(u, q)
    \/ \E q \in SessionId : ReportSessionRequestFailed(u, q)
    \/ \E h \in Host : FailInterruptedSessionRequests(u, h)
    \/ \E t, s, c \in Task, q \in SessionId : RequestExitSession(u, t, q, s, c)
    \/ \E t, s \in Task, h \in Host, pr \in BOOLEAN : CloseTaskSession(u, t, s, h, pr)
    \/ \E t, s \in Task, p \in Patches, h \in Host \cup {None}, pr \in BOOLEAN :
         PatchTaskSession(u, t, p, s, h, pr)
    \/ \E t \in Task, h \in Host, o \in Origins : RequestDispatchSession(u, t, h, o)
    \/ \E r \in RequestId, w \in Worktree, win \in Window : ReportDispatchSession(u, r, w, win)

(* The steps of DispatchRequests that read and write no session row. *)
DispatchOnlyStep ==
    \/ \E u \in User, h \in Host : RegisterHost(u, h)
    \/ \E u \in User, r \in RequestId : ClaimDispatchRequest(u, r)
    \/ \E u \in User, r \in RequestId : ReportDispatchFailed(u, r)
    \/ \E u \in User, h \in Host : FailInterruptedDispatchRequests(u, h)
    \/ \E t \in Task, k \in Created : CreateTask(t, k.phoenix, k.schedule)
    \/ \E r \in RequestId : ExpireDispatchRequest(r)
    \/ \E t \in Task : DueTimePasses(t)

SessionNext ==
    \/ \E u \in User : SessionClientStep(u)
    \/ DispatchOnlyStep /\ UNCHANGED sessionVars
    \/ \E t \in Task : DeleteTaskSession(t)
    \/ \E q \in SessionId : ExpireSessionRequest(q)
    \/ SessionTick

SessionSpec == SessionInit /\ [][SessionNext]_allVars

SessionFairness ==
    /\ WF_allVars(SessionTick)
    /\ \A q \in SessionId : WF_allVars(ExpireSessionRequest(q))

SessionFairSpec == SessionSpec /\ SessionFairness
----------------------------------------------------------------------------
(* Properties *)

SessionTypeOK ==
    /\ session \in [SessionId -> SessionRow]
    /\ sessionTimers \in SUBSET SessionId
    /\ nextSession \in Nat \ {0}

(* store-split.allium OneOpenSessionRequestPerTask: wrap_up, exit_session, *)
(* close_task and a patch into done never leave two open on one task.      *)
OneOpenSessionRequestPerTask ==
    \A a, b \in OpenSessions : session[a].task = session[b].task => a = b

(* Every open row has the backstop that will end it; no path that ends a   *)
(* row, or deletes it, leaves its timer behind.                            *)
SessionTimerExactlyWhileOpen == sessionTimers = OpenSessions

(* store-split.allium AnExitTokenIsConsumedOnce. *)
AnExitTokenIsConsumedOnce ==
    \A a, b \in SessionId :
        /\ session[a].kind = "exit_session" /\ session[b].kind = "exit_session"
        /\ session[a].token = session[b].token
        => a = b

(* The session rows, their timers and the exit tokens agree: one open row  *)
(* per task, with the backstop that will end it, and no token is spent     *)
(* twice, whatever retention and deletion take in between.                 *)
SessionRowsAgree ==
    /\ OneOpenSessionRequestPerTask
    /\ SessionTimerExactlyWhileOpen
    /\ AnExitTokenIsConsumedOnce

(* A token that was spent, superseded or voided never works again: not     *)
(* after retention has deleted the rows that say so, either.               *)
TokensAreNeverRevived ==
    [][\A q \in SessionId :
         session[q].kind = "wrap_up" /\ session[q].state = "done" /\ ~ValidToken(q)
             => ~ValidToken(q)']_allVars

(* A valid token stays valid until an exit spends it, a newer wrap-up      *)
(* finishes, a dispatch lands or the task goes: retention never takes it.  *)
TokensEndByARule ==
    [][\A q \in SessionId :
         ValidToken(q) /\ ~ValidToken(q)' =>
             \/ Consumed(q)'
             \/ \E n \in DoneWrapUps(session[q].task)' : n > q
             \/ Voided(q)'
             \/ ~Exists(task'[session[q].task])]_allVars

(* store-split.allium W3: "a token from an earlier session of a            *)
(* re-dispatched task cannot close the new session".  The code voids the   *)
(* tokens that finished before the dispatch, not those asked for before.   *)
TokensStayWithTheirSession ==
    \A q \in SessionId : ValidToken(q) => session[q].sinceRequested = {}

(* The backstop ends every session request, whatever its host does. *)
EverySessionRequestEnds ==
    \A q \in SessionId : SessionIsOpen(q) ~> ~SessionIsOpen(q)
============================================================================
