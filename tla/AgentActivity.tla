--------------------------- MODULE AgentActivity ---------------------------
(* What the store learns of one task's running agent from the hooks of its   *)
(* Claude Code session: turns ending and prompts arriving, subagents coming  *)
(* and going, tool calls and notifications (agent_state.rs), and the board's *)
(* tick that classifies the agent from them.                                 *)
(*                                                                           *)
(* A hook is a process of its own.  The board stamps its event on receipt    *)
(* and then awaits the write, so two events of one session may be written    *)
(* in either order; an event that finds no board is dropped and never sent   *)
(* again (hooks/mod.rs).  InOrder restricts the runs to the ordinary case,   *)
(* in which each event's write lands before the next event fires.            *)
EXTENDS Naturals, FiniteSets, FiniteSetsExt

CONSTANTS
    Settings,      \* what a run may meet, one setting for each behaviour
    Threshold      \* ACTIVE_THRESHOLD, in ticks of the event clock

HookKinds == {"stop", "prompt", "substart", "substop", "clear", "note", "tool"}
AllActs == {"move", "close", "crash", "detach", "resume", "retry"}

ASSUME ActivityAssumption ==
    /\ \A s \in Settings :
           /\ IsFiniteSet(s.subs)
           /\ s.hooks \subseteq HookKinds /\ s.acts \subseteq AllActs
           /\ s.inOrder \in BOOLEAN /\ s.lossy \in BOOLEAN
           /\ s.clock \in Nat \ {0}
           /\ {s.agents, s.sessions, s.inflight} \subseteq Nat
    /\ Threshold \in Nat

VARIABLES
    task,      \* the row: its status and sub_status
    agent,     \* the task's current agent, or NoAgent
    agents,    \* ids handed out to agents
    entries,   \* task_subagents: the subagents counted live
    session,   \* the Claude Code session in the window, as it really is
    sessions,  \* ids of sessions started
    launching, \* the task has an open dispatch request
    clock,     \* the time, as the board stamps it on events
    inflight,  \* events the board has stamped and the store has not applied
    setting    \* the setting of this behaviour

activityVars == <<task, agent, agents, entries, session, sessions, launching, clock, inflight>>
vars == <<activityVars, setting>>

Sub == setting.subs                \* ids of the subagents a session may start
Hooks == setting.hooks             \* the kinds of hook that fire
Acts == setting.acts               \* what people and the board do besides
InOrder == setting.inOrder         \* writes land in the order of the events
Lossy == setting.lossy             \* an event may find no board
MaxClock == setting.clock          \* bound: event times
MaxAgents == setting.agents        \* bound: agents the task has had
MaxSessions == setting.sessions    \* bound: Claude Code sessions in its windows
MaxInFlight == setting.inflight    \* bound: events received and not yet written

Never == 0     \* an event time that is not set (the store's empty string)
NoAgent == [id |-> 0, window |-> FALSE, live |-> 0, pending |-> FALSE,
            stopAt |-> Never, toolAt |-> Never, noteAt |-> Never]
NoSession == [id |-> 0, turn |-> "none", subs |-> {}]

Row(status, sub) == [status |-> status, sub |-> sub]
LegalSubs(status) ==
    CASE status \in {"backlog", "done"} -> {"none"}
      [] status = "running" ->
            {"active", "needs_input", "stale", "crashed", "conflict"}
      [] status = "review" ->
            {"awaiting_review", "changes_requested", "approved", "conflict",
             "pr_closed", "pr_unreachable"}
DefaultSub(status) ==
    CASE status = "running" -> "active"
      [] status = "review" -> "awaiting_review"
      [] OTHER -> "none"

NoteModes == {"ignore", "clear", "raise", "raise_if_no_own_work_live"}
Unread == "unread"       \* a tool event whose classification is still to come
BoardWrites == {"drain", "resumed"}      \* writes of the board, not of a hook
Message(kind, sid, what) == [kind |-> kind, at |-> clock, sid |-> sid, what |-> what]

TypeOK ==
    /\ task.status \in {"backlog", "running", "review", "done"}
    /\ task.sub \in LegalSubs(task.status)
    /\ agent.id \in 0..agents /\ agents \in 0..MaxAgents
    /\ agent.live \in 0..Cardinality(Sub)
    /\ agent.window \in BOOLEAN /\ agent.pending \in BOOLEAN
    /\ {agent.stopAt, agent.toolAt, agent.noteAt} \subseteq 0..MaxClock
    /\ \A e \in entries : e.sub \in Sub /\ e.sid \in 1..sessions /\ e.owner \in 1..agents
    /\ session.turn \in {"none", "fresh", "busy", "ended"}
    /\ launching \in BOOLEAN
    /\ session.subs \subseteq Sub /\ session.id \in 0..sessions
    /\ clock \in 1..MaxClock /\ sessions \in 0..MaxSessions
    /\ \A e \in inflight : /\ e.kind \in HookKinds \cup BoardWrites
                          /\ e.at \in 1..clock /\ e.sid \in 0..sessions

Init ==
    /\ setting \in Settings
    /\ task = Row("backlog", "none")
    /\ agent = NoAgent /\ agents = 0 /\ entries = {}
    /\ session = NoSession /\ sessions = 0 /\ launching = FALSE
    /\ clock = 1 /\ inflight = {}

-----------------------------------------------------------------------------
(* The store's helpers.                                                      *)

\* sync_subagent_count: the current agent's count is recomputed from the rows.
Synced(a, rows) ==
    IF a = NoAgent THEN a ELSE [a EXCEPT !.live = Cardinality(rows)]

\* fence_subagent_session: rows of another session are of a dead process.
Fenced(rows, sid) == {e \in rows : e.sid = sid}

WithoutNothing(rows, sub) == rows     \* faulty: the row is kept

Without(rows, sub) == {e \in rows : e.sub # sub}

\* The agent's half of flip_to_review.
AtRest(a) ==
    IF a = NoAgent THEN a
    ELSE [a EXCEPT !.toolAt = Never, !.noteAt = Never, !.pending = FALSE]

FlipKeepingSubStatus(a) ==      \* faulty: the sub_status stays behind
    task' = [task EXCEPT !.status = "review"] /\ agent' = AtRest(a)

FlipToReview(a) == task' = Row("review", "awaiting_review") /\ agent' = AtRest(a)

\* apply_pending_stop_if_drained, on the agent whose count was just written.
ApplyPendingStopIfDrained(a) ==
    IF task.status = "running" /\ a # NoAgent /\ a.pending /\ a.live = 0
    THEN FlipToReview(a)
    ELSE agent' = a /\ UNCHANGED task

Voided(a) == IF a = NoAgent THEN a ELSE [a EXCEPT !.pending = FALSE]

\* classify_agent_activity.
Classify(a, toolAt, now) ==
    CASE a.noteAt # Never /\ (toolAt = Never \/ a.noteAt > toolAt) -> "needs_input"
      [] a.live > 0 -> "active"
      [] toolAt # Never /\ now <= toolAt + Threshold -> "active"
      [] OTHER -> "stale"

-----------------------------------------------------------------------------
(* The store applies an event.  Each reducer is one transaction.             *)

Applied(e) == inflight' = inflight \ {e}
KeepAllButTheRows == UNCHANGED <<agents, session, sessions, launching, clock>>

\* try_record_stop: flip at once, or defer to the last subagent.  A task that
\* is not running refuses.
TryRecordStop(e) ==
    /\ e.kind = "stop"
    /\ IF task.status # "running" THEN UNCHANGED <<task, agent>>
       ELSE IF agent.live = 0 THEN FlipToReview(agent)
       ELSE agent' = [agent EXCEPT !.pending = TRUE, !.stopAt = e.at] /\ UNCHANGED task
    /\ UNCHANGED entries

\* record_user_prompt_submit: a prompt resumes the task and voids the stop that
\* was deferred before it; a stop of the same instant or later is kept.
VoidsPendingStop(a, promptAt) == a.stopAt = Never \/ a.stopAt < promptAt

AfterPrompt(a, at) ==
    IF a = NoAgent THEN a
    ELSE [a EXCEPT !.toolAt = at,
                   !.pending = @ /\ ~VoidsPendingStop(a, at)]

RecordUserPromptSubmit(e) ==
    /\ e.kind = "prompt"
    /\ IF task.status \in {"running", "review"}
       THEN task' = Row("running", "active") /\ agent' = AfterPrompt(agent, e.at)
       ELSE UNCHANGED <<task, agent>>
    /\ UNCHANGED entries

SubagentStart(e) ==
    /\ e.kind = "substart"
    /\ IF agent = NoAgent THEN UNCHANGED <<agent, entries>>
       ELSE /\ entries' = Without(Fenced(entries, e.sid), e.what)
                            \cup {[sub |-> e.what, sid |-> e.sid, owner |-> agent.id]}
            /\ agent' = Synced(agent, entries')
    /\ UNCHANGED task

SubagentStop(e) ==
    /\ e.kind = "substop"
    /\ entries' = Without(Fenced(entries, e.sid), e.what)
    /\ ApplyPendingStopIfDrained(Synced(agent, entries'))

\* subagent_clear: the board's detach.
SubagentClear(e) ==
    /\ e.kind = "drain"
    /\ entries' = {}
    /\ ApplyPendingStopIfDrained(Synced(agent, {}))

\* subagent_clear_and_void_pending_stop: a session start, a crash.
SubagentClearAndVoidPendingStop(e) ==
    /\ e.kind = "clear"
    /\ entries' = {}
    /\ agent' = Voided(Synced(agent, {}))
    /\ UNCHANGED task

Noted(a, at) == IF a = NoAgent THEN a ELSE [a EXCEPT !.noteAt = at]

\* record_notification: the live count is read by the write itself.
RecordNotification(e) ==
    /\ e.kind = "note"
    /\ LET raises == \/ e.what = "raise"
                     \/ (e.what = "raise_if_no_own_work_live" /\ agent.live = 0)
           clears == e.what = "clear"
       IN IF task.status = "running" /\ (raises \/ clears)
          THEN /\ task' = Row("running", IF raises THEN "needs_input" ELSE "active")
               /\ agent' = Noted(agent, IF raises THEN e.at ELSE Never)
          ELSE UNCHANGED <<task, agent>>
    /\ UNCHANGED entries

\* record_hook_event, PreToolUse: the board classifies from a snapshot ...
ClassifyToolUse(e) ==
    /\ e.kind = "tool" /\ e.what = Unread
    /\ inflight' = (inflight \ {e})
                     \cup {[e EXCEPT !.what = Classify(agent, e.at, e.at)]}
    /\ UNCHANGED <<task, agent, agents, entries, session, sessions, launching, clock>>

\* ... and record_pre_tool_use writes it, if the task still runs.
RecordPreToolUse(e) ==
    /\ e.kind = "tool" /\ e.what # Unread
    /\ IF task.status = "running"
       THEN /\ task' = Row("running", e.what)
            /\ agent' = IF agent = NoAgent THEN agent ELSE [agent EXCEPT !.toolAt = e.at]
       ELSE UNCHANGED <<task, agent>>
    /\ UNCHANGED entries

\* handle_resumed: the board writes the row running with its window, and seeds
\* the activity time.
Resumed(e) ==
    /\ e.kind = "resumed"
    /\ task' = Row("running", "active")
    /\ agent' = IF agent = NoAgent THEN agent
                ELSE [agent EXCEPT !.window = TRUE, !.toolAt = clock]
    /\ UNCHANGED entries

StoreApplies(e) ==
    \/ TryRecordStop(e) \/ RecordUserPromptSubmit(e)
    \/ SubagentStart(e) \/ SubagentStop(e)
    \/ SubagentClear(e) \/ SubagentClearAndVoidPendingStop(e)
    \/ RecordNotification(e) \/ RecordPreToolUse(e) \/ Resumed(e)

Deliver ==
    \E e \in inflight :
        \/ ClassifyToolUse(e)
        \/ StoreApplies(e) /\ Applied(e) /\ KeepAllButTheRows

-----------------------------------------------------------------------------
(* The session, outside the program: what Claude Code does in the window and *)
(* the hooks it fires.                                                       *)

KeepTheRows == UNCHANGED <<task, agent, agents, entries, launching>>

\* A hook process delivers its event to the board, or finds none (deliver).
Fire(kind, what) ==
    /\ kind \in Hooks
    /\ InOrder => inflight = {}
    /\ Cardinality(inflight) < MaxInFlight
    /\ LET e == Message(kind, session.id, what)
       IN /\ e \notin inflight
          /\ \/ inflight' = inflight \cup {e}
             \/ Lossy /\ UNCHANGED inflight
    /\ KeepTheRows /\ UNCHANGED <<sessions, clock>>

\* In order also means that a person does not answer within the millisecond.
SubmitPrompt ==
    /\ session.turn \in {"fresh", "ended"}
    /\ InOrder => agent.stopAt < clock
    /\ session' = [session EXCEPT !.turn = "busy"]
    /\ Fire("prompt", "none")

EndTurn ==
    /\ session.turn = "busy"
    /\ session' = [session EXCEPT !.turn = "ended"]
    /\ Fire("stop", "none")

StartSubagent(sub) ==
    /\ session.turn = "busy" /\ sub \notin session.subs
    /\ session' = [session EXCEPT !.subs = @ \cup {sub}]
    /\ Fire("substart", sub)

StopSubagent(sub) ==
    /\ sub \in session.subs
    /\ session' = [session EXCEPT !.subs = @ \ {sub}]
    /\ Fire("substop", sub)

UseTool ==
    /\ session.turn = "busy" \/ session.subs # {}
    /\ UNCHANGED session
    /\ Fire("tool", Unread)

Notify(mode) ==
    /\ session # NoSession
    /\ UNCHANGED session
    /\ Fire("note", mode)

\* A new session in the same window (/clear): its SessionStart hook.
StartSession(rest) ==
    /\ sessions < MaxSessions
    /\ sessions' = sessions + 1
    /\ session' = [id |-> sessions + 1, turn |-> "fresh", subs |-> {}]
    /\ \/ inflight' = inflight \cup rest \cup {Message("clear", sessions + 1, "none")}
       \/ Lossy /\ inflight' = inflight \cup rest

ClearTranscript ==
    /\ session.turn \in {"fresh", "ended"}
    /\ "clear" \in Hooks /\ (InOrder => inflight = {})
    /\ StartSession({})
    /\ KeepTheRows /\ UNCHANGED clock

TimePasses ==
    /\ clock < MaxClock
    /\ clock' = clock + 1
    /\ UNCHANGED <<task, agent, agents, entries, session, sessions, launching, inflight>>

-----------------------------------------------------------------------------
(* The board, the dispatch request and people.                               *)

\* start_agent_on_fresh_launch: the previous agent ends, and its rows with it.
EntriesAfterEnd(rows) == {}

Dispatch ==
    /\ task.status = "backlog" /\ ~launching /\ agents < MaxAgents
    /\ task' = Row("running", "active")
    /\ agents' = agents + 1
    /\ agent' = [NoAgent EXCEPT !.id = agents + 1, !.toolAt = clock]
    /\ entries' = EntriesAfterEnd(entries)
    /\ launching' = TRUE
    /\ UNCHANGED <<session, sessions, clock, inflight>>

\* The launch is reported: the agent has its window, and a session starts in it.
Launched ==
    /\ launching /\ task.status = "running" /\ session = NoSession
    /\ agent' = [agent EXCEPT !.window = TRUE]
    /\ launching' = FALSE
    /\ StartSession({})
    /\ UNCHANGED <<task, agents, entries, clock>>

\* The launch failed: the attempt's agent ends and the task waits again.
EndAgent ==
    /\ task' = Row("backlog", "none")
    /\ agent' = NoAgent
    /\ entries' = EntriesAfterEnd(entries)

LaunchFails ==
    /\ launching /\ task.status = "running"
    /\ EndAgent
    /\ launching' = FALSE
    /\ UNCHANGED <<agents, session, sessions, clock, inflight>>

\* patch_task with a status: leaving running voids the deferred stop.
StopAfterMove(a, status) == IF status # "running" THEN Voided(a) ELSE a

MoveTask(status) ==
    /\ "move" \in Acts /\ status # task.status
    /\ task' = Row(status, DefaultSub(status))
    /\ agent' = StopAfterMove(agent, status)
    /\ UNCHANGED <<agents, entries, session, sessions, launching, clock, inflight>>

\* close_agent_session: the close of an exited session; the window is killed later.
CloseSession ==
    /\ "close" \in Acts /\ task.status \in {"running", "review"} /\ agent # NoAgent
    /\ task' = Row("done", "none")
    /\ agent' = Voided([agent EXCEPT !.window = FALSE])
    /\ UNCHANGED <<agents, entries, session, sessions, launching, clock, inflight>>

\* The window goes away with its session: a crash, an exit, the kill after a close.
WindowDies ==
    /\ "crash" \in Acts /\ session # NoSession
    /\ InOrder => inflight = {}
    /\ session' = NoSession
    /\ UNCHANGED <<task, agent, agents, entries, sessions, launching, clock, inflight>>

\* handle_window_gone: a running task crashed; its rows are cleared, without
\* draining, by a second write.  Any other task only loses its window.
WindowGone ==
    /\ session = NoSession /\ agent.window
    /\ agent' = [agent EXCEPT !.window = FALSE]
    /\ IF task.status = "running"
       THEN /\ task' = Row("running", "crashed")
            /\ inflight' = inflight \cup {Message("clear", 0, "none")}
       ELSE UNCHANGED <<task, inflight>>
    /\ UNCHANGED <<agents, entries, session, sessions, launching, clock>>

\* detach_tmux_panels: kill the window, release it, and clear the rows draining
\* a deferred stop.
DetachTmux ==
    /\ "detach" \in Acts /\ agent.window
    /\ InOrder => inflight = {}
    /\ session' = NoSession
    /\ agent' = [agent EXCEPT !.window = FALSE]
    /\ task' = IF task.sub \in {"stale", "crashed"}
               THEN Row(task.status, DefaultSub(task.status)) ELSE task
    /\ inflight' = inflight \cup {Message("drain", 0, "none")}
    /\ UNCHANGED <<agents, entries, sessions, launching, clock>>

\* handle_resume_task and exec_resume: a session continues in a new window; the
\* board writes the row when it hears of it.
ResumeTask ==
    /\ "resume" \in Acts
    /\ task.status \in {"running", "review", "done"}
    /\ agent # NoAgent /\ ~agent.window /\ session = NoSession /\ ~launching
    /\ InOrder => inflight = {}
    /\ StartSession({Message("resumed", 0, "none")})
    /\ KeepTheRows /\ UNCHANGED clock

\* handle_retry_fresh: the worktree is released, which ends the agent.
RetryFresh ==
    /\ "retry" \in Acts /\ task.status = "running" /\ agent # NoAgent /\ ~launching
    /\ EndAgent
    /\ session' = NoSession
    /\ UNCHANGED <<agents, sessions, launching, clock, inflight>>

\* tick_sub_status and batch_patch_sub_status: a running, windowed task is
\* reclassified, except where a crash or a conflict is to be seen.
TickSubStatus ==
    LET target == Classify(agent, agent.toolAt, clock)
    IN /\ task.status = "running" /\ agent.window
       /\ task.sub \notin {"crashed", "conflict"} /\ task.sub # target
       /\ task' = [task EXCEPT !.sub = target]
       /\ UNCHANGED <<agent, agents, entries, session, sessions, launching, clock, inflight>>

SessionStep ==
    \/ SubmitPrompt \/ EndTurn \/ UseTool \/ ClearTranscript
    \/ \E sub \in Sub : StartSubagent(sub) \/ StopSubagent(sub)
    \/ \E mode \in NoteModes : Notify(mode)

BoardStep ==
    \/ Dispatch \/ Launched \/ LaunchFails \/ CloseSession
    \/ \E status \in {"backlog", "running", "review", "done"} : MoveTask(status)
    \/ WindowGone \/ DetachTmux \/ ResumeTask \/ RetryFresh \/ TickSubStatus

Next ==
    /\ UNCHANGED setting
    /\ SessionStep \/ Deliver \/ BoardStep \/ WindowDies \/ TimePasses

Spec == Init /\ [][Next]_vars

\* The store applies what the board stamped, a subagent ends, the board ticks.
FairSpec ==
    /\ Spec
    /\ WF_activityVars(Deliver)
    /\ \A sub \in Sub : WF_activityVars(StopSubagent(sub))
    /\ WF_activityVars(TickSubStatus) /\ WF_activityVars(WindowGone)

-----------------------------------------------------------------------------
(* Properties.                                                               *)

\* The stored count is the number of rows, whatever order the hooks are written
\* in and whatever the board does between (sync_subagent_count): a count that
\* drifts from its rows would hold a stop back for ever or let it through.
LiveCountIsTheRows == agent.live = Cardinality(entries)

\* The rows counted are all of one session and of the current agent: rows of a
\* dead session or an ended agent would hold the next turn's stop back
\* (fence_subagent_session, end_current_agent).
RowsAreOfOneSession == \A d, e \in entries : d.sid = e.sid
RowsAreOfTheCurrentAgent == \A e \in entries : e.owner = agent.id

\* A deferred stop always has a subagent left that will drain it: no write
\* commits the stranded state (agent-health.allium, HookSubagentStop).
NoStrandedStop == task.status = "running" /\ agent.pending => agent.live > 0

\* A deferred stop belongs to a running task: once the task has left the turn no
\* later drain may move it (core.allium, PendingStopOnlyWhileRunning).
PendingStopOnlyWhileRunning == agent.pending => task.status = "running"

\* When the writes keep up with the session, the row says what the session does:
\* a turn under way is running, and a turn that is over with all its subagents
\* is in review (try_record_stop, record_user_prompt_submit, the drain).
Settled == inflight = {} /\ session # NoSession
WorkIsRunning ==
    Settled /\ (session.turn = "busy" \/ (session.turn = "ended" /\ session.subs # {}))
        => task.status = "running"
TurnOverIsInReview ==
    Settled /\ session.turn = "ended" /\ session.subs = {} => task.status # "running"

\* Without a window and without a session no stop is still deferred: crash, detach
\* and retry all settle it, or no drain would ever come.
NoStopWithoutASession ==
    inflight = {} /\ session = NoSession /\ ~agent.window => ~agent.pending

\* Whatever order the hooks of an agent are written in and whatever the board
\* does between, the store counts the subagents of the current agent's session,
\* and a stop it put off is one some subagent still ends. When the writes keep up
\* and only the window comes and goes, the row says what the session does.
KeepsUp == InOrder /\ ~Lossy /\ Acts \subseteq {"crash", "detach", "resume"}

HooksAgree ==
    /\ TypeOK
    /\ LiveCountIsTheRows /\ RowsAreOfOneSession /\ RowsAreOfTheCurrentAgent
    /\ NoStrandedStop /\ PendingStopOnlyWhileRunning
    /\ KeepsUp => WorkIsRunning /\ TurnOverIsInReview /\ NoStopWithoutASession

\* A block the session reported is shown: a late tool write or a tick may hide it
\* for a moment, and the next tick brings it back (classify_agent_activity).
Blocked ==
    /\ task.status = "running" /\ agent.window
    /\ task.sub \notin {"crashed", "conflict"}
    /\ agent.noteAt # Never /\ agent.noteAt > agent.toolAt
BlockIsShown == Blocked ~> (task.sub = "needs_input" \/ ~Blocked)

\* A turn that ended reaches review: the deferred stop is applied once the
\* subagents are done, unless a person, a crash or a new prompt comes first.
TurnEnded(sid) == session.id = sid /\ session.turn = "ended"
TurnEndIsApplied ==
    \A sid \in 1..MaxSessions :
        (TurnEnded(sid) /\ task.status = "running")
            ~> ~(TurnEnded(sid) /\ task.status = "running")
=============================================================================
