# Dispatch: models, checks and proofs

Dispatch runs coding agents for the tasks on a shared board. Several people, each
with a board process on their own machine, share one store. A task gets one
agent, on one machine, in one worktree and one tmux window; feeds fill epics with
tasks; pull requests close them; epics roll up; people see what their workspaces
let them see. Every board acts on rows it was sent a while ago, runs git, tmux and
gh beside its event loop, and may crash, be late or lose an answer at any step.

This directory models the store's reducers and the boards' protocols around them,
checks the models with TLC, and proves the main guarantees of the request
protocols with TLAPS. Paths below are relative to the repository root.

## 1. The system

### Components

| Component | Where | State it keeps | Operations | Module |
|---|---|---|---|---|
| Dispatch requests | `spacetime/module/src/dispatch_request.rs`, `request_retention.rs` | `dispatch_requests` rows, one-shot timers | request, claim, report, fail interrupted, expire, prune | `DispatchRequests` |
| Tasks, schedules, agents | `tasks_epics.rs`, `rules.rs`, `schedule.rs`, `agent.rs` | task and agent rows, `next_due`, phoenix | create, patch, delete, close, arm and cancel runs | `TaskRules`, `DispatchRequests` |
| Dispatch host | `src/runtime/dispatch_host.rs`, `src/service/tasks/dispatch.rs`, `src/dispatch/worktree.rs`, `src/tmux.rs` | one serving attempt per row, worktrees, windows | observe, serve, provision, roll back, sweep after a restart | `DispatchHost` |
| Session requests | `session_request.rs` | `session_requests` rows, timers, exit tokens | wrap up, exit, close, claim, report, expire | `SessionRequests` |
| Session host | `src/runtime/session_host.rs`, `src/service/tasks/session.rs` | rows handed out, rows seen open, kills under way | start, settle, serve, kill what failed rows owe | `SessionHost` |
| Wrap-up rebase | `src/dispatch/finish.rs` | the primary checkout, task branches and worktrees | check, pull, rebase, fast-forward, abort | `FinishTask` |
| Agent activity | `agent_state.rs`, `src/hooks/mod.rs`, `src/service/tasks/crud.rs` | subagents, deferred stop, block, activity stamps | the hooks of a session, the board's tick | `AgentActivity` |
| Board tasks | `src/tui/update/{lifecycle,retry,navigation,agent}.rs`, `src/runtime/tasks.rs` | a copy of each row, jobs beside the loop, messages | move, reorder, resume, retry, delete, window checks | `BoardTasks` |
| Pull-request polling | `pr_status.rs`, `src/runtime/pr.rs`, `src/tui/update/pr.rs` | poll owner, failure counts, reads under way | claim, read, report, give up, kill the window | `PrPolling` |
| Feeds | `feed.rs`, `feed_ingest.rs`, `feed_request.rs`, `grouping.rs`, `src/feed/` | feed tasks, retired items, request rows, cycles | poll, ingest, refresh, tear down, group | `FeedRequests`, `FeedIngest` |
| Epic tree | `tasks_epics.rs`, `rules.rs`, `grouping.rs`, `support.rs` | epics with parents and statuses | create, re-parent, place, group, move, delete, batch | `EpicTree` |
| Sight and workspaces | `visibility.rs`, `workspace.rs`, `config.rs`, `packages.rs`, `unseen.rs` | memberships, private rows, follows, claims, links, marks | every call that gives or takes sight | `Workspaces` |
| Row mirror | `src/sync/rows.rs`, `src/sync/sdk_connector/wiring.rs` | the rows a board holds and draws | callbacks of views, the pump | `ViewMirror` |
| Store connection | `src/sync/session.rs`, `connection.rs`, `sdk_connector/` | the session, sockets, identity and credential | connect, settle, subscribe, retry, drop | `StoreConnection` |
| Not modelled | `src/tui` (input, layout, rendering), `src/mcp`, `src/cli`, `src/setup`, `learning.rs`, `src/store_connection` | | see section 5 | |

### How they interact

**Dispatch.** A board, the MCP server, a schedule or an epic chain calls
`request_dispatch`. In one transaction the store moves the task to running (a
*bare claim*: running without a worktree), writes a request row aimed at a host,
arms the row's backstop, starts the agent row and rolls the epics up. The board on
that host sees the row, claims it, makes or reuses the worktree, checks the window
name and opens the window, starts the agent and reports; the store then gives the
task its worktree and host. Every failure, early end, restart or silence goes
through `fail_dispatch_request`.

**Ending a session.** A working agent ends with `wrap_up`. A rebase is a session
row the host serves (`finish_task`); other actions are written finished. The
finished row is the exit token. `exit_session` spends it and, in one transaction,
closes the task, respawns a phoenix, rolls the epics up, requests the next subtask
of an auto-dispatching epic and leaves a teardown row, for which the host kills
the window. Every session row has its own backstop.

**Working.** The hooks of the session reach the board on the agent's machine, which
stamps each on receipt and writes it to the store. The store counts subagents and
turns stops into a move to review, at once or when the last subagent ends. The
board's tick classifies the agent from the row and looks for its window.

**Acting.** A key press changes the board's copy first, then persists the fields
it means, then starts git or tmux beside the event loop, whose answer comes back as
a message that names the task and nothing else.

**Polling.** One host owns the poll of each scope (a feed's epic, a task without a
host). Its board reads upstream, the store reconciles, and whatever the removed
tasks leave on disk is torn down by the cycle or, on another host, by a request row.

**Reading.** A board holds rows of several views over one connection; the client
runs one callback for each insert and delete of a transaction, in no promised
order, and a pump draws when the rows say they moved.

A reducer is one transaction, so the store never interleaves inside one.
Everything else does: the calls of all boards between the steps of a job, the
scheduled reducers, the clock, and the jobs of one board among themselves.

### What is hard here

- Two requests for one task; one request served twice; a report against the backstop.
- A rollback, a teardown or a kill against a new attempt on the same task, hence the
  same worktree path and window name.
- A crash between any two of: worktree, window, agent, report. Disk and tmux outlive
  the process; a row's timer, claim, agent and schedule must end together.
- An exit token of an earlier round against a newer one, a newer dispatch, the exit
  that spent it, and a retention that deletes the rows that say so.
- Hooks written in another order than they happened; a stop that waits for subagents.
- A whole row persisted from a copy that is behind; an answer to a question about a
  row that has changed since.
- A poll that changes hands in the middle of a cycle; an emission that omits what is
  still open; a strategy switched between two emissions.
- Roll-ups along chains that change in the same transaction.
- Sight that is derived, and taken away by any of a dozen calls.
- Callbacks in any order; a connection that dies while another comes up.

`PROJECT.json` lists each hazard at its line with the properties that watch it.

### What makes each component correct

- *Requests and sessions*: one open row per task, a timer exactly while open, ended
  once and eventually, no claim left; a token spent once, never revived, never lost.
- *Host*: work only under an accepted claim; a failed attempt leaves nothing; a
  dispatched row keeps window and worktree; every attempt ends.
- *Activity*: the count of subagents is that of the session; a deferred stop is one
  some subagent still ends; an ended turn leaves running.
- *Board*: no write takes a worktree, window or agent from a row but where it means
  to; no row goes while its worktree stands; a lost window is noticed.
- *Polling and feeds*: one server per row, leftovers owed exactly once, open items
  kept; one task per item under every strategy; a pull request's end reaches the task.
- *Wrap-ups*: what is reported done has landed; git is left as it was found; all land.
- *Trees*: a forest of bounded depth, each epic done exactly with its children, no
  unfinished work deleted.
- *Sight*: claims, follows, links and marks keep to what their person or package may
  see; private work is exposed and deleted by its holder.
- *Mirror and connection*: what is held is what is served, what is drawn is what is
  held; rows of one's own, over one connection, which comes back.

## 2. The modules

| Module | Models | Checked through |
|---|---|---|
| `TaskRules` | the pure rules over one task, agent or epic row; the two request modules are built from these | |
| `DispatchRequests` | the store's dispatch side: one action per reducer, the scheduled reducer, the clock | `MCDispatchRequests`, `MCChains` |
| `DispatchLease` | the abstract promise: a request is an exclusive lease on a task, granted once, ended once | `LeaseIsRespected` |
| `DispatchHost` | the boards: one attempt per row, each call a step; crash and recovery. Extends the store, so the two are one next-state relation | `MCDispatchHost` |
| `SessionRequests` | the store with `session_requests` and the retention the code has. Extends `DispatchRequests`; replaces the actions that touch session rows by the ones that do | `MCSessionRequests`, `MCChains` |
| `SessionHost`, `FinishTask` | the board that closes sessions; the rebase it runs for a wrap-up | `MCHosts` |
| `FeedRequests` | the polling of a feed, its refresh and teardown rows, and the boards that serve them | `MCHosts` |
| `FeedIngest`, `FeedMirror` | how the store reconciles a feed, and the abstract promise it implements | `MCStoreRows` |
| `EpicTree` | the tree of epics and its roll-up | `MCStoreRows` |
| `AgentActivity`, `BoardTasks`, `PrPolling`, `ViewMirror` | what follows one task from the boards | `MCBoards` |
| `StoreConnection` | the session and its sockets | `MCHosts` |
| `Workspaces` | sight and what hangs on it | `MCWorkspaces` |
| `DispatchRequests_proofs`, `DispatchHost_proofs`, `SessionRequests_proofs`, `Hosts_proofs` (`FinishTask`, `StoreConnection`, `FeedRequests`), `Boards_proofs` (`BoardTasks`, `PrPolling`, `ViewMirror`, `AgentActivity`), `FeedIngest_proofs`, `EpicTree_proofs`, `Workspaces_proofs` | theorems | |

The MC modules of the later components hold many small instances of a module each:
constants that make one question's case happen. They take the module with
`INSTANCE ... WITH` once per instance, or, where a `_proofs` module proves what the run
checks, extend it: `DispatchHost`, `AgentActivity`, `BoardTasks`, `PrPolling`, `ViewMirror`,
`FeedRequests`, `FeedIngest` and `EpicTree` then read what an instance is from a variable (`setting`,
`boardSetting`, `prSetting`, `viewSetting`, `treeSetting`), which the start draws from a constant set and no step changes
(`Workspaces` from `ops`, with the store it starts from in `Starts`), so a
theorem over all settings is one over every instance. A behaviour belongs to one instance, chosen
at its start; variables of other components rest. So one run answers one question
over several configurations, and its state count is the sum of theirs. `Ops` (or
`ops`, `calls`, `acts`, `hooks`, `faults`) of an instance names which calls of people and which
faults happen in it.

### Store: state and actions

| Variable | Code |
|---|---|
| `hosts` | the `hosts` table: no row, a legacy row without owner, an owned row |
| `task` | the `tasks` table, with the fields some rule reads; `due` is `next_due` read against the clock (none, ahead, due) |
| `agent` | the current agent of each task |
| `epic` | the status of each epic |
| `request` | `dispatch_requests`; `age` counts ticks since `requested_at` while open, since `finished_at` after |
| `timers` | the request ids that hold a row in the timeout table |
| `nextRequest` | the generated id |

| Action | Reducer |
|---|---|
| `RegisterHost` | `register_host` |
| `RequestDispatch` | `request_dispatch`, through `create_dispatch_request`, with any set of prunable rows removed |
| `ClaimDispatchRequest`, `ReportDispatchProvisioned`, `ReportDispatchFailed` | the same names |
| `FailInterruptedDispatchRequests` | the sweep of a restarted host |
| `ExpireDispatchRequest` | the scheduled backstop |
| `CreateTask`, `PatchTask`, `DeleteTask` | `create_task`, `patch_task`, `delete_task` with its side effects |
| `CloseTask` | `close_task`: open requests failed, done written, a phoenix respawned |
| `Tick`, `DueTimePasses` | time |

A refused call writes nothing and is no step. A patch is a member of the constant
`Patches`: the shapes boards send (a move, a release of the worktree, a persist
from a stale local copy, a schedule or phoenix toggle). Each field of a patch is named
or left out on its own, so a stale copy may carry a host without a worktree, which is what
a board holds after a teardown's answer; the store does not keep the two in step.

### Host: state and actions

`board` says whether a host's process has run its restart sweep. `attempt` gives
each row the place of its serving task in `serve_dispatch_request`; the places
are the awaits, so a step is what the code does between two of them. `trees` and
`windows` are the disk and tmux of each host, which survive a crash. A window
remembers who opened it, which the code cannot tell and the properties need.

`Observe`, `ClaimAccepted`, `ClaimRefused` and `ClaimNotSent` take a row in hand.
`Measure`, `ReuseWorktree`, `AddWorktree`, `CheckName`, `OpenWindow`, `Launch`
provision it, and each has its failure. `ReportAccepted`, `ReportRefused` and
`ReportUnanswered` are the report with its single repeat. `KillWindow`,
`RemoveWorktree` and `ReportFailure` are the teardown, `GiveUp` the deadline
before provisioning starts. `Crash` loses the serving tasks; `Recover` sweeps.

`Faults`, a field of the behaviour's `setting`, chooses what may go wrong:
`"crash"`; `"killed"` (a subprocess killed at the deadline, whose effect may or may not have happened); `"lost"` (an answer or
a call that never arrives); `"teardown"` (a teardown step that fails).

`Prompt`, the other field, states the assumption the documentation makes of a live host
(`docs/specs/store-split.allium`, `DispatchRequestTimesOut`: its stop and
rollback land within the grace), and that a user who closes and reopens a task
does not ask for it again before the first attempt has stopped. Runs say which
of the two worlds they check; the properties that need `Prompt` are the ones
about one attempt disturbing another's worktree; section 6, item 4, is what happens
without.

### Session rows: state and actions

`session` is `session_requests`; a row's `age` counts as a dispatch row's does,
`token` is the wrap-up an exit names. The code compares stamps of the two tables
in two places; the model keeps what those comparisons tell apart: the
dispatched requests that finished after the row was requested
(`sinceRequested`) and after it finished (`sinceFinished`). `sessionTimers` and
`nextSession` are as for dispatch rows.

| Action | Reducer |
|---|---|
| `RequestWrapUp` | `wrap_up`, with the rows both prunings delete |
| `ClaimSessionRequest`, `ReportSessionRequestDone`, `ReportSessionRequestFailed` | the same names |
| `FailInterruptedSessionRequests` | the sweep of a restarted host |
| `RequestExitSession` | `exit_session`: close, respawn, roll-up, prune, chain, teardown row |
| `CloseTaskSession`, `PatchTaskSession`, `DeleteTaskSession` | `close_task`, `patch_task` and `update_task`, `delete_task`, each with its session half |
| `RequestDispatchSession` | `request_dispatch` with exactly the rows retention deletes |
| `ReportDispatchSession` | the dispatch report, which voids the task's tokens |
| `ExpireSessionRequest`, `SessionTick` | the scheduled backstop, time for both tables |

### Agent activity

`task` and `agent` are the rows with the fields some rule reads; `entries` is
`task_subagents`; `session` is the Claude Code session as it really is, which the
store never sees; `inflight` holds the events a board has stamped with `clock` and
not yet written. `SessionStep` has the hooks fire (a prompt, a stop, a subagent's
start and end, a tool call, a notification, a clear); each may find no board
(`Lossy`). `Deliver` applies one event: `try_record_stop`,
`record_user_prompt_submit`, `record_subagent_start/stop`, `clear_subagents`,
notification and tool activity, the last in two halves because the board classifies
from a snapshot it read before. `BoardStep` is what people and the board do
besides: a move, a close, a retry, a resume, `TickSubStatus`, `WindowGone`.
`InOrder` restricts an instance to the ordinary case, in which each event's write
lands before the next event fires.

### Board tasks

`row` is the store's row with its current agent, `copy` each board's copy of it,
`inWindow` and `disk` what is really in each machine's window and worktree. `check`,
`kill`, `resume` and `cleanup` are jobs beside the loop, `inbox` the messages they
send. `KeyPress` is a move forward or backward, done, reorder, resume, either retry,
delete and dispatch, each with the fields its code persists (`Written`).
`TickWindowCheck`, `WindowChecked`, `WindowKilled`, `ResumeRuns` and `CleanupEnds`
are the jobs; `HandleMessage` applies the oldest message; `RefreshCopy` reads the row.
`Launch` stands for the host's whole service of a request, `Reopen` for another
writer. A worktree's teardown is bounded to one per board at a time.

### Pull-request polling

One task in review, its `url`, the boards that may read it, and what GitHub holds
(`pr`, `readable`). `poll` is the read a board has under way, which goes through the
owner check, the claim, the read, a look at the window and the report (`PollStep`);
`HandleAnswer` takes the answer in (`failures`, giving up, the follow-up kill), `RunJob`
does what handling started, `See` refreshes the copy. `Outside` is people, GitHub
and agents, until `OutsideEnds`; a loss of a call is counted in `losses`.

### Feeds

`FeedRequests`: one feed epic, the hosts of one person. `pollOwner` is the claim,
`feed` what is true upstream, `tasks` the feed's rows with the host that holds each,
`disk` the worktrees. `requests` are refresh and teardown rows; an `age` is the time
since the row entered its state, which is the one stamp its rules compare. A board
has `served` ids, `jobs`, and one `cycle` with its stages (claimed, read, ingested, then
the teardown). An item closes and opens again up to `openings` times. It has one row at most, and
each row is a task of its own: a task is the item and the number of its rows that were removed
before (`TaskOf`, `removals`). `steady` is a history variable: the rows whose item has been open
ever since a reconcile reported it. Actions: `ClaimPollOwner`, `OverridePollOwner`, `RequestFeedRefresh`,
`StartCycle`, `Cycle`, `FailCycle`, `PickUp`, `Serve`, `Dispatch`, `Die`, `Restart`,
and items opening and closing upstream.

`FeedIngest`: an epic is named by its path (the feed, a role, a repository). One
action per reducer: `IngestFeed` with any emission, trusted or additive and under any
of the three strategies, `ToggleGroupByRepo`, `RegroupEpic`, `FlattenEpic`,
`SetTaskEpic`, `DeleteTask`, `DeleteEpic`, `FinishTask`, `CreateManualTask`. `source`
is a history variable: the last trusted emission; `setting`, which never changes, says
whether the feed is a reviews parent and what people and its source do. A reducer is a
function of the `Store` it found, made of the functions the reducers share (`Relinked`,
`UpsertFeedTasks`, `WithoutStale`, `Flattened`); rows inserted in one transaction get
the next ids in any order. `FeedMirror` is the abstract promise over items alone; the
mapping takes `shown` to the items with a task in the subtree. That it is implemented
across a change of strategy is `MirrorsTheFeed`. Its premise, and that of the other two
properties, is `OnePlace`: no task leaves the subtree, and no flat feed is grouped while
its source is degraded; what happens otherwise are items 25 and 26 of section 6.

### Epic tree

`store` holds epic and task rows; each reducer is a function from the rows to the
rows it leaves, built from the functions the reducers share (`RecalculateEpicChain`
up a chain, `RouteToRepoGroup` for a new row, `PatchedEpic`, the recursive
delete). Actions: `CreateEpic`, `CreateTask`, `SetEpicStatus`, `SetEpicParent`,
`SetGroupByRepo`, `RegroupEpic`, `FlattenEpic`, `SetTaskEpic`, `PatchTaskRow`,
`UpdateTaskRow`, `DeleteTask`, `DeleteEpic`, `BatchDelete`.

### Wrap-up rebase and session host

`FinishTask`: a branch is the set of its commits, so "is an ancestor of" is
inclusion. `tip`, `head` and `merge` are the primary checkout; `step` says which git
command the host is at for each task. `HostStep` runs one git command, with its
failure, its conflict and its kill at the deadline; `Resolve` is the agent,
`PersonStep` people in the same checkout and teammates at the origin, `Crash` the
board. The row's claim and report are those of `SessionRequests`.

`SessionHost`: a session has at most one row that closes it, so the row carries the
session's number; a window is named by its task. `board` and `settled` say how far
the board has started and whether it knows who it is; `served`, `openExits`, `job`,
`kills` and `mine` are what the reactor remembers. `leftBehind` is a history variable: the failed
rows whose one kill failed too, which the code logs and nobody tries again. Actions: `StartStep` (the sweep
and the first look in order), `IdentitySettles`, `ServeRows`, `ServeOne` (claim, kill,
report, each with a lost answer), `TearDownFailed`, `Crash`; around it `Dispatch`,
`AgentLeaves`, `CloseSession`, `CloseAgain`, `DeadlinePasses`, `Backstop`.

### Row mirror and connection

`ViewMirror`: one task row served by two views and its agents served by one. A
transaction changes the client's `cache` at once and leaves `pending` callbacks,
which run in any order (`Callback`); `heldTask`, `mark`, `heldAgents` and `current` are what
the board holds, `unseen` the generation counter the pump (`Wake`, `Read`) waits on,
`drawn` the screen. A row may stop decoding (`Spoilt`).

`StoreConnection`: `pc` walks an attempt through opening, the store's acceptance,
the comparison of identities, the subscription; `slot` is the connection the
connector holds, `thread` what each socket's thread still does, `rows` the
connections whose rows are held, `dropped` the end that was reported. Four starts:
with or without a stored identity and a credential. `ReportEnd` and `Deliver` are the
threads.

### Sight and workspaces

`store` holds the people, workspaces, memberships, epics, tasks, packages and what
hangs on sight: follows, unseen marks, bookmarks, links, poll claims. Each reducer is
a guard on the caller and a function to the rows it leaves; `ReleaseClaimsWithoutSight`
is the shared tail. A poll is claimed, or taken over, by any call the reducer accepts: of an epic the
caller sees, whose command nobody else set (`MayClaimEpic`). What the caller's board lists is
asked by the board alone, earlier, and is not modelled. The code walks from an epic to its root; `Line` is what the walk meets,
the least set with the epic and, with an epic, its parent, so nothing is assumed of
the depth of a tree. `ops` names the calls of a behaviour, which starts from any store that is
`Sound` for them: what its calls can have left (`StartsAssumption`). `taker` is a history variable: who took private work from its
holder in the last call. One host per person.

## 3. The runs

| Run | Instances | Asks |
|---|---|---|
| `two_hosts` | 1 task, 2 hosts, 2 users, 2 requests, all patches | Can two owners who race to request, claim, report, close, patch and delete leave the rows in disagreement? |
| `sessions` | 1 task, 1 host, 2 dispatches, 3 session rows, moves and a resume | Can an exit token be spent twice, revived, or lost without a rule? |
| `chains` | `chain`: 2 subtasks of an auto-dispatching epic with a parent, 2 requests, 2 session rows; `schedules`: the same tasks with schedules and successors, 1 request, three origins | Do epics and pending runs stay in step with the tasks, and does every request end under the backstop alone? |
| `host` | `faults`: 1 host, every fault; `rollback`: 2 hosts that keep their deadlines; `restart`: 2 hosts that crash; 2 requests each | What may a board do under a request, and what is left when it fails? |
| `boards` | 4 activity, 6 board, 3 polling, 2 mirror instances | Do the rows, the boards and what they show agree, whatever order things arrive in? |
| `boards_live` | 7 instances | Is what must be shown eventually shown? |
| `hosts` | 4 feed instances, two wrap-ups, two sessions, a connection with 6 faults | Do boards that fail and restart leave work to somebody, once, and git clean? |
| `hosts_live` | 5 instances | Does what they began end? |
| `store_rows` | 5 trees, 4 feeds | Do trees stay whole, and does every ingest implement the mirror? |
| `workspaces` | 9 instances | Does everything follow sight? |
| `token_of_old_session`, `late_teardown` | smallest instance each | disagreements 2 and 13 of section 6 |

### The composite properties

A property of a composite run is a conjunction of definitions of its component's module, each
with its own statement. It is stated in that module, with the settings each conjunct holds of as a
premise, where a theorem proves it; otherwise in the MC module, which says of which instance.

| Property | Says |
|---|---|
| `HooksAgree` | The count of live subagents is the rows', the rows are those of one session and of the current agent; a deferred stop is one a subagent still ends and only while running. When writes keep their order, a session at work is running and one at rest is in review. |
| `RowsKeepTheirAgents` | Boards on stale copies: without a fresh retry, host and worktree are in step and a window holds the row's agent, where the row says; a worktree or window leaves a row only by a release or a teardown's answer. Where one board works on the task, and nothing is dispatched or retried afresh, no delete forgets a worktree, and without deletes an agent marked crashed is dead. |
| `GiveUpsAreShown` | One board gives a pull request up; where nobody moves the task on and no call is lost, it says so. |
| `BoardsShowWhatIs` | Held rows are served rows; no callback removes a row some view serves; the current agent is indexed; what is drawn is what is held. |
| `TurnsAreShown`, `WindowLossIsNoticed`, `PullRequestsAreFollowed`, `TheBoardCatchesUp` | The ended turn, the reported block, the lost window, the state of the pull request, the latest row come to be shown. |
| `LeftoversAreOwed` | Each worktree of a removed feed task is owed by exactly one cycle or row; one server per row. |
| `WrapUpsAreClean`, `WrapUpsLand` | Reported means landed; git is left without merge or rebase of the host's; all work lands. |
| `ConnectionsAreHonest`, `BoardComesBack` | Own rows only, one open connection, connected means subscribed with current rows; back for good when failures stop. |
| `OpenItemsStay` | No reconcile removes a task whose item has stayed open since a reconcile last reported it: with one board per host and the poll handed over at most once. |
| `TeardownsEnd` | A requested teardown is served; the window of a session seen closing is killed, unless the one further attempt its failed row gets fails too; no sweep fails a row the sweeping process claimed. |
| `TreesStayWhole`, `TreesKeepWork` | The epics are a forest and every task has its place; where the roll-up reaches, each epic is done exactly with its children; unfinished work is not deleted, a person's placement stays. |
| `OneTaskPerItem`, `FeedRowsStay`, `MirrorsTheFeed` | One feed task per item; a task is moved and not replaced; the refinement of `FeedMirror`. |
| `ClaimsFollowSight`, `NothingPointsAcross`, `HoldersDecide` | Poll claims of those who lost sight are released, and a feed with a command is claimed for its setter alone; follows, marks, links and sub-epics stay in one workspace; private work is exposed and deleted by its holder, and a super-admin remains. |
| `FailuresLeaveNoTrace` | One attempt provisions a task; a live window belongs to a dispatched row; a dispatched row keeps window and worktree; a failed attempt leaves neither. |

### Bounds, and why they are enough

- `MaxRequests` is two: a race between requests needs two on one task; a third
  repeats the second against a terminal row. `MaxSessions` is three in `sessions`: a
  wrap-up, the exit that spends it or the wrap-up that supersedes it, and the request
  whose pruning could delete either; two dispatches let the second void a token of
  the first. In `chains` a wrap-up and its exit suffice.
- One task where actors race for it; two where one must not disturb the other. The
  epic of `chains` has a parent, so the roll-up takes both its steps.
- `Deadline`, `Grace` and `Retention` are one tick: comparisons are only before the
  deadline, between it and the backstop, and past the backstop. A feed row's
  cutoffs are zero ticks, so it is before them or, from the next tick on, past them.
  Proofs hold for any positive values. Ages stop at the last value
  a rule tells apart.
- Two events in flight (`AgentActivity`) let any two overtake each other; a third
  could only be overtaken by both. Two subagents let one end while the other holds a
  stop back. Agents and sessions are two, so a row of the first may meet the second.
- Two boards give one stale copy and one writer; a third board's copy is as stale as
  the second's. Two agents let an answer about the first meet the second.
- `EpicTree` has up to four epics at a depth limit of two or three: a cycle needs two, a
  subtree moved past the limit three, a chain with a sibling four. `MaxAncestorWalk`
  is three, so its end is reached. The roll-up reaches (`RollUpReaches`) in `rollUp`,
  `groups` and `updates`; `shape` is deeper than it and `reborn` has phoenix tasks, so of these
  two the run says that they are forests and lose no work. The proofs hold for any setting.
- Feeds have two items, two roles' worth of sub-epics and up to six tasks ever made:
  one item per repository, so that a move, a delete and a return of one meet the other.
  In `FeedRequests` the instance `cycles` lets an item open twice, so it closes and opens again
  beside the cycles of two hosts; in `degraded` two items open once each, or one twice. The proofs hold for any number.
- Two wrap-ups in one checkout compete; a third would wait like the second. With two
  tasks, deadlines are in the safety instance only: with them two tasks may time each
  other out for ever, and nothing in the code prevents it.
- Six failures bring a connection through every point of failure twice over, and three
  connections let the end of the first be reported while the third comes up.
- `Workspaces` has two people (the one who acts and the one who loses sight), two
  workspaces, a pair of epics nested or beside each other. The starts are the store
  after migration, or after it ann's and bob's ordinary calls. The proofs have no bounds.
- `Threshold` (failures before a board gives up) is one to three; the code's is three.
- Symmetry is between hosts, users, boards, subagents, items, tasks and connections
  where they are interchangeable, and only in runs without liveness.
- `CHECK_DEADLOCK FALSE`: with rows, tasks and faults used up an instance really has
  nothing left to do; liveness properties find one that stops too early.

### Fairness

- `DispatchRequests`, `SessionRequests`: the clock ticks and the scheduler runs a due
  timer row. Nothing of any host: that is the point of the backstop.
- `DispatchHost`: a serving task of a board that stays up takes its next step
  (`serve_one` is spawned, and its calls have time-outs). Not that a call succeeds, nor
  that a crash does not come.
- `AgentActivity`: a stamped event is written or dropped, a subagent ends, the board
  ticks. `BoardTasks`, `PrPolling`: a board's loop ticks, handles its messages,
  refreshes, and its jobs end; `PrPolling` also that an agent stops in the end.
- `FeedRequests`: time passes, boards pick up, serve, finish cycles and are started
  again. `SessionHost`: the same, with the store's timer.
- `FinishTask`: the host works through its commands, an agent asks again; strong
  fairness for resolving a conflict, since the next wrap-up may disable it for a while.
- `ViewMirror`: callbacks run, the pump wakes and reads. `StoreConnection`: the session
  steps, a thread reports its end and delivers.

People, GitHub, the network and whatever fails owe nothing anywhere: `quiet` in a
liveness property is a premise, not an assumption of the specification.

### Faulty definitions

The modules keep, beside some definitions, a second one marked *Faulty*: the
definition with a bug someone could plausibly write (a dropped guard, a claim not
released, a sweep left out). They are no part of any specification. Each checked
property is violated when one of them takes its definition's place, which shows that
the property watches that piece of code; `PROJECT.json` lists the pairs.

## 4. What is proved

All theorems hold for any sets of tasks, hosts, users, epics, worktrees and windows,
any positive timings, any set of patches, any
set of wrap-up actions and any epics that dispatch their next subtask; those of the other
components for any number of subagents, sessions, tasks, commits, connections, feed items, boards, pull requests, agents, people,
workspaces and epics in trees of any shape, and any set of the faults, calls and outside events of their modules.
The assumptions are the named `ASSUME`s of the modules.

| Theorem | Statement |
|---|---|
| `TypeCorrect` | the store's variables keep their types |
| `OneOpenRequest`, `EveryOpenRequestHasItsTimer`, `RequestsNameTheirHostsOwners` | one open request per task; timers exactly on open rows; a request's user owns its host |
| `RequestRowsStayInAgreement` | the three together: `RequestRowsAgree` of the run `two_hosts` |
| `OwnerIsWrittenOnce` | a written owner never changes |
| `FailuresSpareWhatMovedOn` | a launch that fails, however it does, takes nothing but its own bare claim: a task that moved on keeps its status, worktree, host and agent |
| `ClaimsEndWithTheirRequests` | no step that ends a request leaves a bare claim |
| `PendingRunsWait`, `PendingRunsWaitUnderSessions` | a scheduled launch not taken yet belongs to a task still waiting for it; without and with sessions |
| `OpenLaunchesOwnTheirAgents`, `OpenLaunchesOwnTheirAgentsUnderSessions` | while a launch is open, the current agent of its task is its own |
| `EpicsStayRolledUp`, `EpicsStayRolledUpUnderSessions` | an epic is done exactly when its children are |
| `LeaseIsImplemented` | the store implements `DispatchLease` |
| `HostTypeCorrect` | the host's variables keep their types |
| `HostImplementsStore` | hosts with the store implement the store's specification |
| `OnlyClaimedRowsAreProvisioned` | work happens only under a row no longer open to other claims |
| `RestartedBoardsServe` | without lost calls, what a running board's host has claimed is being worked on, whatever crashed before |
| `FailuresAreUndone` | without faults around prompt boards, a failed dispatch leaves nothing and a rollback takes nothing of another attempt |
| `LeaseSurvivesSessions` | the store with sessions implements `DispatchLease` too |
| `SessionTypeCorrect` | the session variables keep their types |
| `OneOpenSession`, `EveryOpenSessionHasItsTimer`, `TokensAreConsumedOnce` | one open session request per task; timers exactly on open rows; two exits never name one token |
| `SessionRowsStayInAgreement` | the three together: `SessionRowsAgree` of the run `sessions` |
| `SpentTokensStaySpent` | a token that is spent, superseded or voided stays so, whatever retention deletes |
| `TokensEndOnlyByARule` | a live token ends by an exit, a newer wrap-up, a dispatch or the deletion of its task |
| `ClaimsEndUnderSessions` | no step of a request or a session leaves a bare claim |
| `WrapUpsEndClean` | reported means landed, and what git is left in the middle of is about to be aborted |
| `BaseOnlyGrows` | no wrap-up takes a commit off the base branch |
| `BoardsConnectHonestly` | a board asks only as itself, over one open connection, and shows that one's rows |
| `OneServer` | no request row of a feed is served by two boards at once |
| `LeftoversHaveOnePath` | what a removed feed task leaves on disk is owed by exactly one cycle or row, until it is gone |
| `ReconcilesKeepOpenItems` | no reconcile removes a task whose item has stayed open since a reconcile last reported it |
| `BoardsLeaveRowsTheirAgents` | whatever old copies boards write over a row, it keeps the agent and the machine of its worktree, and loses a pointer only to a step that means to release it |
| `OneBoardGivesUpAndSaysSo` | an unreadable pull request is given up by one board, for all, and that board says so |
| `BoardsShowWhatIsServed` | callbacks in any order leave the board with the rows that are served, and take none off on the way |
| `FeedsHaveOneTaskPerItem`, `FeedsMirrorTheirSource`, `ReconcilesMoveRows` | one feed task per item; the three strategies implement `FeedMirror`, across changes of strategy; tasks are moved and not replaced |
| `TreesAreWhole` | any reducers leave the epics a forest, and, where the roll-up reaches, each in agreement with its children |
| `WorkIsKept` | a task leaves the store only when it was done, whatever deletes, regroupings and batches reach; where the roll-up reaches and tasks stay in their epic, a status set by hand stays until the epic's children are done |
| `HooksStayInAgreement` | the count of live subagents is their rows', a stop put off is one a subagent still ends; where writes keep up, the row says what the session does |
| `StoresStaySound` | every call keeps a store sound: all that follows, for the store of `Workspaces` |
| `ClaimsFollow` | a host has the poll claim only of what its person sees, and runs the feeds that person set |
| `NothingCrosses` | sub-epics, follows, marks and links keep to the workspace of what they hang on |
| `HoldersDecideAlone` | private work is exposed, and deleted with what is above it, by its holder alone; the last super admin stays |
| `EmptyStoresAreSound` | an empty store is sound for any calls, so every behaviour from one is covered |

The argument:

1. *Types.* One lemma per reducer, and one for the operators that rewrite rows
   after a failure. Everything else cites `TypeCorrect`.
2. *The ledger.* `OneOpenDispatchRequestPerTask` and `TimerExactlyWhileOpen` are
   not inductive alone: a new row is written at the generated id, and nothing in
   either says that id is free. `LedgerInv` adds `IdsAreFresh` (no row at or past
   the next id) and `RowsAreFilled` (a row that exists names a task and a host).
   `EveryStepIsALedgerStep` shows that every action changes `request`, `timers`
   and `nextRequest` in one of a few ways; the invariant is then proved for those
   ways and not for each reducer.
3. *Ownership.* `RequestNamesItsHostsOwner` follows from the claim that a
   registered owner never changes and that a request is only written by the
   owner.
4. *Claims.* A request ends by a report, a failure or a delete. The report
   gives the task a worktree, the failure releases a bare claim
   (`TaskAfterFailedRequest`), the delete removes the row. What is no bare claim a failure leaves
   as it is but for the mark on its schedule (`FailureSparesTheRest`); a close has written done
   before it fails its rows, so they find no claim at all (`CloseSparesTheRest`).
5. *Lease.* Under the refinement mapping a row's phase is its state, or
   forgotten once pruned, and a task is held by its open requests. Each way of
   changing the ledger is a lease step or a stutter; `OneOpenRequest` is what
   makes a grant find the task free.
6. *Hosts.* A host's step changes the store by one of the store's own actions or
   not at all, so `HostSpec` implies `Spec` and every theorem above carries over.
   `OnlyTheClaimedRequestProvisions` then needs that an attempt in hand is of its
   row's task and host (`AttemptsFollowRows`) and that no store action returns a row to
   requested.

7. *The store under sessions.* Every session step is a store step, but for a
   wrap-up, which only prunes, and an exit, which closes and may open the next
   request (`StoreSteps`). Both keep `LedgerInv`, and a pruned row is a lease
   that had ended, so the lease is implemented here as well. This cannot be had
   by refinement of `Spec`: a wrap-up prunes without a request, an exit does two
   reducers' work at once.
8. *The session ledger.* As in 2, the reducers write `session`, `sessionTimers`
   and `nextSession` in a few ways (`SessionLedgerStep`). From them one lemma
   (`EveryLedgerStepMoves`) shows that every row stays where it was or goes, but
   for the one added. `SessionsInv` is inductive under that: the three
   invariants with `SessionIdsAreFresh` and `TokensArePast` (an exit names an
   earlier wrap-up of its own task).
9. *Tokens and retention.* A dead token could work again only if the row that
   killed it were deleted first. `TokensInv` excludes it. Superseded: of two finished wrap-ups the
   older id has the older age (`OlderTokensAreOlder`, which needs that an open row
   is the newest of its task), so retention takes the superseded one no later.
   Spent: retention keeps an exit while it keeps its token. Voided: what voids a
   token is a dispatched row of its task (`MarksAreDispatched`), which retention
   keeps for a token that is otherwise live and which a delete takes together
   with the token (`DispatchedRowsRest`).

10. *Ends of tokens.* Conversely a live token is never old enough for retention to take it
    (an exit or a dispatch would have ended it first), so what ends it is one of the rules'
    own rows; only the deletion of its task takes it otherwise.
11. *Waiting rows and launches.* A pending run is a fact about one task row; each rule over a
    row keeps it or resolves it (`RowRulesKeepWaiting`, `RespawnKeepsWaiting`). That an open
    launch owns its task's agent needs `OneOpenRequest`: a second launch would end the first
    one's agent. Under sessions, pruning takes only terminal rows, and an exit closes and
    opens in one step, so both carry over (`StoreSteps`).
12. *The roll-up.* `RollupRestores`: an epic with sub-epics has no parent (`SubEpicsAreLeaves`),
    so the first round settles the leaves and the second what is above them, after any change
    to any set of tasks; a step that changes no status or membership keeps every epic as it is
    (`UnmovedStaysRolledUp`).
13. *Restarts.* A row is claimed by the attempt at it and by nothing else (`OnlyAttemptsClaim`),
    and work ends with its report or with its board (`WorkEnds`); the sweep has failed every row
    of the host before the board is up.
14. *Rollbacks.* `FailuresLeaveNoTrace` does not say whose window a rollback would kill, nor
    whose worktree it would remove. `Traces` does: on a task works its one open request or
    an attempt none of whose task's requests is open; a window is that of the attempt that
    opened it, at the stages where it has one; a worktree was kept or is its attempt's to
    remove, and no attempt removes one that was kept; a row was dispatched exactly if its
    attempt was kept. Two that work under one name or path on a host are one
    (`NamesTellTasksApart`), which is what makes a rollback undo its own work.
15. *Wrap-ups* (`Hosts_proofs`). From its check to its fast-forward an attempt has the
    primary checkout on the base branch (`OnBase`, where nobody checks out another); what was
    fast-forwarded stays merged (`Merged`), since the branch only grows; a merge or a stopped
    rebase has the attempt that aborts it next (`AbortsAreDue`, without crashes and failing
    aborts); a reported task is not worked on (`DoneIsOver`).
16. *Connections* (`Hosts_proofs`). A connection let go may still deliver, so that
    rows are the board's own is a fact about every connection it ever asked: once anything was
    asked for, disk, credential and offer agree for good (`AskedAsItself`, from `OfferStands`).
    How far an attempt has come (`AttemptStands`) gives which connection is asked
    (`HeldIsAsked`), only that one's thread is open (`ThreadsServe`), and where the backoff
    outlasts the threads nothing old delivers into a new attempt (`OldThreadsAreOver`).
17. *Hooks* (`Boards_proofs`). In any order of writes, rows are the current agent's, of
    one session and of distinct subagents, so the count recomputed after each write is theirs,
    and a stop is put off only while it is positive and applied by the write that brings it to
    zero. Where writes keep up, `KeepingUp` says what the one event on its way will tell: the
    rows are the session's subagents but for the one whose start or end is on its way, and the
    row is running, or put off, or in review as the turn is, but for the prompt or stop on its
    way. A resume is the only sender of two events, and they commute.
18. *Lines* (`Workspaces_proofs`). That claims follow sight is not inductive over rows: one row
    changes and the sight of a whole subtree with it. A line is the least set closed under
    parents, so what is true of lines is shown by giving a closed set and no induction is needed:
    two epics of a line are above one another (`LinesAreChains`), a line that avoids the changed
    epic stays (`BesideTheChange`), one through it is its part below the epic and the epic's own
    new line (`LineThroughTheChange`). So the holder below a change is a private epic's in between,
    or the changed epic's (`HolderBelowTheChange`), and a move that the code's one check lets through
    makes no cycle (`ChangeMakesNoCycle`).
19. *Sound stores.* `Sound` adds what the properties rest on: no cycles, tasks in epics that are
    there, nothing on rows never made, and, while no epic is flipped or moved, that
    whoever made an epic private sees what is above it (`HoldersNest`), so that one private to
    somebody has nobody else's private epic below it, which a delete of unseen work rests on. Most calls leave trees alone, and `Frame` says once what then
    remains to be shown; a move to another workspace and a delete take whole subtrees
    (`SubtreesAreWhole`, `HolderOfTheSubtree`). Each part of `Sound` holds for the calls that keep
    it: section 6, items 29 and 31, has the others.
20. *Holders.* A call leaves the holder of everything that was not the caller's as it was
    (`LeavesOthersWork`): below a change of `private` or of a parent a holder is another's own private
    epic's, or the change is the holder's, because sight is asked before authority.
21. *Feeds* (`FeedRequests_proofs`). A row a board serves was claimed no longer than the grace
    ago, and time does not pass the grace under a serve, so nobody else may claim it (`Servers`).
    Before the first override only the owner's board polls (`PollersOwn`), and a poll is not handed
    back, so what it read is no older than the last reconcile, and the emission the store would accept
    has every item that was open ever since (`NothingIsMissing`): only its reader has added rows
    meanwhile, and a close takes an item out of `steady`. So what a reconcile removes was closed at some
    time since (`SteadyIsNotRemoved`). A worktree is of one row's task and no later row's: a task not
    yet dispatched has nothing on disk (`NewIsClean`), one whose row is held has its holder's worktree
    alone and nobody owes it (`HeldIsUnowed`), and what is there of a removed one is owed by one path
    (`LeftIsOwed`), so an item that comes back disturbs no teardown of its former life. Where two
    boards share a host, or a poll comes back, item 23 of section 6 is the result.
22. *Old copies* (`Boards_proofs`). That a row keeps its agent says nothing of the copies that are
    written over it. `EveryoneKnowsThePlace` does: without a fresh retry nobody clears a host
    (`NobodyClears`), so every copy, request, resume and session of a task that is there names the
    row's machine or none, and a write from any copy is of the row's own place. With one board,
    `DisksAreKnown` says the card knows of a worktree and what an answered teardown in the inbox left
    of it. That a crashed agent is dead needs the order of the inbox: a crash seen beside a live
    session is older than the resume that opened it, and the resume's answer, which clears the mark,
    is behind it in the inbox (`CrashesAreOlder`, and `OneAnswer`: no resume is answered twice).
23. *Polls* (`Boards_proofs`). Two boards may read at once, between a claim and its answer, so "the
    owner alone reads" is not invariant. `OthersReadOnce` is: without an owner nobody reads, and a
    board that does not own the poll has counted one failure at most, and none while its one read is
    under way. Where one board reads and nobody moves the task on, a copy that shows the task
    unreadable is not overtaken during a read (`GivingUpIsSaid`), so a board that counts to the
    threshold has a report to make exactly when the row does not say it yet.
24. *Views* (`Boards_proofs`). Between a transaction and its callbacks a board holds neither what was
    nor what is served, so `HeldIsServed` cannot be inductive. `ViewInv` says for each of the
    callbacks still to run what it will find and what it leaves, whichever of them ran before; with
    none left it is the property. The same for the agent index, which the callback of the old agent
    must not clear after that of the new one has set it.

25. *Reconciles* (`FeedIngest_proofs`). One task per item is not inductive: an upsert looks for an
    item's row in one epic, and a row elsewhere would not be found. `Settled` is: each item has one
    row, it is under the feed epic, and no item with a row is retired. A strategy keeps it because
    it brings the row to where the upsert looks before it looks: the flat one takes every group
    apart first (`FlatIngest`), the role-routed one moves the row it has indexed, which is the only
    one (`RoleIngest`), and the grouped one removes what it finds outside the group it has just
    filled (`GroupedIngest`), which is why it alone replaces rows. That a retired item has no row is what
    makes the two ways of dropping it agree: the upsert refuses items without a row in the epic, and
    routing items without one in the subtree. `UpsertedOnce` and `KeptRows`
    say this of any store; the other actions move rows (`MovingStep`) or remove finished ones and
    retire their items (`RemovingStep`). The mirror follows: what is shown after a step is computed
    from what was shown, and with one row an item that is all a reconcile depends on.
26. *Trees* (`EpicTree_proofs`). The invariant (`Whole`) is what holds between transactions; the
    work is inside one, where the tree disagrees with itself until the last recalculation. A
    store on the way of a reducer carries a list of the epics that may be stale (`Follows`): writes
    of rows add those they touched (`EpicInserted`, `TaskInserted`, `Relinked`, `EpicChanged`,
    `TasksDeleted`), a chain takes off the epic it starts at and that one's parent
    (`ThenChain`), and each reducer ends with the list empty (`EpicMade` to `BatchDeleted`).
    The chain pays because a hop makes stale only the epic the next hop recalculates, and because
    it arrives: in a forest a walk up meets no epic twice, so it is over within as many hops as there
    are epics (`WalkEnds`, which `RollUpReaches` needs). That a re-parenting closes no loop is the same
    argument on the walk of `validate_epic_parent`: a loop would go through the epic, and the walk would
    have met it. A delete loses no unfinished work because what it reaches has been
    judged (`DoomedIsJudged`): the two walks down have different bounds, and the judge's is far enough since
    a level is empty only when all below it are, and levels that are not are no more than the epics.

    Placements stay (`PlacementsPreserved`) because a chain goes one way. Where no epic is done before
    its children (`NoneTooEarly`) every hop leaves it so and changes a status to done if at all
    (`ChainRaises`); started at an epic that has something to do (`Open`), every hop lowers a done epic
    or changes nothing, and the next epic then has something to do (`ChainLowers`). A reducer either
    only raises, or only lowers, or lowers and then raises, never the other way round, so an epic that
    was not done keeps its status or ends done (`SteadyThrough`). Moving a task is the other way round
    (divergence 27), hence `TasksStayPut`.
27. *Walks and loops.* The provers have no induction over data, and the theorems of the library that
    give it take an operator. What the walks need is shown from one instance of well-foundedness that
    takes a set: a least number in a set of numbers (`Least`), hence `Induction` over a set, hence that a
    recursive function exists and unfolds (`Recursion`, and `Rounds` for the loops over the members of a
    set in any order).

### Only model-checked

- Liveness: under fairness, which needs `ENABLED`, out of the prover's reach.
- `SessionHost`: what the runs ask of it is liveness (`TeardownsEnd`).

## 5. Abstractions, and what is not modelled

### Of the request protocols

- Text, ordering, sub-status, tags, error text and visibility refusals of
  `DispatchRequests` and `SessionRequests`. A refusal removes behaviours only.
- Their epic forest is fixed and two levels deep, so the chain walk is unrolled twice;
  trees that change are `EpicTree`.
- A task's url: whether a close or a patch into done finds a pull request to close may
  be either, at each call. Left out likewise: the conflict sub-status and review tags of
  a wrap-up, what an exit row records for display, and the session patch of an exit that
  opens a pull request.
- The chain may take any subtask its request would be accepted for; the code takes the
  first in board order. The id of a row stands for its `requested_at`.
- A phoenix respawn is assumed to succeed.
- In `DispatchRequests` a request may delete any dispatched row past the retention;
  `SessionRequests` deletes exactly the rows the code does.
- `DispatchRequests` takes worktree and host from any patch, together or apart. That a task with a
  worktree has its host (`core.allium`, `HostTracksWorktree`) is kept by what boards send and not by
  the store, so it is asked of `BoardTasks`, where boards write the patches.
- Board and store read one clock; a board may still be late by any number of steps. One
  board serves a host at a time, as `store-split.allium` assumes. Windows killed by hand
  are left out of `DispatchHost`.

### Of the other components

- `AgentActivity`: a launch and its report are one step; a resume starts the session and
  then the board writes; two events stamped in the same millisecond are excluded from the
  ordered instances; the board's tick acts on the store's row; the roll-up a flip ends in
  is `EpicTree`'s. Peer messages and usage events are left out.
- `BoardTasks`: a handler and the store write it awaits are one step; positions, urls and
  the split pane are left out; `handle_dispatched` is a refresh.
- `PrPolling`: review decisions collapse to open and approved; a backoff's deadline is any
  later time; `ClosePrOnDone` is left out; a task's claim never moves (accepted by
  `core.allium`).
- `FeedRequests`: one epic, one owner of all hosts; a subscription shows the store's state;
  each row is its own job; `epic_due` is any time; a serving job ends within the grace.
  What a board deletes and then dies before tearing down is accepted (`feeds.allium:1834`),
  so `LeftoversAreOwed` is claimed of boards that live through their cycle. An item that closed and
  opened again since the last reconcile is not covered by `OpenItemsStay` (section 6, the end).
- `FeedIngest`: running the command, parsing, the fields refreshed and the roll-up are left
  out; grouping deletes and recreates a grouped feed's task where the documentation says so,
  so rows staying is not claimed of that instance.
- `EpicTree`: running and review are one status; feeds, workspaces and learnings are left
  out. In a tree deeper than `MAX_EPIC_DEPTH` the roll-up stops short of the root, as
  documented of the bound: what is said of statuses has `RollUpReaches` as its premise. There an
  epic placed done above a reopened sub-epic is lowered by a task created in that sub-epic later, so
  `PreservesPlacements` has it too (TLC found it, with two epics below one and a depth of one).
- `FinishTask`: `git` as sets of commits; a person may end in the primary checkout's merge a
  crash left, since no code does. `SessionHost`: `gh pr close` and the deletion of a task are
  left out (an open question at `store-split.allium:2692`); a row that failed before any board
  saw it open keeps its window (`:2696`), and so does one whose further kill fails (section 6, the end).
- `ViewMirror`: one row; a row's views beside two, and `poll_owners_by_scope`, are left out.
  `StoreConnection`: half-open sockets are noticed by nobody; the rules-version gate, the
  registration of the host and the reducer calls with their time-outs are left out.
- `Workspaces`: one host per person; what a board lists (its person's coverage and own epics), by
  which it chooses what to claim; names, the migration itself, the operator's exemption,
  learnings and the bound of the private walk are left out; what hangs on a deleted row is
  ignored, ids being drawn once.

### Not modelled

- Learnings (`learning.rs`) and profiles: records written by single calls that nothing
  modelled reads.
- `src/store_connection`, `managed_store.rs`, import and export, seed and snapshot: one-shot
  data movement at start.
- Keep-awake, the split pane and the trust files: side effects on the machine that no rule
  reads back.
- `src/tui` input, layout and rendering; `src/mcp` and `src/cli` argument handling; `src/setup`
  and `src/startup`: entry points that call what is modelled.
- `src/spacetime/bindings` is generated; `mock_sequence.rs` and most of the tree's lines are
  test support. The map therefore names a small share of all lines; what it leaves out is
  mostly generated code, conversion of rows, display and argument handling, where a model
  would repeat the text and tell nothing apart.

## 6. Where the code and its documents disagree

Two have a listed run; those with a configuration here are reproduced by
`tlc -config <name>.cfg <module>`; the others by the constants given, on the module named.

**Dispatch and sessions**

1. *A current agent after a close.* `agents.allium:433` says a current agent implies a worktree
   or an open request. `close_task` writes done before it fails the open request, whose failure
   then ends no agent. `MCDispatchRequests`, `CurrentAgentTracksWorktree`: one task, host and
   request, no patches.
2. *A token of an old session* (`token_of_old_session`). `store-split.allium:401` says a later
   dispatch voids a token. The check compares when the wrap-up *finished*: a rebase asked for in
   the first session and reported after the second dispatch finished last, and its token is valid.
3. *A killed `git worktree add`* leaves its directory: the error returns past the rollback
   (`worktree.rs:838`) and the next dispatch reuses what it finds. `DispatchHost`,
   `FailedAttemptsLeaveNoWorktree`: one host, the setting `faults = {"killed"}`, `prompt = TRUE`.
4. *Two windows of one name.* `new_window` checks a name in one call and takes it in another; a
   task closed, reopened and dispatched again while its first attempt works lets both pass.
   `TmuxWindowNamesAreUnique`: `Patches <- Reopen`, the setting without faults, `prompt = FALSE`.
5. *An orphaned window.* The restart sweep releases the task and not the window, and later
   dispatches of it on that host are refused, though `dispatch.allium:600` calls it dispatchable
   as before. `ReleasedTasksAreDispatchable`: the setting `faults = {"crash"}`.
6. *A window killed twice* (`KilledTwice`, `SessionHost`). A teardown row may fail although its
   window was killed; the board then kills the window of that name again, which a reopened task's
   new agent may have (`session.rs:149`).
7. *A checkout that moved* (`MovedCheckout`, `FinishTask`). The primary's branch is read once,
   before a pull and a rebase; the fast-forward merges into whatever is checked out then, and the
   row is reported done (`finish.rs:239`).
8. *A person's merge aborted.* The clean-up of a failed pull aborts the merge a person began after
   the check (`finish.rs:180`). `FinishTask`, `PersonsMergeIsKept`: one task, one commit to pull,
   `Events = {"merge"}`.

**Agent activity**

9. *A late prompt* (`AgentActivity`, `TurnOverIsInReview`). A prompt written after the stop of its own turn takes the task
   back to running, where no hook moves it again (`agent_state.rs:624`, against
   `agent-health.allium:578`).
10. *A late stop* (`AgentActivity`, `WorkIsRunning`). A stop written after the next prompt sends the task to review under
    it (`agent_state.rs:472`, against `agent-health.allium:562`). Both: `hooks` stop, prompt and clear,
    no `acts`, not `inOrder`, not `lossy`, `clock` 3, one agent and session, `inflight` 2.

**Boards** (`BoardTasks`): on `MCBoards`, the property and the member of `Chosen` named, without symmetry

11. *A foreign crash* (`CrashedAgentsAreDead`, `pair`). The window check covers tasks of other machines, finds no
    window here and marks them crashed (`agent.rs:310`).
12. *A late kill* (`ResumedTasksHaveASession`, `resume`). Kill and resume of a retry run beside each other; the resume
    reattaches, then the kill lands (`retry.rs:72`).
13. *A late teardown* (`late_teardown`). The teardown of a fresh retry removes the worktree the new
    agent was just given (`retry.rs:140`, against `dispatch.allium:1382`).
14. *A host left behind* (`HostTracksWorktree`, `fresh`). A teardown's answer clears worktree and window of the
    copy and not its host, which the next write persists (`lifecycle.rs:393`); the two are fields of
    their own in a patch and the store takes either (`runtime/tasks.rs:269`).
15. *A stale reorder* (`ReordersOnlyMoveTheCard`, `resume`). Reordering persists the copy's status over a newer one
    (`navigation.rs:183`).
16. *A foreign delete* (`NoWorktreeIsForgotten`, `foreign`). Deleting asks nothing about the host; the worktree on the
    other machine is forgotten (`lifecycle.rs:327`).

**Pull requests** (`PrPolling`): on `MCBoards`, likewise

17. *A stale read* (`MergesAreOfTheTasksPr`, `retargeted`). The report names the task and not the url it read
    (`pr.rs:15`).
18. *Killed work* (`WorkIsNotKilled`, `prompted`). An accepted report that changes nothing is taken for an applied
    merge and the working agent's window killed (`pr.rs:178`).
19. *A lost merge* (`MergedWindowsAreKilled`, `prompted`, under `MCFairSpec`). A merge applied whose answer is lost leaves its window for good
    (`pr.rs:195`).
20. *A new pull request* (`NewPrIsRead`, `retargeted`, under `MCFairSpec`). The failure count is kept per task, so a board that gave up does
    not read the next url either (`update/pr.rs:199`).
21. *A lost giving-up* and *a doubled poll*. The report of giving up is sent once (`pr.rs:35`); a
    board that lost the claim still reports once (`pr.rs:83`). Either leaves a task that shows a
    review state nobody reads. `GiveUpIsShown`: `moved`; `owned`.

**Feeds**

22. *A stranded teardown.* A refused claim leaves the id in the served set, so a board restarted
    within the grace of its predecessor's claim strands the row (`requests.rs:92`, against
    `store-split.allium:2202`). `FeedRequests`, `TeardownOpen(1) ~> ~TeardownOpen(1)`: one item, the
    setting `requests = 1`, `crashes = 1`, `grace = 1`; a lost answer to a claim does the same.
23. *A poll that returns.* The ingest looks at the present owner only: overridden away and back during
    a cycle, an older emission is reconciled (`feed_ingest.rs:199`, against `feeds.allium:1446`).
    `KeepsOpenItems` as a step property: the setting `overrides = 2`.
24. *A busy refresh.* A refresh that finds a cycle under way is reported done by it, though it may
    have read the feed before (`feed/mod.rs:463`). `RefreshedMeansRead`: the setting
    `requests = 1`, no faults.
25. *A degraded regroup.* After grouping is switched on, an additive emission inserts every item again
    under its repository (`feed_ingest.rs:313`, against `feeds.allium:1844`). `FeedIngest`,
    `OneTaskPerItem`: `Ops = {"degraded", "toggle"}`, not reviews.
26. *Moved out and back.* A feed task moved out of the subtree is inserted again; moved back it is a
    second of its item (`tasks_epics.rs:566`, against `epics.allium:1276`). `OneTaskPerItem`:
    `Ops = {"move out"}`, reviews.

**Epics**

27. *Moved down.* A move recalculates the chain the task left before the one it joined; an epic
    placed in running loses its placement (`tasks_epics.rs:621`, against `epics.allium:1964`).
    `EpicTree`, `PreservesPlacements`: three epics, two tasks, `calls = {"create", "place", "move"}`.
28. *Respawned elsewhere.* The close of a phoenix recalculates the epic it was closed in and not the
    one its successor is routed to (`session_request.rs:772`, against `epics.allium:1986`).
    `Stale(store) = {}`: three epics, three tasks, `calls = {"create", "group", "phoenix"}`.

**Sight** (`Workspaces`)

29. *A kept claim.* A task moved out of sight keeps the poll claim of who lost it (`tasks_epics.rs:604`,
    against `config.rs:538`). `TaskClaimsFollowSight(store)`: three people, `ops = {"flip", "move", "poll"}`.
30. *An unlisted claim.* A claim is asked for sight and setter only (`agent_state.rs:174`). A board
    lists its epics (`feed/mod.rs:385`), reads their owners and claims in a job of its own (`:596`);
    unfollowing in between releases the claims there are (`config.rs:390`) and not the one on its way.
    That one stays on an epic the person's board no longer lists, and no board runs its feed, against
    `sync.allium:1566` ("a poll claim must not outlive the coverage that made it workable"). A
    re-parenting (`tasks_epics.rs:882`) or a flip (`visibility.rs:498`) that ends the coverage and
    not the sight does the same without any race. Found by reading, and by an attempt to prove the
    contrary; coverage is not modelled, so no property says it.
31. *A foreign link.* A task passes over a user board into an epic of another workspace with its links
    (`tasks_epics.rs:605`, against `workspaces.allium:1147`). `LinkedItemsShareThePackagesWorkspace(store, Epic \cup Task)`:
    `ops = {"epics", "board", "move", "packages", "links"}`.
32. *A delete of what is seen.* The super-admin's delete judges the epic it names and takes its subtree
    (`visibility.rs:724`). `DeletesOnlyTheTakersWork`: three people,
    `ops = {"members", "epics", "flip", "hatch"}`.

**Rows and connection**

33. *A spoilt row* (`DrawnIsHeld`, `MCBoards`, `rows`). A task whose next version does not decode leaves the
    rows without waking the board (`rows.rs:344`).
34. *An old drop* (`OldDrop`, `StoreConnection`). The end of a connection let go is reported after the
    next is installed and taken for its outage (`sdk_connector/mod.rs:110`).
35. *Late rows.* A closing connection delivers rows after the board was emptied (`connect.rs:149`,
    against `sync.allium:1007`). `DownBoardIsEmpty`: `Ops = {"socket dies", "subscribe fails"}`.

The listed runs hold these cases out by the operations and faults of their instances; each instance
has the rest of them.

One hazard is no disagreement, since `dispatch.allium` describes it ("leaves the outcome unknown"): a
host whose report and its repeat both go unanswered tears down what it made. If a report had landed,
the task stays dispatched without window or worktree. `FailuresLeaveNoTrace` is claimed without lost
answers for that reason.

Two more are what the code accepts. A failed row's window is killed "best effort"
(`pr-workflow.allium`, `KillWindowOfFailedExitSession`, although its `ensures` says the window is gone): a
kill that fails is logged (`wrap_up.rs:112`), nobody tries again, and the window stays under a task that is
done. And the ingest asks who owns the poll and not when the emission was read
(`feed_ingest.rs:162`): of an item that closed, was read, and opened again before the ingest, the
task is removed although the item is open by then, and the next cycle makes a new one
(`feed.rs:268` expects reopened items to show up as new). `TeardownsEnd` and `OpenItemsStay` say no more
than this leaves true.

## 7. What is left

1. Proofs: the safety of `SessionHost`; what a host's lost answers
   leave of `FailuresLeaveNoTrace`.
2. Compositions: `DispatchHost` with `SessionHost` and `BoardTasks` over one disk, so that a provision,
   a close and a fresh retry of one task meet; `FeedRequests` over the rows `FeedIngest` keeps.
3. Learnings with the re-scoping a deleted repository group owes them, and the reducer calls of the
   connection with their time-outs.
