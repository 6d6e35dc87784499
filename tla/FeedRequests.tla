---------------------------- MODULE FeedRequests ----------------------------
(* The polling of one feed epic by the boards of one person's hosts.  One     *)
(* host owns the poll; its board reads the feed, the store reconciles the     *)
(* feed's tasks with what was read, and the worktrees of the tasks it removed *)
(* are torn down: by the cycle itself, or, where another host holds them, by  *)
(* a request row that host serves.  A manual refresh on another host is a     *)
(* request row too.  Rows have no deadline and no timer.                      *)
(*                                                                            *)
(* Every host here has the same owner, the person who set the feed command.   *)
EXTENDS Naturals, FiniteSets

CONSTANTS
    Host, Board,   \* the machines, and the board processes
    NoHost,        \* no owner of the poll, no holder of a task
    Item,          \* what the feed may report
    FeedSettings   \* whose boards they are, the faults and bounds of a behaviour

NoRow == "no row"     \* the item has no task row
NoTask == "no task"   \* a refresh names none

AllFaults == {"unsent claim", "unsent report", "lost answer",
              "degraded feed", "failed feed", "failed teardown"}

ASSUME FeedAssumption ==
    /\ IsFiniteSet(Item)
    /\ NoHost \notin Host /\ NoRow \notin Host \cup {NoHost}
    /\ \A c \in FeedSettings :
           /\ c.on \in [Board -> Host] /\ c.items \subseteq Item /\ c.faults \subseteq AllFaults
           /\ {c.grace, c.stale, c.retention, c.requests, c.overrides, c.crashes, c.losses,
               c.openings} \subseteq Nat

VARIABLES
    pollOwner,  \* the epic's PollOwner row
    feed,       \* what is true upstream of each item
    steady,     \* the rows whose item has been open since a reconcile last reported it
    tasks,      \* the feed's task rows, one per item: the host that holds each, if any
    removals,   \* how many rows of the item have been removed
    disk,       \* <<task, host>>: a worktree of the task on the host
    requests,   \* the feed_requests table
    lastId,     \* ids handed out to request rows
    boards,     \* the processes
    spent,      \* how much of each bounded fault has happened
    setting     \* the member of FeedSettings a behaviour belongs to: it never changes

feedVars ==
    <<pollOwner, feed, steady, tasks, removals, disk, requests, lastId, boards, spent, setting>>

HostOf == setting.on                \* [Board -> Host]
Faults == setting.faults            \* what may go wrong
Grace == setting.grace              \* RECLAIM_RUNNING_FEED_REQUEST_SECS, in ticks
Stale == setting.stale              \* STALE_REFRESH_REQUEST_SECS, in ticks
Retention == setting.retention      \* REQUEST_RETENTION_DAYS, in ticks
MaxRequests == setting.requests     \* bound: request rows ever written
MaxOverrides == setting.overrides   \* bound: times a person moves the poll
MaxCrashes == setting.crashes       \* bound: board crashes
MaxLosses == setting.losses         \* bound: calls lost
MaxOpenings == setting.openings     \* bound: times an item opens, or opens again

Open == {i \in Item : feed[i] = "open"}
Rows == {i \in Item : tasks[i] # NoRow}

\* An item that is reported again after its row was removed gets a new task, of
\* its own id and worktree.
TaskOf(i) == <<i, removals[i]>>

AgeCap == 1 + Grace + Stale + Retention

\* A row's age is the time since it entered its state: the one timestamp of it
\* that the state's rules compare with a cutoff.
Request(id, kind, task, host) ==
    [id |-> id, kind |-> kind, task |-> task, host |-> host,
     state |-> "requested", age |-> 0, fed |-> FALSE]
IsOpen(r) == r.state \in {"requested", "running"}

\* A feed cycle and its claim of the epic.  row is the refresh served, or 0.
NoCycle == [stage |-> "none", row |-> 0, emission |-> {}, additive |-> FALSE,
            removed |-> {}]
Process == [up |-> TRUE, served |-> {}, jobs |-> {}, cycle |-> NoCycle]
Job(id, stage) == [row |-> id, stage |-> stage]

FeedTypeOK ==
    /\ pollOwner \in Host \cup {NoHost}
    /\ feed \in [Item -> {"open", "closed"}]
    /\ steady \subseteq Open \cap Rows
    /\ tasks \in [Item -> Host \cup {NoHost, NoRow}]
    /\ removals \in [Item -> Nat]
    /\ disk \subseteq (Item \X Nat) \X Host
    /\ lastId \in 0..MaxRequests
    /\ \A r \in requests :
           /\ r.id \in 1..lastId /\ r.kind \in {"refresh", "teardown"}
           /\ r.host \in Host /\ r.age \in 0..AgeCap /\ r.fed \in BOOLEAN
           /\ r.state \in {"requested", "running", "done", "failed"}
    /\ \A b \in Board :
           /\ boards[b].served \subseteq 1..lastId
           /\ boards[b].cycle.stage \in {"none", "claimed", "read", "ingested"}
           /\ \A j \in boards[b].jobs :
                  j.stage \in {"claim", "claimed", "cycling", "done", "failed"}

FeedInit ==
    /\ setting \in FeedSettings
    /\ pollOwner = NoHost
    /\ feed = [i \in Item |-> "closed"] /\ steady = {}
    /\ tasks = [i \in Item |-> NoRow] /\ removals = [i \in Item |-> 0]
    /\ disk = {} /\ requests = {} /\ lastId = 0
    /\ boards = [b \in Board |-> Process]
    /\ spent = [overrides |-> 0, crashes |-> 0, losses |-> 0, openings |-> 0]

-----------------------------------------------------------------------------
(* The store's rules.                                                         *)

\* write_poll_owner_row: a claim fills an absent row, an override any.
OwnerAfterClaim(host) == IF pollOwner = NoHost THEN host ELSE pollOwner

\* prunable_feed_requests: a finished row past its retention, and a refresh
\* nobody served.
Prunable(r) ==
    \/ ~IsOpen(r) /\ r.age > Retention
    \/ r.kind = "refresh" /\ r.state = "requested" /\ r.age > Stale

Kept == {r \in requests : ~Prunable(r)}

\* teardown_request_owed: another host than the ingesting one holds the task.
OwedUnlessOwn(i, host) == tasks[i] # host         \* faulty: a task of no host too
TeardownRequestOwed(i, host) == tasks[i] \in Host \ {host}

\* validate_feed_request_claim.
Claimable(r, host) ==
    /\ r.host = host /\ IsOpen(r)
    /\ r.state = "running" => r.age > Grace

\* validate_feed_request_report.
Reportable(r, host) == r.host = host /\ r.state = "running"

Written(r, state) == (requests \ {r}) \cup {[r EXCEPT !.state = state, !.age = 0]}

\* check_ingest_claim.
AnyHostMayIngest(host) == TRUE     \* faulty: a lost claim is not noticed
MayIngest(host) == pollOwner \in {NoHost, host}

\* upsert_feed_tasks_inner, on the feed's own epic: a reported item has a row,
\* and unless the sync is additive no other has.
Removed(emission, additive) == IF additive THEN {} ELSE Rows \ emission

AfterIngest(emission, additive) ==
    [i \in Item |->
        IF i \in Removed(emission, additive) THEN NoRow
        ELSE IF i \in emission /\ tasks[i] = NoRow THEN NoHost
        ELSE tasks[i]]

\* write_teardown_request_if_owed, for every row the stale delete removed.
InOrder(items) ==
    CHOOSE f \in [items -> 1..Cardinality(items)] :
        \A i, j \in items : f[i] = f[j] => i = j

TeardownRequests(items, host) ==
    LET owed == {i \in items : TeardownRequestOwed(i, host)}
    IN {Request(lastId + InOrder(owed)[i], "teardown", TaskOf(i), tasks[i]) : i \in owed}

-----------------------------------------------------------------------------
(* Upstream and people.                                                       *)

KeepTheBoards == UNCHANGED <<boards, setting>>
KeepTheRows == UNCHANGED <<tasks, removals, requests, lastId>>

ItemOpens(i) ==
    /\ i \in setting.items /\ feed[i] = "closed" /\ spent.openings < MaxOpenings
    /\ feed' = [feed EXCEPT ![i] = "open"]
    /\ spent' = [spent EXCEPT !.openings = @ + 1]
    /\ UNCHANGED <<pollOwner, steady, disk>> /\ KeepTheRows /\ KeepTheBoards

ItemCloses(i) ==
    /\ feed[i] = "open"
    /\ feed' = [feed EXCEPT ![i] = "closed"]
    /\ steady' = steady \ {i}
    /\ UNCHANGED <<pollOwner, disk, spent>> /\ KeepTheRows /\ KeepTheBoards

\* A dispatched task is held by the host of its worktree.
Dispatch(i, host) ==
    /\ tasks[i] = NoHost
    /\ tasks' = [tasks EXCEPT ![i] = host]
    /\ disk' = disk \cup {<<TaskOf(i), host>>}
    /\ UNCHANGED <<pollOwner, feed, steady, removals, requests, lastId, spent>>
    /\ KeepTheBoards

\* override_poll_owner.
OverridePollOwner(host) ==
    /\ pollOwner \notin {host, NoHost} /\ spent.overrides < MaxOverrides
    /\ pollOwner' = host
    /\ spent' = [spent EXCEPT !.overrides = @ + 1]
    /\ UNCHANGED <<feed, steady, disk>> /\ KeepTheRows /\ KeepTheBoards

\* exec_trigger_epic_feed on a host that is not the owner: request_feed_refresh
\* writes a row unless one still waits for the owner (decide_feed_refresh).
RequestFeedRefresh(host) ==
    /\ pollOwner \notin {host, NoHost} /\ lastId < MaxRequests
    /\ \A r \in requests :
           ~(r.kind = "refresh" /\ r.host = pollOwner /\ r.state = "requested")
    /\ requests' = Kept \cup {Request(lastId + 1, "refresh", NoTask, pollOwner)}
    /\ lastId' = lastId + 1
    /\ UNCHANGED <<pollOwner, feed, steady, tasks, removals, disk, spent>> /\ KeepTheBoards

-----------------------------------------------------------------------------
(* A board serves the rows of its host.                                       *)

With(b, p) == boards' = [boards EXCEPT ![b] = p]
Without(p, j) == [p EXCEPT !.jobs = @ \ {j}]
HandedBack(p, j) == [Without(p, j) EXCEPT !.served = @ \ {j.row}]
Advanced(p, j, stage) == [p EXCEPT !.jobs = (@ \ {j}) \cup {Job(j.row, stage)}]
KeepTheEpic == UNCHANGED <<pollOwner, feed, steady, tasks, removals, lastId, setting>>

\* rows_to_serve: each open row of the host once per process; ids whose rows
\* are no longer open are forgotten.
PickUp(b) ==
    /\ boards[b].up
    /\ \E r \in requests :
           /\ IsOpen(r) /\ r.host = HostOf[b] /\ r.id \notin boards[b].served
           /\ LET live == {q.id : q \in {q \in requests : IsOpen(q)}}
              IN With(b, [boards[b] EXCEPT
                     !.served = (@ \cap live) \cup {r.id},
                     !.jobs = @ \cup {Job(r.id, "claim")}])
    /\ KeepTheEpic /\ UNCHANGED <<disk, requests, spent>>

Loses == spent' = [spent EXCEPT !.losses = @ + 1]
MayLose(what) == what \in Faults /\ spent.losses < MaxLosses

\* A call: the store applies it or refuses it; the call or its answer may be
\* lost, and the board cannot tell which.
Call(unsent, applies, applied, afterYes, afterNo, afterError) ==
    \/ applies /\ applied /\ afterYes /\ UNCHANGED spent
    \/ ~applies /\ UNCHANGED requests /\ afterNo /\ UNCHANGED spent
    \/ MayLose(unsent) /\ UNCHANGED requests /\ afterError /\ Loses
    \/ MayLose("lost answer") /\ applies /\ applied /\ afterError /\ Loses

RowsOf(j) == {r \in requests : r.id = j.row}

\* claim_feed_request: a refused row stays handed out, an unsent claim gives it
\* back (serve_teardowns, spawn_refresh_request).
ClaimFeedRequest(b, j) ==
    /\ j.stage = "claim"
    /\ LET can == {r \in RowsOf(j) : Claimable(r, HostOf[b])}
       IN Call("unsent claim", can # {},
               \E r \in can : requests' = Written(r, "running"),
               With(b, Advanced(boards[b], j, "claimed")),
               With(b, Without(boards[b], j)),
               With(b, HandedBack(boards[b], j)))
    /\ KeepTheEpic /\ UNCHANGED disk

\* spawn_refresh_request, after the claim: only the poll owner reconciles, and
\* a cycle already in flight counts as the one asked for.
ServeRefresh(b, j) ==
    /\ j.stage = "claimed" /\ \E r \in RowsOf(j) : r.kind = "refresh"
    /\ IF pollOwner # HostOf[b] THEN With(b, Advanced(boards[b], j, "failed"))
       ELSE IF boards[b].cycle # NoCycle THEN With(b, Advanced(boards[b], j, "done"))
       ELSE With(b, [Advanced(boards[b], j, "cycling") EXCEPT
                        !.cycle = [NoCycle EXCEPT !.stage = "claimed", !.row = j.row]])
    /\ KeepTheEpic /\ UNCHANGED <<disk, requests, spent>>

\* serve_teardowns, after the claim.
ServeTeardown(b, j) ==
    /\ j.stage = "claimed"
    /\ \E r \in RowsOf(j) :
           /\ r.kind = "teardown"
           /\ \/ disk' = disk \ {<<r.task, r.host>>}
                 /\ With(b, Advanced(boards[b], j, "done"))
              \/ "failed teardown" \in Faults /\ UNCHANGED disk
                 /\ With(b, Advanced(boards[b], j, "failed"))
    /\ KeepTheEpic /\ UNCHANGED <<requests, spent>>

\* report_feed_request_done and report_feed_request_failed.
Report(b, j) ==
    /\ j.stage \in {"done", "failed"}
    /\ LET can == {r \in RowsOf(j) : Reportable(r, HostOf[b])}
       IN Call("unsent report", can # {},
               \E r \in can : requests' = Written(r, j.stage),
               With(b, Without(boards[b], j)),
               With(b, Without(boards[b], j)),
               With(b, HandedBack(boards[b], j)))
    /\ KeepTheEpic /\ UNCHANGED disk

-----------------------------------------------------------------------------
(* A feed cycle (FeedCycle::run).                                             *)

\* claim_epic_poll, on an epic nobody polls.
ClaimPollOwner(b) ==
    /\ boards[b].up /\ OwnerAfterClaim(HostOf[b]) # pollOwner
    /\ pollOwner' = OwnerAfterClaim(HostOf[b])
    /\ UNCHANGED <<feed, steady, disk, spent>> /\ KeepTheRows /\ KeepTheBoards

TryClaim(b) == boards[b].cycle = NoCycle

\* A tick, or a refresh asked on the owner: this_host_polls, then the guard.
StartCycle(b) ==
    /\ boards[b].up /\ pollOwner = HostOf[b] /\ TryClaim(b)
    /\ With(b, [boards[b] EXCEPT !.cycle = [NoCycle EXCEPT !.stage = "claimed"]])
    /\ KeepTheEpic /\ UNCHANGED <<disk, requests, spent>>

\* The cycle ends, and the refresh it served is to be reported.
Ended(p, outcome) ==
    [p EXCEPT !.cycle = NoCycle,
              !.jobs = {IF j.stage = "cycling" THEN Job(j.row, outcome) ELSE j : j \in @}]

\* The command runs; classify_emission.  A degraded emission may omit anything
\* and is additive; an empty one fails.
ReadFeed(b) ==
    /\ boards[b].cycle.stage = "claimed"
    /\ \E emission \in SUBSET Open :
           /\ emission = Open \/ ("degraded feed" \in Faults /\ emission # {})
           /\ With(b, [boards[b] EXCEPT !.cycle = [@ EXCEPT
                  !.stage = "read", !.emission = emission,
                  !.additive = (emission # Open)]])
    /\ requests' = {IF r.host = HostOf[b] /\ r.kind = "refresh"
                    THEN [r EXCEPT !.fed = TRUE] ELSE r : r \in requests}
    /\ KeepTheEpic /\ UNCHANGED <<disk, spent>>

FailCycle(b) ==
    /\ "failed feed" \in Faults /\ boards[b].cycle.stage = "claimed"
    /\ With(b, Ended(boards[b], "failed"))
    /\ KeepTheEpic /\ UNCHANGED <<disk, requests, spent>>

\* ingest_feed: one transaction; a host that lost the poll is refused.  The
\* cycle then holds the removed tasks it may tear down (split_removed_by_host).
IngestFeed(b) ==
    LET host == HostOf[b]
        cycle == boards[b].cycle
        gone == Removed(cycle.emission, cycle.additive)
        owed == TeardownRequests(gone, host)
    IN /\ cycle.stage = "read" /\ UNCHANGED <<pollOwner, feed, disk, spent, setting>>
       /\ IF MayIngest(host)
          THEN /\ lastId + Cardinality(owed) <= MaxRequests
               /\ tasks' = AfterIngest(cycle.emission, cycle.additive)
               /\ removals' = [i \in Item |-> removals[i] + (IF i \in gone THEN 1 ELSE 0)]
               /\ steady' = (steady \ gone) \cup (cycle.emission \cap Open)
               /\ requests' = (IF owed = {} THEN requests ELSE Kept) \cup owed
               /\ lastId' = lastId + Cardinality(owed)
               /\ With(b, [boards[b] EXCEPT !.cycle = [@ EXCEPT
                      !.stage = "ingested",
                      !.removed = {TaskOf(i) : i \in {k \in gone : tasks[k] \in {NoHost, host}}}]])
          ELSE /\ UNCHANGED <<steady, tasks, removals, requests, lastId>>
               /\ With(b, Ended(boards[b], "failed"))

\* cleanup_removed_feed_tasks, then the outcome; a failure is only logged.
CleanUp(b) ==
    /\ boards[b].cycle.stage = "ingested"
    /\ disk' = disk \ (boards[b].cycle.removed \X {HostOf[b]})
    /\ With(b, Ended(boards[b], "done"))
    /\ KeepTheEpic /\ UNCHANGED <<requests, spent>>

-----------------------------------------------------------------------------

Die(b) ==
    /\ boards[b].up /\ spent.crashes < MaxCrashes
    /\ With(b, [Process EXCEPT !.up = FALSE])
    /\ spent' = [spent EXCEPT !.crashes = @ + 1]
    /\ KeepTheEpic /\ UNCHANGED <<disk, requests>>

Restart(b) ==
    /\ ~boards[b].up
    /\ With(b, Process)
    /\ KeepTheEpic /\ UNCHANGED <<disk, requests, spent>>

\* A serve ends within the grace (a feed command is capped at two minutes).
ServedBy(r, b) ==
    \E j \in boards[b].jobs : j.row = r.id /\ j.stage # "claim"
Older(r) == [r EXCEPT !.age = IF @ < AgeCap THEN @ + 1 ELSE AgeCap]

TimePasses ==
    /\ \A r \in requests : r.state = "running" /\ r.age = Grace
                              => \A b \in Board : ~ServedBy(r, b)
    /\ requests' = {Older(r) : r \in requests}
    /\ requests' # requests
    /\ KeepTheEpic /\ UNCHANGED <<disk, boards, spent>>

Serve(b) == \E j \in boards[b].jobs :
    ClaimFeedRequest(b, j) \/ ServeRefresh(b, j) \/ ServeTeardown(b, j) \/ Report(b, j)
Cycle(b) == ReadFeed(b) \/ IngestFeed(b) \/ CleanUp(b)

FeedNext ==
    \/ \E i \in Item : ItemOpens(i) \/ ItemCloses(i) \/ \E h \in Host : Dispatch(i, h)
    \/ \E h \in Host : OverridePollOwner(h) \/ RequestFeedRefresh(h)
    \/ \E b \in Board :
           \/ PickUp(b) \/ Serve(b)
           \/ ClaimPollOwner(b) \/ StartCycle(b) \/ Cycle(b) \/ FailCycle(b)
           \/ Die(b) \/ Restart(b)
    \/ TimePasses

FeedSpec == FeedInit /\ [][FeedNext]_feedVars

\* A board that runs keeps ticking and serving, one that died is started again,
\* and time passes.
FeedFairness ==
    /\ WF_feedVars(TimePasses)
    /\ \A b \in Board : /\ WF_feedVars(PickUp(b)) /\ WF_feedVars(Serve(b))
                        /\ WF_feedVars(Cycle(b)) /\ WF_feedVars(Restart(b))

-----------------------------------------------------------------------------
(* Properties.                                                                *)

\* A host has one board, and the poll never returns to a host it was taken from.
OneReader ==
    /\ \A a, b \in Board : HostOf[a] = HostOf[b] => a = b
    /\ MaxOverrides <= 1

\* Once a reconcile has reported an item, its task stays as long as the item
\* stays open upstream: no later reconcile works from an emission older than
\* that one, and an incomplete one removes nothing (OneFeedCycleAtATimePerEpic,
\* DegradedNonEmptyEmission).  An item that closed and reopened since is not
\* covered: an emission read in between removes its task, and the next reconcile
\* makes another.
KeepsOpenItems == \A i \in steady : feed'[i] = "open" => tasks'[i] # NoRow

OpenItemsStay == [][OneReader => KeepsOpenItems]_feedVars

\* Every worktree left by a removed task is owed by exactly one path, the cycle
\* that removed it or one request row of its host, until it is gone: the removed
\* tasks are split by holder without a gap and without an overlap
\* (StaleDeleteRequestsTeardownOnTheHoldingHost).
Holds(t, h) == t = TaskOf(t[1]) /\ tasks[t[1]] = h
OwedByCycle(t, h) ==
    {b \in Board : HostOf[b] = h /\ t \in boards[b].cycle.removed}
OwedByRow(t, h) ==
    {r \in requests : r.kind = "teardown" /\ r.task = t /\ r.host = h /\ r.state # "done"}
LeftoversAreOwedOnce ==
    \A d \in disk : ~Holds(d[1], d[2]) =>
        Cardinality(OwedByCycle(d[1], d[2])) + Cardinality(OwedByRow(d[1], d[2])) = 1

\* Two boards of a host never serve one row at the same time: within the grace
\* the claim is refused, and no serve lasts longer (OnlyTheClaimedFeedRequestIsServed).
OneServerPerRow ==
    \A r \in requests : \A a, b \in Board : ServedBy(r, a) /\ ServedBy(r, b) => a = b

\* Boards live through their cycles, and their teardowns work.
Undisturbed == OneReader /\ MaxCrashes = 0 /\ "failed teardown" \notin Faults

\* What a removed feed task leaves on disk is owed by one cycle or one row
\* until it is gone, whoever polls the feed by then, and no row of a feed is
\* served by two boards of its host at once.
LeftoversAreOwed ==
    /\ FeedTypeOK
    /\ OneServerPerRow
    /\ Undisturbed => LeftoversAreOwedOnce

\* A teardown row is asked for and not served yet.
TeardownOpen(n) == \E r \in requests : r.id = n /\ r.kind = "teardown" /\ IsOpen(r)

\* A refresh reported done was followed by a reading of the feed.
RefreshedMeansRead ==
    \A r \in requests : r.kind = "refresh" /\ r.state = "done" => r.fed
=============================================================================
