----------------------------- MODULE PrPolling -----------------------------
(***************************************************************************)
(* One task in review with a pull request, and the boards that read the    *)
(* pull request on GitHub and report what they read to the store.          *)
(*                                                                         *)
(* A task with a worktree is read by the board of its host. A task without *)
(* one is read by the board that claimed it first, for good.               *)
(***************************************************************************)
EXTENDS Integers, FiniteSets

CONSTANTS
    Nobody,         \* no host
    PrSettings      \* the boards, pull requests, events and bounds of a behaviour

AllEvents == {"review", "access", "edit url", "conflict", "dispatch", "prompt", "move", "restart"}

ASSUME PrPollingAssumption ==
    \A c \in PrSettings :
        /\ Nobody \notin c.boards
        /\ c.host \in c.boards \cup {Nobody}
        /\ c.first \in c.prs
        /\ c.private \subseteq c.prs
        /\ c.threshold \in Nat \ {0}
        /\ c.losses \in Nat
        /\ c.ops \subseteq AllEvents

VARIABLES
    prRow,      \* the task's row in the store
    owner,      \* the poll owner row of the task
    pr,         \* what GitHub knows of each pull request
    readable,   \* whether the account may read it
    prAgent,    \* the session in the task's window: "none", "works", "rests"
    prCopy,     \* each board's copy of the row
    poll,       \* the read a board has under way
    prInbox,    \* the answer a board has still to handle
    failures,   \* permanent failures in a row, as the board counts them
    job,        \* the command that handling an answer started
    losses,     \* the calls lost so far
    prQuiet,    \* whether the outside has left the task alone, for good
    prSetting   \* the member of PrSettings a behaviour belongs to: it never changes

PrBoard == prSetting.boards         \* boards, each on a host of its own
Pr == prSetting.prs                 \* the pull requests the task's url may name
FirstPr == prSetting.first          \* the one it names at the start
Private == prSetting.private        \* those the account may not read at the start
GiveUpAfter == prSetting.threshold  \* permanent failures in a row before a board gives up
MaxLosses == prSetting.losses       \* the bound on calls whose effect or answer is lost
PrEvents == prSetting.ops           \* the outside events that happen
Hosted == prSetting.host            \* the host of the task at the start, or Nobody

readerVars == <<prCopy, poll, prInbox, failures, job>>
pollVars == <<prRow, owner, pr, readable, prAgent, readerVars, losses, prQuiet>>
prVars == <<pollVars, prSetting>>

(* An approved pull request is open; no review decision waits for review.  *)
PrState == {"OPEN", "APPROVED", "MERGED", "CLOSED"}

PrRow == [status : {"running", "review", "done"},
        sub : {"active", "awaiting_review", "approved", "pr_closed",
               "pr_unreachable", "conflict", "none"},
        url : Pr, host : PrBoard \cup {Nobody}, window : BOOLEAN]

IdlePoll == [at |-> "idle", url |-> FirstPr, state |-> "OPEN", window |-> FALSE]

Poll == [at : {"idle", "owner", "claim", "read", "look", "report"}, url : Pr,
         state : PrState, window : BOOLEAN]

Answer == {"none", "merged", "merged with window", "seen", "failed", "failed for good"}

Job == {"none", "kill window", "report unreadable"}

MovedSub(status) ==
    CASE status = "running" -> "active"
      [] status = "review" -> "awaiting_review"
      [] status = "done" -> "none"

GaveUp(b) == failures[b] >= GiveUpAfter

----------------------------------------------------------------------------
(* The module: what a report does to the row *)

ReviewSub(state) == IF state = "APPROVED" THEN "approved" ELSE "awaiting_review"

AppliedState(r, state) ==
    IF r.status # "review" THEN r
    ELSE CASE state = "MERGED" ->
                  [r EXCEPT !.status = "done", !.sub = "none", !.window = FALSE]
           [] state = "CLOSED" -> [r EXCEPT !.sub = "pr_closed"]
           [] OTHER ->
                  IF r.sub = "conflict" THEN r ELSE [r EXCEPT !.sub = ReviewSub(state)]

Unreadable(r) == IF r.status = "review" THEN [r EXCEPT !.sub = "pr_unreachable"] ELSE r

(* The faulty form that takes a claim over from the board that has it.     *)
ClaimAnew(b) == owner' = b

(* A claim fills an absent row and leaves an existing one alone.           *)
Claim(b) == owner' = IF owner = Nobody THEN b ELSE owner

----------------------------------------------------------------------------
(* The poll of a board *)

Pollable(b) ==
    /\ prCopy[b].status = "review"
    /\ prCopy[b].host \in {Nobody, b}

(* Only a task without a host asks who owns its poll. A board refreshes    *)
(* its copy many times between two reads, and holds one read at a time.    *)
TickPrPoll(b) ==
    /\ poll[b].at = "idle" /\ prInbox[b] = "none" /\ job[b] = "none"
    /\ prCopy[b] = prRow
    /\ Pollable(b)
    /\ ~GaveUp(b)
    /\ poll' = [poll EXCEPT ![b] =
                   [IdlePoll EXCEPT !.at = IF prCopy[b].host = Nobody THEN "owner" ELSE "read",
                                !.url = prCopy[b].url]]
    /\ UNCHANGED <<prRow, owner, pr, readable, prAgent, prCopy, prInbox, failures, job, losses>>

(* The faulty form that reads only on the tick that claimed.               *)
CheckOwnerOnce(b) ==
    /\ poll[b].at = "owner"
    /\ poll' = [poll EXCEPT ![b] =
                   IF owner = Nobody THEN [@ EXCEPT !.at = "claim"] ELSE IdlePoll]
    /\ UNCHANGED <<prRow, owner, pr, readable, prAgent, prCopy, prInbox, failures, job, losses>>

(* decide_poll_action                                                      *)
CheckOwner(b) ==
    /\ poll[b].at = "owner"
    /\ poll' = [poll EXCEPT ![b] =
                   CASE owner = Nobody -> [@ EXCEPT !.at = "claim"]
                     [] owner = b -> [@ EXCEPT !.at = "read"]
                     [] OTHER -> IdlePoll]
    /\ UNCHANGED <<prRow, owner, pr, readable, prAgent, prCopy, prInbox, failures, job, losses>>

Lose == losses < MaxLosses /\ losses' = losses + 1

(* The board reads on whatever became of its claim.                        *)
ClaimOwner(b) ==
    /\ poll[b].at = "claim"
    /\ \/ Claim(b) /\ UNCHANGED losses
       \/ Lose /\ UNCHANGED owner
    /\ poll' = [poll EXCEPT ![b].at = "read"]
    /\ UNCHANGED <<prRow, pr, readable, prAgent, prCopy, prInbox, failures, job>>

(* gh pr view, of the url the task had at the tick. A failure that another *)
(* try may mend is transient.                                              *)
ReadPr(b) ==
    /\ poll[b].at = "read"
    /\ LET p == poll[b].url IN
       \/ /\ readable[p]
          /\ poll' = [poll EXCEPT ![b].at = IF pr[p] \in {"MERGED", "CLOSED"}
                                            THEN "look" ELSE "report",
                                  ![b].state = pr[p]]
          /\ UNCHANGED <<prInbox, losses>>
       \/ /\ ~readable[p]
          /\ poll' = [poll EXCEPT ![b] = IdlePoll]
          /\ prInbox' = [prInbox EXCEPT ![b] = "failed for good"]
          /\ UNCHANGED losses
       \/ /\ Lose
          /\ poll' = [poll EXCEPT ![b] = IdlePoll]
          /\ prInbox' = [prInbox EXCEPT ![b] = "failed"]
    /\ UNCHANGED <<prRow, owner, pr, readable, prAgent, prCopy, failures, job>>

(* The row is read before the report: a merge clears the window.           *)
LookAtTask(b) ==
    /\ poll[b].at = "look"
    /\ poll' = [poll EXCEPT ![b].at = "report", ![b].window = prRow.window]
    /\ UNCHANGED <<prRow, owner, pr, readable, prAgent, prCopy, prInbox, failures, job, losses>>

AnswerTo(q) ==
    CASE q.state = "MERGED" /\ q.window -> "merged with window"
      [] q.state = "MERGED" -> "merged"
      [] OTHER -> "seen"

(* The store may take the report though its answer is lost.                *)
ReportStatus(b) ==
    /\ poll[b].at = "report"
    /\ \/ /\ prRow' = AppliedState(prRow, poll[b].state)
          /\ prInbox' = [prInbox EXCEPT ![b] = AnswerTo(poll[b])]
          /\ UNCHANGED losses
       \/ /\ Lose
          /\ prRow' \in {prRow, AppliedState(prRow, poll[b].state)}
          /\ prInbox' = [prInbox EXCEPT ![b] = "failed"]
    /\ poll' = [poll EXCEPT ![b] = IdlePoll]
    /\ UNCHANGED <<owner, pr, readable, prAgent, prCopy, failures, job>>

HandleMerged(b) ==
    /\ prInbox[b] \in {"merged", "merged with window"}
    /\ prInbox' = [prInbox EXCEPT ![b] = "none"]
    /\ failures' = [failures EXCEPT ![b] = 0]
    /\ IF prInbox[b] = "merged with window" /\ prCopy[b].status \in {"review", "done"}
       THEN job' = [job EXCEPT ![b] = "kill window"]
       ELSE UNCHANGED job
    /\ UNCHANGED <<prRow, owner, pr, readable, prAgent, prCopy, poll, losses>>

(* An open or a closed pull request was read.                              *)
HandleSeen(b) ==
    /\ prInbox[b] = "seen"
    /\ prInbox' = [prInbox EXCEPT ![b] = "none"]
    /\ failures' = [failures EXCEPT ![b] = 0]
    /\ UNCHANGED <<prRow, owner, pr, readable, prAgent, prCopy, poll, job, losses>>

(* The board backs off; the counter that gives up is left alone.           *)
HandleTransient(b) ==
    /\ prInbox[b] = "failed"
    /\ prInbox' = [prInbox EXCEPT ![b] = "none"]
    /\ UNCHANGED <<prRow, owner, pr, readable, prAgent, prCopy, poll, failures, job, losses>>

(* The counter passes the threshold once, and that once is reported.       *)
HandlePermanent(b) ==
    /\ prInbox[b] = "failed for good"
    /\ prInbox' = [prInbox EXCEPT ![b] = "none"]
    /\ failures' = [failures EXCEPT ![b] = @ + 1]
    /\ IF /\ failures[b] + 1 = GiveUpAfter
          /\ prCopy[b].status = "review"
          /\ prCopy[b].sub # "pr_unreachable"
       THEN job' = [job EXCEPT ![b] = "report unreadable"]
       ELSE UNCHANGED job
    /\ UNCHANGED <<prRow, owner, pr, readable, prAgent, prCopy, poll, losses>>

ReportUnreadable(b) ==
    /\ job[b] = "report unreadable"
    /\ job' = [job EXCEPT ![b] = "none"]
    /\ \/ prRow' = Unreadable(prRow) /\ UNCHANGED losses
       \/ Lose /\ UNCHANGED prRow
    /\ UNCHANGED <<owner, pr, readable, prAgent, prCopy, poll, prInbox, failures>>

KillWindow(b) ==
    /\ job[b] = "kill window"
    /\ job' = [job EXCEPT ![b] = "none"]
    /\ prAgent' = "none"
    /\ UNCHANGED <<prRow, owner, pr, readable, prCopy, poll, prInbox, failures, losses>>

RefreshRead(b) ==
    /\ prCopy[b] # prRow
    /\ prCopy' = [prCopy EXCEPT ![b] = prRow]
    /\ UNCHANGED <<prRow, owner, pr, readable, prAgent, poll, prInbox, failures, job, losses>>

Restart(b) ==
    /\ "restart" \in PrEvents
    /\ <<poll[b], prInbox[b], failures[b], job[b]>> # <<IdlePoll, "none", 0, "none">>
    /\ prCopy' = [prCopy EXCEPT ![b] = prRow]
    /\ poll' = [poll EXCEPT ![b] = IdlePoll]
    /\ prInbox' = [prInbox EXCEPT ![b] = "none"]
    /\ failures' = [failures EXCEPT ![b] = 0]
    /\ job' = [job EXCEPT ![b] = "none"]
    /\ UNCHANGED <<prRow, owner, pr, readable, prAgent, losses>>

----------------------------------------------------------------------------
(* GitHub, the agent and the people *)

(* Only a merged pull request stays as it is.                              *)
ReviewPr(p) ==
    /\ "review" \in PrEvents
    /\ pr[p] # "MERGED"
    /\ \E s \in PrState \ {pr[p]} : pr' = [pr EXCEPT ![p] = s]
    /\ UNCHANGED <<prRow, owner, readable, prAgent, readerVars, losses>>

ChangeAccess(p) ==
    /\ "access" \in PrEvents
    /\ readable' = [readable EXCEPT ![p] = ~@]
    /\ UNCHANGED <<prRow, owner, pr, prAgent, readerVars, losses>>

EditUrl(p) ==
    /\ "edit url" \in PrEvents
    /\ p # prRow.url
    /\ prRow' = [prRow EXCEPT !.url = p]
    /\ UNCHANGED <<owner, pr, readable, prAgent, readerVars, losses>>

FindConflict ==
    /\ "conflict" \in PrEvents
    /\ prRow.status = "review"
    /\ prRow' = [prRow EXCEPT !.sub = "conflict"]
    /\ UNCHANGED <<owner, pr, readable, prAgent, readerVars, losses>>

(* A task without a worktree gets one, on the machine of its agent.        *)
DispatchTask(b) ==
    /\ "dispatch" \in PrEvents
    /\ prRow.status = "review" /\ prRow.host = Nobody
    /\ prRow' = [prRow EXCEPT !.status = "running", !.sub = "active", !.host = b, !.window = TRUE]
    /\ prAgent' = "works"
    /\ UNCHANGED <<owner, pr, readable, readerVars, losses>>

(* The Stop hook of an agent.                                              *)
AgentStops ==
    /\ prAgent = "works"
    /\ prAgent' = "rests"
    /\ prRow' = IF prRow.status = "running"
              THEN [prRow EXCEPT !.status = "review", !.sub = "awaiting_review"] ELSE prRow
    /\ UNCHANGED <<owner, pr, readable, readerVars, losses>>

(* The prompt hook of an agent.                                            *)
AgentIsPrompted ==
    /\ "prompt" \in PrEvents
    /\ prAgent = "rests"
    /\ prAgent' = "works"
    /\ prRow' = IF prRow.status \in {"running", "review"}
              THEN [prRow EXCEPT !.status = "running", !.sub = "active"] ELSE prRow
    /\ UNCHANGED <<owner, pr, readable, readerVars, losses>>

(* A board moves the card, and forgets what it counted of the task.        *)
MoveCard(b, status) ==
    /\ "move" \in PrEvents
    /\ ~prRow.window
    /\ prCopy[b] = prRow
    /\ status \in {"review", "done"} \ {prRow.status}
    /\ prRow' = [prRow EXCEPT !.status = status, !.sub = MovedSub(status)]
    /\ prCopy' = [prCopy EXCEPT ![b] = prRow']
    /\ failures' = [failures EXCEPT ![b] = 0]
    /\ UNCHANGED <<owner, pr, readable, prAgent, poll, prInbox, job, losses>>

----------------------------------------------------------------------------
PrStartRow ==
    [status |-> "review", sub |-> "awaiting_review", url |-> FirstPr, host |-> Hosted,
     window |-> Hosted # Nobody]

PrInit ==
    /\ prSetting \in PrSettings
    /\ prRow = PrStartRow
    /\ owner = Nobody
    /\ pr = [p \in Pr |-> "OPEN"]
    /\ readable = [p \in Pr |-> p \notin Private]
    /\ prAgent = IF Hosted = Nobody THEN "none" ELSE "rests"
    /\ prCopy = [b \in PrBoard |-> PrStartRow]
    /\ poll = [b \in PrBoard |-> IdlePoll]
    /\ prInbox = [b \in PrBoard |-> "none"]
    /\ failures = [b \in PrBoard |-> 0]
    /\ job = [b \in PrBoard |-> "none"]
    /\ losses = 0
    /\ prQuiet = FALSE

PollStep(b) ==
    /\ \/ TickPrPoll(b)
       \/ CheckOwner(b)
       \/ ClaimOwner(b)
       \/ ReadPr(b)
       \/ LookAtTask(b)
       \/ ReportStatus(b)
    /\ UNCHANGED prQuiet

HandleAnswer(b) ==
    /\ \/ HandleMerged(b)
       \/ HandleSeen(b)
       \/ HandleTransient(b)
       \/ HandlePermanent(b)
    /\ UNCHANGED prQuiet

RunJob(b) ==
    /\ \/ ReportUnreadable(b)
       \/ KillWindow(b)
    /\ UNCHANGED prQuiet

See(b) == RefreshRead(b) /\ UNCHANGED prQuiet

Stop == AgentStops /\ UNCHANGED prQuiet

Outside ==
    /\ ~prQuiet
    /\ \/ \E p \in Pr : ReviewPr(p) \/ ChangeAccess(p) \/ EditUrl(p)
       \/ FindConflict
       \/ \E b \in PrBoard : DispatchTask(b) \/ Restart(b)
       \/ AgentIsPrompted
       \/ \E b \in PrBoard, status \in {"review", "done"} : MoveCard(b, status)
    /\ UNCHANGED prQuiet

(* From here on GitHub, the people, the prompts and the crashes are done.  *)
OutsideEnds ==
    /\ ~prQuiet
    /\ prQuiet' = TRUE
    /\ UNCHANGED <<prRow, owner, pr, readable, prAgent, readerVars, losses>>

PrStep ==
    \/ \E b \in PrBoard : PollStep(b) \/ HandleAnswer(b) \/ RunJob(b) \/ See(b)
    \/ Stop
    \/ Outside
    \/ OutsideEnds

PrNext == PrStep /\ UNCHANGED prSetting

PrSpec == PrInit /\ [][PrNext]_prVars

(* The tick of a board comes around and every spawned job ends; an agent   *)
(* stops in the end. Nobody has to do anything outside.                    *)
PrFairSpec ==
    /\ PrSpec
    /\ \A b \in PrBoard : /\ WF_pollVars(PollStep(b))
                          /\ WF_pollVars(HandleAnswer(b))
                          /\ WF_pollVars(RunJob(b))
                          /\ WF_pollVars(See(b))
    /\ WF_pollVars(Stop)

----------------------------------------------------------------------------
(* Properties *)

PrTypeOK ==
    /\ prRow \in PrRow
    /\ owner \in PrBoard \cup {Nobody}
    /\ pr \in [Pr -> PrState]
    /\ readable \in [Pr -> BOOLEAN]
    /\ prAgent \in {"none", "works", "rests"}
    /\ prCopy \in [PrBoard -> PrRow]
    /\ poll \in [PrBoard -> Poll]
    /\ prInbox \in [PrBoard -> Answer]
    /\ failures \in [PrBoard -> 0..GiveUpAfter]
    /\ job \in [PrBoard -> Job]
    /\ losses \in 0..MaxLosses
    /\ prQuiet \in BOOLEAN

(* What GitHub says of the task's pull request is what the task shows.     *)
ShowsItsPr ==
    prRow.status = "review" =>
        LET state == pr[prRow.url] IN
        CASE state = "MERGED" -> FALSE
          [] state = "CLOSED" -> prRow.sub = "pr_closed"
          [] OTHER -> prRow.sub \in {"conflict", ReviewSub(state)}

(* Once GitHub, the people and the agents leave the task alone, it comes   *)
(* to show the state of its pull request, and a merge closes it, whichever *)
(* board reads it and whatever was lost on the way.                        *)
TaskFollowsItsPr == <>prQuiet => <>[]ShowsItsPr

(* The same for a pull request the task was given later, when it is one    *)
(* the account can read.                                                   *)
NewPrIsRead == <>[](prQuiet /\ readable[prRow.url]) => <>[]ShowsItsPr

(* A task without a worktree is given up by one board at most: the one     *)
(* that owns its poll. The other boards read it once, if at all.           *)
OneBoardGivesUp == \A a, b \in PrBoard : GaveUp(a) /\ GaveUp(b) => a = b

(* A board that gave up says so: the task shows it, or the report is on    *)
(* its way.                                                                *)
GiveUpIsShown ==
    \A b \in PrBoard : GaveUp(b) /\ prRow.status = "review" =>
        prRow.sub \in {"pr_unreachable", "conflict"} \/ job[b] = "report unreadable"

(* A task with a host is read by its board alone; one without, by the      *)
(* owner, and once by whoever asked before there was one.                  *)
OneReader == Hosted # Nobody \/ \A a, b \in PrBoard : a = b

(* No claim is lost, so whoever does not get to own the poll reads once.   *)
OwnersDecide ==
    OneReader \/ (MaxLosses = 0 /\ GiveUpAfter > 1 /\ "dispatch" \notin PrEvents)

(* A pull request that cannot be read is given up by one board, for all,   *)
(* and that board says so, where no call is lost and nobody moves the task *)
(* on while it is given up.                                                *)
GiveUpsAreShown ==
    /\ PrTypeOK
    /\ OwnersDecide => OneBoardGivesUp
    /\ OneReader /\ MaxLosses = 0 /\ {"dispatch", "move", "prompt"} \cap PrEvents = {} =>
           GiveUpIsShown

(* A pull request that stays unreadable is shown as such in the end, or    *)
(* the conflict a person found is.                                         *)
UnreadableIsShown ==
    <>[](prQuiet /\ ~readable[prRow.url] /\ prRow.status = "review")
        => <>[](prRow.sub \in {"pr_unreachable", "conflict"})

(* A merge that ends the task's window in the store ends it on the host    *)
(* too: no session is left over that no row names.                         *)
MergedWindowsAreKilled ==
    <>prQuiet => <>[](prRow.status = "done" => prAgent = "none")

(* A report ends a task for the pull request the task has.                 *)
MergesAreOfTheTasksPr ==
    [][prRow'.status = "done" /\ prRow.status = "review" => pr[prRow.url] = "MERGED"]_prRow

(* Only the window of a task that is over is killed.                       *)
WorkIsNotKilled ==
    [][prAgent' = "none" /\ prAgent # "none" => prRow.status # "running"]_prAgent
=============================================================================
