---------------------------- MODULE Hosts_proofs ----------------------------
(***************************************************************************)
(* Proofs about three things a machine does: the git half of a wrap-up,    *)
(* for any number of tasks of a repository, pushed commits and outside     *)
(* events; a board's connection to the store, for any number of            *)
(* connections, any bound on failures and any of them; and the polling of  *)
(* a feed epic, for any hosts, boards and items and any settings of a      *)
(* behaviour.                                                              *)
(*                                                                         *)
(* What makes a wrap-up safe among others is the place each attempt holds: *)
(* from its check to its fast-forward the primary checkout is on the base  *)
(* branch, a merge or a stopped rebase has the attempt that will abort it, *)
(* and the base branch only grows.                                         *)
(*                                                                         *)
(* A connection that was let go may deliver rows for a while, so that rows *)
(* are the board's own is a fact about every connection it ever asked:     *)
(* they were all offered the identity on its disk, which the credential on *)
(* the disk goes on to obtain.                                             *)
(*                                                                         *)
(* Of a feed there are three arguments, each resting on the one before.    *)
(* No two boards serve one row, because a claimed row is not claimed again *)
(* within the grace.  No reconcile works from an emission older than       *)
(* another's writes, because only the owner's board writes and an owner    *)
(* that lost the poll never has it back.  So what a removed task leaves on *)
(* disk has one path that owes it: the item never returns while that path  *)
(* is not at its end.                                                      *)
(***************************************************************************)
EXTENDS FinishTask, StoreConnection, FeedRequests, FiniteSetTheorems, TLAPS

----------------------------------------------------------------------------
(* FinishTask: wrap-ups among others *)

(* The primary checkout stays on the base branch between an attempt's check *)
(* and its fast-forward.                                                    *)
OnBase ==
    \A t \in Task : step[t] \in {"pull", "rebase", "fast forward"} => head = "base"

(* What was fast-forwarded is on the base branch, before it is reported and *)
(* after.                                                                   *)
Merged ==
    \A t \in Task : step[t] = "rebased" \/ row[t] = "done" => branch[t] \subseteq tip["base"]

(* A task whose wrap-up is done is not worked on.                           *)
DoneIsOver == \A t \in Task : row[t] = "done" => ~Serving(t)

(* Whatever git is left in the middle of, an attempt is about to abort it.  *)
AbortsAreDue ==
    \A t \in Task :
        /\ merge = t => step[t] = "abort pull"
        /\ worktree[t] # "clean" => step[t] \in {"abort rebase", "abort conflict"}

FinishInv ==
    /\ FinishTypeOK
    /\ DoneIsOver
    /\ "check out" \notin Events => OnBase /\ Merged
    /\ {"crash", "abort fails"} \cap Events = {} => AbortsAreDue

LEMMA FinishTypesStep == FinishTypeOK /\ [FinishNext]_finishVars => FinishTypeOK'
<1> SUFFICES ASSUME FinishTypeOK, [FinishNext]_finishVars PROVE FinishTypeOK'
    OBVIOUS
<1> USE DEF FinishTypeOK, Goto, AttemptStep, primary, rowVars
<1>0. origin \cup tip[head] \subseteq Commit
    OBVIOUS
<1>1. ASSUME NEW t \in Task, RequestWrapUp(t) PROVE FinishTypeOK'
    BY <1>1 DEF RequestWrapUp
<1>2. ASSUME NEW t \in Task, Resolve(t) PROVE FinishTypeOK'
    BY <1>2 DEF Resolve
<1>3. ASSUME NEW t \in Task, DeadlinePasses(t) \/ Backstop(t) PROVE FinishTypeOK'
    BY <1>3 DEF DeadlinePasses, Backstop
<1>4. ASSUME NEW t \in Task, HostStep(t) PROVE FinishTypeOK'
    <2>1. CASE CheckPrimaryWorktree(t) BY <2>1 DEF CheckPrimaryWorktree
    <2>2. CASE PullBase(t)
        <3>1. merge' \in Task \cup {Person, Nobody}
            BY <2>2 DEF PullBase, PullSucceeds, PullFails, PullIsNotTried
        <3>2. tip' \in [{"base", "other"} -> SUBSET Commit]
            BY <2>2, <1>0 DEF PullBase, PullSucceeds, PullFails, PullIsNotTried
        <3>3. step' \in [Task -> {"idle"} \cup AttemptStep]
            BY <2>2 DEF PullBase, PullSucceeds, PullFails, PullIsNotTried
        <3> QED BY <2>2, <3>1, <3>2, <3>3 DEF PullBase
    <2>3. CASE AbortMergeIfInProgress(t) BY <2>3 DEF AbortMergeIfInProgress
    <2>4. CASE RebaseBranch(t)
        <3>1. branch' \in [Task -> SUBSET Commit]
            BY <2>4 DEF RebaseBranch, RebaseSucceeds, RebaseConflicts, RebaseFails
        <3>2. worktree' \in [Task -> {"clean", "stopped", "conflicted"}]
            BY <2>4 DEF RebaseBranch, RebaseSucceeds, RebaseConflicts, RebaseFails
        <3>3. step' \in [Task -> {"idle"} \cup AttemptStep]
            BY <2>4 DEF RebaseBranch, RebaseSucceeds, RebaseConflicts, RebaseFails
        <3> QED BY <2>4, <3>1, <3>2, <3>3 DEF RebaseBranch
    <2>5. CASE AbortRebase(t) BY <2>5 DEF AbortRebase
    <2>6. CASE FastForwardBase(t) BY <2>6 DEF FastForwardBase
    <2>7. CASE ReportRebase(t) BY <2>7 DEF ReportRebase, Reported
    <2> QED BY <1>4, <2>1, <2>2, <2>3, <2>4, <2>5, <2>6, <2>7 DEF HostStep
<1>5. CASE PersonStep
    <2>1. CASE CheckOut BY <2>1 DEF CheckOut
    <2>2. CASE PersonMerges \/ PersonConcludes BY <2>2 DEF PersonMerges, PersonConcludes
    <2>3. CASE TeammatePushes BY <2>3 DEF TeammatePushes, Commit
    <2>4. CASE PersonPushes BY <2>4 DEF PersonPushes
    <2>5. CASE FallQuiet BY <2>5 DEF FallQuiet
    <2> QED BY <1>5, <2>1, <2>2, <2>3, <2>4, <2>5 DEF PersonStep
<1>6. CASE Crash
    BY <1>6 DEF Crash
<1>7. CASE UNCHANGED finishVars
    BY <1>7 DEF finishVars
<1> QED
    BY <1>1, <1>2, <1>3, <1>4, <1>5, <1>6, <1>7 DEF FinishNext

LEMMA BaseGrowsStep ==
    FinishTypeOK /\ [FinishNext]_finishVars => tip["base"] \subseteq tip'["base"]
<1> SUFFICES ASSUME FinishTypeOK, [FinishNext]_finishVars
             PROVE tip["base"] \subseteq tip'["base"]
    OBVIOUS
<1> USE DEF FinishTypeOK, primary, rowVars
<1>1. ASSUME NEW t \in Task, RequestWrapUp(t) \/ Resolve(t) \/ DeadlinePasses(t) \/ Backstop(t)
      PROVE UNCHANGED tip
    BY <1>1 DEF RequestWrapUp, Resolve, DeadlinePasses, Backstop
<1>2. ASSUME NEW t \in Task, HostStep(t) PROVE tip["base"] \subseteq tip'["base"]
    <2>1. CASE PullBase(t)
        BY <2>1 DEF PullBase, PullSucceeds, PullFails, PullIsNotTried
    <2>2. CASE FastForwardBase(t)
        BY <2>2 DEF FastForwardBase, MayFastForward
    <2> QED
        BY <1>2, <2>1, <2>2 DEF HostStep, CheckPrimaryWorktree, AbortMergeIfInProgress,
                                RebaseBranch, AbortRebase, ReportRebase
<1>3. CASE PersonStep
    BY <1>3 DEF PersonStep, CheckOut, PersonMerges, PersonConcludes, TeammatePushes,
                PersonPushes, FallQuiet
<1>4. CASE Crash \/ UNCHANGED finishVars
    BY <1>4 DEF Crash, finishVars
<1> QED
    BY <1>1, <1>2, <1>3, <1>4 DEF FinishNext

LEMMA DoneIsOverStep ==
    FinishTypeOK /\ DoneIsOver /\ [FinishNext]_finishVars => DoneIsOver'
<1> SUFFICES ASSUME FinishTypeOK, DoneIsOver, [FinishNext]_finishVars,
                    NEW u \in Task, row'[u] = "done"
             PROVE step'[u] = "idle"
    BY DEF DoneIsOver, Serving
<1> USE DEF FinishTypeOK, DoneIsOver, Serving, Goto, primary, rowVars
<1>1. ASSUME NEW t \in Task, RequestWrapUp(t) \/ Resolve(t) \/ DeadlinePasses(t) \/ Backstop(t)
      PROVE step'[u] = "idle"
    BY <1>1 DEF RequestWrapUp, Resolve, DeadlinePasses, Backstop
<1>2. ASSUME NEW t \in Task, HostStep(t) PROVE step'[u] = "idle"
    <2>1. CASE ReportRebase(t)
        BY <2>1 DEF ReportRebase
    <2>2. CASE ~ReportRebase(t)
        <3>1. step[t] # "idle" /\ row' = row /\ (u # t => step'[u] = step[u])
            BY <1>2, <2>2 DEF HostStep, CheckPrimaryWorktree, PullBase, PullSucceeds, PullFails,
                              PullIsNotTried, AbortMergeIfInProgress, RebaseBranch,
                              RebaseSucceeds, RebaseConflicts, RebaseFails, AbortRebase,
                              FastForwardBase
        <3> QED BY <3>1
    <2> QED BY <2>1, <2>2
<1>3. CASE PersonStep
    BY <1>3 DEF PersonStep, CheckOut, PersonMerges, PersonConcludes, TeammatePushes,
                PersonPushes, FallQuiet
<1>4. CASE Crash \/ UNCHANGED finishVars
    BY <1>4 DEF Crash, finishVars
<1> QED
    BY <1>1, <1>2, <1>3, <1>4 DEF FinishNext

LEMMA OnBaseStep ==
    FinishTypeOK /\ "check out" \notin Events /\ OnBase /\ [FinishNext]_finishVars => OnBase'
<1> SUFFICES ASSUME FinishTypeOK, "check out" \notin Events, OnBase, [FinishNext]_finishVars,
                    NEW u \in Task, step'[u] \in {"pull", "rebase", "fast forward"}
             PROVE head' = "base"
    BY DEF OnBase
<1> USE DEF FinishTypeOK, OnBase, Goto, primary, rowVars
<1>1. ASSUME NEW t \in Task, RequestWrapUp(t) \/ Resolve(t) \/ DeadlinePasses(t) \/ Backstop(t)
      PROVE head' = "base"
    BY <1>1 DEF RequestWrapUp, Resolve, DeadlinePasses, Backstop
<1>2. ASSUME NEW t \in Task, HostStep(t) PROVE head' = "base"
    <2>1. CASE CheckPrimaryWorktree(t) BY <2>1 DEF CheckPrimaryWorktree
    <2>2. CASE PullBase(t)
        BY <2>2 DEF PullBase, PullSucceeds, PullFails, PullIsNotTried
    <2>3. CASE RebaseBranch(t)
        BY <2>3 DEF RebaseBranch, RebaseSucceeds, RebaseConflicts, RebaseFails
    <2>4. CASE AbortMergeIfInProgress(t) BY <2>4 DEF AbortMergeIfInProgress
    <2>5. CASE AbortRebase(t) BY <2>5 DEF AbortRebase
    <2>6. CASE FastForwardBase(t) BY <2>6 DEF FastForwardBase
    <2>7. CASE ReportRebase(t) BY <2>7 DEF ReportRebase
    <2> QED BY <1>2, <2>1, <2>2, <2>3, <2>4, <2>5, <2>6, <2>7 DEF HostStep
<1>3. CASE PersonStep
    BY <1>3 DEF PersonStep, CheckOut, PersonMerges, PersonConcludes, TeammatePushes,
                PersonPushes, FallQuiet
<1>4. CASE Crash \/ UNCHANGED finishVars
    BY <1>4 DEF Crash, finishVars
<1> QED
    BY <1>1, <1>2, <1>3, <1>4 DEF FinishNext

(* Only a fast-forward on the base branch makes a task "rebased", only a    *)
(* rebased one is reported done, and a branch moves while neither holds.    *)
LEMMA MergedStep ==
    /\ FinishTypeOK /\ DoneIsOver /\ "check out" \notin Events /\ OnBase /\ Merged
    /\ [FinishNext]_finishVars
    => Merged'
<1> SUFFICES ASSUME FinishTypeOK, DoneIsOver, "check out" \notin Events, OnBase, Merged,
                    [FinishNext]_finishVars,
                    NEW u \in Task, step'[u] = "rebased" \/ row'[u] = "done"
             PROVE branch'[u] \subseteq tip'["base"]
    BY DEF Merged
<1>0. tip["base"] \subseteq tip'["base"]
    BY BaseGrowsStep
<1>f. ASSUME step[u] = "rebased" \/ row[u] = "done", branch'[u] = branch[u]
      PROVE branch'[u] \subseteq tip'["base"]
    BY <1>f, <1>0 DEF Merged
<1> USE DEF FinishTypeOK, DoneIsOver, Serving, Goto, primary, rowVars
<1>1. ASSUME NEW t \in Task, RequestWrapUp(t) \/ Resolve(t) \/ DeadlinePasses(t) \/ Backstop(t)
      PROVE branch'[u] \subseteq tip'["base"]
    BY <1>1, <1>f DEF RequestWrapUp, Resolve, DeadlinePasses, Backstop
<1>2. ASSUME NEW t \in Task, HostStep(t) PROVE branch'[u] \subseteq tip'["base"]
    <2>1. CASE CheckPrimaryWorktree(t) BY <2>1, <1>f DEF CheckPrimaryWorktree
    <2>2. CASE PullBase(t)
        BY <2>2, <1>f DEF PullBase, PullSucceeds, PullFails, PullIsNotTried
    <2>3. CASE RebaseBranch(t)
        BY <2>3, <1>f DEF RebaseBranch, RebaseSucceeds, RebaseConflicts, RebaseFails
    <2>4. CASE AbortMergeIfInProgress(t) BY <2>4, <1>f DEF AbortMergeIfInProgress
    <2>5. CASE AbortRebase(t) BY <2>5, <1>f DEF AbortRebase
    <2>6. CASE FastForwardBase(t)
        BY <2>6, <1>f DEF FastForwardBase, OnBase
    <2>7. CASE ReportRebase(t) BY <2>7, <1>f DEF ReportRebase, Reported
    <2> QED BY <1>2, <2>1, <2>2, <2>3, <2>4, <2>5, <2>6, <2>7 DEF HostStep
<1>3. CASE PersonStep
    BY <1>3, <1>f DEF PersonStep, CheckOut, PersonMerges, PersonConcludes, TeammatePushes,
                PersonPushes, FallQuiet
<1>4. CASE Crash \/ UNCHANGED finishVars
    BY <1>4, <1>f DEF Crash, finishVars
<1> QED
    BY <1>1, <1>2, <1>3, <1>4 DEF FinishNext

(* A pull or a rebase that stops in the middle is followed by its abort.    *)
LEMMA AbortsAreDueStep ==
    /\ FinishTypeOK /\ {"crash", "abort fails"} \cap Events = {} /\ AbortsAreDue
    /\ [FinishNext]_finishVars
    => AbortsAreDue'
<1> SUFFICES ASSUME FinishTypeOK, {"crash", "abort fails"} \cap Events = {}, AbortsAreDue,
                    [FinishNext]_finishVars, NEW u \in Task
             PROVE /\ merge' = u => step'[u] = "abort pull"
                   /\ worktree'[u] # "clean" => step'[u] \in {"abort rebase", "abort conflict"}
    BY DEF AbortsAreDue
<1> USE FinishTaskAssumption DEF FinishTypeOK, AbortsAreDue, Goto, Serving, primary, rowVars
<1> DEFINE Due == /\ merge' = u => step'[u] = "abort pull"
                  /\ worktree'[u] # "clean" => step'[u] \in {"abort rebase", "abort conflict"}
<1>1. ASSUME NEW t \in Task, RequestWrapUp(t) \/ Resolve(t) \/ DeadlinePasses(t) \/ Backstop(t)
      PROVE Due
    BY <1>1 DEF RequestWrapUp, Resolve, DeadlinePasses, Backstop
<1>2. ASSUME NEW t \in Task, HostStep(t) PROVE Due
    <2>1. CASE CheckPrimaryWorktree(t) BY <2>1 DEF CheckPrimaryWorktree
    <2>2. CASE PullBase(t)
        BY <2>2 DEF PullBase, PullSucceeds, PullFails, PullIsNotTried
    <2>3. CASE RebaseBranch(t)
        BY <2>3 DEF RebaseBranch, RebaseSucceeds, RebaseConflicts, RebaseFails
    <2>4. CASE AbortMergeIfInProgress(t) BY <2>4 DEF AbortMergeIfInProgress
    <2>5. CASE AbortRebase(t) BY <2>5 DEF AbortRebase
    <2>6. CASE FastForwardBase(t) BY <2>6 DEF FastForwardBase
    <2>7. CASE ReportRebase(t) BY <2>7 DEF ReportRebase
    <2> QED BY <1>2, <2>1, <2>2, <2>3, <2>4, <2>5, <2>6, <2>7 DEF HostStep
<1>3. CASE PersonStep
    BY <1>3 DEF PersonStep, CheckOut, PersonMerges, PersonConcludes, TeammatePushes,
                PersonPushes, FallQuiet
<1>4. CASE UNCHANGED finishVars
    BY <1>4 DEF finishVars
<1>5. ~Crash
    BY DEF Crash
<1> QED
    BY <1>1, <1>2, <1>3, <1>4, <1>5 DEF FinishNext

LEMMA FinishInvHolds == FinishSpec => []FinishInv
<1>1. FinishInit => FinishInv
    <2> SUFFICES ASSUME FinishInit PROVE FinishInv
        OBVIOUS
    <2>1. FinishTypeOK
        BY DEF FinishInit, FinishTypeOK, Commit
    <2>2. DoneIsOver /\ OnBase /\ Merged
        BY DEF FinishInit, DoneIsOver, OnBase, Merged, Serving
    <2>3. AbortsAreDue
        BY FinishTaskAssumption DEF FinishInit, AbortsAreDue
    <2> QED BY <2>1, <2>2, <2>3 DEF FinishInv
<1>2. FinishInv /\ [FinishNext]_finishVars => FinishInv'
    BY FinishTypesStep, DoneIsOverStep, OnBaseStep, MergedStep, AbortsAreDueStep DEF FinishInv
<1> QED
    BY <1>1, <1>2, PTL DEF FinishSpec

(* Whatever other wrap-ups, pulls, pushes, deadlines and killed commands run *)
(* between an attempt's check and its fast-forward, a task whose wrap-up is *)
(* reported done has landed (unless a person changes branches in the middle) *)
(* and an attempt that is over leaves no merge and no rebase behind (unless *)
(* the board dies or an abort fails): finish_task_with_abort_runner.        *)
THEOREM WrapUpsEndClean == FinishSpec => []WrapUpsAreClean
<1>1. FinishInv => WrapUpsAreClean
    <2> SUFFICES ASSUME FinishInv PROVE WrapUpsAreClean
        OBVIOUS
    <2>1. "check out" \notin Events => ReportedMeansLanded
        BY DEF FinishInv, Merged, ReportedMeansLanded
    <2>2. {"crash", "abort fails"} \cap Events = {} => HostLeavesGitClean
        BY DEF FinishInv, AbortsAreDue, HostLeavesGitClean, Serving
    <2> QED BY <2>1, <2>2 DEF WrapUpsAreClean
<1> QED
    BY <1>1, FinishInvHolds, PTL

(* No wrap-up, whoever else uses the checkout, takes a commit off the base  *)
(* branch: a pull and a fast-forward only add to it (fast_forward_base's    *)
(* --ff-only), so what has landed stays landed.                             *)
THEOREM BaseOnlyGrows == FinishSpec => [][tip["base"] \subseteq tip'["base"]]_finishVars
<1>1. FinishInv /\ [FinishNext]_finishVars => [tip["base"] \subseteq tip'["base"]]_finishVars
    BY BaseGrowsStep DEF FinishInv
<1> QED
    BY <1>1, FinishInvHolds, PTL DEF FinishSpec

----------------------------------------------------------------------------
(* StoreConnection: who a board says it is *)

(* An attempt was offered what the credential on the disk obtains, and what *)
(* was made up is kept with the credential that obtains it.                 *)
OfferStands ==
    /\ pc \in {"accepted", "coming up", "subscribing"} => offered = Offer(token)
    /\ stored = "fresh" => token = "fresh"

(* Once anything was asked for, the disk, the credential and the offers     *)
(* agree for good.                                                          *)
AskedAsItself ==
    asked # {} \/ rows # {} => stored \in Identity /\ token = stored /\ offered = stored

(* How far an attempt has come.                                             *)
AttemptStands ==
    /\ pc \in {"opening", "accepted"} => status = "connecting"
    /\ pc \in {"coming up", "subscribing"} => status = "connected" /\ stored \in {NoIdentity, offered}
    /\ pc = "subscribing" => stored \in Identity

(* The connection held is asked for rows exactly while the board is         *)
(* connected and past the asking.                                           *)
HeldIsAsked ==
    /\ slot \in asked => status = "connected"
    /\ status = "connected" /\ pc \in {"idle", "subscribing"} =>
           slot # NoConn /\ (slot \in asked \/ thread[slot] = "none")

(* Only a thread delivers, and only the one of the connection held is open. *)
ThreadsServe ==
    /\ \A c \in asked : thread[c] # "none"
    /\ \A c \in Conn : thread[c] = "live" => c = slot

(* With a backoff that outlasts the threads, an attempt begins when nothing *)
(* that was let go delivers any more.                                       *)
OldThreadsAreOver ==
    /\ status = "connecting" => asked = {} /\ (pc = "accepted" => rows = {})
    /\ status = "connected" => asked \cup rows \subseteq {slot}

ConnectionInv ==
    /\ TypeOK
    /\ OfferStands
    /\ AskedAsItself
    /\ AttemptStands
    /\ HeldIsAsked
    /\ ThreadsServe
    /\ Prompt => OldThreadsAreOver

LEMMA ConnectionStep == ConnectionInv /\ [Next]_vars => ConnectionInv'
<1> SUFFICES ASSUME ConnectionInv, [Next]_vars PROVE ConnectionInv'
    OBVIOUS
<1> USE StoreConnectionAssumption
    DEF ConnectionInv, TypeOK, OfferStands, AskedAsItself, AttemptStands, HeldIsAsked,
        ThreadsServe, OldThreadsAreOver, Identity, NoIdentity, InAttempt,
        sessionVars, diskVars, connectorVars
<1>1. CASE BeginAttempt
    BY <1>1 DEF BeginAttempt
<1>2. CASE ConnectFails
    BY <1>2 DEF ConnectFails, AbortStartup, Free, Fails
<1>3. CASE Connect
    BY <1>3 DEF Connect, Install, Closed, Free, Offer
<1>4. CASE IdentityUnreadable
    BY <1>4 DEF IdentityUnreadable, AbortStartup, Fails
<1>5. CASE Settle
    BY <1>5 DEF Settle, IsConflict
<1>6. CASE Conflict
    BY <1>6 DEF Conflict, AbortStartup, Disconnect, Closed, IsConflict
<1>7. CASE Adopt
    BY <1>7 DEF Adopt, Offer
<1>8. CASE Subscribe
    BY <1>8 DEF Subscribe, Offer
<1>9. CASE Applied
    BY <1>9 DEF Applied
<1>10. CASE ComingUpFails
    BY <1>10 DEF ComingUpFails, Fails, GoDown, AbortStartup, Disconnect, Closed
<1>11. CASE SubscribeFails
    BY <1>11 DEF SubscribeFails, Fails, GoDown, AbortStartup, Disconnect, Closed
<1>12. CASE TakeDrop
    BY <1>12 DEF TakeDrop, GoDown, AbortStartup, Disconnect, Closed
<1>13. CASE RetryDue
    BY <1>13 DEF RetryDue
<1>14. CASE SocketDies
    <2>1. TypeOK'
        BY <1>14 DEF SocketDies, Fails
    <2>2. OfferStands' /\ AskedAsItself'
        BY <1>14 DEF SocketDies, Fails
    <2>3. AttemptStands'
        BY <1>14 DEF SocketDies, Fails
    <2>4. HeldIsAsked'
        BY <1>14 DEF SocketDies, Fails
    <2>5. ThreadsServe'
        BY <1>14 DEF SocketDies, Fails
    <2>6. Prompt => OldThreadsAreOver'
        BY <1>14 DEF SocketDies, Fails
    <2> QED BY <2>1, <2>2, <2>3, <2>4, <2>5, <2>6
<1>15. ASSUME NEW c \in Conn, ReportEnd(c) PROVE ConnectionInv'
    <2>1. TypeOK'
        BY <1>15 DEF ReportEnd
    <2>2. OfferStands' /\ AskedAsItself'
        BY <1>15 DEF ReportEnd
    <2>3. AttemptStands'
        BY <1>15 DEF ReportEnd
    <2>4. HeldIsAsked'
        BY <1>15 DEF ReportEnd
    <2>5. ThreadsServe'
        BY <1>15 DEF ReportEnd
    <2>6. Prompt => OldThreadsAreOver'
        BY <1>15 DEF ReportEnd
    <2> QED BY <2>1, <2>2, <2>3, <2>4, <2>5, <2>6
<1>16. ASSUME NEW c \in Conn, Deliver(c) PROVE ConnectionInv'
    BY <1>16 DEF Deliver
<1>17. CASE UNCHANGED vars
    <2>1. /\ UNCHANGED <<board, status, pc, offered, stored, token>>
          /\ UNCHANGED <<slot, thread, asked, rows, dropped, faults>>
        BY <1>17 DEF vars
    <2>2. TypeOK' BY <2>1
    <2>3. OfferStands' /\ AskedAsItself' BY <2>1 DEF Offer
    <2>4. AttemptStands' /\ HeldIsAsked' BY <2>1
    <2>5. ThreadsServe' /\ (Prompt => OldThreadsAreOver') BY <2>1
    <2> QED BY <2>2, <2>3, <2>4, <2>5
<1> QED
    BY <1>1, <1>2, <1>3, <1>4, <1>5, <1>6, <1>7, <1>8, <1>9, <1>10, <1>11, <1>12, <1>13, <1>14, <1>15, <1>16, <1>17 DEF Next, SessionStep

LEMMA ConnectionInvHolds == Spec => []ConnectionInv
<1>1. Init => ConnectionInv
    BY StoreConnectionAssumption
    DEF Init, ConnectionInv, TypeOK, OfferStands, AskedAsItself, AttemptStands, HeldIsAsked,
        ThreadsServe, OldThreadsAreOver, Identity, NoIdentity, InAttempt
<1> QED
    BY <1>1, ConnectionStep, PTL DEF Spec

(* Whatever fails, however often, and whenever the threads of connections   *)
(* that were let go end: a board asks for rows only as the one on its disk, *)
(* has one open connection at most, never rests connected with nothing      *)
(* subscribed, and, when threads end within the backoff, shows only rows of *)
(* the connection it has (session.rs, attempt; mod.rs, install).            *)
THEOREM BoardsConnectHonestly == Spec => []ConnectionsAreHonest
<1>1. ConnectionInv => ConnectionsAreHonest
    BY DEF ConnectionInv, AskedAsItself, AttemptStands, HeldIsAsked, ThreadsServe,
           OldThreadsAreOver, ConnectionsAreHonest, OnlyItsOwnRows, OneOpenConnection,
           ConnectedMeansSubscribed, ConnectedRowsAreCurrent
<1> QED
    BY <1>1, ConnectionInvHolds, PTL

----------------------------------------------------------------------------
(* FeedRequests: the polling of a feed *)

TaskName == Item \X Nat
RequestRow ==
    [id : Nat, kind : {"refresh", "teardown"}, task : TaskName \cup {NoTask}, host : Host,
     state : {"requested", "running", "done", "failed"}, age : 0..AgeCap, fed : BOOLEAN]
JobOfABoard == [row : Nat, stage : {"claim", "claimed", "cycling", "done", "failed"}]
FeedCycle ==
    [stage : {"none", "claimed", "read", "ingested"}, row : Nat, emission : SUBSET Item,
     additive : BOOLEAN, removed : SUBSET TaskName]
Spending == [overrides : Nat, crashes : Nat, losses : Nat, openings : Nat]
BoardProcess ==
    [up : BOOLEAN, served : SUBSET Nat, jobs : SUBSET JobOfABoard, cycle : FeedCycle]

Types ==
    /\ setting \in FeedSettings
    /\ pollOwner \in Host \cup {NoHost}
    /\ feed \in [Item -> {"open", "closed"}]
    /\ steady \subseteq Open \cap Rows
    /\ removals \in [Item -> Nat]
    /\ tasks \in [Item -> Host \cup {NoHost, NoRow}]
    /\ disk \subseteq TaskName \X Host
    /\ lastId \in 0..MaxRequests
    /\ requests \subseteq RequestRow
    /\ boards \in [Board -> BoardProcess]
    /\ spent \in Spending

----------------------------------------------------------------------------
(* The settings, and the rows an ingest writes *)

LEMMA SettingFacts ==
    ASSUME Types
    PROVE  /\ HostOf \in [Board -> Host]
           /\ Grace \in Nat /\ Stale \in Nat /\ Retention \in Nat /\ AgeCap \in Nat
           /\ MaxRequests \in Nat /\ MaxOverrides \in Nat /\ MaxCrashes \in Nat
           /\ MaxLosses \in Nat /\ AgeCap = 1 + Grace + Stale + Retention
BY FeedAssumption DEF Types, HostOf, Grace, Stale, Retention, AgeCap, MaxRequests,
                      MaxOverrides, MaxCrashes, MaxLosses

(* The setting a behaviour began with stays.                               *)
LEMMA SettingStays == [FeedNext]_feedVars => setting' = setting
<1> SUFFICES ASSUME [FeedNext]_feedVars PROVE setting' = setting
    OBVIOUS
<1> USE DEF KeepTheBoards, KeepTheRows, KeepTheEpic
<1>1. ASSUME NEW i \in Item, ItemOpens(i) \/ ItemCloses(i) \/ \E h \in Host : Dispatch(i, h)
      PROVE setting' = setting
    BY <1>1 DEF ItemOpens, ItemCloses, Dispatch
<1>2. ASSUME NEW h \in Host, OverridePollOwner(h) \/ RequestFeedRefresh(h)
      PROVE setting' = setting
    BY <1>2 DEF OverridePollOwner, RequestFeedRefresh
<1>3. ASSUME NEW b \in Board, PickUp(b) \/ ClaimPollOwner(b) \/ StartCycle(b) \/ FailCycle(b)
                              \/ Die(b) \/ Restart(b)
      PROVE setting' = setting
    BY <1>3 DEF PickUp, ClaimPollOwner, StartCycle, FailCycle, Die, Restart
<1>4. ASSUME NEW b \in Board, Serve(b) PROVE setting' = setting
    BY <1>4 DEF Serve, ClaimFeedRequest, ServeRefresh, ServeTeardown, Report
<1>5. ASSUME NEW b \in Board, Cycle(b) PROVE setting' = setting
    BY <1>5 DEF Cycle, ReadFeed, IngestFeed, CleanUp
<1>6. CASE TimePasses
    BY <1>6 DEF TimePasses
<1>7. CASE UNCHANGED feedVars
    BY <1>7 DEF feedVars
<1> QED BY <1>1, <1>2, <1>3, <1>4, <1>5, <1>6, <1>7 DEF FeedNext

(* A finite set can be numbered, so the rows an ingest writes have ids.    *)
LEMMA Numbering ==
    ASSUME NEW S, IsFiniteSet(S)
    PROVE  /\ Cardinality(S) \in Nat
           /\ InOrder(S) \in [S -> 1..Cardinality(S)]
           /\ \A i, j \in S : InOrder(S)[i] = InOrder(S)[j] => i = j
<1> DEFINE n == Cardinality(S)
           Numbers(f) == \A i, j \in S : f[i] = f[j] => i = j
<1>1. n \in Nat
    BY FS_CardinalityType
<1>2. IsFiniteSet(1..n) /\ Cardinality(1..n) = n
    BY <1>1, FS_Interval
<1>3. ExistsBijection(S, 1..n)
    BY <1>2, FS_SameCardinalityBij
<1>4. \E f \in [S -> 1..n] : Numbers(f)
    BY <1>3 DEF ExistsBijection, Bijection, Injection, IsInjective
<1>5. InOrder(S) = CHOOSE f \in [S -> 1..n] : Numbers(f)
    BY DEF InOrder
<1>6. InOrder(S) \in [S -> 1..n] /\ Numbers(InOrder(S))
    <2> HIDE DEF Numbers, n
    <2> QED BY <1>4, <1>5
<1> QED BY <1>1, <1>6

(* The teardown rows an ingest writes: one for each removed task that      *)
(* another host holds, asked of that host, with ids of their own.          *)
LEMMA TeardownRows ==
    ASSUME Types, NEW gone \in SUBSET Item, NEW host \in Host,
           NEW owed, owed = TeardownRequests(gone, host)
    PROVE  /\ Cardinality(owed) \in Nat
           /\ owed \subseteq RequestRow
           /\ \A r \in owed : /\ r.id \in (lastId + 1)..(lastId + Cardinality(owed))
                              /\ r.kind = "teardown" /\ r.state = "requested"
                              /\ \E i \in gone : r.task = TaskOf(i) /\ r.host = tasks[i]
                              /\ r.host # host
           /\ \A r, q \in owed : r.id = q.id \/ r.task = q.task => r = q
           /\ \A i \in gone : tasks[i] \in Host \ {host} => \E r \in owed : r.task = TaskOf(i)
<1> DEFINE S == {i \in gone : TeardownRequestOwed(i, host)}
           f == InOrder(S)
           Row(i) == [id |-> lastId + f[i], kind |-> "teardown", task |-> TaskOf(i),
                      host |-> tasks[i], state |-> "requested", age |-> 0, fed |-> FALSE]
<1>1. IsFiniteSet(S)
    BY FS_Subset, FeedAssumption
<1>2. /\ Cardinality(S) \in Nat /\ f \in [S -> 1..Cardinality(S)]
      /\ \A i, j \in S : f[i] = f[j] => i = j
    BY <1>1, Numbering
<1>3. owed = {Row(i) : i \in S}
    BY DEF TeardownRequests, Request
<1>4. Cardinality(owed) = Cardinality(S)
    <2> DEFINE g == [i \in S |-> Row(i)]
    <2>1. g \in [S -> owed]
        BY <1>3
    <2>2. \A i, j \in S : g[i] = g[j] => i = j
        BY DEF TaskOf
    <2>3. \A r \in owed : \E i \in S : g[i] = r
        BY <1>3
    <2>4. g \in Bijection(S, owed)
        <3> HIDE DEF g, S
        <3> QED BY <2>1, <2>2, <2>3 DEF Bijection, Injection, Surjection, IsInjective
    <2>5. ExistsBijection(S, owed)
        BY <2>4 DEF ExistsBijection
    <2> QED BY <1>1, <2>5, FS_Bijection
<1>5. lastId \in Nat /\ AgeCap \in Nat
    BY SettingFacts DEF Types
<1>6. \A i \in S : /\ i \in gone /\ tasks[i] \in Host \ {host} /\ f[i] \in 1..Cardinality(S)
    BY <1>2 DEF TeardownRequestOwed
<1>7. \A i \in gone : tasks[i] \in Host \ {host} => i \in S
    BY DEF TeardownRequestOwed
<1>8. owed \subseteq RequestRow
    <2> SUFFICES ASSUME NEW i \in S PROVE Row(i) \in RequestRow
        BY <1>3
    <2>1. lastId + f[i] \in Nat /\ tasks[i] \in Host /\ 0 \in 0..AgeCap
        BY <1>2, <1>5, <1>6
    <2>2. TaskOf(i) \in TaskName
        BY DEF TaskOf, TaskName, Types
    <2> HIDE DEF f
    <2> QED BY <2>1, <2>2 DEF RequestRow
<1>9. ASSUME NEW r \in owed
      PROVE  /\ r.id \in (lastId + 1)..(lastId + Cardinality(owed))
             /\ r.kind = "teardown" /\ r.state = "requested"
             /\ \E i \in gone : r.task = TaskOf(i) /\ r.host = tasks[i]
             /\ r.host # host
    <2>1. PICK i \in S : r = Row(i)
        BY <1>3
    <2> HIDE DEF f, S
    <2> QED BY <1>2, <1>4, <1>5, <1>6, <2>1
<1>10. ASSUME NEW r \in owed, NEW q \in owed, r.id = q.id \/ r.task = q.task PROVE r = q
    <2>1. PICK i \in S : r = Row(i)
        BY <1>3
    <2>2. PICK j \in S : q = Row(j)
        BY <1>3
    <2>3. f[i] \in Nat /\ f[j] \in Nat
        BY <1>2
    <2> HIDE DEF f, S
    <2>4. i = j
        BY <1>2, <1>5, <1>10, <2>1, <2>2, <2>3 DEF TaskOf
    <2> QED BY <2>1, <2>2, <2>4
<1>11. ASSUME NEW i \in gone, tasks[i] \in Host \ {host} PROVE \E r \in owed : r.task = TaskOf(i)
    <2>1. Row(i) \in owed /\ Row(i).task = TaskOf(i)
        BY <1>3, <1>7, <1>11
    <2> QED BY <2>1
<1> HIDE DEF f, S
<1> QED BY <1>2, <1>4, <1>8, <1>9, <1>10, <1>11

----------------------------------------------------------------------------
(* Types *)

(* What the store and a board make of a row keeps it a row.                *)
LEMMA RewrittenRows ==
    ASSUME Types, NEW r \in requests
    PROVE  /\ r \in RequestRow
           /\ \A state \in {"requested", "running", "done", "failed"} :
                  [r EXCEPT !.state = state, !.age = 0] \in RequestRow
           /\ [r EXCEPT !.fed = TRUE] \in RequestRow
           /\ Older(r) \in RequestRow
<1>1. AgeCap \in Nat
    BY SettingFacts
<1>2. r \in RequestRow
    BY DEF Types
<1>3. 0 \in 0..AgeCap /\ r.age \in 0..AgeCap
    BY <1>1, <1>2 DEF RequestRow
<1>4. (IF r.age < AgeCap THEN r.age + 1 ELSE AgeCap) \in 0..AgeCap
    BY <1>1, <1>3
<1> HIDE DEF AgeCap
<1>5. Older(r) \in RequestRow
    BY <1>2, <1>4 DEF RequestRow, Older
<1> QED BY <1>2, <1>3, <1>5 DEF RequestRow

(* What a step makes of a board keeps it a board.                          *)
LEMMA RewrittenBoards ==
    ASSUME Types, NEW b \in Board
    PROVE  /\ boards[b] \in BoardProcess
           /\ Process \in BoardProcess /\ [Process EXCEPT !.up = FALSE] \in BoardProcess
           /\ NoCycle \in FeedCycle
           /\ \A j \in boards[b].jobs :
                  /\ j \in JobOfABoard
                  /\ Without(boards[b], j) \in BoardProcess
                  /\ HandedBack(boards[b], j) \in BoardProcess
                  /\ \A stage \in {"claimed", "cycling", "done", "failed"} :
                         /\ Job(j.row, stage) \in JobOfABoard
                         /\ Advanced(boards[b], j, stage) \in BoardProcess
           /\ \A outcome \in {"done", "failed"} : Ended(boards[b], outcome) \in BoardProcess
<1>1. boards[b] \in BoardProcess
    BY DEF Types
<1>2. /\ boards[b].up \in BOOLEAN /\ boards[b].served \in SUBSET Nat
      /\ boards[b].jobs \in SUBSET JobOfABoard /\ boards[b].cycle \in FeedCycle
    BY <1>1 DEF BoardProcess
<1>3. NoCycle \in FeedCycle
    BY DEF NoCycle, FeedCycle
<1>4. Process \in BoardProcess /\ [Process EXCEPT !.up = FALSE] \in BoardProcess
    BY <1>3 DEF Process, BoardProcess
<1>5. ASSUME NEW j \in boards[b].jobs
      PROVE  /\ j \in JobOfABoard
             /\ Without(boards[b], j) \in BoardProcess
             /\ HandedBack(boards[b], j) \in BoardProcess
             /\ \A stage \in {"claimed", "cycling", "done", "failed"} :
                    /\ Job(j.row, stage) \in JobOfABoard
                    /\ Advanced(boards[b], j, stage) \in BoardProcess
    <2>1. j \in JobOfABoard
        BY <1>2
    <2>2. Without(boards[b], j) \in BoardProcess
        BY <1>1, <1>2 DEF BoardProcess, Without
    <2>3. HandedBack(boards[b], j) \in BoardProcess
        BY <1>1, <1>2 DEF BoardProcess, HandedBack, Without
    <2>4. ASSUME NEW stage \in {"claimed", "cycling", "done", "failed"}
          PROVE  /\ Job(j.row, stage) \in JobOfABoard
                 /\ Advanced(boards[b], j, stage) \in BoardProcess
        <3>1. Job(j.row, stage) \in JobOfABoard
            BY <2>1 DEF Job, JobOfABoard
        <3> QED BY <1>1, <1>2, <3>1 DEF BoardProcess, Advanced
    <2> QED BY <2>1, <2>2, <2>3, <2>4
<1>6. ASSUME NEW outcome \in {"done", "failed"} PROVE Ended(boards[b], outcome) \in BoardProcess
    <2> DEFINE jobs == {IF j.stage = "cycling" THEN Job(j.row, outcome) ELSE j :
                            j \in boards[b].jobs}
    <2>1. jobs \in SUBSET JobOfABoard
        BY <1>5
    <2> HIDE DEF jobs
    <2>2. [boards[b] EXCEPT !.cycle = NoCycle, !.jobs = jobs] \in BoardProcess
        BY <1>1, <1>3, <2>1 DEF BoardProcess
    <2> QED BY <2>2 DEF jobs, Ended
<1> QED BY <1>1, <1>3, <1>4, <1>5, <1>6

(* A board that drops a job keeps the rest; one that hands the row back    *)
(* may pick it up again.                                                   *)
DropsJob(b, j) ==
    /\ boards' = [boards EXCEPT ![b] = boards'[b]]
    /\ boards'[b] \in {Without(boards[b], j), HandedBack(boards[b], j)}

(* A claim and a report: what the store applied and what the board made of *)
(* the answer.                                                             *)
LEMMA ClaimOutcomes ==
    ASSUME Types, NEW b \in Board, NEW j \in boards[b].jobs, ClaimFeedRequest(b, j)
    PROVE  /\ j.stage = "claim"
           /\ UNCHANGED <<pollOwner, feed, steady, tasks, removals, lastId, disk>>
           /\ spent' \in Spending
           /\ spent'.overrides = spent.overrides
           /\ \/ requests' = requests /\ DropsJob(b, j)
              \/ \E r \in requests :
                     /\ r.id = j.row /\ Claimable(r, HostOf[b])
                     /\ requests' = Written(r, "running")
                     /\ \/ boards' = [boards EXCEPT ![b] = Advanced(boards[b], j, "claimed")]
                        \/ DropsJob(b, j)
<1> DEFINE can == {r \in RowsOf(j) : Claimable(r, HostOf[b])}
<1>1. Call("unsent claim", can # {},
           \E r \in can : requests' = Written(r, "running"),
           With(b, Advanced(boards[b], j, "claimed")),
           With(b, Without(boards[b], j)),
           With(b, HandedBack(boards[b], j)))
    BY DEF ClaimFeedRequest
<1>2. \A r \in can : r \in requests /\ r.id = j.row /\ Claimable(r, HostOf[b])
    BY DEF RowsOf
<1>3. /\ With(b, Without(boards[b], j)) => DropsJob(b, j)
      /\ With(b, HandedBack(boards[b], j)) => DropsJob(b, j)
    BY DEF With, DropsJob, Types
<1>4. /\ spent' = spent \/ Loses
      /\ \/ requests' = requests /\ DropsJob(b, j)
         \/ /\ \E r \in can : requests' = Written(r, "running")
            /\ With(b, Advanced(boards[b], j, "claimed")) \/ DropsJob(b, j)
    <2> HIDE DEF can
    <2> QED BY <1>1, <1>3 DEF Call
<1>5. spent' \in Spending /\ spent'.overrides = spent.overrides
    BY <1>4 DEF Types, Spending, Loses
<1>6. j.stage = "claim" /\ UNCHANGED <<pollOwner, feed, steady, tasks, removals, lastId, disk>>
    BY DEF ClaimFeedRequest, KeepTheEpic
<1> HIDE DEF can
<1> QED BY <1>2, <1>4, <1>5, <1>6 DEF With

LEMMA ReportOutcomes ==
    ASSUME Types, NEW b \in Board, NEW j \in boards[b].jobs, Report(b, j)
    PROVE  /\ j.stage \in {"done", "failed"}
           /\ UNCHANGED <<pollOwner, feed, steady, tasks, removals, lastId, disk>>
           /\ spent' \in Spending
           /\ spent'.overrides = spent.overrides
           /\ DropsJob(b, j)
           /\ \/ requests' = requests
              \/ \E r \in requests : /\ r.id = j.row /\ Reportable(r, HostOf[b])
                                     /\ requests' = Written(r, j.stage)
<1> DEFINE can == {r \in RowsOf(j) : Reportable(r, HostOf[b])}
<1>1. Call("unsent report", can # {},
           \E r \in can : requests' = Written(r, j.stage),
           With(b, Without(boards[b], j)),
           With(b, Without(boards[b], j)),
           With(b, HandedBack(boards[b], j)))
    BY DEF Report
<1>2. \A r \in can : r \in requests /\ r.id = j.row /\ Reportable(r, HostOf[b])
    BY DEF RowsOf
<1>3. /\ With(b, Without(boards[b], j)) => DropsJob(b, j)
      /\ With(b, HandedBack(boards[b], j)) => DropsJob(b, j)
    BY DEF With, DropsJob, Types
<1>4. /\ spent' = spent \/ Loses
      /\ DropsJob(b, j)
      /\ requests' = requests \/ \E r \in can : requests' = Written(r, j.stage)
    <2> HIDE DEF can
    <2> QED BY <1>1, <1>3 DEF Call
<1>5. spent' \in Spending /\ spent'.overrides = spent.overrides
    BY <1>4 DEF Types, Spending, Loses
<1>6. j.stage \in {"done", "failed"} /\ UNCHANGED <<pollOwner, feed, steady, tasks, removals, lastId, disk>>
    BY DEF Report, KeepTheEpic
<1> HIDE DEF can
<1> QED BY <1>2, <1>4, <1>5, <1>6

LEMMA TypesStep == Types /\ [FeedNext]_feedVars => Types'
<1> SUFFICES ASSUME Types, [FeedNext]_feedVars PROVE Types'
    OBVIOUS
<1>1. setting' = setting
    BY SettingStays
<1>2. MaxRequests' = MaxRequests /\ RequestRow' = RequestRow
    BY <1>1 DEF MaxRequests, RequestRow, AgeCap, Grace, Stale, Retention
<1> DEFINE Boards == boards' \in [Board -> BoardProcess]
           Requests == requests' \subseteq RequestRow
           Rest == /\ pollOwner' \in Host \cup {NoHost}
                   /\ feed' \in [Item -> {"open", "closed"}]
                   /\ (steady \subseteq Open \cap Rows)'
                   /\ removals' \in [Item -> Nat]
                   /\ tasks' \in [Item -> Host \cup {NoHost, NoRow}]
                   /\ disk' \subseteq TaskName \X Host
                   /\ lastId' \in 0..MaxRequests
                   /\ spent' \in Spending
<1>3. SUFFICES Boards /\ Requests /\ Rest
    BY <1>1, <1>2 DEF Types
<1>4. HostOf \in [Board -> Host] /\ MaxRequests \in Nat /\ AgeCap \in Nat
    BY SettingFacts
<1> USE DEF KeepTheBoards, KeepTheRows, KeepTheEpic, With, Open, Rows, Spending
<1>5. ASSUME NEW i \in Item, ItemOpens(i) \/ ItemCloses(i) \/ \E h \in Host : Dispatch(i, h)
      PROVE Boards /\ Requests /\ Rest
    <2>1. CASE ItemOpens(i) \/ ItemCloses(i)
        BY <2>1 DEF Types, ItemOpens, ItemCloses, Open, Rows, Spending
    <2>2. ASSUME NEW h \in Host, Dispatch(i, h) PROVE Boards /\ Requests /\ Rest
        <3>1. <<TaskOf(i), h>> \in TaskName \X Host
            BY DEF TaskOf, TaskName, Types
        <3>2. tasks' \in [Item -> Host \cup {NoHost, NoRow}] /\ (steady \subseteq Open \cap Rows)'
            BY <2>2, FeedAssumption DEF Types, Dispatch, Open, Rows
        <3> QED BY <2>2, <3>1, <3>2 DEF Types, Dispatch
    <2> QED BY <1>5, <2>1, <2>2
<1>6. ASSUME NEW h \in Host, OverridePollOwner(h) PROVE Boards /\ Requests /\ Rest
    BY <1>6 DEF Types, OverridePollOwner, Spending, Open, Rows
<1>7. ASSUME NEW h \in Host, RequestFeedRefresh(h) PROVE Boards /\ Requests /\ Rest
    <2>1. Request(lastId + 1, "refresh", NoTask, pollOwner) \in RequestRow
        <3>1. 0 \in 0..AgeCap /\ lastId + 1 \in Nat /\ pollOwner \in Host
            BY <1>4, <1>7 DEF Types, RequestFeedRefresh
        <3> QED BY <3>1 DEF Request, RequestRow
    <2>2. lastId' \in 0..MaxRequests
        BY <1>4, <1>7 DEF Types, RequestFeedRefresh
    <2> QED BY <1>7, <2>1, <2>2 DEF Types, RequestFeedRefresh, Kept, Open, Rows
<1>8. ASSUME NEW b \in Board, PickUp(b) PROVE Boards /\ Requests /\ Rest
    <2>1. PICK r \in requests :
              LET live == {q.id : q \in {q \in requests : IsOpen(q)}}
              IN With(b, [boards[b] EXCEPT !.served = (@ \cap live) \cup {r.id},
                                           !.jobs = @ \cup {Job(r.id, "claim")}])
        BY <1>8 DEF PickUp
    <2>2. r.id \in Nat /\ Job(r.id, "claim") \in JobOfABoard
        BY RewrittenRows DEF RequestRow, Job, JobOfABoard
    <2>3. boards[b] \in BoardProcess
        BY RewrittenBoards
    <2>4. [boards[b] EXCEPT
              !.served = (@ \cap {q.id : q \in {q \in requests : IsOpen(q)}}) \cup {r.id},
              !.jobs = @ \cup {Job(r.id, "claim")}] \in BoardProcess
        BY <2>2, <2>3 DEF BoardProcess
    <2> QED BY <1>8, <2>1, <2>4 DEF Types, PickUp
<1>9. ASSUME NEW b \in Board, NEW j \in boards[b].jobs, ClaimFeedRequest(b, j) \/ Report(b, j)
      PROVE Boards /\ Requests /\ Rest
    <2>1. ASSUME NEW r \in requests, NEW state \in {"running", "done", "failed"}
          PROVE Written(r, state) \subseteq RequestRow
        <3>1. [r EXCEPT !.state = state, !.age = 0] \in RequestRow
            BY RewrittenRows
        <3> QED BY <3>1 DEF Written, Types
    <2>2. requests' \subseteq RequestRow
        <3>1. CASE ClaimFeedRequest(b, j)
            BY <2>1, <3>1, ClaimOutcomes DEF Types
        <3>2. CASE Report(b, j)
            BY <2>1, <3>2, ReportOutcomes DEF Types
        <3> QED BY <1>9, <3>1, <3>2
    <2>3. ASSUME DropsJob(b, j) PROVE boards' \in [Board -> BoardProcess]
        <3>1. boards'[b] \in BoardProcess /\ boards' = [boards EXCEPT ![b] = boards'[b]]
            BY <2>3, RewrittenBoards DEF DropsJob
        <3> QED BY <3>1 DEF Types
    <2>4. boards' \in [Board -> BoardProcess]
        <3>1. CASE ClaimFeedRequest(b, j)
            <4>1. Advanced(boards[b], j, "claimed") \in BoardProcess
                BY RewrittenBoards
            <4> QED BY <2>3, <3>1, <4>1, ClaimOutcomes DEF Types
        <3>2. CASE Report(b, j)
            BY <2>3, <3>2, ReportOutcomes
        <3> QED BY <1>9, <3>1, <3>2
    <2> QED BY <1>9, <2>2, <2>4, ClaimOutcomes, ReportOutcomes DEF Types
<1>10. ASSUME NEW b \in Board, NEW j \in boards[b].jobs, ServeRefresh(b, j)
       PROVE Boards /\ Requests /\ Rest
    <2>1. [Advanced(boards[b], j, "cycling") EXCEPT
               !.cycle = [NoCycle EXCEPT !.stage = "claimed", !.row = j.row]] \in BoardProcess
        <3>1. [NoCycle EXCEPT !.stage = "claimed", !.row = j.row] \in FeedCycle
            BY RewrittenBoards DEF FeedCycle, JobOfABoard
        <3>2. Advanced(boards[b], j, "cycling") \in BoardProcess
            BY RewrittenBoards
        <3> QED BY <3>1, <3>2 DEF BoardProcess
    <2>2. boards' \in [Board -> BoardProcess]
        BY <1>10, <2>1, RewrittenBoards DEF Types, ServeRefresh
    <2> QED BY <1>10, <2>2 DEF Types, ServeRefresh
<1>11. ASSUME NEW b \in Board, NEW j \in boards[b].jobs, ServeTeardown(b, j)
       PROVE Boards /\ Requests /\ Rest
    <2>1. boards' \in [Board -> BoardProcess]
        <3>1. \A stage \in {"done", "failed"} : Advanced(boards[b], j, stage) \in BoardProcess
            BY RewrittenBoards
        <3>2. \E stage \in {"done", "failed"} : With(b, Advanced(boards[b], j, stage))
            BY <1>11 DEF ServeTeardown
        <3> QED BY <3>1, <3>2 DEF Types
    <2>2. disk' \subseteq disk
        BY <1>11 DEF ServeTeardown
    <2> QED BY <1>11, <2>1, <2>2 DEF Types, ServeTeardown
<1>12. ASSUME NEW b \in Board, ClaimPollOwner(b) PROVE Boards /\ Requests /\ Rest
    BY <1>4, <1>12 DEF Types, ClaimPollOwner, OwnerAfterClaim
<1>13. ASSUME NEW b \in Board, StartCycle(b) PROVE Boards /\ Requests /\ Rest
    <2>1. [NoCycle EXCEPT !.stage = "claimed"] \in FeedCycle
        BY RewrittenBoards DEF FeedCycle
    <2>2. [boards[b] EXCEPT !.cycle = [NoCycle EXCEPT !.stage = "claimed"]] \in BoardProcess
        BY <2>1, RewrittenBoards DEF BoardProcess
    <2> QED BY <1>13, <2>2 DEF Types, StartCycle
<1>14. ASSUME NEW b \in Board, FailCycle(b) \/ CleanUp(b) \/ Die(b) \/ Restart(b)
       PROVE Boards /\ Requests /\ Rest
    <2>1. /\ Process \in BoardProcess /\ [Process EXCEPT !.up = FALSE] \in BoardProcess
          /\ \A outcome \in {"done", "failed"} : Ended(boards[b], outcome) \in BoardProcess
        BY RewrittenBoards
    <2>2. \E p \in BoardProcess : boards' = [boards EXCEPT ![b] = p]
        <3>1. CASE FailCycle(b) BY <2>1, <3>1 DEF FailCycle
        <3>2. CASE CleanUp(b) BY <2>1, <3>2 DEF CleanUp
        <3>3. CASE Die(b) BY <2>1, <3>3 DEF Die
        <3>4. CASE Restart(b) BY <2>1, <3>4 DEF Restart
        <3> QED BY <1>14, <3>1, <3>2, <3>3, <3>4
    <2>3. boards' \in [Board -> BoardProcess]
        BY <2>2 DEF Types
    <2>4. CASE FailCycle(b) BY <2>3, <2>4 DEF Types, FailCycle
    <2>5. CASE CleanUp(b) BY <2>3, <2>5 DEF Types, CleanUp
    <2>6. CASE Die(b) BY <2>3, <2>6 DEF Types, Die
    <2>7. CASE Restart(b) BY <2>3, <2>7 DEF Types, Restart
    <2> QED BY <1>14, <2>4, <2>5, <2>6, <2>7
<1>15. ASSUME NEW b \in Board, ReadFeed(b) PROVE Boards /\ Requests /\ Rest
    <2>1. PICK emission \in SUBSET Open :
              boards' = [boards EXCEPT ![b] = [boards[b] EXCEPT !.cycle = [@ EXCEPT
                  !.stage = "read", !.emission = emission, !.additive = (emission # Open)]]]
        BY <1>15 DEF ReadFeed
    <2>2. boards[b] \in BoardProcess /\ boards[b].cycle \in FeedCycle
        BY RewrittenBoards DEF BoardProcess
    <2>3. [boards[b].cycle EXCEPT !.stage = "read", !.emission = emission,
                                  !.additive = (emission # Open)] \in FeedCycle
        BY <2>2 DEF FeedCycle, Open
    <2>4. boards' \in [Board -> BoardProcess]
        BY <2>1, <2>2, <2>3 DEF Types, BoardProcess
    <2>5. requests' \subseteq RequestRow
        BY <1>15, RewrittenRows DEF ReadFeed
    <2> QED BY <1>15, <2>4, <2>5 DEF Types, ReadFeed
<1>16. ASSUME NEW b \in Board, IngestFeed(b) PROVE Boards /\ Requests /\ Rest
    <2> DEFINE host == HostOf[b]
               cycle == boards[b].cycle
               gone == Removed(cycle.emission, cycle.additive)
               owed == TeardownRequests(gone, host)
               held == {TaskOf(i) : i \in {k \in gone : tasks[k] \in {NoHost, host}}}
    <2>1. boards[b] \in BoardProcess /\ cycle \in FeedCycle
        BY RewrittenBoards DEF BoardProcess
    <2>2. gone \in SUBSET Item /\ host \in Host
        BY <1>4 DEF Removed, Rows
    <2>3. CASE MayIngest(host)
        <3>0. held \in SUBSET TaskName
            BY <2>2 DEF TaskOf, TaskName, Types
        <3>1. [cycle EXCEPT !.stage = "ingested", !.removed = held] \in FeedCycle
            BY <2>1, <3>0 DEF FeedCycle
        <3>2. [boards[b] EXCEPT !.cycle = [cycle EXCEPT
                   !.stage = "ingested", !.removed = held]] \in BoardProcess
            BY <2>1, <3>1 DEF BoardProcess
        <3>3. boards' \in [Board -> BoardProcess]
            BY <1>16, <2>3, <3>2 DEF Types, IngestFeed
        <3>4. Cardinality(owed) \in Nat /\ owed \subseteq RequestRow
            BY <2>2, TeardownRows
        <3>5. requests' \subseteq RequestRow
            BY <1>16, <2>3, <3>4 DEF Types, IngestFeed, Kept
        <3>6. lastId' \in 0..MaxRequests
            BY <1>4, <1>16, <2>3, <3>4 DEF Types, IngestFeed
        <3>7. tasks' \in [Item -> Host \cup {NoHost, NoRow}]
            BY <1>16, <2>3 DEF Types, IngestFeed, AfterIngest
        <3>8. removals' \in [Item -> Nat]
            BY <1>16, <2>3 DEF Types, IngestFeed
        <3>9. (steady \subseteq Open \cap Rows)'
            <4>1. /\ feed' = feed /\ steady' = (steady \ gone) \cup (cycle.emission \cap Open)
                  /\ tasks' = AfterIngest(cycle.emission, cycle.additive)
                BY <1>16, <2>3 DEF IngestFeed
            <4>2. \A i \in Item \ gone : tasks[i] # NoRow \/ i \in cycle.emission => tasks'[i] # NoRow
                BY <4>1, FeedAssumption DEF AfterIngest
            <4>3. \A i \in cycle.emission : i \notin gone
                BY DEF Removed
            <4> HIDE DEF gone, cycle
            <4> QED BY <4>1, <4>2, <4>3 DEF Types
        <3> QED BY <1>16, <3>3, <3>5, <3>6, <3>7, <3>8, <3>9 DEF Types, IngestFeed
    <2>4. CASE ~MayIngest(host)
        BY <1>16, <2>4, RewrittenBoards DEF Types, IngestFeed
    <2> QED BY <2>3, <2>4
<1>17. CASE TimePasses
    BY <1>17, RewrittenRows DEF Types, TimePasses
<1>18. CASE UNCHANGED feedVars
    BY <1>18 DEF Types, feedVars
<1> QED
    BY <1>5, <1>6, <1>7, <1>8, <1>9, <1>10, <1>11, <1>12, <1>13, <1>14, <1>15, <1>16, <1>17,
       <1>18 DEF FeedNext, Serve, Cycle

----------------------------------------------------------------------------
(* One server per row *)

(* Rows have ids of their own, handed out once.                            *)
Numbered ==
    /\ \A r \in requests : r.id \in 1..lastId
    /\ \A r, q \in requests : r.id = q.id => r = q

(* A board has at most one job for a row, an open row of a job is handed   *)
(* out, and a row it claimed is running, within the grace, for as long as  *)
(* it serves it.                                                           *)
Fits(b) ==
    /\ boards[b].served \subseteq 1..lastId
    /\ \A j \in boards[b].jobs : j.row \in 1..lastId
    /\ \A j, k \in boards[b].jobs : j.row = k.row => j = k
    /\ \A j \in boards[b].jobs, r \in requests : r.id = j.row =>
           /\ IsOpen(r) => r.id \in boards[b].served
           /\ j.stage # "claim" => r.state = "running" /\ r.age <= Grace

Servers ==
    /\ Numbered
    /\ \A b \in Board : Fits(b)
    /\ OneServerPerRow

LEMMA OneBoardChanges ==
    ASSUME Types, NEW b \in Board, NEW p, boards' = [boards EXCEPT ![b] = p]
    PROVE  boards'[b] = p /\ \A a \in Board \ {b} : boards'[a] = boards[a]
BY DEF Types

(* What is left of a board that drops a job.                               *)
LEMMA DroppedJob ==
    ASSUME Types, NEW b \in Board, NEW j \in boards[b].jobs, DropsJob(b, j)
    PROVE  /\ \A a \in Board \ {b} : boards'[a] = boards[a]
           /\ boards'[b].jobs = boards[b].jobs \ {j}
           /\ boards'[b].served \subseteq boards[b].served
           /\ boards[b].served \ {j.row} \subseteq boards'[b].served
           /\ boards'[b].up = boards[b].up /\ boards'[b].cycle = boards[b].cycle
<1>1. boards[b] \in BoardProcess
    BY RewrittenBoards
<1>2. \A a \in Board \ {b} : boards'[a] = boards[a]
    BY OneBoardChanges DEF DropsJob
<1>3. ASSUME boards'[b] = Without(boards[b], j)
      PROVE  /\ boards'[b].jobs = boards[b].jobs \ {j} /\ boards'[b].served = boards[b].served
             /\ boards'[b].up = boards[b].up /\ boards'[b].cycle = boards[b].cycle
    BY <1>1, <1>3 DEF Without, BoardProcess
<1>4. ASSUME boards'[b] = HandedBack(boards[b], j)
      PROVE  /\ boards'[b].jobs = boards[b].jobs \ {j}
             /\ boards'[b].served = boards[b].served \ {j.row}
             /\ boards'[b].up = boards[b].up /\ boards'[b].cycle = boards[b].cycle
    BY <1>1, <1>4 DEF HandedBack, Without, BoardProcess
<1> QED BY <1>2, <1>3, <1>4 DEF DropsJob

(* What is left of a board whose job goes on.                              *)
LEMMA AdvancedJob ==
    ASSUME Types, NEW b \in Board, NEW j \in boards[b].jobs,
           NEW stage \in {"claimed", "cycling", "done", "failed"}
    PROVE  /\ Advanced(boards[b], j, stage).jobs = (boards[b].jobs \ {j}) \cup {Job(j.row, stage)}
           /\ Advanced(boards[b], j, stage).served = boards[b].served
           /\ Advanced(boards[b], j, stage).up = boards[b].up
           /\ Advanced(boards[b], j, stage).cycle = boards[b].cycle
           /\ Job(j.row, stage).row = j.row /\ Job(j.row, stage).stage = stage
BY RewrittenBoards DEF Advanced, BoardProcess, Job

(* A step that leaves the rows and relabels the jobs of one board.         *)
Relabels(p, q) ==
    /\ q.served = p.served
    /\ \A k \in q.jobs : \E j \in p.jobs : j.row = k.row /\ (k.stage # "claim" => j.stage # "claim")
    /\ \A k, l \in q.jobs : k.row = l.row => k = l

LEMMA RelabelledJobs ==
    ASSUME Types, Servers, NEW b \in Board, NEW q, Relabels(boards[b], q),
           boards' = [boards EXCEPT ![b] = q], UNCHANGED <<requests, lastId, setting>>
    PROVE  Servers'
<1>1. boards'[b] = q /\ \A a \in Board \ {b} : boards'[a] = boards[a]
    BY OneBoardChanges
<1>2. Grace' = Grace
    BY DEF Grace
<1>3. Numbered'
    BY DEF Servers, Numbered
<1>4. ASSUME NEW a \in Board PROVE Fits(a)'
    BY <1>1, <1>2 DEF Servers, Fits, Relabels, IsOpen
<1>5. OneServerPerRow'
    BY <1>1 DEF Servers, OneServerPerRow, ServedBy, Relabels
<1> QED BY <1>3, <1>4, <1>5 DEF Servers

(* A step that adds rows, forgets some, and leaves every board's jobs.     *)
LEMMA AddedRows ==
    ASSUME Types, Servers, NEW fresh,
           requests' \subseteq requests \cup fresh,
           lastId' \in Nat, lastId <= lastId',
           \A r \in fresh : r.id \in (lastId + 1)..lastId',
           \A r, q \in fresh : r.id = q.id => r = q,
           \A a \in Board : boards'[a].served = boards[a].served /\ boards'[a].jobs = boards[a].jobs,
           setting' = setting
    PROVE  Servers'
<1>1. lastId \in Nat /\ Grace' = Grace
    BY SettingFacts DEF Types, Grace
<1>2. Numbered'
    BY <1>1 DEF Servers, Numbered
<1>3. ASSUME NEW a \in Board, NEW j \in boards[a].jobs, NEW r \in requests', r.id = j.row
      PROVE  r \in requests
    BY <1>1, <1>3 DEF Servers, Fits
<1>4. ASSUME NEW a \in Board PROVE Fits(a)'
    <2>1. boards[a].served \subseteq 1..lastId' /\ \A j \in boards[a].jobs : j.row \in 1..lastId'
        BY <1>1 DEF Servers, Fits
    <2> QED BY <1>1, <1>3, <2>1 DEF Servers, Fits, IsOpen
<1>5. OneServerPerRow'
    BY <1>3 DEF Servers, OneServerPerRow, ServedBy
<1> QED BY <1>2, <1>4, <1>5 DEF Servers

(* A step that rewrites rows, each in its place, and leaves every board's  *)
(* jobs; no served row outlives the grace.                                 *)
LEMMA RewrittenInPlace ==
    ASSUME Types, Servers, UNCHANGED <<lastId, setting>>,
           \A a \in Board : boards'[a].served = boards[a].served /\ boards'[a].jobs = boards[a].jobs,
           \A r \in requests' : \E q \in requests :
               /\ q.id = r.id /\ q.state = r.state
               /\ r.age <= Grace \/ \A a \in Board : ~ServedBy(q, a),
           \A r, q \in requests' : r.id = q.id => r = q
    PROVE  Servers'
<1>1. Grace' = Grace
    BY DEF Grace
<1>2. Numbered'
    BY DEF Servers, Numbered
<1>3. ASSUME NEW a \in Board PROVE Fits(a)'
    BY <1>1 DEF Servers, Fits, IsOpen, ServedBy
<1>4. OneServerPerRow'
    BY DEF Servers, OneServerPerRow, ServedBy
<1> QED BY <1>2, <1>3, <1>4 DEF Servers

(* Who serves a row cannot be overtaken by another's claim of it.          *)
LEMMA ServedIsNotClaimable ==
    ASSUME Types, Servers, NEW a \in Board, NEW h \in Host, NEW r \in requests, ServedBy(r, a)
    PROVE  ~Claimable(r, h)
<1>1. r \in RequestRow /\ AgeCap \in Nat /\ Grace \in Nat
    BY SettingFacts, RewrittenRows
<1>2. r.age \in Nat
    BY <1>1 DEF RequestRow
<1> QED BY <1>1, <1>2 DEF Servers, Fits, ServedBy, Claimable

LEMMA PickUpServers ==
    ASSUME Types, Servers, NEW b \in Board, PickUp(b) PROVE Servers'
<1> DEFINE live == {q.id : q \in {q \in requests : IsOpen(q)}}
           p(r) == [boards[b] EXCEPT !.served = (@ \cap live) \cup {r.id},
                                     !.jobs = @ \cup {Job(r.id, "claim")}]
<1>1. PICK r \in requests : /\ IsOpen(r) /\ r.id \notin boards[b].served
                            /\ boards' = [boards EXCEPT ![b] = p(r)]
    BY DEF PickUp, With
<1>2. UNCHANGED <<requests, lastId, setting>>
    BY DEF PickUp, KeepTheEpic
<1>3. /\ boards'[b].served = (boards[b].served \cap live) \cup {r.id}
      /\ boards'[b].jobs = boards[b].jobs \cup {Job(r.id, "claim")}
      /\ \A a \in Board \ {b} : boards'[a] = boards[a]
    <2>1. boards'[b] = p(r) /\ \A a \in Board \ {b} : boards'[a] = boards[a]
        BY <1>1, OneBoardChanges
    <2> HIDE DEF live
    <2> QED BY <2>1, RewrittenBoards DEF BoardProcess
<1>4. Job(r.id, "claim").row = r.id /\ Job(r.id, "claim").stage = "claim"
    BY DEF Job
<1>5. Grace' = Grace /\ Numbered' /\ Numbered
    BY <1>2 DEF Servers, Numbered, Grace
<1>6. \A j \in boards[b].jobs : j.row # r.id
    BY <1>1 DEF Servers, Fits
<1>7. ASSUME NEW a \in Board PROVE Fits(a)'
    <2>1. CASE a # b
        BY <1>2, <1>3, <1>5, <2>1 DEF Servers, Fits, IsOpen
    <2>2. CASE a = b
        <3>1. boards'[b].served \subseteq 1..lastId
            BY <1>3, <1>5 DEF Servers, Fits, Numbered
        <3>2. \A j \in boards'[b].jobs : j.row \in 1..lastId
            BY <1>3, <1>4, <1>5 DEF Servers, Fits, Numbered
        <3>3. \A j, k \in boards'[b].jobs : j.row = k.row => j = k
            BY <1>3, <1>4, <1>6 DEF Servers, Fits
        <3>4. ASSUME NEW j \in boards'[b].jobs, NEW q \in requests, q.id = j.row
              PROVE  /\ IsOpen(q) => q.id \in boards'[b].served
                     /\ j.stage # "claim" => q.state = "running" /\ q.age <= Grace
            <4>1. IsOpen(q) => q.id \in live
                OBVIOUS
            <4> HIDE DEF live
            <4> QED BY <1>3, <1>4, <3>4, <4>1 DEF Servers, Fits
        <3> QED BY <1>2, <1>5, <2>2, <3>1, <3>2, <3>3, <3>4 DEF Fits, IsOpen
    <2> QED BY <2>1, <2>2
<1>8. OneServerPerRow'
    BY <1>2, <1>3, <1>4 DEF Servers, OneServerPerRow, ServedBy
<1> QED BY <1>5, <1>7, <1>8 DEF Servers

LEMMA ClaimServers ==
    ASSUME Types, Servers, NEW b \in Board, NEW j \in boards[b].jobs, ClaimFeedRequest(b, j)
    PROVE  Servers'
<1>1. setting' = setting /\ lastId' = lastId /\ Grace' = Grace /\ Grace \in Nat
    BY SettingFacts DEF ClaimFeedRequest, KeepTheEpic, Grace
<1>2. CASE requests' = requests /\ DropsJob(b, j)
    <2>1. ASSUME NEW a \in Board PROVE Fits(a)'
        BY <1>1, <1>2, DroppedJob DEF Servers, Fits, IsOpen
    <2>2. OneServerPerRow'
        BY <1>2, DroppedJob DEF Servers, OneServerPerRow, ServedBy
    <2> QED BY <1>1, <1>2, <2>1, <2>2 DEF Servers, Numbered
<1>3. ASSUME NEW r \in requests, r.id = j.row, Claimable(r, HostOf[b]),
             requests' = Written(r, "running"),
             \/ boards' = [boards EXCEPT ![b] = Advanced(boards[b], j, "claimed")]
             \/ DropsJob(b, j)
      PROVE  Servers'
    <2> DEFINE written == [r EXCEPT !.state = "running", !.age = 0]
    <2>1. written.id = r.id /\ written.state = "running" /\ written.age = 0
        BY RewrittenRows DEF RequestRow
    <2>2. requests' = (requests \ {r}) \cup {written}
        BY <1>3 DEF Written
    <2>3. \A a \in Board : ~ServedBy(r, a)
        BY <1>3, ServedIsNotClaimable, SettingFacts
    <2>4. /\ \A a \in Board \ {b} : boards'[a] = boards[a]
          /\ boards'[b].served \subseteq boards[b].served
          /\ boards[b].served \ {j.row} \subseteq boards'[b].served
          /\ \/ boards'[b].jobs = boards[b].jobs \ {j}
             \/ /\ boards'[b].jobs = (boards[b].jobs \ {j}) \cup {Job(j.row, "claimed")}
                /\ boards'[b].served = boards[b].served
        <3>1. CASE boards' = [boards EXCEPT ![b] = Advanced(boards[b], j, "claimed")]
            <4>1. /\ boards'[b] = Advanced(boards[b], j, "claimed")
                  /\ \A a \in Board \ {b} : boards'[a] = boards[a]
                BY <3>1, OneBoardChanges
            <4> QED BY <4>1, AdvancedJob
        <3>2. CASE DropsJob(b, j)
            BY <3>2, DroppedJob
        <3> QED BY <1>3, <3>1, <3>2
    <2>5. Job(j.row, "claimed").row = j.row
        BY DEF Job
    <2> HIDE DEF written
    <2>6. Numbered' /\ IsOpen(r)
        BY <1>1, <1>3, <2>1, <2>2 DEF Servers, Numbered, Claimable
    <2>7. ASSUME NEW a \in Board PROVE Fits(a)'
        <3>1. CASE a # b
            BY <1>1, <1>3, <2>1, <2>2, <2>3, <2>4, <2>6, <3>1 DEF Servers, Fits, IsOpen, ServedBy
        <3>2. CASE a = b
            <4>1. boards'[b].served \subseteq 1..lastId /\ \A k \in boards'[b].jobs : k.row \in 1..lastId
                BY <2>4, <2>5 DEF Servers, Fits
            <4>2. \A k, l \in boards'[b].jobs : k.row = l.row => k = l
                BY <2>4, <2>5 DEF Servers, Fits
            <4>3. ASSUME NEW k \in boards'[b].jobs, NEW q \in requests', q.id = k.row
                  PROVE  /\ IsOpen(q) => q.id \in boards'[b].served
                         /\ k.stage # "claim" => q.state = "running" /\ q.age <= Grace
                <5>1. CASE k \in boards[b].jobs \ {j}
                    <6>1. k.row # r.id /\ q \in requests
                        BY <1>3, <2>1, <2>2, <4>3, <5>1 DEF Servers, Fits
                    <6> QED BY <1>3, <2>4, <4>3, <5>1, <6>1 DEF Servers, Fits
                <5>2. CASE k = Job(j.row, "claimed") /\ boards'[b].served = boards[b].served
                    <6>1. q = written
                        BY <1>3, <2>1, <2>2, <2>5, <4>3, <5>2 DEF Servers, Numbered
                    <6> QED BY <1>1, <1>3, <2>1, <2>6, <5>2, <6>1 DEF Servers, Fits
                <5> QED BY <2>4, <4>3, <5>1, <5>2
            <4> QED BY <1>1, <3>2, <4>1, <4>2, <4>3 DEF Fits, IsOpen
        <3> QED BY <3>1, <3>2
    <2>8. OneServerPerRow'
        <3>1. ASSUME NEW q \in requests', NEW a \in Board, NEW c \in Board,
                     ServedBy(q, a)', ServedBy(q, c)'
              PROVE  a = c
            <4>1. CASE q = written
                BY <2>1, <2>3, <2>4, <3>1, <4>1 DEF ServedBy
            <4>2. CASE q \in requests \ {r}
                <5>1. q.id # j.row
                    BY <1>3, <4>2 DEF Servers, Numbered
                <5>2. ServedBy(q, a) /\ ServedBy(q, c)
                    BY <2>4, <2>5, <3>1, <5>1 DEF ServedBy
                <5> QED BY <4>2, <5>2 DEF Servers, OneServerPerRow
            <4> QED BY <2>2, <4>1, <4>2
        <3> QED BY <3>1 DEF OneServerPerRow
    <2> QED BY <2>6, <2>7, <2>8 DEF Servers
<1> QED BY <1>2, <1>3, ClaimOutcomes

LEMMA ReportServers ==
    ASSUME Types, Servers, NEW b \in Board, NEW j \in boards[b].jobs, Report(b, j)
    PROVE  Servers'
<1>1. setting' = setting /\ lastId' = lastId /\ Grace' = Grace
    BY DEF Report, KeepTheEpic, Grace
<1>2. j.stage \in {"done", "failed"} /\ DropsJob(b, j)
    BY ReportOutcomes
<1>3. CASE requests' = requests
    <2>1. ASSUME NEW a \in Board PROVE Fits(a)'
        BY <1>1, <1>2, <1>3, DroppedJob DEF Servers, Fits, IsOpen
    <2>2. OneServerPerRow'
        BY <1>2, <1>3, DroppedJob DEF Servers, OneServerPerRow, ServedBy
    <2> QED BY <1>1, <1>3, <2>1, <2>2 DEF Servers, Numbered
<1>4. ASSUME NEW r \in requests, r.id = j.row, requests' = Written(r, j.stage)
      PROVE  Servers'
    <2> DEFINE written == [r EXCEPT !.state = j.stage, !.age = 0]
    <2>1. written.id = r.id /\ written.state \in {"done", "failed"}
        BY <1>2, RewrittenRows DEF RequestRow
    <2>2. requests' = (requests \ {r}) \cup {written}
        BY <1>4 DEF Written
    <2> HIDE DEF written
    <2>3. Numbered'
        BY <1>1, <1>4, <2>1, <2>2 DEF Servers, Numbered
    <2>4. ServedBy(r, b)
        BY <1>2, <1>4 DEF ServedBy
    <2>5. \A a \in Board : ServedBy(r, a) => a = b
        BY <2>4 DEF Servers, OneServerPerRow
    <2>6. ASSUME NEW a \in Board PROVE Fits(a)'
        <3>1. ASSUME NEW k \in boards'[a].jobs, NEW q \in requests', q.id = k.row
              PROVE  /\ IsOpen(q) => q.id \in boards'[a].served
                     /\ k.stage # "claim" => q.state = "running" /\ q.age <= Grace
            <4>1. k \in boards[a].jobs /\ (a = b => k.row # j.row)
                BY <1>2, <3>1, DroppedJob DEF Servers, Fits
            <4>2. CASE q = written
                <5>1. k.stage = "claim"
                    BY <1>4, <2>1, <2>5, <3>1, <4>1, <4>2 DEF ServedBy
                <5> QED BY <2>1, <4>2, <5>1 DEF IsOpen
            <4>3. CASE q \in requests \ {r}
                <5>1. q.id # j.row
                    BY <1>4, <4>3 DEF Servers, Numbered
                <5> QED BY <1>2, <3>1, <4>1, <4>3, <5>1, DroppedJob DEF Servers, Fits
            <4> QED BY <2>2, <4>2, <4>3
        <3>2. /\ boards'[a].served \subseteq 1..lastId
              /\ \A k \in boards'[a].jobs : k.row \in 1..lastId
              /\ \A k, l \in boards'[a].jobs : k.row = l.row => k = l
            BY <1>2, DroppedJob DEF Servers, Fits
        <3> QED BY <1>1, <3>1, <3>2 DEF Fits, IsOpen
    <2>7. OneServerPerRow'
        BY <1>2, <1>4, <2>1, <2>2, DroppedJob DEF Servers, OneServerPerRow, ServedBy
    <2> QED BY <2>3, <2>6, <2>7 DEF Servers
<1> QED BY <1>3, <1>4, ReportOutcomes

LEMMA AdvancedRelabels ==
    ASSUME Types, NEW b \in Board, Fits(b), NEW j \in boards[b].jobs, j.stage # "claim",
           NEW stage \in {"claimed", "cycling", "done", "failed"}
    PROVE  Relabels(boards[b], Advanced(boards[b], j, stage))
BY AdvancedJob DEF Relabels, Fits

(* How a cycle that ends leaves its board.                                 *)
LEMMA EndedCycle ==
    ASSUME Types, NEW b \in Board, NEW outcome \in {"done", "failed"}
    PROVE  LET p == Ended(boards[b], outcome)
           IN /\ p.up = boards[b].up /\ p.served = boards[b].served /\ p.cycle = NoCycle
              /\ p.jobs = {IF j.stage = "cycling" THEN Job(j.row, outcome) ELSE j :
                               j \in boards[b].jobs}
              /\ \A k \in p.jobs : \E j \in boards[b].jobs :
                     /\ j.row = k.row
                     /\ k = j \/ (j.stage = "cycling" /\ k.stage = outcome)
<1>1. LET p == Ended(boards[b], outcome)
      IN /\ p.up = boards[b].up /\ p.served = boards[b].served /\ p.cycle = NoCycle
         /\ p.jobs = {IF j.stage = "cycling" THEN Job(j.row, outcome) ELSE j :
                          j \in boards[b].jobs}
    BY RewrittenBoards DEF BoardProcess, Ended
<1>2. \A j \in boards[b].jobs : Job(j.row, outcome).row = j.row /\ Job(j.row, outcome).stage = outcome
    BY DEF Job
<1> QED BY <1>1, <1>2

LEMMA EndedRelabels ==
    ASSUME Types, NEW b \in Board, Fits(b), NEW outcome \in {"done", "failed"}
    PROVE  Relabels(boards[b], Ended(boards[b], outcome))
<1> DEFINE p == Ended(boards[b], outcome)
<1>1. p.served = boards[b].served
    BY EndedCycle
<1>2. \A k \in p.jobs : \E j \in boards[b].jobs :
          j.row = k.row /\ (k.stage # "claim" => j.stage # "claim")
    BY EndedCycle
<1>3. ASSUME NEW k \in p.jobs, NEW l \in p.jobs, k.row = l.row PROVE k = l
    <2>1. PICK j \in boards[b].jobs : k = (IF j.stage = "cycling" THEN Job(j.row, outcome) ELSE j)
        BY EndedCycle
    <2>2. PICK i \in boards[b].jobs : l = (IF i.stage = "cycling" THEN Job(i.row, outcome) ELSE i)
        BY EndedCycle
    <2>3. k.row = j.row /\ l.row = i.row
        BY <2>1, <2>2 DEF Job
    <2>4. j = i
        BY <1>3, <2>3 DEF Fits
    <2> QED BY <2>1, <2>2, <2>4
<1> HIDE DEF p
<1>4. Relabels(boards[b], p)
    BY <1>1, <1>2, <1>3 DEF Relabels
<1> QED BY <1>4 DEF p

(* A fresh process has no job.                                             *)
LEMMA FreshServers ==
    ASSUME Types, Servers, NEW b \in Board, Die(b) \/ Restart(b) PROVE Servers'
<1>1. \A up \in BOOLEAN : [Process EXCEPT !.up = up].jobs = {} /\ [Process EXCEPT !.up = up].served = {}
    BY DEF Process
<1>2. /\ boards'[b].jobs = {} /\ boards'[b].served = {}
      /\ \A a \in Board \ {b} : boards'[a] = boards[a]
    <2>1. CASE Die(b)
        BY <1>1, <2>1, OneBoardChanges DEF Die, With
    <2>2. CASE Restart(b)
        <3>1. boards'[b] = Process /\ \A a \in Board \ {b} : boards'[a] = boards[a]
            BY <2>2, OneBoardChanges DEF Restart, With
        <3> QED BY <3>1 DEF Process
    <2> QED BY <2>1, <2>2
<1>3. UNCHANGED <<requests, lastId, setting>> /\ Grace' = Grace
    BY DEF Die, Restart, KeepTheEpic, Grace
<1>4. ASSUME NEW a \in Board PROVE Fits(a)'
    BY <1>2, <1>3 DEF Servers, Fits, IsOpen
<1>5. OneServerPerRow'
    BY <1>2, <1>3 DEF Servers, OneServerPerRow, ServedBy
<1> QED BY <1>3, <1>4, <1>5 DEF Servers, Numbered

LEMMA IngestServers ==
    ASSUME Types, Servers, NEW b \in Board, IngestFeed(b) PROVE Servers'
<1> DEFINE host == HostOf[b]
           cycle == boards[b].cycle
           gone == Removed(cycle.emission, cycle.additive)
           owed == TeardownRequests(gone, host)
<1>1. setting' = setting
    BY DEF IngestFeed
<1>2. CASE MayIngest(host)
    <2>1. gone \in SUBSET Item /\ host \in Host /\ lastId \in Nat
        BY SettingFacts DEF Types, Removed, Rows
    <2>2. /\ Cardinality(owed) \in Nat
          /\ \A r \in owed : r.id \in (lastId + 1)..(lastId + Cardinality(owed))
          /\ \A r, q \in owed : r.id = q.id => r = q
        BY <2>1, TeardownRows
    <2>3. requests' \subseteq requests \cup owed /\ lastId' = lastId + Cardinality(owed)
        BY <1>2 DEF IngestFeed, Kept
    <2>4. ASSUME NEW a \in Board
          PROVE  boards'[a].served = boards[a].served /\ boards'[a].jobs = boards[a].jobs
        <3>1. \E c : boards' = [boards EXCEPT ![b] = [boards[b] EXCEPT !.cycle = c]]
            BY <1>2 DEF IngestFeed, With
        <3>2. PICK c : boards' = [boards EXCEPT ![b] = [boards[b] EXCEPT !.cycle = c]]
            BY <3>1
        <3>3. /\ boards'[b] = [boards[b] EXCEPT !.cycle = c]
              /\ \A d \in Board \ {b} : boards'[d] = boards[d]
            BY <3>2, OneBoardChanges
        <3> QED BY <3>3, RewrittenBoards DEF BoardProcess
    <2> HIDE DEF owed
    <2>5. /\ lastId' \in Nat /\ lastId <= lastId'
          /\ \A r \in owed : r.id \in (lastId + 1)..lastId'
        BY <2>1, <2>2, <2>3
    <2> QED BY <1>1, <2>2, <2>3, <2>4, <2>5, AddedRows
<1>3. CASE ~MayIngest(host)
    <2>1. boards' = [boards EXCEPT ![b] = Ended(boards[b], "failed")] /\ UNCHANGED <<requests, lastId>>
        BY <1>3 DEF IngestFeed, With
    <2> QED BY <1>1, <2>1, EndedRelabels, RelabelledJobs DEF Servers
<1> QED BY <1>2, <1>3

LEMMA ServersStep == Types /\ Servers /\ [FeedNext]_feedVars => Servers'
<1> SUFFICES ASSUME Types, Servers, [FeedNext]_feedVars PROVE Servers'
    OBVIOUS
<1>1. setting' = setting
    BY SettingStays
<1>2. ASSUME UNCHANGED <<requests, lastId, boards>> PROVE Servers'
    BY <1>1, <1>2 DEF Servers, Numbered, Fits, IsOpen, OneServerPerRow, ServedBy, Grace
<1> USE DEF KeepTheBoards, KeepTheRows, KeepTheEpic, With
<1>3. ASSUME NEW i \in Item, ItemOpens(i) \/ ItemCloses(i) \/ \E h \in Host : Dispatch(i, h)
      PROVE Servers'
    BY <1>2, <1>3 DEF ItemOpens, ItemCloses, Dispatch
<1>4. ASSUME NEW h \in Host, OverridePollOwner(h) PROVE Servers'
    BY <1>2, <1>4 DEF OverridePollOwner
<1>5. ASSUME NEW h \in Host, RequestFeedRefresh(h) PROVE Servers'
    <2> DEFINE fresh == {Request(lastId + 1, "refresh", NoTask, pollOwner)}
    <2>1. lastId \in Nat
        BY SettingFacts DEF Types
    <2>2. requests' \subseteq requests \cup fresh /\ lastId' = lastId + 1
        BY <1>5 DEF RequestFeedRefresh, Kept
    <2>3. \A r \in fresh : r.id = lastId + 1
        BY DEF Request
    <2>4. \A r, q \in fresh : r = q
        OBVIOUS
    <2>5. boards' = boards
        BY <1>5 DEF RequestFeedRefresh
    <2> HIDE DEF fresh
    <2> QED BY <1>1, <2>1, <2>2, <2>3, <2>4, <2>5, AddedRows
<1>6. ASSUME NEW b \in Board, PickUp(b) PROVE Servers'
    BY <1>6, PickUpServers
<1>7. ASSUME NEW b \in Board, Serve(b) PROVE Servers'
    <2>1. PICK j \in boards[b].jobs : \/ ClaimFeedRequest(b, j) \/ ServeRefresh(b, j)
                                     \/ ServeTeardown(b, j) \/ Report(b, j)
        BY <1>7 DEF Serve
    <2>2. CASE ClaimFeedRequest(b, j) BY <2>2, ClaimServers
    <2>3. CASE Report(b, j) BY <2>3, ReportServers
    <2>4. CASE ServeRefresh(b, j)
        <3>1. Fits(b) /\ j.stage # "claim" /\ UNCHANGED <<requests, lastId>>
            BY <2>4 DEF Servers, ServeRefresh
        <3>2. CASE \E stage \in {"done", "failed"} :
                       boards' = [boards EXCEPT ![b] = Advanced(boards[b], j, stage)]
            BY <1>1, <3>1, <3>2, AdvancedRelabels, RelabelledJobs
        <3>3. ASSUME NEW c, boards' = [boards EXCEPT ![b] =
                                          [Advanced(boards[b], j, "cycling") EXCEPT !.cycle = c]]
              PROVE Servers'
            <4> DEFINE p == Advanced(boards[b], j, "cycling")
                       q == [p EXCEPT !.cycle = c]
            <4>1. p \in BoardProcess /\ Relabels(boards[b], p)
                BY <3>1, RewrittenBoards, AdvancedRelabels
            <4>2. q.served = p.served /\ q.jobs = p.jobs
                <5> HIDE DEF p
                <5> QED BY <4>1 DEF BoardProcess
            <4>3. Relabels(boards[b], q)
                BY <4>1, <4>2 DEF Relabels
            <4> QED BY <1>1, <3>1, <3>3, <4>3, RelabelledJobs
        <3> QED BY <2>4, <3>2, <3>3 DEF ServeRefresh
    <2>5. CASE ServeTeardown(b, j)
        <3>1. Fits(b) /\ j.stage # "claim" /\ UNCHANGED <<requests, lastId>>
            BY <2>5 DEF Servers, ServeTeardown
        <3>2. \E stage \in {"done", "failed"} :
                  boards' = [boards EXCEPT ![b] = Advanced(boards[b], j, stage)]
            BY <2>5 DEF ServeTeardown
        <3> QED BY <1>1, <3>1, <3>2, AdvancedRelabels, RelabelledJobs
    <2> QED BY <2>1, <2>2, <2>3, <2>4, <2>5
<1>8. ASSUME NEW b \in Board, ClaimPollOwner(b) PROVE Servers'
    BY <1>2, <1>8 DEF ClaimPollOwner
<1>9. ASSUME NEW b \in Board, StartCycle(b) PROVE Servers'
    <2> DEFINE q == [boards[b] EXCEPT !.cycle = [NoCycle EXCEPT !.stage = "claimed"]]
    <2>1. q.served = boards[b].served /\ q.jobs = boards[b].jobs
        BY RewrittenBoards DEF BoardProcess
    <2>2. Relabels(boards[b], q)
        BY <2>1 DEF Relabels, Servers, Fits
    <2> QED BY <1>1, <1>9, <2>2, RelabelledJobs DEF StartCycle
<1>10. ASSUME NEW b \in Board, FailCycle(b) \/ CleanUp(b) PROVE Servers'
    <2>1. \E outcome \in {"done", "failed"} : boards' = [boards EXCEPT ![b] = Ended(boards[b], outcome)]
        BY <1>10 DEF FailCycle, CleanUp
    <2>2. UNCHANGED <<requests, lastId>>
        BY <1>10 DEF FailCycle, CleanUp
    <2> QED BY <1>1, <2>1, <2>2, EndedRelabels, RelabelledJobs DEF Servers
<1>11. ASSUME NEW b \in Board, Die(b) \/ Restart(b) PROVE Servers'
    BY <1>11, FreshServers
<1>12. ASSUME NEW b \in Board, ReadFeed(b) PROVE Servers'
    <2> DEFINE Fed(r) == IF r.host = HostOf[b] /\ r.kind = "refresh" THEN [r EXCEPT !.fed = TRUE] ELSE r
    <2>1. requests' = {Fed(r) : r \in requests} /\ lastId' = lastId
        BY <1>12 DEF ReadFeed
    <2>2. \A r \in requests : /\ Fed(r).id = r.id /\ Fed(r).state = r.state /\ Fed(r).age = r.age
        BY RewrittenRows DEF RequestRow
    <2>3. ASSUME NEW a \in Board
          PROVE  boards'[a].served = boards[a].served /\ boards'[a].jobs = boards[a].jobs
        <3>1. \E c : boards' = [boards EXCEPT ![b] = [boards[b] EXCEPT !.cycle = c]]
            BY <1>12 DEF ReadFeed
        <3>2. PICK c : boards' = [boards EXCEPT ![b] = [boards[b] EXCEPT !.cycle = c]]
            BY <3>1
        <3>3. /\ boards'[b] = [boards[b] EXCEPT !.cycle = c]
              /\ \A d \in Board \ {b} : boards'[d] = boards[d]
            BY <3>2, OneBoardChanges
        <3> QED BY <3>3, RewrittenBoards DEF BoardProcess
    <2>4. \A r, q \in requests' : r.id = q.id => r = q
        <3> HIDE DEF Fed
        <3> QED BY <2>1, <2>2 DEF Servers, Numbered
    <2>5. \A r \in requests' : \E q \in requests :
              /\ q.id = r.id /\ q.state = r.state
              /\ r.age <= Grace \/ \A a \in Board : ~ServedBy(q, a)
        <3> HIDE DEF Fed
        <3> QED BY <2>1, <2>2 DEF Servers, Fits, ServedBy
    <2> QED BY <1>1, <2>1, <2>3, <2>4, <2>5, RewrittenInPlace
<1>13. ASSUME NEW b \in Board, IngestFeed(b) PROVE Servers'
    BY <1>13, IngestServers
<1>14. CASE TimePasses
    <2>1. requests' = {Older(r) : r \in requests} /\ lastId' = lastId /\ boards' = boards
        BY <1>14 DEF TimePasses
    <2>2. Grace \in Nat /\ AgeCap \in Nat /\ AgeCap >= Grace
        BY SettingFacts
    <2>3. ASSUME NEW r \in requests
          PROVE  /\ Older(r).id = r.id /\ Older(r).state = r.state
                 /\ Older(r).age <= Grace \/ \A a \in Board : ~ServedBy(r, a)
        <3>1. r \in RequestRow /\ r.age \in Nat
            <4>1. r \in RequestRow
                BY RewrittenRows
            <4> HIDE DEF AgeCap
            <4> QED BY <2>2, <4>1 DEF RequestRow
        <3>2. /\ Older(r).id = r.id /\ Older(r).state = r.state
              /\ Older(r).age = (IF r.age < AgeCap THEN r.age + 1 ELSE AgeCap)
            BY <3>1 DEF Older, RequestRow
        <3>3. ASSUME NEW a \in Board, ServedBy(r, a)
              PROVE  r.age <= Grace /\ r.age # Grace
            BY <1>14, <3>3 DEF TimePasses, Servers, Fits, ServedBy
        <3> HIDE DEF AgeCap
        <3> QED BY <2>2, <3>1, <3>2, <3>3
    <2>4. \A r, q \in requests' : r.id = q.id => r = q
        BY <2>1, <2>3 DEF Servers, Numbered
    <2> QED BY <1>1, <2>1, <2>3, <2>4, RewrittenInPlace
<1>15. CASE UNCHANGED feedVars
    BY <1>2, <1>15 DEF feedVars
<1> QED
    BY <1>3, <1>4, <1>5, <1>6, <1>7, <1>8, <1>9, <1>10, <1>11, <1>12, <1>13, <1>14, <1>15
    DEF FeedNext, Cycle

----------------------------------------------------------------------------
(* What steps do to the cycles *)

(* The board's other cycles rest while one starts or ends.                 *)
OthersRest(b) == \A a \in Board \ {b} : boards'[a].cycle = boards[a].cycle

CyclesRest == \A a \in Board : boards'[a].cycle = boards[a].cycle

Starts(b) ==
    /\ pollOwner = HostOf[b] /\ boards[b].cycle = NoCycle /\ OthersRest(b)
    /\ boards'[b].cycle.stage = "claimed" /\ boards'[b].cycle.emission = {}
    /\ boards'[b].cycle.removed = {}

EpicRests ==
    /\ UNCHANGED <<pollOwner, feed, steady, tasks, removals, setting>>
    /\ spent'.overrides = spent.overrides

LEMMA PickUpCycles ==
    ASSUME Types, NEW b \in Board, PickUp(b) PROVE CyclesRest /\ EpicRests
<1>1. PICK served, jobs : boards' = [boards EXCEPT ![b] = [boards[b] EXCEPT !.served = served, !.jobs = jobs]]
    BY DEF PickUp, With
<1>2. /\ boards'[b] = [boards[b] EXCEPT !.served = served, !.jobs = jobs]
      /\ \A a \in Board \ {b} : boards'[a] = boards[a]
    BY <1>1, OneBoardChanges
<1> QED BY <1>2, RewrittenBoards DEF BoardProcess, PickUp, CyclesRest, EpicRests, KeepTheEpic

LEMMA CallCycles ==
    ASSUME Types, NEW b \in Board, NEW j \in boards[b].jobs,
           ClaimFeedRequest(b, j) \/ Report(b, j) \/ ServeTeardown(b, j)
    PROVE  CyclesRest /\ EpicRests
<1>1. ASSUME NEW stage \in {"claimed", "cycling", "done", "failed"},
             boards' = [boards EXCEPT ![b] = Advanced(boards[b], j, stage)]
      PROVE  CyclesRest
    <2>1. /\ boards'[b] = Advanced(boards[b], j, stage)
          /\ \A a \in Board \ {b} : boards'[a] = boards[a]
        BY <1>1, OneBoardChanges
    <2> QED BY <2>1, AdvancedJob DEF CyclesRest
<1>2. ASSUME DropsJob(b, j) PROVE CyclesRest
    BY <1>2, DroppedJob DEF CyclesRest
<1>3. CASE ClaimFeedRequest(b, j)
    BY <1>1, <1>2, <1>3, ClaimOutcomes DEF ClaimFeedRequest, KeepTheEpic, EpicRests
<1>4. CASE Report(b, j)
    BY <1>2, <1>4, ReportOutcomes DEF Report, KeepTheEpic, EpicRests
<1>5. CASE ServeTeardown(b, j)
    BY <1>1, <1>5 DEF ServeTeardown, With, KeepTheEpic, EpicRests
<1> QED BY <1>3, <1>4, <1>5

LEMMA RefreshCycles ==
    ASSUME Types, NEW b \in Board, NEW j \in boards[b].jobs, ServeRefresh(b, j)
    PROVE  EpicRests /\ (CyclesRest \/ Starts(b))
<1>1. EpicRests
    BY DEF ServeRefresh, KeepTheEpic, EpicRests
<1>2. ASSUME NEW stage \in {"claimed", "cycling", "done", "failed"},
             boards' = [boards EXCEPT ![b] = Advanced(boards[b], j, stage)]
      PROVE  CyclesRest
    <2>1. /\ boards'[b] = Advanced(boards[b], j, stage)
          /\ \A a \in Board \ {b} : boards'[a] = boards[a]
        BY <1>2, OneBoardChanges
    <2> QED BY <2>1, AdvancedJob DEF CyclesRest
<1>3. ASSUME pollOwner = HostOf[b], boards[b].cycle = NoCycle,
             boards' = [boards EXCEPT ![b] = [Advanced(boards[b], j, "cycling") EXCEPT
                 !.cycle = [NoCycle EXCEPT !.stage = "claimed", !.row = j.row]]]
      PROVE  Starts(b)
    <2> DEFINE p == Advanced(boards[b], j, "cycling")
               c == [NoCycle EXCEPT !.stage = "claimed", !.row = j.row]
    <2>1. boards'[b] = [p EXCEPT !.cycle = c] /\ \A a \in Board \ {b} : boards'[a] = boards[a]
        BY <1>3, OneBoardChanges
    <2>2. p \in BoardProcess
        BY RewrittenBoards
    <2>3. boards'[b].cycle = c
        <3> HIDE DEF p, c
        <3> QED BY <2>1, <2>2 DEF BoardProcess
    <2>4. c.stage = "claimed" /\ c.emission = {} /\ c.removed = {}
        BY DEF NoCycle
    <2> HIDE DEF c, p
    <2> QED BY <1>3, <2>1, <2>3, <2>4 DEF Starts, OthersRest
<1> QED BY <1>1, <1>2, <1>3 DEF ServeRefresh, With

LEMMA StartCycles ==
    ASSUME Types, NEW b \in Board, StartCycle(b) PROVE EpicRests /\ Starts(b)
<1> DEFINE c == [NoCycle EXCEPT !.stage = "claimed"]
<1>1. /\ boards'[b] = [boards[b] EXCEPT !.cycle = c]
      /\ \A a \in Board \ {b} : boards'[a] = boards[a]
    BY OneBoardChanges DEF StartCycle, With
<1>2. boards'[b].cycle = c
    <2> HIDE DEF c
    <2> QED BY <1>1, RewrittenBoards DEF BoardProcess
<1>3. c.stage = "claimed" /\ c.emission = {} /\ c.removed = {}
    BY DEF NoCycle
<1> HIDE DEF c
<1> QED BY <1>1, <1>2, <1>3 DEF StartCycle, TryClaim, KeepTheEpic, EpicRests, Starts, OthersRest

LEMMA EndCycles ==
    ASSUME Types, NEW b \in Board, FailCycle(b) \/ CleanUp(b) \/ Die(b) \/ Restart(b)
    PROVE  EpicRests /\ OthersRest(b) /\ boards'[b].cycle = NoCycle
<1>1. EpicRests
    BY DEF FailCycle, CleanUp, Die, Restart, KeepTheEpic, EpicRests, Types, Spending
<1>2. ASSUME NEW p, p.cycle = NoCycle, boards' = [boards EXCEPT ![b] = p]
      PROVE  OthersRest(b) /\ boards'[b].cycle = NoCycle
    BY <1>2, OneBoardChanges DEF OthersRest
<1>3. Process.cycle = NoCycle /\ [Process EXCEPT !.up = FALSE].cycle = NoCycle
    BY DEF Process
<1>4. \A outcome \in {"done", "failed"} : Ended(boards[b], outcome).cycle = NoCycle
    BY EndedCycle
<1>5. CASE FailCycle(b) BY <1>2, <1>4, <1>5, <1>1 DEF FailCycle, With
<1>6. CASE CleanUp(b) BY <1>2, <1>4, <1>6, <1>1 DEF CleanUp, With
<1>7. CASE Die(b) BY <1>2, <1>3, <1>7, <1>1 DEF Die, With
<1>8. CASE Restart(b) BY <1>2, <1>3, <1>8, <1>1 DEF Restart, With
<1> QED BY <1>5, <1>6, <1>7, <1>8

LEMMA ReadCycles ==
    ASSUME Types, NEW b \in Board, ReadFeed(b)
    PROVE  /\ EpicRests /\ OthersRest(b)
           /\ boards[b].cycle.stage = "claimed" /\ boards'[b].cycle.stage = "read"
           /\ boards'[b].cycle.emission \subseteq Open
           /\ ~boards'[b].cycle.additive => boards'[b].cycle.emission = Open
           /\ boards'[b].cycle.removed = boards[b].cycle.removed
           /\ UNCHANGED <<disk, lastId>>
           /\ \A a \in Board : boards'[a].up = boards[a].up /\ boards'[a].jobs = boards[a].jobs
<1>1. PICK emission \in SUBSET Open :
          boards' = [boards EXCEPT ![b] = [boards[b] EXCEPT !.cycle = [boards[b].cycle EXCEPT
              !.stage = "read", !.emission = emission, !.additive = (emission # Open)]]]
    BY RewrittenBoards DEF ReadFeed, With, BoardProcess
<1> DEFINE c == [boards[b].cycle EXCEPT
                    !.stage = "read", !.emission = emission, !.additive = (emission # Open)]
<1>2. /\ boards'[b] = [boards[b] EXCEPT !.cycle = c]
      /\ \A a \in Board \ {b} : boards'[a] = boards[a]
    BY <1>1, OneBoardChanges
<1>3. boards[b] \in BoardProcess /\ boards[b].cycle \in FeedCycle
    BY RewrittenBoards DEF BoardProcess
<1>4. /\ c.stage = "read" /\ c.emission = emission /\ c.additive = (emission # Open)
      /\ c.removed = boards[b].cycle.removed
    BY <1>3 DEF FeedCycle
<1> HIDE DEF c
<1>5. boards'[b].cycle = c /\ boards'[b].up = boards[b].up /\ boards'[b].jobs = boards[b].jobs
    BY <1>2, <1>3 DEF BoardProcess
<1> QED BY <1>2, <1>4, <1>5 DEF ReadFeed, KeepTheEpic, EpicRests, OthersRest

LEMMA IngestCycles ==
    ASSUME Types, NEW b \in Board, IngestFeed(b)
    PROVE  /\ UNCHANGED <<pollOwner, feed, disk, spent, setting>> /\ OthersRest(b)
           /\ boards[b].cycle.stage = "read"
           /\ MayIngest(HostOf[b]) =>
                  /\ boards'[b].cycle.stage = "ingested"
                  /\ boards'[b].cycle.emission = boards[b].cycle.emission
                  /\ boards'[b].cycle.removed =
                         {TaskOf(i) : i \in
                              {k \in Removed(boards[b].cycle.emission, boards[b].cycle.additive) :
                                   tasks[k] \in {NoHost, HostOf[b]}}}
                  /\ \A a \in Board : boards'[a].up = boards[a].up /\ boards'[a].jobs = boards[a].jobs
           /\ ~MayIngest(HostOf[b]) =>
                  /\ boards'[b] = Ended(boards[b], "failed")
                  /\ \A a \in Board \ {b} : boards'[a] = boards[a]
                  /\ boards'[b].cycle = NoCycle /\ UNCHANGED <<steady, tasks, removals, requests, lastId>>
<1> DEFINE held == {TaskOf(i) : i \in
                        {k \in Removed(boards[b].cycle.emission, boards[b].cycle.additive) :
                             tasks[k] \in {NoHost, HostOf[b]}}}
           c == [boards[b].cycle EXCEPT !.stage = "ingested", !.removed = held]
<1>1. UNCHANGED <<pollOwner, feed, disk, spent, setting>> /\ boards[b].cycle.stage = "read"
    BY DEF IngestFeed
<1>2. boards[b] \in BoardProcess /\ boards[b].cycle \in FeedCycle
    BY RewrittenBoards DEF BoardProcess
<1>3. CASE MayIngest(HostOf[b])
    <2>1. boards' = [boards EXCEPT ![b] = [boards[b] EXCEPT !.cycle = c]]
        BY <1>2, <1>3 DEF IngestFeed, With, BoardProcess
    <2>2. /\ boards'[b] = [boards[b] EXCEPT !.cycle = c]
          /\ \A a \in Board \ {b} : boards'[a] = boards[a]
        BY <2>1, OneBoardChanges
    <2>3. /\ c.stage = "ingested" /\ c.emission = boards[b].cycle.emission /\ c.removed = held
        <3> HIDE DEF held
        <3> QED BY <1>2 DEF FeedCycle
    <2> HIDE DEF c, held
    <2>4. boards'[b].cycle = c /\ boards'[b].up = boards[b].up /\ boards'[b].jobs = boards[b].jobs
        BY <1>2, <2>2 DEF BoardProcess
    <2> QED BY <1>1, <1>3, <2>2, <2>3, <2>4 DEF OthersRest, held
<1>4. CASE ~MayIngest(HostOf[b])
    <2>1. boards' = [boards EXCEPT ![b] = Ended(boards[b], "failed")] /\ UNCHANGED <<steady, tasks, removals, requests, lastId>>
        BY <1>4 DEF IngestFeed, With
    <2>2. Ended(boards[b], "failed").cycle = NoCycle
        BY EndedCycle
    <2> QED BY <1>1, <1>4, <2>1, <2>2, OneBoardChanges DEF OthersRest
<1> QED BY <1>3, <1>4

----------------------------------------------------------------------------
(* One reader *)

Polling(b) == boards[b].cycle # NoCycle

(* A cycle about to reconcile, which the store will not refuse.            *)
Current(b) == boards[b].cycle.stage = "read" /\ pollOwner = HostOf[b]

(* Whoever polls is or was the owner; before the first override, is.       *)
PollersOwn ==
    /\ \A b \in Board : Polling(b) => pollOwner # NoHost
    /\ spent.overrides = 0 => \A b \in Board : Polling(b) => pollOwner = HostOf[b]

(* The complete emission the store will reconcile with has every item that *)
(* has been open since a reconcile last reported it.                       *)
NothingIsMissing ==
    \A b \in Board : Current(b) /\ ~boards[b].cycle.additive =>
        steady \subseteq boards[b].cycle.emission

Readers ==
    /\ PollersOwn
    /\ OneReader => NothingIsMissing

LEMMA CycleStages ==
    ASSUME Types, NEW b \in Board
    PROVE  /\ boards[b].cycle \in FeedCycle
           /\ NoCycle.stage = "none" /\ NoCycle.emission = {} /\ NoCycle.removed = {}
           /\ boards[b].cycle.stage # "none" => Polling(b)
BY RewrittenBoards DEF BoardProcess, NoCycle, Polling

(* The store refuses whoever is not the owner.                             *)
LEMMA IngestersOwn ==
    ASSUME Types, PollersOwn, NEW b \in Board, boards[b].cycle.stage = "read"
    PROVE  MayIngest(HostOf[b]) <=> Current(b)
BY CycleStages DEF PollersOwn, MayIngest, Current

LEMMA ReadersRest ==
    ASSUME Readers, CyclesRest, EpicRests PROVE Readers'
<1>1. PollersOwn'
    BY DEF Readers, PollersOwn, Polling, CyclesRest, EpicRests, HostOf
<1>3. OneReader => NothingIsMissing'
    BY DEF Readers, NothingIsMissing, Current, CyclesRest, EpicRests, HostOf
<1>4. OneReader' => OneReader
    BY DEF OneReader, HostOf, MaxOverrides, EpicRests
<1> QED BY <1>1, <1>3, <1>4 DEF Readers

LEMMA ReadersStart ==
    ASSUME Types, Readers, NEW b \in Board, Starts(b), EpicRests PROVE Readers'
<1>1. HostOf[b] # NoHost
    BY SettingFacts, FeedAssumption
<1>2. PollersOwn'
    BY <1>1 DEF Readers, PollersOwn, Polling, Starts, OthersRest, EpicRests, HostOf
<1>4. OneReader => NothingIsMissing'
    BY DEF Readers, NothingIsMissing, Current, Starts, OthersRest, EpicRests, HostOf
<1>5. OneReader' => OneReader
    BY DEF OneReader, HostOf, MaxOverrides, EpicRests
<1> QED BY <1>2, <1>4, <1>5 DEF Readers

LEMMA ReadersEnd ==
    ASSUME Types, Readers, NEW b \in Board, OthersRest(b), boards'[b].cycle = NoCycle, EpicRests
    PROVE  Readers'
<1>1. NoCycle.stage = "none" /\ NoCycle.emission = {}
    BY DEF NoCycle
<1>2. PollersOwn'
    BY DEF Readers, PollersOwn, Polling, OthersRest, EpicRests, HostOf
<1>4. OneReader => NothingIsMissing'
    BY <1>1 DEF Readers, NothingIsMissing, Current, OthersRest, EpicRests, HostOf
<1>5. OneReader' => OneReader
    BY DEF OneReader, HostOf, MaxOverrides, EpicRests
<1> QED BY <1>2, <1>4, <1>5 DEF Readers

LEMMA ReadersStep == Types /\ Readers /\ [FeedNext]_feedVars => Readers'
<1> SUFFICES ASSUME Types, Readers, [FeedNext]_feedVars PROVE Readers'
    OBVIOUS
<1>1. setting' = setting
    BY SettingStays
<1>2. HostOf' = HostOf /\ OneReader' = OneReader /\ HostOf \in [Board -> Host]
    BY <1>1, SettingFacts DEF OneReader, HostOf, MaxOverrides
<1>3. ASSUME NEW i \in Item, ItemOpens(i) \/ ItemCloses(i) PROVE Readers'
    <2>1. pollOwner' = pollOwner /\ boards' = boards /\ spent'.overrides = spent.overrides
        BY <1>3 DEF ItemOpens, ItemCloses, KeepTheBoards, Types, Spending
    <2>2. PollersOwn'
        BY <1>2, <2>1 DEF Readers, PollersOwn, Polling
    <2>3. steady' \subseteq steady
        BY <1>3 DEF ItemOpens, ItemCloses
    <2>4. OneReader => NothingIsMissing'
        BY <1>2, <2>1, <2>3 DEF Readers, NothingIsMissing, Current
    <2> QED BY <1>2, <2>2, <2>4 DEF Readers
<1>4. ASSUME NEW i \in Item, NEW h \in Host, Dispatch(i, h) PROVE Readers'
    <2>1. UNCHANGED <<pollOwner, steady, boards, spent>>
        BY <1>4 DEF Dispatch, KeepTheBoards
    <2>3. PollersOwn'
        BY <1>2, <2>1 DEF Readers, PollersOwn, Polling
    <2>5. OneReader => NothingIsMissing'
        BY <1>2, <2>1 DEF Readers, NothingIsMissing, Current
    <2> QED BY <1>2, <2>3, <2>5 DEF Readers
<1>5. ASSUME NEW h \in Host, OverridePollOwner(h) PROVE Readers'
    <2>1. UNCHANGED <<steady, boards>>
        BY <1>5 DEF OverridePollOwner, KeepTheBoards
    <2>2. pollOwner' = h /\ pollOwner' # pollOwner /\ spent.overrides < MaxOverrides
        BY <1>5 DEF OverridePollOwner
    <2>3. spent'.overrides = spent.overrides + 1 /\ spent.overrides \in Nat
        BY <1>5 DEF OverridePollOwner, Types, Spending
    <2>4. PollersOwn'
        BY <2>1, <2>2, <2>3, FeedAssumption DEF PollersOwn, Polling
    <2>6. OneReader => NothingIsMissing'
        <3>1. ASSUME OneReader, NEW b \in Board, boards[b].cycle.stage = "read"
              PROVE  HostOf[b] # pollOwner'
            <4>1. spent.overrides = 0
                BY <2>2, <2>3, <3>1, SettingFacts DEF OneReader
            <4> QED BY <2>2, <3>1, <4>1, CycleStages DEF Readers, PollersOwn
        <3> QED BY <1>2, <2>1, <3>1 DEF NothingIsMissing, Current
    <2> QED BY <1>2, <2>4, <2>6 DEF Readers
<1>6. ASSUME NEW h \in Host, RequestFeedRefresh(h) PROVE Readers'
    BY <1>6, ReadersRest DEF RequestFeedRefresh, KeepTheBoards, CyclesRest, EpicRests
<1>7. ASSUME NEW b \in Board, PickUp(b) PROVE Readers'
    BY <1>7, PickUpCycles, ReadersRest
<1>8. ASSUME NEW b \in Board, Serve(b) PROVE Readers'
    BY <1>8, CallCycles, RefreshCycles, ReadersRest, ReadersStart DEF Serve
<1>9. ASSUME NEW b \in Board, ClaimPollOwner(b) PROVE Readers'
    <2>1. UNCHANGED <<steady, boards, spent>>
        BY <1>9 DEF ClaimPollOwner, KeepTheBoards
    <2>2. pollOwner = NoHost
        BY <1>9 DEF ClaimPollOwner, OwnerAfterClaim
    <2>3. \A a \in Board : ~Polling(a)
        BY <2>2 DEF Readers, PollersOwn
    <2>4. \A a \in Board : boards[a].cycle.stage = "none"
        BY <2>3, CycleStages DEF Polling
    <2>5. PollersOwn'
        BY <2>1, <2>3 DEF PollersOwn, Polling
    <2>6. NothingIsMissing'
        BY <2>1, <2>4 DEF NothingIsMissing, Current
    <2> QED BY <2>5, <2>6 DEF Readers
<1>10. ASSUME NEW b \in Board, StartCycle(b) PROVE Readers'
    BY <1>10, StartCycles, ReadersStart
<1>11. ASSUME NEW b \in Board, FailCycle(b) \/ CleanUp(b) \/ Die(b) \/ Restart(b) PROVE Readers'
    BY <1>11, EndCycles, ReadersEnd
<1>12. ASSUME NEW b \in Board, ReadFeed(b) PROVE Readers'
    <2>1. Polling(b)
        BY <1>12, ReadCycles, CycleStages
    <2>2. PollersOwn'
        BY <1>2, <1>12, <2>1, ReadCycles DEF Readers, PollersOwn, Polling, OthersRest, EpicRests
    <2>4. OneReader => NothingIsMissing'
        BY <1>2, <1>12, ReadCycles DEF Types, Readers, NothingIsMissing, Current, OthersRest, EpicRests
    <2> QED BY <1>2, <2>2, <2>4 DEF Readers
<1>13. ASSUME NEW b \in Board, IngestFeed(b) PROVE Readers'
    <2>1. CASE MayIngest(HostOf[b])
        <3>1. /\ UNCHANGED <<pollOwner, feed, spent>> /\ OthersRest(b)
              /\ boards[b].cycle.stage = "read" /\ boards'[b].cycle.stage = "ingested"
              /\ boards'[b].cycle.emission = boards[b].cycle.emission
            BY <1>13, <2>1, IngestCycles
        <3>2. Current(b) /\ Polling(b)
            BY <2>1, <3>1, IngestersOwn, CycleStages DEF Readers
        <3>4. PollersOwn'
            BY <1>2, <3>1, <3>2 DEF Readers, PollersOwn, Polling, OthersRest
        <3>6. OneReader => NothingIsMissing'
            <4>1. ASSUME OneReader, NEW a \in Board, Current(a)' PROVE FALSE
                <5>1. a # b
                    BY <3>1, <4>1 DEF Current
                <5>2. HostOf[a] = HostOf[b]
                    BY <1>2, <3>1, <3>2, <4>1 DEF Current
                <5> QED BY <4>1, <5>1, <5>2 DEF OneReader
            <4> QED BY <4>1 DEF NothingIsMissing
        <3> QED BY <1>2, <3>4, <3>6 DEF Readers
    <2>2. CASE ~MayIngest(HostOf[b])
        BY <1>13, <2>2, IngestCycles, ReadersEnd DEF EpicRests
    <2> QED BY <2>1, <2>2
<1>14. CASE TimePasses
    BY <1>14, ReadersRest DEF TimePasses, KeepTheEpic, CyclesRest, EpicRests
<1>15. CASE UNCHANGED feedVars
    BY <1>15, ReadersRest DEF feedVars, CyclesRest, EpicRests
<1> QED
    BY <1>3, <1>4, <1>5, <1>6, <1>7, <1>8, <1>9, <1>10, <1>11, <1>12, <1>13, <1>14, <1>15
    DEF FeedNext, Cycle

(* A reconcile removes no row whose item is steady.                        *)
LEMMA SteadyIsNotRemoved ==
    ASSUME Types, Readers, OneReader, NEW b \in Board, Current(b), NEW i \in steady
    PROVE  i \notin Removed(boards[b].cycle.emission, boards[b].cycle.additive)
BY DEF Readers, NothingIsMissing, Removed

LEMMA OpenItemsStayStep ==
    ASSUME Types, Readers, [FeedNext]_feedVars, OneReader
    PROVE  KeepsOpenItems
<1>0. ASSUME tasks' = tasks PROVE KeepsOpenItems
    BY <1>0 DEF KeepsOpenItems, Types, Rows
<1>1. ASSUME NEW i \in Item, ItemOpens(i) \/ ItemCloses(i) PROVE tasks' = tasks
    BY <1>1 DEF ItemOpens, ItemCloses, KeepTheRows
<1>2. ASSUME NEW i \in Item, NEW h \in Host, Dispatch(i, h) PROVE KeepsOpenItems
    <2>1. tasks'[i] \in Host /\ \A k \in Item \ {i} : tasks'[k] = tasks[k]
        BY <1>2 DEF Dispatch, Types
    <2> QED BY <2>1, FeedAssumption DEF KeepsOpenItems, Types, Rows
<1>3. ASSUME NEW h \in Host, OverridePollOwner(h) \/ RequestFeedRefresh(h) PROVE tasks' = tasks
    BY <1>3 DEF OverridePollOwner, RequestFeedRefresh, KeepTheRows
<1>4. ASSUME NEW b \in Board, PickUp(b) PROVE tasks' = tasks
    BY <1>4, PickUpCycles DEF EpicRests
<1>5. ASSUME NEW b \in Board, Serve(b) PROVE tasks' = tasks
    BY <1>5, CallCycles, RefreshCycles DEF Serve, EpicRests
<1>6. ASSUME NEW b \in Board,
             ClaimPollOwner(b) \/ StartCycle(b) \/ FailCycle(b) \/ CleanUp(b) \/ Die(b)
             \/ Restart(b) \/ ReadFeed(b)
      PROVE  tasks' = tasks
    BY <1>6, StartCycles, EndCycles, ReadCycles DEF ClaimPollOwner, KeepTheRows, EpicRests
<1>7. ASSUME NEW b \in Board, IngestFeed(b) PROVE KeepsOpenItems
    <2>1. CASE MayIngest(HostOf[b])
        <3>1. Current(b)
            BY <1>7, <2>1, IngestCycles, IngestersOwn DEF Readers
        <3>2. tasks' = AfterIngest(boards[b].cycle.emission, boards[b].cycle.additive)
            BY <1>7, <2>1 DEF IngestFeed
        <3>3. ASSUME NEW i \in steady PROVE tasks'[i] # NoRow
            <4>1. i \in Item /\ tasks[i] # NoRow
                BY DEF Types, Rows
            <4>2. i \notin Removed(boards[b].cycle.emission, boards[b].cycle.additive)
                BY <3>1, SteadyIsNotRemoved
            <4> QED BY <3>2, <4>1, <4>2, FeedAssumption DEF AfterIngest
        <3> QED BY <3>3 DEF KeepsOpenItems
    <2>2. CASE ~MayIngest(HostOf[b])
        BY <1>7, <2>2, <1>0, IngestCycles
    <2> QED BY <2>1, <2>2
<1>8. CASE TimePasses \/ UNCHANGED feedVars
    BY <1>0, <1>8 DEF TimePasses, KeepTheEpic, feedVars
<1> QED
    BY <1>0, <1>1, <1>2, <1>3, <1>4, <1>5, <1>6, <1>7, <1>8 DEF FeedNext, Cycle

----------------------------------------------------------------------------
(* What is owed *)

(* The request rows that still owe a teardown, by their ids: a row keeps   *)
(* its id while its state and its age change.                              *)
Asked(t, h) == {r.id : r \in OwedByRow(t, h)}

Unowed(t) == \A h \in Host : OwedByCycle(t, h) = {} /\ Asked(t, h) = {}
Clean(t) == Unowed(t) /\ \A h \in Host : <<t, h>> \notin disk

OwedOnce(t, h) ==
    \/ OwedByCycle(t, h) # {} /\ Asked(t, h) = {}
    \/ OwedByCycle(t, h) = {} /\ \E n : Asked(t, h) = {n}

(* Nothing is left of a task before it is first dispatched.                *)
NewIsClean ==
    \A t \in TaskName :
        \/ t[2] > removals[t[1]]
        \/ t[2] = removals[t[1]] /\ tasks[t[1]] \notin Host
        => Clean(t)

HeldIsUnowed ==
    \A i \in Item : tasks[i] \in Host =>
        Unowed(TaskOf(i)) /\ \A h \in Host : <<TaskOf(i), h>> \in disk => h = tasks[i]

(* What is left of a removed task is owed.                                 *)
LeftIsOwed ==
    \A t \in TaskName, h \in Host :
        <<t, h>> \in disk /\ t[2] < removals[t[1]] => OwedOnce(t, h)

BoardsLive ==
    \A b \in Board : /\ boards[b].up
                     /\ boards[b].cycle.stage # "ingested" => boards[b].cycle.removed = {}

(* A teardown row that was served is served for good.                      *)
TeardownsWork ==
    \A r \in requests : r.kind = "teardown" =>
        /\ r.state # "failed"
        /\ \A b \in Board : \A j \in boards[b].jobs : j.row = r.id =>
               /\ j.stage \in {"claim", "claimed", "done"}
               /\ j.stage = "done" => <<r.task, r.host>> \notin disk

Owing == NewIsClean /\ HeldIsUnowed /\ LeftIsOwed
Leftovers == Owing /\ BoardsLive /\ TeardownsWork

LEMMA AskedRows ==
    ASSUME Types, NEW t, NEW h
    PROVE  /\ \A n \in Asked(t, h) : \E r \in requests :
                  r.id = n /\ r.kind = "teardown" /\ r.task = t /\ r.host = h /\ r.state # "done"
           /\ \A r \in requests : r.kind = "teardown" /\ r.task = t /\ r.host = h /\ r.state # "done"
                  => r.id \in Asked(t, h)
BY DEF Asked, OwedByRow

(* A step that leaves the tasks, and settles at most what is gone from     *)
(* disk.                                                                   *)
Settles ==
    /\ tasks' = tasks /\ removals' = removals /\ disk' \subseteq disk
    /\ \A t \in TaskName, h \in Host :
           \/ OwedByCycle(t, h)' = OwedByCycle(t, h) /\ Asked(t, h)' = Asked(t, h)
           \/ /\ OwedByCycle(t, h)' \subseteq OwedByCycle(t, h)
              /\ Asked(t, h)' \subseteq Asked(t, h)
              /\ <<t, h>> \notin disk'

LEMMA NamedTask == ASSUME Types, NEW i \in Item PROVE TaskOf(i) \in TaskName
BY DEF Types, TaskOf, TaskName

LEMMA OwingRests ==
    ASSUME Types, Owing, Settles
    PROVE  Owing'
<1>0. TaskName' = TaskName /\ \A i \in Item : TaskOf(i)' = TaskOf(i) /\ TaskOf(i) \in TaskName
    BY NamedTask DEF TaskName, TaskOf, Settles
<1>1. ASSUME NEW t \in TaskName, Unowed(t) PROVE Unowed(t)'
    BY <1>1 DEF Settles, Unowed
<1>2. ASSUME NEW t \in TaskName, Clean(t) PROVE Clean(t)'
    BY <1>1, <1>2 DEF Settles, Clean
<1>3. NewIsClean'
    BY <1>2 DEF Owing, NewIsClean, Settles
<1>5. HeldIsUnowed'
    BY <1>0, <1>1 DEF Owing, HeldIsUnowed, Settles
<1>6. LeftIsOwed'
    <2> SUFFICES ASSUME NEW t \in TaskName, NEW h \in Host, <<t, h>> \in disk',
                        t[2] < removals[t[1]]
                 PROVE  OwedOnce(t, h)'
        BY DEF LeftIsOwed, Settles
    <2>1. OwedByCycle(t, h)' = OwedByCycle(t, h) /\ Asked(t, h)' = Asked(t, h)
        BY DEF Settles
    <2>2. OwedOnce(t, h)
        BY DEF Owing, LeftIsOwed, Settles
    <2> QED BY <2>1, <2>2 DEF OwedOnce
<1> QED BY <1>3, <1>5, <1>6 DEF Owing

(* Rows that are rewritten, pruned or added without a word about teardowns.*)
LEMMA AsksRest ==
    ASSUME Types, TeardownsWork,
           \A r \in requests' : r.kind = "teardown" /\ r.state # "done" =>
               \E q \in requests : /\ q.id = r.id /\ q.kind = "teardown" /\ q.task = r.task
                                   /\ q.host = r.host /\ q.state # "done",
           \A q \in requests : q.kind = "teardown" /\ q.state # "done" =>
               \E r \in requests' : /\ r.id = q.id /\ r.kind = "teardown" /\ r.task = q.task
                                    /\ r.host = q.host /\ r.state # "done"
    PROVE  \A t \in TaskName, h \in Host : Asked(t, h)' = Asked(t, h)
BY DEF Asked, OwedByRow

(* No teardown row that owes is pruned.                                    *)
LEMMA OwingRowsAreKept ==
    ASSUME Types, TeardownsWork, NEW r \in requests, r.kind = "teardown", r.state # "done"
    PROVE  r \in Kept
<1>1. r \in RequestRow
    BY RewrittenRows
<1>2. r.state \in {"requested", "running"}
    BY <1>1 DEF RequestRow, TeardownsWork
<1> QED BY <1>2 DEF Kept, Prunable, IsOpen

LEMMA CyclesOwe ==
    ASSUME Types, setting' = setting,
           \A b \in Board : boards'[b].cycle.removed = boards[b].cycle.removed
    PROVE  \A t \in TaskName, h \in Host : OwedByCycle(t, h)' = OwedByCycle(t, h)
BY DEF OwedByCycle, HostOf

LEMMA TeardownsGoOn ==
    ASSUME Types, Servers, TeardownsWork, disk' \subseteq disk,
           \A r \in requests' : r.kind = "teardown" =>
               /\ r.state # "failed"
               /\ \/ r.id > lastId
                  \/ \E q \in requests : /\ q.id = r.id /\ q.kind = "teardown"
                                         /\ q.task = r.task /\ q.host = r.host,
           \A b \in Board : \A k \in boards'[b].jobs :
               /\ k.row \in 1..lastId
               /\ \/ k.stage = "claim"
                  \/ \E j \in boards[b].jobs :
                         /\ j.row = k.row
                         /\ \/ k = j \/ j.stage = "cycling"
                            \/ k.stage = "claimed"
                            \/ \A q \in requests : q.id = j.row => q.kind # "teardown"
                            \/ /\ k.stage = "done"
                               /\ \A q \in requests : q.id = j.row => <<q.task, q.host>> \notin disk'
    PROVE  TeardownsWork'
<1> SUFFICES ASSUME NEW r \in requests', r.kind = "teardown",
                    NEW b \in Board, NEW k \in boards'[b].jobs, k.row = r.id
             PROVE  /\ k.stage \in {"claim", "claimed", "done"}
                    /\ k.stage = "done" => <<r.task, r.host>> \notin disk'
    BY DEF TeardownsWork
<1>1. lastId \in Nat
    BY SettingFacts DEF Types
<1>2. ~(r.id > lastId)
    BY <1>1
<1>3. PICK q \in requests : q.id = r.id /\ q.kind = "teardown" /\ q.task = r.task /\ q.host = r.host
    BY <1>2
<1>4. ASSUME NEW j \in boards[b].jobs, j.row = k.row
      PROVE  /\ j.stage \in {"claim", "claimed", "done"}
             /\ j.stage = "done" => <<r.task, r.host>> \notin disk
    BY <1>3, <1>4 DEF TeardownsWork
<1> QED BY <1>3, <1>4

(* Nobody dies, and nobody is started again.                               *)
LEMMA NobodyDies ==
    ASSUME Types, Undisturbed, BoardsLive, NEW b \in Board
    PROVE  ~Die(b) /\ ~Restart(b)
<1>1. ~(spent.crashes < MaxCrashes)
    <2>1. spent.crashes \in Nat
        BY DEF Types, Spending
    <2>2. MaxCrashes = 0
        BY DEF Undisturbed
    <2> QED BY <2>1, <2>2
<1>2. boards[b].up
    BY DEF BoardsLive
<1> QED BY <1>1, <1>2 DEF Die, Restart

(* What age and a reading make of a row.                                   *)
LEMMA SameRow ==
    ASSUME Types, NEW r \in requests
    PROVE  /\ LET o == Older(r)
              IN o.id = r.id /\ o.kind = r.kind /\ o.task = r.task /\ o.host = r.host /\ o.state = r.state
           /\ LET f == [r EXCEPT !.fed = TRUE]
              IN f.id = r.id /\ f.kind = r.kind /\ f.task = r.task /\ f.host = r.host /\ f.state = r.state
<1>1. r \in RequestRow
    BY RewrittenRows
<1> QED BY <1>1 DEF RequestRow, Older

(* Boards that do not crash stay up, and hold removed tasks only between   *)
(* an ingest and its clean-up.                                             *)
LEMMA BoardsLiveStep ==
    ASSUME Types, Readers, Undisturbed, BoardsLive, [FeedNext]_feedVars
    PROVE  BoardsLive'
<1> USE DEF BoardsLive
<1>1. NoCycle.stage = "none" /\ NoCycle.removed = {}
    BY DEF NoCycle
<1>2. ASSUME UNCHANGED boards PROVE BoardsLive'
    BY <1>2
<1>3. ASSUME NEW b \in Board, OthersRest(b), \A a \in Board : boards'[a].up = boards[a].up,
             boards'[b].cycle.stage # "ingested" => boards'[b].cycle.removed = {}
      PROVE  BoardsLive'
    BY <1>3 DEF OthersRest
<1>4. ASSUME CyclesRest, \A a \in Board : boards'[a].up = boards[a].up PROVE BoardsLive'
    BY <1>4 DEF CyclesRest
<1>5. ASSUME NEW b \in Board, NEW p, p.up = boards[b].up, boards' = [boards EXCEPT ![b] = p]
      PROVE  \A a \in Board : boards'[a].up = boards[a].up
    BY <1>5, OneBoardChanges
<1>6. ASSUME NEW i \in Item, ItemOpens(i) \/ ItemCloses(i) \/ \E h \in Host : Dispatch(i, h)
      PROVE BoardsLive'
    BY <1>2, <1>6 DEF ItemOpens, ItemCloses, Dispatch, KeepTheBoards
<1>7. ASSUME NEW h \in Host, OverridePollOwner(h) \/ RequestFeedRefresh(h) PROVE BoardsLive'
    BY <1>2, <1>7 DEF OverridePollOwner, RequestFeedRefresh, KeepTheBoards
<1>8. ASSUME NEW b \in Board, PickUp(b) PROVE BoardsLive'
    <2>1. PICK served, jobs :
              boards' = [boards EXCEPT ![b] = [boards[b] EXCEPT !.served = served, !.jobs = jobs]]
        BY <1>8 DEF PickUp, With
    <2>2. [boards[b] EXCEPT !.served = served, !.jobs = jobs].up = boards[b].up
        BY RewrittenBoards DEF BoardProcess
    <2> QED BY <1>4, <1>5, <1>8, <2>1, <2>2, PickUpCycles
<1>9. ASSUME NEW b \in Board, NEW j \in boards[b].jobs,
             ClaimFeedRequest(b, j) \/ Report(b, j) \/ ServeTeardown(b, j)
      PROVE  BoardsLive'
    <2>1. ASSUME NEW stage \in {"claimed", "cycling", "done", "failed"},
                 boards' = [boards EXCEPT ![b] = Advanced(boards[b], j, stage)]
          PROVE  \A a \in Board : boards'[a].up = boards[a].up
        BY <1>5, <2>1, AdvancedJob
    <2>2. ASSUME DropsJob(b, j) PROVE \A a \in Board : boards'[a].up = boards[a].up
        BY <2>2, DroppedJob
    <2>3. \A a \in Board : boards'[a].up = boards[a].up
        BY <1>9, <2>1, <2>2, ClaimOutcomes, ReportOutcomes DEF ServeTeardown, With
    <2> QED BY <1>4, <1>9, <2>3, CallCycles
<1>10. ASSUME NEW b \in Board, NEW j \in boards[b].jobs, ServeRefresh(b, j) PROVE BoardsLive'
    <2>1. ASSUME NEW stage \in {"claimed", "cycling", "done", "failed"},
                 boards' = [boards EXCEPT ![b] = Advanced(boards[b], j, stage)]
          PROVE  \A a \in Board : boards'[a].up = boards[a].up
        BY <1>5, <2>1, AdvancedJob
    <2>2. ASSUME NEW c, boards' = [boards EXCEPT ![b] =
                                      [Advanced(boards[b], j, "cycling") EXCEPT !.cycle = c]]
          PROVE  \A a \in Board : boards'[a].up = boards[a].up
        <3> DEFINE p == Advanced(boards[b], j, "cycling")
        <3>1. p \in BoardProcess /\ p.up = boards[b].up
            BY RewrittenBoards, AdvancedJob
        <3>2. [p EXCEPT !.cycle = c].up = p.up
            <4> HIDE DEF p
            <4> QED BY <3>1 DEF BoardProcess
        <3> QED BY <1>5, <2>2, <3>1, <3>2
    <2>3. \A a \in Board : boards'[a].up = boards[a].up
        BY <1>10, <2>1, <2>2 DEF ServeRefresh, With
    <2> QED BY <1>3, <1>4, <1>10, <2>3, RefreshCycles DEF Starts
<1>11. ASSUME NEW b \in Board, ClaimPollOwner(b) PROVE BoardsLive'
    BY <1>2, <1>11 DEF ClaimPollOwner, KeepTheBoards
<1>12. ASSUME NEW b \in Board, StartCycle(b) PROVE BoardsLive'
    <2>1. \E c : boards' = [boards EXCEPT ![b] = [boards[b] EXCEPT !.cycle = c]]
        BY <1>12 DEF StartCycle, With
    <2>2. \A c : [boards[b] EXCEPT !.cycle = c].up = boards[b].up
        BY RewrittenBoards DEF BoardProcess
    <2> QED BY <1>3, <1>5, <1>12, <2>1, <2>2, StartCycles DEF Starts
<1>13. ASSUME NEW b \in Board, FailCycle(b) \/ CleanUp(b) PROVE BoardsLive'
    <2>1. \E outcome \in {"done", "failed"} : boards' = [boards EXCEPT ![b] = Ended(boards[b], outcome)]
        BY <1>13 DEF FailCycle, CleanUp, With
    <2>2. \A a \in Board : boards'[a].up = boards[a].up
        BY <1>5, <2>1, EndedCycle
    <2> QED BY <1>1, <1>3, <1>13, <2>2, EndCycles
<1>14. ASSUME NEW b \in Board, Die(b) \/ Restart(b) PROVE FALSE
    BY <1>14, NobodyDies
<1>15. ASSUME NEW b \in Board, ReadFeed(b) PROVE BoardsLive'
    BY <1>3, <1>15, ReadCycles
<1>16. ASSUME NEW b \in Board, IngestFeed(b) PROVE BoardsLive'
    <2>1. CASE MayIngest(HostOf[b])
        BY <1>3, <1>16, <2>1, IngestCycles
    <2>2. CASE ~MayIngest(HostOf[b])
        <3>1. \A a \in Board : boards'[a].up = boards[a].up
            BY <1>16, <2>2, IngestCycles, EndedCycle
        <3> QED BY <1>1, <1>3, <1>16, <2>2, <3>1, IngestCycles
    <2> QED BY <2>1, <2>2
<1>17. CASE TimePasses \/ UNCHANGED feedVars
    BY <1>2, <1>17 DEF TimePasses, feedVars
<1> QED
    BY <1>6, <1>7, <1>8, <1>9, <1>10, <1>11, <1>12, <1>13, <1>14, <1>15, <1>16, <1>17
    DEF FeedNext, Serve, Cycle

(* How a claim and a report rewrite the row of a job.                      *)
LEMMA WrittenRow ==
    ASSUME Types, Numbered, NEW r \in requests,
           NEW state \in {"running", "done", "failed"}, requests' = Written(r, state)
    PROVE  \E w \in requests' :
               /\ w.id = r.id /\ w.kind = r.kind /\ w.task = r.task /\ w.host = r.host
               /\ w.state = state
               /\ requests' = (requests \ {r}) \cup {w}
<1> DEFINE w == [r EXCEPT !.state = state, !.age = 0]
<1>1. w.id = r.id /\ w.kind = r.kind /\ w.task = r.task /\ w.host = r.host /\ w.state = state
    BY RewrittenRows DEF RequestRow
<1>2. requests' = (requests \ {r}) \cup {w}
    BY DEF Written
<1> HIDE DEF w
<1> QED BY <1>1, <1>2

LEMMA TeardownsWorkStep ==
    ASSUME Types, Servers, Undisturbed, Leftovers, [FeedNext]_feedVars
    PROVE  TeardownsWork'
<1> DEFINE RowsGoOn ==
               \A r \in requests' : r.kind = "teardown" =>
                   /\ r.state # "failed"
                   /\ \/ r.id > lastId
                      \/ \E q \in requests : /\ q.id = r.id /\ q.kind = "teardown"
                                             /\ q.task = r.task /\ q.host = r.host
           GoesOn(b, k) ==
               /\ k.row \in 1..lastId
               /\ \/ k.stage = "claim"
                  \/ \E j \in boards[b].jobs :
                         /\ j.row = k.row
                         /\ \/ k = j \/ j.stage = "cycling"
                            \/ k.stage = "claimed"
                            \/ \A q \in requests : q.id = j.row => q.kind # "teardown"
                            \/ /\ k.stage = "done"
                               /\ \A q \in requests : q.id = j.row => <<q.task, q.host>> \notin disk'
           JobsGoOn == \A b \in Board : \A k \in boards'[b].jobs : GoesOn(b, k)
<1>1. ASSUME disk' \subseteq disk, RowsGoOn, JobsGoOn PROVE TeardownsWork'
    BY <1>1, TeardownsGoOn DEF Leftovers
<1>2. ASSUME NEW b \in Board, NEW k \in boards[b].jobs PROVE GoesOn(b, k)
    BY <1>2 DEF Servers, Fits
<1>3. ASSUME \A b \in Board : boards'[b].jobs = boards[b].jobs PROVE JobsGoOn
    BY <1>2, <1>3
<1>4. ASSUME requests' \subseteq requests PROVE RowsGoOn
    BY <1>4 DEF Leftovers, TeardownsWork
<1>5. ASSUME NEW b \in Board, NEW j \in boards[b].jobs, DropsJob(b, j) PROVE JobsGoOn
    <2>1. \A a \in Board : boards'[a].jobs \subseteq boards[a].jobs
        BY <1>5, DroppedJob
    <2> HIDE DEF GoesOn
    <2> QED BY <1>2, <2>1
<1>6. ASSUME NEW b \in Board, NEW j \in boards[b].jobs,
             NEW stage \in {"claimed", "cycling", "done", "failed"},
             GoesOn(b, Job(j.row, stage)),
             boards' = [boards EXCEPT ![b] = Advanced(boards[b], j, stage)]
      PROVE  JobsGoOn
    <2>1. /\ boards'[b] = Advanced(boards[b], j, stage)
          /\ \A a \in Board \ {b} : boards'[a] = boards[a]
        BY <1>6, OneBoardChanges
    <2> HIDE DEF GoesOn, JobsGoOn, RowsGoOn
    <2>2. boards'[b].jobs = (boards[b].jobs \ {j}) \cup {Job(j.row, stage)}
        <3>1. Advanced(boards[b], j, stage).jobs = (boards[b].jobs \ {j}) \cup {Job(j.row, stage)}
            BY AdvancedJob
        <3> QED BY <2>1, <3>1
    <2> USE DEF JobsGoOn
    <2> QED BY <1>2, <1>6, <2>1, <2>2
<1>7. ASSUME NEW b \in Board, NEW outcome \in {"done", "failed"},
             boards'[b] = Ended(boards[b], outcome), \A a \in Board \ {b} : boards'[a] = boards[a]
      PROVE  JobsGoOn
    <2>1. ASSUME NEW k \in boards'[b].jobs PROVE GoesOn(b, k)
        <3>1. PICK j \in boards[b].jobs : j.row = k.row /\ (k = j \/ j.stage = "cycling")
            BY <1>7, <2>1, EndedCycle
        <3>2. k.row \in 1..lastId
            BY <3>1 DEF Servers, Fits
        <3> QED BY <3>1, <3>2
    <2> HIDE DEF GoesOn
    <2> QED BY <1>2, <1>7, <2>1
<1>8. ASSUME NEW i \in Item, ItemOpens(i) \/ ItemCloses(i) PROVE TeardownsWork'
    BY <1>1, <1>3, <1>4, <1>8 DEF ItemOpens, ItemCloses, KeepTheBoards, KeepTheRows
<1>9. ASSUME NEW i \in Item, NEW h \in Host, Dispatch(i, h) PROVE TeardownsWork'
    <2>1. UNCHANGED <<requests, boards>> /\ disk' = disk \cup {<<TaskOf(i), h>>}
        BY <1>9 DEF Dispatch, KeepTheBoards
    <2>2. Asked(TaskOf(i), h) = {}
        <3>1. TaskOf(i) \in TaskName /\ TaskOf(i)[1] = i /\ TaskOf(i)[2] = removals[i]
            BY NamedTask DEF TaskOf
        <3>2. tasks[i] \notin Host
            BY <1>9, FeedAssumption DEF Dispatch
        <3>3. Clean(TaskOf(i))
            BY <3>1, <3>2 DEF Leftovers, Owing, NewIsClean
        <3> QED BY <3>3 DEF Clean, Unowed
    <2>3. ASSUME NEW r \in requests, r.kind = "teardown", NEW b \in Board, NEW j \in boards[b].jobs,
                 j.row = r.id, j.stage = "done"
          PROVE  <<r.task, r.host>> # <<TaskOf(i), h>>
        BY <2>2, <2>3, AskedRows DEF Servers, Fits
    <2> QED BY <2>1, <2>3 DEF Leftovers, TeardownsWork
<1>10. ASSUME NEW h \in Host, OverridePollOwner(h) PROVE TeardownsWork'
    BY <1>1, <1>3, <1>4, <1>10 DEF OverridePollOwner, KeepTheBoards, KeepTheRows
<1>11. ASSUME NEW h \in Host, RequestFeedRefresh(h) PROVE TeardownsWork'
    <2>1. \A r \in requests' : r \in requests \/ r.kind = "refresh"
        BY <1>11 DEF RequestFeedRefresh, Request, Kept
    <2>2. RowsGoOn
        BY <2>1 DEF Leftovers, TeardownsWork
    <2> QED BY <1>1, <1>3, <1>11, <2>2 DEF RequestFeedRefresh, KeepTheBoards
<1>12. ASSUME NEW b \in Board, PickUp(b) PROVE TeardownsWork'
    <2>0. PICK r \in requests : \E served :
              boards' = [boards EXCEPT ![b] = [boards[b] EXCEPT
                  !.served = served, !.jobs = boards[b].jobs \cup {Job(r.id, "claim")}]]
        BY <1>12, RewrittenBoards DEF PickUp, With, BoardProcess
    <2>1. PICK served :
              boards' = [boards EXCEPT ![b] = [boards[b] EXCEPT
                  !.served = served, !.jobs = boards[b].jobs \cup {Job(r.id, "claim")}]]
        BY <2>0
    <2>2. /\ boards'[b].jobs = boards[b].jobs \cup {Job(r.id, "claim")}
          /\ \A a \in Board \ {b} : boards'[a] = boards[a]
        <3> DEFINE jobs == boards[b].jobs \cup {Job(r.id, "claim")}
        <3>1. /\ boards'[b] = [boards[b] EXCEPT !.served = served, !.jobs = jobs]
              /\ \A a \in Board \ {b} : boards'[a] = boards[a]
            BY <2>1, OneBoardChanges
        <3> HIDE DEF jobs
        <3>2. boards'[b].jobs = jobs
            BY <3>1, RewrittenBoards DEF BoardProcess
        <3> QED BY <3>1, <3>2 DEF jobs
    <2>3. GoesOn(b, Job(r.id, "claim"))
        BY DEF Servers, Numbered, Job
    <2>4. JobsGoOn
        <3> HIDE DEF GoesOn
        <3> QED BY <1>2, <2>2, <2>3
    <2> QED BY <1>1, <1>4, <1>12, <2>4 DEF PickUp
<1>13. ASSUME NEW b \in Board, NEW j \in boards[b].jobs, ClaimFeedRequest(b, j) PROVE TeardownsWork'
    <2>1. GoesOn(b, Job(j.row, "claimed"))
        BY DEF Servers, Fits, Job
    <2>2. JobsGoOn
        <3> HIDE DEF JobsGoOn, GoesOn
        <3>1. \/ DropsJob(b, j)
              \/ boards' = [boards EXCEPT ![b] = Advanced(boards[b], j, "claimed")]
            BY <1>13, ClaimOutcomes
        <3> QED BY <1>5, <1>6, <2>1, <3>1
    <2>3. RowsGoOn
        <3>1. CASE requests' = requests
            BY <1>4, <3>1
        <3>2. ASSUME NEW r \in requests, requests' = Written(r, "running") PROVE RowsGoOn
            <4>1. PICK w \in requests' :
                      /\ w.id = r.id /\ w.kind = r.kind /\ w.task = r.task /\ w.host = r.host
                      /\ w.state = "running" /\ requests' = (requests \ {r}) \cup {w}
                BY <3>2, WrittenRow DEF Servers
            <4> QED BY <4>1 DEF Leftovers, TeardownsWork
        <3> HIDE DEF RowsGoOn
        <3> QED BY <1>13, <3>1, <3>2, ClaimOutcomes
    <2>4. disk' = disk
        BY <1>13, ClaimOutcomes
    <2> HIDE DEF JobsGoOn, RowsGoOn
    <2> QED BY <1>1, <2>2, <2>3, <2>4
<1>14. ASSUME NEW b \in Board, NEW j \in boards[b].jobs, Report(b, j) PROVE TeardownsWork'
    <2>1. JobsGoOn
        <3> HIDE DEF JobsGoOn
        <3> QED BY <1>5, <1>14, ReportOutcomes
    <2>2. RowsGoOn
        <3>1. CASE requests' = requests
            BY <1>4, <3>1
        <3>2. ASSUME NEW r \in requests, r.id = j.row, requests' = Written(r, j.stage) PROVE RowsGoOn
            <4>1. j.stage \in {"done", "failed"} /\ (r.kind = "teardown" => j.stage # "failed")
                BY <1>14, <3>2, ReportOutcomes DEF Leftovers, TeardownsWork
            <4>2. PICK w \in requests' :
                      /\ w.id = r.id /\ w.kind = r.kind /\ w.task = r.task /\ w.host = r.host
                      /\ w.state = j.stage /\ requests' = (requests \ {r}) \cup {w}
                BY <3>2, <4>1, WrittenRow DEF Servers
            <4> QED BY <4>1, <4>2 DEF Leftovers, TeardownsWork
        <3> HIDE DEF RowsGoOn
        <3> QED BY <1>14, <3>1, <3>2, ReportOutcomes
    <2>3. disk' = disk
        BY <1>14, ReportOutcomes
    <2> HIDE DEF JobsGoOn, RowsGoOn
    <2> QED BY <1>1, <2>1, <2>2, <2>3
<1>15. ASSUME NEW b \in Board, NEW j \in boards[b].jobs, ServeRefresh(b, j) PROVE TeardownsWork'
    <2>1. \A q \in requests : q.id = j.row => q.kind # "teardown"
        BY <1>15 DEF ServeRefresh, RowsOf, Servers, Numbered
    <2>2. \A stage \in {"claimed", "cycling", "done", "failed"} : GoesOn(b, Job(j.row, stage))
        BY <2>1, <1>2 DEF Job, Servers, Fits
    <2>3. ASSUME NEW c, boards' = [boards EXCEPT ![b] =
                                      [Advanced(boards[b], j, "cycling") EXCEPT !.cycle = c]]
          PROVE  JobsGoOn
        <3> DEFINE p == Advanced(boards[b], j, "cycling")
        <3>1. p \in BoardProcess
            BY RewrittenBoards
        <3>2. [p EXCEPT !.cycle = c].jobs = p.jobs
            <4> HIDE DEF p
            <4> QED BY <3>1 DEF BoardProcess
        <3>3. p.jobs = (boards[b].jobs \ {j}) \cup {Job(j.row, "cycling")}
            BY AdvancedJob
        <3>4. boards'[b] = [p EXCEPT !.cycle = c] /\ \A a \in Board \ {b} : boards'[a] = boards[a]
            BY <2>3, OneBoardChanges
        <3> HIDE DEF p, GoesOn
        <3> QED BY <1>2, <2>2, <3>2, <3>3, <3>4
    <2>4. JobsGoOn
        <3> HIDE DEF JobsGoOn, GoesOn
        <3> QED BY <1>6, <1>15, <2>2, <2>3 DEF ServeRefresh, With
    <2> HIDE DEF JobsGoOn
    <2> QED BY <1>1, <1>4, <1>15, <2>4 DEF ServeRefresh
<1>16. ASSUME NEW b \in Board, NEW j \in boards[b].jobs, ServeTeardown(b, j) PROVE TeardownsWork'
    <2>1. PICK r \in requests : /\ r.id = j.row /\ r.kind = "teardown"
                                /\ disk' = disk \ {<<r.task, r.host>>}
                                /\ boards' = [boards EXCEPT ![b] = Advanced(boards[b], j, "done")]
        BY <1>16 DEF ServeTeardown, RowsOf, With, Undisturbed
    <2>2. \A q \in requests : q.id = j.row => q = r
        BY <2>1 DEF Servers, Numbered
    <2>3. GoesOn(b, Job(j.row, "done"))
        BY <2>1, <2>2, <1>2 DEF Job, Servers, Fits
    <2>4. JobsGoOn
        <3> HIDE DEF JobsGoOn, GoesOn
        <3> QED BY <1>6, <2>1, <2>3
    <2> HIDE DEF JobsGoOn
    <2> QED BY <1>1, <1>4, <1>16, <2>1, <2>4 DEF ServeTeardown
<1>17. ASSUME NEW b \in Board, ClaimPollOwner(b) PROVE TeardownsWork'
    BY <1>1, <1>3, <1>4, <1>17 DEF ClaimPollOwner, KeepTheBoards, KeepTheRows
<1>18. ASSUME NEW b \in Board, StartCycle(b) PROVE TeardownsWork'
    <2>1. \E c : boards' = [boards EXCEPT ![b] = [boards[b] EXCEPT !.cycle = c]]
        BY <1>18 DEF StartCycle, With
    <2>2. \A c : [boards[b] EXCEPT !.cycle = c].jobs = boards[b].jobs
        BY RewrittenBoards DEF BoardProcess
    <2>3. \A a \in Board : boards'[a].jobs = boards[a].jobs
        BY <2>1, <2>2, OneBoardChanges
    <2>4. JobsGoOn
        BY <1>3, <2>3
    <2> HIDE DEF JobsGoOn
    <2> QED BY <1>1, <1>4, <1>18, <2>4 DEF StartCycle
<1>19. ASSUME NEW b \in Board, FailCycle(b) \/ CleanUp(b) PROVE TeardownsWork'
    <2>1. PICK outcome \in {"done", "failed"} : boards' = [boards EXCEPT ![b] = Ended(boards[b], outcome)]
        BY <1>19 DEF FailCycle, CleanUp, With
    <2>2. JobsGoOn
        <3> HIDE DEF JobsGoOn
        <3> QED BY <1>7, <2>1, OneBoardChanges
    <2>3. disk' \subseteq disk /\ requests' = requests
        BY <1>19 DEF FailCycle, CleanUp
    <2> HIDE DEF JobsGoOn
    <2> QED BY <1>1, <1>4, <2>2, <2>3
<1>20. ASSUME NEW b \in Board, Die(b) \/ Restart(b) PROVE FALSE
    BY <1>20, NobodyDies DEF Leftovers
<1>21. ASSUME NEW b \in Board, ReadFeed(b) PROVE TeardownsWork'
    <2>1. JobsGoOn
        <3> HIDE DEF JobsGoOn
        <3> QED BY <1>3, <1>21, ReadCycles
    <2>2. \A r \in requests' : \E q \in requests :
              /\ q.id = r.id /\ q.kind = r.kind /\ q.task = r.task /\ q.host = r.host
              /\ q.state = r.state
        <3>1. \A r \in requests' : \E q \in requests : r = q \/ r = [q EXCEPT !.fed = TRUE]
            BY <1>21 DEF ReadFeed
        <3> QED BY <3>1, SameRow
    <2>3. RowsGoOn
        BY <2>2 DEF Leftovers, TeardownsWork
    <2> HIDE DEF JobsGoOn, RowsGoOn
    <2> QED BY <1>1, <1>21, <2>1, <2>3, ReadCycles
<1>22. ASSUME NEW b \in Board, IngestFeed(b) PROVE TeardownsWork'
    <2>1. CASE MayIngest(HostOf[b])
        <3> DEFINE gone == Removed(boards[b].cycle.emission, boards[b].cycle.additive)
                   owed == TeardownRequests(gone, HostOf[b])
        <3>1. gone \in SUBSET Item /\ HostOf[b] \in Host /\ lastId \in Nat
            BY SettingFacts DEF Types, Removed, Rows
        <3>2. /\ Cardinality(owed) \in Nat
              /\ \A r \in owed : /\ r.id \in (lastId + 1)..(lastId + Cardinality(owed))
                                 /\ r.state = "requested"
            <4>1. owed = TeardownRequests(gone, HostOf[b])
                OBVIOUS
            <4> HIDE DEF RowsGoOn, JobsGoOn, gone, owed
            <4> QED BY <3>1, <4>1, TeardownRows
        <3>3. requests' \subseteq requests \cup owed
            BY <1>22, <2>1 DEF IngestFeed, Kept
        <3> HIDE DEF owed
        <3>4. \A r \in owed : r.id > lastId /\ r.state # "failed"
            BY <3>1, <3>2
        <3>6. RowsGoOn
            BY <3>3, <3>4 DEF Leftovers, TeardownsWork
        <3>5. JobsGoOn
            <4> HIDE DEF JobsGoOn
            <4> QED BY <1>3, <1>22, <2>1, IngestCycles
        <3> HIDE DEF JobsGoOn, RowsGoOn
        <3> QED BY <1>1, <1>22, <3>5, <3>6, IngestCycles
    <2>2. CASE ~MayIngest(HostOf[b])
        <3>1. JobsGoOn
            <4> HIDE DEF JobsGoOn
            <4> QED BY <1>7, <1>22, <2>2, IngestCycles
        <3>2. RowsGoOn
            BY <1>4, <1>22, <2>2, IngestCycles
        <3> HIDE DEF JobsGoOn, RowsGoOn
        <3> QED BY <1>1, <1>22, <3>1, <3>2, IngestCycles
    <2> QED BY <2>1, <2>2
<1>23. CASE TimePasses
    <2>1. \A r \in requests' : \E q \in requests :
              /\ q.id = r.id /\ q.kind = r.kind /\ q.task = r.task /\ q.host = r.host
              /\ q.state = r.state
        BY <1>23, SameRow DEF TimePasses
    <2>2. RowsGoOn
        BY <2>1 DEF Leftovers, TeardownsWork
    <2>3. JobsGoOn
        BY <1>3, <1>23 DEF TimePasses
    <2> HIDE DEF JobsGoOn, RowsGoOn
    <2> QED BY <1>1, <1>23, <2>2, <2>3 DEF TimePasses
<1>24. CASE UNCHANGED feedVars
    BY <1>1, <1>3, <1>4, <1>24 DEF feedVars
<1> HIDE DEF RowsGoOn, JobsGoOn, GoesOn
<1> QED
    BY <1>8, <1>9, <1>10, <1>11, <1>12, <1>13, <1>14, <1>15, <1>16, <1>17, <1>18, <1>19,
       <1>20, <1>21, <1>22, <1>23, <1>24 DEF FeedNext, Serve, Cycle

(* A step that leaves the cycles, the tasks and what is asked.             *)
LEMMA OwingUntouched ==
    ASSUME Types, Leftovers, setting' = setting, tasks' = tasks, removals' = removals,
           disk' \subseteq disk,
           \A t \in TaskName, h \in Host : Asked(t, h)' = Asked(t, h),
           \A b \in Board : boards'[b].cycle.removed = boards[b].cycle.removed
    PROVE  Owing'
<1>1. \A t \in TaskName, h \in Host : OwedByCycle(t, h)' = OwedByCycle(t, h)
    BY CyclesOwe
<1>2. Settles
    BY <1>1 DEF Settles
<1> QED BY <1>2, OwingRests DEF Leftovers

LEMMA DispatchOwing ==
    ASSUME Types, Leftovers, NEW k \in Item, NEW g \in Host, Dispatch(k, g)
    PROVE  Owing'
<1>0. PICK n \in TaskName : n = TaskOf(k) /\ n[1] = k /\ n[2] = removals[k]
    BY NamedTask DEF TaskOf
<1>1. /\ tasks[k] = NoHost /\ tasks' = [tasks EXCEPT ![k] = g] /\ disk' = disk \cup {<<n, g>>}
      /\ UNCHANGED <<removals, requests, boards, setting>>
    BY <1>0 DEF Dispatch, KeepTheBoards
<1>2. NoHost \notin Host /\ NoRow \notin Host /\ NoRow # NoHost
    BY FeedAssumption
<1>3. /\ \A t \in TaskName, h \in Host :
             OwedByCycle(t, h)' = OwedByCycle(t, h) /\ Asked(t, h)' = Asked(t, h)
      /\ \A t \in TaskName : Unowed(t)' = Unowed(t)
      /\ \A i \in Item : TaskOf(i)' = TaskOf(i)
    BY <1>1 DEF OwedByCycle, Asked, OwedByRow, Unowed, HostOf, TaskOf
<1>4. /\ n \in TaskName /\ n[1] = k /\ n[2] = removals[k]
      /\ \A i \in Item \ {k} : TaskOf(i) \in TaskName /\ TaskOf(i) # n
      /\ \A t \in TaskName : t[1] \in Item /\ (t[1] = k /\ t[2] = removals[k] => t = n)
    BY <1>0, NamedTask DEF TaskOf, TaskName
<1>5. /\ tasks'[k] = g /\ \A i \in Item \ {k} : tasks'[i] = tasks[i]
      /\ \A t \in TaskName \ {n}, h \in Host : <<t, h>> \in disk' <=> <<t, h>> \in disk
    BY <1>1 DEF Types
<1>6. \A t \in TaskName \ {n} : Clean(t)' = Clean(t)
    BY <1>3, <1>5 DEF Clean
<1>7. Clean(n)
    BY <1>1, <1>2, <1>4 DEF Leftovers, Owing, NewIsClean
<1>8. NewIsClean'
    <2> SUFFICES ASSUME NEW t \in TaskName,
                        \/ t[2] > removals[t[1]]
                        \/ t[2] = removals[t[1]] /\ tasks'[t[1]] \notin Host
                 PROVE  Clean(t)'
        BY <1>1 DEF NewIsClean, TaskName
    <2>1. t # n
        BY <1>4, <1>5 DEF Types
    <2>2. Clean(t)
        BY <1>1, <1>2, <1>4, <1>5 DEF Leftovers, Owing, NewIsClean
    <2> QED BY <1>6, <2>1, <2>2
<1>9. HeldIsUnowed'
    <2>1. Unowed(n)' /\ \A h \in Host : <<n, h>> \in disk' => h = g
        <3>1. Unowed(n)' /\ \A h \in Host : <<n, h>> \notin disk
            BY <1>3, <1>4, <1>7 DEF Clean
        <3>2. \A h \in Host : <<n, h>> \in disk' => <<n, h>> \in disk \/ <<n, h>> = <<n, g>>
            BY <1>1
        <3> QED BY <3>1, <3>2
    <2>2. TaskOf(k)' = n
        BY <1>0, <1>3
    <2>3. ASSUME NEW i \in Item \ {k}, tasks'[i] \in Host
          PROVE  /\ Unowed(TaskOf(i))'
                 /\ \A h \in Host : <<TaskOf(i)', h>> \in disk' => h = tasks'[i]
        <3>1. PICK t \in TaskName \ {n} : t = TaskOf(i)
            BY <1>4
        <3>2. tasks[i] \in Host /\ tasks'[i] = tasks[i] /\ TaskOf(i)' = t
            BY <1>3, <1>5, <2>3, <3>1
        <3>3. Unowed(t) /\ \A h \in Host : <<t, h>> \in disk => h = tasks[i]
            BY <3>1, <3>2 DEF Leftovers, Owing, HeldIsUnowed
        <3>4. Unowed(t)' /\ \A h \in Host : <<t, h>> \in disk' => h = tasks[i]
            BY <1>3, <1>5, <3>1, <3>3
        <3> QED BY <3>2, <3>4
    <2>4. ASSUME NEW i \in Item, tasks'[i] \in Host
          PROVE  /\ Unowed(TaskOf(i))'
                 /\ \A h \in Host : <<TaskOf(i)', h>> \in disk' => h = tasks'[i]
        <3>1. CASE i = k
            BY <1>5, <2>1, <2>2, <3>1
        <3>2. CASE i # k
            BY <2>3, <2>4, <3>2
        <3> QED BY <3>1, <3>2
    <2> QED BY <2>4 DEF HeldIsUnowed
<1>10. LeftIsOwed'
    <2>1. \A t \in TaskName, h \in Host : OwedOnce(t, h)' = OwedOnce(t, h)
        BY <1>3 DEF OwedOnce
    <2>2. ~(n[2] < removals[n[1]])
        BY <1>4 DEF Types
    <2> QED BY <1>1, <1>5, <2>1, <2>2 DEF Leftovers, Owing, LeftIsOwed, TaskName
<1> QED BY <1>8, <1>9, <1>10 DEF Owing

LEMMA ReportOwing ==
    ASSUME Types, Servers, Leftovers, NEW b \in Board, NEW j \in boards[b].jobs, Report(b, j)
    PROVE  Owing'
<1>1. /\ UNCHANGED <<tasks, removals, disk, setting>> /\ CyclesRest
      /\ j.stage \in {"done", "failed"}
    BY ReportOutcomes, CallCycles DEF EpicRests
<1>2. \A t \in TaskName, h \in Host : OwedByCycle(t, h)' = OwedByCycle(t, h)
    BY <1>1, CyclesOwe DEF CyclesRest
<1>4. CASE requests' = requests
    BY <1>1, <1>4, OwingUntouched DEF CyclesRest, Asked, OwedByRow
<1>5. ASSUME NEW r \in requests, r.id = j.row, requests' = Written(r, j.stage) PROVE Owing'
    <2>1. PICK w \in requests' :
              /\ w.id = r.id /\ w.kind = r.kind /\ w.task = r.task /\ w.host = r.host
              /\ w.state = j.stage /\ requests' = (requests \ {r}) \cup {w}
        BY <1>1, <1>5, WrittenRow DEF Servers
    <2>2. r.kind = "teardown" => j.stage = "done" /\ <<r.task, r.host>> \notin disk
        BY <1>1, <1>5 DEF Leftovers, TeardownsWork
    <2>3. ASSUME NEW t \in TaskName, NEW h \in Host
          PROVE  \/ Asked(t, h)' = Asked(t, h)
                 \/ Asked(t, h)' \subseteq Asked(t, h) /\ <<t, h>> \notin disk'
        <3>1. CASE r.kind = "teardown" /\ r.task = t /\ r.host = h
            BY <1>1, <2>1, <2>2, <3>1 DEF Asked, OwedByRow
        <3>2. CASE ~(r.kind = "teardown" /\ r.task = t /\ r.host = h)
            <4>1. OwedByRow(t, h)' = OwedByRow(t, h)
                BY <2>1, <3>2 DEF OwedByRow
            <4> QED BY <4>1 DEF Asked
        <3> QED BY <3>1, <3>2
    <2>4. Settles
        BY <1>1, <1>2, <2>3 DEF Settles
    <2> QED BY <2>4, OwingRests DEF Leftovers
<1> QED BY <1>4, <1>5, ReportOutcomes

LEMMA CleanUpOwing ==
    ASSUME Types, Leftovers, NEW b \in Board, CleanUp(b)
    PROVE  Owing'
<1>1. /\ EpicRests /\ OthersRest(b) /\ boards'[b].cycle = NoCycle /\ requests' = requests
      /\ disk' = disk \ (boards[b].cycle.removed \X {HostOf[b]})
    BY EndCycles DEF CleanUp
<1>2. NoCycle.stage = "none" /\ NoCycle.removed = {}
    BY DEF NoCycle
<1>4. \A t \in TaskName, h \in Host : Asked(t, h)' = Asked(t, h)
    BY <1>1 DEF Asked, OwedByRow
<1>5. ASSUME NEW t \in TaskName, NEW h \in Host
      PROVE  \/ OwedByCycle(t, h)' = OwedByCycle(t, h)
             \/ OwedByCycle(t, h)' \subseteq OwedByCycle(t, h) /\ <<t, h>> \notin disk'
    <2>1. HostOf' = HostOf /\ OwedByCycle(t, h)' = OwedByCycle(t, h) \ {b}
        BY <1>1, <1>2 DEF OwedByCycle, OthersRest, EpicRests, HostOf
    <2>2. b \in OwedByCycle(t, h) => <<t, h>> \notin disk'
        BY <1>1 DEF OwedByCycle
    <2> QED BY <2>1, <2>2
<1>6. Settles
    BY <1>1, <1>4, <1>5 DEF Settles, EpicRests
<1> QED BY <1>6, OwingRests DEF Leftovers

LEMMA IngestOwing ==
    ASSUME Types, Servers, Readers, Undisturbed, Leftovers, NEW b \in Board, IngestFeed(b)
    PROVE  Owing'
<1> DEFINE gone == Removed(boards[b].cycle.emission, boards[b].cycle.additive)
           host == HostOf[b]
           owed == TeardownRequests(gone, host)
<1>1. boards[b].cycle.stage = "read" /\ boards[b].cycle.removed = {}
    BY IngestCycles DEF Leftovers, BoardsLive
<1>2. CASE ~MayIngest(host)
    <2>1. /\ UNCHANGED <<disk, setting, tasks, removals, requests>> /\ OthersRest(b)
          /\ boards'[b].cycle = NoCycle /\ NoCycle.removed = {}
        BY <1>2, IngestCycles DEF NoCycle
    <2>2. \A t \in TaskName, h \in Host : Asked(t, h)' = Asked(t, h)
        BY <2>1 DEF Asked, OwedByRow
    <2> QED BY <1>1, <2>1, <2>2, OwingUntouched DEF OthersRest
<1>3. CASE MayIngest(host)
    <2>1. /\ UNCHANGED <<disk, setting>> /\ OthersRest(b)
          /\ boards'[b].cycle.removed = {TaskOf(i) : i \in {k \in gone : tasks[k] \in {NoHost, host}}}
          /\ tasks' = AfterIngest(boards[b].cycle.emission, boards[b].cycle.additive)
          /\ removals' = [i \in Item |-> removals[i] + (IF i \in gone THEN 1 ELSE 0)]
          /\ requests' = (IF owed = {} THEN requests ELSE Kept) \cup owed
        BY <1>3, IngestCycles DEF IngestFeed
    <2>2. /\ gone \in SUBSET Item /\ host \in Host /\ \A i \in gone : tasks[i] # NoRow
        BY SettingFacts DEF Removed, Rows
    <2>3. /\ \A r \in owed : /\ r.kind = "teardown" /\ r.state = "requested" /\ r.host # host
                             /\ \E i \in gone : r.task = TaskOf(i) /\ r.host = tasks[i]
          /\ \A r, q \in owed : r.task = q.task => r = q
          /\ \A i \in gone : tasks[i] \in Host \ {host} => \E r \in owed : r.task = TaskOf(i)
        <3> HIDE DEF gone, host
        <3> QED BY <2>2, TeardownRows
    <2>4. /\ \A i \in gone : tasks'[i] = NoRow /\ removals'[i] = removals[i] + 1
          /\ \A i \in Item \ gone : /\ removals'[i] = removals[i]
                                  /\ \/ tasks'[i] = tasks[i]
                                     \/ tasks[i] = NoRow /\ tasks'[i] = NoHost
        BY <2>1, <2>2 DEF AfterIngest, Types
    <2>5. NoHost \notin Host /\ NoRow \notin Host /\ NoRow # NoHost
        BY FeedAssumption
    <2>6. /\ \A i \in Item : /\ TaskOf(i) \in TaskName /\ removals[i] \in Nat
                             /\ TaskOf(i)[1] = i /\ TaskOf(i)[2] = removals[i]
          /\ \A t \in TaskName : /\ t[1] \in Item /\ t[2] \in Nat
                                 /\ t[2] = removals[t[1]] => t = TaskOf(t[1])
        BY NamedTask DEF TaskOf, TaskName, Types
    <2> HIDE DEF owed, gone, host
    <2>7. ASSUME NEW t \in TaskName, \A i \in gone : t # TaskOf(i), NEW h \in Host
          PROVE  OwedByCycle(t, h)' = OwedByCycle(t, h)
        <3>1. t \notin boards'[b].cycle.removed
            BY <2>1, <2>7
        <3> QED BY <1>1, <2>1, <3>1 DEF OwedByCycle, OthersRest, HostOf
    <2>8. ASSUME NEW t \in TaskName, NEW h \in Host
          PROVE  OwedByRow(t, h)' = OwedByRow(t, h) \cup {r \in owed : r.task = t /\ r.host = h}
        <3>1. \A r \in requests : r.kind = "teardown" /\ r.state # "done" => r \in Kept
            BY OwingRowsAreKept DEF Leftovers
        <3>2. Kept \subseteq requests
            BY DEF Kept
        <3> QED BY <2>1, <2>3, <3>1, <3>2 DEF OwedByRow
    <2>9. ASSUME NEW t \in TaskName, \A i \in gone : t # TaskOf(i), NEW h \in Host
          PROVE  OwedByCycle(t, h)' = OwedByCycle(t, h) /\ Asked(t, h)' = Asked(t, h)
        <3>1. \A r \in owed : r.task # t
            BY <2>3, <2>9
        <3>2. OwedByRow(t, h)' = OwedByRow(t, h)
            BY <2>8, <3>1
        <3> QED BY <2>7, <2>9, <3>2 DEF Asked
    <2>10. ASSUME NEW t \in TaskName, \A i \in gone : t # TaskOf(i)
           PROVE  Unowed(t)' = Unowed(t) /\ Clean(t)' = Clean(t)
        BY <2>1, <2>9, <2>10 DEF Unowed, Clean
    <2>11. NewIsClean'
        <3> SUFFICES ASSUME NEW t \in TaskName,
                            \/ t[2] > removals'[t[1]]
                            \/ t[2] = removals'[t[1]] /\ tasks'[t[1]] \notin Host
                     PROVE  Clean(t)'
            BY DEF NewIsClean, TaskName
        <3>1. \A i \in gone : t # TaskOf(i)
            BY <2>2, <2>4, <2>6
        <3>2. \/ t[2] > removals[t[1]]
              \/ t[2] = removals[t[1]] /\ tasks[t[1]] \notin Host
            BY <2>2, <2>4, <2>5, <2>6
        <3>3. Clean(t)
            BY <3>2 DEF Leftovers, Owing, NewIsClean
        <3> QED BY <2>10, <3>1, <3>3
    <2>12. HeldIsUnowed'
        <3>1. ASSUME NEW i \in Item, tasks'[i] \in Host
              PROVE  /\ TaskOf(i)' = TaskOf(i) /\ Unowed(TaskOf(i))'
                     /\ \A h \in Host : <<TaskOf(i)', h>> \in disk' => h = tasks'[i]
            <4>0. PICK t \in TaskName : t = TaskOf(i)
                BY NamedTask
            <4>1. i \notin gone /\ tasks'[i] = tasks[i] /\ removals'[i] = removals[i]
                BY <2>4, <2>5, <3>1
            <4>2. TaskOf(i)' = t /\ \A k \in gone : t # TaskOf(k)
                BY <2>2, <2>6, <4>0, <4>1 DEF TaskOf
            <4>3. Unowed(t) /\ \A h \in Host : <<t, h>> \in disk => h = tasks[i]
                BY <3>1, <4>0, <4>1 DEF Leftovers, Owing, HeldIsUnowed
            <4>4. Unowed(t)'
                BY <2>10, <4>2, <4>3
            <4> QED BY <2>1, <4>0, <4>1, <4>2, <4>3, <4>4
        <3> QED BY <3>1 DEF HeldIsUnowed
    <2>13. LeftIsOwed'
        <3> SUFFICES ASSUME NEW t \in TaskName, NEW h \in Host, <<t, h>> \in disk,
                            t[2] < removals'[t[1]]
                     PROVE  OwedOnce(t, h)'
            BY <2>1 DEF LeftIsOwed, TaskName
        <3>1. CASE \A i \in gone : t # TaskOf(i)
            <4>1. t[2] < removals[t[1]]
                BY <2>2, <2>4, <2>6, <3>1
            <4>2. OwedOnce(t, h)
                BY <4>1 DEF Leftovers, Owing, LeftIsOwed
            <4> QED BY <2>9, <3>1, <4>2 DEF OwedOnce
        <3>2. ASSUME NEW i \in gone, t = TaskOf(i) PROVE OwedOnce(t, h)'
            <4>1. i \in Item /\ t[1] = i /\ t[2] = removals[i]
                BY <2>2, <2>6, <3>2
            <4>2. tasks[i] \in Host
                BY <4>1 DEF Leftovers, Owing, NewIsClean, Clean
            <4>3. h = tasks[i] /\ Unowed(t)
                BY <3>2, <4>1, <4>2 DEF Leftovers, Owing, HeldIsUnowed
            <4>4. OwedByCycle(t, h) = {} /\ Asked(t, h) = {} /\ OwedByRow(t, h) = {}
                BY <4>3 DEF Unowed, Asked
            <4>5. CASE h = host
                <5>1. b \in OwedByCycle(t, h)'
                    BY <2>1, <3>2, <4>3, <4>5 DEF OwedByCycle, HostOf, host
                <5>2. OwedByRow(t, h)' = {}
                    BY <2>3, <2>8, <4>4, <4>5
                <5> QED BY <5>1, <5>2 DEF OwedOnce, Asked
            <4>6. CASE h # host
                <5>1. OwedByCycle(t, h)' = {}
                    BY <2>1, <4>4, <4>6 DEF OwedByCycle, OthersRest, HostOf, host
                <5>2. PICK r \in owed : r.task = t
                    BY <2>3, <3>2, <4>2, <4>3, <4>6
                <5>3. r.host = h
                    BY <2>2, <2>3, <2>6, <3>2, <4>3, <5>2
                <5>4. OwedByRow(t, h)' = {r}
                    BY <2>3, <2>8, <4>4, <5>2, <5>3
                <5>5. Asked(t, h)' = {r.id}
                    BY <5>4 DEF Asked
                <5> QED BY <5>1, <5>5 DEF OwedOnce
            <4> QED BY <4>5, <4>6
        <3> QED BY <3>1, <3>2
    <2> QED BY <2>11, <2>12, <2>13 DEF Owing
<1> QED BY <1>2, <1>3

LEMMA OwingStep ==
    ASSUME Types, Servers, Readers, Undisturbed, Leftovers, [FeedNext]_feedVars
    PROVE  Owing'
<1>1. setting' = setting /\ HostOf' = HostOf
    BY SettingStays DEF HostOf
<1>2. ASSUME UNCHANGED <<tasks, removals, disk>>,
             \A t \in TaskName, h \in Host : Asked(t, h)' = Asked(t, h),
             \A b \in Board : boards'[b].cycle.removed = boards[b].cycle.removed
      PROVE  Owing'
    BY <1>1, <1>2, OwingUntouched
<1>3. ASSUME requests' = requests PROVE \A t \in TaskName, h \in Host : Asked(t, h)' = Asked(t, h)
    BY <1>3 DEF Asked, OwedByRow
<1>5. ASSUME NEW b \in Board, Starts(b), EpicRests
      PROVE  \A a \in Board : boards'[a].cycle.removed = boards[a].cycle.removed
    <2>1. NoCycle.removed = {}
        BY DEF NoCycle
    <2> QED BY <1>5, <2>1 DEF Starts, OthersRest
<1>6. ASSUME NEW i \in Item, ItemOpens(i) \/ ItemCloses(i) PROVE Owing'
    <2>1. UNCHANGED <<tasks, removals, disk, requests, boards>>
        BY <1>6 DEF ItemOpens, ItemCloses, KeepTheBoards, KeepTheRows
    <2> QED BY <1>2, <1>3, <2>1
<1>7. ASSUME NEW i \in Item, NEW h \in Host, Dispatch(i, h) PROVE Owing'
    BY <1>7, DispatchOwing
<1>8. ASSUME NEW h \in Host, OverridePollOwner(h) PROVE Owing'
    <2>1. UNCHANGED <<tasks, removals, disk, requests, boards>>
        BY <1>8 DEF OverridePollOwner, KeepTheBoards, KeepTheRows
    <2> QED BY <1>2, <1>3, <2>1
<1>9. ASSUME NEW h \in Host, RequestFeedRefresh(h) PROVE Owing'
    <2>1. /\ UNCHANGED <<tasks, removals, disk, boards>>
          /\ requests' = Kept \cup {Request(lastId + 1, "refresh", NoTask, pollOwner)}
        BY <1>9 DEF RequestFeedRefresh, KeepTheBoards
    <2>2. \A t \in TaskName, k \in Host : Asked(t, k)' = Asked(t, k)
        <3>1. Request(lastId + 1, "refresh", NoTask, pollOwner).kind = "refresh"
            BY DEF Request
        <3>2. Kept \subseteq requests
            BY DEF Kept
        <3>3. \A r \in requests : r.kind = "teardown" /\ r.state # "done" => r \in Kept
            BY OwingRowsAreKept DEF Leftovers
        <3>4. \A t \in TaskName, k \in Host : OwedByRow(t, k)' = OwedByRow(t, k)
            BY <2>1, <3>1, <3>2, <3>3 DEF OwedByRow
        <3> QED BY <3>4 DEF Asked
    <2> QED BY <1>2, <2>1, <2>2
<1>10. ASSUME NEW b \in Board, PickUp(b) PROVE Owing'
    <2>1. CyclesRest /\ EpicRests /\ UNCHANGED <<disk, requests>>
        BY <1>10, PickUpCycles DEF PickUp
    <2> QED BY <1>2, <1>3, <2>1 DEF CyclesRest, EpicRests
<1>11. ASSUME NEW b \in Board, NEW j \in boards[b].jobs, ClaimFeedRequest(b, j) PROVE Owing'
    <2>1. CyclesRest /\ EpicRests /\ disk' = disk
        BY <1>11, CallCycles, ClaimOutcomes
    <2>2. \A t \in TaskName, h \in Host : Asked(t, h)' = Asked(t, h)
        <3>1. ASSUME NEW r \in requests, Claimable(r, HostOf[b]), requests' = Written(r, "running")
              PROVE  \A t \in TaskName, h \in Host : Asked(t, h)' = Asked(t, h)
            <4>1. PICK w \in requests' :
                      /\ w.id = r.id /\ w.kind = r.kind /\ w.task = r.task /\ w.host = r.host
                      /\ w.state = "running" /\ requests' = (requests \ {r}) \cup {w}
                BY <3>1, WrittenRow DEF Servers
            <4>2. r.state # "done"
                BY <3>1 DEF Claimable, IsOpen
            <4> QED BY <4>1, <4>2, AsksRest DEF Leftovers
        <3> QED BY <1>3, <1>11, <3>1, ClaimOutcomes
    <2> QED BY <1>2, <2>1, <2>2 DEF CyclesRest, EpicRests
<1>12. ASSUME NEW b \in Board, NEW j \in boards[b].jobs, ServeRefresh(b, j) PROVE Owing'
    <2>1. EpicRests /\ UNCHANGED <<disk, requests>> /\ (CyclesRest \/ Starts(b))
        BY <1>12, RefreshCycles DEF ServeRefresh
    <2> QED BY <1>2, <1>3, <1>5, <2>1 DEF CyclesRest, EpicRests
<1>13. ASSUME NEW b \in Board, NEW j \in boards[b].jobs, ServeTeardown(b, j) PROVE Owing'
    <2>1. CyclesRest /\ EpicRests /\ requests' = requests /\ disk' \subseteq disk
        BY <1>13, CallCycles DEF ServeTeardown
    <2> QED BY <1>1, <1>3, <2>1, OwingUntouched DEF CyclesRest, EpicRests
<1>14. ASSUME NEW b \in Board, NEW j \in boards[b].jobs, Report(b, j) PROVE Owing'
    BY <1>14, ReportOwing
<1>15. ASSUME NEW b \in Board, ClaimPollOwner(b) PROVE Owing'
    <2>1. UNCHANGED <<tasks, removals, disk, requests, boards>>
        BY <1>15 DEF ClaimPollOwner, KeepTheBoards, KeepTheRows
    <2> QED BY <1>2, <1>3, <2>1
<1>16. ASSUME NEW b \in Board, StartCycle(b) PROVE Owing'
    <2>1. EpicRests /\ Starts(b) /\ UNCHANGED <<disk, requests>>
        BY <1>16, StartCycles DEF StartCycle
    <2> QED BY <1>2, <1>3, <1>5, <2>1 DEF EpicRests
<1>17. ASSUME NEW b \in Board, FailCycle(b) PROVE Owing'
    <2>1. /\ EpicRests /\ OthersRest(b) /\ boards'[b].cycle = NoCycle
          /\ UNCHANGED <<disk, requests>> /\ boards[b].cycle.stage = "claimed"
        BY <1>17, EndCycles DEF FailCycle
    <2>2. boards[b].cycle.removed = {} /\ NoCycle.removed = {}
        BY <2>1 DEF Leftovers, BoardsLive, NoCycle
    <2> QED BY <1>2, <1>3, <2>1, <2>2 DEF OthersRest, EpicRests
<1>18. ASSUME NEW b \in Board, CleanUp(b) PROVE Owing'
    BY <1>18, CleanUpOwing
<1>19. ASSUME NEW b \in Board, Die(b) \/ Restart(b) PROVE FALSE
    BY <1>19, NobodyDies DEF Leftovers
<1>20. ASSUME NEW b \in Board, ReadFeed(b) PROVE Owing'
    <2>1. /\ EpicRests /\ OthersRest(b) /\ disk' = disk
          /\ boards'[b].cycle.removed = boards[b].cycle.removed
        BY <1>20, ReadCycles
    <2>2. \A t \in TaskName, h \in Host : Asked(t, h)' = Asked(t, h)
        <3> DEFINE Fed(r) == IF r.host = HostOf[b] /\ r.kind = "refresh" THEN [r EXCEPT !.fed = TRUE] ELSE r
        <3>1. requests' = {Fed(r) : r \in requests}
            BY <1>20 DEF ReadFeed
        <3>2. \A r \in requests : /\ Fed(r).id = r.id /\ Fed(r).kind = r.kind /\ Fed(r).task = r.task
                                 /\ Fed(r).host = r.host /\ Fed(r).state = r.state
            BY SameRow
        <3> HIDE DEF Fed
        <3> QED BY <3>1, <3>2, AsksRest DEF Leftovers
    <2> QED BY <1>2, <2>1, <2>2 DEF OthersRest, EpicRests
<1>21. ASSUME NEW b \in Board, IngestFeed(b) PROVE Owing'
    BY <1>21, IngestOwing
<1>22. CASE TimePasses
    <2>1. /\ UNCHANGED <<tasks, removals, disk, boards>>
          /\ requests' = {Older(r) : r \in requests}
        BY <1>22 DEF TimePasses, KeepTheEpic
    <2>2. \A t \in TaskName, h \in Host : Asked(t, h)' = Asked(t, h)
        BY <2>1, SameRow, AsksRest DEF Leftovers
    <2> QED BY <1>2, <2>1, <2>2
<1>23. CASE UNCHANGED feedVars
    BY <1>2, <1>3, <1>23 DEF feedVars
<1> QED
    BY <1>6, <1>7, <1>8, <1>9, <1>10, <1>11, <1>12, <1>13, <1>14, <1>15, <1>16, <1>17, <1>18,
       <1>19, <1>20, <1>21, <1>22, <1>23 DEF FeedNext, Serve, Cycle

----------------------------------------------------------------------------
(* Theorems *)

FeedInv ==
    /\ Types
    /\ Servers
    /\ Readers
    /\ Undisturbed => Leftovers

LEMMA FeedInvInit == FeedInit => FeedInv
<1> SUFFICES ASSUME FeedInit PROVE FeedInv
    OBVIOUS
<1>1. Types
    <2>1. Process \in BoardProcess
        BY DEF Process, BoardProcess, NoCycle, FeedCycle
    <2>2. MaxRequests \in Nat
        BY FeedAssumption DEF FeedInit, MaxRequests
    <2> QED BY <2>1, <2>2 DEF FeedInit, Types, Spending
<1>2. \A b \in Board :
          /\ boards[b].up /\ boards[b].served = {} /\ boards[b].jobs = {} /\ boards[b].cycle = NoCycle
          /\ boards[b].cycle.stage = "none" /\ boards[b].cycle.emission = {}
          /\ boards[b].cycle.removed = {}
    BY DEF FeedInit, Process, NoCycle
<1>3. Servers
    BY <1>2 DEF FeedInit, Servers, Numbered, Fits, OneServerPerRow
<1>4. Readers
    BY <1>2 DEF FeedInit, Readers, PollersOwn, Polling, NothingIsMissing, Current
<1>5. Leftovers
    <2>1. \A t \in TaskName : Clean(t)
        BY <1>2 DEF FeedInit, Clean, Unowed, OwedByCycle, Asked, OwedByRow
    <2> QED BY <1>2, <2>1, FeedAssumption
            DEF FeedInit, Leftovers, Owing, NewIsClean, HeldIsUnowed, LeftIsOwed,
                BoardsLive, TeardownsWork
<1> QED BY <1>1, <1>3, <1>4, <1>5 DEF FeedInv

LEMMA FeedInvStep == FeedInv /\ [FeedNext]_feedVars => FeedInv'
<1> SUFFICES ASSUME FeedInv, [FeedNext]_feedVars PROVE FeedInv'
    OBVIOUS
<1>1. Types' /\ Servers' /\ Readers'
    BY TypesStep, ServersStep, ReadersStep DEF FeedInv
<1>2. Undisturbed' = Undisturbed
    BY SettingStays DEF Undisturbed, OneReader, HostOf, MaxOverrides, MaxCrashes, Faults
<1>3. ASSUME Undisturbed PROVE Leftovers'
    BY <1>1, <1>3, BoardsLiveStep, TeardownsWorkStep, OwingStep DEF FeedInv, Leftovers
<1> QED BY <1>1, <1>2, <1>3 DEF FeedInv

LEMMA FeedInvariant == FeedSpec => []FeedInv
BY FeedInvInit, FeedInvStep, PTL DEF FeedSpec

(* The properties of a state.                                              *)
LEMMA FeedTypesFollow == FeedInv => FeedTypeOK
<1> SUFFICES ASSUME FeedInv PROVE FeedTypeOK
    OBVIOUS
<1>1. \A r \in requests : r \in RequestRow /\ r.id \in 1..lastId
    BY DEF FeedInv, Types, Servers, Numbered
<1>2. ASSUME NEW b \in Board
      PROVE  /\ boards[b].served \subseteq 1..lastId
             /\ boards[b].cycle.stage \in {"none", "claimed", "read", "ingested"}
             /\ \A j \in boards[b].jobs : j.stage \in {"claim", "claimed", "cycling", "done", "failed"}
    BY RewrittenBoards DEF FeedInv, Servers, Fits, BoardProcess, FeedCycle, JobOfABoard
<1> QED BY <1>1, <1>2 DEF FeedInv, Types, FeedTypeOK, RequestRow, TaskName

LEMMA OwedOnceCounts ==
    ASSUME Types, Numbered, OneReader, NEW t \in TaskName, NEW h \in Host, OwedOnce(t, h)
    PROVE  Cardinality(OwedByCycle(t, h)) + Cardinality(OwedByRow(t, h)) = 1
<1>1. \A x : Cardinality({x}) = 1
    BY FS_Singleton
<1>2. Cardinality({}) = 0
    BY FS_EmptySet
<1>3. CASE OwedByCycle(t, h) # {} /\ Asked(t, h) = {}
    <2>1. PICK b \in Board : HostOf[b] = h /\ b \in OwedByCycle(t, h)
        BY <1>3 DEF OwedByCycle
    <2>2. OwedByCycle(t, h) = {b}
        BY <2>1 DEF OwedByCycle, OneReader
    <2>3. OwedByRow(t, h) = {}
        BY <1>3 DEF Asked
    <2>4. Cardinality(OwedByCycle(t, h)) = 1
        BY <1>1, <2>2
    <2>5. Cardinality(OwedByRow(t, h)) = 0
        BY <1>2, <2>3
    <2> QED BY <2>4, <2>5
<1>4. ASSUME OwedByCycle(t, h) = {}, NEW n, Asked(t, h) = {n}
      PROVE  Cardinality(OwedByCycle(t, h)) + Cardinality(OwedByRow(t, h)) = 1
    <2>1. PICK r \in OwedByRow(t, h) : r.id = n
        BY <1>4 DEF Asked
    <2>2. \A q \in OwedByRow(t, h) : q.id = n
        BY <1>4 DEF Asked
    <2>3. OwedByRow(t, h) = {r}
        BY <2>1, <2>2 DEF OwedByRow, Numbered
    <2>4. Cardinality(OwedByRow(t, h)) = 1
        BY <1>1, <2>3
    <2>5. Cardinality(OwedByCycle(t, h)) = 0
        BY <1>2, <1>4
    <2> QED BY <2>4, <2>5
<1> QED BY <1>3, <1>4 DEF OwedOnce

LEMMA LeftoversFollow == FeedInv => LeftoversAreOwed
<1> SUFFICES ASSUME FeedInv, Undisturbed, NEW d \in disk, ~Holds(d[1], d[2])
             PROVE  Cardinality(OwedByCycle(d[1], d[2])) + Cardinality(OwedByRow(d[1], d[2])) = 1
    BY FeedTypesFollow DEF FeedInv, Servers, LeftoversAreOwed, LeftoversAreOwedOnce
<1> DEFINE t == d[1]
           i == t[1]
<1>1. /\ t \in TaskName /\ d[2] \in Host /\ d = <<t, d[2]>>
      /\ i \in Item /\ t[2] \in Nat /\ t = <<i, t[2]>> /\ removals[i] \in Nat
    BY DEF FeedInv, Types, TaskName
<1> HIDE DEF t, i
<1>2. ~Clean(t)
    BY <1>1 DEF Clean
<1>3. ~(t[2] > removals[t[1]]) /\ ~(t[2] = removals[t[1]] /\ tasks[t[1]] \notin Host)
    BY <1>1, <1>2 DEF FeedInv, Leftovers, Owing, NewIsClean
<1>4. t[2] # removals[i]
    <2> SUFFICES ASSUME t[2] = removals[i] PROVE FALSE
        OBVIOUS
    <2>1. t = TaskOf(i) /\ tasks[i] \in Host
        BY <1>1, <1>3 DEF TaskOf, i
    <2>2. tasks[i] = d[2]
        BY <1>1, <2>1 DEF FeedInv, Leftovers, Owing, HeldIsUnowed
    <2> QED BY <2>1, <2>2 DEF Holds, t, i
<1>5. t[2] < removals[t[1]]
    BY <1>1, <1>3, <1>4 DEF i
<1>6. OwedOnce(t, d[2])
    BY <1>1, <1>5 DEF FeedInv, Leftovers, Owing, LeftIsOwed
<1> QED BY <1>1, <1>6, OwedOnceCounts DEF FeedInv, Servers, Undisturbed, t

(* Two boards of a host never serve one request row at the same time,      *)
(* whatever calls are lost and whichever boards crash: a claimed row is    *)
(* refused to a second claim within the grace, and no serve outlives it.   *)
THEOREM OneServer == FeedSpec => []OneServerPerRow
<1>1. FeedInv => OneServerPerRow
    BY DEF FeedInv, Servers
<1> QED BY <1>1, FeedInvariant, PTL

(* What a removed feed task leaves on disk is owed by one cycle or one     *)
(* request row until it is gone, whoever polls the feed by then.           *)
THEOREM LeftoversHaveOnePath == FeedSpec => []LeftoversAreOwed
BY LeftoversFollow, FeedInvariant, PTL

(* With one board on each host and a poll that is handed over at most      *)
(* once, no reconcile removes the task of an item that stayed open         *)
(* upstream since a reconcile last reported it.                            *)
THEOREM ReconcilesKeepOpenItems == FeedSpec => OpenItemsStay
<1>1. FeedInv /\ [FeedNext]_feedVars => [OneReader => KeepsOpenItems]_feedVars
    BY OpenItemsStayStep DEF FeedInv
<1> QED BY <1>1, FeedInvariant, PTL DEF FeedSpec, OpenItemsStay
=============================================================================
