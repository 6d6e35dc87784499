------------------------- MODULE DispatchHost_proofs -------------------------
(***************************************************************************)
(* Proofs about the host side of a dispatch, for every set of hosts, their *)
(* owners, every naming of worktrees and windows, and every set of faults: *)
(* a board writes the store only through its reducers, so what is proved of*)
(* the store holds of the composed system; no board provisions a row whose *)
(* claim the store did not accept; a board that restarted serves what its  *)
(* host has claimed; and a dispatch that failed leaves nothing behind.     *)
(***************************************************************************)
EXTENDS DispatchHost, DispatchRequests_proofs, FiniteSetTheorems

(* What an attempt knows of its row: while the row is there it is of the   *)
(* task and the host the attempt was handed, and its id is never drawn     *)
(* again.                                                                  *)
AttemptsFollowRows ==
    \A r \in RequestId : attempt[r].at # "idle" =>
        /\ attempt[r].task \in Task
        /\ attempt[r].host \in Host
        /\ r < nextRequest
        /\ request[r].state # "absent" =>
             attempt[r].task = request[r].task /\ attempt[r].host = request[r].host

(* The inductive invariant.  A row's id is in use while an attempt serves  *)
(* it: else a later request under the same id would be requested while the *)
(* attempt at the earlier one still works.                                 *)
HostInv ==
    /\ TypeOK
    /\ LedgerInv
    /\ HostTypeOK
    /\ AttemptsFollowRows
    /\ OnlyTheClaimedRequestProvisions

(* ----- A board's step is a step of the store, or none ----- *)

(* An attempt that is served names an owner, a path and a window. *)
LEMMA AttemptNames ==
    ASSUME AttemptsFollowRows, NEW r \in RequestId, Serving(r)
    PROVE  Owner(r) \in User /\ Path(r) \in Worktree /\ Name(r) \in Window
    BY HostAssumption DEF AttemptsFollowRows, Serving, Resting, Owner, Path, Name

LEMMA HostStepsTheStore == TypeOK /\ AttemptsFollowRows /\ [HostNext]_vars => [Next]_storeVars
<1> SUFFICES ASSUME TypeOK, AttemptsFollowRows, [HostNext]_vars, storeVars' # storeVars
             PROVE  Next
  OBVIOUS
<1>1. ASSUME NEW r \in RequestId, Proceed(r) PROVE Next
  <2>1. CASE ClaimAccepted(r) \/ ClaimNotSent(r)
    <3>1. ClaimDispatchRequest(Owner(r), r) /\ Serving(r)
      BY <2>1 DEF ClaimAccepted, ClaimNotSent, Serving, Resting
    <3> QED BY <3>1, AttemptNames DEF Next, ClientStep
  <2>2. CASE ReportAccepted(r) \/ ReportUnanswered(r)
    <3>1. ReportDispatchProvisioned(Owner(r), r, Path(r), Name(r)) /\ Serving(r)
      BY <2>2 DEF ReportAccepted, ReportUnanswered, ReportLands, Serving, Resting
    <3> QED BY <3>1, AttemptNames DEF Next, ClientStep
  <2>3. CASE ReportFailure(r)
    <3>1. ReportDispatchFailed(Owner(r), r) /\ Serving(r)
      BY <2>3 DEF ReportFailure, Serving, Resting
    <3> QED BY <3>1, AttemptNames DEF Next, ClientStep
  <2> QED BY <1>1, <2>1, <2>2, <2>3
          DEF Proceed, ClaimRefused, GiveUp, Measure, ReuseWorktree, AddWorktree,
              WorktreeFails, CheckName, WindowFails, OpenWindow, Launch, LaunchFails,
              ReportRefused, KillWindow, RemoveWorktree
<1>2. ASSUME NEW h \in Host, Recover(h) PROVE Next
  <2>1. FailInterruptedDispatchRequests(OwnerOf[h], h)
    BY <1>2 DEF Recover
  <2>2. OwnerOf[h] \in User
    BY HostAssumption
  <2> QED BY <2>1, <2>2 DEF Next, ClientStep
<1>3. CASE UserStep
  <2>1. ASSUME NEW h \in Host, RegisterHost(OwnerOf[h], h) PROVE Next
    <3>1. OwnerOf[h] \in User
      BY HostAssumption
    <3> QED BY <2>1, <3>1 DEF Next, ClientStep
  <2> QED BY <1>3, <2>1 DEF UserStep, Next, ClientStep
<1>4. CASE TimePasses
  <2>1. Tick
    BY <1>4 DEF TimePasses, Tick, storeVars
  <2> QED BY <2>1 DEF Next
<1> QED BY <1>1, <1>2, <1>3, <1>4 DEF HostNext, vars, Observe, Crash

(* ----- What a step does to an attempt ----- *)

(* There is none, it goes on (and starts to work only once its claim is    *)
(* accepted), or a requested row is handed out to it.                      *)
IsDropped(r) == attempt'[r].at = "idle"

GoesOn(r) ==
    /\ attempt[r].at # "idle"
    /\ attempt'[r].task = attempt[r].task
    /\ attempt'[r].host = attempt[r].host
    /\ Working(r)' => Working(r) \/ ClaimAccepted(r)

HandedOut(r) ==
    /\ request[r].state = "requested"
    /\ attempt'[r].task = request[r].task
    /\ attempt'[r].host = request[r].host
    /\ attempt'[r].at = "claiming"

(* A stage written to one attempt leaves every other as it was. *)
LEMMA OneAttemptMoves ==
    ASSUME HostTypeOK, NEW r \in RequestId, NEW stage \in Stage, At(r, stage)
    PROVE  /\ attempt' \in [RequestId -> AttemptRow]
           /\ attempt'[r].at = stage
           /\ \A q \in RequestId : /\ attempt'[q].task = attempt[q].task
                                   /\ attempt'[q].host = attempt[q].host
                                   /\ q # r => attempt'[q] = attempt[q]
    BY DEF At, HostTypeOK, AttemptRow

(* NoAttempt and the attempt a board starts with are attempts at rest. *)
LEMMA NoAttemptRests == NoAttempt \in AttemptRow /\ NoAttempt.at = "idle"
    BY TimingAssumption DEF NoAttempt, AttemptRow, Stage, Resting

LEMMA EveryAttemptMoves ==
    ASSUME TypeOK, HostTypeOK, [HostNext]_vars
    PROVE  \A q \in RequestId : IsDropped(q) \/ GoesOn(q) \/ HandedOut(q)
<1> SUFFICES ASSUME NEW q \in RequestId PROVE IsDropped(q) \/ GoesOn(q) \/ HandedOut(q)
  OBVIOUS
<1>0. /\ attempt \in [RequestId -> AttemptRow]
      /\ request \in [RequestId -> RequestRow]
  BY DEF TypeOK, HostTypeOK
<1>1. CASE attempt'[q] = attempt[q]
  BY <1>1 DEF IsDropped, GoesOn, Serving, Working
<1>2. ASSUME NEW r \in RequestId, Observe(r), r = q
      PROVE  HandedOut(q)
  BY <1>0, <1>2 DEF Observe, HandedOut, NoAttempt
<1>3. ASSUME NEW r \in RequestId, Observe(r), r # q
      PROVE  attempt'[q] = attempt[q]
  BY <1>0, <1>3 DEF Observe
<1>4. ASSUME NEW r \in RequestId, Proceed(r), r # q
      PROVE  attempt'[q] = attempt[q]
  BY <1>0, <1>4 DEF Proceed, At, ClaimAccepted, ClaimRefused, ClaimNotSent, GiveUp, Measure,
         ReuseWorktree, AddWorktree, WorktreeFails, CheckName, WindowFails, OpenWindow,
         Launch, LaunchFails, ReportAccepted, ReportRefused, ReportUnanswered, KillWindow,
         RemoveWorktree, ReportFailure
<1>5. ASSUME Proceed(q)
      PROVE  IsDropped(q) \/ GoesOn(q)
  <2>1. CASE ClaimAccepted(q)
    BY <1>0, <2>1, OneAttemptMoves DEF ClaimAccepted, GoesOn, Serving, Resting, Stage
  <2>2. CASE ClaimNotSent(q)
    BY <1>0, <2>2, NoAttemptRests DEF ClaimNotSent, IsDropped, Serving
  <2>3. CASE ClaimRefused(q)
    BY <1>0, <2>3 DEF ClaimRefused, At, AttemptRow, GoesOn, Working, Serving, Resting
  <2>4. CASE \/ GiveUp(q) \/ Measure(q) \/ ReuseWorktree(q) \/ AddWorktree(q)
             \/ WorktreeFails(q) \/ CheckName(q) \/ WindowFails(q) \/ OpenWindow(q)
             \/ Launch(q) \/ LaunchFails(q)
    BY <1>0, <2>4 DEF GiveUp, Measure, ReuseWorktree, AddWorktree, WorktreeFails, CheckName,
           WindowFails, OpenWindow, Launch, LaunchFails, At, AttemptRow, GoesOn, Serving,
           Working, Resting
  <2>5. CASE \/ ReportAccepted(q) \/ ReportRefused(q) \/ ReportUnanswered(q)
             \/ KillWindow(q) \/ RemoveWorktree(q) \/ ReportFailure(q)
    BY <1>0, <2>5 DEF ReportAccepted, ReportRefused, ReportUnanswered, KillWindow,
           RemoveWorktree, ReportFailure, At, AttemptRow, GoesOn, IsDropped, Serving,
           Working, Resting
  <2> QED BY <1>5, <2>1, <2>2, <2>3, <2>4, <2>5 DEF Proceed
<1>6. ASSUME NEW h \in Host, Crash(h)
      PROVE  IsDropped(q) \/ attempt'[q] = attempt[q]
  BY <1>6, NoAttemptRests DEF Crash, IsDropped, Serving
<1>7. ASSUME TimePasses
      PROVE  IsDropped(q) \/ GoesOn(q)
  <2>1. attempt'[q] = AgedAttempt(q)
    BY <1>7 DEF TimePasses
  <2>2. /\ AgedAttempt(q).at = attempt[q].at
        /\ AgedAttempt(q).task = attempt[q].task
        /\ AgedAttempt(q).host = attempt[q].host
    BY <1>0 DEF AgedAttempt, AttemptRow
  <2> QED BY <2>1, <2>2 DEF IsDropped, GoesOn, Serving, Working
<1> QED BY <1>1, <1>2, <1>3, <1>4, <1>5, <1>6, <1>7
        DEF HostNext, UserStep, Recover, vars, hostVars

(* ----- The type of the board's state ----- *)

LEMMA WorldKeepsType ==
    ASSUME HostTypeOK, AttemptsFollowRows, [HostNext]_vars
    PROVE  /\ board' \in [Host -> {"starting", "up"}]
           /\ trees' \in [Host -> SUBSET Worktree]
           /\ windows' \in [Host -> SUBSET (Window \X RequestId)]
<1>0. /\ board \in [Host -> {"starting", "up"}]
      /\ trees \in [Host -> SUBSET Worktree]
      /\ windows \in [Host -> SUBSET (Window \X RequestId)]
  BY DEF HostTypeOK
<1>1. board' \in [Host -> {"starting", "up"}]
  BY <1>0 DEF HostNext, vars, hostVars, Observe, Proceed, Crash, Recover, UserStep, TimePasses,
         ClaimAccepted, ClaimRefused, ClaimNotSent, GiveUp, Measure, ReuseWorktree,
         AddWorktree, WorktreeFails, CheckName, WindowFails, OpenWindow, Launch, LaunchFails,
         ReportAccepted, ReportRefused, ReportUnanswered, KillWindow, RemoveWorktree,
         ReportFailure
<1>2. trees' \in [Host -> SUBSET Worktree]
  <2>1. ASSUME NEW r \in RequestId, AddWorktree(r) \/ WorktreeFails(r) \/ RemoveWorktree(r)
        PROVE  trees' \in [Host -> SUBSET Worktree]
    <3>1. Path(r) \in Worktree
      BY <2>1, AttemptNames
         DEF AddWorktree, WorktreeFails, RemoveWorktree, Serving, Resting
    <3> QED BY <1>0, <2>1, <3>1 DEF AddWorktree, WorktreeFails, RemoveWorktree
  <2> QED BY <1>0, <2>1
          DEF HostNext, vars, hostVars, Observe, Proceed, Crash, Recover, UserStep, TimePasses,
              ClaimAccepted, ClaimRefused, ClaimNotSent, GiveUp, Measure, ReuseWorktree,
              CheckName, WindowFails, OpenWindow, Launch, LaunchFails, ReportAccepted,
              ReportRefused, ReportUnanswered, KillWindow, ReportFailure
<1>3. windows' \in [Host -> SUBSET (Window \X RequestId)]
  <2>1. ASSUME NEW r \in RequestId, OpenWindow(r) \/ WindowFails(r) \/ KillWindow(r)
        PROVE  windows' \in [Host -> SUBSET (Window \X RequestId)]
    <3>1. Name(r) \in Window
      BY <2>1, AttemptNames DEF OpenWindow, WindowFails, KillWindow, Serving, Resting
    <3>2. <<Name(r), r>> \in Window \X RequestId
      BY <3>1
    <3> QED BY <1>0, <2>1, <3>2 DEF OpenWindow, WindowFails, KillWindow
  <2> QED BY <1>0, <2>1
          DEF HostNext, vars, hostVars, Observe, Proceed, Crash, Recover, UserStep, TimePasses,
              ClaimAccepted, ClaimRefused, ClaimNotSent, GiveUp, Measure, ReuseWorktree,
              AddWorktree, WorktreeFails, CheckName, Launch, LaunchFails, ReportAccepted,
              ReportRefused, ReportUnanswered, RemoveWorktree, ReportFailure
<1> QED BY <1>1, <1>2, <1>3

LEMMA AttemptsKeepType ==
    ASSUME TypeOK, LedgerInv, HostTypeOK, [HostNext]_vars
    PROVE  attempt' \in [RequestId -> AttemptRow]
<1>0. /\ attempt \in [RequestId -> AttemptRow]
      /\ Deadline \in Nat
  BY TimingAssumption DEF HostTypeOK
<1>1. CASE UNCHANGED attempt
  BY <1>0, <1>1
<1>2. ASSUME NEW r \in RequestId, Observe(r)
      PROVE  attempt' \in [RequestId -> AttemptRow]
  <2>1. /\ request[r].task \in Task
        /\ request[r].host \in Host
        /\ request[r].age \in Nat
    BY <1>2 DEF Observe, LedgerInv, RowsAreFilled, TypeOK, RequestRow
  <2> DEFINE age == IF request[r].age < Deadline THEN request[r].age ELSE Deadline
  <2>2. age \in 0 .. Deadline
    BY <1>0, <2>1
  <2> HIDE DEF age
  <2>3. ASSUME NEW row \in AttemptRow
        PROVE  [row EXCEPT !.at = "claiming", !.task = request[r].task,
                           !.host = request[r].host, !.age = age] \in AttemptRow
    BY <2>1, <2>2 DEF AttemptRow, Stage
  <2>4. attempt' = [attempt EXCEPT ![r] =
                      [NoAttempt EXCEPT !.at = "claiming", !.task = request[r].task,
                                        !.host = request[r].host, !.age = age]]
    BY <1>2 DEF Observe, age
  <2> QED BY <1>0, <2>3, <2>4, NoAttemptRests
<1>3. ASSUME NEW r \in RequestId, Measure(r)
      PROVE  attempt' \in [RequestId -> AttemptRow]
  <2> DEFINE reuses == Path(r) \in Disk(r)
  <2>1. attempt' = [attempt EXCEPT ![r].at = "measured", ![r].reuses = reuses]
    BY <1>3 DEF Measure
  <2>2. reuses \in BOOLEAN /\ "measured" \in Stage
    BY DEF Stage
  <2> HIDE DEF reuses
  <2> QED BY <1>0, <2>1, <2>2 DEF AttemptRow
<1>4. ASSUME NEW r \in RequestId, ClaimNotSent(r)
      PROVE  attempt' \in [RequestId -> AttemptRow]
  BY <1>0, <1>4, NoAttemptRests DEF ClaimNotSent
<1>5. ASSUME NEW r \in RequestId, NEW stage \in Stage, At(r, stage)
      PROVE  attempt' \in [RequestId -> AttemptRow]
  BY <1>5, OneAttemptMoves
<1>6. ASSUME NEW r \in RequestId, Proceed(r)
      PROVE  attempt' \in [RequestId -> AttemptRow]
  <2>1. AfterWindow(r) \in Stage
    BY DEF AfterWindow, Stage
  <2>2. Measure(r) \/ ClaimNotSent(r) \/ \E stage \in Stage : At(r, stage)
    BY <1>6, <2>1
       DEF Proceed, ClaimAccepted, ClaimRefused, GiveUp, ReuseWorktree, AddWorktree,
           WorktreeFails, CheckName, WindowFails, OpenWindow, Launch, LaunchFails,
           ReportAccepted, ReportRefused, ReportUnanswered, KillWindow, RemoveWorktree,
           ReportFailure, Stage, Resting
  <2> QED BY <1>3, <1>4, <1>5, <2>2
<1>7. ASSUME NEW h \in Host, Crash(h)
      PROVE  attempt' \in [RequestId -> AttemptRow]
  BY <1>0, <1>7, NoAttemptRests DEF Crash
<1>8. CASE TimePasses
  <2>1. \A r \in RequestId : AgedAttempt(r) \in AttemptRow
    <3> SUFFICES ASSUME NEW r \in RequestId PROVE AgedAttempt(r) \in AttemptRow
      OBVIOUS
    <3>1. attempt[r].age < Deadline => attempt[r].age + 1 \in 0 .. Deadline
      BY <1>0 DEF AttemptRow
    <3> QED BY <1>0, <3>1 DEF AgedAttempt, InTime, AttemptRow
  <2> QED BY <1>8, <2>1 DEF TimePasses
<1> QED BY <1>1, <1>2, <1>6, <1>7, <1>8 DEF HostNext, UserStep, Recover, vars, hostVars

(* ----- The inductive invariant ----- *)

LEMMA HostInvInit == HostInit => HostInv
<1> SUFFICES ASSUME HostInit PROVE HostInv
  OBVIOUS
<1>1. TypeOK /\ LedgerInv
  BY TypeInit, LedgerInit DEF HostInit
<1>2. \A r \in RequestId : attempt[r].at = "idle" /\ ~Working(r)
  BY NoAttemptRests DEF HostInit, Serving, Working, Resting
<1>3. HostTypeOK
  BY NoAttemptRests DEF HostInit, HostTypeOK
<1> QED BY <1>1, <1>2, <1>3 DEF HostInv, AttemptsFollowRows, OnlyTheClaimedRequestProvisions

(* An id once drawn stays drawn, and its row only advances: to be claimed, *)
(* to end, to be forgotten.  What was dispatched keeps what it recorded.   *)
LEMMA RowsAdvance ==
    ASSUME TypeOK, LedgerInv, LedgerStep
    PROVE  /\ nextRequest' >= nextRequest
           /\ \A r \in RequestId : r < nextRequest =>
                LET old == request[r]
                    new == request'[r]
                IN  /\ new.state # "absent" => /\ old.state # "absent"
                                               /\ new.task = old.task
                                               /\ new.host = old.host
                    /\ new.state = "requested" => old.state = "requested"
                    /\ new.state \in OpenStates => old.state \in OpenStates
                    /\ old.state = "dispatched" =>
                         new.state = "absent" \/ (/\ new.state = "dispatched"
                                                  /\ new.worktree = old.worktree
                                                  /\ new.window = old.window)
<1>0. /\ request \in [RequestId -> RequestRow]
      /\ nextRequest \in Nat
      /\ RequestId \subseteq Nat
  BY TimingAssumption DEF TypeOK, RequestId
<1>1. nextRequest' >= nextRequest
  <2>1. nextRequest' \in {nextRequest, nextRequest + 1}
    BY DEF LedgerStep, Opens, Starts, Succeeds, Fails, Forgets, Ages
  <2> QED BY <1>0, <2>1
<1> DEFINE Advances(old, new) ==
             /\ new.state # "absent" => /\ old.state # "absent"
                                        /\ new.task = old.task
                                        /\ new.host = old.host
             /\ new.state = "requested" => old.state = "requested"
             /\ new.state \in OpenStates => old.state \in OpenStates
             /\ old.state = "dispatched" =>
                  new.state = "absent" \/ (/\ new.state = "dispatched"
                                           /\ new.worktree = old.worktree
                                           /\ new.window = old.window)
<1> SUFFICES ASSUME NEW r \in RequestId, r < nextRequest
             PROVE  Advances(request[r], request'[r])
  BY <1>1
<1>a. Advances(request[r], request[r]) /\ Advances(request[r], NoRequest)
  BY <1>0, LedgerRows DEF OpenStates
<1>2. ASSUME NEW t \in Task, NEW h \in Host, NEW u \in User, NEW o,
             NEW gone \in SUBSET RequestId, Opens(t, h, u, o, gone)
      PROVE  Advances(request[r], request'[r])
  <2>1. request'[r] = IF r \in gone THEN NoRequest ELSE request[r]
    BY <1>0, <1>2 DEF Opens, Pruned
  <2> QED BY <2>1, <1>a
<1>3. ASSUME NEW q \in RequestId, Starts(q)
      PROVE  Advances(request[r], request'[r])
  BY <1>0, <1>3, <1>a DEF Starts, RequestRow, OpenStates
<1>4. ASSUME NEW q \in RequestId, NEW w \in Worktree, NEW win \in Window, Succeeds(q, w, win)
      PROVE  Advances(request[r], request'[r])
  BY <1>0, <1>4, <1>a DEF Succeeds, RequestRow, OpenStates
<1>5. ASSUME NEW F \in SUBSET RequestId, Fails(F)
      PROVE  Advances(request[r], request'[r])
  <2>1. CASE r \in F
    <3>1. request[r].state \in OpenStates /\ request'[r] = FailedRow(request[r])
      BY <1>5, <2>1 DEF Fails, RowsFailed, OpenRequests, IsOpen
    <3> QED BY <1>0, <3>1, LedgerRows DEF OpenStates
  <2>2. CASE r \notin F
    BY <1>5, <2>2, <1>a DEF Fails, RowsFailed
  <2> QED BY <2>1, <2>2
<1>6. ASSUME NEW t \in Task, Forgets(t)
      PROVE  Advances(request[r], request'[r])
  BY <1>0, <1>6, <1>a DEF Forgets, Pruned
<1>7. CASE Ages
  <2>1. request'[r] = Aged(request[r])
    BY <1>7 DEF Ages
  <2>2. Aged(request[r]).worktree = request[r].worktree /\ Aged(request[r]).window = request[r].window
    BY <1>0 DEF Aged, RequestRow
  <2> QED BY <1>0, <2>1, <2>2, LedgerRows
<1>8. CASE UNCHANGED request
  BY <1>8, <1>a
<1> HIDE DEF Advances
<1> QED BY <1>2, <1>3, <1>4, <1>5, <1>6, <1>7, <1>8 DEF LedgerStep

LEMMA HostInvStep == HostInv /\ [HostNext]_vars => HostInv'
<1> SUFFICES ASSUME HostInv, [HostNext]_vars PROVE HostInv'
  OBVIOUS
<1>0. TypeOK /\ LedgerInv /\ HostTypeOK /\ AttemptsFollowRows
  BY DEF HostInv
<1>1. [Next]_storeVars
  BY <1>0, HostStepsTheStore
<1>2. LedgerStep
  BY <1>0, <1>1, EveryStepIsALedgerStep DEF LedgerInv
<1>3. TypeOK' /\ LedgerInv'
  BY <1>0, <1>1, <1>2, TypeStep, LedgerInvStep
<1>4. HostTypeOK'
  BY <1>0, WorldKeepsType, AttemptsKeepType DEF HostTypeOK, HostNext, vars
<1>5. /\ nextRequest \in Nat
      /\ nextRequest' \in Nat
      /\ RequestId \subseteq Nat
  BY <1>0, <1>3, TimingAssumption DEF TypeOK, RequestId
<1>6. AttemptsFollowRows'
  <2> SUFFICES ASSUME NEW r \in RequestId, attempt'[r].at # "idle"
               PROVE  /\ attempt'[r].task \in Task
                      /\ attempt'[r].host \in Host
                      /\ r < nextRequest'
                      /\ request'[r].state # "absent" =>
                           /\ attempt'[r].task = request'[r].task
                           /\ attempt'[r].host = request'[r].host
    BY DEF AttemptsFollowRows
  <2>1. /\ attempt'[r].task \in Task
        /\ attempt'[r].host \in Host
        /\ r < nextRequest
        /\ request[r].state # "absent" =>
             attempt'[r].task = request[r].task /\ attempt'[r].host = request[r].host
    <3>1. CASE GoesOn(r)
      BY <1>0, <3>1 DEF GoesOn, AttemptsFollowRows
    <3>2. CASE HandedOut(r)
      <4>1. r < nextRequest
        BY <1>0, <1>5, <3>2 DEF HandedOut, LedgerInv, IdsAreFresh
      <4>2. request[r].task \in Task /\ request[r].host \in Host
        BY <1>0, <3>2 DEF HandedOut, LedgerInv, RowsAreFilled
      <4> QED BY <3>2, <4>1, <4>2 DEF HandedOut
    <3> QED BY <1>0, <3>1, <3>2, EveryAttemptMoves DEF IsDropped
  <2>2. /\ nextRequest' >= nextRequest
        /\ request'[r].state # "absent" => /\ request[r].state # "absent"
                                           /\ request'[r].task = request[r].task
                                           /\ request'[r].host = request[r].host
    BY <1>0, <1>2, <2>1, RowsAdvance
  <2> QED BY <1>5, <2>1, <2>2
<1>7. OnlyTheClaimedRequestProvisions'
  <2> SUFFICES ASSUME NEW r \in RequestId, Working(r)'
               PROVE  request'[r].state # "requested"
    BY DEF OnlyTheClaimedRequestProvisions
  <2>1. CASE Working(r)
    <3>1. r < nextRequest /\ request[r].state # "requested"
      BY <2>1
         DEF HostInv, AttemptsFollowRows, OnlyTheClaimedRequestProvisions, Working, Serving,
             Resting
    <3> QED BY <1>0, <1>2, <3>1, RowsAdvance
  <2>2. CASE ClaimAccepted(r)
    BY <1>0, <2>2 DEF ClaimAccepted, ClaimDispatchRequest, TypeOK, RequestRow
  <2>3. CASE ~Working(r) /\ ~ClaimAccepted(r)
    BY <1>0, <2>3, EveryAttemptMoves
       DEF IsDropped, GoesOn, HandedOut, Working, Serving, Resting
  <2> QED BY <2>1, <2>2, <2>3
<1> QED BY <1>3, <1>4, <1>6, <1>7 DEF HostInv

LEMMA HostInvariant == HostSpec => []HostInv
<1> QED BY HostInvInit, HostInvStep, PTL DEF HostSpec

----------------------------------------------------------------------------
(* Type correctness of the board, its attempts, its disk and its tmux.     *)
THEOREM HostTypeCorrect == HostSpec => []HostTypeOK
<1>1. HostInv => HostTypeOK
  BY DEF HostInv
<1> QED BY <1>1, HostInvariant, PTL

(* The host side implements the store side: whatever its boards do, lose   *)
(* or forget in a crash, the store sees nothing but its own reducers.      *)
(* Every theorem of DispatchRequests_proofs is one of the composed system. *)
THEOREM HostImplementsStore == HostSpec => Spec
<1>1. HostInit => Init
  BY DEF HostInit
<1>2. HostInv /\ [HostNext]_vars => [Next]_storeVars
  BY HostStepsTheStore DEF HostInv
<1> QED BY <1>1, <1>2, HostInvariant, PTL DEF HostSpec, Spec

(* OnlyTheClaimedRequestProvisions: whatever claims are refused, lost or   *)
(* forgotten, nothing is provisioned for a row that is still requested.    *)
THEOREM OnlyClaimedRowsAreProvisioned == HostSpec => []OnlyTheClaimedRequestProvisions
<1>1. HostInv => OnlyTheClaimedRequestProvisions
  BY DEF HostInv
<1> QED BY <1>1, HostInvariant, PTL

----------------------------------------------------------------------------
(* ----- What everybody else does to a row ----- *)

(* No row is claimed or dispatched but by the attempt at it, and a new row *)
(* is of a task that nobody works on, where boards are prompt.             *)
Others == UserStep \/ TimePasses \/ \E h \in Host : Crash(h) \/ Recover(h)

LEMMA OthersLeaveClaims ==
    ASSUME TypeOK, LedgerInv, Others, NEW r \in RequestId
    PROVE  /\ request'[r].state \in {request[r].state, "requested", "failed", "absent"}
           /\ request'[r].state \in OpenStates =>
                \/ request[r].state \in OpenStates
                \/ Prompt => NobodyWorksOn(request'[r].task)
<1> USE DEF OpenStates
<1> DEFINE Goal == /\ request'[r].state \in {request[r].state, "requested", "failed", "absent"}
                   /\ request'[r].state \in OpenStates =>
                        \/ request[r].state \in OpenStates
                        \/ Prompt => NobodyWorksOn(request'[r].task)
<1>0. request \in [RequestId -> RequestRow]
  BY DEF TypeOK
<1>a. CASE UNCHANGED request
  BY <1>a
<1>b. ASSUME NEW F \in SUBSET OpenRequests, request' = RowsFailed(F)
      PROVE  Goal
  BY <1>0, <1>b, LedgerRows DEF RowsFailed
<1>1. CASE UserStep
  <2>1. ASSUME NEW h \in Host, RegisterHost(OwnerOf[h], h)
        PROVE  UNCHANGED request
    BY <2>1 DEF RegisterHost
  <2>2. ASSUME NEW u \in User, NEW t \in Task, NEW h \in Host, NEW o \in Origins,
               NEW gone \in SUBSET Prunable,
               Prompt => NobodyWorksOn(t), RequestDispatch(u, t, h, o, gone)
        PROVE  Goal
    <3>1. /\ nextRequest \in RequestId
          /\ request' = [Pruned(gone) EXCEPT ![nextRequest] = NewRequest(t, h, u, o)]
      BY <2>2 DEF RequestDispatch, CreateDispatchRequest
    <3>2. CASE r = nextRequest
      BY <2>2, <3>1, <3>2, LedgerRows DEF Pruned
    <3>3. CASE r # nextRequest
      BY <1>0, <3>1, <3>3, LedgerRows DEF Pruned
    <3> QED BY <3>2, <3>3
  <2>3. ASSUME NEW u \in User, NEW t \in Task, NEW s \in Task, NEW p \in Patches,
               PatchTask(u, t, p, s)
        PROVE  UNCHANGED request
    BY <2>3 DEF PatchTask
  <2>4. ASSUME NEW t \in Task, CreateTask(t, FALSE, FALSE)
        PROVE  UNCHANGED request
    BY <2>4 DEF CreateTask
  <2>5. ASSUME NEW t \in Task, CloseTask(t, t)
        PROVE  Goal
    BY <2>5, <1>b DEF CloseTask, OpenRequestsOf
  <2>6. ASSUME NEW t \in Task, DeleteTask(t)
        PROVE  Goal
    BY <1>0, <2>6, LedgerRows DEF DeleteTask, Pruned
  <2>7. ASSUME NEW q \in RequestId, ExpireDispatchRequest(q)
        PROVE  Goal
    BY <2>7, <1>b DEF ExpireDispatchRequest, FailDispatchRequests
  <2> QED BY <1>1, <1>a, <2>1, <2>2, <2>3, <2>4, <2>5, <2>6, <2>7 DEF UserStep
<1>2. CASE TimePasses
  BY <1>0, <1>2, LedgerRows DEF TimePasses
<1>3. ASSUME NEW h \in Host, Crash(h)
      PROVE  UNCHANGED request
  BY <1>3 DEF Crash, storeVars
<1>4. ASSUME NEW h \in Host, Recover(h)
      PROVE  Goal
  <2>1. CASE FailInterruptedDispatchRequests(OwnerOf[h], h)
    BY <2>1, <1>b
       DEF FailInterruptedDispatchRequests, FailDispatchRequests, Interrupted, OpenRequests,
           IsOpen
  <2>2. CASE UNCHANGED storeVars
    BY <2>2, <1>a DEF storeVars
  <2> QED BY <1>4, <2>1, <2>2 DEF Recover
<1> QED BY <1>1, <1>a, <1>2, <1>3, <1>4 DEF Others

(* ----- A restarted board ----- *)

(* Work on a row ends with its report or with its board. *)
LEMMA WorkEnds ==
    ASSUME HostTypeOK, [HostNext]_vars, NEW q \in RequestId, Working(q), ~Working(q)'
    PROVE  ReportAccepted(q) \/ ReportFailure(q) \/ Crash(attempt[q].host)
<1>0. attempt \in [RequestId -> AttemptRow]
  BY DEF HostTypeOK
<1>1. attempt'[q].at # attempt[q].at
  BY DEF Working, Serving
<1>2. ASSUME NEW r \in RequestId, Observe(r)
      PROVE  FALSE
  BY <1>0, <1>1, <1>2 DEF Observe, Working, Serving, Resting
<1>3. ASSUME NEW r \in RequestId, Proceed(r)
      PROVE  ReportAccepted(q) \/ ReportFailure(q)
  <2>1. r = q
    BY <1>0, <1>1, <1>3 DEF Proceed, At, ClaimAccepted, ClaimRefused, ClaimNotSent, GiveUp,
       Measure, ReuseWorktree, AddWorktree, WorktreeFails, CheckName, WindowFails, OpenWindow,
       Launch, LaunchFails, ReportAccepted, ReportRefused, ReportUnanswered, KillWindow,
       RemoveWorktree, ReportFailure
  <2>2. ASSUME NEW stage \in Stage, At(q, stage)
        PROVE  stage \in Resting \cup {"claiming"}
    BY <2>2, OneAttemptMoves DEF Working, Serving
  <2>3. ~ClaimAccepted(q) /\ ~ClaimRefused(q) /\ ~ClaimNotSent(q)
    BY DEF ClaimAccepted, ClaimRefused, ClaimNotSent, Working
  <2>4. ~Measure(q)
    BY <1>0 DEF Measure, Working, Serving, Resting, AttemptRow
  <2>5. ~\E stage \in Stage \ (Resting \cup {"claiming"}) : At(q, stage)
    BY <2>2
  <2>6. AfterWindow(q) \in Stage \ (Resting \cup {"claiming"})
    BY DEF AfterWindow, Stage, Resting
  <2> QED BY <1>3, <2>1, <2>3, <2>4, <2>5, <2>6
          DEF Proceed, GiveUp, ReuseWorktree, AddWorktree, WorktreeFails, CheckName,
              WindowFails, OpenWindow, Launch, LaunchFails, ReportRefused, ReportUnanswered,
              KillWindow, RemoveWorktree, Stage, Resting
<1>4. ASSUME NEW h \in Host, Crash(h)
      PROVE  Crash(attempt[q].host)
  BY <1>0, <1>1, <1>4 DEF Crash
<1>5. ~TimePasses
  <2>1. AgedAttempt(q).at = attempt[q].at
    BY <1>0 DEF AgedAttempt, AttemptRow
  <2> QED BY <1>1, <2>1 DEF TimePasses
<1> QED BY <1>1, <1>2, <1>3, <1>4, <1>5 DEF HostNext, UserStep, Recover, vars, hostVars

(* The row after an accepted report. *)
LEMMA LandedRow ==
    ASSUME TypeOK, NEW r \in RequestId, ReportLands(r)
    PROVE  /\ request[r].state = "provisioning"
           /\ request'[r].state = "dispatched"
           /\ request'[r].worktree = Path(r)
           /\ request'[r].window = Name(r)
           /\ \A q \in RequestId : q # r => request'[q] = request[q]
<1>1. /\ request[r].state = "provisioning"
      /\ request' = [request EXCEPT ![r] =
                       [@ EXCEPT !.state = "dispatched", !.age = 0,
                                 !.worktree = Path(r), !.window = Name(r)]]
  BY DEF ReportLands, ReportDispatchProvisioned
<1>2. request \in [RequestId -> RequestRow]
  BY DEF TypeOK
<1>3. ASSUME NEW w, NEW win, NEW row \in RequestRow
      PROVE  LET new == [row EXCEPT !.state = "dispatched", !.age = 0,
                                    !.worktree = w, !.window = win]
             IN  new.state = "dispatched" /\ new.worktree = w /\ new.window = win
  BY DEF RequestRow
<1> QED BY <1>1, <1>2, <1>3

(* A row is claimed by the attempt at it, and by nothing else where no     *)
(* call is lost.                                                           *)
LEMMA OnlyAttemptsClaim ==
    ASSUME HostInv, "lost" \notin Faults, [HostNext]_vars,
           NEW r \in RequestId, request'[r].state = "provisioning"
    PROVE  request[r].state = "provisioning" \/ ClaimAccepted(r)
<1>0. /\ TypeOK /\ LedgerInv
      /\ request \in [RequestId -> RequestRow]
  BY DEF HostInv, TypeOK
<1>1. ASSUME NEW q \in RequestId, Proceed(q)
      PROVE  request[r].state = "provisioning" \/ ClaimAccepted(r)
  <2>1. CASE ClaimAccepted(q)
    BY <1>0, <2>1 DEF ClaimAccepted, ClaimDispatchRequest
  <2>2. CASE ReportAccepted(q)
    BY <1>0, <2>2
       DEF ReportAccepted, ReportLands, ReportDispatchProvisioned, RequestRow, storeVars
  <2>3. CASE ReportFailure(q)
    BY <1>0, <2>3, LedgerRows
       DEF ReportFailure, ReportDispatchFailed, FailDispatchRequests, RowsFailed, storeVars
  <2>4. ~ClaimNotSent(q) /\ ~ReportUnanswered(q)
    BY DEF ClaimNotSent, ReportUnanswered
  <2> QED BY <1>0, <1>1, <2>1, <2>2, <2>3, <2>4
          DEF Proceed, ClaimRefused, GiveUp, Measure, ReuseWorktree, AddWorktree,
              WorktreeFails, CheckName, WindowFails, OpenWindow, Launch, LaunchFails,
              ReportRefused, KillWindow, RemoveWorktree, storeVars
<1>2. CASE Others
  BY <1>0, <1>2, OthersLeaveClaims
<1>3. CASE UNCHANGED request
  BY <1>3
<1> QED BY <1>1, <1>2, <1>3 DEF HostNext, Others, Observe, vars, storeVars

LEMMA RestartStep ==
    HostInv /\ RestartedBoardsServeTheirClaims /\ [HostNext]_vars =>
        RestartedBoardsServeTheirClaims'
<1> SUFFICES ASSUME HostInv, RestartedBoardsServeTheirClaims, [HostNext]_vars,
                    ~("lost" \in Faults)', NEW r \in RequestId,
                    request'[r].state = "provisioning", board'[request'[r].host] = "up"
             PROVE  Working(r)'
  BY DEF RestartedBoardsServeTheirClaims, ClaimedRowsAreBeingServed
<1>0. /\ TypeOK /\ LedgerInv /\ HostTypeOK /\ AttemptsFollowRows
      /\ request \in [RequestId -> RequestRow]
      /\ attempt \in [RequestId -> AttemptRow]
      /\ board \in [Host -> {"starting", "up"}]
      /\ nextRequest \in Nat
      /\ RequestId \subseteq Nat
  BY TimingAssumption DEF HostInv, HostTypeOK, TypeOK, RequestId
<1>1. "lost" \notin Faults
  BY DEF HostNext, vars, Faults
<1>2. CASE ClaimAccepted(r)
  BY <1>0, <1>2, OneAttemptMoves DEF ClaimAccepted, Working, Serving, Resting, Stage
<1>3. CASE request[r].state = "provisioning"
  <2> DEFINE h == request[r].host
  <2>1. r < nextRequest /\ h \in Host
    BY <1>0, <1>3 DEF LedgerInv, IdsAreFresh, RowsAreFilled
  <2>2. request'[r].host = h
    <3>1. LedgerStep
      BY <1>0, HostStepsTheStore, EveryStepIsALedgerStep DEF LedgerInv
    <3> QED BY <1>0, <2>1, <3>1, RowsAdvance
  <2>3. CASE board[h] = "up"
    <3>1. Working(r) /\ attempt[r].host = h
      BY <1>0, <1>1, <1>3, <2>3
         DEF RestartedBoardsServeTheirClaims, ClaimedRowsAreBeingServed, AttemptsFollowRows,
             Working, Serving, Resting
    <3>2. ~ReportAccepted(r)
      <4>1. ~ReportLands(r)
        BY <1>0, LandedRow
      <4>2. ~ReportIsRepeat(r, Path(r), Name(r))
        BY <1>3 DEF ReportIsRepeat
      <4> QED BY <4>1, <4>2 DEF ReportAccepted
    <3>3. ~ReportFailure(r)
      BY <1>0, <1>1, <1>3, LedgerRows
         DEF ReportFailure, ReportDispatchFailed, FailDispatchRequests, RowsFailed
    <3>4. ~Crash(h)
      BY <1>0, <2>1, <2>2 DEF Crash
    <3> QED BY <1>0, <3>1, <3>2, <3>3, <3>4, WorkEnds
  <2>4. CASE board[h] # "up"
    <3>1. Recover(h)
      BY <1>0, <2>1, <2>2, <2>4
         DEF HostNext, vars, hostVars, Observe, Proceed, Crash, Recover, UserStep, TimePasses,
             ClaimAccepted, ClaimRefused, ClaimNotSent, GiveUp, Measure, ReuseWorktree,
             AddWorktree, WorktreeFails, CheckName, WindowFails, OpenWindow, Launch,
             LaunchFails, ReportAccepted, ReportRefused, ReportUnanswered, KillWindow,
             RemoveWorktree, ReportFailure
    <3>2. r \in Interrupted(h)
      BY <1>3 DEF Interrupted
    <3>3. request'[r].state = "failed"
      BY <1>0, <1>1, <3>1, <3>2, LedgerRows
         DEF Recover, FailInterruptedDispatchRequests, FailDispatchRequests, RowsFailed
    <3> QED BY <3>3
  <2> QED BY <2>3, <2>4
<1> QED BY <1>1, <1>2, <1>3, OnlyAttemptsClaim

(* RestartedBoardsServeTheirClaims: whatever a board was at when it went   *)
(* down, once it is up again and no call to the store is lost, every row   *)
(* its host claimed has an attempt that works on it.                       *)
THEOREM RestartedBoardsServe == HostSpec => []RestartedBoardsServeTheirClaims
<1>1. HostInit => RestartedBoardsServeTheirClaims
  BY DEF HostInit, Init, NoRequest, RestartedBoardsServeTheirClaims,
         ClaimedRowsAreBeingServed
<1>2. HostInv /\ RestartedBoardsServeTheirClaims /\ [HostNext]_vars
        => RestartedBoardsServeTheirClaims'
  BY RestartStep
<1> QED BY <1>1, <1>2, HostInvariant, PTL DEF HostSpec

----------------------------------------------------------------------------
(* ----- Rollbacks, where nothing goes wrong around the boards ----- *)

(* An attempt's stages while the window it opened is live, and while it    *)
(* has a worktree; both are its own unless it found the worktree there.    *)
Windowed == {"opened", "launched", "killing"}
Treed == Windowed \cup {"treed", "cleared", "removing"}

Kept(r) == attempt[r].at = "kept"
Made(r) == attempt[r].at \in Treed /\ ~attempt[r].reuses

SameTask(a, b) == attempt[a].task = attempt[b].task
SamePath(a, b) == attempt[a].host = attempt[b].host /\ SameTask(a, b)

(* Whoever works on a task works on its one open request, or on none that  *)
(* is open: a claim then never meets an attempt at an earlier request.     *)
OneWorksOnATask ==
    /\ \A a, b \in RequestId : Working(a) /\ Working(b) /\ SameTask(a, b) => a = b
    /\ \A a \in RequestId, r \in OpenRequests :
         Working(a) /\ attempt[a].task = request[r].task => a = r

(* A window is its attempt's, and a rollback finds no other of its name.   *)
WindowsAreOwned ==
    /\ \A h \in Host : \A w \in windows[h] :
         LET r == w[2]
         IN  /\ attempt[r].host = h
             /\ w[1] = Name(r)
             /\ Kept(r) \/ attempt[r].at \in Windowed
    /\ \A r \in RequestId :
         /\ attempt[r].at = "cleared" => Named(r) = {}
         /\ attempt[r].at \in Windowed => Named(r) = {<<Name(r), r>>}

(* A worktree is one that was kept, or is its attempt's to remove; no      *)
(* attempt removes the one that was kept.                                  *)
TreesAreOwned ==
    /\ \A h \in Host : \A p \in trees[h] :
         \E r \in RequestId : attempt[r].host = h /\ Path(r) = p /\ (Kept(r) \/ Made(r))
    /\ \A r \in RequestId :
         /\ attempt[r].at = "measured" => (attempt[r].reuses <=> Path(r) \in Disk(r))
         /\ attempt[r].at \in Treed => Path(r) \in Disk(r)
         /\ attempt[r].at = "removing" => ~attempt[r].reuses
    /\ \A a, b \in RequestId : Made(a) /\ Kept(b) => ~SamePath(a, b)

(* A row was dispatched exactly if its attempt is kept, and what the row   *)
(* records is there.                                                       *)
KeptMeansDispatched ==
    \A r \in RequestId :
        /\ Kept(r) => /\ request[r].state \in {"dispatched", "absent"}
                      /\ <<Name(r), r>> \in Tmux(r)
                      /\ Path(r) \in Disk(r)
        /\ request[r].state = "dispatched" =>
             Kept(r) /\ request[r].window = Name(r) /\ request[r].worktree = Path(r)

NoReportIsRepeated == \A r \in RequestId : attempt[r].at # "repeating"

Traces ==
    /\ OneWorksOnATask
    /\ WindowsAreOwned
    /\ TreesAreOwned
    /\ KeptMeansDispatched
    /\ NoReportIsRepeated

(* FailuresLeaveNoTrace is not inductive: it does not say whose window a   *)
(* rollback would kill, nor whose worktree it would remove.                *)
TracesInv == Faults = {} /\ Prompt => Traces

LEMMA TracesSuffice == HostInv /\ TracesInv => FailuresLeaveNoTrace
<1> SUFFICES ASSUME HostInv, Traces
             PROVE  /\ DispatchClaimExclusive
                    /\ AgentsBelongToDispatchedRequests
                    /\ DispatchedRequestsKeepTheirAgent
                    /\ FailedAttemptsLeaveNoWorktree
  BY DEF TracesInv, FailuresLeaveNoTrace
<1>0. /\ windows \in [Host -> SUBSET (Window \X RequestId)]
      /\ AttemptsFollowRows
  BY DEF HostInv, HostTypeOK
<1>1. \A r \in RequestId : attempt[r].at \in Treed => Working(r)
  BY DEF Treed, Windowed, Working, Serving, Resting
<1>2. DispatchClaimExclusive
  BY DEF Traces, OneWorksOnATask, DispatchClaimExclusive, Provisioning, SameTask
<1>3. AgentsBelongToDispatchedRequests
  <2> SUFFICES ASSUME NEW h \in Host, NEW w \in windows[h]
               PROVE  \/ Working(w[2])
                      \/ attempt[w[2]].at = "kept" /\ request[w[2]].state # "failed"
    BY DEF AgentsBelongToDispatchedRequests
  <2>1. w[2] \in RequestId
    BY <1>0
  <2>2. Kept(w[2]) \/ attempt[w[2]].at \in Windowed
    BY DEF Traces, WindowsAreOwned
  <2> QED BY <1>1, <2>1, <2>2 DEF Traces, KeptMeansDispatched, Kept, Treed
<1>4. DispatchedRequestsKeepTheirAgent
  <2> SUFFICES ASSUME NEW r \in RequestId, request[r].state = "dispatched"
               PROVE  /\ <<request[r].window, r>> \in windows[request[r].host]
                      /\ request[r].worktree \in trees[request[r].host]
    BY DEF DispatchedRequestsKeepTheirAgent
  <2>1. /\ Kept(r) /\ request[r].window = Name(r) /\ request[r].worktree = Path(r)
        /\ <<Name(r), r>> \in Tmux(r)
        /\ Path(r) \in Disk(r)
    BY DEF Traces, KeptMeansDispatched
  <2>2. attempt[r].host = request[r].host
    BY <1>0, <2>1 DEF AttemptsFollowRows, Kept
  <2> QED BY <2>1, <2>2 DEF Tmux, Disk
<1>5. FailedAttemptsLeaveNoWorktree
  BY <1>1 DEF Traces, TreesAreOwned, FailedAttemptsLeaveNoWorktree, Kept, Made
<1> QED BY <1>2, <1>3, <1>4, <1>5

(* ----- What a step does to the attempts, the windows and the disks ----- *)

Still(q) ==
    /\ attempt'[q].at = attempt[q].at
    /\ attempt'[q].task = attempt[q].task
    /\ attempt'[q].host = attempt[q].host
    /\ attempt'[q].reuses = attempt[q].reuses

OthersStill(r) == \A q \in RequestId : q # r => Still(q)

ProceedsAlone(r) ==
    /\ Proceed(r)
    /\ OthersStill(r)
    /\ attempt'[r].task = attempt[r].task
    /\ attempt'[r].host = attempt[r].host

HandsOutAlone(r) ==
    /\ Observe(r)
    /\ OthersStill(r)
    /\ attempt[r].at = "idle"
    /\ attempt'[r].at = "claiming"
    /\ UNCHANGED <<trees, windows, request>>

NobodyMoves ==
    /\ Others \/ UNCHANGED request
    /\ \A q \in RequestId : Still(q)
    /\ UNCHANGED <<trees, windows>>

LEMMA OneMovesAtATime ==
    ASSUME HostTypeOK, Faults = {}, [HostNext]_vars
    PROVE  \/ \E r \in RequestId : ProceedsAlone(r) \/ HandsOutAlone(r)
           \/ NobodyMoves
<1>0. attempt \in [RequestId -> AttemptRow]
  BY DEF HostTypeOK
<1>1. ASSUME NEW r \in RequestId, Proceed(r)
      PROVE  ProceedsAlone(r)
  <2>1. ASSUME NEW stage \in Stage, At(r, stage)
        PROVE  ProceedsAlone(r)
    BY <1>0, <1>1, <2>1 DEF ProceedsAlone, OthersStill, Still, At, AttemptRow
  <2>2. CASE Measure(r)
    BY <1>0, <1>1, <2>2 DEF ProceedsAlone, OthersStill, Still, Measure, AttemptRow
  <2>3. AfterWindow(r) \in Stage
    BY DEF AfterWindow, Stage
  <2>4. Measure(r) \/ \E stage \in Stage : At(r, stage)
    BY <1>1, <2>3
       DEF Proceed, ClaimAccepted, ClaimRefused, ClaimNotSent, GiveUp, ReuseWorktree,
           AddWorktree, WorktreeFails, CheckName, WindowFails, OpenWindow, Launch,
           LaunchFails, ReportAccepted, ReportRefused, ReportUnanswered, KillWindow,
           RemoveWorktree, ReportFailure, Stage, Resting
  <2> QED BY <2>1, <2>2, <2>4
<1>2. ASSUME NEW r \in RequestId, Observe(r)
      PROVE  HandsOutAlone(r)
  BY <1>0, <1>2 DEF Observe, HandsOutAlone, OthersStill, Still, NoAttempt, storeVars
<1>3. CASE TimePasses
  <2>1. \A q \in RequestId :
          /\ attempt'[q] = AgedAttempt(q)
          /\ AgedAttempt(q).at = attempt[q].at
          /\ AgedAttempt(q).task = attempt[q].task
          /\ AgedAttempt(q).host = attempt[q].host
          /\ AgedAttempt(q).reuses = attempt[q].reuses
    BY <1>0, <1>3 DEF TimePasses, AgedAttempt, AttemptRow
  <2> QED BY <1>3, <2>1 DEF NobodyMoves, Still, Others, TimePasses
<1>4. ASSUME NEW h \in Host PROVE ~Crash(h)
  BY DEF Crash
<1> QED BY <1>1, <1>2, <1>3, <1>4
        DEF HostNext, UserStep, Recover, vars, hostVars, storeVars, NobodyMoves, Still, Others

(* What the attempt at r does to the windows, and how its stage goes.      *)
LeavesWindows(r) ==
    /\ UNCHANGED windows
    /\ attempt'[r].at = "cleared" => Named(r) = {}
    /\ attempt'[r].at \in Windowed => attempt[r].at \in Windowed
    /\ attempt[r].at \in Windowed => attempt'[r].at \in Windowed \cup {"kept"}

Opened(r) ==
    /\ attempt[r].at = "cleared"
    /\ attempt'[r].at = "opened"
    /\ windows' = [windows EXCEPT ![attempt[r].host] = @ \cup {<<Name(r), r>>}]

Killed(r) ==
    /\ attempt[r].at = "killing"
    /\ attempt'[r].at \in {"failing", "removing"}
    /\ windows' = [windows EXCEPT ![attempt[r].host] = @ \ Named(r)]

(* ... and to the disks.                                                   *)
LeavesTrees(r) ==
    /\ UNCHANGED trees
    /\ attempt'[r].at = "measured" => (attempt'[r].reuses <=> Path(r) \in Disk(r))
    /\ attempt'[r].at \in Treed =>
         /\ attempt'[r].reuses = attempt[r].reuses
         /\ \/ attempt[r].at \in Treed
            \/ attempt[r].at = "measured" /\ attempt[r].reuses
    /\ Made(r) => Made(r)' \/ Kept(r)'
    /\ attempt'[r].at = "removing" => ~attempt[r].reuses

Added(r) ==
    /\ attempt[r].at = "measured"
    /\ ~attempt[r].reuses
    /\ attempt'[r].at = "treed"
    /\ ~attempt'[r].reuses
    /\ Path(r) \notin Disk(r)
    /\ trees' = [trees EXCEPT ![attempt[r].host] = @ \cup {Path(r)}]

Removed(r) ==
    /\ attempt[r].at = "removing"
    /\ attempt'[r].at = "failing"
    /\ trees' = [trees EXCEPT ![attempt[r].host] = @ \ {Path(r)}]

LEMMA HowAnAttemptGoes ==
    ASSUME HostTypeOK, Faults = {}, Traces, NEW r \in RequestId, Proceed(r)
    PROVE  /\ LeavesWindows(r) \/ Opened(r) \/ Killed(r)
           /\ LeavesTrees(r) \/ Added(r) \/ Removed(r)
           /\ Working(r) \/ attempt[r].at = "claiming"
           /\ attempt'[r].at # "repeating"
           /\ Kept(r)' => ReportAccepted(r) /\ attempt[r].at = "launched"
<1> DEFINE Goal ==
             /\ LeavesWindows(r) \/ Opened(r) \/ Killed(r)
             /\ LeavesTrees(r) \/ Added(r) \/ Removed(r)
             /\ Working(r) \/ attempt[r].at = "claiming"
             /\ attempt'[r].at # "repeating"
             /\ Kept(r)' => ReportAccepted(r) /\ attempt[r].at = "launched"
<1> USE DEF Windowed, Treed, Made, Kept, Working, Serving, Resting
<1>0. attempt \in [RequestId -> AttemptRow]
  BY DEF HostTypeOK
<1>1. ASSUME NEW stage \in Stage, At(r, stage)
      PROVE  attempt'[r].at = stage /\ attempt'[r].reuses = attempt[r].reuses
  BY <1>0, <1>1 DEF At, AttemptRow
<1>2. CASE ClaimAccepted(r) \/ ClaimRefused(r) \/ GiveUp(r) \/ WorktreeFails(r)
  BY <1>1, <1>2
     DEF ClaimAccepted, ClaimRefused, GiveUp, WorktreeFails, Stage, LeavesWindows, LeavesTrees
<1>3. CASE Measure(r)
  <2>1. attempt'[r].at = "measured" /\ (attempt'[r].reuses <=> Path(r) \in Disk(r))
    BY <1>0, <1>3 DEF Measure, AttemptRow
  <2> QED BY <1>3, <2>1 DEF Measure, LeavesWindows, LeavesTrees
<1>4. CASE ReuseWorktree(r) \/ AddWorktree(r)
  BY <1>1, <1>4
     DEF ReuseWorktree, AddWorktree, Stage, LeavesWindows, LeavesTrees, Added
<1>5. CASE CheckName(r) \/ Launch(r) \/ LaunchFails(r) \/ ReportRefused(r)
  BY <1>1, <1>5
     DEF CheckName, Launch, LaunchFails, ReportRefused, Stage, LeavesWindows, LeavesTrees,
         Traces, NoReportIsRepeated
<1>6. CASE WindowFails(r) \/ OpenWindow(r)
  BY <1>1, <1>6
     DEF WindowFails, OpenWindow, AfterWindow, Stage, LeavesWindows, LeavesTrees, Opened
<1>7. CASE KillWindow(r)
  <2>1. Cardinality(Named(r)) = 1
    <3>1. Named(r) = {<<Name(r), r>>}
      BY <1>7 DEF KillWindow, Traces, WindowsAreOwned
    <3> QED BY <3>1, FS_Singleton
  <2>2. /\ windows' = [windows EXCEPT ![attempt[r].host] = @ \ Named(r)]
        /\ At(r, AfterWindow(r))
    BY <1>7, <2>1 DEF KillWindow
  <2> QED BY <1>1, <1>7, <2>2
          DEF KillWindow, AfterWindow, Stage, LeavesTrees, Killed
<1>8. CASE RemoveWorktree(r)
  BY <1>1, <1>8 DEF RemoveWorktree, Stage, LeavesWindows, Removed
<1>9. CASE ReportAccepted(r)
  <2>1. attempt[r].at = "launched"
    BY <1>9 DEF ReportAccepted, Traces, NoReportIsRepeated
  <2> QED BY <1>1, <1>9, <2>1 DEF ReportAccepted, Stage, LeavesWindows, LeavesTrees
<1>10. CASE ReportFailure(r)
  BY <1>1, <1>10 DEF ReportFailure, Stage, LeavesWindows, LeavesTrees
<1>11. ~ClaimNotSent(r) /\ ~ReportUnanswered(r)
  BY DEF ClaimNotSent, ReportUnanswered
<1> QED BY <1>2, <1>3, <1>4, <1>5, <1>6, <1>7, <1>8, <1>9, <1>10, <1>11 DEF Proceed

LEMMA OnlyAttemptsReport ==
    ASSUME HostInv, Faults = {}, Prompt, [HostNext]_vars, NEW r \in RequestId
    PROVE  /\ request'[r].state = "dispatched" =>
                request[r].state = "dispatched" \/ (ReportAccepted(r) /\ ReportLands(r))
           /\ request'[r].state \in OpenStates =>
                \/ request[r].state \in OpenStates
                \/ Others /\ NobodyWorksOn(request'[r].task)
<1> DEFINE Goal ==
             /\ request'[r].state = "dispatched" =>
                  request[r].state = "dispatched" \/ (ReportAccepted(r) /\ ReportLands(r))
             /\ request'[r].state \in OpenStates =>
                  \/ request[r].state \in OpenStates
                  \/ Others /\ NobodyWorksOn(request'[r].task)
<1>0. /\ TypeOK /\ LedgerInv
      /\ request \in [RequestId -> RequestRow]
  BY DEF HostInv, TypeOK
<1>1. CASE UNCHANGED request
  BY <1>1
<1>2. ASSUME NEW q \in RequestId, Proceed(q)
      PROVE  Goal
  <2>1. CASE ClaimAccepted(q)
    BY <1>0, <2>1 DEF ClaimAccepted, ClaimDispatchRequest, OpenStates, RequestRow
  <2>2. CASE ReportAccepted(q)
    <3>1. CASE ReportLands(q)
      BY <1>0, <2>2, <3>1, LandedRow DEF OpenStates
    <3>2. CASE UNCHANGED storeVars
      BY <3>2, <1>1 DEF storeVars
    <3> QED BY <2>2, <3>1, <3>2 DEF ReportAccepted
  <2>3. CASE ReportFailure(q)
    BY <1>0, <2>3, LedgerRows
       DEF ReportFailure, ReportDispatchFailed, FailDispatchRequests, RowsFailed, storeVars,
           OpenStates
  <2>4. ~ClaimNotSent(q) /\ ~ReportUnanswered(q)
    BY DEF ClaimNotSent, ReportUnanswered
  <2> QED BY <1>1, <1>2, <2>1, <2>2, <2>3, <2>4
          DEF Proceed, ClaimRefused, GiveUp, Measure, ReuseWorktree, AddWorktree,
              WorktreeFails, CheckName, WindowFails, OpenWindow, Launch, LaunchFails,
              ReportRefused, KillWindow, RemoveWorktree, storeVars
<1>3. CASE Others
  BY <1>0, <1>3, OthersLeaveClaims DEF OpenStates
<1> HIDE DEF Goal
<1> QED BY <1>1, <1>2, <1>3 DEF HostNext, Others, Observe, vars, storeVars, Goal

(* A row that an attempt works on, or kept, advances under its id.         *)
LEMMA AttemptedRowsAdvance ==
    ASSUME HostInv, [HostNext]_vars, NEW r \in RequestId,
           attempt[r].at # "idle" \/ request[r].state # "absent"
    PROVE  LET old == request[r]
               new == request'[r]
           IN  /\ new.state # "absent" => /\ old.state # "absent"
                                          /\ new.task = old.task
                                          /\ new.host = old.host
               /\ new.state \in OpenStates => old.state \in OpenStates
               /\ old.state = "dispatched" =>
                    new.state = "absent" \/ (/\ new.state = "dispatched"
                                             /\ new.worktree = old.worktree
                                             /\ new.window = old.window)
<1>1. /\ TypeOK /\ LedgerInv /\ AttemptsFollowRows
      /\ nextRequest \in Nat
      /\ RequestId \subseteq Nat
  BY TimingAssumption DEF HostInv, TypeOK, RequestId
<1>2. LedgerStep
  BY <1>1, HostStepsTheStore, EveryStepIsALedgerStep DEF LedgerInv
<1>3. r < nextRequest
  BY <1>1 DEF AttemptsFollowRows, LedgerInv, IdsAreFresh
<1> QED BY <1>1, <1>2, <1>3, RowsAdvance

(* ----- The conjuncts of Traces, one by one ----- *)

LEMMA OneWorksStep ==
    ASSUME HostInv, Faults = {}, Prompt, Traces, [HostNext]_vars
    PROVE  OneWorksOnATask'
<1>0. /\ TypeOK /\ LedgerInv /\ HostTypeOK /\ AttemptsFollowRows
      /\ OneWorksOnATask
  BY DEF HostInv, Traces
<1>1. \A r \in RequestId : Working(r) => attempt[r].at # "idle"
  BY DEF Working, Serving, Resting
<1>2. ASSUME NEW a \in RequestId, Working(a)'
      PROVE  /\ attempt'[a].task = attempt[a].task
             /\ Working(a) \/ ClaimAccepted(a)
  BY <1>0, <1>2, EveryAttemptMoves DEF IsDropped, GoesOn, HandedOut, Working, Serving, Resting
<1>3. ASSUME NEW a \in RequestId, ClaimAccepted(a)
      PROVE  /\ a \in OpenRequests
             /\ request[a].task = attempt[a].task
             /\ \A r \in RequestId : /\ request'[r].task = request[r].task
                                     /\ r \in OpenRequests' => r \in OpenRequests
  BY <1>0, <1>3
     DEF ClaimAccepted, ClaimDispatchRequest, OpenRequests, IsOpen, OpenStates,
         AttemptsFollowRows, TypeOK, RequestRow
<1>4. \A a, b \in RequestId :
        a \in OpenRequests /\ b \in OpenRequests /\ request[a].task = request[b].task => a = b
  BY <1>0 DEF LedgerInv, OneOpenDispatchRequestPerTask
<1>5. ASSUME NEW a \in RequestId, NEW b \in RequestId,
             Working(a)', Working(b)', SameTask(a, b)'
      PROVE  a = b
  <2>1. attempt[a].task = attempt[b].task
    BY <1>2, <1>5 DEF SameTask
  <2>2. CASE Working(a) /\ Working(b)
    BY <1>0, <2>1, <2>2 DEF OneWorksOnATask, SameTask
  <2>3. CASE Working(a) /\ ClaimAccepted(b)
    BY <1>0, <1>3, <2>1, <2>3 DEF OneWorksOnATask
  <2>4. CASE ClaimAccepted(a) /\ Working(b)
    BY <1>0, <1>3, <2>1, <2>4 DEF OneWorksOnATask
  <2>5. CASE ClaimAccepted(a) /\ ClaimAccepted(b)
    BY <1>3, <1>4, <2>1, <2>5
  <2> QED BY <1>2, <1>5, <2>2, <2>3, <2>4, <2>5
<1>6. ASSUME NEW a \in RequestId, NEW r \in OpenRequests',
             Working(a)', attempt'[a].task = request'[r].task
      PROVE  a = r
  <2>1. r \in RequestId /\ request'[r].state \in OpenStates
    BY <1>6 DEF OpenRequests, IsOpen
  <2>2. CASE ClaimAccepted(a)
    BY <1>2, <1>3, <1>4, <1>6, <2>1, <2>2
  <2>3. CASE Working(a) /\ request[r].state \in OpenStates
    <3>1. request'[r].task = request[r].task
      BY <2>1, <2>3, AttemptedRowsAdvance DEF OpenStates
    <3> QED BY <1>0, <1>2, <1>6, <2>1, <2>3, <3>1 DEF OneWorksOnATask, OpenRequests, IsOpen
  <2>4. CASE Working(a) /\ NobodyWorksOn(request'[r].task)
    BY <1>2, <1>6, <2>4 DEF NobodyWorksOn
  <2> QED BY <1>2, <1>6, <2>1, <2>2, <2>3, <2>4, OnlyAttemptsReport
<1> QED BY <1>5, <1>6 DEF OneWorksOnATask

(* Two that work on attempts of one name or one path on a host are one.    *)
LEMMA NamesTellTasksApart ==
    ASSUME AttemptsFollowRows, NEW a \in RequestId, NEW b \in RequestId,
           attempt[a].at # "idle", attempt[b].at # "idle",
           Name(a) = Name(b) \/ Path(a) = Path(b)
    PROVE  SameTask(a, b)
  BY HostAssumption DEF AttemptsFollowRows, Name, Path, SameTask

LEMMA WindowsStep ==
    ASSUME HostInv, Faults = {}, Prompt, Traces, [HostNext]_vars
    PROVE  WindowsAreOwned'
<1> USE DEF Kept, Windowed
<1>0. /\ HostTypeOK /\ AttemptsFollowRows /\ WindowsAreOwned /\ OneWorksOnATask
      /\ windows \in [Host -> SUBSET (Window \X RequestId)]
  BY DEF HostInv, HostTypeOK, Traces
<1>1. ASSUME NEW q \in RequestId, Still(q)
      PROVE  /\ attempt'[q].at = attempt[q].at
             /\ attempt'[q].host = attempt[q].host
             /\ Name(q)' = Name(q)
  BY <1>1 DEF Still, Name
<1>2. CASE NobodyMoves
  BY <1>0, <1>1, <1>2 DEF NobodyMoves, WindowsAreOwned, Named, Tmux
<1>3. ASSUME NEW r \in RequestId, HandsOutAlone(r)
      PROVE  WindowsAreOwned'
  BY <1>0, <1>1, <1>3 DEF HandsOutAlone, OthersStill, WindowsAreOwned, Named, Tmux
<1>4. ASSUME NEW r \in RequestId, ProceedsAlone(r)
      PROVE  WindowsAreOwned'
  <2>1. /\ \A q \in RequestId : attempt'[q].host = attempt[q].host /\ Name(q)' = Name(q)
        /\ \A q \in RequestId : q # r => attempt'[q].at = attempt[q].at
    BY <1>4 DEF ProceedsAlone, OthersStill, Still, Name
  <2>2. attempt[r].at # "kept" /\ attempt[r].at # "idle"
    BY <1>0, <1>4, HowAnAttemptGoes DEF ProceedsAlone, Working, Serving, Resting
  <2>3. CASE LeavesWindows(r)
    BY <1>0, <2>1, <2>2, <2>3 DEF LeavesWindows, WindowsAreOwned, Named, Tmux
  <2>4. CASE Opened(r)
    <3> DEFINE own == <<Name(r), r>>
    <3>1. /\ attempt[r].host \in Host
          /\ Working(r)
      BY <1>0, <2>2, <2>4 DEF AttemptsFollowRows, Opened, Working, Serving, Resting
    <3>2. /\ windows'[attempt[r].host] = windows[attempt[r].host] \cup {own}
          /\ \A h \in Host : h # attempt[r].host => windows'[h] = windows[h]
      BY <1>0, <2>4, <3>1 DEF Opened
    <3>3. ASSUME NEW h \in Host, NEW w \in windows'[h]
          PROVE  /\ attempt'[w[2]].host = h
                 /\ w[1] = Name(w[2])'
                 /\ Kept(w[2])' \/ attempt'[w[2]].at \in Windowed
      <4>1. CASE w = own /\ h = attempt[r].host
        BY <2>1, <2>4, <4>1 DEF Opened
      <4>2. CASE w \in windows[h]
        BY <1>0, <2>1, <2>4, <4>2 DEF Opened, WindowsAreOwned
      <4> QED BY <3>2, <3>3, <4>1, <4>2
    <3>4. Named(r)' = {own}
      <4>1. Named(r) = {}
        BY <1>0, <2>4 DEF Opened, WindowsAreOwned
      <4> QED BY <2>1, <3>2, <4>1 DEF Named, Tmux
    <3>5. ASSUME NEW q \in RequestId, q # r, attempt[q].at \in Windowed \cup {"cleared"}
          PROVE  Named(q)' = Named(q)
      <4>1. Working(q) /\ attempt[q].at # "idle" /\ attempt[q].host \in Host
        BY <1>0, <3>5 DEF Working, Serving, Resting, AttemptsFollowRows
      <4>2. Name(q) # Name(r)
        BY <1>0, <2>2, <3>1, <3>5, <4>1, NamesTellTasksApart DEF OneWorksOnATask
      <4> QED BY <2>1, <3>2, <4>1, <4>2 DEF Named, Tmux
    <3>6. ASSUME NEW q \in RequestId
          PROVE  /\ attempt'[q].at = "cleared" => Named(q)' = {}
                 /\ attempt'[q].at \in Windowed => Named(q)' = {<<Name(q)', q>>}
      <4>1. CASE q = r
        BY <2>1, <2>4, <3>4, <4>1 DEF Opened
      <4>2. CASE q # r
        BY <1>0, <2>1, <3>5, <4>2 DEF WindowsAreOwned
      <4> QED BY <4>1, <4>2
    <3> QED BY <3>3, <3>6 DEF WindowsAreOwned
  <2>5. CASE Killed(r)
    <3> DEFINE own == <<Name(r), r>>
    <3>1. /\ attempt[r].host \in Host
          /\ Named(r) = {own}
      BY <1>0, <2>2, <2>5 DEF AttemptsFollowRows, Killed, WindowsAreOwned
    <3>2. /\ windows'[attempt[r].host] = windows[attempt[r].host] \ {own}
          /\ \A h \in Host : h # attempt[r].host => windows'[h] = windows[h]
      BY <1>0, <2>5, <3>1 DEF Killed
    <3>3. ASSUME NEW h \in Host, NEW w \in windows'[h]
          PROVE  /\ attempt'[w[2]].host = h
                 /\ w[1] = Name(w[2])'
                 /\ Kept(w[2])' \/ attempt'[w[2]].at \in Windowed
      <4>1. w \in windows[h] /\ w[2] \in RequestId /\ w = <<w[1], w[2]>>
        BY <1>0, <3>2, <3>3
      <4>2. w[2] # r
        <5> SUFFICES ASSUME w[2] = r PROVE FALSE
          OBVIOUS
        <5>1. w = own /\ h = attempt[r].host
          BY <1>0, <4>1 DEF WindowsAreOwned
        <5> QED BY <3>2, <3>3, <5>1
      <4> QED BY <1>0, <2>1, <4>1, <4>2 DEF WindowsAreOwned
    <3>4. ASSUME NEW q \in RequestId, q # r, attempt[q].at \in Windowed \cup {"cleared"}
          PROVE  Named(q)' = Named(q)
      <4>1. attempt[q].host \in Host
        BY <1>0, <3>4 DEF AttemptsFollowRows
      <4>2. own \notin Named(q)
        BY <1>0, <3>4 DEF WindowsAreOwned
      <4> QED BY <2>1, <3>2, <4>1, <4>2 DEF Named, Tmux
    <3>5. ASSUME NEW q \in RequestId
          PROVE  /\ attempt'[q].at = "cleared" => Named(q)' = {}
                 /\ attempt'[q].at \in Windowed => Named(q)' = {<<Name(q)', q>>}
      <4>1. CASE q = r
        BY <2>5, <4>1 DEF Killed
      <4>2. CASE q # r
        BY <1>0, <2>1, <3>4, <4>2 DEF WindowsAreOwned
      <4> QED BY <4>1, <4>2
    <3> QED BY <3>3, <3>5 DEF WindowsAreOwned
  <2> QED BY <1>0, <1>4, <2>3, <2>4, <2>5, HowAnAttemptGoes DEF ProceedsAlone
<1> QED BY <1>0, <1>2, <1>3, <1>4, OneMovesAtATime

LEMMA TreesStep ==
    ASSUME HostInv, Faults = {}, Prompt, Traces, [HostNext]_vars
    PROVE  TreesAreOwned'
<1> USE DEF Kept, Made
<1>0. /\ HostTypeOK /\ AttemptsFollowRows /\ TreesAreOwned /\ OneWorksOnATask
      /\ KeptMeansDispatched
      /\ trees \in [Host -> SUBSET Worktree]
      /\ OneWorksOnATask'
  BY OneWorksStep DEF HostInv, HostTypeOK, Traces
<1>a. \A q \in RequestId : attempt[q].at \in Treed \cup {"measured"} =>
        Working(q) /\ attempt[q].at # "idle" /\ attempt[q].host \in Host
  BY <1>0 DEF Treed, Windowed, Working, Serving, Resting, AttemptsFollowRows
<1>1. ASSUME NEW q \in RequestId, Still(q)
      PROVE  /\ attempt'[q].at = attempt[q].at
             /\ attempt'[q].host = attempt[q].host
             /\ attempt'[q].task = attempt[q].task
             /\ attempt'[q].reuses = attempt[q].reuses
             /\ Path(q)' = Path(q)
  BY <1>1 DEF Still, Path
<1>2. CASE NobodyMoves
  BY <1>0, <1>1, <1>2 DEF NobodyMoves, TreesAreOwned, Disk, SamePath, SameTask
<1>3. ASSUME NEW r \in RequestId, HandsOutAlone(r)
      PROVE  TreesAreOwned'
  BY <1>0, <1>1, <1>3
     DEF HandsOutAlone, OthersStill, TreesAreOwned, Disk, SamePath, SameTask, Treed, Windowed
<1>4. ASSUME NEW r \in RequestId, ProceedsAlone(r)
      PROVE  TreesAreOwned'
  <2>1. /\ \A q \in RequestId : /\ attempt'[q].host = attempt[q].host
                                /\ attempt'[q].task = attempt[q].task
                                /\ Path(q)' = Path(q)
        /\ \A q \in RequestId : q # r => /\ attempt'[q].at = attempt[q].at
                                         /\ attempt'[q].reuses = attempt[q].reuses
    BY <1>4 DEF ProceedsAlone, OthersStill, Still, Path
  <2>2. attempt[r].at # "kept" /\ attempt[r].at # "idle"
    BY <1>0, <1>4, HowAnAttemptGoes DEF ProceedsAlone, Working, Serving, Resting
  <2>3. attempt[r].host \in Host
    BY <1>0, <2>2 DEF AttemptsFollowRows
  <2>4. ASSUME NEW a \in RequestId, NEW b \in RequestId, Working(a), Working(b),
               Path(a) = Path(b)
        PROVE  a = b
    BY <1>0, <2>4, NamesTellTasksApart DEF OneWorksOnATask, Working, Serving, Resting
  <2>5. Kept(r)' => attempt[r].at \in Treed
    BY <1>0, <1>4, HowAnAttemptGoes DEF ProceedsAlone, Treed, Windowed
  (* Whoever makes one, the one that another keeps stays another's.        *)
  <2>6. ASSUME NEW a \in RequestId, NEW b \in RequestId, Made(a)', Kept(b)', SamePath(a, b)',
               ~Added(r)
        PROVE  FALSE
    <3>1. SamePath(a, b) /\ a # b
      BY <2>1, <2>6 DEF SamePath, SameTask, Treed, Windowed
    <3>2. CASE b = r
      BY <1>0, <1>a, <2>1, <2>5, <2>6, <3>1, <3>2 DEF OneWorksOnATask, SamePath
    <3>3. CASE b # r /\ a # r
      BY <1>0, <2>1, <2>6, <3>1, <3>3 DEF TreesAreOwned
    <3>4. CASE b # r /\ a = r
      <4>1. Made(r)
        BY <1>0, <1>4, <2>6, <3>4, HowAnAttemptGoes
           DEF ProceedsAlone, LeavesTrees, Removed, Treed, Windowed
      <4> QED BY <1>0, <2>1, <2>6, <3>1, <3>4, <4>1 DEF TreesAreOwned
    <3> QED BY <3>2, <3>3, <3>4
  <2>7. CASE LeavesTrees(r)
    <3>1. ASSUME NEW h \in Host, NEW p \in trees'[h]
          PROVE  \E q \in RequestId : /\ attempt'[q].host = h
                                      /\ Path(q)' = p
                                      /\ Kept(q)' \/ Made(q)'
      <4>1. PICK q \in RequestId : attempt[q].host = h /\ Path(q) = p /\ (Kept(q) \/ Made(q))
        BY <1>0, <2>7, <3>1 DEF LeavesTrees, TreesAreOwned
      <4> QED BY <2>1, <2>2, <2>7, <4>1 DEF LeavesTrees
    <3>2. ASSUME NEW q \in RequestId
          PROVE  /\ attempt'[q].at = "measured" => (attempt'[q].reuses <=> Path(q)' \in Disk(q)')
                 /\ attempt'[q].at \in Treed => Path(q)' \in Disk(q)'
                 /\ attempt'[q].at = "removing" => ~attempt'[q].reuses
      <4>1. Disk(q)' = Disk(q)
        BY <2>1, <2>7 DEF LeavesTrees, Disk
      <4>2. CASE q = r
        BY <1>0, <2>1, <2>7, <4>1, <4>2 DEF LeavesTrees, TreesAreOwned, Treed
      <4>3. CASE q # r
        BY <1>0, <2>1, <4>1, <4>3 DEF TreesAreOwned
      <4> QED BY <4>2, <4>3
    <3>3. ~Added(r)
      BY <2>3, <2>7, <1>0 DEF Added, LeavesTrees, Disk
    <3> QED BY <2>6, <3>1, <3>2, <3>3 DEF TreesAreOwned
  <2>8. CASE Added(r)
    <3>1. /\ trees'[attempt[r].host] = Disk(r) \cup {Path(r)}
          /\ \A h \in Host : h # attempt[r].host => trees'[h] = trees[h]
      BY <1>0, <2>3, <2>8 DEF Added, Disk
    <3>2. ASSUME NEW h \in Host, NEW p \in trees'[h]
          PROVE  \E q \in RequestId : /\ attempt'[q].host = h
                                      /\ Path(q)' = p
                                      /\ Kept(q)' \/ Made(q)'
      <4>1. CASE p \in trees[h]
        <5>1. PICK q \in RequestId : attempt[q].host = h /\ Path(q) = p /\ (Kept(q) \/ Made(q))
          BY <1>0, <4>1 DEF TreesAreOwned
        <5>2. q # r
          BY <2>8, <5>1 DEF Added, Treed, Windowed
        <5> QED BY <2>1, <5>1, <5>2
      <4>2. CASE h = attempt[r].host /\ p = Path(r)
        BY <2>1, <2>8, <4>2 DEF Added, Treed
      <4> QED BY <3>1, <3>2, <4>1, <4>2 DEF Disk
    <3>3. ASSUME NEW q \in RequestId
          PROVE  /\ attempt'[q].at = "measured" => (attempt'[q].reuses <=> Path(q)' \in Disk(q)')
                 /\ attempt'[q].at \in Treed => Path(q)' \in Disk(q)'
                 /\ attempt'[q].at = "removing" => ~attempt'[q].reuses
      <4>1. CASE q = r
        BY <2>1, <2>8, <3>1, <4>1 DEF Added, Disk
      <4>2. CASE q # r /\ attempt[q].at \in Treed \cup {"measured"}
        <5>1. Path(q) # Path(r)
          BY <1>a, <2>4, <2>8, <4>2 DEF Added
        <5>2. Path(q)' \in Disk(q)' <=> Path(q) \in Disk(q)
          BY <1>a, <2>1, <3>1, <4>2, <5>1 DEF Disk
        <5> QED BY <1>0, <2>1, <4>2, <5>2 DEF TreesAreOwned
      <4>3. CASE q # r /\ attempt[q].at \notin Treed \cup {"measured"}
        BY <2>1, <4>3 DEF Treed
      <4> QED BY <4>1, <4>2, <4>3
    <3>4. ASSUME NEW a \in RequestId, NEW b \in RequestId, Made(a)', Kept(b)', SamePath(a, b)'
          PROVE  FALSE
      <4>1. b # r /\ Kept(b) /\ SamePath(a, b)
        BY <2>1, <2>8, <3>4 DEF Added, SamePath, SameTask
      <4>2. CASE a = r
        <5>1. Path(b) \in Disk(b) /\ Path(b) = Path(r) /\ Disk(b) = Disk(r)
          BY <1>0, <4>1, <4>2 DEF KeptMeansDispatched, SamePath, SameTask, Path, Disk
        <5> QED BY <2>8, <5>1 DEF Added
      <4>3. CASE a # r
        BY <1>0, <2>1, <3>4, <4>1, <4>3 DEF TreesAreOwned
      <4> QED BY <4>2, <4>3
    <3> QED BY <3>2, <3>3, <3>4 DEF TreesAreOwned
  <2>9. CASE Removed(r)
    <3>1. /\ trees'[attempt[r].host] = Disk(r) \ {Path(r)}
          /\ \A h \in Host : h # attempt[r].host => trees'[h] = trees[h]
      BY <1>0, <2>3, <2>9 DEF Removed, Disk
    <3>2. ASSUME NEW h \in Host, NEW p \in trees'[h]
          PROVE  \E q \in RequestId : /\ attempt'[q].host = h
                                      /\ Path(q)' = p
                                      /\ Kept(q)' \/ Made(q)'
      <4>1. PICK q \in RequestId : attempt[q].host = h /\ Path(q) = p /\ (Kept(q) \/ Made(q))
        BY <1>0, <3>1, <3>2 DEF TreesAreOwned, Disk
      <4>2. q # r
        BY <3>1, <3>2, <4>1
      <4> QED BY <2>1, <4>1, <4>2
    <3>3. ASSUME NEW q \in RequestId
          PROVE  /\ attempt'[q].at = "measured" => (attempt'[q].reuses <=> Path(q)' \in Disk(q)')
                 /\ attempt'[q].at \in Treed => Path(q)' \in Disk(q)'
                 /\ attempt'[q].at = "removing" => ~attempt'[q].reuses
      <4>1. CASE q = r
        BY <2>9, <4>1 DEF Removed, Treed, Windowed
      <4>2. CASE q # r /\ attempt[q].at \in Treed \cup {"measured"}
        <5>1. Path(q) # Path(r)
          BY <1>a, <2>4, <2>9, <4>2 DEF Removed, Treed
        <5>2. Path(q)' \in Disk(q)' <=> Path(q) \in Disk(q)
          BY <1>a, <2>1, <3>1, <4>2, <5>1 DEF Disk
        <5> QED BY <1>0, <2>1, <4>2, <5>2 DEF TreesAreOwned
      <4>3. CASE q # r /\ attempt[q].at \notin Treed \cup {"measured"}
        BY <2>1, <4>3 DEF Treed
      <4> QED BY <4>1, <4>2, <4>3
    <3>4. ~Added(r)
      BY <2>9 DEF Added, Removed
    <3> QED BY <2>6, <3>2, <3>3, <3>4 DEF TreesAreOwned
  <2> QED BY <1>0, <1>4, <2>7, <2>8, <2>9, HowAnAttemptGoes DEF ProceedsAlone, Traces
<1> QED BY <1>0, <1>2, <1>3, <1>4, OneMovesAtATime

LEMMA KeptStep ==
    ASSUME HostInv, Faults = {}, Prompt, Traces, [HostNext]_vars
    PROVE  KeptMeansDispatched'
<1> USE DEF Kept
<1>0. /\ TypeOK /\ HostTypeOK /\ AttemptsFollowRows /\ KeptMeansDispatched
      /\ WindowsAreOwned /\ TreesAreOwned
      /\ trees \in [Host -> SUBSET Worktree]
      /\ windows \in [Host -> SUBSET (Window \X RequestId)]
  BY DEF HostInv, HostTypeOK, Traces
<1> SUFFICES ASSUME NEW q \in RequestId
             PROVE  /\ Kept(q)' => /\ request'[q].state \in {"dispatched", "absent"}
                                   /\ <<Name(q)', q>> \in Tmux(q)'
                                   /\ Path(q)' \in Disk(q)'
                    /\ request'[q].state = "dispatched" =>
                         /\ Kept(q)'
                         /\ request'[q].window = Name(q)'
                         /\ request'[q].worktree = Path(q)'
  BY DEF KeptMeansDispatched
<1>1. ASSUME Still(q)
      PROVE  /\ attempt'[q].at = attempt[q].at
             /\ attempt'[q].host = attempt[q].host
             /\ Name(q)' = Name(q)
             /\ Path(q)' = Path(q)
  BY <1>1 DEF Still, Name, Path
(* It is kept, or it is still not: nobody else touches what it has.        *)
<1> DEFINE Goal == /\ Kept(q)' => /\ request'[q].state \in {"dispatched", "absent"}
                                  /\ <<Name(q)', q>> \in Tmux(q)'
                                  /\ Path(q)' \in Disk(q)'
                   /\ request'[q].state = "dispatched" =>
                        /\ Kept(q)'
                        /\ request'[q].window = Name(q)'
                        /\ request'[q].worktree = Path(q)'
<1>2. ASSUME Still(q), Kept(q) => <<Name(q), q>> \in Tmux(q)' /\ Path(q) \in Disk(q)'
      PROVE  Goal
  <2>1. CASE Kept(q)
    BY <1>0, <1>1, <1>2, <2>1, AttemptedRowsAdvance DEF KeptMeansDispatched
  <2>2. CASE ~Kept(q)
    <3>1. ~ReportAccepted(q)
      BY <1>0, <1>2, <2>2 DEF ReportAccepted, At, Still, HostTypeOK, AttemptRow
    <3> QED BY <1>0, <1>1, <1>2, <2>2, <3>1, OnlyAttemptsReport DEF KeptMeansDispatched
  <2> QED BY <2>1, <2>2
<1>3. CASE NobodyMoves
  BY <1>0, <1>1, <1>2, <1>3 DEF NobodyMoves, KeptMeansDispatched, Tmux, Disk
<1>4. ASSUME NEW r \in RequestId, HandsOutAlone(r)
      PROVE  Goal
  <2>1. CASE q # r
    BY <1>0, <1>1, <1>2, <1>4, <2>1
       DEF HandsOutAlone, OthersStill, KeptMeansDispatched, Tmux, Disk
  <2>2. CASE q = r
    BY <1>0, <1>4, <2>2 DEF HandsOutAlone, Observe
  <2> QED BY <2>1, <2>2
<1>5. ASSUME NEW r \in RequestId, ProceedsAlone(r), q # r
      PROVE  Goal
  <2>1. Still(q)
    BY <1>5 DEF ProceedsAlone, OthersStill
  <2>2. attempt[r].at # "idle" /\ attempt[r].host \in Host
    BY <1>0, <1>5, HowAnAttemptGoes
       DEF ProceedsAlone, AttemptsFollowRows, Working, Serving, Resting
  <2> SUFFICES ASSUME Kept(q)
               PROVE  <<Name(q), q>> \in Tmux(q)' /\ Path(q) \in Disk(q)'
    BY <1>2, <2>1
  <2>3. /\ <<Name(q), q>> \in Tmux(q)
        /\ Path(q) \in Disk(q)
        /\ attempt[q].host \in Host
    BY <1>0 DEF KeptMeansDispatched, AttemptsFollowRows
  <2>4. <<Name(q), q>> \in Tmux(q)'
    <3>1. CASE LeavesWindows(r) \/ Opened(r)
      BY <1>0, <1>1, <2>1, <2>2, <2>3, <3>1 DEF LeavesWindows, Opened, Tmux
    <3>2. CASE Killed(r)
      <4>1. Named(r) = {<<Name(r), r>>}
        BY <1>0, <3>2 DEF Killed, WindowsAreOwned, Windowed
      <4> QED BY <1>0, <1>1, <1>5, <2>1, <2>2, <2>3, <3>2, <4>1 DEF Killed, Tmux
    <3> QED BY <1>0, <1>5, <3>1, <3>2, HowAnAttemptGoes DEF ProceedsAlone
  <2>5. Path(q) \in Disk(q)'
    <3>1. CASE LeavesTrees(r) \/ Added(r)
      BY <1>0, <1>1, <2>1, <2>2, <2>3, <3>1 DEF LeavesTrees, Added, Disk
    <3>2. CASE Removed(r)
      <4>1. Made(r)
        BY <1>0, <3>2 DEF Removed, Made, TreesAreOwned, Treed
      <4>2. attempt[r].host # attempt[q].host \/ Path(r) # Path(q)
        BY <1>0, <2>2, <4>1, NamesTellTasksApart DEF TreesAreOwned, SamePath
      <4> QED BY <1>0, <1>1, <2>1, <2>2, <2>3, <3>2, <4>2 DEF Removed, Disk
    <3> QED BY <1>0, <1>5, <3>1, <3>2, HowAnAttemptGoes DEF ProceedsAlone
  <2> QED BY <2>4, <2>5
<1>6. ASSUME ProceedsAlone(q)
      PROVE  Goal
  <2>1. ~Kept(q) /\ Name(q)' = Name(q) /\ Path(q)' = Path(q)
    BY <1>0, <1>6, HowAnAttemptGoes
       DEF ProceedsAlone, Working, Serving, Resting, Name, Path
  <2>2. CASE ReportAccepted(q)
    <3>1. ReportLands(q)
      BY <1>0, <2>1, <2>2 DEF ReportAccepted, ReportIsRepeat, KeptMeansDispatched
    <3>2. /\ request'[q].state = "dispatched"
          /\ request'[q].window = Name(q)
          /\ request'[q].worktree = Path(q)
      BY <1>0, <3>1, LandedRow
    <3>3. Kept(q)'
      BY <1>0, <2>2 DEF ReportAccepted, At, HostTypeOK, AttemptRow
    <3>4. attempt[q].at = "launched"
      BY <1>0, <1>6, <3>3, HowAnAttemptGoes DEF ProceedsAlone
    <3>5. <<Name(q), q>> \in Tmux(q) /\ Path(q) \in Disk(q)
      BY <1>0, <3>4 DEF WindowsAreOwned, Named, TreesAreOwned, Treed, Windowed
    <3>6. Tmux(q)' = Tmux(q) /\ Disk(q)' = Disk(q)
      BY <1>6, <2>2 DEF ReportAccepted, ProceedsAlone, Tmux, Disk
    <3> QED BY <2>1, <3>2, <3>3, <3>5, <3>6
  <2>3. CASE ~ReportAccepted(q)
    <3>1. ~Kept(q)'
      BY <1>0, <1>6, <2>3, HowAnAttemptGoes DEF ProceedsAlone
    <3>2. request'[q].state # "dispatched"
      BY <1>0, <2>1, <2>3, OnlyAttemptsReport DEF KeptMeansDispatched
    <3> QED BY <3>1, <3>2
  <2> QED BY <2>2, <2>3
<1> QED BY <1>0, <1>3, <1>4, <1>5, <1>6, OneMovesAtATime

LEMMA TracesStep == HostInv /\ TracesInv /\ [HostNext]_vars => TracesInv'
<1> SUFFICES ASSUME HostInv, TracesInv, [HostNext]_vars, (Faults = {} /\ Prompt)'
             PROVE  Traces'
  BY DEF TracesInv
<1>1. Faults = {} /\ Prompt
  BY DEF HostNext, vars, Faults, Prompt
<1>2. Traces
  BY <1>1 DEF TracesInv
<1>3. NoReportIsRepeated'
  <2>1. HostTypeOK
    BY DEF HostInv
  <2> SUFFICES ASSUME NEW q \in RequestId PROVE attempt'[q].at # "repeating"
    BY DEF NoReportIsRepeated
  <2>2. attempt[q].at # "repeating"
    BY <1>2 DEF Traces, NoReportIsRepeated
  <2> QED BY <1>1, <1>2, <2>1, <2>2, OneMovesAtATime, HowAnAttemptGoes
          DEF ProceedsAlone, HandsOutAlone, NobodyMoves, OthersStill, Still
<1> QED BY <1>1, <1>2, <1>3, OneWorksStep, WindowsStep, TreesStep, KeptStep DEF Traces

LEMMA TracesInit == HostInit => TracesInv
<1> SUFFICES ASSUME HostInit PROVE Traces
  BY DEF TracesInv
<1>1. \A r \in RequestId : attempt[r].at = "idle" /\ request[r].state = "absent"
  BY NoAttemptRests DEF HostInit, Init, NoRequest
<1>2. \A r \in RequestId : ~Working(r) /\ ~Kept(r) /\ ~Made(r)
  BY <1>1 DEF Working, Serving, Resting, Kept, Made, Treed, Windowed
<1>3. OneWorksOnATask
  BY <1>2 DEF OneWorksOnATask
<1>4. WindowsAreOwned
  BY <1>1 DEF HostInit, WindowsAreOwned, Windowed
<1>5. TreesAreOwned
  BY <1>1, <1>2 DEF HostInit, TreesAreOwned, Treed, Windowed
<1>6. KeptMeansDispatched /\ NoReportIsRepeated
  BY <1>1, <1>2 DEF KeptMeansDispatched, NoReportIsRepeated
<1> QED BY <1>3, <1>4, <1>5, <1>6 DEF Traces

(* FailuresLeaveNoTrace: where nothing goes wrong around the boards and a  *)
(* live board ends what it is at, however many boards, tasks and requests  *)
(* there are, and whatever is refused, closed, deleted or timed out under  *)
(* an attempt, its rollback undoes what it made and nothing else.          *)
THEOREM FailuresAreUndone == HostSpec => []FailuresLeaveNoTrace
<1>1. HostInv /\ TracesInv => FailuresLeaveNoTrace
  BY TracesSuffice
<1>2. HostInit => TracesInv
  BY TracesInit
<1>3. HostInv /\ TracesInv /\ [HostNext]_vars => TracesInv'
  BY TracesStep
<1> QED BY <1>1, <1>2, <1>3, HostInvariant, PTL DEF HostSpec

============================================================================
