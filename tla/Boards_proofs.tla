--------------------------- MODULE Boards_proofs ----------------------------
(***************************************************************************)
(* Proofs about what follows one task: what the copies of a row leave to   *)
(* the row, who gives a pull request up, what a connected board shows, and *)
(* what the store learns of an agent from its hooks, for any number of     *)
(* boards, tasks, agents, windows, subagents and sessions, any keys and    *)
(* hooks, and any bounds.                                                  *)
(*                                                                         *)
(* All four are about state read at one time and acted on at another: a    *)
(* copy that is behind the row, a read that outlives what it was asked     *)
(* for, an event that overtakes a list, a hook that is written late or     *)
(* never.  Each invariant says what may still be on its way, and what that *)
(* can no longer change.                                                   *)
(***************************************************************************)
EXTENDS BoardTasks, PrPolling, ViewMirror, AgentActivity, FiniteSetTheorems, TLAPS

----------------------------------------------------------------------------
(* BoardTasks: what the copies of a row leave to the row *)

IsDeleted == row.status = "deleted"

Placed(r) == r.worktree <=> r.host # NoMachine

(* A request is taken for a task that may still be given an agent.         *)
RequestsHaveRoom ==
    /\ born \in 0..MaxBorn
    /\ request # NoMachine => born < MaxBorn

(* Only a fresh retry has the pointer of a live row cleared.               *)
NobodyClears ==
    \A b \in Board :
        /\ cleanup[b] # "clear pointer"
        /\ \A i \in 1..Len(inbox[b]) : inbox[b][i] # "clear pointer"

(* No copy, resume, request or session is of another machine than the row's. *)
EveryoneKnowsThePlace ==
    "retry fresh" \notin Keys =>
        /\ NobodyClears
        /\ Placed(row)
        /\ request # NoMachine => row.host \in {NoMachine, request}
        /\ \A b \in Board :
               /\ Placed(copy[b])
               /\ copy[b].host # NoMachine => IsDeleted \/ row.host = copy[b].host
               /\ resume[b] # "none" => IsDeleted \/ row.host = b
               /\ inWindow[b] # NoOne => IsDeleted \/ (row.agent = inWindow[b] /\ row.host = b)

(* A worktree on the disk is known to the row, and to the card of the one  *)
(* board.                                                                  *)
DisksAreKnown ==
    OneBoard /\ {"dispatch", "retry fresh"} \cap Keys = {} =>
        /\ request = NoMachine
        /\ \A b \in Board :
               /\ disk[b] => ~IsDeleted /\ row.worktree /\ (Shown(b) => copy[b].worktree)
               /\ \A i \in 1..Len(inbox[b]) : inbox[b][i] = "delete row" => ~disk[b]

ResumeAnswer == {"resumed", "resume failed"}

OneAnswer(b) ==
    \A i \in 1..Len(inbox[b]) :
        inbox[b][i] \in ResumeAnswer =>
            /\ resume[b] = "answered"
            /\ \A j \in 1..Len(inbox[b]) : inbox[b][j] \in ResumeAnswer => i = j

(* A crash that is shown beside a live session, or that is still in the    *)
(* inbox, is older than the resume that opened the session, and the board  *)
(* has that answer still to handle.                                        *)
CrashesAreOlder(b) ==
    inWindow[b] # NoOne =>
        /\ row.agent # NoOne
        /\ row.crashed \/ copy[b].crashed =>
               \E j \in 1..Len(inbox[b]) : inbox[b][j] = "resumed"
        /\ \A i \in 1..Len(inbox[b]) : inbox[b][i] = "window gone" =>
               \E j \in 1..Len(inbox[b]) : i < j /\ inbox[b][j] = "resumed"

ResumesFollowCrashes ==
    OneBoard /\ {"dispatch", "retry fresh", "delete"} \cap Keys = {} =>
        /\ request = NoMachine /\ ~IsDeleted
        /\ \A b \in Board :
               /\ Shown(b) /\ cleanup[b] = "none"
               /\ \A i \in 1..Len(inbox[b]) :
                      inbox[b][i] \in ResumeAnswer \cup {"window gone"}
               /\ OneAnswer(b)
               /\ CrashesAreOlder(b)

BoardInv ==
    /\ boardSetting \in BoardSettings
    /\ BoardTypeOK
    /\ RequestsHaveRoom
    /\ EveryoneKnowsThePlace
    /\ DisksAreKnown
    /\ ResumesFollowCrashes

LEMMA BoardSettings_ ==
    ASSUME boardSetting \in BoardSettings
    PROVE  NoMachine \notin Board /\ MaxBorn \in Nat /\ MaxBorn >= 1
BY BoardTasksAssumption DEF Board, MaxBorn

LEMMA BoardSettingStays ==
    ASSUME UNCHANGED boardSetting
    PROVE  /\ Board' = Board /\ MaxBorn' = MaxBorn /\ Keys' = Keys /\ BoardRow' = BoardRow
           /\ StartStatus' = StartStatus
BY DEF Board, MaxBorn, Keys, BoardRow, StartStatus

(* A handler that persists the board's copy of a row that is there, with   *)
(* the worktree and the host the copy has.                                 *)
PersistsCard(b) ==
    /\ \E c \in BoardRow, release \in {Keep, ReleasingWindow} :
           /\ c.worktree = copy[b].worktree /\ c.host = copy[b].host /\ c.status \in Status
           /\ Persist(b, c, release)
    /\ UNCHANGED <<request, inWindow, disk, check, cleanup, born>>

(* A finished task's row goes.                                             *)
Deletes(b) == DeleteTask(b) \/ HandleReleasedToDelete(b)

LEMMA RowsChanged ==
    ASSUME BoardTypeOK, NEW b \in Board, NEW c \in BoardRow, c.status \in Status,
           NEW release \in {Keep, ReleasingWindow}
    PROVE  /\ Persisted(row, c, release) \in BoardRow
           /\ Persisted(row, c, release).window => Persisted(row, c, release).agent # NoOne
           /\ Persisted(row, c, release).agent = row.agent
           /\ row.worktree => Persisted(row, c, release).worktree
           /\ row.window /\ release = Keep => Persisted(row, c, release).window
           /\ Persisted(row, c, release).status = "deleted" <=> IsDeleted
           /\ IsDeleted => Persisted(row, c, release) = row
<1>1. row \in BoardRow /\ (row.window => row.agent # NoOne) /\ release.worktree = FALSE
    BY DEF BoardTypeOK, Keep, ReleasingWindow
<1>2. CASE ~Accepts(row, c, release)
    BY <1>1, <1>2 DEF Persisted, IsDeleted, Accepts, Patchable
<1>3. CASE Accepts(row, c, release)
    <2>1. Persisted(row, c, release) = Written(row, c, release) /\ ~IsDeleted
        BY <1>3 DEF Persisted, Accepts, Patchable, IsDeleted
    <2>2. /\ Written(row, c, release).worktree = (c.worktree \/ row.worktree)
          /\ Written(row, c, release).agent = row.agent
          /\ Written(row, c, release).status = c.status
          /\ Written(row, c, release).window = (~release.window /\ (c.window \/ row.window))
        BY <1>1 DEF Written, BoardRow
    <2>3. Written(row, c, release) \in BoardRow
        BY <1>1 DEF Written, BoardRow, Keep, ReleasingWindow
    <2>4. Written(row, c, release).window => row.agent # NoOne
        BY <1>1, <1>3, <2>2 DEF Accepts
    <2>5. c.status # "deleted"
        BY DEF Status
    <2>6. ASSUME row.window, release = Keep
          PROVE  Written(row, c, release).window
        <3>1. release.window = FALSE
            BY <2>6 DEF Keep
        <3> QED
            BY <1>1, <2>2, <2>6, <3>1 DEF BoardRow
    <2>7. row.worktree => Written(row, c, release).worktree
        BY <2>2
    <2> QED
        BY <1>1, <2>1, <2>2, <2>3, <2>4, <2>5, <2>6, <2>7
<1> QED
    BY <1>2, <1>3

KeysThatPersist(b) == MoveForward(b) \/ MoveBackward(b) \/ ConfirmDone(b) \/ Reorder(b)

LEMMA BoardSteps ==
    ASSUME [BoardNext]_boardVars
    PROVE  /\ UNCHANGED boardSetting
           /\ \/ \E b \in Board : KeysThatPersist(b)
              \/ \E b \in Board : HandleWindowGone(b) \/ HandleResumed(b)
              \/ \E b \in Board : AskResume(b) \/ RetryResume(b)
              \/ \E b \in Board : RetryAfresh(b)
              \/ \E b \in Board : AskDispatch(b)
              \/ \E b \in Board : Deletes(b)
              \/ \E b \in Board : TickWindowCheck(b) \/ WindowChecked(b)
              \/ \E b \in Board : WindowKilled(b) \/ SessionDies(b)
              \/ \E b \in Board : ResumeRuns(b)
              \/ \E b \in Board : CleanupEnds(b)
              \/ \E b \in Board : HandleResumeFailed(b)
              \/ \E b \in Board : HandleReleased(b)
              \/ \E b \in Board : HandleCleanupFailed(b)
              \/ \E b \in Board : RefreshCopy(b)
              \/ \E b \in Board : StopHook(b)
              \/ Launch
              \/ Reopen
              \/ UNCHANGED workVars
<1>1. CASE UNCHANGED boardVars
    BY <1>1 DEF boardVars
<1>2. ASSUME UNCHANGED boardSetting, NEW b \in Board,
             \/ KeyPress(b)
             \/ TickWindowCheck(b) \/ WindowChecked(b) \/ WindowKilled(b)
             \/ ResumeRuns(b) \/ CleanupEnds(b)
             \/ HandleMessage(b) \/ RefreshCopy(b)
             \/ StopHook(b) \/ SessionDies(b)
      PROVE  \/ KeysThatPersist(b) \/ HandleWindowGone(b) \/ HandleResumed(b)
             \/ AskResume(b) \/ RetryResume(b) \/ RetryAfresh(b) \/ AskDispatch(b) \/ Deletes(b)
             \/ TickWindowCheck(b) \/ WindowChecked(b) \/ WindowKilled(b) \/ SessionDies(b)
             \/ ResumeRuns(b) \/ CleanupEnds(b) \/ HandleResumeFailed(b) \/ HandleReleased(b)
             \/ HandleCleanupFailed(b) \/ RefreshCopy(b) \/ StopHook(b)
    BY <1>2 DEF KeyPress, HandleMessage, KeysThatPersist, Deletes
<1>3. CASE BoardNext
    BY <1>2, <1>3 DEF BoardNext, CardStep
<1> QED
    BY <1>1, <1>3

LEMMA CardsMoved ==
    ASSUME NEW c \in BoardRow, NEW status \in Status
    PROVE  /\ MovedTo(c, status) \in BoardRow /\ MovedTo(c, status).status = status
           /\ MovedTo(c, status).worktree = c.worktree /\ MovedTo(c, status).host = c.host
           /\ MovedTo(c, status).crashed = FALSE
           /\ [MovedTo(c, status) EXCEPT !.window = FALSE] \in BoardRow
           /\ [MovedTo(c, status) EXCEPT !.window = FALSE].status = status
           /\ [MovedTo(c, status) EXCEPT !.window = FALSE].worktree = c.worktree
           /\ [MovedTo(c, status) EXCEPT !.window = FALSE].host = c.host
           /\ [MovedTo(c, status) EXCEPT !.window = FALSE].crashed = FALSE
BY DEF MovedTo, BoardRow

LEMMA KeysPersist ==
    ASSUME BoardTypeOK, NEW b \in Board, KeysThatPersist(b)
    PROVE  /\ PersistsCard(b)
           /\ \E c \in BoardRow, release \in {Keep, ReleasingWindow} :
                  /\ c.worktree = copy[b].worktree /\ c.host = copy[b].host /\ c.status \in Status
                  /\ c.crashed => copy[b].crashed
                  /\ Persist(b, c, release)
           /\ kill' \in [Board -> BOOLEAN] /\ UNCHANGED <<resume, inbox>>
<1>1. copy[b] \in BoardRow /\ kill \in [Board -> BOOLEAN] /\ copy[b].window \in BOOLEAN
    BY DEF BoardTypeOK, BoardRow
<1>2. CASE MoveForward(b)
    <2>1. Next1[copy[b].status] \in Status
        BY <1>2 DEF MoveForward, Next1, Status
    <2>2. Persist(b, MovedTo(copy[b], Next1[copy[b].status]), Keep)
        BY <1>2 DEF MoveForward
    <2> QED
        BY <1>1, <1>2, <2>1, <2>2, CardsMoved DEF MoveForward, PersistsCard, jobVars
<1>3. DetachRelease(b) \in {Keep, ReleasingWindow}
    BY DEF DetachRelease
<1>4. CASE MoveBackward(b)
    <2>1. Prev1[copy[b].status] \in Status
        BY <1>4 DEF MoveBackward, Prev1, Status
    <2> DEFINE c == [MovedTo(copy[b], Prev1[copy[b].status]) EXCEPT !.window = FALSE]
    <2>4. /\ c \in BoardRow /\ c.worktree = copy[b].worktree /\ c.host = copy[b].host
          /\ c.status \in Status /\ c.crashed = FALSE
        BY <1>1, <2>1, CardsMoved
    <2>2. Persist(b, c, DetachRelease(b))
        BY <1>4 DEF MoveBackward
    <2>3. kill' \in [Board -> BOOLEAN]
        BY <1>1, <1>4 DEF MoveBackward, Detach
    <2> HIDE DEF c
    <2> QED
        BY <1>3, <1>4, <2>2, <2>3, <2>4 DEF MoveBackward, PersistsCard
<1>5. CASE ConfirmDone(b)
    <2>1. "done" \in Status
        BY DEF Status
    <2> DEFINE c == [MovedTo(copy[b], "done") EXCEPT !.window = FALSE]
    <2>4. /\ c \in BoardRow /\ c.worktree = copy[b].worktree /\ c.host = copy[b].host
          /\ c.status \in Status /\ c.crashed = FALSE
        BY <1>1, <2>1, CardsMoved
    <2>2. Persist(b, c, DetachRelease(b))
        BY <1>5 DEF ConfirmDone
    <2>3. kill' \in [Board -> BOOLEAN]
        BY <1>1, <1>5 DEF ConfirmDone, Detach
    <2> HIDE DEF c
    <2> QED
        BY <1>3, <1>5, <2>2, <2>3, <2>4 DEF ConfirmDone, PersistsCard
<1>6. CASE Reorder(b)
    <2>1. copy[b].status \in Status
        BY <1>1, <1>6 DEF Reorder, Shown, BoardRow
    <2> QED
        BY <1>1, <1>6, <2>1 DEF Reorder, PersistsCard, jobVars
<1> QED
    BY <1>2, <1>4, <1>5, <1>6 DEF KeysThatPersist

LEMMA MessagesPersist ==
    ASSUME BoardTypeOK, NEW b \in Board, HandleWindowGone(b) \/ HandleResumed(b)
    PROVE  /\ PersistsCard(b) \/ UNCHANGED <<row, copy, request, inWindow, disk, check, cleanup, born>>
           /\ UNCHANGED kill
<1>1. copy[b] \in BoardRow
    BY DEF BoardTypeOK
<1>2. CASE HandleWindowGone(b) /\ Shown(b)
    <2> DEFINE c == IF copy[b].status = "running" THEN AgentCrashed(copy[b])
                    ELSE [copy[b] EXCEPT !.window = FALSE]
    <2>1. c \in BoardRow /\ c.worktree = copy[b].worktree /\ c.host = copy[b].host
          /\ c.status = copy[b].status
        BY <1>1 DEF AgentCrashed, BoardRow
    <2>2. copy[b].status \in Status
        BY <1>1, <1>2 DEF Shown, BoardRow
    <2>3. Persist(b, c, ReleasingWindow)
        BY <1>2 DEF HandleWindowGone
    <2> HIDE DEF c
    <2> QED
        BY <1>2, <2>1, <2>2, <2>3 DEF HandleWindowGone, PersistsCard, jobVars
<1>3. CASE HandleResumed(b) /\ Shown(b)
    <2> DEFINE c == [MovedTo(copy[b], "running") EXCEPT !.window = TRUE]
    <2>1. c \in BoardRow /\ c.worktree = copy[b].worktree /\ c.host = copy[b].host
          /\ c.status = "running"
        BY <1>1 DEF MovedTo, BoardRow, Status
    <2>2. Persist(b, c, Keep)
        BY <1>3 DEF HandleResumed
    <2> HIDE DEF c
    <2> QED
        BY <1>3, <2>1, <2>2 DEF HandleResumed, PersistsCard, jobVars, Status
<1>4. CASE ~Shown(b)
    BY <1>4 DEF HandleWindowGone, HandleResumed, jobVars
<1> QED
    BY <1>2, <1>3, <1>4

LEMMA FirstIndex ==
    ASSUME NEW n \in Nat, n >= 1
    PROVE  1 \in 1..n
OBVIOUS

LEMMA OneMore ==
    ASSUME NEW n \in Nat
    PROVE  /\ \A i \in 1..(n + 1) : i \in 1..n \/ i = n + 1
           /\ \A i \in 1..n : i \in 1..(n + 1) /\ i < n + 1
           /\ n + 1 \in 1..(n + 1)
OBVIOUS

LEMMA OneLess ==
    ASSUME NEW n \in Nat, NEW i \in 1..(n - 1)
    PROVE  i + 1 \in 1..n
OBVIOUS

LEMMA Behind ==
    ASSUME NEW n \in Nat, NEW i \in Nat, NEW j \in 1..n, i + 1 < j
    PROVE  1 < j /\ i < j - 1
OBVIOUS

LEMMA Sent ==
    ASSUME inbox \in [Board -> Seq(BoardMessage)], NEW b \in Board, NEW m \in BoardMessage,
           Send(b, m)
    PROVE  /\ inbox' \in [Board -> Seq(BoardMessage)]
           /\ \A c \in Board \ {b} : inbox'[c] = inbox[c]
           /\ Len(inbox'[b]) = Len(inbox[b]) + 1 /\ Len(inbox[b]) \in Nat
           /\ inbox'[b][Len(inbox[b]) + 1] = m
           /\ \A i \in 1..Len(inbox[b]) : inbox'[b][i] = inbox[b][i]
<1>1. inbox' = [inbox EXCEPT ![b] = Append(inbox[b], m)]
    BY DEF Send
<1>2. inbox[b] \in Seq(BoardMessage)
    OBVIOUS
<1>3. inbox'[b] = Append(inbox[b], m) /\ Append(inbox[b], m) \in Seq(BoardMessage)
    BY <1>1, <1>2
<1>4. inbox' \in [Board -> Seq(BoardMessage)] /\ \A c \in Board \ {b} : inbox'[c] = inbox[c]
    BY <1>1, <1>3
<1> QED
    BY <1>2, <1>3, <1>4

LEMMA Received ==
    ASSUME inbox \in [Board -> Seq(BoardMessage)], NEW b \in Board, NEW m, Receive(b, m)
    PROVE  /\ inbox' \in [Board -> Seq(BoardMessage)]
           /\ \A c \in Board \ {b} : inbox'[c] = inbox[c]
           /\ Len(inbox[b]) \in Nat /\ Len(inbox[b]) >= 1 /\ Len(inbox'[b]) = Len(inbox[b]) - 1
           /\ inbox[b][1] = m
           /\ \A i \in 1..Len(inbox'[b]) : inbox'[b][i] = inbox[b][i + 1]
<1>1. /\ inbox' = [inbox EXCEPT ![b] = Tail(inbox[b])]
      /\ inbox[b] # <<>> /\ Head(inbox[b]) = m
    BY DEF Receive
<1>2. inbox[b] \in Seq(BoardMessage)
    OBVIOUS
<1>3. inbox'[b] = Tail(inbox[b]) /\ Tail(inbox[b]) \in Seq(BoardMessage)
    BY <1>1, <1>2
<1>4. inbox' \in [Board -> Seq(BoardMessage)] /\ \A c \in Board \ {b} : inbox'[c] = inbox[c]
    BY <1>1, <1>3
<1> QED
    BY <1>1, <1>2, <1>3, <1>4

(* A handler that sends nothing leaves the inbox a suffix of itself, one   *)
(* that sends adds one message.                                            *)
LEMMA CardsStayTyped ==
    ASSUME boardSetting \in BoardSettings, BoardTypeOK, NEW b \in Board, PersistsCard(b)
    PROVE  /\ row' \in BoardRow /\ copy' \in [Board -> BoardRow]
           /\ row'.window => row'.agent # NoOne
           /\ row'.agent = row.agent /\ (row'.status = "deleted" <=> IsDeleted)
           /\ row.worktree => row'.worktree
           /\ copy'[b].worktree = copy[b].worktree /\ copy'[b].host = copy[b].host
           /\ copy'[b].status \in Status
           /\ \A o \in Board \ {b} : copy'[o] = copy[o]
<1>1. PICK c \in BoardRow, release \in {Keep, ReleasingWindow} :
          /\ c.worktree = copy[b].worktree /\ c.host = copy[b].host /\ c.status \in Status
          /\ Persist(b, c, release)
    BY DEF PersistsCard
<1>2. row' = Persisted(row, c, release) /\ copy' = [copy EXCEPT ![b] = c]
    BY <1>1 DEF Persist
<1>3. copy \in [Board -> BoardRow]
    BY DEF BoardTypeOK
<1> QED
    BY <1>1, <1>2, <1>3, RowsChanged

LEMMA DeletedIsARow ==
    ASSUME boardSetting \in BoardSettings
    PROVE  Deleted \in BoardRow /\ Deleted.window = FALSE
BY BoardSettings_ DEF Deleted, BoardRow, NoOne, Status

LEMMA TeardownsTyped ==
    ASSUME boardSetting \in BoardSettings, inWindow \in [Board -> 0..MaxBorn],
           cleanup \in [Board -> FollowUp \cup {"none"}],
           NEW b \in Board, NEW followUp \in FollowUp, TakeCleanup(b, followUp)
    PROVE  /\ inWindow' \in [Board -> 0..MaxBorn] /\ cleanup' \in [Board -> FollowUp \cup {"none"}]
           /\ \A o \in Board : inWindow'[o] \in {NoOne, inWindow[o]}
           /\ \A o \in Board : cleanup'[o] \in {followUp, cleanup[o]}
           /\ cleanup[b] = "none"
<1>1. NoOne \in 0..MaxBorn
    BY BoardSettings_ DEF NoOne
<1>2. PICK w \in {NoOne, inWindow[b]} : inWindow' = [inWindow EXCEPT ![b] = w]
    BY DEF TakeCleanup
<1>3. cleanup' = [cleanup EXCEPT ![b] = followUp]
    BY DEF TakeCleanup
<1> QED
    BY <1>1, <1>2, <1>3 DEF TakeCleanup

LEMMA BoardTypesStep ==
    ASSUME boardSetting \in BoardSettings, BoardTypeOK, RequestsHaveRoom, [BoardNext]_boardVars
    PROVE  BoardTypeOK' /\ RequestsHaveRoom'
<1>0. /\ Board' = Board /\ MaxBorn' = MaxBorn /\ BoardRow' = BoardRow
    BY BoardSteps, BoardSettingStays
<1>1. /\ NoMachine \notin Board /\ MaxBorn \in Nat /\ MaxBorn >= 1
    BY BoardSettings_
<1>2. /\ row \in BoardRow /\ copy \in [Board -> BoardRow] /\ request \in Board \cup {NoMachine}
      /\ inWindow \in [Board -> 0..MaxBorn] /\ disk \in [Board -> BOOLEAN]
      /\ check \in [Board -> BOOLEAN] /\ kill \in [Board -> BOOLEAN]
      /\ resume \in [Board -> {"none", "asked", "answered"}]
      /\ cleanup \in [Board -> FollowUp \cup {"none"}]
      /\ inbox \in [Board -> Seq(BoardMessage)]
      /\ row.window => row.agent # NoOne
    BY DEF BoardTypeOK
<1>3. born \in 0..MaxBorn /\ (request # NoMachine => born < MaxBorn)
    BY DEF RequestsHaveRoom
<1>4. NoOne \in 0..MaxBorn
    BY <1>1 DEF NoOne
<1>5. ASSUME NEW b \in Board, KeysThatPersist(b)
      PROVE  BoardTypeOK' /\ RequestsHaveRoom'
    <2>1. /\ kill' \in [Board -> BOOLEAN]
          /\ UNCHANGED <<resume, inbox, request, inWindow, disk, check, cleanup, born>>
        BY <1>5, KeysPersist DEF PersistsCard
    <2> QED
        BY <1>0, <1>2, <1>3, <1>5, <2>1, KeysPersist, CardsStayTyped DEF BoardTypeOK, RequestsHaveRoom
<1>6. ASSUME NEW b \in Board, HandleWindowGone(b) \/ HandleResumed(b)
      PROVE  BoardTypeOK' /\ RequestsHaveRoom'
    <2>1. /\ row' \in BoardRow /\ copy' \in [Board -> BoardRow]
          /\ row'.window => row'.agent # NoOne
          /\ UNCHANGED <<request, inWindow, disk, check, kill, cleanup, born>>
        BY <1>2, <1>6, MessagesPersist, CardsStayTyped DEF PersistsCard
    <2>2. inbox' \in [Board -> Seq(BoardMessage)]
        BY <1>2, <1>6, Received DEF HandleWindowGone, HandleResumed
    <2>3. resume' \in [Board -> {"none", "asked", "answered"}]
        BY <1>2, <1>6 DEF HandleWindowGone, HandleResumed, jobVars
    <2> QED
        BY <1>0, <1>2, <1>3, <2>1, <2>2, <2>3 DEF BoardTypeOK, RequestsHaveRoom
<1>7. ASSUME NEW b \in Board, AskResume(b) \/ RetryResume(b)
      PROVE  BoardTypeOK' /\ RequestsHaveRoom'
    <2>1. /\ UNCHANGED <<row, request, inWindow, disk, check, cleanup, inbox, born>>
          /\ resume' \in [Board -> {"none", "asked", "answered"}]
        BY <1>2, <1>7 DEF AskResume, RetryResume
    <2>2. kill' \in [Board -> BOOLEAN] /\ copy' \in [Board -> BoardRow]
        <3>1. CASE AskResume(b)
            BY <1>2, <3>1 DEF AskResume
        <3>2. CASE RetryResume(b)
            <4> DEFINE c == [copy[b] EXCEPT !.crashed = FALSE, !.window = FALSE]
            <4>1. c \in BoardRow
                BY <1>2 DEF BoardRow
            <4>2. copy' = [copy EXCEPT ![b] = c] /\ kill' = [kill EXCEPT ![b] = @ \/ copy[b].window]
                BY <1>2, <3>2 DEF RetryResume, Detach
            <4>3. copy[b].window \in BOOLEAN /\ kill[b] \in BOOLEAN
                BY <1>2 DEF BoardRow
            <4> QED
                BY <1>2, <4>1, <4>2, <4>3
        <3> QED
            BY <1>7, <3>1, <3>2
    <2> QED
        BY <1>0, <1>2, <1>3, <2>1, <2>2 DEF BoardTypeOK, RequestsHaveRoom
<1>8. ASSUME NEW b \in Board, RetryAfresh(b)
      PROVE  BoardTypeOK' /\ RequestsHaveRoom'
    <2> DEFINE c == [MovedTo(copy[b], "backlog") EXCEPT !.worktree = FALSE,
                         !.host = NoMachine, !.window = FALSE]
    <2>1. c \in BoardRow /\ c.window = FALSE
        BY <1>2 DEF MovedTo, BoardRow, Status
    <2>2. copy' = [copy EXCEPT ![b] = c] /\ row' = Persisted(row, c, ReleasingWorktree)
        BY <1>8 DEF RetryAfresh, Persist
    <2>3. row' \in BoardRow /\ (row'.window => row'.agent # NoOne)
        <3>1. CASE row' = row
            BY <3>1, <1>2
        <3>2. CASE row' = Written(row, c, ReleasingWorktree)
            <4>1. row' = [status |-> c.status, crashed |-> c.crashed, worktree |-> FALSE,
                          host |-> NoMachine, window |-> FALSE,
                          agent |-> IF row.worktree THEN NoOne ELSE row.agent]
                BY <1>2, <3>2 DEF Written, ReleasingWorktree, BoardRow
            <4> QED
                BY <4>1, <2>1, <1>2, <1>4 DEF BoardRow
        <3> QED
            BY <2>2, <3>1, <3>2 DEF Persisted
    <2>4. copy' \in [Board -> BoardRow]
        BY <2>1, <2>2, <1>2
    <2> HIDE DEF c
    <2>5. /\ inWindow' \in [Board -> 0..MaxBorn] /\ cleanup' \in [Board -> FollowUp \cup {"none"}]
        <3>1. "clear pointer" \in FollowUp
            BY DEF FollowUp
        <3> QED
            BY <1>2, <1>8, <3>1, TeardownsTyped DEF RetryAfresh
    <2>6. /\ request' \in Board \cup {NoMachine} /\ born < MaxBorn
          /\ UNCHANGED <<disk, check, kill, resume, inbox, born>>
        BY <1>2, <1>8 DEF RetryAfresh
    <2> QED
        BY <1>0, <1>2, <1>3, <2>3, <2>4, <2>5, <2>6 DEF BoardTypeOK, RequestsHaveRoom
<1>9. ASSUME NEW b \in Board, AskDispatch(b)
      PROVE  BoardTypeOK' /\ RequestsHaveRoom'
    BY <1>0, <1>2, <1>3, <1>9 DEF AskDispatch, jobVars, BoardTypeOK, RequestsHaveRoom
<1>10. ASSUME NEW b \in Board, Deletes(b)
       PROVE  BoardTypeOK' /\ RequestsHaveRoom'
    <2>1. row' \in {row, Deleted}
        BY <1>10 DEF Deletes, DeleteTask, HandleReleasedToDelete, DeletedRow
    <2>2. copy' \in [Board -> BoardRow]
        BY <1>2, <1>10, DeletedIsARow DEF Deletes, DeleteTask, HandleReleasedToDelete
    <2>3. /\ inWindow' \in [Board -> 0..MaxBorn] /\ cleanup' \in [Board -> FollowUp \cup {"none"}]
        <3>1. "delete row" \in FollowUp
            BY DEF FollowUp
        <3> QED
            BY <1>2, <1>10, <3>1, TeardownsTyped DEF Deletes, DeleteTask, HandleReleasedToDelete, jobVars
    <2>4. inbox' \in [Board -> Seq(BoardMessage)]
        BY <1>2, <1>10, Received DEF Deletes, DeleteTask, HandleReleasedToDelete
    <2>5. UNCHANGED <<request, disk, check, kill, resume, born>>
        BY <1>10 DEF Deletes, DeleteTask, HandleReleasedToDelete, jobVars
    <2> QED
        BY <1>0, <1>2, <1>3, <2>1, <2>2, <2>3, <2>4, <2>5, DeletedIsARow
        DEF BoardTypeOK, RequestsHaveRoom
<1>11. ASSUME NEW b \in Board, TickWindowCheck(b) \/ WindowChecked(b)
       PROVE  BoardTypeOK' /\ RequestsHaveRoom'
    <2>1. "window gone" \in BoardMessage
        BY DEF BoardMessage
    <2>2. inbox' \in [Board -> Seq(BoardMessage)]
        BY <1>2, <1>11, <2>1, Sent DEF TickWindowCheck, WindowChecked
    <2>3. check' \in [Board -> BOOLEAN]
        BY <1>2, <1>11 DEF TickWindowCheck, WindowChecked
    <2>4. UNCHANGED <<row, copy, request, inWindow, disk, kill, resume, cleanup, born>>
        BY <1>11 DEF TickWindowCheck, WindowChecked
    <2> QED
        BY <1>0, <1>2, <1>3, <2>2, <2>3, <2>4 DEF BoardTypeOK, RequestsHaveRoom
<1>12. ASSUME NEW b \in Board, WindowKilled(b) \/ SessionDies(b)
       PROVE  BoardTypeOK' /\ RequestsHaveRoom'
    <2>1. inWindow' \in [Board -> 0..MaxBorn] /\ kill' \in [Board -> BOOLEAN]
        BY <1>2, <1>4, <1>12 DEF WindowKilled, SessionDies, jobVars
    <2>2. UNCHANGED <<row, copy, request, disk, check, resume, cleanup, inbox, born>>
        BY <1>12 DEF WindowKilled, SessionDies, jobVars
    <2> QED
        BY <1>0, <1>2, <1>3, <2>1, <2>2 DEF BoardTypeOK, RequestsHaveRoom
<1>13. ASSUME NEW b \in Board, ResumeRuns(b)
       PROVE  BoardTypeOK' /\ RequestsHaveRoom'
    <2>1. "resumed" \in BoardMessage /\ "resume failed" \in BoardMessage
        BY DEF BoardMessage
    <2>2. inbox' \in [Board -> Seq(BoardMessage)]
        BY <1>2, <1>13, <2>1, Sent DEF ResumeRuns
    <2>3. row.agent \in 0..MaxBorn
        BY <1>2 DEF BoardRow
    <2>4. inWindow' \in [Board -> 0..MaxBorn] /\ resume' \in [Board -> {"none", "asked", "answered"}]
        BY <1>2, <1>13, <2>3 DEF ResumeRuns
    <2>5. UNCHANGED <<row, copy, request, disk, check, kill, cleanup, born>>
        BY <1>13 DEF ResumeRuns
    <2> QED
        BY <1>0, <1>2, <1>3, <2>2, <2>4, <2>5 DEF BoardTypeOK, RequestsHaveRoom
<1>14. ASSUME NEW b \in Board, CleanupEnds(b)
       PROVE  BoardTypeOK' /\ RequestsHaveRoom'
    <2>1. cleanup[b] \in BoardMessage /\ "cleanup failed" \in BoardMessage
        BY <1>2, <1>14 DEF CleanupEnds, BoardMessage
    <2>2. inbox' \in [Board -> Seq(BoardMessage)]
        BY <1>2, <1>14, <2>1, Sent DEF CleanupEnds
    <2>3. disk' \in [Board -> BOOLEAN] /\ cleanup' \in [Board -> FollowUp \cup {"none"}]
        BY <1>2, <1>14 DEF CleanupEnds, RemovesTheWorktree, LeavesTheWorktree
    <2>4. UNCHANGED <<row, copy, request, inWindow, check, kill, resume, born>>
        BY <1>14 DEF CleanupEnds
    <2> QED
        BY <1>0, <1>2, <1>3, <2>2, <2>3, <2>4 DEF BoardTypeOK, RequestsHaveRoom
<1>15. ASSUME NEW b \in Board, HandleResumeFailed(b)
       PROVE  BoardTypeOK' /\ RequestsHaveRoom'
    <2>1. inbox' \in [Board -> Seq(BoardMessage)]
        BY <1>2, <1>15, Received DEF HandleResumeFailed
    <2>2. resume' \in [Board -> {"none", "asked", "answered"}]
        BY <1>2, <1>15 DEF HandleResumeFailed
    <2> QED
        BY <1>0, <1>2, <1>3, <1>15, <2>1, <2>2 DEF HandleResumeFailed, BoardTypeOK, RequestsHaveRoom
<1>16. ASSUME NEW b \in Board, HandleReleased(b)
       PROVE  BoardTypeOK' /\ RequestsHaveRoom'
    <2>1. inbox' \in [Board -> Seq(BoardMessage)]
        BY <1>2, <1>16, Received DEF HandleReleased
    <2>2. copy' \in [Board -> BoardRow]
        BY <1>2, <1>16 DEF HandleReleased, BoardRow
    <2>3. row' \in BoardRow /\ (row'.window => row'.agent # NoOne)
        BY <1>2, <1>4, <1>16 DEF HandleReleased, PointerCleared, BoardRow
    <2> QED
        BY <1>0, <1>2, <1>3, <1>16, <2>1, <2>2, <2>3
        DEF HandleReleased, jobVars, BoardTypeOK, RequestsHaveRoom
<1>17. ASSUME NEW b \in Board, HandleCleanupFailed(b)
       PROVE  BoardTypeOK' /\ RequestsHaveRoom'
    <2>1. inbox' \in [Board -> Seq(BoardMessage)] /\ copy' \in [Board -> BoardRow]
        BY <1>2, <1>17, Received DEF HandleCleanupFailed
    <2> QED
        BY <1>0, <1>2, <1>3, <1>17, <2>1
        DEF HandleCleanupFailed, jobVars, BoardTypeOK, RequestsHaveRoom
<1>18. ASSUME NEW b \in Board, RefreshCopy(b)
       PROVE  BoardTypeOK' /\ RequestsHaveRoom'
    <2>1. copy' \in [Board -> BoardRow]
        BY <1>2, <1>18 DEF RefreshCopy
    <2> QED
        BY <1>0, <1>2, <1>3, <1>18, <2>1 DEF RefreshCopy, jobVars, BoardTypeOK, RequestsHaveRoom
<1>19. CASE Reopen \/ \E b \in Board : StopHook(b)
    <2>1. row' \in BoardRow /\ (row'.window => row'.agent # NoOne)
        BY <1>2, <1>19 DEF Reopen, StopHook, BoardRow, Status
    <2> QED
        BY <1>0, <1>2, <1>3, <1>19, <2>1 DEF Reopen, StopHook, jobVars, BoardTypeOK, RequestsHaveRoom
<1>20. CASE Launch
    <2>1. request \in Board /\ born + 1 \in 0..MaxBorn /\ born + 1 # NoOne
        BY <1>1, <1>2, <1>3, <1>20 DEF Launch, NoOne
    <2>2. request' = NoMachine /\ UNCHANGED <<copy, jobVars, inbox>>
        BY <1>20 DEF Launch
    <2>3. /\ disk' \in [Board -> BOOLEAN] /\ inWindow' \in [Board -> 0..MaxBorn]
          /\ born' \in 0..MaxBorn
        <3>1. CASE row.status = "backlog"
            <4>1. /\ disk' = [disk EXCEPT ![request] = TRUE] /\ born' = born + 1
                  /\ inWindow' = [inWindow EXCEPT ![request] = born + 1]
                BY <1>20, <3>1 DEF Launch
            <4> QED
                BY <1>2, <4>1, <2>1
        <3>2. CASE row.status # "backlog"
            BY <1>2, <1>3, <1>20, <3>2 DEF Launch
        <3> QED
            BY <3>1, <3>2
    <2>4. row' \in BoardRow /\ (row'.window => row'.agent # NoOne)
        <3>1. CASE row.status = "backlog"
            <4>1. row' = [status |-> "running", crashed |-> FALSE, worktree |-> TRUE,
                          host |-> request, window |-> TRUE, agent |-> born + 1]
                BY <1>20, <3>1 DEF Launch
            <4> QED
                BY <4>1, <2>1 DEF BoardRow, Status
        <3>2. CASE row.status # "backlog"
            BY <1>2, <1>20, <3>2 DEF Launch
        <3> QED
            BY <3>1, <3>2
    <2> QED
        BY <1>0, <1>2, <2>2, <2>3, <2>4 DEF jobVars, BoardTypeOK, RequestsHaveRoom
<1>21. CASE UNCHANGED workVars
    BY <1>0, <1>2, <1>3, <1>21 DEF workVars, jobVars, BoardTypeOK, RequestsHaveRoom
<1> QED
    BY <1>5, <1>6, <1>7, <1>8, <1>9, <1>10, <1>11, <1>12, <1>13, <1>14, <1>15, <1>16, <1>17, <1>18,
       <1>19, <1>20, <1>21, BoardSteps

(* A handler that clears no pointer of the copy clears none of the row.    *)
LEMMA KeptWindowsStay ==
    ASSUME BoardTypeOK, NEW b \in Board, NEW c \in BoardRow, c.status \in Status,
           Persist(b, c, Keep), row.window
    PROVE  row'.window
BY RowsChanged DEF Persist

LEMMA PointersReleasedOnPurpose ==
    ASSUME boardSetting \in BoardSettings, BoardTypeOK, [BoardNext]_boardVars
    PROVE  ReleasesPointersOnPurpose
<1>1. row \in BoardRow /\ copy \in [Board -> BoardRow]
    BY DEF BoardTypeOK
<1>2. ASSUME NEW b \in Board, KeysThatPersist(b)
      PROVE  ReleasesPointersOnPurpose
    <2>1. row.worktree => row'.worktree
        BY <1>2, KeysPersist, CardsStayTyped
    <2>2. CASE MoveForward(b)
        <3> DEFINE status == Next1[copy[b].status]
        <3>1. status \in Status
            BY <2>2 DEF MoveForward, Next1, Status
        <3>2. Persist(b, MovedTo(copy[b], status), Keep)
            BY <2>2 DEF MoveForward
        <3> HIDE DEF status
        <3>3. copy[b] \in BoardRow
            BY <1>1
        <3>4. MovedTo(copy[b], status) \in BoardRow /\ MovedTo(copy[b], status).status = status
            BY <3>1, <3>3, CardsMoved
        <3>5. row.window => row'.window
            BY <3>1, <3>2, <3>4, KeptWindowsStay
        <3> QED
            BY <2>1, <3>5 DEF ReleasesPointersOnPurpose
    <2>3. CASE Reorder(b)
        <3>1. copy[b] \in BoardRow /\ copy[b].status \in Status
            BY <1>1, <2>3 DEF Reorder, Shown, BoardRow
        <3>2. row.window => row'.window
            BY <2>3, <3>1, KeptWindowsStay DEF Reorder
        <3> QED
            BY <2>1, <3>2 DEF ReleasesPointersOnPurpose
    <2>4. CASE MoveBackward(b) \/ ConfirmDone(b)
        BY <2>1, <2>4 DEF ReleasesPointersOnPurpose
    <2> QED
        BY <1>2, <2>2, <2>3, <2>4 DEF KeysThatPersist
<1>3. ASSUME NEW b \in Board, HandleWindowGone(b) \/ HandleResumed(b)
      PROVE  ReleasesPointersOnPurpose
    <2>1. row.worktree => row'.worktree
        BY <1>3, MessagesPersist, CardsStayTyped
    <2>2. CASE HandleWindowGone(b)
        BY <2>1, <2>2 DEF ReleasesPointersOnPurpose
    <2>3. CASE HandleResumed(b)
        <3>1. CASE Shown(b)
            <4> DEFINE c == [MovedTo(copy[b], "running") EXCEPT !.window = TRUE]
            <4>1. c \in BoardRow /\ c.status \in Status
                BY <1>1 DEF MovedTo, BoardRow, Status
            <4>2. Persist(b, c, Keep)
                BY <2>3, <3>1 DEF HandleResumed
            <4> HIDE DEF c
            <4>3. row.window => row'.window
                BY <4>1, <4>2, KeptWindowsStay
            <4> QED
                BY <2>1, <4>3 DEF ReleasesPointersOnPurpose
        <3>2. CASE ~Shown(b)
            BY <2>3, <3>2 DEF HandleResumed, ReleasesPointersOnPurpose
        <3> QED
            BY <3>1, <3>2
    <2> QED
        BY <1>3, <2>2, <2>3
<1>4. ASSUME NEW b \in Board, RetryAfresh(b)
      PROVE  ReleasesPointersOnPurpose
    <2> DEFINE c == [MovedTo(copy[b], "backlog") EXCEPT !.worktree = FALSE,
                         !.host = NoMachine, !.window = FALSE]
    <2>1. row' = Persisted(row, c, ReleasingWorktree)
        BY <1>4 DEF RetryAfresh, Persist
    <2> HIDE DEF c
    <2>2. row' = row \/ row'.worktree = FALSE
        BY <2>1 DEF Persisted, Written, ReleasingWorktree
    <2> QED
        BY <1>4, <2>2 DEF ReleasesPointersOnPurpose
<1>5. ASSUME NEW b \in Board, Deletes(b)
      PROVE  ReleasesPointersOnPurpose
    <2>1. row' \in {row, Deleted} /\ Deleted.worktree = FALSE
        BY <1>5 DEF Deletes, DeleteTask, HandleReleasedToDelete, DeletedRow, Deleted
    <2> QED
        BY <1>5, <2>1 DEF Deletes, ReleasesPointersOnPurpose
<1>6. ASSUME NEW b \in Board, HandleReleased(b)
      PROVE  ReleasesPointersOnPurpose
    <2>1. row' = row \/ row'.worktree = FALSE
        BY <1>1, <1>6 DEF HandleReleased, PointerCleared, BoardRow
    <2> QED
        BY <1>6, <2>1 DEF ReleasesPointersOnPurpose
<1>7. CASE Launch
    <2>1. row' = row \/ (row'.worktree = TRUE /\ row'.window = TRUE)
        BY <1>7 DEF Launch
    <2> QED
        BY <2>1 DEF ReleasesPointersOnPurpose
<1>8. CASE Reopen \/ \E b \in Board : StopHook(b)
    <2>1. row'.worktree = row.worktree /\ row'.window = row.window
        BY <1>1, <1>8 DEF Reopen, StopHook, BoardRow
    <2> QED
        BY <2>1 DEF ReleasesPointersOnPurpose
<1>9. CASE row' = row
    BY <1>9 DEF ReleasesPointersOnPurpose
<1>10. ASSUME NEW b \in Board,
              \/ AskResume(b) \/ RetryResume(b) \/ AskDispatch(b)
              \/ TickWindowCheck(b) \/ WindowChecked(b) \/ WindowKilled(b) \/ SessionDies(b)
              \/ ResumeRuns(b) \/ CleanupEnds(b) \/ HandleResumeFailed(b)
              \/ HandleCleanupFailed(b) \/ RefreshCopy(b)
       PROVE  row' = row
    BY <1>10 DEF AskResume, RetryResume, AskDispatch, TickWindowCheck, WindowChecked, WindowKilled,
        SessionDies, ResumeRuns, CleanupEnds, HandleResumeFailed, HandleCleanupFailed, RefreshCopy
<1>11. CASE UNCHANGED workVars
    BY <1>9, <1>11 DEF workVars
<1> QED
    BY <1>2, <1>3, <1>4, <1>5, <1>6, <1>7, <1>8, <1>9, <1>10, <1>11, BoardSteps

(* What an inbox holds after a step, it held before it, or a job beside    *)
(* the loop has just sent it.                                              *)
LEMMA InboxChanges ==
    ASSUME BoardTypeOK, [BoardNext]_boardVars, NEW c \in Board,
           NEW i \in 1..Len(inbox'[c])
    PROVE  \/ \E j \in 1..Len(inbox[c]) : inbox[c][j] = inbox'[c][i]
           \/ inbox'[c][i] \in {"window gone", "resumed", "resume failed", "cleanup failed"}
           \/ inbox'[c][i] = cleanup[c] /\ CleanupEnds(c) /\ ~disk'[c]
<1>1. /\ inbox \in [Board -> Seq(BoardMessage)] /\ disk \in [Board -> BOOLEAN]
      /\ cleanup \in [Board -> FollowUp \cup {"none"}]
    BY DEF BoardTypeOK
<1>2. CASE inbox'[c] = inbox[c]
    BY <1>2
<1>3. ASSUME NEW b \in Board, NEW m, Receive(b, m)
      PROVE  \E j \in 1..Len(inbox[c]) : inbox[c][j] = inbox'[c][i]
    <2>1. CASE b = c
        <3>1. Len(inbox[c]) \in Nat /\ Len(inbox'[c]) = Len(inbox[c]) - 1
              /\ inbox'[c][i] = inbox[c][i + 1]
            BY <1>1, <1>3, <2>1, Received
        <3>2. i + 1 \in 1..Len(inbox[c])
            BY <3>1
        <3> QED
            BY <3>1, <3>2
    <2>2. CASE b # c
        <3>1. inbox'[c] = inbox[c]
            BY <1>1, <1>3, <2>2, Received
        <3> QED
            BY <3>1
    <2> QED
        BY <2>1, <2>2
<1>4. ASSUME NEW b \in Board, NEW m \in BoardMessage, Send(b, m)
      PROVE  \/ \E j \in 1..Len(inbox[c]) : inbox[c][j] = inbox'[c][i]
             \/ inbox'[c][i] = m /\ b = c
    <2>1. CASE b = c
        <3>1. /\ Len(inbox[c]) \in Nat /\ Len(inbox'[c]) = Len(inbox[c]) + 1
              /\ inbox'[c][Len(inbox[c]) + 1] = m
              /\ \A j \in 1..Len(inbox[c]) : inbox'[c][j] = inbox[c][j]
            BY <1>1, <1>4, <2>1, Sent
        <3>2. i \in 1..Len(inbox[c]) \/ i = Len(inbox[c]) + 1
            BY <3>1
        <3> QED
            BY <2>1, <3>1, <3>2
    <2>2. CASE b # c
        BY <1>1, <1>4, <2>2, Sent
    <2> QED
        BY <2>1, <2>2
<1>5. {"window gone", "resumed", "resume failed", "cleanup failed"} \subseteq BoardMessage
    BY DEF BoardMessage
<1>6. ASSUME NEW b \in Board, TickWindowCheck(b) \/ WindowChecked(b)
      PROVE  inbox'[c] = inbox[c] \/ Send(b, "window gone")
    BY <1>6 DEF TickWindowCheck, WindowChecked
<1>7. ASSUME NEW b \in Board, ResumeRuns(b)
      PROVE  Send(b, "resumed") \/ Send(b, "resume failed")
    BY <1>7 DEF ResumeRuns
<1>8. ASSUME NEW b \in Board, CleanupEnds(b)
      PROVE  \/ Send(b, "cleanup failed")
             \/ Send(b, cleanup[b]) /\ cleanup[b] \in BoardMessage /\ ~disk'[b]
    BY <1>1, <1>8 DEF CleanupEnds, RemovesTheWorktree, BoardMessage
<1>9. ASSUME NEW b \in Board,
             \/ HandleWindowGone(b) \/ HandleResumed(b) \/ HandleResumeFailed(b)
             \/ HandleReleased(b) \/ HandleReleasedToDelete(b) \/ HandleCleanupFailed(b)
      PROVE  \E m : Receive(b, m)
    BY <1>9 DEF HandleWindowGone, HandleResumed, HandleResumeFailed, HandleReleased,
        HandleReleasedToDelete, HandleCleanupFailed
<1>10. ASSUME NEW b \in Board,
              \/ KeysThatPersist(b) \/ AskResume(b) \/ RetryResume(b) \/ RetryAfresh(b)
              \/ AskDispatch(b) \/ DeleteTask(b) \/ WindowKilled(b) \/ SessionDies(b)
              \/ RefreshCopy(b) \/ StopHook(b)
       PROVE  inbox' = inbox
    BY <1>10 DEF KeysThatPersist, MoveForward, MoveBackward, ConfirmDone, Reorder, AskResume,
        RetryResume, RetryAfresh, AskDispatch, DeleteTask, WindowKilled, SessionDies, RefreshCopy,
        StopHook
<1>11. CASE Launch \/ Reopen \/ UNCHANGED workVars
    BY <1>11 DEF Launch, Reopen, workVars
<1>12. CASE \E b \in Board : CleanupEnds(b)
    <2>1. PICK b \in Board : CleanupEnds(b)
        BY <1>12
    <2> QED
        BY <1>4, <1>5, <1>8, <2>1
<1>13. CASE \E b \in Board : TickWindowCheck(b) \/ WindowChecked(b) \/ ResumeRuns(b)
    BY <1>2, <1>4, <1>5, <1>6, <1>7, <1>13
<1>14. CASE \E b \in Board :
              \/ HandleWindowGone(b) \/ HandleResumed(b) \/ HandleResumeFailed(b)
              \/ HandleReleased(b) \/ HandleReleasedToDelete(b) \/ HandleCleanupFailed(b)
    BY <1>3, <1>9, <1>14
<1>15. CASE \E b \in Board :
              \/ KeysThatPersist(b) \/ AskResume(b) \/ RetryResume(b) \/ RetryAfresh(b)
              \/ AskDispatch(b) \/ DeleteTask(b) \/ WindowKilled(b) \/ SessionDies(b)
              \/ RefreshCopy(b) \/ StopHook(b)
    BY <1>2, <1>10, <1>15
<1> QED
    BY <1>11, <1>12, <1>13, <1>14, <1>15, BoardSteps DEF Deletes

LEMMA TeardownsChange ==
    ASSUME boardSetting \in BoardSettings, BoardTypeOK, [BoardNext]_boardVars, NEW c \in Board
    PROVE  \/ cleanup'[c] \in {"none", cleanup[c]}
           \/ \E b \in Board : RetryAfresh(b)
           \/ cleanup'[c] = "delete row" /\ \E b \in Board : DeleteTask(b)
<1>1. /\ cleanup \in [Board -> FollowUp \cup {"none"}] /\ inWindow \in [Board -> 0..MaxBorn]
    BY DEF BoardTypeOK
<1>2. ASSUME NEW b \in Board, DeleteTask(b)
      PROVE  cleanup'[c] \in {"delete row", cleanup[c]}
    <2>1. "delete row" \in FollowUp
        BY DEF FollowUp
    <2>2. TakeCleanup(b, "delete row") \/ UNCHANGED cleanup
        BY <1>2 DEF DeleteTask
    <2> QED
        BY <1>1, <2>1, <2>2, TeardownsTyped
<1>3. ASSUME NEW b \in Board, CleanupEnds(b)
      PROVE  cleanup'[c] \in {"none", cleanup[c]}
    BY <1>1, <1>3 DEF CleanupEnds
<1>4. ASSUME NEW b \in Board,
             \/ KeysThatPersist(b) \/ AskResume(b) \/ RetryResume(b) \/ AskDispatch(b)
             \/ TickWindowCheck(b) \/ WindowChecked(b) \/ WindowKilled(b) \/ SessionDies(b)
             \/ ResumeRuns(b) \/ RefreshCopy(b) \/ StopHook(b)
      PROVE  cleanup' = cleanup
    BY <1>4 DEF KeysThatPersist, MoveForward, MoveBackward, ConfirmDone, Reorder, AskResume,
        RetryResume, AskDispatch, TickWindowCheck, WindowChecked, WindowKilled, SessionDies,
        ResumeRuns, RefreshCopy, StopHook, jobVars
<1>5. ASSUME NEW b \in Board,
             \/ HandleWindowGone(b) \/ HandleResumed(b) \/ HandleResumeFailed(b)
             \/ HandleReleased(b) \/ HandleReleasedToDelete(b) \/ HandleCleanupFailed(b)
      PROVE  cleanup' = cleanup
    BY <1>5 DEF HandleWindowGone, HandleResumed, HandleResumeFailed, HandleReleased,
        HandleReleasedToDelete, HandleCleanupFailed, jobVars
<1>6. CASE Launch \/ Reopen \/ UNCHANGED workVars
    BY <1>6 DEF Launch, Reopen, workVars, jobVars
<1> QED
    BY <1>2, <1>3, <1>4, <1>5, <1>6, BoardSteps DEF Deletes

LEMMA CopiesChange ==
    ASSUME boardSetting \in BoardSettings, BoardTypeOK, [BoardNext]_boardVars, NEW c \in Board
    PROVE  \/ /\ copy'[c].worktree = copy[c].worktree /\ copy'[c].host = copy[c].host
              /\ copy'[c].status # "deleted" <=> Shown(c)
           \/ copy'[c] = row /\ row' = row
           \/ copy'[c] = Deleted
           \/ \E b \in Board : RetryAfresh(b) \/ HandleReleased(b)
<1>1. copy \in [Board -> BoardRow] /\ row \in BoardRow
    BY DEF BoardTypeOK
<1>2. CASE copy'[c] = copy[c]
    BY <1>2 DEF Shown
<1>3. ASSUME NEW b \in Board, PersistsCard(b), copy[b].status # "deleted"
      PROVE  /\ copy'[c].worktree = copy[c].worktree /\ copy'[c].host = copy[c].host
             /\ copy'[c].status # "deleted" <=> Shown(c)
    <2>1. CASE b = c
        BY <1>3, <2>1, CardsStayTyped DEF Shown, Status
    <2>2. CASE b # c
        <3>1. copy'[c] = copy[c]
            BY <1>3, <2>2, CardsStayTyped
        <3> QED
            BY <3>1 DEF Shown
    <2> QED
        BY <2>1, <2>2
<1>4. ASSUME NEW b \in Board, KeysThatPersist(b)
      PROVE  PersistsCard(b) /\ copy[b].status # "deleted"
    <2>1. copy[b].status # "deleted"
        BY <1>4 DEF KeysThatPersist, MoveForward, MoveBackward, ConfirmDone, Reorder, Shown, Prev1,
            Status
    <2> QED
        BY <1>4, <2>1, KeysPersist
<1>5. ASSUME NEW b \in Board, HandleWindowGone(b) \/ HandleResumed(b)
      PROVE  copy' = copy \/ (PersistsCard(b) /\ copy[b].status # "deleted")
    <2>1. CASE Shown(b)
        BY <1>5, <2>1, MessagesPersist DEF Shown
    <2>2. CASE ~Shown(b)
        BY <1>5, <2>2 DEF HandleWindowGone, HandleResumed
    <2> QED
        BY <2>1, <2>2
<1>6. ASSUME NEW b \in Board, RetryResume(b)
      PROVE  /\ copy'[c].worktree = copy[c].worktree /\ copy'[c].host = copy[c].host
             /\ copy'[c].status # "deleted" <=> Shown(c)
    <2> DEFINE d == [copy[b] EXCEPT !.crashed = FALSE, !.window = FALSE]
    <2>1. d.worktree = copy[b].worktree /\ d.host = copy[b].host /\ d.status = copy[b].status
        BY <1>1 DEF BoardRow
    <2>2. copy' = [copy EXCEPT ![b] = d]
        BY <1>1, <1>6 DEF RetryResume
    <2> HIDE DEF d
    <2> QED
        BY <1>1, <2>1, <2>2 DEF Shown
<1>7. ASSUME NEW b \in Board, DeleteTask(b)
      PROVE  copy'[c] = copy[c] \/ (copy'[c] = row /\ row' = row) \/ copy'[c] = Deleted
    BY <1>1, <1>7 DEF DeleteTask
<1>8. ASSUME NEW b \in Board, HandleReleasedToDelete(b)
      PROVE  copy'[c] = copy[c] \/ (copy'[c] = row /\ row' = row)
    BY <1>1, <1>8 DEF HandleReleasedToDelete, PassesDeleteGuard, DeletedRow
<1>9. ASSUME NEW b \in Board, HandleCleanupFailed(b) \/ RefreshCopy(b)
      PROVE  copy'[c] = copy[c] \/ (copy'[c] = row /\ row' = row)
    BY <1>1, <1>9 DEF HandleCleanupFailed, RefreshCopy
<1>10. ASSUME NEW b \in Board,
             \/ AskResume(b) \/ AskDispatch(b)
             \/ TickWindowCheck(b) \/ WindowChecked(b) \/ WindowKilled(b) \/ SessionDies(b)
             \/ ResumeRuns(b) \/ CleanupEnds(b) \/ HandleResumeFailed(b) \/ StopHook(b)
      PROVE  copy' = copy
    BY <1>10 DEF AskResume, AskDispatch, TickWindowCheck, WindowChecked, WindowKilled, SessionDies,
        ResumeRuns, CleanupEnds, HandleResumeFailed, StopHook
<1>11. CASE Launch \/ Reopen \/ UNCHANGED workVars
    BY <1>2, <1>11 DEF Launch, Reopen, workVars
<1>12. CASE \E b \in Board : KeysThatPersist(b) \/ HandleWindowGone(b) \/ HandleResumed(b)
    BY <1>2, <1>3, <1>4, <1>5, <1>12
<1>13. CASE \E b \in Board : Deletes(b) \/ HandleCleanupFailed(b) \/ RefreshCopy(b)
    BY <1>2, <1>7, <1>8, <1>9, <1>13 DEF Deletes
<1>14. CASE \E b \in Board : RetryResume(b)
    BY <1>6, <1>14
<1>15. CASE \E b \in Board :
             \/ AskResume(b) \/ AskDispatch(b)
             \/ TickWindowCheck(b) \/ WindowChecked(b) \/ WindowKilled(b) \/ SessionDies(b)
             \/ ResumeRuns(b) \/ CleanupEnds(b) \/ HandleResumeFailed(b) \/ StopHook(b)
    BY <1>2, <1>10, <1>15
<1> QED
    BY <1>11, <1>12, <1>13, <1>14, <1>15, BoardSteps

(* What a step does to the row, where no copy clears its worktree.         *)
LEMMA RowsChange ==
    ASSUME boardSetting \in BoardSettings, BoardTypeOK, [BoardNext]_boardVars
    PROVE  \/ \E b \in Board : PersistsCard(b)
           \/ /\ row'.worktree = row.worktree /\ row'.host = row.host /\ row'.agent = row.agent
              /\ row'.status = "deleted" <=> IsDeleted
           \/ row' = Deleted /\ \E b \in Board : Deletes(b)
           \/ Launch /\ row.status = "backlog"
           \/ \E b \in Board : RetryAfresh(b) \/ HandleReleased(b)
<1>1. row \in BoardRow
    BY DEF BoardTypeOK
<1>2. CASE row' = row
    BY <1>2 DEF IsDeleted
<1>3. ASSUME NEW b \in Board, KeysThatPersist(b) \/ HandleWindowGone(b) \/ HandleResumed(b)
      PROVE  PersistsCard(b) \/ row' = row
    BY <1>3, KeysPersist, MessagesPersist
<1>4. ASSUME NEW b \in Board, Deletes(b)
      PROVE  row' \in {row, Deleted}
    BY <1>4 DEF Deletes, DeleteTask, HandleReleasedToDelete, DeletedRow
<1>5. CASE Reopen \/ \E b \in Board : StopHook(b)
    <2>1. /\ row'.worktree = row.worktree /\ row'.host = row.host /\ row'.agent = row.agent
          /\ row'.status # "deleted" /\ row.status # "deleted"
        BY <1>1, <1>5 DEF Reopen, StopHook, BoardRow
    <2> QED
        BY <2>1 DEF IsDeleted
<1>6. CASE Launch
    BY <1>2, <1>6 DEF Launch
<1>7. ASSUME NEW b \in Board,
              \/ AskResume(b) \/ RetryResume(b) \/ AskDispatch(b)
              \/ TickWindowCheck(b) \/ WindowChecked(b) \/ WindowKilled(b) \/ SessionDies(b)
              \/ ResumeRuns(b) \/ CleanupEnds(b) \/ HandleResumeFailed(b)
              \/ HandleCleanupFailed(b) \/ RefreshCopy(b)
       PROVE  row' = row
    BY <1>7 DEF AskResume, RetryResume, AskDispatch, TickWindowCheck, WindowChecked, WindowKilled,
        SessionDies, ResumeRuns, CleanupEnds, HandleResumeFailed, HandleCleanupFailed, RefreshCopy
<1>8. CASE UNCHANGED workVars
    BY <1>2, <1>8 DEF workVars
<1>9. CASE \E b \in Board : KeysThatPersist(b) \/ HandleWindowGone(b) \/ HandleResumed(b)
    BY <1>2, <1>3, <1>9
<1>10. CASE \E b \in Board : Deletes(b)
    BY <1>2, <1>4, <1>10
<1>11. CASE \E b \in Board :
              \/ AskResume(b) \/ RetryResume(b) \/ AskDispatch(b)
              \/ TickWindowCheck(b) \/ WindowChecked(b) \/ WindowKilled(b) \/ SessionDies(b)
              \/ ResumeRuns(b) \/ CleanupEnds(b) \/ HandleResumeFailed(b)
              \/ HandleCleanupFailed(b) \/ RefreshCopy(b)
    BY <1>2, <1>7, <1>11
<1> QED
    BY <1>5, <1>6, <1>8, <1>9, <1>10, <1>11, BoardSteps

(* What a step does to the sessions.                                       *)
LEMMA SessionsChange ==
    ASSUME boardSetting \in BoardSettings, BoardTypeOK, [BoardNext]_boardVars, NEW c \in Board
    PROVE  \/ inWindow'[c] \in {NoOne, inWindow[c]}
           \/ /\ inWindow'[c] = row.agent /\ row.agent # NoOne /\ row' = row
              /\ resume[c] = "asked"
           \/ Launch /\ row.status = "backlog"
<1>1. /\ inWindow \in [Board -> 0..MaxBorn] /\ cleanup \in [Board -> FollowUp \cup {"none"}]
    BY DEF BoardTypeOK
<1>2. CASE inWindow' = inWindow
    BY <1>2
<1>3. ASSUME NEW b \in Board, NEW f \in FollowUp, TakeCleanup(b, f)
      PROVE  inWindow'[c] \in {NoOne, inWindow[c]}
    BY <1>1, <1>3, TeardownsTyped
<1>4. {"clear pointer", "delete row"} \subseteq FollowUp
    BY DEF FollowUp
<1>5. ASSUME NEW b \in Board, RetryAfresh(b) \/ Deletes(b)
      PROVE  inWindow' = inWindow \/ \E f \in FollowUp : TakeCleanup(b, f)
    BY <1>4, <1>5 DEF RetryAfresh, Deletes, DeleteTask, HandleReleasedToDelete
<1>6. ASSUME NEW b \in Board, WindowKilled(b) \/ SessionDies(b)
      PROVE  inWindow'[c] \in {NoOne, inWindow[c]}
    BY <1>1, <1>6 DEF WindowKilled, SessionDies
<1>7. ASSUME NEW b \in Board, ResumeRuns(b)
      PROVE  \/ inWindow'[c] = inWindow[c]
             \/ /\ inWindow'[c] = row.agent /\ row.agent # NoOne /\ row' = row
                /\ resume[c] = "asked"
    BY <1>1, <1>7 DEF ResumeRuns
<1>8. ASSUME NEW b \in Board,
             \/ KeysThatPersist(b) \/ HandleWindowGone(b) \/ HandleResumed(b)
             \/ AskResume(b) \/ RetryResume(b) \/ AskDispatch(b)
             \/ TickWindowCheck(b) \/ WindowChecked(b)
             \/ CleanupEnds(b) \/ HandleResumeFailed(b) \/ HandleReleased(b)
             \/ HandleCleanupFailed(b) \/ RefreshCopy(b) \/ StopHook(b)
      PROVE  inWindow' = inWindow
    BY <1>8 DEF KeysThatPersist, MoveForward, MoveBackward, ConfirmDone, Reorder,
        HandleWindowGone, HandleResumed, AskResume, RetryResume, AskDispatch, TickWindowCheck,
        WindowChecked, CleanupEnds, HandleResumeFailed, HandleReleased, HandleCleanupFailed,
        RefreshCopy, StopHook
<1>9. CASE Launch \/ Reopen \/ UNCHANGED workVars
    BY <1>2, <1>9 DEF Launch, Reopen, workVars
<1>10. CASE \E b \in Board : RetryAfresh(b) \/ Deletes(b)
    BY <1>2, <1>3, <1>5, <1>10
<1>11. CASE \E b \in Board : WindowKilled(b) \/ SessionDies(b) \/ ResumeRuns(b)
    BY <1>6, <1>7, <1>11
<1> QED
    BY <1>2, <1>8, <1>9, <1>10, <1>11, BoardSteps

(* A resume is asked for by the board of a copy with a worktree of its own. *)
LEMMA ResumesChange ==
    ASSUME BoardTypeOK, [BoardNext]_boardVars, NEW c \in Board
    PROVE  \/ resume'[c] \in {"none", resume[c]}
           \/ resume[c] # "none"
           \/ copy[c].worktree /\ LocallyOwned(c) /\ row' = row
<1>1. resume \in [Board -> {"none", "asked", "answered"}]
    BY DEF BoardTypeOK
<1>2. ASSUME NEW b \in Board, AskResume(b) \/ RetryResume(b)
      PROVE  \/ resume'[c] = resume[c] \/ resume[c] # "none"
             \/ copy[c].worktree /\ LocallyOwned(c) /\ row' = row
    BY <1>1, <1>2 DEF AskResume, RetryResume
<1>3. ASSUME NEW b \in Board, ResumeRuns(b) \/ HandleResumed(b) \/ HandleResumeFailed(b)
      PROVE  resume'[c] \in {"none", resume[c]} \/ resume[c] # "none"
    BY <1>1, <1>3 DEF ResumeRuns, HandleResumed, HandleResumeFailed
<1>4. ASSUME NEW b \in Board,
             \/ KeysThatPersist(b) \/ HandleWindowGone(b)
             \/ RetryAfresh(b) \/ AskDispatch(b) \/ Deletes(b)
             \/ TickWindowCheck(b) \/ WindowChecked(b) \/ WindowKilled(b) \/ SessionDies(b)
             \/ CleanupEnds(b) \/ HandleReleased(b)
             \/ HandleCleanupFailed(b) \/ RefreshCopy(b) \/ StopHook(b)
      PROVE  resume' = resume
    BY <1>4 DEF KeysThatPersist, MoveForward, MoveBackward, ConfirmDone, Reorder,
        HandleWindowGone, RetryAfresh, AskDispatch, Deletes, DeleteTask, HandleReleasedToDelete,
        TickWindowCheck, WindowChecked, WindowKilled, SessionDies, CleanupEnds, HandleReleased,
        HandleCleanupFailed, RefreshCopy, StopHook, jobVars
<1>5. CASE Launch \/ Reopen \/ UNCHANGED workVars
    BY <1>5 DEF Launch, Reopen, workVars, jobVars
<1> QED
    BY <1>2, <1>3, <1>4, <1>5, BoardSteps

(* Only the launch takes a request back, and a request is for a task that  *)
(* has no machine, or this one.                                            *)
LEMMA RequestsChange ==
    ASSUME boardSetting \in BoardSettings, BoardTypeOK, [BoardNext]_boardVars
    PROVE  \/ request' \in {NoMachine, request}
           \/ \E b \in Board : RetryAfresh(b)
           \/ "dispatch" \in Keys /\ row' = row /\ row.host \in {NoMachine, request'}
<1>1. ASSUME NEW b \in Board, AskDispatch(b)
      PROVE  "dispatch" \in Keys /\ row' = row /\ row.host \in {NoMachine, request'}
    BY <1>1 DEF AskDispatch, Requestable
<1>2. ASSUME NEW b \in Board,
             \/ KeysThatPersist(b) \/ HandleWindowGone(b) \/ HandleResumed(b)
             \/ AskResume(b) \/ RetryResume(b) \/ Deletes(b)
             \/ TickWindowCheck(b) \/ WindowChecked(b) \/ WindowKilled(b) \/ SessionDies(b)
             \/ ResumeRuns(b) \/ CleanupEnds(b) \/ HandleResumeFailed(b) \/ HandleReleased(b)
             \/ HandleCleanupFailed(b) \/ RefreshCopy(b) \/ StopHook(b)
      PROVE  request' = request
    BY <1>2 DEF KeysThatPersist, MoveForward, MoveBackward, ConfirmDone, Reorder,
        HandleWindowGone, HandleResumed, AskResume, RetryResume, Deletes, DeleteTask,
        HandleReleasedToDelete, TickWindowCheck, WindowChecked, WindowKilled, SessionDies,
        ResumeRuns, CleanupEnds, HandleResumeFailed, HandleReleased, HandleCleanupFailed,
        RefreshCopy, StopHook
<1>3. CASE Launch \/ Reopen \/ UNCHANGED workVars
    BY <1>3 DEF Launch, Reopen, workVars
<1> QED
    BY <1>1, <1>2, <1>3, BoardSteps

(* A copy that agrees with the row on the machine leaves the row where it  *)
(* is, whatever it writes over it.                                         *)
LEMMA CardsKeepThePlace ==
    ASSUME boardSetting \in BoardSettings, BoardTypeOK, NEW b \in Board, PersistsCard(b),
           Placed(row), Placed(copy[b]),
           copy[b].host # NoMachine => IsDeleted \/ row.host = copy[b].host
    PROVE  row'.worktree = row.worktree /\ row'.host = row.host
<1>1. PICK c \in BoardRow, release \in {Keep, ReleasingWindow} :
          /\ c.worktree = copy[b].worktree /\ c.host = copy[b].host /\ c.status \in Status
          /\ Persist(b, c, release)
    BY DEF PersistsCard
<1>2. row' = Persisted(row, c, release) /\ release.worktree = FALSE /\ row \in BoardRow
    BY <1>1 DEF Persist, Keep, ReleasingWindow, BoardTypeOK
<1>3. CASE ~Accepts(row, c, release)
    BY <1>2, <1>3 DEF Persisted
<1>4. CASE Accepts(row, c, release)
    <2>1. ~IsDeleted
        BY <1>4 DEF Accepts, Patchable, IsDeleted
    <2>2. row' = Written(row, c, release)
        BY <1>2, <1>4 DEF Persisted
    <2>3. /\ row'.worktree = (c.worktree \/ row.worktree)
          /\ row'.host = IF c.host # NoMachine THEN c.host ELSE row.host
        BY <1>2, <2>2 DEF Written
    <2>4. c.worktree => row.worktree
        BY <1>1, <2>1 DEF Placed
    <2>5. row'.host = row.host
        BY <1>1, <2>1, <2>3
    <2>6. row.worktree \in BOOLEAN /\ c.worktree \in BOOLEAN
        BY <1>2 DEF BoardRow
    <2> QED
        BY <2>3, <2>4, <2>5, <2>6
<1> QED
    BY <1>3, <1>4

LEMMA EveryoneKnowsThePlaceStep ==
    ASSUME boardSetting \in BoardSettings, BoardTypeOK, RequestsHaveRoom,
           EveryoneKnowsThePlace, [BoardNext]_boardVars
    PROVE  EveryoneKnowsThePlace'
<1> SUFFICES ASSUME "retry fresh" \notin Keys, UNCHANGED boardSetting
             PROVE  /\ \A b \in Board :
                           /\ cleanup'[b] # "clear pointer"
                           /\ \A i \in 1..Len(inbox'[b]) : inbox'[b][i] # "clear pointer"
                    /\ Placed(row')
                    /\ request' # NoMachine => row'.host \in {NoMachine, request'}
                    /\ \A b \in Board :
                           /\ Placed(copy'[b])
                           /\ copy'[b].host # NoMachine => IsDeleted' \/ row'.host = copy'[b].host
                           /\ resume'[b] # "none" => IsDeleted' \/ row'.host = b
                           /\ inWindow'[b] # NoOne =>
                                  IsDeleted' \/ (row'.agent = inWindow'[b] /\ row'.host = b)
    BY BoardSteps, BoardSettingStays DEF EveryoneKnowsThePlace, NobodyClears, Placed
<1>1. /\ NobodyClears
      /\ Placed(row)
      /\ request # NoMachine => row.host \in {NoMachine, request}
      /\ \A b \in Board :
             /\ Placed(copy[b])
             /\ copy[b].host # NoMachine => IsDeleted \/ row.host = copy[b].host
             /\ resume[b] # "none" => IsDeleted \/ row.host = b
             /\ inWindow[b] # NoOne => IsDeleted \/ (row.agent = inWindow[b] /\ row.host = b)
    BY DEF EveryoneKnowsThePlace
<1>2. NoMachine \notin Board /\ row \in BoardRow
    BY BoardSettings_ DEF BoardTypeOK
<1>3. ASSUME NEW b \in Board
      PROVE  ~RetryAfresh(b) /\ ~HandleReleased(b)
    <2>1. ~RetryAfresh(b)
        BY DEF RetryAfresh
    <2>2. ~HandleReleased(b)
        <3>1. SUFFICES ASSUME Receive(b, "clear pointer")
                       PROVE  FALSE
            BY DEF HandleReleased
        <3>2. /\ Len(inbox[b]) \in Nat /\ Len(inbox[b]) >= 1 /\ inbox[b][1] = "clear pointer"
            BY <3>1, Received DEF BoardTypeOK
        <3>3. 1 \in 1..Len(inbox[b])
            BY <3>2, FirstIndex
        <3> QED
            BY <3>2, <3>3, <1>1 DEF NobodyClears
    <2> QED
        BY <2>1, <2>2
<1>4. ASSUME NEW b \in Board
      PROVE  /\ cleanup'[b] # "clear pointer"
             /\ \A i \in 1..Len(inbox'[b]) : inbox'[b][i] # "clear pointer"
    BY <1>1, <1>3, TeardownsChange, InboxChanges DEF NobodyClears
<1>5. Deleted.worktree = FALSE /\ Deleted.host = NoMachine /\ Deleted.status = "deleted"
    BY DEF Deleted
<1>6. \/ /\ row'.worktree = row.worktree /\ row'.host = row.host /\ row'.agent = row.agent
         /\ row'.status = "deleted" <=> IsDeleted
      \/ row' = Deleted
      \/ Launch /\ row.status = "backlog"
    <2>1. ASSUME NEW b \in Board, PersistsCard(b)
          PROVE  /\ row'.worktree = row.worktree /\ row'.host = row.host /\ row'.agent = row.agent
                 /\ row'.status = "deleted" <=> IsDeleted
        BY <1>1, <2>1, CardsKeepThePlace, CardsStayTyped
    <2> QED
        BY <2>1, <1>3, RowsChange
<1>7. ASSUME NEW b \in Board
      PROVE  \/ copy'[b].worktree = copy[b].worktree /\ copy'[b].host = copy[b].host
             \/ copy'[b] = row /\ row' = row
             \/ copy'[b] = Deleted
    BY <1>3, CopiesChange
<1>8. CASE row' = Deleted
    <2>1. IsDeleted' /\ Placed(row') /\ row'.host = NoMachine
        BY <1>5, <1>8 DEF IsDeleted, Placed
    <2>2. ASSUME NEW b \in Board
          PROVE  Placed(copy'[b])
        BY <1>1, <1>5, <1>7 DEF Placed
    <2> QED
        BY <1>4, <2>1, <2>2
<1>9. CASE Launch /\ row.status = "backlog"
    <2>1. /\ request \in Board /\ UNCHANGED <<copy, resume>> /\ request' = NoMachine
          /\ inWindow' = [inWindow EXCEPT ![request] = born'] /\ born' = born + 1
          /\ row' = [status |-> "running", crashed |-> FALSE, worktree |-> TRUE,
                     host |-> request, window |-> TRUE, agent |-> born']
        BY <1>9 DEF Launch, jobVars, BoardTypeOK
    <2>2. row'.worktree = TRUE /\ row'.host = request /\ row'.agent = born'
        BY <2>1
    <2>3. ~IsDeleted /\ row.host \in {NoMachine, request}
        BY <1>1, <1>2, <1>9, <2>1 DEF IsDeleted
    <2>4. Placed(row')
        BY <1>2, <2>1, <2>2 DEF Placed
    <2>5. ASSUME NEW b \in Board
          PROVE  /\ Placed(copy'[b])
                 /\ copy'[b].host # NoMachine => IsDeleted' \/ row'.host = copy'[b].host
                 /\ resume'[b] # "none" => IsDeleted' \/ row'.host = b
                 /\ inWindow'[b] # NoOne =>
                        IsDeleted' \/ (row'.agent = inWindow'[b] /\ row'.host = b)
        <3>1. inWindow \in [Board -> 0..MaxBorn]
            BY DEF BoardTypeOK
        <3>2. CASE b = request
            BY <1>1, <2>1, <2>2, <2>3, <3>1, <3>2
        <3>3. CASE b # request
            <4>1. inWindow'[b] = inWindow[b]
                BY <2>1, <3>1, <3>3
            <4> QED
                BY <1>1, <1>2, <2>1, <2>2, <2>3, <3>3, <4>1
        <3> QED
            BY <3>2, <3>3
    <2> QED
        BY <1>4, <2>1, <2>4, <2>5
<1>10. CASE /\ row'.worktree = row.worktree /\ row'.host = row.host /\ row'.agent = row.agent
            /\ row'.status = "deleted" <=> IsDeleted
            /\ ~(Launch /\ row.status = "backlog") /\ row' # Deleted
    <2>1. Placed(row') /\ (IsDeleted' <=> IsDeleted)
        BY <1>1, <1>10 DEF Placed, IsDeleted
    <2>2. request' # NoMachine => row'.host \in {NoMachine, request'}
        BY <1>1, <1>3, <1>10, RequestsChange
    <2>3. ASSUME NEW b \in Board
          PROVE  /\ Placed(copy'[b])
                 /\ copy'[b].host # NoMachine => IsDeleted' \/ row'.host = copy'[b].host
        BY <1>1, <1>5, <1>7, <1>10, <2>1 DEF Placed
    <2>4. ASSUME NEW b \in Board, resume'[b] # "none"
          PROVE  IsDeleted' \/ row'.host = b
        <3>1. CASE resume[b] # "none"
            BY <1>1, <1>10, <2>1, <3>1
        <3>2. CASE copy[b].worktree /\ LocallyOwned(b) /\ row' = row
            BY <1>1, <1>2, <2>1, <3>2 DEF LocallyOwned, Placed
        <3> QED
            BY <2>4, <3>1, <3>2, ResumesChange
    <2>5. ASSUME NEW b \in Board, inWindow'[b] # NoOne
          PROVE  IsDeleted' \/ (row'.agent = inWindow'[b] /\ row'.host = b)
        <3>1. CASE inWindow'[b] = inWindow[b]
            BY <1>1, <1>10, <2>1, <2>5, <3>1
        <3>2. CASE inWindow'[b] = row.agent /\ resume[b] = "asked"
            BY <1>1, <1>10, <2>1, <3>2
        <3> QED
            BY <1>10, <2>5, <3>1, <3>2, SessionsChange
    <2> QED
        BY <1>4, <2>1, <2>2, <2>3, <2>4, <2>5
<1> QED
    BY <1>6, <1>8, <1>9, <1>10

LEMMA DisksChange ==
    ASSUME BoardTypeOK, [BoardNext]_boardVars, NEW c \in Board, disk'[c]
    PROVE  disk[c] \/ (Launch /\ request # NoMachine)
<1>1. disk \in [Board -> BOOLEAN]
    BY DEF BoardTypeOK
<1>2. ASSUME NEW b \in Board, CleanupEnds(b)
      PROVE  disk[c]
    BY <1>1, <1>2 DEF CleanupEnds, RemovesTheWorktree, LeavesTheWorktree
<1>3. ASSUME NEW b \in Board,
             \/ KeysThatPersist(b) \/ HandleWindowGone(b) \/ HandleResumed(b)
             \/ AskResume(b) \/ RetryResume(b) \/ RetryAfresh(b) \/ AskDispatch(b) \/ Deletes(b)
             \/ TickWindowCheck(b) \/ WindowChecked(b) \/ WindowKilled(b) \/ SessionDies(b)
             \/ ResumeRuns(b) \/ HandleResumeFailed(b) \/ HandleReleased(b)
             \/ HandleCleanupFailed(b) \/ RefreshCopy(b) \/ StopHook(b)
      PROVE  disk' = disk
    BY <1>3 DEF KeysThatPersist, MoveForward, MoveBackward, ConfirmDone, Reorder,
        HandleWindowGone, HandleResumed, AskResume, RetryResume, RetryAfresh, AskDispatch, Deletes,
        DeleteTask, HandleReleasedToDelete, TickWindowCheck, WindowChecked, WindowKilled,
        SessionDies, ResumeRuns, HandleResumeFailed, HandleReleased, HandleCleanupFailed,
        RefreshCopy, StopHook
<1>4. CASE Launch
    BY <1>4 DEF Launch
<1>5. CASE Reopen \/ UNCHANGED workVars
    BY <1>5 DEF Reopen, workVars
<1> QED
    BY <1>2, <1>3, <1>4, <1>5, BoardSteps

(* Without a fresh retry no worktree is cleared from a row.                *)
LEMMA NothingIsCleared ==
    ASSUME BoardTypeOK, EveryoneKnowsThePlace, "retry fresh" \notin Keys, NEW b \in Board
    PROVE  ~RetryAfresh(b) /\ ~HandleReleased(b)
<1>1. ~RetryAfresh(b)
    BY DEF RetryAfresh
<1>2. ASSUME Receive(b, "clear pointer")
      PROVE  FALSE
    <2>1. Len(inbox[b]) \in Nat /\ Len(inbox[b]) >= 1 /\ inbox[b][1] = "clear pointer"
        BY <1>2, Received DEF BoardTypeOK
    <2>2. 1 \in 1..Len(inbox[b])
        BY <2>1, FirstIndex
    <2> QED
        BY <2>1, <2>2 DEF EveryoneKnowsThePlace, NobodyClears
<1> QED
    BY <1>1, <1>2 DEF HandleReleased

LEMMA DisksAreKnownStep ==
    ASSUME boardSetting \in BoardSettings, BoardTypeOK, EveryoneKnowsThePlace, DisksAreKnown,
           [BoardNext]_boardVars
    PROVE  DisksAreKnown'
<1> SUFFICES ASSUME OneBoard, "dispatch" \notin Keys, "retry fresh" \notin Keys,
                    UNCHANGED boardSetting
             PROVE  /\ request' = NoMachine
                    /\ \A b \in Board :
                           /\ disk'[b] => /\ ~IsDeleted' /\ row'.worktree
                                          /\ copy'[b].status # "deleted" => copy'[b].worktree
                           /\ \A i \in 1..Len(inbox'[b]) :
                                  inbox'[b][i] = "delete row" => ~disk'[b]
    BY BoardSteps, BoardSettingStays DEF DisksAreKnown, OneBoard, Shown
<1>1. /\ request = NoMachine
      /\ \A b \in Board :
             /\ disk[b] => ~IsDeleted /\ row.worktree /\ (Shown(b) => copy[b].worktree)
             /\ \A i \in 1..Len(inbox[b]) : inbox[b][i] = "delete row" => ~disk[b]
    BY DEF DisksAreKnown
<1>2. \A b \in Board : ~RetryAfresh(b) /\ ~HandleReleased(b)
    BY NothingIsCleared
<1>3. request' = NoMachine /\ ~Launch
    BY <1>1, <1>2, RequestsChange DEF Launch
<1>4. ASSUME NEW b \in Board, disk'[b]
      PROVE  disk[b]
    BY <1>3, <1>4, DisksChange
<1>5. ASSUME NEW b \in Board, NEW i \in 1..Len(inbox'[b]), inbox'[b][i] = "delete row", disk'[b]
      PROVE  FALSE
    <2>1. PICK j \in 1..Len(inbox[b]) : inbox[b][j] = inbox'[b][i]
        BY <1>5, InboxChanges
    <2> QED
        BY <1>1, <1>4, <1>5, <2>1
<1>6. ASSUME NEW b \in Board, disk'[b], Deletes(b)
      PROVE  row' = row
    <2>1. disk[b] /\ ~IsDeleted /\ (Shown(b) => copy[b].worktree)
        BY <1>1, <1>4, <1>6
    <2>2. CASE DeleteTask(b)
        BY <2>1, <2>2 DEF DeleteTask, Shown
    <2>3. ~HandleReleasedToDelete(b)
        <3>1. SUFFICES ASSUME Receive(b, "delete row")
                       PROVE  FALSE
            BY DEF HandleReleasedToDelete
        <3>2. Len(inbox[b]) \in Nat /\ Len(inbox[b]) >= 1 /\ inbox[b][1] = "delete row"
            BY <3>1, Received DEF BoardTypeOK
        <3>3. 1 \in 1..Len(inbox[b])
            BY <3>2, FirstIndex
        <3> QED
            BY <1>1, <2>1, <3>2, <3>3
    <2> QED
        BY <1>6, <2>2, <2>3 DEF Deletes
<1>7. ASSUME NEW b \in Board, disk'[b]
      PROVE  /\ ~IsDeleted' /\ row'.worktree
             /\ copy'[b].status # "deleted" => copy'[b].worktree
    <2>1. disk[b] /\ ~IsDeleted /\ row.worktree /\ (Shown(b) => copy[b].worktree)
        BY <1>1, <1>4, <1>7
    <2>2. ~IsDeleted' /\ row'.worktree
        <3>1. CASE \E o \in Board : PersistsCard(o)
            BY <2>1, <3>1, CardsStayTyped DEF IsDeleted
        <3>2. CASE /\ row'.worktree = row.worktree
                   /\ row'.status = "deleted" <=> IsDeleted
            BY <2>1, <3>2 DEF IsDeleted
        <3>3. CASE \E o \in Board : Deletes(o)
            <4>1. row' = row
                BY <1>6, <1>7, <3>3 DEF OneBoard
            <4> QED
                BY <2>1, <4>1 DEF IsDeleted
        <3> QED
            BY <1>2, <1>3, <3>1, <3>2, <3>3, RowsChange
    <2>3. copy'[b].status # "deleted" => copy'[b].worktree
        <3>1. CASE /\ copy'[b].worktree = copy[b].worktree
                   /\ copy'[b].status # "deleted" => Shown(b)
            BY <2>1, <3>1
        <3>2. CASE copy'[b] = row
            BY <2>1, <3>2
        <3>3. CASE copy'[b] = Deleted
            <4>1. Deleted.status = "deleted"
                BY DEF Deleted
            <4> QED
                BY <3>3, <4>1
        <3> QED
            BY <1>2, <3>1, <3>2, <3>3, CopiesChange
    <2> QED
        BY <2>2, <2>3
<1> QED
    BY <1>3, <1>5, <1>7

(* A step that leaves the inbox alone and adds no crash and no session.    *)
LEMMA CrashesStayOlder ==
    ASSUME NEW b \in Board, OneAnswer(b), CrashesAreOlder(b),
           inbox'[b] = inbox[b], resume'[b] = resume[b] \/ resume[b] = "none",
           inWindow'[b] \in {NoOne, inWindow[b]}, row'.agent = row.agent,
           row'.crashed \/ copy'[b].crashed => row.crashed \/ copy[b].crashed
    PROVE  OneAnswer(b)' /\ CrashesAreOlder(b)'
<1>1. OneAnswer(b)'
    <2>1. ASSUME NEW i \in 1..Len(inbox[b]), inbox[b][i] \in ResumeAnswer
          PROVE  /\ resume'[b] = "answered"
                 /\ \A j \in 1..Len(inbox[b]) : inbox[b][j] \in ResumeAnswer => i = j
        BY <2>1 DEF OneAnswer
    <2> QED
        BY <2>1 DEF OneAnswer
<1>2. CrashesAreOlder(b)'
    <2>1. SUFFICES ASSUME inWindow'[b] # NoOne
                   PROVE  /\ row'.agent # NoOne
                          /\ row'.crashed \/ copy'[b].crashed =>
                                 \E j \in 1..Len(inbox'[b]) : inbox'[b][j] = "resumed"
                          /\ \A i \in 1..Len(inbox'[b]) : inbox'[b][i] = "window gone" =>
                                 \E j \in 1..Len(inbox'[b]) : i < j /\ inbox'[b][j] = "resumed"
        BY DEF CrashesAreOlder
    <2>2. /\ row.agent # NoOne
          /\ row.crashed \/ copy[b].crashed =>
                 \E j \in 1..Len(inbox[b]) : inbox[b][j] = "resumed"
          /\ \A i \in 1..Len(inbox[b]) : inbox[b][i] = "window gone" =>
                 \E j \in 1..Len(inbox[b]) : i < j /\ inbox[b][j] = "resumed"
        BY <2>1 DEF CrashesAreOlder
    <2>3. row'.agent # NoOne
        BY <2>2
    <2>4. row'.crashed \/ copy'[b].crashed =>
              \E j \in 1..Len(inbox'[b]) : inbox'[b][j] = "resumed"
        <3>1. row'.crashed \/ copy'[b].crashed => row.crashed \/ copy[b].crashed
            OBVIOUS
        <3> QED
            BY <2>2, <3>1
    <2>5. ASSUME NEW i \in 1..Len(inbox'[b]), inbox'[b][i] = "window gone"
          PROVE  \E j \in 1..Len(inbox'[b]) : i < j /\ inbox'[b][j] = "resumed"
        <3>1. inbox'[b] = inbox[b] /\ i \in 1..Len(inbox[b]) /\ inbox[b][i] = "window gone"
            BY <2>5
        <3>2. PICK j \in 1..Len(inbox[b]) : i < j /\ inbox[b][j] = "resumed"
            BY <2>2, <3>1
        <3> QED
            BY <3>1, <3>2
    <2> QED
        BY <2>3, <2>4, <2>5
<1> QED
    BY <1>1, <1>2

(* A message is handled: what was behind it in the inbox stays there.      *)
LEMMA CrashesStayBehind ==
    ASSUME inbox \in [Board -> Seq(BoardMessage)], NEW b \in Board, NEW m, Receive(b, m),
           OneAnswer(b), CrashesAreOlder(b),
           resume'[b] = IF m \in ResumeAnswer THEN "none" ELSE resume[b],
           inWindow'[b] = inWindow[b], row'.agent = row.agent,
           inWindow[b] # NoOne /\ (row'.crashed \/ copy'[b].crashed) =>
               \E j \in 1..Len(inbox[b]) : 1 < j /\ inbox[b][j] = "resumed"
    PROVE  OneAnswer(b)' /\ CrashesAreOlder(b)'
<1>1. /\ Len(inbox[b]) \in Nat /\ Len(inbox[b]) >= 1 /\ Len(inbox'[b]) = Len(inbox[b]) - 1
      /\ inbox[b][1] = m
      /\ \A i \in 1..Len(inbox'[b]) : inbox'[b][i] = inbox[b][i + 1]
    BY Received
<1>2. \A i \in 1..Len(inbox'[b]) : i + 1 \in 1..Len(inbox[b]) /\ i + 1 # 1 /\ i \in Nat
    BY <1>1
<1>3. \A j \in 1..Len(inbox[b]) : 1 < j => j - 1 \in 1..Len(inbox'[b]) /\ j = (j - 1) + 1
    BY <1>1
<1>4. 1 \in 1..Len(inbox[b])
    BY <1>1, FirstIndex
<1>5. OneAnswer(b)'
    <2>1. ASSUME NEW i \in 1..Len(inbox'[b]), inbox'[b][i] \in ResumeAnswer
          PROVE  /\ resume'[b] = "answered"
                 /\ \A j \in 1..Len(inbox'[b]) : inbox'[b][j] \in ResumeAnswer => i = j
        <3>1. i + 1 \in 1..Len(inbox[b]) /\ inbox[b][i + 1] \in ResumeAnswer
            BY <1>1, <1>2, <2>1
        <3>2. resume[b] = "answered" /\ m \notin ResumeAnswer
            BY <1>1, <1>2, <1>4, <3>1 DEF OneAnswer
        <3>3. ASSUME NEW j \in 1..Len(inbox'[b]), inbox'[b][j] \in ResumeAnswer
              PROVE  i = j
            <4>1. j + 1 \in 1..Len(inbox[b]) /\ inbox[b][j + 1] \in ResumeAnswer
                BY <1>1, <1>2, <3>3
            <4>2. i + 1 = j + 1
                BY <3>1, <4>1 DEF OneAnswer
            <4> QED
                BY <1>2, <4>2
        <3> QED
            BY <3>2, <3>3
    <2> QED
        BY <2>1 DEF OneAnswer
<1>6. CrashesAreOlder(b)'
    <2>1. SUFFICES ASSUME inWindow'[b] # NoOne
                   PROVE  /\ row'.agent # NoOne
                          /\ row'.crashed \/ copy'[b].crashed =>
                                 \E j \in 1..Len(inbox'[b]) : inbox'[b][j] = "resumed"
                          /\ \A i \in 1..Len(inbox'[b]) : inbox'[b][i] = "window gone" =>
                                 \E j \in 1..Len(inbox'[b]) : i < j /\ inbox'[b][j] = "resumed"
        BY DEF CrashesAreOlder
    <2>2. row'.agent # NoOne
        BY <2>1 DEF CrashesAreOlder
    <2>3. ASSUME row'.crashed \/ copy'[b].crashed
          PROVE  \E j \in 1..Len(inbox'[b]) : inbox'[b][j] = "resumed"
        <3>1. PICK j \in 1..Len(inbox[b]) : 1 < j /\ inbox[b][j] = "resumed"
            BY <2>1, <2>3
        <3>2. j - 1 \in 1..Len(inbox'[b]) /\ inbox'[b][j - 1] = inbox[b][j]
            BY <1>1, <1>3, <3>1
        <3> QED
            BY <3>1, <3>2
    <2>4. ASSUME NEW i \in 1..Len(inbox'[b]), inbox'[b][i] = "window gone"
          PROVE  \E j \in 1..Len(inbox'[b]) : i < j /\ inbox'[b][j] = "resumed"
        <3>1. i + 1 \in 1..Len(inbox[b]) /\ inbox[b][i + 1] = "window gone" /\ i \in Nat
            BY <1>1, <1>2, <2>4
        <3>2. PICK j \in 1..Len(inbox[b]) : i + 1 < j /\ inbox[b][j] = "resumed"
            BY <2>1, <3>1 DEF CrashesAreOlder
        <3>3. 1 < j /\ i < j - 1
            BY <1>1, <3>1, <3>2, Behind
        <3>4. j - 1 \in 1..Len(inbox'[b]) /\ inbox'[b][j - 1] = inbox[b][j]
            BY <1>1, <1>3, <3>3
        <3> QED
            BY <3>2, <3>3, <3>4
    <2> QED
        BY <2>2, <2>3, <2>4
<1> QED
    BY <1>5, <1>6

(* A job beside the loop sends: the answer of a resume when none is under  *)
(* way, or that a window is gone where no session is.                      *)
LEMMA CrashesStayAhead ==
    ASSUME inbox \in [Board -> Seq(BoardMessage)], NEW b \in Board, NEW m \in BoardMessage,
           Send(b, m), OneAnswer(b), CrashesAreOlder(b),
           UNCHANGED <<row, copy>>,
           \/ /\ m \in ResumeAnswer /\ resume[b] = "asked" /\ resume'[b] = "answered"
              /\ inWindow[b] # NoOne => inWindow'[b] = inWindow[b]
              /\ inWindow[b] = NoOne /\ inWindow'[b] # NoOne => m = "resumed" /\ row.agent # NoOne
           \/ m = "window gone" /\ resume'[b] = resume[b] /\ inWindow'[b] = NoOne
    PROVE  OneAnswer(b)' /\ CrashesAreOlder(b)'
<1>1. /\ Len(inbox'[b]) = Len(inbox[b]) + 1 /\ Len(inbox[b]) \in Nat
      /\ inbox'[b][Len(inbox[b]) + 1] = m
      /\ \A i \in 1..Len(inbox[b]) : inbox'[b][i] = inbox[b][i]
    BY Sent
<1>2. /\ \A i \in 1..Len(inbox'[b]) : i \in 1..Len(inbox[b]) \/ i = Len(inbox[b]) + 1
      /\ \A i \in 1..Len(inbox[b]) : i \in 1..Len(inbox'[b]) /\ i < Len(inbox[b]) + 1
      /\ Len(inbox[b]) + 1 \in 1..Len(inbox'[b])
    BY <1>1, OneMore
<1>3. CASE m = "window gone" /\ resume'[b] = resume[b] /\ inWindow'[b] = NoOne
    <2>1. "window gone" \notin ResumeAnswer
        BY DEF ResumeAnswer
    <2>2. ASSUME NEW i \in 1..Len(inbox'[b]), inbox'[b][i] \in ResumeAnswer
          PROVE  i \in 1..Len(inbox[b]) /\ inbox[b][i] \in ResumeAnswer
        BY <1>1, <1>2, <1>3, <2>1, <2>2
    <2>3. OneAnswer(b)'
        <3>1. ASSUME NEW i \in 1..Len(inbox'[b]), inbox'[b][i] \in ResumeAnswer
              PROVE  /\ resume'[b] = "answered"
                     /\ \A j \in 1..Len(inbox'[b]) : inbox'[b][j] \in ResumeAnswer => i = j
            BY <1>3, <2>2, <3>1 DEF OneAnswer
        <3> QED
            BY <3>1 DEF OneAnswer
    <2> QED
        BY <1>3, <2>3 DEF CrashesAreOlder
<1>4. CASE /\ m \in ResumeAnswer /\ resume[b] = "asked" /\ resume'[b] = "answered"
           /\ inWindow[b] # NoOne => inWindow'[b] = inWindow[b]
           /\ inWindow[b] = NoOne /\ inWindow'[b] # NoOne => m = "resumed" /\ row.agent # NoOne
    <2>1. \A i \in 1..Len(inbox[b]) : inbox[b][i] \notin ResumeAnswer
        BY <1>4 DEF OneAnswer
    <2>2. \A i \in 1..Len(inbox'[b]) : inbox'[b][i] \in ResumeAnswer => i = Len(inbox[b]) + 1
        BY <1>1, <1>2, <2>1
    <2>3. OneAnswer(b)'
        <3>1. ASSUME NEW i \in 1..Len(inbox'[b]), inbox'[b][i] \in ResumeAnswer
              PROVE  /\ resume'[b] = "answered"
                     /\ \A j \in 1..Len(inbox'[b]) : inbox'[b][j] \in ResumeAnswer => i = j
            BY <1>4, <2>2, <3>1
        <3> QED
            BY <3>1 DEF OneAnswer
    <2>4. SUFFICES ASSUME inWindow'[b] # NoOne
                   PROVE  /\ row.agent # NoOne
                          /\ row.crashed \/ copy[b].crashed =>
                                 \E j \in 1..Len(inbox'[b]) : inbox'[b][j] = "resumed"
                          /\ \A i \in 1..Len(inbox'[b]) : inbox'[b][i] = "window gone" =>
                                 \E j \in 1..Len(inbox'[b]) : i < j /\ inbox'[b][j] = "resumed"
        BY <2>3 DEF CrashesAreOlder
    <2>5. CASE inWindow[b] = NoOne
        <3>1. m = "resumed" /\ row.agent # NoOne
            BY <1>4, <2>4, <2>5
        <3>2. inbox'[b][Len(inbox[b]) + 1] = "resumed"
            BY <1>1, <3>1
        <3>3. ASSUME NEW i \in 1..Len(inbox'[b]), inbox'[b][i] = "window gone"
              PROVE  i < Len(inbox[b]) + 1
            BY <1>1, <1>2, <3>2, <3>3
        <3> QED
            BY <1>2, <3>1, <3>2, <3>3
    <2>6. CASE inWindow[b] # NoOne
        <3>1. "resumed" \in ResumeAnswer
            BY DEF ResumeAnswer
        <3>2. /\ row.agent # NoOne /\ ~(row.crashed \/ copy[b].crashed)
              /\ \A i \in 1..Len(inbox[b]) : inbox[b][i] # "window gone"
            BY <2>1, <2>6, <3>1 DEF CrashesAreOlder
        <3>3. m # "window gone"
            BY <1>4 DEF ResumeAnswer
        <3>4. \A i \in 1..Len(inbox'[b]) : inbox'[b][i] # "window gone"
            BY <1>1, <1>2, <3>2, <3>3
        <3> QED
            BY <3>2, <3>4
    <2> QED
        BY <2>5, <2>6
<1> QED
    BY <1>3, <1>4

(* A resume that is told while its session is there clears the crash.      *)
LEMMA ResumesClearCrashes ==
    ASSUME BoardTypeOK, NEW b \in Board, HandleResumed(b), Shown(b), ~IsDeleted,
           row.agent # NoOne
    PROVE  ~row'.crashed /\ ~copy'[b].crashed
<1> DEFINE c == [MovedTo(copy[b], "running") EXCEPT !.window = TRUE]
<1>1. copy[b] \in BoardRow /\ copy \in [Board -> BoardRow]
    BY DEF BoardTypeOK
<1>2. c.crashed = FALSE
    BY <1>1 DEF MovedTo, BoardRow
<1>3. copy' = [copy EXCEPT ![b] = c] /\ row' = Persisted(row, c, Keep)
    BY DEF HandleResumed, Persist
<1> HIDE DEF c
<1>4. Accepts(row, c, Keep)
    BY DEF Accepts, Patchable, IsDeleted
<1>5. row'.crashed = c.crashed
    BY <1>3, <1>4 DEF Persisted, Written
<1> QED
    BY <1>1, <1>2, <1>3, <1>5

LEMMA ResumesFollowCrashesStep ==
    ASSUME boardSetting \in BoardSettings, BoardTypeOK, EveryoneKnowsThePlace,
           ResumesFollowCrashes, [BoardNext]_boardVars
    PROVE  ResumesFollowCrashes'
<1> SUFFICES ASSUME OneBoard, "dispatch" \notin Keys, "retry fresh" \notin Keys,
                    "delete" \notin Keys, UNCHANGED boardSetting
             PROVE  /\ request' = NoMachine /\ ~IsDeleted'
                    /\ \A b \in Board :
                           /\ copy'[b].status # "deleted" /\ cleanup'[b] = "none"
                           /\ \A i \in 1..Len(inbox'[b]) :
                                  inbox'[b][i] \in ResumeAnswer \cup {"window gone"}
                           /\ OneAnswer(b)' /\ CrashesAreOlder(b)'
    BY BoardSteps, BoardSettingStays DEF ResumesFollowCrashes, OneBoard, Shown
<1>1. /\ request = NoMachine /\ ~IsDeleted
      /\ \A b \in Board :
             /\ Shown(b) /\ cleanup[b] = "none"
             /\ \A i \in 1..Len(inbox[b]) : inbox[b][i] \in ResumeAnswer \cup {"window gone"}
             /\ OneAnswer(b) /\ CrashesAreOlder(b)
    BY DEF ResumesFollowCrashes
<1>2. /\ row \in BoardRow /\ copy \in [Board -> BoardRow] /\ inWindow \in [Board -> 0..MaxBorn]
      /\ inbox \in [Board -> Seq(BoardMessage)]
      /\ resume \in [Board -> {"none", "asked", "answered"}]
    BY DEF BoardTypeOK
<1>3. ASSUME NEW b \in Board, NEW m, Receive(b, m)
      PROVE  m \in ResumeAnswer \cup {"window gone"}
    <2>1. Len(inbox[b]) \in Nat /\ Len(inbox[b]) >= 1 /\ inbox[b][1] = m
        BY <1>2, <1>3, Received
    <2>2. 1 \in 1..Len(inbox[b])
        BY <2>1, FirstIndex
    <2> QED
        BY <1>1, <2>1, <2>2
<1>4. ASSUME NEW b \in Board
      PROVE  /\ ~RetryAfresh(b) /\ ~HandleReleased(b) /\ ~Deletes(b) /\ ~AskDispatch(b)
             /\ ~HandleCleanupFailed(b) /\ ~CleanupEnds(b) /\ ~Launch
    <2>1. ~RetryAfresh(b) /\ ~HandleReleased(b)
        BY NothingIsCleared
    <2>2. "delete row" \notin ResumeAnswer \cup {"window gone"}
          /\ "cleanup failed" \notin ResumeAnswer \cup {"window gone"}
        BY DEF ResumeAnswer
    <2>3. ~Deletes(b) /\ ~HandleCleanupFailed(b)
        BY <1>3, <2>2 DEF Deletes, DeleteTask, HandleReleasedToDelete, HandleCleanupFailed
    <2>4. ~AskDispatch(b) /\ ~CleanupEnds(b) /\ ~Launch
        BY <1>1 DEF AskDispatch, CleanupEnds, Launch
    <2> QED
        BY <2>1, <2>3, <2>4
<1>5. request' = NoMachine
    BY <1>1, <1>4, RequestsChange
<1>6. ~IsDeleted' /\ row'.agent = row.agent
    <2>1. CASE \E b \in Board : PersistsCard(b)
        BY <1>1, <2>1, CardsStayTyped DEF IsDeleted
    <2>2. CASE /\ row'.agent = row.agent
               /\ row'.status = "deleted" <=> IsDeleted
        BY <1>1, <2>2 DEF IsDeleted
    <2> QED
        BY <1>1, <1>4, <2>1, <2>2, RowsChange DEF Launch
<1>7. ASSUME NEW b \in Board
      PROVE  copy'[b].status # "deleted" /\ cleanup'[b] = "none"
    <2>1. cleanup'[b] = "none"
        <3>1. ~\E o \in Board : RetryAfresh(o) \/ DeleteTask(o)
            BY <1>4 DEF Deletes
        <3> QED
            BY <1>1, <3>1, TeardownsChange
    <2>2. copy'[b] # Deleted
        <3>1. ASSUME NEW o \in Board, KeysThatPersist(o) \/ HandleWindowGone(o) \/ HandleResumed(o)
              PROVE  copy'[b].status # "deleted"
            <4>1. PersistsCard(o) \/ copy' = copy
                BY <3>1, KeysPersist, MessagesPersist
            <4>2. CASE PersistsCard(o)
                <5>1. o = b
                    BY DEF OneBoard
                <5> QED
                    BY <4>2, <5>1, CardsStayTyped DEF Status
            <4> QED
                BY <1>1, <4>1, <4>2 DEF Shown
        <3>2. ASSUME NEW o \in Board, RetryResume(o)
              PROVE  copy'[b].status = copy[b].status
            <4> DEFINE d == [copy[o] EXCEPT !.crashed = FALSE, !.window = FALSE]
            <4>1. d.status = copy[o].status
                BY <1>2 DEF BoardRow
            <4>2. copy' = [copy EXCEPT ![o] = d]
                BY <1>2, <3>2 DEF RetryResume
            <4> HIDE DEF d
            <4> QED
                BY <1>2, <4>1, <4>2
        <3>3. ASSUME NEW o \in Board, RefreshCopy(o)
              PROVE  copy'[b] \in {row, copy[b]}
            BY <1>2, <3>3 DEF RefreshCopy
        <3>4. ASSUME NEW o \in Board,
                     \/ AskResume(o) \/ TickWindowCheck(o) \/ WindowChecked(o) \/ WindowKilled(o)
                     \/ SessionDies(o) \/ ResumeRuns(o) \/ HandleResumeFailed(o) \/ StopHook(o)
              PROVE  copy' = copy
            BY <3>4 DEF AskResume, TickWindowCheck, WindowChecked, WindowKilled, SessionDies,
                ResumeRuns, HandleResumeFailed, StopHook
        <3>5. CASE Reopen \/ UNCHANGED workVars
            <4>1. copy' = copy
                BY <3>5 DEF Reopen, workVars
            <4>2. copy[b].status # "deleted" /\ Deleted.status = "deleted"
                BY <1>1 DEF Shown, Deleted
            <4> QED
                BY <4>1, <4>2
        <3>6. Deleted.status = "deleted"
            BY DEF Deleted
        <3>7. CASE copy'[b].status # "deleted"
            BY <3>6, <3>7
        <3>8. row.status # "deleted" /\ copy[b].status # "deleted"
            BY <1>1 DEF IsDeleted, Shown
        <3> QED
            BY <1>4, <3>1, <3>2, <3>3, <3>4, <3>5, <3>7, <3>8, BoardSteps
    <2>3. ~\E o \in Board : RetryAfresh(o) \/ HandleReleased(o)
        BY <1>4
    <2>4. copy'[b].status # "deleted"
        BY <1>1, <2>2, <2>3, CopiesChange DEF IsDeleted
    <2> QED
        BY <2>1, <2>4
<1>8. ASSUME NEW b \in Board, NEW i \in 1..Len(inbox'[b])
      PROVE  inbox'[b][i] \in ResumeAnswer \cup {"window gone"}
    <2>1. CASE \E j \in 1..Len(inbox[b]) : inbox[b][j] = inbox'[b][i]
        BY <1>1, <2>1
    <2>2. CASE ~\E j \in 1..Len(inbox[b]) : inbox[b][j] = inbox'[b][i]
        <3>1. ASSUME NEW o \in Board,
                     \/ KeysThatPersist(o) \/ AskResume(o) \/ RetryResume(o)
                     \/ WindowKilled(o) \/ SessionDies(o) \/ TickWindowCheck(o)
                     \/ RefreshCopy(o) \/ StopHook(o)
              PROVE  FALSE
            <4>1. inbox' = inbox
                BY <3>1 DEF KeysThatPersist, MoveForward, MoveBackward, ConfirmDone, Reorder,
                    AskResume, RetryResume, WindowKilled, SessionDies, TickWindowCheck,
                    RefreshCopy, StopHook
            <4> QED
                BY <2>2, <4>1
        <3>2. ASSUME NEW o \in Board, NEW m \in ResumeAnswer \cup {"window gone"}, Send(o, m)
              PROVE  inbox'[b][i] = m
            <4>1. o = b /\ m \in BoardMessage
                BY DEF OneBoard, ResumeAnswer, BoardMessage
            <4>2. /\ Len(inbox'[b]) = Len(inbox[b]) + 1 /\ Len(inbox[b]) \in Nat
                  /\ inbox'[b][Len(inbox[b]) + 1] = m
                  /\ \A j \in 1..Len(inbox[b]) : inbox'[b][j] = inbox[b][j]
                BY <1>2, <3>2, <4>1, Sent
            <4>3. i \in 1..Len(inbox[b]) \/ i = Len(inbox[b]) + 1
                BY <4>2, OneMore
            <4> QED
                BY <2>2, <4>2, <4>3
        <3>3. ASSUME NEW o \in Board, NEW m, Receive(o, m)
              PROVE  FALSE
            <4>1. o = b
                BY DEF OneBoard
            <4>2. /\ Len(inbox[b]) \in Nat /\ Len(inbox'[b]) = Len(inbox[b]) - 1
                  /\ inbox'[b][i] = inbox[b][i + 1]
                BY <1>2, <3>3, <4>1, Received
            <4>3. i + 1 \in 1..Len(inbox[b])
                BY <4>2, OneLess
            <4> QED
                BY <2>2, <4>2, <4>3
        <3>4. ASSUME NEW o \in Board,
                     HandleWindowGone(o) \/ HandleResumed(o) \/ HandleResumeFailed(o)
              PROVE  \E m : Receive(o, m)
            BY <3>4 DEF HandleWindowGone, HandleResumed, HandleResumeFailed
        <3>5. ASSUME NEW o \in Board, WindowChecked(o) \/ ResumeRuns(o)
              PROVE  \/ \E m \in ResumeAnswer \cup {"window gone"} : Send(o, m)
                     \/ inbox' = inbox
            BY <3>5 DEF WindowChecked, ResumeRuns, ResumeAnswer
        <3>7. inbox' # inbox
            BY <2>2
        <3>6. ~Reopen /\ ~UNCHANGED workVars
            BY <3>7 DEF Reopen, workVars
        <3>8. \E o \in Board : \/ HandleWindowGone(o) \/ HandleResumed(o) \/ HandleResumeFailed(o)
                               \/ WindowChecked(o) \/ ResumeRuns(o)
            <4>1. /\ ~\E o \in Board : \/ KeysThatPersist(o) \/ AskResume(o) \/ RetryResume(o)
                                        \/ WindowKilled(o) \/ SessionDies(o)
                                        \/ TickWindowCheck(o) \/ RefreshCopy(o) \/ StopHook(o)
                  /\ ~Reopen /\ ~UNCHANGED workVars
                BY <3>1, <3>7, <3>6
            <4>2. ~\E o \in Board : \/ RetryAfresh(o) \/ HandleReleased(o) \/ Deletes(o)
                                    \/ AskDispatch(o) \/ HandleCleanupFailed(o) \/ CleanupEnds(o)
                BY <1>4
            <4>3. ~Launch
                BY <1>4
            <4> QED
                BY <4>1, <4>2, <4>3, BoardSteps
        <3> QED
            BY <3>2, <3>3, <3>4, <3>5, <3>7, <3>8
    <2> QED
        BY <2>1, <2>2
<1>9. ASSUME NEW b \in Board
      PROVE  OneAnswer(b)' /\ CrashesAreOlder(b)'
    <2>1. OneAnswer(b) /\ CrashesAreOlder(b) /\ ~IsDeleted /\ Shown(b)
        BY <1>1
    <2>2. \A o \in Board : o = b
        BY DEF OneBoard
    <2>3. CASE KeysThatPersist(b)
        <3>1. PICK c \in BoardRow, release \in {Keep, ReleasingWindow} :
                  /\ c.crashed => copy[b].crashed
                  /\ Persist(b, c, release)
            BY <2>3, KeysPersist
        <3>2. row' = Persisted(row, c, release) /\ copy'[b] = c
            BY <1>2, <3>1 DEF Persist
        <3>3. row'.crashed = row.crashed \/ row'.crashed = c.crashed
            BY <3>2 DEF Persisted, Written
        <3>4. row'.crashed \/ copy'[b].crashed => row.crashed \/ copy[b].crashed
            BY <3>1, <3>2, <3>3
        <3>5. UNCHANGED <<inbox, resume, inWindow>>
            BY <2>3, KeysPersist DEF PersistsCard
        <3> QED
            BY <1>6, <2>1, <3>4, <3>5, CrashesStayOlder
    <2>4. CASE HandleWindowGone(b)
        <3>1. Receive(b, "window gone") /\ UNCHANGED <<resume, inWindow>>
            BY <2>4 DEF HandleWindowGone, jobVars
        <3>2. "window gone" \notin ResumeAnswer
            BY DEF ResumeAnswer
        <3>3. Len(inbox[b]) \in Nat /\ Len(inbox[b]) >= 1 /\ inbox[b][1] = "window gone"
            BY <1>2, <3>1, Received
        <3>4. 1 \in 1..Len(inbox[b])
            BY <3>3, FirstIndex
        <3>5. inWindow[b] # NoOne =>
                  \E j \in 1..Len(inbox[b]) : 1 < j /\ inbox[b][j] = "resumed"
            BY <2>1, <3>3, <3>4 DEF CrashesAreOlder
        <3> QED
            BY <1>2, <1>6, <2>1, <3>1, <3>2, <3>5, CrashesStayBehind
    <2>5. CASE HandleResumed(b)
        <3>1. /\ Receive(b, "resumed") /\ UNCHANGED inWindow
              /\ resume'[b] = "none"
            BY <1>2, <2>5 DEF HandleResumed
        <3>2. "resumed" \in ResumeAnswer
            BY DEF ResumeAnswer
        <3>3. inWindow[b] # NoOne => ~row'.crashed /\ ~copy'[b].crashed
            BY <2>1, <2>5, ResumesClearCrashes DEF CrashesAreOlder
        <3> QED
            BY <1>2, <1>6, <2>1, <3>1, <3>2, <3>3, CrashesStayBehind
    <2>6. CASE HandleResumeFailed(b)
        <3>1. /\ Receive(b, "resume failed") /\ UNCHANGED <<inWindow, row, copy>>
              /\ resume'[b] = "none"
            BY <1>2, <2>6 DEF HandleResumeFailed
        <3>2. "resume failed" \in ResumeAnswer /\ "resumed" \in ResumeAnswer
            BY DEF ResumeAnswer
        <3>3. Len(inbox[b]) \in Nat /\ Len(inbox[b]) >= 1 /\ inbox[b][1] = "resume failed"
            BY <1>2, <3>1, Received
        <3>4. 1 \in 1..Len(inbox[b])
            BY <3>3, FirstIndex
        <3>5. \A j \in 1..Len(inbox[b]) : inbox[b][j] # "resumed"
            BY <2>1, <3>2, <3>3, <3>4 DEF OneAnswer
        <3>6. ~(inWindow[b] # NoOne /\ (row'.crashed \/ copy'[b].crashed))
            BY <2>1, <3>1, <3>5 DEF CrashesAreOlder
        <3> QED
            BY <1>2, <1>6, <2>1, <3>1, <3>2, <3>6, CrashesStayBehind
    <2>7. CASE ResumeRuns(b)
        <3>1. /\ UNCHANGED <<row, copy>> /\ resume[b] = "asked" /\ resume'[b] = "answered"
              /\ \/ /\ Send(b, "resumed") /\ row.agent # NoOne
                    /\ inWindow[b] # NoOne => inWindow'[b] = inWindow[b]
                 \/ Send(b, "resume failed") /\ inWindow' = inWindow
            BY <1>2, <2>7 DEF ResumeRuns
        <3>2. /\ "resumed" \in ResumeAnswer /\ "resume failed" \in ResumeAnswer
              /\ "resumed" \in BoardMessage /\ "resume failed" \in BoardMessage
            BY DEF ResumeAnswer, BoardMessage
        <3> QED
            BY <1>2, <2>1, <3>1, <3>2, CrashesStayAhead
    <2>8. CASE WindowChecked(b)
        <3>1. /\ UNCHANGED <<row, copy, resume, inWindow>>
              /\ inbox' = inbox \/ (Send(b, "window gone") /\ inWindow[b] = NoOne)
            BY <2>8 DEF WindowChecked
        <3>2. "window gone" \in BoardMessage
            BY DEF BoardMessage
        <3>3. CASE inbox' = inbox
            BY <2>1, <3>1, <3>3, CrashesStayOlder
        <3>4. CASE Send(b, "window gone") /\ inWindow[b] = NoOne
            BY <1>2, <2>1, <3>1, <3>2, <3>4, CrashesStayAhead
        <3> QED
            BY <3>1, <3>3, <3>4
    <2>9. CASE AskResume(b) \/ RetryResume(b)
        <3>1. /\ UNCHANGED <<row, inbox, inWindow>>
              /\ resume'[b] = resume[b] \/ resume[b] = "none"
            BY <1>2, <2>9 DEF AskResume, RetryResume
        <3>2. copy'[b] = copy[b] \/ copy'[b].crashed = FALSE
            <4>1. CASE AskResume(b)
                BY <4>1 DEF AskResume
            <4>2. CASE RetryResume(b)
                <5> DEFINE d == [copy[b] EXCEPT !.crashed = FALSE, !.window = FALSE]
                <5>1. d.crashed = FALSE
                    BY <1>2 DEF BoardRow
                <5>2. copy' = [copy EXCEPT ![b] = d]
                    BY <1>2, <4>2 DEF RetryResume
                <5> HIDE DEF d
                <5> QED
                    BY <1>2, <5>1, <5>2
            <4> QED
                BY <2>9, <4>1, <4>2
        <3> QED
            BY <1>6, <2>1, <3>1, <3>2, CrashesStayOlder
    <2>10. CASE TickWindowCheck(b) \/ WindowKilled(b) \/ SessionDies(b)
        <3>1. UNCHANGED <<row, copy, inbox, resume>> /\ inWindow'[b] \in {NoOne, inWindow[b]}
            BY <1>2, <2>10 DEF TickWindowCheck, WindowKilled, SessionDies, jobVars
        <3> QED
            BY <2>1, <3>1, CrashesStayOlder
    <2>11. CASE RefreshCopy(b)
        <3>1. UNCHANGED <<row, inbox, resume, inWindow>> /\ copy'[b] = row
            BY <1>2, <2>11 DEF RefreshCopy, jobVars
        <3> QED
            BY <2>1, <3>1, CrashesStayOlder
    <2>12. CASE Reopen \/ StopHook(b)
        <3>1. UNCHANGED <<copy, inbox, resume, inWindow>> /\ row'.crashed = FALSE
            BY <1>2, <2>12 DEF Reopen, StopHook, BoardRow, jobVars
        <3> QED
            BY <1>6, <2>1, <3>1, CrashesStayOlder
    <2>13. CASE UNCHANGED workVars
        <3>1. UNCHANGED <<row, copy, inbox, resume, inWindow>>
            BY <2>13 DEF workVars, jobVars
        <3> QED
            BY <2>1, <3>1, CrashesStayOlder
    <2> QED
        BY <1>4, <2>2, <2>3, <2>4, <2>5, <2>6, <2>7, <2>8, <2>9, <2>10, <2>11, <2>12, <2>13, BoardSteps
<1> QED
    BY <1>5, <1>6, <1>7, <1>8, <1>9

LEMMA BoardInitInv ==
    ASSUME BoardInit
    PROVE  BoardInv
<1>1. /\ boardSetting \in BoardSettings /\ NoMachine \notin Board
      /\ MaxBorn \in Nat /\ MaxBorn >= 1 /\ StartStatus \in {"backlog", "running", "done"}
    <2>1. boardSetting \in BoardSettings
        BY DEF BoardInit
    <2> QED
        BY <2>1, BoardTasksAssumption DEF Board, MaxBorn, StartStatus
<1>2. PICK b \in Board :
        /\ row = StartRow(b)
        /\ copy = [o \in Board |-> row]
        /\ request = NoMachine
        /\ inWindow = [o \in Board |-> IF o = b /\ row.window THEN 1 ELSE NoOne]
        /\ disk = [o \in Board |-> o = b /\ row.worktree]
        /\ check = [o \in Board |-> FALSE]
        /\ kill = [o \in Board |-> FALSE]
        /\ resume = [o \in Board |-> "none"]
        /\ cleanup = [o \in Board |-> "none"]
        /\ inbox = [o \in Board |-> <<>>]
        /\ born = row.agent
    BY DEF BoardInit
<1>3. /\ row \in BoardRow /\ row.status # "deleted" /\ ~row.crashed
      /\ row.window => row.agent = 1 /\ row.host = b
      /\ Placed(row) /\ row.agent \in 0..1
    <2>1. CASE StartStatus = "backlog"
        <3>1. row = [status |-> "backlog", crashed |-> FALSE, worktree |-> FALSE,
                     host |-> NoMachine, window |-> FALSE, agent |-> NoOne]
            BY <1>2, <2>1 DEF StartRow, Deleted
        <3> QED
            BY <1>1, <3>1 DEF BoardRow, Status, NoOne, Placed
    <2>2. CASE StartStatus # "backlog"
        <3>1. row = [status |-> StartStatus, crashed |-> FALSE, worktree |-> TRUE,
                     host |-> b, window |-> StartStatus = "running", agent |-> 1]
            BY <1>2, <2>2 DEF StartRow
        <3> QED
            BY <1>1, <1>2, <2>2, <3>1 DEF BoardRow, Status, NoOne, Placed
    <2> QED
        BY <2>1, <2>2
<1>4. NoOne \in 0..MaxBorn /\ 1 \in 0..MaxBorn /\ row.agent \in 0..MaxBorn /\ NoOne # 1
    BY <1>1, <1>3 DEF NoOne
<1>5. ASSUME NEW o \in Board
      PROVE  /\ copy[o] = row /\ resume[o] = "none" /\ cleanup[o] = "none" /\ Len(inbox[o]) = 0
             /\ inWindow[o] # NoOne => o = b /\ row.window /\ inWindow[o] = 1
             /\ disk[o] => row.worktree
    BY <1>2
<1>6. BoardTypeOK
    <2>1. /\ inWindow \in [Board -> 0..MaxBorn] /\ copy \in [Board -> BoardRow]
        BY <1>2, <1>3, <1>4
    <2>2. /\ disk \in [Board -> BOOLEAN] /\ check \in [Board -> BOOLEAN] /\ kill \in [Board -> BOOLEAN]
        BY <1>2, <1>3 DEF BoardRow
    <2>3. /\ resume \in [Board -> {"none", "asked", "answered"}]
          /\ cleanup \in [Board -> FollowUp \cup {"none"}]
          /\ inbox \in [Board -> Seq(BoardMessage)]
        BY <1>2
    <2> QED
        BY <1>2, <1>3, <1>4, <2>1, <2>2, <2>3 DEF BoardTypeOK
<1>7. RequestsHaveRoom
    BY <1>2, <1>4 DEF RequestsHaveRoom
<1>8. \A o \in Board : \A i \in 1..Len(inbox[o]) : FALSE
    BY <1>5
<1>9. EveryoneKnowsThePlace
    BY <1>2, <1>3, <1>5, <1>8 DEF EveryoneKnowsThePlace, NobodyClears
<1>10. DisksAreKnown
    BY <1>2, <1>3, <1>5, <1>8 DEF DisksAreKnown, IsDeleted
<1>11. ResumesFollowCrashes
    <2>1. ASSUME NEW o \in Board
          PROVE  OneAnswer(o) /\ CrashesAreOlder(o) /\ Shown(o)
        BY <1>3, <1>4, <1>5, <1>8 DEF OneAnswer, CrashesAreOlder, Shown
    <2> QED
        BY <1>2, <1>3, <1>5, <1>8, <2>1 DEF ResumesFollowCrashes, IsDeleted
<1> QED
    BY <1>1, <1>6, <1>7, <1>9, <1>10, <1>11 DEF BoardInv

(* A row keeps the agent and the machine that have its worktree, whatever  *)
(* copies the boards write over it, for every set of boards and every      *)
(* choice of keys; no delete forgets a worktree and no live agent is shown *)
(* as crashed where one board works on the task.                           *)
THEOREM BoardsLeaveRowsTheirAgents == BoardSpec => RowsKeepTheirAgents
<1> DEFINE S == /\ BoardTypeOK
                /\ "retry fresh" \notin Keys => HostTracksWorktree /\ SessionIsTheCurrentAgents
                /\ OneBoard /\ {"dispatch", "retry fresh"} \cap Keys = {} => NoWorktreeIsForgotten
                /\ OneBoard /\ {"dispatch", "retry fresh", "delete"} \cap Keys = {} =>
                       CrashedAgentsAreDead
<1>1. BoardInit => BoardInv
    BY BoardInitInv
<1>2. BoardInv /\ [BoardNext]_boardVars => BoardInv'
    BY BoardSteps, BoardSettingStays, BoardTypesStep, EveryoneKnowsThePlaceStep,
       DisksAreKnownStep, ResumesFollowCrashesStep DEF BoardInv
<1>3. BoardInv => S
    <2> SUFFICES ASSUME BoardInv
                 PROVE  S
        OBVIOUS
    <2>1. ASSUME "retry fresh" \notin Keys
          PROVE  HostTracksWorktree /\ SessionIsTheCurrentAgents
        BY <2>1 DEF BoardInv, EveryoneKnowsThePlace, HostTracksWorktree, SessionIsTheCurrentAgents,
            Placed, IsDeleted
    <2>2. ASSUME OneBoard, {"dispatch", "retry fresh"} \cap Keys = {}
          PROVE  NoWorktreeIsForgotten
        BY <2>2 DEF BoardInv, DisksAreKnown, NoWorktreeIsForgotten, IsDeleted
    <2>3. ASSUME OneBoard, {"dispatch", "retry fresh", "delete"} \cap Keys = {}
          PROVE  CrashedAgentsAreDead
        <3>1. ASSUME row.crashed, NEW b \in Board, inWindow[b] # NoOne
              PROVE  resume[b] # "none"
            <4>1. OneAnswer(b) /\ CrashesAreOlder(b)
                BY <2>3 DEF BoardInv, ResumesFollowCrashes
            <4>2. PICK j \in 1..Len(inbox[b]) : inbox[b][j] = "resumed"
                BY <3>1, <4>1 DEF CrashesAreOlder
            <4> QED
                BY <4>1, <4>2 DEF OneAnswer, ResumeAnswer
        <3> QED
            BY <3>1 DEF CrashedAgentsAreDead
    <2>4. BoardTypeOK
        BY DEF BoardInv
    <2> QED
        BY <2>1, <2>2, <2>3, <2>4
<1>4. BoardInv /\ [BoardNext]_boardVars => [ReleasesPointersOnPurpose]_boardVars
    BY PointersReleasedOnPurpose DEF BoardInv
<1> QED
    <2>1. BoardSpec => []S
        BY <1>1, <1>2, <1>3, PTL DEF BoardSpec
    <2>2. BoardSpec => [][ReleasesPointersOnPurpose]_boardVars
        BY <1>1, <1>2, <1>4, PTL DEF BoardSpec
    <2> QED
        BY <2>1, <2>2 DEF RowsKeepTheirAgents

----------------------------------------------------------------------------
(* PrPolling: who gives a pull request up, and who says so *)

(* A board reads one thing at a time, and only while it has not given up.  *)
Reads(b) == poll[b].at # "idle" \/ prInbox[b] # "none"

ReadsOneByOne ==
    \A b \in PrBoard :
        /\ poll[b].at # "idle" => prInbox[b] = "none"
        /\ Reads(b) => ~GaveUp(b)

(* A task with a host keeps it, on every copy, and no other board reads.   *)
HostReads ==
    Hosted # Nobody =>
        /\ prRow.host = Hosted
        /\ \A b \in PrBoard : prCopy[b].host = Hosted
        /\ \A b \in PrBoard : Reads(b) \/ failures[b] > 0 => b = Hosted

(* Where no claim is lost, nobody reads before there is an owner, and a    *)
(* board that does not get to own the poll reads once.                     *)
OthersReadOnce ==
    MaxLosses = 0 /\ Hosted = Nobody /\ "dispatch" \notin PrEvents =>
        /\ prRow.host = Nobody
        /\ \A b \in PrBoard : prCopy[b].host = Nobody
        /\ owner = Nobody =>
               \A b \in PrBoard : /\ poll[b].at \in {"idle", "owner", "claim"}
                                  /\ prInbox[b] = "none" /\ failures[b] = 0
        /\ owner # Nobody =>
               \A b \in PrBoard \ {owner} :
                   /\ failures[b] \in {0, 1}
                   /\ poll[b].at \in {"claim", "read", "look", "report"} \/ prInbox[b] # "none"
                          => failures[b] = 0

(* Nobody takes the task out of review but a merge.                        *)
NobodyMovesOn == {"dispatch", "move", "prompt"} \cap PrEvents = {}

StaysInReview ==
    NobodyMovesOn =>
        /\ prAgent # "works"
        /\ prRow.status \in {"review", "done"}
        /\ \A b \in PrBoard : prCopy[b].status # "review" => prRow.status = "done"

ShownUnreadable == prRow.status = "review" => prRow.sub \in {"pr_unreachable", "conflict"}

(* While a board reads, a copy that shows the task as unreadable is not    *)
(* overtaken by a row that does not; so a board that gives up without a    *)
(* report has none to make.                                                *)
GivingUpIsSaid ==
    OneReader /\ MaxLosses = 0 /\ NobodyMovesOn =>
        /\ \A b \in PrBoard :
               (poll[b].at # "idle" \/ prInbox[b] = "failed for good")
                   /\ prCopy[b].sub = "pr_unreachable" => ShownUnreadable
        /\ GiveUpIsShown

PrInv ==
    /\ prSetting \in PrSettings
    /\ PrTypeOK
    /\ ReadsOneByOne
    /\ HostReads
    /\ OthersReadOnce
    /\ StaysInReview
    /\ GivingUpIsSaid

LEMMA PrSettings_ ==
    ASSUME prSetting \in PrSettings
    PROVE  /\ Nobody \notin PrBoard /\ Hosted \in PrBoard \cup {Nobody}
           /\ FirstPr \in Pr /\ GiveUpAfter \in Nat \ {0} /\ MaxLosses \in Nat
BY PrPollingAssumption DEF PrBoard, Hosted, FirstPr, Pr, GiveUpAfter, MaxLosses

LEMMA PrSettingStays ==
    ASSUME UNCHANGED prSetting
    PROVE  /\ PrBoard' = PrBoard /\ Pr' = Pr /\ FirstPr' = FirstPr /\ Hosted' = Hosted
           /\ GiveUpAfter' = GiveUpAfter /\ MaxLosses' = MaxLosses /\ PrEvents' = PrEvents
           /\ PrRow' = PrRow /\ Poll' = Poll /\ IdlePoll' = IdlePoll
BY DEF PrBoard, Pr, FirstPr, Hosted, GiveUpAfter, MaxLosses, PrEvents, PrRow, Poll, IdlePoll

(* The steps of a board, of the people and the agent, and the rest, which  *)
(* touches neither the row nor a board.                                    *)
BoardPolls(b) ==
    \/ TickPrPoll(b) \/ CheckOwner(b) \/ ClaimOwner(b) \/ ReadPr(b) \/ LookAtTask(b)
    \/ ReportStatus(b)

OthersMove ==
    \/ AgentStops \/ FindConflict \/ AgentIsPrompted
    \/ \E p \in Pr : EditUrl(p)
    \/ \E b \in PrBoard : DispatchTask(b)
    \/ \E b \in PrBoard, status \in {"review", "done"} : MoveCard(b, status)

OthersRest ==
    /\ \/ \E p \in Pr : ReviewPr(p) \/ ChangeAccess(p)
       \/ OutsideEnds
       \/ UNCHANGED prVars
    /\ UNCHANGED <<prRow, owner, prAgent, prCopy, poll, prInbox, failures, job, losses>>

LEMMA PrSteps ==
    ASSUME [PrNext]_prVars
    PROVE  /\ UNCHANGED prSetting
           /\ \/ \E b \in PrBoard : BoardPolls(b)
              \/ \E b \in PrBoard : HandleMerged(b) \/ HandleSeen(b) \/ HandleTransient(b)
                                    \/ HandlePermanent(b)
              \/ \E b \in PrBoard : ReportUnreadable(b) \/ KillWindow(b)
              \/ \E b \in PrBoard : RefreshRead(b) \/ Restart(b)
              \/ OthersMove
              \/ OthersRest
<1>1. CASE UNCHANGED prVars
    BY <1>1 DEF prVars, pollVars, readerVars, OthersRest
<1>2. CASE OutsideEnds /\ UNCHANGED prSetting
    BY <1>2 DEF OutsideEnds, readerVars, OthersRest
<1>3. CASE Outside /\ UNCHANGED prSetting
    BY <1>3 DEF Outside, ReviewPr, ChangeAccess, readerVars, OthersRest, OthersMove
<1>4. CASE Stop /\ UNCHANGED prSetting
    BY <1>4 DEF Stop, OthersMove
<1>5. CASE UNCHANGED prSetting /\ \E b \in PrBoard : PollStep(b) \/ HandleAnswer(b) \/ RunJob(b) \/ See(b)
    BY <1>5 DEF PollStep, HandleAnswer, RunJob, See, BoardPolls
<1> QED
    BY <1>1, <1>2, <1>3, <1>4, <1>5 DEF PrNext, PrStep

LEMMA PrRowsStayTyped ==
    ASSUME NEW r \in PrRow, NEW state \in PrState
    PROVE  AppliedState(r, state) \in PrRow /\ Unreadable(r) \in PrRow
BY DEF AppliedState, Unreadable, ReviewSub, PrRow, PrState

LEMMA PrTypesStep ==
    ASSUME prSetting \in PrSettings, PrTypeOK, ReadsOneByOne, [PrNext]_prVars
    PROVE  PrTypeOK' /\ ReadsOneByOne'
<1>0. /\ PrBoard' = PrBoard /\ Pr' = Pr /\ GiveUpAfter' = GiveUpAfter /\ MaxLosses' = MaxLosses
      /\ PrRow' = PrRow /\ Poll' = Poll
    BY PrSteps, PrSettingStays
<1>1. /\ Nobody \notin PrBoard /\ Hosted \in PrBoard \cup {Nobody}
      /\ FirstPr \in Pr /\ GiveUpAfter \in Nat \ {0} /\ MaxLosses \in Nat
    BY PrSettings_
<1>2. IdlePoll \in Poll /\ IdlePoll.at = "idle"
    BY <1>1 DEF IdlePoll, Poll, PrState
<1>3. /\ prRow \in PrRow /\ owner \in PrBoard \cup {Nobody} /\ pr \in [Pr -> PrState]
      /\ prCopy \in [PrBoard -> PrRow] /\ poll \in [PrBoard -> Poll]
      /\ prInbox \in [PrBoard -> Answer] /\ failures \in [PrBoard -> 0..GiveUpAfter]
      /\ job \in [PrBoard -> Job] /\ losses \in 0..MaxLosses /\ readable \in [Pr -> BOOLEAN]
      /\ prAgent \in {"none", "works", "rests"} /\ prQuiet \in BOOLEAN
    BY DEF PrTypeOK
<1>4. ASSUME NEW b \in PrBoard
      PROVE  /\ poll[b].at # "idle" => prInbox[b] = "none"
             /\ poll[b].at # "idle" \/ prInbox[b] # "none" => ~(failures[b] >= GiveUpAfter)
    BY DEF ReadsOneByOne, Reads, GaveUp
<1>5. prQuiet' \in BOOLEAN
    BY <1>3 DEF PrNext, PrStep, PollStep, HandleAnswer, RunJob, See, Stop, Outside, OutsideEnds, prVars, pollVars
<1>6. ASSUME NEW b \in PrBoard, BoardPolls(b)
      PROVE  PrTypeOK' /\ ReadsOneByOne'
    <2>1. CASE TickPrPoll(b)
        <3>1. [IdlePoll EXCEPT !.at = IF prCopy[b].host = Nobody THEN "owner" ELSE "read",
                               !.url = prCopy[b].url] \in Poll
            BY <1>2, <1>3 DEF Poll, PrRow
        <3> QED
            BY <2>1, <3>1, <1>0, <1>3, <1>4, <1>5
            DEF TickPrPoll, PrTypeOK, ReadsOneByOne, Reads, GaveUp
    <2>2. CASE CheckOwner(b)
        <3>1. poll' \in [PrBoard -> Poll] /\ \A c \in PrBoard : poll'[c].at # "idle" => poll[c].at # "idle"
            BY <2>2, <1>2, <1>3 DEF CheckOwner, Poll
        <3> QED
            BY <2>2, <3>1, <1>0, <1>3, <1>4, <1>5
            DEF CheckOwner, PrTypeOK, ReadsOneByOne, Reads, GaveUp
    <2>3. CASE ClaimOwner(b)
        <3>1. poll' \in [PrBoard -> Poll] /\ \A c \in PrBoard : poll'[c].at # "idle" => poll[c].at # "idle"
            BY <2>3, <1>2, <1>3 DEF ClaimOwner, Poll
        <3>2. owner' \in PrBoard \cup {Nobody} /\ losses' \in 0..MaxLosses
            BY <2>3, <1>1, <1>3 DEF ClaimOwner, Claim, Lose
        <3> QED
            BY <2>3, <3>1, <3>2, <1>0, <1>3, <1>4, <1>5
            DEF ClaimOwner, PrTypeOK, ReadsOneByOne, Reads, GaveUp
    <2>4. CASE ReadPr(b)
        <3>1. poll[b].url \in Pr /\ pr[poll[b].url] \in PrState
            BY <1>3 DEF Poll
        <3>2. CASE readable[poll[b].url] /\ poll'[b].at # "idle" /\ UNCHANGED <<prInbox, losses>>
            <4> DEFINE q == [poll[b] EXCEPT
                                 !.at = IF pr[poll[b].url] \in {"MERGED", "CLOSED"}
                                        THEN "look" ELSE "report",
                                 !.state = pr[poll[b].url]]
            <4>1. q \in Poll
                BY <3>1, <1>3 DEF Poll
            <4>2. poll' = [poll EXCEPT ![b] = q]
                BY <2>4, <3>2, <1>2, <1>3 DEF ReadPr
            <4>3. poll' \in [PrBoard -> Poll] /\ \A c \in PrBoard \ {b} : poll'[c] = poll[c]
                BY <4>1, <4>2, <1>3
            <4> QED
                BY <2>4, <3>2, <4>3, <1>0, <1>3, <1>4, <1>5
                DEF ReadPr, PrTypeOK, ReadsOneByOne, Reads, GaveUp
        <3>3. CASE /\ poll' = [poll EXCEPT ![b] = IdlePoll]
                   /\ \E a \in {"failed", "failed for good"} : prInbox' = [prInbox EXCEPT ![b] = a]
                   /\ losses' \in 0..MaxLosses
            <4>1. /\ poll' \in [PrBoard -> Poll] /\ poll'[b].at = "idle"
                  /\ prInbox' \in [PrBoard -> Answer]
                  /\ \A c \in PrBoard \ {b} : poll'[c] = poll[c] /\ prInbox'[c] = prInbox[c]
                BY <3>3, <1>2, <1>3 DEF Answer
            <4> QED
                BY <2>4, <3>3, <4>1, <1>0, <1>3, <1>4, <1>5
                DEF ReadPr, PrTypeOK, ReadsOneByOne, Reads, GaveUp
        <3> QED
            <4>1. CASE /\ readable[poll[b].url]
                       /\ poll' = [poll EXCEPT ![b].at = IF pr[poll[b].url] \in {"MERGED", "CLOSED"}
                                                         THEN "look" ELSE "report",
                                               ![b].state = pr[poll[b].url]]
                       /\ UNCHANGED <<prInbox, losses>>
                <5>1. poll'[b].at # "idle"
                    BY <4>1, <1>3 DEF Poll
                <5> QED
                    BY <5>1, <4>1, <3>2
            <4>2. CASE /\ poll' = [poll EXCEPT ![b] = IdlePoll]
                       /\ prInbox' = [prInbox EXCEPT ![b] = "failed for good"]
                       /\ UNCHANGED losses
                BY <4>2, <3>3, <1>3
            <4>3. CASE /\ poll' = [poll EXCEPT ![b] = IdlePoll]
                       /\ prInbox' = [prInbox EXCEPT ![b] = "failed"]
                       /\ Lose
                <5>1. losses' \in 0..MaxLosses
                    BY <4>3, <1>1, <1>3 DEF Lose
                <5> QED
                    BY <5>1, <4>3, <3>3
            <4> QED
                BY <2>4, <4>1, <4>2, <4>3 DEF ReadPr
    <2>5. CASE LookAtTask(b)
        <3>1. poll' \in [PrBoard -> Poll] /\ \A c \in PrBoard : poll'[c].at # "idle" => poll[c].at # "idle"
            BY <2>5, <1>2, <1>3 DEF LookAtTask, Poll, PrRow
        <3> QED
            BY <2>5, <3>1, <1>0, <1>3, <1>4, <1>5
            DEF LookAtTask, PrTypeOK, ReadsOneByOne, Reads, GaveUp
    <2>6. CASE ReportStatus(b)
        <3>1. poll[b].state \in PrState
            BY <1>3 DEF Poll
        <3>2. AppliedState(prRow, poll[b].state) \in PrRow
            BY <3>1, <1>3, PrRowsStayTyped
        <3>3. prRow' \in PrRow
            BY <2>6, <3>2, <1>3 DEF ReportStatus
        <3>4. losses' \in 0..MaxLosses
            BY <2>6, <1>1, <1>3 DEF ReportStatus, Lose
        <3>5. PICK a \in Answer : prInbox' = [prInbox EXCEPT ![b] = a]
            BY <2>6 DEF ReportStatus, Answer, AnswerTo
        <3>6. /\ poll' \in [PrBoard -> Poll] /\ poll'[b].at = "idle" /\ poll[b].at = "report"
              /\ prInbox' \in [PrBoard -> Answer]
              /\ \A c \in PrBoard \ {b} : poll'[c] = poll[c] /\ prInbox'[c] = prInbox[c]
            BY <2>6, <3>5, <1>2, <1>3 DEF ReportStatus
        <3> QED
            BY <2>6, <3>3, <3>4, <3>6, <1>0, <1>3, <1>4, <1>5
            DEF ReportStatus, PrTypeOK, ReadsOneByOne, Reads, GaveUp
    <2> QED
        BY <1>6, <2>1, <2>2, <2>3, <2>4, <2>5, <2>6 DEF BoardPolls
<1>7. ASSUME NEW b \in PrBoard,
             HandleMerged(b) \/ HandleSeen(b) \/ HandleTransient(b) \/ HandlePermanent(b)
      PROVE  PrTypeOK' /\ ReadsOneByOne'
    <2>1. /\ prInbox' = [prInbox EXCEPT ![b] = "none"] /\ prInbox[b] # "none"
          /\ UNCHANGED <<prRow, owner, pr, readable, prAgent, prCopy, poll, losses>>
        BY <1>7 DEF HandleMerged, HandleSeen, HandleTransient, HandlePermanent
    <2>2. failures' \in [PrBoard -> 0..GiveUpAfter]
          /\ \A c \in PrBoard \ {b} : failures'[c] = failures[c]
        <3>1. ~(failures[b] >= GiveUpAfter)
            BY <2>1, <1>4
        <3>2. failures[b] + 1 \in 0..GiveUpAfter /\ 0 \in 0..GiveUpAfter
            BY <3>1, <1>1, <1>3
        <3>3. PICK n \in 0..GiveUpAfter : failures' = [failures EXCEPT ![b] = n]
            <4>1. CASE UNCHANGED failures
                BY <4>1, <1>3
            <4>2. CASE failures' = [failures EXCEPT ![b] = failures[b] + 1]
                BY <4>2, <3>2
            <4>3. CASE failures' = [failures EXCEPT ![b] = 0]
                BY <4>3, <3>2
            <4> QED
                BY <1>7, <4>1, <4>2, <4>3
                DEF HandleMerged, HandleSeen, HandleTransient, HandlePermanent
        <3> QED
            BY <3>3, <1>3
    <2>3. job' \in [PrBoard -> Job]
        BY <1>7, <1>3 DEF HandleMerged, HandleSeen, HandleTransient, HandlePermanent, Job
    <2>4. prInbox' \in [PrBoard -> Answer] /\ poll[b].at = "idle"
        BY <2>1, <1>3, <1>4 DEF Answer
    <2> QED
        BY <2>1, <2>2, <2>3, <2>4, <1>0, <1>3, <1>4, <1>5 DEF PrTypeOK, ReadsOneByOne, Reads, GaveUp
<1>8. ASSUME NEW b \in PrBoard, ReportUnreadable(b) \/ KillWindow(b)
      PROVE  PrTypeOK' /\ ReadsOneByOne'
    <2>1. prRow' \in PrRow /\ job' \in [PrBoard -> Job] /\ losses' \in 0..MaxLosses
          /\ prAgent' \in {"none", "works", "rests"}
        <3>1. Unreadable(prRow) \in PrRow
            BY <1>3, PrRowsStayTyped DEF PrState
        <3>2. prRow' \in PrRow
            BY <1>8, <1>3, <3>1 DEF ReportUnreadable, KillWindow
        <3>3. job' = [job EXCEPT ![b] = "none"]
            BY <1>8 DEF ReportUnreadable, KillWindow
        <3>4. losses' \in 0..MaxLosses
            <4>1. UNCHANGED losses \/ Lose
                BY <1>8 DEF ReportUnreadable, KillWindow
            <4> QED
                BY <4>1, <1>1, <1>3 DEF Lose
        <3>5. prAgent' \in {"none", "works", "rests"}
            BY <1>8, <1>3 DEF ReportUnreadable, KillWindow
        <3> QED
            BY <3>2, <3>3, <3>4, <3>5, <1>3 DEF Job
    <2>2. UNCHANGED <<owner, pr, readable, prCopy, poll, prInbox, failures>>
        BY <1>8 DEF ReportUnreadable, KillWindow
    <2> QED
        BY <2>1, <2>2, <1>0, <1>3, <1>4, <1>5 DEF PrTypeOK, ReadsOneByOne, Reads, GaveUp
<1>9. ASSUME NEW b \in PrBoard, RefreshRead(b) \/ Restart(b)
      PROVE  PrTypeOK' /\ ReadsOneByOne'
    <2>1. /\ prCopy' \in [PrBoard -> PrRow] /\ poll' \in [PrBoard -> Poll]
          /\ prInbox' \in [PrBoard -> Answer] /\ failures' \in [PrBoard -> 0..GiveUpAfter]
          /\ job' \in [PrBoard -> Job]
        <3>1. CASE RefreshRead(b)
            BY <3>1, <1>3 DEF RefreshRead
        <3>2. CASE Restart(b)
            <4>1. 0 \in 0..GiveUpAfter
                BY <1>1
            <4> QED
                BY <3>2, <4>1, <1>2, <1>3 DEF Restart, Answer, Job
        <3> QED
            BY <1>9, <3>1, <3>2
    <2>2. \A c \in PrBoard :
              \/ poll'[c] = poll[c] /\ prInbox'[c] = prInbox[c] /\ failures'[c] = failures[c]
              \/ poll'[c].at = "idle" /\ prInbox'[c] = "none"
        BY <1>9, <1>2, <1>3 DEF RefreshRead, Restart
    <2>3. UNCHANGED <<prRow, owner, pr, readable, prAgent, losses>>
        BY <1>9 DEF RefreshRead, Restart
    <2> QED
        BY <2>1, <2>2, <2>3, <1>0, <1>3, <1>4, <1>5 DEF PrTypeOK, ReadsOneByOne, Reads, GaveUp
<1>10. ASSUME OthersMove
       PROVE  PrTypeOK' /\ ReadsOneByOne'
    <2>1. prRow' \in PrRow
        <3>1. ASSUME NEW st \in {"running", "review", "done"},
                     NEW su \in {"active", "awaiting_review", "conflict", "none"}
              PROVE  /\ [prRow EXCEPT !.status = st, !.sub = su] \in PrRow
                     /\ [prRow EXCEPT !.sub = su] \in PrRow
            BY <1>3 DEF PrRow
        <3>2. CASE AgentStops \/ FindConflict \/ AgentIsPrompted
            BY <3>1, <3>2, <1>3 DEF AgentStops, FindConflict, AgentIsPrompted
        <3>3. ASSUME NEW p \in Pr, EditUrl(p)
              PROVE  prRow' \in PrRow
            BY <3>3, <1>3 DEF EditUrl, PrRow
        <3>4. ASSUME NEW b \in PrBoard, DispatchTask(b)
              PROVE  prRow' \in PrRow
            BY <3>4, <1>3 DEF DispatchTask, PrRow
        <3>5. ASSUME NEW b \in PrBoard, NEW status \in {"review", "done"}, MoveCard(b, status)
              PROVE  prRow' \in PrRow
            <4>1. MovedSub(status) \in {"awaiting_review", "none"}
                BY DEF MovedSub
            <4> QED
                BY <4>1, <3>5, <3>1 DEF MoveCard
        <3> QED
            BY <1>10, <3>2, <3>3, <3>4, <3>5 DEF OthersMove
    <2>2. /\ prCopy' \in [PrBoard -> PrRow] /\ failures' \in [PrBoard -> 0..GiveUpAfter]
          /\ \A c \in PrBoard : failures'[c] \in {0, failures[c]}
        <3>1. CASE UNCHANGED <<prCopy, failures>>
            BY <3>1, <1>3
        <3>2. ASSUME NEW b \in PrBoard,
                     prCopy' = [prCopy EXCEPT ![b] = prRow'], failures' = [failures EXCEPT ![b] = 0]
              PROVE  /\ prCopy' \in [PrBoard -> PrRow] /\ failures' \in [PrBoard -> 0..GiveUpAfter]
                     /\ \A c \in PrBoard : failures'[c] \in {0, failures[c]}
            <4>1. 0 \in 0..GiveUpAfter
                BY <1>1
            <4> QED
                BY <4>1, <3>2, <2>1, <1>3
        <3> QED
            BY <1>10, <3>1, <3>2 DEF OthersMove, AgentStops, FindConflict, AgentIsPrompted, EditUrl,
                DispatchTask, MoveCard, readerVars
    <2>3. UNCHANGED <<owner, pr, readable, poll, prInbox, job, losses>>
        BY <1>10 DEF OthersMove, AgentStops, FindConflict, AgentIsPrompted, EditUrl,
            DispatchTask, MoveCard, readerVars
    <2>4. prAgent' \in {"none", "works", "rests"}
        BY <1>10, <1>3 DEF OthersMove, AgentStops, FindConflict, AgentIsPrompted, EditUrl,
            DispatchTask, MoveCard, readerVars
    <2> QED
        BY <2>1, <2>2, <2>3, <2>4, <1>0, <1>1, <1>3, <1>4, <1>5
        DEF PrTypeOK, ReadsOneByOne, Reads, GaveUp
<1>11. ASSUME OthersRest
       PROVE  PrTypeOK' /\ ReadsOneByOne'
    <2>1. pr' \in [Pr -> PrState] /\ readable' \in [Pr -> BOOLEAN]
        BY <1>11, <1>3 DEF OthersRest, ReviewPr, ChangeAccess, OutsideEnds, prVars, pollVars
    <2> QED
        BY <2>1, <1>11, <1>0, <1>3, <1>4, <1>5
        DEF OthersRest, PrTypeOK, ReadsOneByOne, Reads, GaveUp
<1> QED
    BY <1>6, <1>7, <1>8, <1>9, <1>10, <1>11, PrSteps

(* What a board reads, holds and counts is changed by its own steps alone. *)
LEMMA BoardsReadAlone ==
    ASSUME prSetting \in PrSettings, PrTypeOK, [PrNext]_prVars, NEW c \in PrBoard,
           ~BoardPolls(c), ~HandleMerged(c), ~HandleSeen(c), ~HandleTransient(c),
           ~HandlePermanent(c)
    PROVE  /\ \/ poll'[c] = poll[c] /\ prInbox'[c] = prInbox[c]
              \/ poll'[c].at = "idle" /\ prInbox'[c] = "none"
           /\ failures'[c] \in {0, failures[c]}
<1>1. /\ poll \in [PrBoard -> Poll] /\ prInbox \in [PrBoard -> Answer]
      /\ failures \in [PrBoard -> 0..GiveUpAfter] /\ IdlePoll.at = "idle"
    BY DEF PrTypeOK, IdlePoll
<1>2. ASSUME NEW b \in PrBoard, BoardPolls(b)
      PROVE  poll'[c] = poll[c] /\ prInbox'[c] = prInbox[c] /\ failures'[c] = failures[c]
    <2>0. b # c
        BY <1>2
    <2>1. b # c /\ UNCHANGED failures
        BY <1>2, <2>0
        DEF BoardPolls, TickPrPoll, CheckOwner, ClaimOwner, ReadPr, LookAtTask, ReportStatus
    <2>2. poll'[c] = poll[c]
        BY <1>1, <1>2, <2>1
        DEF BoardPolls, TickPrPoll, CheckOwner, ClaimOwner, ReadPr, LookAtTask, ReportStatus
    <2>3. prInbox'[c] = prInbox[c]
        BY <1>1, <1>2, <2>1
        DEF BoardPolls, TickPrPoll, CheckOwner, ClaimOwner, ReadPr, LookAtTask, ReportStatus
    <2> QED
        BY <2>1, <2>2, <2>3
<1>3. ASSUME NEW b \in PrBoard,
             HandleMerged(b) \/ HandleSeen(b) \/ HandleTransient(b) \/ HandlePermanent(b)
      PROVE  poll'[c] = poll[c] /\ prInbox'[c] = prInbox[c] /\ failures'[c] = failures[c]
    <2>1. b # c
        BY <1>3
    <2> QED
        BY <1>1, <1>3, <2>1 DEF HandleMerged, HandleSeen, HandleTransient, HandlePermanent
<1>4. CASE \E b \in PrBoard : ReportUnreadable(b) \/ KillWindow(b)
    BY <1>4 DEF ReportUnreadable, KillWindow
<1>5. ASSUME NEW b \in PrBoard, RefreshRead(b)
      PROVE  UNCHANGED <<poll, prInbox, failures>>
    BY <1>5 DEF RefreshRead
<1>6. ASSUME NEW b \in PrBoard, Restart(b)
      PROVE  /\ \/ poll'[c] = poll[c] /\ prInbox'[c] = prInbox[c]
                \/ poll'[c].at = "idle" /\ prInbox'[c] = "none"
             /\ failures'[c] \in {0, failures[c]}
    BY <1>1, <1>6 DEF Restart
<1>7. CASE OthersMove
    <2>1. UNCHANGED <<poll, prInbox>>
        BY <1>7 DEF OthersMove, AgentStops, FindConflict, AgentIsPrompted, EditUrl, DispatchTask,
            MoveCard, readerVars
    <2>2. UNCHANGED failures \/ \E b \in PrBoard : failures' = [failures EXCEPT ![b] = 0]
        BY <1>7 DEF OthersMove, AgentStops, FindConflict, AgentIsPrompted, EditUrl, DispatchTask,
            MoveCard, readerVars
    <2> QED
        BY <1>1, <2>1, <2>2
<1>8. CASE OthersRest
    BY <1>8 DEF OthersRest
<1> QED
    BY <1>2, <1>3, <1>4, <1>5, <1>6, <1>7, <1>8, PrSteps

(* No step but a dispatch moves the task to a machine.                     *)
LEMMA HostsStay ==
    ASSUME PrTypeOK, [PrNext]_prVars
    PROVE  /\ \/ prRow'.host = prRow.host
              \/ "dispatch" \in PrEvents /\ prRow.host = Nobody
           /\ \A c \in PrBoard : prCopy'[c] \in {prCopy[c], prRow'}
<1>1. prRow \in PrRow /\ prCopy \in [PrBoard -> PrRow] /\ \A b \in PrBoard : poll[b].state \in PrState
    BY DEF PrTypeOK, Poll
<1>2. \A state \in PrState :
          AppliedState(prRow, state).host = prRow.host /\ Unreadable(prRow).host = prRow.host
    BY <1>1 DEF AppliedState, Unreadable, PrRow, PrState
<1>3. ASSUME NEW b \in PrBoard, BoardPolls(b)
      PROVE  prRow'.host = prRow.host /\ UNCHANGED prCopy
    BY <1>1, <1>2, <1>3
    DEF BoardPolls, TickPrPoll, CheckOwner, ClaimOwner, ReadPr, LookAtTask, ReportStatus
<1>4. CASE \E b \in PrBoard : HandleMerged(b) \/ HandleSeen(b) \/ HandleTransient(b)
                              \/ HandlePermanent(b)
    BY <1>4 DEF HandleMerged, HandleSeen, HandleTransient, HandlePermanent
<1>5. CASE \E b \in PrBoard : ReportUnreadable(b) \/ KillWindow(b)
    <2>1. "OPEN" \in PrState
        BY DEF PrState
    <2> QED
        BY <1>2, <1>5, <2>1 DEF ReportUnreadable, KillWindow
<1>6. CASE \E b \in PrBoard : RefreshRead(b) \/ Restart(b)
    BY <1>1, <1>6 DEF RefreshRead, Restart
<1>7. CASE OthersMove
    <2>1. CASE AgentStops \/ FindConflict \/ AgentIsPrompted \/ \E p \in Pr : EditUrl(p)
        BY <1>1, <2>1 DEF AgentStops, FindConflict, AgentIsPrompted, EditUrl, readerVars, PrRow
    <2>2. CASE \E b \in PrBoard : DispatchTask(b)
        BY <2>2 DEF DispatchTask, readerVars
    <2>3. ASSUME NEW b \in PrBoard, NEW status \in {"review", "done"}, MoveCard(b, status)
          PROVE  prRow'.host = prRow.host /\ \A c \in PrBoard : prCopy'[c] \in {prCopy[c], prRow'}
        BY <1>1, <2>3 DEF MoveCard, PrRow
    <2> QED
        BY <1>7, <2>1, <2>2, <2>3 DEF OthersMove
<1>8. CASE OthersRest
    BY <1>8 DEF OthersRest
<1> QED
    BY <1>3, <1>4, <1>5, <1>6, <1>7, <1>8, PrSteps

LEMMA HostReadsStep ==
    ASSUME prSetting \in PrSettings, PrTypeOK, ReadsOneByOne, HostReads, [PrNext]_prVars
    PROVE  HostReads'
<1> SUFFICES ASSUME Hosted # Nobody, UNCHANGED prSetting
             PROVE  /\ prRow'.host = Hosted
                    /\ \A b \in PrBoard : prCopy'[b].host = Hosted
                    /\ \A b \in PrBoard : Reads(b)' \/ failures'[b] > 0 => b = Hosted
    BY PrSteps, PrSettingStays DEF HostReads
<1>1. /\ prRow.host = Hosted /\ \A b \in PrBoard : prCopy[b].host = Hosted
      /\ \A b \in PrBoard : Reads(b) \/ failures[b] > 0 => b = Hosted
    BY DEF HostReads
<1>2. prRow'.host = Hosted /\ \A b \in PrBoard : prCopy'[b].host = Hosted
    BY <1>1, HostsStay
<1>3. /\ failures \in [PrBoard -> 0..GiveUpAfter] /\ GiveUpAfter \in Nat
      /\ poll \in [PrBoard -> Poll] /\ prInbox \in [PrBoard -> Answer]
    BY PrSettings_ DEF PrTypeOK
<1>4. ASSUME NEW c \in PrBoard, Reads(c)' \/ failures'[c] > 0, c # Hosted
      PROVE  FALSE
    <2>1. ~Reads(c) /\ ~(failures[c] > 0)
        BY <1>1, <1>4
    <2>2. ~BoardPolls(c)
        BY <2>1, <1>1, <1>4, <1>3
        DEF Reads, BoardPolls, TickPrPoll, Pollable, CheckOwner, ClaimOwner, ReadPr, LookAtTask,
            ReportStatus
    <2>3. ~HandleMerged(c) /\ ~HandleSeen(c) /\ ~HandleTransient(c) /\ ~HandlePermanent(c)
        BY <2>1 DEF Reads, HandleMerged, HandleSeen, HandleTransient, HandlePermanent
    <2> QED
        BY <2>1, <2>2, <2>3, <1>3, <1>4, BoardsReadAlone DEF Reads
<1> QED
    BY <1>2, <1>4

(* Only a claim makes a board the owner, and only where there is none.     *)
LEMMA OwnersStay ==
    ASSUME [PrNext]_prVars
    PROVE  \/ UNCHANGED owner
           \/ owner = Nobody /\ \E b \in PrBoard : ClaimOwner(b) /\ owner' = b
<1>1. CASE \E b \in PrBoard : BoardPolls(b)
    BY <1>1 DEF BoardPolls, TickPrPoll, CheckOwner, ClaimOwner, Claim, ReadPr, LookAtTask, ReportStatus
<1>2. CASE \E b \in PrBoard : HandleMerged(b) \/ HandleSeen(b) \/ HandleTransient(b)
                              \/ HandlePermanent(b)
    BY <1>2 DEF HandleMerged, HandleSeen, HandleTransient, HandlePermanent
<1>3. CASE \E b \in PrBoard : ReportUnreadable(b) \/ KillWindow(b) \/ RefreshRead(b) \/ Restart(b)
    BY <1>3 DEF ReportUnreadable, KillWindow, RefreshRead, Restart
<1>4. CASE OthersMove
    BY <1>4 DEF OthersMove, AgentStops, FindConflict, AgentIsPrompted, EditUrl, DispatchTask,
        MoveCard, readerVars
<1>5. CASE OthersRest
    BY <1>5 DEF OthersRest
<1> QED
    BY <1>1, <1>2, <1>3, <1>4, <1>5, PrSteps

LEMMA OthersReadOnceStep ==
    ASSUME prSetting \in PrSettings, PrTypeOK, ReadsOneByOne, OthersReadOnce, [PrNext]_prVars
    PROVE  OthersReadOnce'
<1> SUFFICES ASSUME MaxLosses = 0, Hosted = Nobody, "dispatch" \notin PrEvents,
                    UNCHANGED prSetting
             PROVE  /\ prRow'.host = Nobody
                    /\ \A b \in PrBoard : prCopy'[b].host = Nobody
                    /\ owner' = Nobody =>
                           \A b \in PrBoard :
                               /\ poll'[b].at \in {"idle", "owner", "claim"}
                               /\ prInbox'[b] = "none" /\ failures'[b] = 0
                    /\ owner' # Nobody =>
                           \A b \in PrBoard \ {owner'} :
                               /\ failures'[b] \in {0, 1}
                               /\ (poll'[b].at \in {"claim", "read", "look", "report"}
                                       \/ prInbox'[b] # "none")
                                      => failures'[b] = 0
    BY PrSteps, PrSettingStays DEF OthersReadOnce
<1>1. /\ prRow.host = Nobody /\ \A b \in PrBoard : prCopy[b].host = Nobody
      /\ owner = Nobody =>
             \A b \in PrBoard : /\ poll[b].at \in {"idle", "owner", "claim"}
                                /\ prInbox[b] = "none" /\ failures[b] = 0
      /\ owner # Nobody =>
             \A b \in PrBoard \ {owner} :
                 /\ failures[b] \in {0, 1}
                 /\ poll[b].at \in {"claim", "read", "look", "report"} \/ prInbox[b] # "none"
                        => failures[b] = 0
    BY DEF OthersReadOnce
<1>2. /\ failures \in [PrBoard -> 0..GiveUpAfter] /\ GiveUpAfter \in Nat \ {0}
      /\ poll \in [PrBoard -> Poll] /\ prInbox \in [PrBoard -> Answer] /\ losses = 0
      /\ prCopy \in [PrBoard -> PrRow]
      /\ Nobody \notin PrBoard /\ ~Lose /\ IdlePoll.at = "idle"
    BY PrSettings_ DEF PrTypeOK, Lose, IdlePoll
<1>3. prRow'.host = Nobody /\ \A b \in PrBoard : prCopy'[b].host = Nobody
    BY <1>1, HostsStay
<1>4. ASSUME owner' = Nobody, NEW c \in PrBoard
      PROVE  /\ poll'[c].at \in {"idle", "owner", "claim"}
             /\ prInbox'[c] = "none" /\ failures'[c] = 0
    <2>1. owner = Nobody
        BY <1>4, <1>2, OwnersStay
    <2>2. /\ poll[c].at \in {"idle", "owner", "claim"}
          /\ prInbox[c] = "none" /\ failures[c] = 0
        BY <1>1, <2>1
    <2>3. CASE TickPrPoll(c)
        BY <2>2, <2>3, <1>1, <1>2 DEF TickPrPoll
    <2>4. CASE CheckOwner(c)
        BY <2>1, <2>2, <2>4, <1>2 DEF CheckOwner
    <2>5. ~ClaimOwner(c)
        BY <2>1, <1>2, <1>4 DEF ClaimOwner, Claim
    <2>6. ~ReadPr(c) /\ ~LookAtTask(c) /\ ~ReportStatus(c)
        BY <2>2 DEF ReadPr, LookAtTask, ReportStatus
    <2>7. ~HandleMerged(c) /\ ~HandleSeen(c) /\ ~HandleTransient(c) /\ ~HandlePermanent(c)
        BY <2>2 DEF HandleMerged, HandleSeen, HandleTransient, HandlePermanent
    <2>8. CASE ~BoardPolls(c)
        BY <2>2, <2>7, <2>8, BoardsReadAlone
    <2> QED
        BY <2>3, <2>4, <2>5, <2>6, <2>8 DEF BoardPolls
<1>5. ASSUME owner' # Nobody, NEW c \in PrBoard \ {owner'}
      PROVE  /\ failures'[c] \in {0, 1}
             /\ (poll'[c].at \in {"claim", "read", "look", "report"} \/ prInbox'[c] # "none")
                    => failures'[c] = 0
    <2>1. CASE owner = Nobody
        <3>1. PICK b \in PrBoard : ClaimOwner(b) /\ owner' = b
            BY <1>5, <2>1, OwnersStay
        <3>2. b # c /\ failures[c] = 0
            BY <1>5, <3>1, <1>1, <2>1
        <3> QED
            BY <3>1, <3>2 DEF ClaimOwner
    <2>2. CASE owner # Nobody
        <3>1. owner' = owner /\ c # owner
            BY <1>5, <2>2, OwnersStay
        <3>2. /\ failures[c] \in {0, 1}
              /\ poll[c].at \in {"claim", "read", "look", "report"} \/ prInbox[c] # "none"
                     => failures[c] = 0
            BY <1>1, <2>2, <3>1
        <3>3. poll[c].at # "idle" => prInbox[c] = "none"
            BY DEF ReadsOneByOne
        <3>4. CASE TickPrPoll(c)
            BY <3>2, <3>4, <1>1, <1>2 DEF TickPrPoll
        <3>5. CASE CheckOwner(c)
            BY <3>1, <3>2, <3>3, <3>5, <2>2, <1>2 DEF CheckOwner
        <3>6. CASE ClaimOwner(c)
            BY <3>2, <3>6 DEF ClaimOwner
        <3>7. CASE ReadPr(c) \/ LookAtTask(c) \/ ReportStatus(c)
            BY <3>2, <3>7 DEF ReadPr, LookAtTask, ReportStatus
        <3>8. CASE HandleMerged(c) \/ HandleSeen(c) \/ HandleTransient(c) \/ HandlePermanent(c)
            <4>1. prInbox[c] # "none" /\ prInbox'[c] = "none" /\ UNCHANGED poll
                BY <3>8, <1>2 DEF HandleMerged, HandleSeen, HandleTransient, HandlePermanent
            <4>2. poll'[c].at = "idle" /\ failures[c] = 0
                BY <4>1, <3>2, <3>3
            <4>3. failures'[c] \in {0, 1}
                <5>1. CASE UNCHANGED failures
                    BY <5>1, <4>2
                <5>2. CASE failures' = [failures EXCEPT ![c] = 0]
                    BY <5>2, <1>2
                <5>3. CASE failures' = [failures EXCEPT ![c] = failures[c] + 1]
                    BY <5>3, <4>2, <1>2
                <5> QED
                    BY <3>8, <5>1, <5>2, <5>3
                    DEF HandleMerged, HandleSeen, HandleTransient, HandlePermanent
            <4> QED
                BY <4>1, <4>2, <4>3
        <3>9. CASE ~BoardPolls(c) /\ ~(HandleMerged(c) \/ HandleSeen(c) \/ HandleTransient(c)
                                       \/ HandlePermanent(c))
            <4>1. /\ \/ poll'[c] = poll[c] /\ prInbox'[c] = prInbox[c]
                     \/ poll'[c].at = "idle" /\ prInbox'[c] = "none"
                  /\ failures'[c] \in {0, failures[c]}
                BY <3>9, BoardsReadAlone
            <4> QED
                BY <3>2, <4>1
        <3> QED
            BY <3>4, <3>5, <3>6, <3>7, <3>8, <3>9 DEF BoardPolls
    <2> QED
        BY <2>1, <2>2
<1> QED
    BY <1>3, <1>4, <1>5

LEMMA StaysInReviewStep ==
    ASSUME PrTypeOK, StaysInReview, [PrNext]_prVars
    PROVE  StaysInReview'
<1> SUFFICES ASSUME NobodyMovesOn, UNCHANGED prSetting
             PROVE  /\ prAgent' # "works"
                    /\ prRow'.status \in {"review", "done"}
                    /\ \A b \in PrBoard : prCopy'[b].status # "review" => prRow'.status = "done"
    BY PrSteps, PrSettingStays DEF StaysInReview, NobodyMovesOn
<1>1. /\ prAgent # "works" /\ prRow.status \in {"review", "done"}
      /\ \A b \in PrBoard : prCopy[b].status # "review" => prRow.status = "done"
    BY DEF StaysInReview
<1>2. prRow \in PrRow /\ \A b \in PrBoard : poll[b].state \in PrState
    BY DEF PrTypeOK, Poll
<1>3. \A state \in PrState :
          /\ AppliedState(prRow, state).status \in {prRow.status, "done"}
          /\ Unreadable(prRow).status = prRow.status
    BY <1>2 DEF AppliedState, Unreadable, PrRow, PrState
<1>4. prAgent' # "works" /\ prRow'.status \in {prRow.status, "done"}
    <2>1. ASSUME NEW b \in PrBoard, BoardPolls(b)
          PROVE  prAgent' = prAgent /\ prRow'.status \in {prRow.status, "done"}
        BY <1>2, <1>3, <2>1
        DEF BoardPolls, TickPrPoll, CheckOwner, ClaimOwner, ReadPr, LookAtTask, ReportStatus
    <2>2. CASE \E b \in PrBoard : HandleMerged(b) \/ HandleSeen(b) \/ HandleTransient(b)
                                  \/ HandlePermanent(b)
        BY <1>1, <2>2 DEF HandleMerged, HandleSeen, HandleTransient, HandlePermanent
    <2>3. CASE \E b \in PrBoard : ReportUnreadable(b) \/ KillWindow(b)
        <3>1. "OPEN" \in PrState
            BY DEF PrState
        <3> QED
            BY <1>1, <1>3, <2>3, <3>1 DEF ReportUnreadable, KillWindow
    <2>4. CASE \E b \in PrBoard : RefreshRead(b) \/ Restart(b)
        BY <1>1, <2>4 DEF RefreshRead, Restart
    <2>5. CASE OthersMove
        BY <1>1, <1>2, <2>5 DEF NobodyMovesOn, OthersMove, AgentStops, FindConflict,
            AgentIsPrompted, EditUrl, DispatchTask, MoveCard, PrRow
    <2>6. CASE OthersRest
        BY <1>1, <2>6 DEF OthersRest
    <2> QED
        BY <1>1, <2>1, <2>2, <2>3, <2>4, <2>5, <2>6, PrSteps
<1> QED
    BY <1>1, <1>4, HostsStay

(* Where one board reads, no other has anything under way.                 *)
LEMMA OneBoardReads ==
    ASSUME HostReads, OneReader, NEW a \in PrBoard, NEW b \in PrBoard,
           Reads(a) \/ failures[a] > 0, Reads(b) \/ failures[b] > 0
    PROVE  a = b
BY DEF HostReads, OneReader

LEMMA GivingUpIsSaidStep ==
    ASSUME prSetting \in PrSettings, PrTypeOK, ReadsOneByOne, HostReads, StaysInReview,
           GivingUpIsSaid, [PrNext]_prVars
    PROVE  GivingUpIsSaid'
<1> SUFFICES ASSUME OneReader, MaxLosses = 0, NobodyMovesOn, UNCHANGED prSetting,
                    NEW c \in PrBoard
             PROVE  /\ (poll'[c].at # "idle" \/ prInbox'[c] = "failed for good")
                           /\ prCopy'[c].sub = "pr_unreachable" => ShownUnreadable'
                    /\ failures'[c] >= GiveUpAfter /\ prRow'.status = "review" =>
                           \/ prRow'.sub \in {"pr_unreachable", "conflict"}
                           \/ job'[c] = "report unreadable"
    BY PrSteps, PrSettingStays DEF GivingUpIsSaid, OneReader, NobodyMovesOn, GiveUpIsShown, GaveUp
<1>1. /\ (poll[c].at # "idle" \/ prInbox[c] = "failed for good")
             /\ prCopy[c].sub = "pr_unreachable" => ShownUnreadable
      /\ failures[c] >= GiveUpAfter /\ prRow.status = "review" =>
             \/ prRow.sub \in {"pr_unreachable", "conflict"}
             \/ job[c] = "report unreadable"
    BY DEF GivingUpIsSaid, GiveUpIsShown, GaveUp
<1>2. /\ failures \in [PrBoard -> 0..GiveUpAfter] /\ GiveUpAfter \in Nat \ {0}
      /\ poll \in [PrBoard -> Poll] /\ prInbox \in [PrBoard -> Answer] /\ losses = 0
      /\ prCopy \in [PrBoard -> PrRow] /\ prRow \in PrRow /\ job \in [PrBoard -> Job]
      /\ ~Lose /\ IdlePoll.at = "idle"
    BY PrSettings_ DEF PrTypeOK, Lose, IdlePoll
<1>3. /\ poll[c].at # "idle" => prInbox[c] = "none"
      /\ Reads(c) => ~(failures[c] >= GiveUpAfter)
    BY DEF ReadsOneByOne, GaveUp
<1>0. /\ failures[c] \in Nat /\ GiveUpAfter \in Nat /\ ~(0 >= GiveUpAfter)
      /\ prInbox[c] # "none" => failures[c] < GiveUpAfter
    <2>1. failures[c] \in Nat /\ GiveUpAfter \in Nat /\ ~(0 >= GiveUpAfter)
        BY <1>2
    <2> QED
        BY <2>1, <1>3 DEF Reads
<1>4. /\ prAgent # "works" /\ prRow.status \in {"review", "done"}
      /\ prCopy[c].status # "review" => prRow.status = "done"
    BY DEF StaysInReview
<1>5. ASSUME NEW b \in PrBoard, BoardPolls(b), ~ReportStatus(b)
      PROVE  /\ (poll'[c].at # "idle" \/ prInbox'[c] = "failed for good")
                    /\ prCopy'[c].sub = "pr_unreachable" => ShownUnreadable'
             /\ failures'[c] >= GiveUpAfter /\ prRow'.status = "review" =>
                    \/ prRow'.sub \in {"pr_unreachable", "conflict"}
                    \/ job'[c] = "report unreadable"
    <2>1. UNCHANGED <<prRow, prCopy, failures, job>>
        BY <1>5 DEF BoardPolls, TickPrPoll, CheckOwner, ClaimOwner, ReadPr, LookAtTask
    <2>2. ShownUnreadable' <=> ShownUnreadable
        BY <2>1 DEF ShownUnreadable
    <2>3. CASE poll'[c] = poll[c] /\ prInbox'[c] = prInbox[c]
        BY <2>1, <2>2, <2>3, <1>1
    <2>4. CASE b # c
        <3>1. poll'[c] = poll[c] /\ prInbox'[c] = prInbox[c]
            BY <1>2, <1>5, <2>4 DEF BoardPolls, TickPrPoll, CheckOwner, ClaimOwner, ReadPr, LookAtTask
        <3> QED
            BY <3>1, <2>3
    <2>5. CASE TickPrPoll(c)
        BY <2>1, <2>2, <2>5, <1>1, <1>2 DEF TickPrPoll, ShownUnreadable
    <2>6. CASE CheckOwner(c) \/ ClaimOwner(c) \/ ReadPr(c) \/ LookAtTask(c)
        <3>1. poll[c].at # "idle"
            BY <2>6 DEF CheckOwner, ClaimOwner, ReadPr, LookAtTask
        <3> QED
            BY <3>1, <2>1, <2>2, <1>1
    <2> QED
        BY <1>5, <2>4, <2>5, <2>6 DEF BoardPolls
<1>6. ASSUME NEW b \in PrBoard, ReportStatus(b)
      PROVE  /\ (poll'[c].at # "idle" \/ prInbox'[c] = "failed for good")
                    /\ prCopy'[c].sub = "pr_unreachable" => ShownUnreadable'
             /\ ~(failures'[c] >= GiveUpAfter)
    <2>1. /\ poll[b].at = "report" /\ poll' = [poll EXCEPT ![b] = IdlePoll]
          /\ prInbox' = [prInbox EXCEPT ![b] = AnswerTo(poll[b])] /\ UNCHANGED failures
        BY <1>2, <1>6 DEF ReportStatus
    <2>2. Reads(b)
        BY <2>1 DEF Reads
    <2>3. AnswerTo(poll[b]) # "failed for good"
        BY DEF AnswerTo
    <2>4. CASE b = c
        BY <2>1, <2>2, <2>3, <2>4, <1>2, <1>3
    <2>5. CASE b # c
        <3>1. ~Reads(c) /\ ~(failures[c] > 0)
            BY <2>2, <2>5, OneBoardReads
        <3> QED
            <4>1. failures'[c] = failures[c] /\ failures[c] = 0
                BY <3>1, <2>1, <1>0
            <4>2. poll'[c].at = "idle" /\ prInbox'[c] = "none"
                BY <3>1, <2>1, <2>5, <1>2 DEF Reads
            <4> QED
                BY <4>1, <4>2, <1>0
    <2> QED
        BY <2>4, <2>5
<1>7. CASE \E b \in PrBoard : HandleMerged(b) \/ HandleSeen(b) \/ HandleTransient(b)
    <2>1. PICK b \in PrBoard : HandleMerged(b) \/ HandleSeen(b) \/ HandleTransient(b)
        BY <1>7
    <2>2. /\ UNCHANGED <<prRow, prCopy, poll>>
          /\ prInbox' = [prInbox EXCEPT ![b] = "none"] /\ prInbox[b] # "none"
        BY <2>1 DEF HandleMerged, HandleSeen, HandleTransient
    <2>3. Reads(b) /\ prInbox'[c] \in {"none", prInbox[c]}
        BY <2>2, <1>2 DEF Reads
    <2>4. ShownUnreadable' <=> ShownUnreadable
        BY <2>2 DEF ShownUnreadable
    <2>5. failures'[c] >= GiveUpAfter => failures[c] >= GiveUpAfter /\ job'[c] = job[c]
        <3>1. b # c \/ failures[c] < GiveUpAfter
            BY <2>3, <1>2, <1>3
        <3>2. CASE b # c
            BY <2>1, <3>2, <1>2 DEF HandleMerged, HandleSeen, HandleTransient
        <3>3. CASE b = c
            <4>1. failures'[c] \in {0, failures[c]}
                BY <2>1, <3>3, <1>2 DEF HandleMerged, HandleSeen, HandleTransient
            <4> QED
                BY <4>1, <3>1, <3>3, <1>0
        <3> QED
            BY <3>2, <3>3
    <2> QED
        BY <2>2, <2>3, <2>4, <2>5, <1>1
<1>8. ASSUME NEW b \in PrBoard, HandlePermanent(b)
      PROVE  /\ (poll'[c].at # "idle" \/ prInbox'[c] = "failed for good")
                    /\ prCopy'[c].sub = "pr_unreachable" => ShownUnreadable'
             /\ failures'[c] >= GiveUpAfter /\ prRow'.status = "review" =>
                    \/ prRow'.sub \in {"pr_unreachable", "conflict"}
                    \/ job'[c] = "report unreadable"
    <2>1. /\ UNCHANGED <<prRow, prCopy, poll>> /\ prInbox[b] = "failed for good"
          /\ prInbox' = [prInbox EXCEPT ![b] = "none"]
          /\ failures' = [failures EXCEPT ![b] = failures[b] + 1]
        BY <1>8 DEF HandlePermanent
    <2>2. ShownUnreadable' <=> ShownUnreadable
        BY <2>1 DEF ShownUnreadable
    <2>3. CASE b # c
        <3>1. job'[c] = job[c]
            BY <1>2, <1>8, <2>3 DEF HandlePermanent
        <3>2. failures'[c] = failures[c] /\ prInbox'[c] = prInbox[c]
            BY <1>2, <2>1, <2>3
        <3> QED
            BY <3>1, <3>2, <2>1, <2>2, <1>1
    <2>4. CASE b = c
        <3>1. poll'[c].at = "idle" /\ prInbox'[c] = "none"
            BY <2>1, <2>4, <1>2, <1>3
        <3>2. failures[c] < GiveUpAfter
            BY <2>1, <2>4, <1>0
        <3>3. failures'[c] = failures[c] + 1
            BY <2>1, <2>4, <1>2
        <3>4. CASE /\ failures[c] + 1 = GiveUpAfter /\ prCopy[c].status = "review"
                   /\ prCopy[c].sub # "pr_unreachable"
            <4>1. job'[c] = "report unreadable"
                BY <1>2, <1>8, <2>4, <3>4 DEF HandlePermanent
            <4> QED
                BY <4>1, <3>1
        <3>5. CASE failures[c] + 1 # GiveUpAfter
            <4>1. ~(failures'[c] >= GiveUpAfter)
                BY <3>2, <3>3, <3>5, <1>2
            <4> QED
                BY <4>1, <3>1
        <3>6. CASE prCopy[c].status # "review"
            BY <3>1, <3>6, <2>1, <1>4
        <3>7. CASE prCopy[c].sub = "pr_unreachable"
            BY <3>1, <3>7, <2>1, <2>4, <1>1 DEF ShownUnreadable
        <3> QED
            BY <3>4, <3>5, <3>6, <3>7
    <2> QED
        BY <2>3, <2>4
<1>9. ASSUME NEW b \in PrBoard, ReportUnreadable(b)
      PROVE  ShownUnreadable'
    BY <1>2, <1>9 DEF ReportUnreadable, Unreadable, ShownUnreadable, PrRow
<1>10. ASSUME NEW b \in PrBoard, KillWindow(b)
       PROVE  /\ UNCHANGED <<prRow, prCopy, poll, prInbox, failures>>
              /\ job[c] = "report unreadable" => job'[c] = "report unreadable"
    BY <1>2, <1>10 DEF KillWindow
<1>11. ASSUME NEW b \in PrBoard, RefreshRead(b)
       PROVE  /\ UNCHANGED <<prRow, poll, prInbox, failures, job>>
              /\ prCopy'[c] \in {prCopy[c], prRow}
    BY <1>2, <1>11 DEF RefreshRead
<1>12. ASSUME NEW b \in PrBoard, Restart(b)
       PROVE  /\ UNCHANGED prRow
              /\ \/ /\ poll'[c] = poll[c] /\ prInbox'[c] = prInbox[c] /\ prCopy'[c] = prCopy[c]
                    /\ failures'[c] = failures[c] /\ job'[c] = job[c]
                 \/ poll'[c].at = "idle" /\ prInbox'[c] = "none" /\ failures'[c] = 0
    BY <1>2, <1>12 DEF Restart
<1>13. CASE OthersMove
    <2>1. UNCHANGED <<prCopy, poll, prInbox, failures, job>>
        BY <1>4, <1>13 DEF NobodyMovesOn, OthersMove, AgentStops, FindConflict, AgentIsPrompted,
            EditUrl, DispatchTask, MoveCard, readerVars
    <2>2. \/ prRow'.status = prRow.status /\ prRow'.sub = prRow.sub
          \/ prRow'.sub = "conflict"
        BY <1>2, <1>4, <1>13 DEF NobodyMovesOn, OthersMove, AgentStops, FindConflict,
            AgentIsPrompted, EditUrl, DispatchTask, MoveCard, PrRow
    <2> QED
        BY <2>1, <2>2, <1>1 DEF ShownUnreadable
<1>14. CASE OthersRest
    BY <1>1, <1>14 DEF OthersRest, ShownUnreadable
<1>15. CASE \E b \in PrBoard : ReportUnreadable(b)
    BY <1>9, <1>15 DEF ShownUnreadable
<1>16. CASE \E b \in PrBoard : KillWindow(b)
    BY <1>1, <1>10, <1>16 DEF ShownUnreadable
<1>17. CASE \E b \in PrBoard : RefreshRead(b)
    BY <1>1, <1>11, <1>17 DEF ShownUnreadable
<1>18. CASE \E b \in PrBoard : Restart(b)
    <2>1. UNCHANGED prRow /\ (ShownUnreadable' <=> ShownUnreadable)
        BY <1>12, <1>18 DEF ShownUnreadable
    <2>2. CASE poll'[c].at = "idle" /\ prInbox'[c] = "none" /\ failures'[c] = 0
        BY <2>2, <1>0
    <2>3. CASE /\ poll'[c] = poll[c] /\ prInbox'[c] = prInbox[c] /\ prCopy'[c] = prCopy[c]
               /\ failures'[c] = failures[c] /\ job'[c] = job[c]
        BY <2>1, <2>3, <1>1
    <2> QED
        BY <2>2, <2>3, <1>12, <1>18
<1> QED
    BY <1>5, <1>6, <1>7, <1>8, <1>13, <1>14, <1>15, <1>16, <1>17, <1>18, PrSteps

LEMMA PrInitInv ==
    ASSUME PrInit
    PROVE  PrInv
<1>1. /\ Nobody \notin PrBoard /\ Hosted \in PrBoard \cup {Nobody}
      /\ FirstPr \in Pr /\ GiveUpAfter \in Nat \ {0} /\ MaxLosses \in Nat
    BY PrSettings_ DEF PrInit
<1>2. PrStartRow \in PrRow /\ IdlePoll \in Poll
    BY <1>1 DEF PrStartRow, PrRow, IdlePoll, Poll, PrState
<1>3. PrTypeOK
    <2>1. /\ failures \in [PrBoard -> 0..GiveUpAfter] /\ losses \in 0..MaxLosses
        BY <1>1 DEF PrInit
    <2>2. prAgent \in {"none", "works", "rests"}
        BY DEF PrInit
    <2>3. pr \in [Pr -> PrState] /\ readable \in [Pr -> BOOLEAN]
        BY DEF PrInit, PrState
    <2>4. /\ prCopy \in [PrBoard -> PrRow] /\ poll \in [PrBoard -> Poll]
          /\ prInbox \in [PrBoard -> Answer] /\ job \in [PrBoard -> Job]
        BY <1>2 DEF PrInit, Answer, Job
    <2> QED
        BY <2>1, <2>2, <2>3, <2>4, <1>2 DEF PrInit, PrTypeOK
<1>4. /\ prRow = PrStartRow /\ owner = Nobody /\ prAgent # "works"
      /\ \A b \in PrBoard : /\ poll[b].at = "idle" /\ prInbox[b] = "none" /\ failures[b] = 0
                            /\ prCopy[b] = PrStartRow
    BY DEF PrInit, IdlePoll
<1>5. /\ PrStartRow.host = Hosted /\ PrStartRow.status = "review"
    BY DEF PrStartRow
<1>6. \A b \in PrBoard : ~Reads(b) /\ ~GaveUp(b) /\ ~(failures[b] > 0)
    BY <1>1, <1>4 DEF Reads, GaveUp
<1>7. ReadsOneByOne /\ HostReads
    BY <1>4, <1>5, <1>6 DEF ReadsOneByOne, HostReads, Reads
<1>8. OthersReadOnce
    BY <1>4, <1>5 DEF OthersReadOnce
<1>9. StaysInReview
    BY <1>4, <1>5 DEF StaysInReview
<1>10. GivingUpIsSaid
    BY <1>4, <1>6 DEF GivingUpIsSaid, GiveUpIsShown
<1> QED
    BY <1>3, <1>7, <1>8, <1>9, <1>10 DEF PrInit, PrInv

(* Where no claim is lost, one board at most gives the pull request up:    *)
(* the owner of its poll, or the board of the task's host.                 *)
LEMMA OneGivesUp ==
    ASSUME PrInv, OwnersDecide
    PROVE  OneBoardGivesUp
<1>1. failures \in [PrBoard -> 0..GiveUpAfter] /\ GiveUpAfter \in Nat \ {0}
    BY PrSettings_ DEF PrInv, PrTypeOK
<1>2. CASE OneReader
    BY <1>1, <1>2, OneBoardReads DEF PrInv, OneBoardGivesUp, GaveUp
<1>3. CASE ~OneReader
    <2>1. MaxLosses = 0 /\ GiveUpAfter > 1 /\ "dispatch" \notin PrEvents /\ Hosted = Nobody
        BY <1>3 DEF OwnersDecide, OneReader
    <2>2. ASSUME NEW b \in PrBoard, GaveUp(b)
          PROVE  b = owner
        BY <2>1, <2>2, <1>1 DEF PrInv, OthersReadOnce, GaveUp
    <2> QED
        BY <2>2 DEF OneBoardGivesUp
<1> QED
    BY <1>2, <1>3

(* A pull request the account cannot read is given up by one board, for    *)
(* all boards, and that board has the task show it, for every set of       *)
(* boards, threshold and choice of what happens outside.                   *)
THEOREM OneBoardGivesUpAndSaysSo == PrSpec => []GiveUpsAreShown
<1>1. PrInit => PrInv
    BY PrInitInv
<1>2. PrInv /\ [PrNext]_prVars => PrInv'
    BY PrSteps, PrTypesStep, HostReadsStep, OthersReadOnceStep, StaysInReviewStep,
       GivingUpIsSaidStep DEF PrInv
<1>3. PrInv => GiveUpsAreShown
    <2>1. ASSUME PrInv, OneReader, MaxLosses = 0, {"dispatch", "move", "prompt"} \cap PrEvents = {}
          PROVE  GiveUpIsShown
        BY <2>1 DEF PrInv, GivingUpIsSaid, NobodyMovesOn
    <2> QED
        BY <2>1, OneGivesUp DEF PrInv, GiveUpsAreShown
<1> QED
    BY <1>1, <1>2, <1>3, PTL DEF PrSpec

----------------------------------------------------------------------------
(* ViewMirror: what is held and what is served *)

(* The task row `r` is on the board, or marked, or neither.                *)
Holds(r) ==
    /\ heldTask = IF r.text \in Text THEN r ELSE None
    /\ mark = IF r.text = Undecodable THEN r ELSE None

TaskCallbackRow == [on : View, kind : {"insert", "delete"}, row : Raw]
AgentCallbackRow == [on : Agent, kind : {"insert", "delete"}, row : AgentRow]

(* The views serve one version of the task's row.                          *)
OneVersion == \A v, w \in View : cache[v] # None /\ cache[w] # None => cache[v] = cache[w]

(* A task has one current agent at most.                                   *)
OneCurrent ==
    \A a, b \in Agent :
        agentCache[a].text = "current" /\ agentCache[b].text = "current" => a = b

(* An insert still to run is of the row its view serves, and a delete of   *)
(* one it does not; a transaction takes one version of the task's row away.*)
CallbacksAreOfTheCache ==
    /\ \A c \in pending :
           c.kind = "insert" => c.row = IF c.on \in View THEN cache[c.on] ELSE agentCache[c.on]
    /\ \A c \in pending :
           c.kind = "delete" => c.row # IF c.on \in View THEN cache[c.on] ELSE agentCache[c.on]
    /\ \A c, d \in pending :
           c.kind = "delete" /\ d.kind = "delete" /\ c.on \in View /\ d.on \in View
               => c.row = d.row

(* The board holds the task's row that is served, or a callback is still   *)
(* to run that brings it, or that takes away the row it holds.             *)
TaskIsOnItsWay ==
    \/ Holds(Served)
    \/ Served # None /\ \E c \in pending : c.on \in View /\ c.kind = "insert"
    \/ Served = None /\ \E c \in pending : c.on \in View /\ c.kind = "delete" /\ Holds(c.row)

(* The same of each agent.                                                 *)
AgentIsOnItsWay(a) ==
    \/ heldAgents[a] = agentCache[a]
    \/ agentCache[a] # None /\ \E c \in pending : c.on = a /\ c.kind = "insert"
    \/ agentCache[a] = None
       /\ \E c \in pending : c.on = a /\ c.kind = "delete" /\ c.row = heldAgents[a]

(* The index names an agent that is held as current, and the one that is   *)
(* held as it is served.                                                   *)
IndexIsOfTheHeld ==
    \A a \in Agent :
        /\ current = a => heldAgents[a].text = "current"
        /\ heldAgents[a].text = "current" /\ heldAgents[a] = agentCache[a] => current = a

ViewInv ==
    /\ viewSetting \in ViewSettings
    /\ ViewTypeOK
    /\ pending \subseteq TaskCallbackRow \cup AgentCallbackRow
    /\ heldTask # None => heldTask.text \in Text
    /\ OneVersion /\ OneCurrent
    /\ CallbacksAreOfTheCache
    /\ TaskIsOnItsWay
    /\ \A a \in Agent : AgentIsOnItsWay(a)
    /\ IndexIsOfTheHeld
    /\ ~Spoilt => DrawnIsHeld

LEMMA ViewSettings_ ==
    ASSUME viewSetting \in ViewSettings
    PROVE  /\ Text \cap {"none", Removed, Undecodable} = {}
           /\ {NoCurrent, "own", "covered"} \cap Agent = {}
           /\ Spoilt \in BOOLEAN
           /\ None \notin Raw /\ None \notin AgentRow
           /\ \A r \in Raw : r.text \in Text \/ r.text \in {Removed, Undecodable}
           /\ \A r \in Raw : r.text = Undecodable => Spoilt
BY ViewMirrorAssumption DEF Text, Agent, Spoilt, None, Raw, AgentRow, Decoded, Removed, Undecodable, NoCurrent

LEMMA ViewSettingStays ==
    ASSUME UNCHANGED viewSetting
    PROVE  Text' = Text /\ Agent' = Agent /\ Spoilt' = Spoilt /\ Raw' = Raw
BY DEF Text, Agent, Spoilt, Raw, Decoded

LEMMA ViewInitInv == ViewInit => ViewInv
<1> SUFFICES ASSUME ViewInit PROVE ViewInv
    OBVIOUS
<1>0. viewSetting \in ViewSettings
    BY DEF ViewInit
<1>1. /\ Text \cap {"none", Removed, Undecodable} = {}
      /\ {NoCurrent, "own", "covered"} \cap Agent = {}
    BY <1>0, ViewSettings_
<1>2. ViewTypeOK
    BY <1>1 DEF ViewInit, ViewTypeOK
<1>3. Served = None
    BY DEF ViewInit, Served, View
<1>4. Holds(None)
    BY <1>1 DEF ViewInit, Holds, None, Undecodable
<1>5. TaskIsOnItsWay
    BY <1>3, <1>4 DEF TaskIsOnItsWay
<1>6. OneVersion /\ OneCurrent
    BY <1>1 DEF ViewInit, OneVersion, OneCurrent, None
<1>7. \A a \in Agent : AgentIsOnItsWay(a)
    BY DEF ViewInit, AgentIsOnItsWay
<1>8. IndexIsOfTheHeld
    BY <1>1 DEF ViewInit, IndexIsOfTheHeld, None
<1>9. DrawnIsHeld
    BY DEF ViewInit, DrawnIsHeld, ViewOfTask
<1> QED
    BY <1>0, <1>2, <1>5, <1>6, <1>7, <1>8, <1>9 DEF ViewInit, ViewInv, CallbacksAreOfTheCache

(* What a transaction leaves to run.                                       *)
LEMMA CallbackFacts ==
    ASSUME NEW what, NEW old, NEW new, NEW c \in Callbacks(what, old, new)
    PROVE  /\ c.on = what /\ c.kind \in {"insert", "delete"}
           /\ c = [on |-> what, kind |-> c.kind, row |-> c.row]
           /\ c.kind = "insert" => c.row = new /\ new # old
           /\ c.kind = "delete" => c.row = old /\ new # old
           /\ c.row # None
BY DEF Callbacks

LEMMA InsertRuns ==
    ASSUME NEW what, NEW old, NEW new, new # old, new # None
    PROVE  [on |-> what, kind |-> "insert", row |-> new] \in Callbacks(what, old, new)
BY DEF Callbacks

LEMMA DeleteRuns ==
    ASSUME NEW what, NEW old, NEW new, new # old, old # None
    PROVE  [on |-> what, kind |-> "delete", row |-> old] \in Callbacks(what, old, new)
BY DEF Callbacks

(* Where no callback is left to run, all is held.                          *)
LEMMA AtRest_ ==
    ASSUME ViewInv, pending = {}
    PROVE  Holds(Served) /\ heldAgents = agentCache
<1>1. Holds(Served)
    BY DEF ViewInv, TaskIsOnItsWay
<1>2. \A a \in Agent : heldAgents[a] = agentCache[a]
    BY DEF ViewInv, AgentIsOnItsWay
<1> QED
    BY <1>1, <1>2 DEF ViewInv, ViewTypeOK

LEMMA TaskTransactionKeeps ==
    ASSUME ViewInv, TaskTransaction, UNCHANGED viewSetting
    PROVE  ViewInv'
<1>0. Text' = Text /\ Agent' = Agent /\ Spoilt' = Spoilt /\ Raw' = Raw
    BY ViewSettingStays
<1>1. /\ {NoCurrent, "own", "covered"} \cap Agent = {}
      /\ None \notin Raw
      /\ \A r \in Raw : r.text \in Text \/ r.text \in {Removed, Undecodable}
    BY ViewSettings_ DEF ViewInv
<1>2. Holds(Served) /\ heldAgents = agentCache
    BY AtRest_ DEF TaskTransaction
<1>3. PICK raw \in Raw, views \in SUBSET View :
          cache' = [v \in View |-> IF v \in views THEN raw ELSE None]
    BY DEF TaskTransaction
<1>4. cache \in [View -> Raw \cup {None}] /\ cache' \in [View -> Raw \cup {None}] /\ cache' # cache
    BY <1>3 DEF ViewInv, ViewTypeOK, TaskTransaction
<1>5. \A c : c \in pending' <=> \E v \in View : c \in Callbacks(v, cache[v], cache'[v])
    BY DEF TaskTransaction
<1>6. UNCHANGED <<agentCache, heldTask, mark, heldAgents, current, unseen, pump, drawn, viewQuiet>>
    BY DEF TaskTransaction, heldVars
<1>7. ViewTypeOK'
    BY <1>0, <1>4, <1>6 DEF ViewInv, ViewTypeOK
<1>8. pending' \subseteq TaskCallbackRow'
    <2> SUFFICES ASSUME NEW c \in pending' PROVE c \in TaskCallbackRow'
        OBVIOUS
    <2>1. PICK v \in View : c \in Callbacks(v, cache[v], cache'[v])
        BY <1>5
    <2>2. c.row \in Raw
        BY <2>1, <1>4, CallbackFacts
    <2> QED
        BY <2>1, <2>2, <1>0, CallbackFacts DEF TaskCallbackRow
<1>9. OneVersion'
    BY <1>3 DEF OneVersion
<1>10. OneCurrent'
    BY <1>0, <1>6 DEF ViewInv, OneCurrent
<1>11. CallbacksAreOfTheCache'
    <2>1. \A c \in pending' :
              /\ c.on \in View
              /\ c.kind = "insert" => c.row = cache'[c.on]
              /\ c.kind = "delete" => c.row = cache[c.on] /\ c.row # None /\ c.row # cache'[c.on]
        BY <1>5, CallbackFacts
    <2>2. \A c, d \in pending' : c.kind = "delete" /\ d.kind = "delete" => c.row = d.row
        BY <2>1 DEF ViewInv, OneVersion
    <2> QED
        BY <2>1, <2>2 DEF CallbacksAreOfTheCache
<1>12. TaskIsOnItsWay'
    <2>1. CASE \E v \in View : cache'[v] # None /\ cache'[v] # cache[v]
        <3>1. PICK v \in View : cache'[v] # None /\ cache'[v] # cache[v]
            BY <2>1
        <3>2. [on |-> v, kind |-> "insert", row |-> cache'[v]] \in pending'
            BY <3>1, <1>5, InsertRuns
        <3>3. Served' # None
            BY <3>1 DEF Served, View
        <3> QED
            BY <3>2, <3>3 DEF TaskIsOnItsWay
    <2>2. CASE \A v \in View : cache'[v] # None => cache'[v] = cache[v]
        <3>1. CASE Served' # None
            <4>1. Served' = Served
                BY <3>1, <2>2, <1>4 DEF Served, View, ViewInv, OneVersion
            <4> QED
                BY <4>1, <1>0, <1>2, <1>6 DEF TaskIsOnItsWay, Holds
        <3>2. CASE Served' = None
            <4>1. \A v \in View : cache'[v] = None
                BY <3>2 DEF Served, View
            <4>2. PICK v \in View : cache[v] # None
                BY <4>1, <1>4
            <4>3. Served = cache[v]
                BY <4>2 DEF Served, View, ViewInv, OneVersion
            <4>4. [on |-> v, kind |-> "delete", row |-> cache[v]] \in pending'
                BY <4>1, <4>2, <1>5, DeleteRuns
            <4>5. /\ heldTask' = IF cache[v].text \in Text' THEN cache[v] ELSE None
                  /\ mark' = IF cache[v].text = Undecodable THEN cache[v] ELSE None
                BY <4>3, <1>0, <1>2, <1>6 DEF Holds
            <4> QED
                BY <3>2, <4>4, <4>5 DEF TaskIsOnItsWay, Holds
        <3> QED
            BY <3>1, <3>2
    <2> QED
        BY <2>1, <2>2
<1>13. \A a \in Agent' : AgentIsOnItsWay(a)'
    BY <1>2, <1>6 DEF AgentIsOnItsWay
<1>14. IndexIsOfTheHeld' /\ (~Spoilt' => DrawnIsHeld')
    BY <1>0, <1>6 DEF ViewInv, IndexIsOfTheHeld, DrawnIsHeld, ViewOfTask
<1> QED
    BY <1>0, <1>6, <1>7, <1>8, <1>9, <1>10, <1>11, <1>12, <1>13, <1>14 DEF ViewInv

LEMMA AgentTransactionKeeps ==
    ASSUME ViewInv, AgentTransaction, UNCHANGED viewSetting
    PROVE  ViewInv'
<1>0. Text' = Text /\ Agent' = Agent /\ Spoilt' = Spoilt /\ Raw' = Raw
    BY ViewSettingStays
<1>1. {NoCurrent, "own", "covered"} \cap Agent = {} /\ None \notin AgentRow
    BY ViewSettings_ DEF ViewInv
<1>2. Holds(Served) /\ heldAgents = agentCache
    BY AtRest_ DEF AgentTransaction
<1>3. /\ agentCache \in [Agent -> AgentRow \cup {None}]
      /\ agentCache' \in [Agent -> AgentRow \cup {None}]
    BY DEF ViewInv, ViewTypeOK, AgentTransaction
<1>4. \A c : c \in pending' <=> \E a \in Agent : c \in Callbacks(a, agentCache[a], agentCache'[a])
    BY DEF AgentTransaction
<1>5. UNCHANGED <<cache, heldTask, mark, heldAgents, current, unseen, pump, drawn, viewQuiet>>
    BY DEF AgentTransaction, heldVars
<1>6. ViewTypeOK'
    BY <1>0, <1>3, <1>5 DEF ViewInv, ViewTypeOK
<1>7. pending' \subseteq AgentCallbackRow'
    <2> SUFFICES ASSUME NEW c \in pending' PROVE c \in AgentCallbackRow'
        OBVIOUS
    <2>1. PICK a \in Agent : c \in Callbacks(a, agentCache[a], agentCache'[a])
        BY <1>4
    <2>2. c.row \in AgentRow
        BY <2>1, <1>3, CallbackFacts
    <2> QED
        BY <2>1, <2>2, <1>0, CallbackFacts DEF AgentCallbackRow
<1>8. OneVersion'
    BY <1>5 DEF ViewInv, OneVersion
<1>9. OneCurrent'
    BY <1>0 DEF AgentTransaction, OneCurrent
<1>10. \A c \in pending' :
           /\ c.on \in Agent /\ c.on \notin View
           /\ c.kind = "insert" => c.row = agentCache'[c.on]
           /\ c.kind = "delete" => c.row # agentCache'[c.on]
    BY <1>1, <1>4, CallbackFacts DEF View
<1>11. CallbacksAreOfTheCache'
    BY <1>10 DEF CallbacksAreOfTheCache
<1>12. TaskIsOnItsWay'
    BY <1>0, <1>2, <1>5 DEF TaskIsOnItsWay, Holds, Served
<1>13. ASSUME NEW a \in Agent PROVE AgentIsOnItsWay(a)'
    <2>1. CASE agentCache'[a] = agentCache[a]
        BY <2>1, <1>2, <1>5 DEF AgentIsOnItsWay
    <2>2. CASE agentCache'[a] # agentCache[a] /\ agentCache'[a] # None
        <3>1. [on |-> a, kind |-> "insert", row |-> agentCache'[a]] \in pending'
            BY <2>2, <1>4, InsertRuns
        <3> QED
            BY <3>1, <2>2 DEF AgentIsOnItsWay
    <2>3. CASE agentCache'[a] # agentCache[a] /\ agentCache'[a] = None
        <3>1. [on |-> a, kind |-> "delete", row |-> agentCache[a]] \in pending'
            BY <2>3, <1>4, DeleteRuns
        <3> QED
            BY <3>1, <2>3, <1>2, <1>5 DEF AgentIsOnItsWay
    <2> QED
        BY <2>1, <2>2, <2>3
<1>14. IndexIsOfTheHeld' /\ (~Spoilt' => DrawnIsHeld')
    BY <1>0, <1>2, <1>5 DEF ViewInv, IndexIsOfTheHeld, DrawnIsHeld, ViewOfTask
<1> QED
    BY <1>0, <1>5, <1>6, <1>7, <1>8, <1>9, <1>11, <1>12, <1>13, <1>14 DEF ViewInv

(* A task's callback brings the row that is served or takes away one that  *)
(* is not.                                                                 *)
LEMMA TaskCallbackLands ==
    ASSUME ViewInv, NEW c \in pending, TaskCallback(c), pending' = pending \ {c},
           UNCHANGED <<cache, agentCache, viewSetting>>
    PROVE  /\ TaskIsOnItsWay'
           /\ heldTask' \in Raw \cup {None} /\ mark' \in Raw \cup {None}
           /\ heldTask' = None \/ mark' = None
           /\ heldTask' # None => heldTask'.text \in Text
           /\ KeepsServedRow
           /\ unseen' \in BOOLEAN
           /\ ~Spoilt => unseen' = TRUE \/ (unseen' = unseen /\ heldTask' = heldTask)
<1>0. Text' = Text /\ Agent' = Agent /\ Spoilt' = Spoilt /\ Raw' = Raw
    BY ViewSettingStays
<1>1. /\ Text \cap {"none", Removed, Undecodable} = {}
      /\ None \notin Raw /\ None.text = "none"
      /\ \A r \in Raw : r.text \in Text \/ r.text \in {Removed, Undecodable}
      /\ \A r \in Raw : r.text = Undecodable => Spoilt
    BY ViewSettings_ DEF ViewInv, None
<1>2. c.on \in View /\ c.kind \in {"insert", "delete"} /\ c.row \in Raw
    <2>1. {NoCurrent, "own", "covered"} \cap Agent = {}
        BY ViewSettings_ DEF ViewInv
    <2> QED
        BY <2>1 DEF TaskCallback, ViewInv, TaskCallbackRow, AgentCallbackRow, View
<1>3. Served' = Served
    BY DEF Served
<1>4. /\ cache \in [View -> Raw \cup {None}]
      /\ heldTask \in Raw \cup {None} /\ mark \in Raw \cup {None}
      /\ heldTask = None \/ mark = None
      /\ heldTask # None => heldTask.text \in Text
      /\ unseen \in BOOLEAN
    BY DEF ViewInv, ViewTypeOK
<1>5. \A v, w \in View : cache[v] # None /\ cache[w] # None => cache[v] = cache[w]
    BY DEF ViewInv, OneVersion
<1>6. \A v \in View : cache[v] # None => Served = cache[v]
    BY <1>5 DEF Served, View
<1>7. CASE c.kind = "insert"
    <2>1. c.row = cache[c.on] /\ Served = c.row
        BY <1>2, <1>6, <1>7, <1>1 DEF ViewInv, CallbacksAreOfTheCache
    <2>2. UpsertTask(c.row)
        BY <1>7 DEF TaskCallback
    <2>3. /\ heldTask' = IF c.row.text \in Text THEN c.row ELSE None
          /\ mark' = IF c.row.text = Undecodable THEN c.row ELSE None
        BY <2>2, <1>1, <1>2 DEF UpsertTask, RemoveTask, Removed, Undecodable
    <2>4. TaskIsOnItsWay'
        BY <2>1, <2>3, <1>0, <1>3 DEF TaskIsOnItsWay, Holds
    <2>5. KeepsServedRow
        BY <2>1, <2>3, <1>1, <1>4, <1>6 DEF KeepsServedRow
    <2>6. unseen' \in BOOLEAN
        BY <2>2, <1>4 DEF UpsertTask, RemoveTask
    <2>7. ~Spoilt => unseen' = TRUE \/ (unseen' = unseen /\ heldTask' = heldTask)
        BY <2>2, <1>1, <1>2, <1>4 DEF UpsertTask, RemoveTask
    <2> QED
        BY <2>3, <2>4, <2>5, <2>6, <2>7, <1>1, <1>2
<1>8. CASE c.kind = "delete"
    <2>1. c.row # cache[c.on]
        BY <1>2, <1>8 DEF ViewInv, CallbacksAreOfTheCache
    <2>2. CASE ServedElsewhere(c.on)
        <3>1. UNCHANGED <<heldTask, mark, unseen>>
            BY <1>8, <2>2 DEF TaskCallback
        <3>2. Served # None
            BY <2>2, <1>2, <1>6 DEF ServedElsewhere, Other, View
        <3>3. TaskIsOnItsWay'
            BY <3>1, <3>2, <1>0, <1>3, <1>8 DEF ViewInv, TaskIsOnItsWay, Holds
        <3> QED
            BY <3>1, <3>3, <1>4 DEF KeepsServedRow
    <2>3. CASE ~ServedElsewhere(c.on)
        <3>1. RetireTask(c.row)
            BY <1>8, <2>3 DEF TaskCallback
        <3>2. \A v \in View : cache[v] # c.row
            BY <2>1, <2>3, <1>1, <1>2 DEF ServedElsewhere, Other, View
        <3>3. Served # c.row
            BY <3>2 DEF Served, View
        <3>4. /\ heldTask' = IF heldTask = c.row THEN None ELSE heldTask
              /\ mark' = IF mark = c.row /\ c.row.text \notin Text THEN None ELSE mark
            BY <3>1, <1>1, <1>2, <1>4 DEF RetireTask, IsHeld
        <3>5. TaskIsOnItsWay'
            <4>1. CASE Served # None
                <5>1. CASE Holds(Served)
                    <6>1. heldTask # c.row /\ mark # c.row
                        BY <5>1, <3>3, <1>1, <1>2 DEF Holds
                    <6> QED
                        BY <5>1, <6>1, <3>4, <1>0, <1>3 DEF TaskIsOnItsWay, Holds
                <5>2. CASE \E d \in pending : d.on \in View /\ d.kind = "insert"
                    BY <5>2, <4>1, <1>3, <1>8 DEF TaskIsOnItsWay
                <5> QED
                    BY <4>1, <5>1, <5>2 DEF ViewInv, TaskIsOnItsWay
            <4>2. CASE Served = None
                <5>1. CASE Holds(Served)
                    BY <5>1, <4>2, <3>4, <1>0, <1>1, <1>2, <1>3 DEF TaskIsOnItsWay, Holds
                <5>2. CASE \E d \in pending : d.on \in View /\ d.kind = "delete" /\ Holds(d.row)
                    <6>1. PICK d \in pending : d.on \in View /\ d.kind = "delete" /\ Holds(d.row)
                        BY <5>2
                    <6>2. d.row = c.row
                        BY <6>1, <1>2, <1>8 DEF ViewInv, CallbacksAreOfTheCache
                    <6>3. heldTask' = None /\ mark' = None
                        BY <6>1, <6>2, <3>4, <1>1, <1>2 DEF Holds
                    <6> QED
                        BY <6>3, <4>2, <1>0, <1>1, <1>3 DEF TaskIsOnItsWay, Holds, Undecodable
                <5> QED
                    BY <4>2, <5>1, <5>2 DEF ViewInv, TaskIsOnItsWay
            <4> QED
                BY <4>1, <4>2
        <3>6. KeepsServedRow
            BY <3>2, <3>4 DEF KeepsServedRow
        <3>7. unseen' = (unseen \/ heldTask' # heldTask \/ mark' # mark)
            BY <3>1 DEF RetireTask
        <3> QED
            BY <3>4, <3>5, <3>6, <3>7, <1>4
    <2> QED
        BY <2>2, <2>3
<1> QED
    BY <1>2, <1>7, <1>8

(* An agent's callback does the same for the agent, and keeps the index.   *)
LEMMA AgentCallbackLands ==
    ASSUME ViewInv, NEW c \in pending, AgentCallback(c), pending' = pending \ {c},
           UNCHANGED <<cache, agentCache, viewSetting>>
    PROVE  /\ \A a \in Agent : AgentIsOnItsWay(a)'
           /\ IndexIsOfTheHeld'
           /\ heldAgents' \in [Agent -> AgentRow \cup {None}]
           /\ current' \in {a \in Agent : heldAgents'[a] # None} \cup {NoCurrent}
           /\ unseen' \in BOOLEAN
           /\ unseen' = TRUE \/ (unseen' = unseen /\ heldAgents' = heldAgents /\ current' = current)
<1>0. Text' = Text /\ Agent' = Agent /\ Spoilt' = Spoilt /\ Raw' = Raw
    BY ViewSettingStays
<1>1. {NoCurrent, "own", "covered"} \cap Agent = {} /\ None \notin AgentRow /\ None.text # "current"
    BY ViewSettings_ DEF ViewInv, None
<1>2. /\ c.on \in Agent /\ c.on \notin View
      /\ c.kind \in {"insert", "delete"} /\ c.row \in AgentRow
    BY <1>1 DEF AgentCallback, ViewInv, TaskCallbackRow, AgentCallbackRow, View
<1>3. /\ heldAgents \in [Agent -> AgentRow \cup {None}]
      /\ agentCache \in [Agent -> AgentRow \cup {None}]
      /\ current \in {a \in Agent : heldAgents[a] # None} \cup {NoCurrent}
      /\ unseen \in BOOLEAN
    BY DEF ViewInv, ViewTypeOK
<1>4. ASSUME NEW a \in Agent
      PROVE  /\ current = a => heldAgents[a].text = "current"
             /\ heldAgents[a].text = "current" /\ heldAgents[a] = agentCache[a] => current = a
    BY DEF ViewInv, IndexIsOfTheHeld
<1>5. CASE c.kind = "insert"
    <2>1. c.row = agentCache[c.on]
        BY <1>2, <1>5 DEF ViewInv, CallbacksAreOfTheCache
    <2>2. /\ heldAgents' = [heldAgents EXCEPT ![c.on] = c.row]
          /\ current' = IF c.row.text = "current" THEN c.on
                        ELSE IF current = c.on THEN NoCurrent ELSE current
          /\ unseen' = TRUE
        BY <1>5 DEF AgentCallback, UpsertAgent, IndexAgentOut
    <2>3. ASSUME NEW a \in Agent' PROVE AgentIsOnItsWay(a)'
        <3>1. CASE a = c.on
            BY <3>1, <2>1, <2>2, <1>2, <1>3 DEF AgentIsOnItsWay
        <3>2. CASE a # c.on
            BY <3>2, <2>2, <1>0, <1>2, <1>3 DEF ViewInv, AgentIsOnItsWay
        <3> QED
            BY <3>1, <3>2
    <2>4. IndexIsOfTheHeld'
        <3> SUFFICES ASSUME NEW a \in Agent
                     PROVE  /\ current' = a => heldAgents'[a].text = "current"
                            /\ heldAgents'[a].text = "current" /\ heldAgents'[a] = agentCache[a]
                                   => current' = a
            BY <1>0 DEF IndexIsOfTheHeld
        <3>1. CASE a = c.on
            BY <3>1, <2>2, <1>1, <1>2, <1>3
        <3>2. CASE a # c.on
            <4>1. c.row.text = "current" => agentCache[a].text # "current"
                BY <2>1, <3>2, <1>2 DEF ViewInv, OneCurrent
            <4> QED
                BY <3>2, <4>1, <2>2, <1>1, <1>2, <1>3, <1>4
        <3> QED
            BY <3>1, <3>2
    <2> QED
        BY <2>2, <2>3, <2>4, <1>0, <1>1, <1>2, <1>3
<1>6. CASE c.kind = "delete"
    <2>1. c.row # agentCache[c.on]
        BY <1>2, <1>6 DEF ViewInv, CallbacksAreOfTheCache
    <2>2. CASE heldAgents[c.on] = c.row
        <3>1. /\ heldAgents' = [heldAgents EXCEPT ![c.on] = None]
              /\ current' = IF current = c.on THEN NoCurrent ELSE current
              /\ unseen' = TRUE
            BY <1>6, <2>2 DEF AgentCallback, RetireAgent, IsHeld, IndexAgentOut
        <3>2. ASSUME NEW a \in Agent' PROVE AgentIsOnItsWay(a)'
            <4>1. CASE a = c.on /\ agentCache[a] # None
                <5>1. \E d \in pending : d.on = a /\ d.kind = "insert"
                    BY <4>1, <2>1, <2>2, <1>2 DEF ViewInv, AgentIsOnItsWay
                <5> QED
                    BY <4>1, <5>1, <1>6 DEF AgentIsOnItsWay
            <4>2. CASE a = c.on /\ agentCache[a] = None
                BY <4>2, <3>1, <1>2, <1>3 DEF AgentIsOnItsWay
            <4>3. CASE a # c.on
                BY <4>3, <3>1, <1>0, <1>2, <1>3 DEF ViewInv, AgentIsOnItsWay
            <4> QED
                BY <4>1, <4>2, <4>3
        <3>3. IndexIsOfTheHeld'
            <4> SUFFICES ASSUME NEW a \in Agent
                         PROVE  /\ current' = a => heldAgents'[a].text = "current"
                                /\ heldAgents'[a].text = "current" /\ heldAgents'[a] = agentCache[a]
                                       => current' = a
                BY <1>0 DEF IndexIsOfTheHeld
            <4> QED
                BY <3>1, <1>1, <1>2, <1>3, <1>4
        <3> QED
            BY <3>1, <3>2, <3>3, <1>0, <1>1, <1>2, <1>3
    <2>3. CASE heldAgents[c.on] # c.row
        <3>1. UNCHANGED <<heldAgents, current, unseen>>
            BY <1>6, <2>3 DEF AgentCallback, RetireAgent, IsHeld
        <3>2. ASSUME NEW a \in Agent' PROVE AgentIsOnItsWay(a)'
            BY <3>1, <2>3, <1>0, <1>6 DEF ViewInv, AgentIsOnItsWay
        <3> QED
            BY <3>1, <3>2, <1>0, <1>3 DEF ViewInv, IndexIsOfTheHeld
    <2> QED
        BY <2>2, <2>3
<1> QED
    BY <1>2, <1>5, <1>6

LEMMA CallbackKeeps ==
    ASSUME ViewInv, Callback, UNCHANGED viewSetting
    PROVE  ViewInv' /\ KeepsServedRow
<1>0. Text' = Text /\ Agent' = Agent /\ Spoilt' = Spoilt /\ Raw' = Raw
    BY ViewSettingStays
<1>1. PICK c \in pending : (TaskCallback(c) \/ AgentCallback(c)) /\ pending' = pending \ {c}
    BY DEF Callback
<1>2. UNCHANGED <<cache, agentCache, pump, drawn, viewQuiet>>
    BY DEF Callback
<1>3. /\ OneVersion' /\ OneCurrent' /\ CallbacksAreOfTheCache'
      /\ pending' \subseteq (TaskCallbackRow \cup AgentCallbackRow)'
    BY <1>0, <1>1, <1>2 DEF ViewInv, OneVersion, OneCurrent, CallbacksAreOfTheCache, TaskCallbackRow,
        AgentCallbackRow
<1>4. CASE TaskCallback(c)
    <2>1. UNCHANGED <<heldAgents, current>> /\ c.on \in View
        BY <1>4 DEF TaskCallback
    <2>2. View \cap Agent = {}
        BY ViewSettings_ DEF ViewInv, View
    <2>3. \A a \in Agent' : AgentIsOnItsWay(a)'
        BY <1>0, <1>1, <1>2, <2>1, <2>2 DEF ViewInv, AgentIsOnItsWay
    <2>4. IndexIsOfTheHeld'
        BY <1>0, <1>2, <2>1 DEF ViewInv, IndexIsOfTheHeld
    <2>5. /\ TaskIsOnItsWay'
          /\ heldTask' \in Raw \cup {None} /\ mark' \in Raw \cup {None}
          /\ heldTask' = None \/ mark' = None
          /\ heldTask' # None => heldTask'.text \in Text
          /\ KeepsServedRow
          /\ unseen' \in BOOLEAN
          /\ ~Spoilt => unseen' = TRUE \/ (unseen' = unseen /\ heldTask' = heldTask)
        BY <1>1, <1>2, <1>4, TaskCallbackLands
    <2>6. ViewTypeOK'
        BY <1>0, <1>2, <2>1, <2>5 DEF ViewInv, ViewTypeOK
    <2>7. ~Spoilt' => DrawnIsHeld'
        BY <1>0, <1>2, <2>1, <2>5 DEF ViewInv, DrawnIsHeld, ViewOfTask
    <2> QED
        BY <1>0, <1>3, <2>3, <2>4, <2>5, <2>6, <2>7 DEF ViewInv
<1>5. CASE AgentCallback(c)
    <2>1. UNCHANGED <<heldTask, mark>> /\ c.on \in Agent
        BY <1>5 DEF AgentCallback
    <2>2. View \cap Agent = {}
        BY ViewSettings_ DEF ViewInv, View
    <2>3. TaskIsOnItsWay'
        BY <1>0, <1>1, <1>2, <2>1, <2>2 DEF ViewInv, TaskIsOnItsWay, Holds, Served
    <2>4. /\ \A a \in Agent : AgentIsOnItsWay(a)'
          /\ IndexIsOfTheHeld'
          /\ heldAgents' \in [Agent -> AgentRow \cup {None}]
          /\ current' \in {a \in Agent : heldAgents'[a] # None} \cup {NoCurrent}
          /\ unseen' \in BOOLEAN
          /\ unseen' = TRUE \/ (unseen' = unseen /\ heldAgents' = heldAgents /\ current' = current)
        BY <1>1, <1>2, <1>5, AgentCallbackLands
    <2>5. ViewTypeOK'
        BY <1>0, <1>2, <2>1, <2>4 DEF ViewInv, ViewTypeOK
    <2>6. ~Spoilt' => DrawnIsHeld'
        BY <1>0, <1>2, <2>1, <2>4 DEF ViewInv, DrawnIsHeld, ViewOfTask
    <2> QED
        BY <1>0, <1>3, <2>1, <2>3, <2>4, <2>5, <2>6 DEF ViewInv, KeepsServedRow
<1> QED
    BY <1>1, <1>4, <1>5

LEMMA PumpKeeps ==
    ASSUME ViewInv, Wake \/ Read \/ StoreFallsQuiet \/ UNCHANGED mirrorVars, UNCHANGED viewSetting
    PROVE  ViewInv' /\ KeepsServedRow
<1>0. Text' = Text /\ Agent' = Agent /\ Spoilt' = Spoilt /\ Raw' = Raw
    BY ViewSettingStays
<1>1. UNCHANGED <<cache, agentCache, pending, heldTask, mark, heldAgents, current>>
    BY DEF Wake, Read, StoreFallsQuiet, mirrorVars, heldVars
<1>2. ViewTypeOK'
    BY <1>0, <1>1 DEF ViewInv, ViewTypeOK, Wake, Read, StoreFallsQuiet, mirrorVars, heldVars
<1>3. ~Spoilt' => DrawnIsHeld'
    BY <1>0, <1>1 DEF ViewInv, DrawnIsHeld, ViewOfTask, Wake, Read, StoreFallsQuiet, mirrorVars, heldVars
<1>4. /\ OneVersion' /\ OneCurrent' /\ CallbacksAreOfTheCache'
      /\ pending' \subseteq (TaskCallbackRow \cup AgentCallbackRow)'
    BY <1>0, <1>1 DEF ViewInv, OneVersion, OneCurrent, CallbacksAreOfTheCache, TaskCallbackRow,
        AgentCallbackRow
<1>5. TaskIsOnItsWay'
    BY <1>0, <1>1 DEF ViewInv, TaskIsOnItsWay, Holds, Served
<1>6. (\A a \in Agent' : AgentIsOnItsWay(a)') /\ IndexIsOfTheHeld'
    BY <1>0, <1>1 DEF ViewInv, AgentIsOnItsWay, IndexIsOfTheHeld
<1> QED
    BY <1>0, <1>1, <1>2, <1>3, <1>4, <1>5, <1>6 DEF ViewInv, KeepsServedRow

LEMMA ViewStepKeeps == ViewInv /\ [ViewNext]_viewVars => ViewInv' /\ KeepsServedRow
<1> SUFFICES ASSUME ViewInv, [ViewNext]_viewVars PROVE ViewInv' /\ KeepsServedRow
    OBVIOUS
<1>1. UNCHANGED viewSetting
    BY DEF ViewNext, viewVars
<1>2. CASE TaskTransaction
    BY <1>1, <1>2, TaskTransactionKeeps DEF TaskTransaction, heldVars, KeepsServedRow
<1>3. CASE AgentTransaction
    BY <1>1, <1>3, AgentTransactionKeeps DEF AgentTransaction, heldVars, KeepsServedRow
<1>4. CASE Callback
    BY <1>1, <1>4, CallbackKeeps
<1>5. CASE Wake \/ Read \/ StoreFallsQuiet \/ UNCHANGED mirrorVars
    BY <1>1, <1>5, PumpKeeps
<1> QED
    BY <1>2, <1>3, <1>4, <1>5 DEF ViewNext, ViewStep, viewVars

(* Once the callbacks of a transaction have run, in any order, the board   *)
(* holds what is served, the index names the agent that is current, what   *)
(* is drawn is what is held, and no row that goes on being served was ever *)
(* off the board (rows.rs, sdk_connector/wiring.rs).                       *)
THEOREM BoardsShowWhatIsServed == ViewSpec => BoardsShowWhatIs
<1>1. ViewInv => ViewTypeOK /\ HeldIsServed /\ CurrentAgentIsIndexed /\ (~Spoilt => DrawnIsHeld)
    <2> SUFFICES ASSUME ViewInv
                 PROVE  HeldIsServed /\ CurrentAgentIsIndexed
        BY DEF ViewInv
    <2>1. HeldIsServed
        BY AtRest_ DEF HeldIsServed, Holds
    <2>2. CurrentAgentIsIndexed
        BY AtRest_ DEF CurrentAgentIsIndexed, ViewInv, IndexIsOfTheHeld
    <2> QED
        BY <2>1, <2>2
<1> QED
    BY <1>1, ViewInitInv, ViewStepKeeps, PTL DEF ViewSpec, BoardsShowWhatIs

----------------------------------------------------------------------------
(* AgentActivity: what the store learns of an agent from its hooks, for    *)
(* any number of subagents, sessions and agents, any hooks, and events     *)
(* written in any order or not at all.                                     *)
(*                                                                         *)
(* The second half is about writes that keep up with the session: then     *)
(* what the row does not say yet is what the one event on its way says.    *)

(***************************************************************************)
(* The invariant.                                                          *)
(***************************************************************************)
AgentRecord(n, times) ==
    [id : 0..n, window : BOOLEAN, live : Nat, pending : BOOLEAN,
     stopAt : 0..times, toolAt : 0..times, noteAt : 0..times]

Classified == {"needs_input", "active", "stale"}

SubStatuses == {"none", "active", "needs_input", "stale", "crashed", "conflict", "awaiting_review",
                "changes_requested", "approved", "pr_closed", "pr_unreachable"}

RowRecord == {r \in [status : {"backlog", "running", "review", "done"}, sub : SubStatuses] :
                  r.sub \in LegalSubs(r.status)}

EntryRecord(subs, n, m) == [sub : subs, sid : 1..n, owner : 1..m]

SessionOK(s, subs, n) ==
    /\ s \in [id : 0..n, turn : {"none", "fresh", "busy", "ended"}, subs : SUBSET subs]
    /\ s = NoSession \/ (s.id \in 1..n /\ s.turn # "none")

EventOK(e, subs, n, now) ==
    /\ e \in [kind : HookKinds \cup BoardWrites, at : 1..now, sid : 0..n,
              what : subs \cup Classified \cup NoteModes \cup {Unread, "none"}]
    /\ e.kind = "substart" => e.what \in subs /\ e.sid \in 1..n
    /\ e.kind = "tool" => e.what \in Classified \cup {Unread}

Types ==
    /\ setting \in Settings
    /\ task \in RowRecord
    /\ agents \in 0..MaxAgents
    /\ agent \in AgentRecord(agents, MaxClock)
    /\ entries \subseteq EntryRecord(Sub, sessions, agents)
    /\ SessionOK(session, Sub, sessions)
    /\ sessions \in 0..MaxSessions
    /\ launching \in BOOLEAN
    /\ clock \in 1..MaxClock
    /\ \A e \in inflight : EventOK(e, Sub, sessions, clock)

(* A subagent is counted once, and rows are only ever an agent's.           *)
RowsCount ==
    /\ IsFiniteSet(entries)
    /\ \A d, e \in entries : d.sub = e.sub => d = e
    /\ agent.id = 0 => agent = NoAgent
    /\ launching => agent # NoAgent

ActivityInv ==
    /\ Types
    /\ RowsCount
    /\ LiveCountIsTheRows /\ RowsAreOfOneSession /\ RowsAreOfTheCurrentAgent
    /\ NoStrandedStop /\ PendingStopOnlyWhileRunning

(* Where the writes keep up: what is on its way to the store.               *)
OnItsWay(events, kind) == \E e \in events : e.kind = kind
Told(events, kind) == {e.what : e \in {d \in events : d.kind = kind}}

OneAtATime ==
    \A d, e \in inflight : d = e \/ {d.kind, e.kind} = {"resumed", "clear"}

(* A task that waits or is being launched has no session and nothing of one.*)
BeforeTheLaunch ==
    /\ task.status # "done"
    /\ launching => task.status = "running"
    /\ launching \/ task.status = "backlog" =>
           session = NoSession /\ inflight = {} /\ ~agent.window /\ ~agent.pending
    /\ task.status # "backlog" => agent # NoAgent

(* Without a session only a clean-up is on its way, and one is if a stop is *)
(* still put off and the window is known to be gone.                        *)
WithoutASession ==
    session = NoSession =>
        /\ \A e \in inflight : e.kind \in {"clear", "drain"}
        /\ agent.window => inflight = {}
        /\ agent.pending /\ ~agent.window => inflight # {}

(* A session's events are its own, and it has its window or will.           *)
WithASession ==
    session # NoSession =>
        /\ \A e \in inflight : e.kind # "drain"
        /\ \A e \in inflight : e.kind \in {"prompt", "stop", "substart", "substop"} => e.sid = session.id
        /\ agent.window \/ OnItsWay(inflight, "resumed")

(* What the row says of a session is what the session does, but for the     *)
(* event on its way.                                                        *)
WhileFresh ==
    session.turn = "fresh" =>
        /\ session.subs = {}
        /\ \A e \in inflight : e.kind \in {"resumed", "clear", "tool", "note"}
        /\ OnItsWay(inflight, "clear") \/ (entries = {} /\ ~agent.pending)

SubagentsFollow ==
    session.turn \in {"busy", "ended"} =>
        /\ ~OnItsWay(inflight, "clear") /\ ~OnItsWay(inflight, "resumed")
        /\ {e.sub : e \in entries}
               = (session.subs \ Told(inflight, "substart")) \cup Told(inflight, "substop")
        /\ Told(inflight, "substart") \subseteq session.subs
        /\ Told(inflight, "substop") \cap session.subs = {}
        /\ \A e \in entries : e.sid = session.id

WhileBusy ==
    session.turn = "busy" =>
        /\ ~OnItsWay(inflight, "stop")
        /\ OnItsWay(inflight, "prompt") \/ (task.status = "running" /\ ~agent.pending)

OnceEnded ==
    session.turn = "ended" =>
        /\ ~OnItsWay(inflight, "prompt") /\ ~OnItsWay(inflight, "substart")
        /\ OnItsWay(inflight, "stop") => task.status = "running" /\ ~agent.pending
        /\ ~OnItsWay(inflight, "stop") =>
               IF entries = {} THEN task.status # "running"
               ELSE task.status = "running" /\ agent.pending

PromptsAreLater == \A e \in inflight : e.kind = "prompt" => agent.stopAt < e.at

RowFollows ==
    WhileFresh /\ SubagentsFollow /\ WhileBusy /\ OnceEnded /\ PromptsAreLater

KeepingUp ==
    /\ OneAtATime
    /\ BeforeTheLaunch
    /\ WithoutASession
    /\ WithASession
    /\ RowFollows

(***************************************************************************)
(* What the operators keep.                                                *)
(***************************************************************************)
LEMMA StatusFacts ==
    /\ \A s \in {"backlog", "done"} : LegalSubs(s) = {"none"}
    /\ LegalSubs("running") = {"active", "needs_input", "stale", "crashed", "conflict"}
    /\ LegalSubs("review") = {"awaiting_review", "changes_requested", "approved", "conflict",
                              "pr_closed", "pr_unreachable"}
    /\ \A s \in {"backlog", "running", "review", "done"} : DefaultSub(s) \in LegalSubs(s)
    /\ \A a, t, now : Classify(a, t, now) \in Classified
    BY DEF LegalSubs, DefaultSub, Classify, Classified

LEMMA SettingFacts ==
    ASSUME setting \in Settings
    PROVE  /\ IsFiniteSet(Sub)
           /\ MaxClock \in Nat \ {0} /\ MaxAgents \in Nat /\ MaxSessions \in Nat
           /\ InOrder \in BOOLEAN /\ Lossy \in BOOLEAN /\ Acts \subseteq AllActs
    BY ActivityAssumption DEF Sub, MaxClock, MaxAgents, MaxSessions, InOrder, Lossy, Acts

(* The rows of a task are as many as its subagents at most.                 *)
LEMMA RowsAreBounded ==
    ASSUME Types, RowsCount
    PROVE  Cardinality(entries) \in 0..Cardinality(Sub)
<1> DEFINE f == [e \in entries |-> e.sub]
<1>0. setting \in Settings /\ \A e \in entries : e.sub \in Sub
    BY DEF Types, EntryRecord
<1>1. f \in Injection(entries, Sub)
    BY <1>0 DEF RowsCount, Injection, IsInjective
<1>2. Cardinality(entries) <= Cardinality(Sub)
    BY <1>0, <1>1, SettingFacts, FS_Injection
<1>3. Cardinality(entries) \in Nat /\ Cardinality(Sub) \in Nat
    BY <1>0, SettingFacts, FS_CardinalityType DEF RowsCount
<1> QED
    BY <1>2, <1>3

(* Rows after a subagent came or went, of the session that said so.         *)
LEMMA RowsAfter ==
    ASSUME RowsCount, RowsAreOfTheCurrentAgent, NEW sid, NEW sub
    PROVE  LET rest == Without(Fenced(entries, sid), sub)
               more == rest \cup {[sub |-> sub, sid |-> sid, owner |-> agent.id]}
           IN  /\ rest \subseteq entries /\ IsFiniteSet(rest) /\ Cardinality(rest) \in Nat
               /\ \A e \in rest : e.sid = sid /\ e.sub # sub
               /\ IsFiniteSet(more) /\ Cardinality(more) \in Nat \ {0}
               /\ \A d, e \in more : d.sub = e.sub => d = e
               /\ \A e \in more : e.sid = sid /\ e.owner = agent.id
<1> DEFINE rest == Without(Fenced(entries, sid), sub)
           new == [sub |-> sub, sid |-> sid, owner |-> agent.id]
           more == rest \cup {new}
<1>1. rest \subseteq entries /\ \A e \in rest : e.sid = sid /\ e.sub # sub
    BY DEF Without, Fenced
<1>2. IsFiniteSet(rest) /\ Cardinality(rest) \in Nat
    BY <1>1, FS_Subset, FS_CardinalityType DEF RowsCount
<1>3. new \notin rest
    BY <1>1
<1>4. IsFiniteSet(more) /\ Cardinality(more) = Cardinality(rest) + 1
    BY <1>2, <1>3, FS_AddElement
<1>5. \A d, e \in more : d.sub = e.sub => d = e
    BY <1>1 DEF RowsCount
<1>6. \A e \in more : e.sid = sid /\ e.owner = agent.id
    BY <1>1 DEF RowsAreOfTheCurrentAgent
<1> HIDE DEF rest, more
<1>7. Cardinality(more) \in Nat \ {0}
    BY <1>2, <1>4
<1> QED
    BY <1>1, <1>2, <1>4, <1>5, <1>6, <1>7 DEF rest, more

(* Without an agent there is nothing to count.                              *)
LEMMA NoAgentNoRows ==
    ASSUME Types, RowsAreOfTheCurrentAgent, agent = NoAgent
    PROVE  entries = {}
    BY DEF Types, EntryRecord, RowsAreOfTheCurrentAgent, NoAgent

LEMMA EmptyRows == IsFiniteSet({}) /\ Cardinality({}) = 0
    BY FS_EmptySet

(***************************************************************************)
(* Types.                                                                  *)
(***************************************************************************)
LEMMA RowFacts ==
    /\ Row("running", "active") \in RowRecord
    /\ \A c \in Classified : Row("running", c) \in RowRecord
    /\ Row("running", "crashed") \in RowRecord
    /\ Row("review", "awaiting_review") \in RowRecord
    /\ Row("backlog", "none") \in RowRecord /\ Row("done", "none") \in RowRecord
    /\ \A s \in {"backlog", "running", "review", "done"} : Row(s, DefaultSub(s)) \in RowRecord
<1>1. \A status, sub : sub \in SubStatuses /\ status \in {"backlog", "running", "review", "done"}
                             /\ sub \in LegalSubs(status) => Row(status, sub) \in RowRecord
    BY DEF Row, RowRecord
<1>2. \A s \in {"backlog", "running", "review", "done"} :
          DefaultSub(s) \in SubStatuses /\ DefaultSub(s) \in LegalSubs(s)
    BY DEF LegalSubs, DefaultSub, SubStatuses
<1>3. \A c \in Classified \cup {"crashed"} : c \in SubStatuses /\ c \in LegalSubs("running")
    BY DEF LegalSubs, Classified, SubStatuses
<1>4. "awaiting_review" \in LegalSubs("review") /\ "none" \in LegalSubs("backlog") /\ "none" \in LegalSubs("done")
    BY DEF LegalSubs
<1> QED
    BY <1>1, <1>2, <1>3, <1>4 DEF Classified, SubStatuses

(* What an operator makes of an agent is an agent.                          *)
LEMMA AgentFacts ==
    ASSUME NEW n \in Nat, NEW t \in Nat, NEW a \in AgentRecord(n, t)
    PROVE  /\ AtRest(a) \in AgentRecord(n, t) /\ Voided(a) \in AgentRecord(n, t)
           /\ \A w \in BOOLEAN : [a EXCEPT !.window = w] \in AgentRecord(n, t)
           /\ \A rows : Cardinality(rows) \in Nat => Synced(a, rows) \in AgentRecord(n, t)
           /\ \A at \in 0..t : /\ AfterPrompt(a, at) \in AgentRecord(n, t)
                               /\ Noted(a, at) \in AgentRecord(n, t)
                               /\ [a EXCEPT !.toolAt = at] \in AgentRecord(n, t)
                               /\ [a EXCEPT !.window = TRUE, !.toolAt = at] \in AgentRecord(n, t)
                               /\ [a EXCEPT !.pending = TRUE, !.stopAt = at] \in AgentRecord(n, t)
           /\ NoAgent \in AgentRecord(n, t)
<1>1. 0 \in 0..t /\ 0 \in 0..n
    OBVIOUS
<1>2. AtRest(a) \in AgentRecord(n, t) /\ Voided(a) \in AgentRecord(n, t)
    BY <1>1 DEF AtRest, Voided, AgentRecord, Never
<1>3. \A w \in BOOLEAN : [a EXCEPT !.window = w] \in AgentRecord(n, t)
    BY DEF AgentRecord
<1>4. \A rows : Cardinality(rows) \in Nat => Synced(a, rows) \in AgentRecord(n, t)
    BY DEF AgentRecord, Synced
<1>5. ASSUME NEW at \in 0..t
      PROVE /\ AfterPrompt(a, at) \in AgentRecord(n, t)
            /\ Noted(a, at) \in AgentRecord(n, t)
            /\ [a EXCEPT !.toolAt = at] \in AgentRecord(n, t)
            /\ [a EXCEPT !.window = TRUE, !.toolAt = at] \in AgentRecord(n, t)
            /\ [a EXCEPT !.pending = TRUE, !.stopAt = at] \in AgentRecord(n, t)
    <2>1. (a.pending /\ ~VoidsPendingStop(a, at)) \in BOOLEAN
        OBVIOUS
    <2>2. AfterPrompt(a, at) \in AgentRecord(n, t)
        BY <2>1 DEF AgentRecord, AfterPrompt, VoidsPendingStop
    <2> QED BY <2>2 DEF AgentRecord, Noted
<1>6. NoAgent \in AgentRecord(n, t)
    BY <1>1 DEF NoAgent, AgentRecord, Never
<1> QED
    BY <1>2, <1>3, <1>4, <1>5, <1>6

(* What was counted, sent or recorded stays so when ids and time go on.     *)
LEMMA TypesGrow ==
    ASSUME NEW subs, NEW n \in Nat, NEW m \in Nat, NEW k \in Nat, NEW l \in Nat, NEW c \in Nat,
           NEW d \in Nat, NEW t \in Nat, n <= m, k <= l, c <= d
    PROVE  /\ \A e : EventOK(e, subs, n, c) => EventOK(e, subs, m, d)
           /\ AgentRecord(k, t) \subseteq AgentRecord(l, t)
           /\ EntryRecord(subs, n, k) \subseteq EntryRecord(subs, m, l)
           /\ \A s : SessionOK(s, subs, n) => SessionOK(s, subs, m)
<1>1. 0..n \subseteq 0..m /\ 1..n \subseteq 1..m /\ 0..k \subseteq 0..l /\ 1..k \subseteq 1..l
      /\ 1..c \subseteq 1..d
    OBVIOUS
<1>2. \A e : EventOK(e, subs, n, c) => EventOK(e, subs, m, d)
    BY <1>1 DEF EventOK
<1>3. AgentRecord(k, t) \subseteq AgentRecord(l, t)
    BY <1>1 DEF AgentRecord
<1>4. EntryRecord(subs, n, k) \subseteq EntryRecord(subs, m, l)
    BY <1>1 DEF EntryRecord
<1>5. \A s : SessionOK(s, subs, n) => SessionOK(s, subs, m)
    BY <1>1 DEF SessionOK
<1> QED
    BY <1>2, <1>3, <1>4, <1>5

(* A new session, and the events its start sends.                           *)
LEMMA SessionStarts ==
    ASSUME Types, NEW rest, \A e \in rest : EventOK(e, Sub, sessions, clock), StartSession(rest)
    PROVE  /\ sessions' \in 0..MaxSessions /\ sessions' = sessions + 1
           /\ SessionOK(session', Sub, sessions')
           /\ \A e \in inflight' : EventOK(e, Sub, sessions', clock)
<1>1. MaxSessions \in Nat /\ sessions \in 0..MaxSessions /\ MaxClock \in Nat /\ clock \in 1..MaxClock
    BY SettingFacts DEF Types
<1>2. sessions' \in 0..MaxSessions /\ sessions' = sessions + 1
    BY <1>1 DEF StartSession
<1>3. SessionOK(session', Sub, sessions')
    BY <1>1 DEF StartSession, SessionOK
<1>4. \A e : EventOK(e, Sub, sessions, clock) => EventOK(e, Sub, sessions', clock)
    <2>1. 0..sessions \subseteq 0..sessions' /\ 1..sessions \subseteq 1..sessions'
        BY <1>1, <1>2
    <2> QED BY <2>1 DEF EventOK
<1> DEFINE new == Message("clear", sessions + 1, "none")
<1>5. EventOK(new, Sub, sessions', clock)
    BY <1>1, <1>2 DEF EventOK, Message, HookKinds
<1>6. inflight' \subseteq inflight \cup rest \cup {new}
    BY DEF StartSession
<1> HIDE DEF new
<1>7. ASSUME NEW e \in inflight' PROVE EventOK(e, Sub, sessions', clock)
    <2>1. e \in inflight \/ e \in rest \/ e = new
        BY <1>6
    <2> QED BY <2>1, <1>4, <1>5 DEF Types
<1> QED
    BY <1>2, <1>3, <1>7

LEMMA TypesStep == ActivityInv /\ [Next]_vars => Types'
<1> SUFFICES ASSUME ActivityInv, [Next]_vars PROVE Types'
    OBVIOUS
<1>0. /\ setting' = setting /\ setting \in Settings
      /\ MaxAgents \in Nat /\ MaxSessions \in Nat /\ MaxClock \in Nat \ {0}
      /\ Sub' = Sub /\ MaxClock' = MaxClock /\ MaxAgents' = MaxAgents /\ MaxSessions' = MaxSessions
    BY SettingFacts DEF ActivityInv, Types, Next, vars, Sub, MaxClock, MaxAgents, MaxSessions
<1>a. /\ task \in RowRecord /\ agents \in Nat /\ agents \in 0..MaxAgents
      /\ agent \in AgentRecord(agents, MaxClock)
      /\ sessions \in Nat /\ sessions \in 0..MaxSessions
      /\ clock \in 1..MaxClock /\ clock \in 0..MaxClock /\ 0 \in 0..MaxClock
      /\ entries \subseteq EntryRecord(Sub, sessions, agents)
      /\ SessionOK(session, Sub, sessions) /\ launching \in BOOLEAN
      /\ \A e \in inflight : EventOK(e, Sub, sessions, clock)
    BY <1>0 DEF ActivityInv, Types
<1>b. SessionOK(NoSession, Sub, sessions)
    BY <1>a DEF SessionOK, NoSession
<1> USE <1>0, <1>a
(* What an event does to the row, the agent and the rows.                   *)
<1> DEFINE AllButTheRows == UNCHANGED <<agents, session, sessions, launching, clock>>
           RowsOK == /\ task' \in RowRecord /\ agent' \in AgentRecord(agents, MaxClock)
                     /\ entries' \subseteq EntryRecord(Sub, sessions, agents)
<1>1. ASSUME NEW e \in inflight, StoreApplies(e) PROVE RowsOK
    <2> USE <1>1
    <2>1. EventOK(e, Sub, sessions, clock) /\ e.at \in 0..MaxClock
        BY DEF EventOK
    <2>0. \A a \in AgentRecord(agents, MaxClock) :
              /\ AtRest(a) \in AgentRecord(agents, MaxClock) /\ Voided(a) \in AgentRecord(agents, MaxClock)
              /\ \A at \in 0..MaxClock :
                     /\ AfterPrompt(a, at) \in AgentRecord(agents, MaxClock)
                     /\ Noted(a, at) \in AgentRecord(agents, MaxClock)
                     /\ [a EXCEPT !.toolAt = at] \in AgentRecord(agents, MaxClock)
                     /\ [a EXCEPT !.window = TRUE, !.toolAt = at] \in AgentRecord(agents, MaxClock)
                     /\ [a EXCEPT !.pending = TRUE, !.stopAt = at] \in AgentRecord(agents, MaxClock)
        BY AgentFacts
    <2>2. \A rows : Cardinality(rows) \in Nat => Synced(agent, rows) \in AgentRecord(agents, MaxClock)
        BY AgentFacts
    <2>3. ASSUME NEW a \in AgentRecord(agents, MaxClock), ApplyPendingStopIfDrained(a)
          PROVE task' \in RowRecord /\ agent' \in AgentRecord(agents, MaxClock)
        <3> DEFINE Drained == task.status = "running" /\ a # NoAgent /\ a.pending /\ a.live = 0
        <3>1. CASE Drained
            <4>1. FlipToReview(a)
                BY <2>3, <3>1 DEF ApplyPendingStopIfDrained
            <4> QED BY <2>0, <2>3, <4>1, RowFacts DEF FlipToReview
        <3>2. CASE ~Drained
            <4>1. agent' = a /\ task' = task
                BY <2>3, <3>2 DEF ApplyPendingStopIfDrained
            <4> QED BY <2>3, <4>1
        <3> QED BY <3>1, <3>2
    <2>4. CASE TryRecordStop(e)
        BY <2>0, <2>1, <2>4, RowFacts DEF TryRecordStop, FlipToReview
    <2>5. CASE RecordUserPromptSubmit(e)
        BY <2>0, <2>1, <2>5, RowFacts DEF RecordUserPromptSubmit
    <2>6. CASE SubagentStart(e)
        <3>1. CASE agent = NoAgent
            BY <2>6, <3>1 DEF SubagentStart
        <3>2. CASE agent # NoAgent
            <4> DEFINE rest == Without(Fenced(entries, e.sid), e.what)
                       new == [sub |-> e.what, sid |-> e.sid, owner |-> agent.id]
            <4>1. agent.id \in 1..agents
                BY <3>2 DEF ActivityInv, RowsCount, AgentRecord
            <4>2. rest \subseteq entries /\ Cardinality(rest \cup {new}) \in Nat
                BY RowsAfter DEF ActivityInv
            <4>3. new \in EntryRecord(Sub, sessions, agents)
                BY <2>1, <2>6, <4>1 DEF EventOK, EntryRecord, SubagentStart
            <4>4. entries' = rest \cup {new} /\ agent' = Synced(agent, entries') /\ task' = task
                BY <2>6, <3>2 DEF SubagentStart
            <4> HIDE DEF rest, new
            <4> QED BY <2>2, <4>2, <4>3, <4>4
        <3> QED BY <3>1, <3>2
    <2>7. CASE SubagentStop(e)
        <3>1. entries' \subseteq entries /\ Cardinality(entries') \in Nat
            BY <2>7, RowsAfter DEF SubagentStop, ActivityInv
        <3> QED BY <2>2, <2>3, <2>7, <3>1 DEF SubagentStop
    <2>8. CASE SubagentClear(e)
        BY <2>2, <2>3, <2>8, EmptyRows DEF SubagentClear
    <2>9. CASE SubagentClearAndVoidPendingStop(e)
        <3>1. Synced(agent, {}) \in AgentRecord(agents, MaxClock)
            BY <2>2, EmptyRows
        <3> QED BY <2>0, <2>9, <3>1 DEF SubagentClearAndVoidPendingStop
    <2>10. CASE RecordNotification(e)
        BY <2>0, <2>1, <2>10, RowFacts DEF RecordNotification, Never, Classified
    <2>11. CASE RecordPreToolUse(e)
        <3>1. e.what \in Classified
            BY <2>1, <2>11 DEF RecordPreToolUse, EventOK
        <3> QED BY <2>0, <2>1, <2>11, <3>1, RowFacts DEF RecordPreToolUse
    <2>12. CASE Resumed(e)
        BY <2>0, <2>12, RowFacts DEF Resumed
    <2> QED
        BY <2>4, <2>5, <2>6, <2>7, <2>8, <2>9, <2>10, <2>11, <2>12 DEF StoreApplies
<1>2. CASE Deliver
    <2>1. ASSUME NEW e \in inflight, ClassifyToolUse(e) PROVE Types'
        <3>1. EventOK(e, Sub, sessions, clock) /\ e.kind = "tool" /\ Classify(agent, e.at, e.at) \in Classified
            BY <2>1, StatusFacts DEF ClassifyToolUse
        <3>2. EventOK([e EXCEPT !.what = Classify(agent, e.at, e.at)], Sub, sessions, clock)
            BY <3>1 DEF EventOK
        <3>3. \A d \in inflight' : EventOK(d, Sub, sessions, clock)
            BY <2>1, <3>2 DEF ClassifyToolUse
        <3> QED BY <2>1, <3>3 DEF ClassifyToolUse, Types
    <2>2. ASSUME NEW e \in inflight, StoreApplies(e), Applied(e), KeepAllButTheRows PROVE Types'
        <3>1. \A d \in inflight' : EventOK(d, Sub, sessions, clock)
            BY <2>2 DEF Applied
        <3> QED BY <1>1, <2>2, <3>1 DEF KeepAllButTheRows, Types
    <2> QED
        BY <1>2, <2>1, <2>2 DEF Deliver
(* Events fire from the session there is.                                   *)
<1>3. ASSUME NEW kind \in HookKinds, NEW what \in Sub \cup NoteModes \cup {Unread, "none"},
             kind = "substart" => what \in Sub /\ session # NoSession,
             kind = "tool" => what = Unread,
             Fire(kind, what), SessionOK(session', Sub, sessions)
      PROVE Types'
    <2> DEFINE new == Message(kind, session.id, what)
    <2>1. EventOK(new, Sub, sessions, clock)
        BY <1>3 DEF EventOK, SessionOK, Message
    <2>2. inflight' \subseteq inflight \cup {new}
        BY <1>3 DEF Fire
    <2> HIDE DEF new
    <2>3. \A d \in inflight' : EventOK(d, Sub, sessions, clock)
        BY <2>1, <2>2
    <2> QED
        BY <1>3, <2>3 DEF Fire, KeepTheRows, Types
<1>4. CASE SubmitPrompt
    <2>1. SessionOK(session', Sub, sessions)
        BY <1>4 DEF SubmitPrompt, SessionOK, NoSession
    <2> QED BY <1>3, <1>4, <2>1 DEF SubmitPrompt, HookKinds
<1>5. CASE EndTurn
    <2>1. SessionOK(session', Sub, sessions)
        BY <1>5 DEF EndTurn, SessionOK, NoSession
    <2> QED BY <1>3, <1>5, <2>1 DEF EndTurn, HookKinds
<1>6. ASSUME NEW sub \in Sub, StartSubagent(sub) PROVE Types'
    <2>1. SessionOK(session', Sub, sessions) /\ session # NoSession
        BY <1>6 DEF StartSubagent, SessionOK, NoSession
    <2> QED BY <1>3, <1>6, <2>1 DEF StartSubagent, HookKinds
<1>7. ASSUME NEW sub \in Sub, StopSubagent(sub) PROVE Types'
    <2>1. SessionOK(session', Sub, sessions)
        BY <1>7 DEF StopSubagent, SessionOK, NoSession
    <2> QED BY <1>3, <1>7, <2>1 DEF StopSubagent, HookKinds
<1>8. CASE UseTool
    BY <1>3, <1>8 DEF UseTool, HookKinds
<1>9. ASSUME NEW mode \in NoteModes, Notify(mode) PROVE Types'
    BY <1>3, <1>9 DEF Notify, HookKinds
(* Sessions that start.                                                     *)
<1>10. ASSUME NEW rest, \A e \in rest : EventOK(e, Sub, sessions, clock), StartSession(rest),
              task' = task, agents' = agents, entries' = entries, launching' \in BOOLEAN, clock' = clock,
              agent' \in AgentRecord(agents, MaxClock)
      PROVE Types'
    <2>1. /\ sessions' \in 0..MaxSessions /\ sessions' = sessions + 1
          /\ SessionOK(session', Sub, sessions')
          /\ \A e \in inflight' : EventOK(e, Sub, sessions', clock)
        BY <1>10, SessionStarts DEF ActivityInv
    <2>2. 1..sessions \subseteq 1..sessions'
        BY <2>1
    <2>3. entries \subseteq EntryRecord(Sub, sessions', agents)
        BY <2>2 DEF EntryRecord
    <2> QED BY <1>10, <2>1, <2>3 DEF Types
<1>11. CASE ClearTranscript
    BY <1>10, <1>11 DEF ClearTranscript, KeepTheRows
<1>12. CASE Launched
    BY <1>10, <1>12, AgentFacts DEF Launched
<1>13. CASE ResumeTask
    <2>1. EventOK(Message("resumed", 0, "none"), Sub, sessions, clock)
        BY DEF EventOK, Message, BoardWrites
    <2> QED BY <1>10, <1>13, <2>1 DEF ResumeTask, KeepTheRows
(* The board, people, and time.                                             *)
<1>14. CASE Dispatch
    <2>1. agents' \in 0..MaxAgents /\ agents' = agents + 1
        BY <1>14 DEF Dispatch
    <2>2. agent' \in AgentRecord(agents', MaxClock)
        <3>1. agent' = [id |-> agents + 1, window |-> FALSE, live |-> 0, pending |-> FALSE,
                        stopAt |-> 0, toolAt |-> clock, noteAt |-> 0]
            BY <1>14 DEF Dispatch, NoAgent, Never
        <3>2. agents + 1 \in 0..agents'
            BY <2>1
        <3> QED BY <2>1, <3>1, <3>2 DEF AgentRecord
    <2> QED BY <1>14, <2>1, <2>2, RowFacts DEF Dispatch, Types, EntriesAfterEnd
<1>15. CASE LaunchFails
    BY <1>15, AgentFacts, RowFacts DEF LaunchFails, EndAgent, EntriesAfterEnd, Types
<1>16. CASE RetryFresh
    BY <1>b, <1>16, AgentFacts, RowFacts DEF RetryFresh, EndAgent, EntriesAfterEnd, Types
<1>17. CASE CloseSession
    <2>1. agent' \in AgentRecord(agents, MaxClock)
        BY <1>17, AgentFacts DEF CloseSession
    <2> QED BY <1>17, <2>1, RowFacts DEF CloseSession, Types
<1>18. ASSUME NEW status \in {"backlog", "running", "review", "done"}, MoveTask(status) PROVE Types'
    <2>1. agent' \in AgentRecord(agents, MaxClock)
        BY <1>18, AgentFacts DEF MoveTask, StopAfterMove
    <2> QED BY <1>18, <2>1, RowFacts DEF MoveTask, Types
<1>19. CASE WindowGone
    <2> DEFINE new == Message("clear", 0, "none")
    <2>1. EventOK(new, Sub, sessions, clock)
        BY DEF EventOK, Message, HookKinds
    <2>2. inflight' \subseteq inflight \cup {new} /\ task' \in RowRecord
        BY <1>19, RowFacts DEF WindowGone
    <2>3. agent' \in AgentRecord(agents, MaxClock)
        BY <1>19, AgentFacts DEF WindowGone
    <2> HIDE DEF new
    <2> QED BY <1>19, <2>1, <2>2, <2>3 DEF WindowGone, Types
<1>20. CASE DetachTmux
    <2> DEFINE new == Message("drain", 0, "none")
    <2>1. EventOK(new, Sub, sessions, clock)
        BY DEF EventOK, Message, BoardWrites
    <2>2. inflight' = inflight \cup {new}
        BY <1>20 DEF DetachTmux
    <2>3. agent' \in AgentRecord(agents, MaxClock)
        BY <1>20, AgentFacts DEF DetachTmux
    <2>4. task' \in RowRecord
        <3>1. task.status \in {"backlog", "running", "review", "done"}
            BY DEF RowRecord
        <3> QED BY <1>20, <3>1, RowFacts DEF DetachTmux
    <2> HIDE DEF new
    <2> QED BY <1>b, <1>20, <2>1, <2>2, <2>3, <2>4 DEF DetachTmux, Types
<1>21. CASE TickSubStatus
    <2> DEFINE target == Classify(agent, agent.toolAt, clock)
    <2>1. target \in {"needs_input", "active", "stale"}
        BY StatusFacts DEF Classified
    <2>2. task.status = "running" /\ task' = [task EXCEPT !.sub = target]
        BY <1>21 DEF TickSubStatus
    <2> HIDE DEF target
    <2>3. task' \in RowRecord
        <3>1. target \in SubStatuses /\ target \in LegalSubs("running")
            BY <2>1 DEF LegalSubs, SubStatuses
        <3> QED BY <2>2, <3>1 DEF RowRecord
    <2> QED BY <1>21, <2>3 DEF TickSubStatus, Types
<1>22. CASE WindowDies
    BY <1>b, <1>22 DEF WindowDies, Types
<1>23. CASE TimePasses
    <2>1. clock' \in 1..MaxClock /\ clock' = clock + 1
        BY <1>23 DEF TimePasses
    <2>2. \A e : EventOK(e, Sub, sessions, clock) => EventOK(e, Sub, sessions, clock')
        BY <2>1, TypesGrow
    <2> QED BY <1>23, <2>1, <2>2 DEF TimePasses, Types
<1>24. CASE UNCHANGED vars
    BY <1>24 DEF vars, activityVars, Types
<1> QED
    BY <1>2, <1>4, <1>5, <1>6, <1>7, <1>8, <1>9, <1>11, <1>12, <1>13, <1>14, <1>15, <1>16, <1>17,
       <1>18, <1>19, <1>20, <1>21, <1>22, <1>23, <1>24 DEF Next, SessionStep, BoardStep

(***************************************************************************)
(* The count of the rows, and the stop put off until they are gone.        *)
(***************************************************************************)
Counts ==
    /\ RowsCount
    /\ LiveCountIsTheRows /\ RowsAreOfOneSession /\ RowsAreOfTheCurrentAgent
    /\ NoStrandedStop /\ PendingStopOnlyWhileRunning

(* An agent at rest, and one whose stop is void, are the same agents.       *)
LEMMA SettledAgents ==
    ASSUME NEW n, NEW t, NEW a \in AgentRecord(n, t)
    PROVE  /\ AtRest(a).id = a.id /\ AtRest(a).live = a.live /\ AtRest(a).window = a.window
           /\ AtRest(a).stopAt = a.stopAt /\ AtRest(a).pending = FALSE
           /\ Voided(a).id = a.id /\ Voided(a).live = a.live /\ Voided(a).window = a.window
           /\ Voided(a).stopAt = a.stopAt /\ Voided(a).pending = FALSE
           /\ a = NoAgent => AtRest(a) = NoAgent /\ Voided(a) = NoAgent
<1>1. CASE a = NoAgent
    BY <1>1 DEF AtRest, Voided, NoAgent
<1>2. CASE a # NoAgent
    <2>1. AtRest(a) = [a EXCEPT !.toolAt = Never, !.noteAt = Never, !.pending = FALSE]
          /\ Voided(a) = [a EXCEPT !.pending = FALSE]
        BY <1>2 DEF AtRest, Voided
    <2> QED BY <1>2, <2>1 DEF AgentRecord
<1> QED
    BY <1>1, <1>2

(* The same rows: nothing is newly put off.                                 *)
LEMMA SameRowsCount ==
    ASSUME Counts, entries' = entries, agent'.id = agent.id, agent'.live = agent.live,
           agent = NoAgent => agent' = NoAgent,
           launching' => launching,
           agent'.pending => agent.pending /\ task'.status = "running"
    PROVE  Counts'
<1>1. agent.id = 0 => agent = NoAgent
    BY DEF Counts, RowsCount
<1>2. RowsCount'
    BY <1>1 DEF Counts, RowsCount, NoAgent
<1>3. LiveCountIsTheRows' /\ RowsAreOfOneSession' /\ RowsAreOfTheCurrentAgent'
    BY DEF Counts, LiveCountIsTheRows, RowsAreOfOneSession, RowsAreOfTheCurrentAgent
<1>4. NoStrandedStop' /\ PendingStopOnlyWhileRunning'
    BY DEF Counts, NoStrandedStop, PendingStopOnlyWhileRunning
<1> QED
    BY <1>2, <1>3, <1>4 DEF Counts

(* No rows, and no stop put off.                                            *)
LEMMA NoRowsCount ==
    ASSUME Counts, entries' = {}, agent'.live = 0, agent'.pending = FALSE,
           agent'.id = 0 => agent' = NoAgent,
           launching' => agent' # NoAgent
    PROVE  Counts'
    BY EmptyRows DEF Counts, RowsCount, LiveCountIsTheRows, RowsAreOfOneSession,
       RowsAreOfTheCurrentAgent, NoStrandedStop, PendingStopOnlyWhileRunning

(* Fewer rows, of one session, counted again and a drained stop applied.    *)
LEMMA DrainCounts ==
    ASSUME Types, Counts, NEW rows, rows \subseteq entries, entries' = rows,
           \A d, e \in rows : d.sid = e.sid,
           ApplyPendingStopIfDrained(Synced(agent, rows)), launching' = launching
    PROVE  Counts'
<1> DEFINE a == Synced(agent, rows)
<1>1. IsFiniteSet(rows) /\ Cardinality(rows) \in Nat
    BY FS_Subset, FS_CardinalityType DEF Counts, RowsCount
<1>2. /\ a.id = agent.id /\ a.pending = agent.pending /\ a.live = Cardinality(rows)
      /\ a = NoAgent <=> agent = NoAgent
    <2>1. CASE agent = NoAgent
        <3>1. rows = {}
            BY <2>1, NoAgentNoRows DEF Counts
        <3> QED BY <2>1, <3>1, EmptyRows DEF Synced, NoAgent
    <2>2. CASE agent # NoAgent
        <3>1. agent.id # 0
            BY <2>2 DEF Counts, RowsCount
        <3>2. a = [agent EXCEPT !.live = Cardinality(rows)]
            BY <2>2 DEF Synced
        <3>3. a.id = agent.id /\ a.pending = agent.pending /\ a.live = Cardinality(rows)
            BY <3>2 DEF Types, AgentRecord
        <3> QED BY <2>2, <3>1, <3>3 DEF NoAgent
    <2> QED BY <2>1, <2>2
<1>3. ApplyPendingStopIfDrained(a)
    OBVIOUS
<1>4. a \in AgentRecord(agents, MaxClock)
    <2>1. agents \in Nat /\ MaxClock \in Nat /\ agent \in AgentRecord(agents, MaxClock)
        BY SettingFacts DEF Types
    <2> QED BY <1>1, <2>1, AgentFacts
<1> HIDE DEF a
<1>5. /\ agent'.id = agent.id /\ agent'.live = Cardinality(rows)
      /\ agent' = NoAgent <=> agent = NoAgent
      /\ agent'.pending => agent.pending /\ task' = task /\ ~(task.status = "running" /\ a.pending /\ a.live = 0)
    <2>1. CASE task.status = "running" /\ a # NoAgent /\ a.pending /\ a.live = 0
        <3>1. agent' = [a EXCEPT !.toolAt = Never, !.noteAt = Never, !.pending = FALSE]
            BY <1>3, <2>1 DEF ApplyPendingStopIfDrained, FlipToReview, AtRest
        <3>2. agent'.id = a.id /\ agent'.live = a.live /\ agent'.pending = FALSE
            BY <1>4, <3>1 DEF AgentRecord
        <3>3. a.id # 0
            BY <1>2, <2>1 DEF Counts, RowsCount
        <3> QED BY <1>2, <2>1, <3>2, <3>3 DEF NoAgent
    <2>2. CASE ~(task.status = "running" /\ a # NoAgent /\ a.pending /\ a.live = 0)
        <3>1. agent' = a /\ task' = task
            BY <1>3, <2>2 DEF ApplyPendingStopIfDrained
        <3>2. a.pending => a # NoAgent
            BY DEF NoAgent
        <3> QED BY <1>2, <2>2, <3>1, <3>2
    <2> QED BY <2>1, <2>2
<1>6. RowsCount'
    BY <1>1, <1>5 DEF Counts, RowsCount, NoAgent
<1>7. LiveCountIsTheRows' /\ RowsAreOfOneSession' /\ RowsAreOfTheCurrentAgent'
    BY <1>5 DEF Counts, LiveCountIsTheRows, RowsAreOfOneSession, RowsAreOfTheCurrentAgent
<1>8. NoStrandedStop' /\ PendingStopOnlyWhileRunning'
    BY <1>1, <1>2, <1>5 DEF Counts, NoStrandedStop, PendingStopOnlyWhileRunning
<1> QED
    BY <1>6, <1>7, <1>8 DEF Counts

LEMMA CountsStep == ActivityInv /\ [Next]_vars => Counts'
<1> SUFFICES ASSUME ActivityInv, [Next]_vars PROVE Counts'
    OBVIOUS
<1>0. Types /\ Counts
    BY DEF ActivityInv, Counts
<1>a. agent \in AgentRecord(agents, MaxClock) /\ (agent.id = 0 => agent = NoAgent)
      /\ (launching => agent # NoAgent)
    BY <1>0 DEF Types, Counts, RowsCount
<1>b. ASSUME UNCHANGED <<task, agent, entries, launching>> PROVE Counts'
    BY <1>0, <1>a, <1>b, SameRowsCount DEF Counts, PendingStopOnlyWhileRunning
<1>c. agent.pending => task.status = "running"
    BY <1>0 DEF Counts, PendingStopOnlyWhileRunning
<1> USE <1>0, <1>a
<1>1. ASSUME NEW e \in inflight, StoreApplies(e), launching' = launching PROVE Counts'
    <2> USE <1>1
    <2>0. Synced(agent, {}) \in AgentRecord(agents, MaxClock)
        <3>1. agents \in Nat /\ MaxClock \in Nat
            BY SettingFacts DEF Types
        <3>2. Cardinality({}) \in Nat
            BY EmptyRows
        <3>3. agent \in AgentRecord(agents, MaxClock)
            OBVIOUS
        <3>4. \A rows : Cardinality(rows) \in Nat => Synced(agent, rows) \in AgentRecord(agents, MaxClock)
            BY <3>1, <3>3, AgentFacts
        <3> QED BY <3>2, <3>4
    <2>1. CASE TryRecordStop(e)
        <3>1. CASE task.status # "running"
            BY <1>b, <2>1, <3>1 DEF TryRecordStop
        <3>2. CASE task.status = "running" /\ agent.live = 0
            <4>1. agent' = AtRest(agent) /\ entries' = entries
                BY <2>1, <3>2 DEF TryRecordStop, FlipToReview
            <4>2. agent'.id = agent.id /\ agent'.live = agent.live /\ agent'.pending = FALSE
                  /\ (agent = NoAgent => agent' = NoAgent)
                BY <4>1, SettledAgents
            <4> QED BY <4>1, <4>2, SameRowsCount
        <3>3. CASE task.status = "running" /\ agent.live # 0
            <4>1. agent' = [agent EXCEPT !.pending = TRUE, !.stopAt = e.at] /\ entries' = entries /\ task' = task
                BY <2>1, <3>3 DEF TryRecordStop
            <4>2. agent'.id = agent.id /\ agent'.live = agent.live /\ agent.live \in Nat
                BY <4>1 DEF AgentRecord
            <4>3. agent.id # 0
                BY <3>3 DEF NoAgent
            <4>4. RowsCount'
                BY <4>1, <4>2, <4>3 DEF Counts, RowsCount, NoAgent
            <4>5. LiveCountIsTheRows' /\ RowsAreOfOneSession' /\ RowsAreOfTheCurrentAgent'
                BY <4>1, <4>2 DEF Counts, LiveCountIsTheRows, RowsAreOfOneSession, RowsAreOfTheCurrentAgent
            <4>6. NoStrandedStop' /\ PendingStopOnlyWhileRunning'
                BY <3>3, <4>1, <4>2 DEF NoStrandedStop, PendingStopOnlyWhileRunning
            <4> QED BY <4>4, <4>5, <4>6 DEF Counts
        <3> QED BY <3>1, <3>2, <3>3
    <2>2. CASE RecordUserPromptSubmit(e)
        <3>1. CASE task.status \in {"running", "review"}
            <4>1. agent' = AfterPrompt(agent, e.at) /\ entries' = entries /\ task'.status = "running"
                BY <2>2, <3>1 DEF RecordUserPromptSubmit, Row
            <4>2. agent'.id = agent.id /\ agent'.live = agent.live /\ (agent'.pending => agent.pending)
                  /\ (agent = NoAgent => agent' = NoAgent)
                BY <4>1 DEF AfterPrompt, AgentRecord, NoAgent
            <4> QED BY <4>1, <4>2, SameRowsCount
        <3>2. CASE task.status \notin {"running", "review"}
            BY <1>b, <2>2, <3>2 DEF RecordUserPromptSubmit
        <3> QED BY <3>1, <3>2
    <2>3. CASE SubagentStart(e)
        <3>1. CASE agent = NoAgent
            BY <1>b, <2>3, <3>1 DEF SubagentStart
        <3>2. CASE agent # NoAgent
            <4> DEFINE rest == Without(Fenced(entries, e.sid), e.what)
                       more == rest \cup {[sub |-> e.what, sid |-> e.sid, owner |-> agent.id]}
            <4>1. entries' = more /\ agent' = [agent EXCEPT !.live = Cardinality(more)] /\ task' = task
                BY <2>3, <3>2 DEF SubagentStart, Synced
            <4>2. /\ IsFiniteSet(more) /\ Cardinality(more) \in Nat \ {0}
                  /\ \A d, f \in more : d.sub = f.sub => d = f
                  /\ \A f \in more : f.sid = e.sid /\ f.owner = agent.id
                BY RowsAfter DEF Counts
            <4> HIDE DEF more
            <4>3. agent'.id = agent.id /\ agent'.live = Cardinality(more) /\ agent'.pending = agent.pending
                BY <4>1 DEF AgentRecord
            <4>4. RowsCount'
                BY <3>2, <4>1, <4>2, <4>3 DEF RowsCount, NoAgent
            <4>5. LiveCountIsTheRows' /\ RowsAreOfOneSession' /\ RowsAreOfTheCurrentAgent'
                BY <4>1, <4>2, <4>3 DEF LiveCountIsTheRows, RowsAreOfOneSession, RowsAreOfTheCurrentAgent
            <4>6. NoStrandedStop' /\ PendingStopOnlyWhileRunning'
                BY <1>c, <4>1, <4>2, <4>3 DEF NoStrandedStop, PendingStopOnlyWhileRunning
            <4> QED BY <4>4, <4>5, <4>6 DEF Counts
        <3> QED BY <3>1, <3>2
    <2>4. CASE SubagentStop(e)
        <3>1. entries' \subseteq entries /\ \A d, f \in entries' : d.sid = f.sid
            BY <2>4 DEF SubagentStop, Without, Fenced
        <3> QED BY <2>4, <3>1, DrainCounts DEF SubagentStop
    <2>5. CASE SubagentClear(e)
        BY <2>5, DrainCounts DEF SubagentClear
    <2>6. CASE SubagentClearAndVoidPendingStop(e)
        <3>1. entries' = {} /\ agent' = Voided(Synced(agent, {}))
            BY <2>6 DEF SubagentClearAndVoidPendingStop
        <3>2. agent'.id = agent.id /\ agent'.live = 0 /\ agent'.pending = FALSE
              /\ (agent' = NoAgent => agent.id = 0)
              /\ (agent = NoAgent => agent' = NoAgent)
            <4>1. Synced(agent, {}) \in AgentRecord(agents, MaxClock)
                BY <1>a, <2>0
            <4>2. Synced(agent, {}).id = agent.id /\ Synced(agent, {}).live = 0
                  /\ (agent = NoAgent => Synced(agent, {}) = NoAgent)
                <5>1. CASE agent = NoAgent
                    BY <5>1 DEF Synced, NoAgent
                <5>2. CASE agent # NoAgent
                    <6>1. Synced(agent, {}) = [agent EXCEPT !.live = 0]
                        BY <5>2, EmptyRows DEF Synced
                    <6> QED BY <5>2, <6>1 DEF AgentRecord
                <5> QED BY <5>1, <5>2
            <4> DEFINE a == Synced(agent, {})
            <4>3. /\ Voided(a).id = a.id /\ Voided(a).live = a.live /\ Voided(a).pending = FALSE
                  /\ a = NoAgent => Voided(a) = NoAgent
                BY <4>1, SettledAgents
            <4>4. agent' = Voided(a) /\ a.id = agent.id /\ a.live = 0 /\ (agent = NoAgent => a = NoAgent)
                BY <3>1, <4>2
            <4> HIDE DEF a
            <4> QED BY <4>3, <4>4 DEF NoAgent
        <3> QED BY <3>1, <3>2, NoRowsCount
    <2>7. CASE RecordNotification(e)
        <3>1. /\ agent'.id = agent.id /\ agent'.live = agent.live /\ agent'.pending = agent.pending
              /\ task'.status = task.status /\ entries' = entries /\ (agent = NoAgent => agent' = NoAgent)
            BY <2>7 DEF RecordNotification, Noted, Row, AgentRecord, NoAgent
        <3> QED BY <1>c, <3>1, SameRowsCount
    <2>8. CASE RecordPreToolUse(e)
        <3>1. /\ agent'.id = agent.id /\ agent'.live = agent.live /\ agent'.pending = agent.pending
              /\ task'.status = task.status /\ entries' = entries /\ (agent = NoAgent => agent' = NoAgent)
            BY <2>8 DEF RecordPreToolUse, Row, AgentRecord, NoAgent
        <3> QED BY <1>c, <3>1, SameRowsCount
    <2>9. CASE Resumed(e)
        <3>1. /\ agent'.id = agent.id /\ agent'.live = agent.live /\ agent'.pending = agent.pending
              /\ task'.status = "running" /\ entries' = entries /\ (agent = NoAgent => agent' = NoAgent)
            BY <2>9 DEF Resumed, Row, AgentRecord, NoAgent
        <3> QED BY <3>1, SameRowsCount
    <2> QED
        BY <2>1, <2>2, <2>3, <2>4, <2>5, <2>6, <2>7, <2>8, <2>9 DEF StoreApplies
<1>2. CASE Deliver
    BY <1>1, <1>2, <1>b DEF Deliver, ClassifyToolUse, KeepAllButTheRows
<1>3. CASE SessionStep
    BY <1>3, <1>b DEF SessionStep, SubmitPrompt, EndTurn, UseTool, ClearTranscript, StartSubagent,
       StopSubagent, Notify, Fire, KeepTheRows
<1>4. CASE Dispatch
    <2>1. /\ agent'.id = agents + 1 /\ agent'.live = 0 /\ agent'.pending = FALSE /\ entries' = {}
          /\ agents \in Nat
        BY <1>4, SettingFacts DEF Dispatch, NoAgent, EntriesAfterEnd, Types
    <2>2. agent'.id # 0 /\ NoAgent.id = 0
        BY <2>1 DEF NoAgent
    <2>3. agent' # NoAgent
        BY <2>2
    <2> QED BY <2>1, <2>2, <2>3, NoRowsCount
<1>5. CASE Launched
    <2>1. /\ agent'.id = agent.id /\ agent'.live = agent.live /\ agent'.pending = agent.pending
          /\ entries' = entries /\ ~launching' /\ launching /\ task' = task
        BY <1>5 DEF Launched, AgentRecord
    <2> QED BY <1>c, <2>1, SameRowsCount
<1>6. ASSUME EndAgent, launching' = FALSE PROVE Counts'
    BY <1>6, NoRowsCount DEF EndAgent, EntriesAfterEnd, NoAgent
<1>7. CASE CloseSession
    <2>1. /\ agent'.id = agent.id /\ agent'.live = agent.live /\ agent'.pending = FALSE
          /\ entries' = entries /\ launching' = launching /\ agent # NoAgent
        BY <1>7 DEF CloseSession, Voided, AgentRecord, NoAgent
    <2> QED BY <2>1, SameRowsCount
<1>8. ASSUME NEW status, MoveTask(status) PROVE Counts'
    <2>1. /\ agent'.id = agent.id /\ agent'.live = agent.live
          /\ (agent'.pending => agent.pending /\ task'.status = "running")
          /\ entries' = entries /\ launching' = launching /\ (agent = NoAgent => agent' = NoAgent)
        <3>1. task'.status = status /\ entries' = entries /\ launching' = launching
            BY <1>8 DEF MoveTask, Row
        <3>2. CASE status = "running"
            <4>1. agent' = agent
                BY <1>8, <3>2 DEF MoveTask, StopAfterMove
            <4>2. task.status # "running"
                BY <1>8, <3>2 DEF MoveTask
            <4> QED BY <1>c, <3>1, <4>1, <4>2
        <3>3. CASE status # "running"
            <4>1. agent' = Voided(agent)
                BY <1>8, <3>3 DEF MoveTask, StopAfterMove
            <4> QED BY <3>1, <4>1, SettledAgents
        <3> QED BY <3>2, <3>3
    <2> QED BY <2>1, SameRowsCount
<1>9. ASSUME agent.window, agent' = [agent EXCEPT !.window = FALSE], task'.status = task.status,
             UNCHANGED <<entries, launching>>
      PROVE Counts'
    <2>1. /\ agent'.id = agent.id /\ agent'.live = agent.live /\ agent'.pending = agent.pending
          /\ agent # NoAgent
        BY <1>9 DEF AgentRecord, NoAgent
    <2> QED BY <1>c, <1>9, <2>1, SameRowsCount
<1>10. CASE WindowGone
    BY <1>9, <1>10 DEF WindowGone, Row
<1>11. CASE DetachTmux
    BY <1>9, <1>11 DEF DetachTmux, Row
<1>12. CASE TickSubStatus
    <2>1. task'.status = task.status
        BY <1>12 DEF TickSubStatus, Types, RowRecord
    <2> QED BY <1>c, <1>12, <2>1, SameRowsCount DEF TickSubStatus
<1>13. CASE ResumeTask \/ WindowDies \/ TimePasses \/ UNCHANGED vars
    BY <1>13, <1>b DEF ResumeTask, KeepTheRows, WindowDies, TimePasses, vars, activityVars
<1>14. CASE LaunchFails \/ RetryFresh
    BY <1>6, <1>14 DEF LaunchFails, RetryFresh, Types
<1> QED
    BY <1>2, <1>3, <1>4, <1>5, <1>7, <1>8, <1>10, <1>11, <1>12, <1>13, <1>14 DEF Next, BoardStep

(***************************************************************************)
(* Writes that keep up with the session.                                   *)
(***************************************************************************)
LEMMA OnItsWayFacts ==
    /\ \A k : ~OnItsWay({}, k) /\ Told({}, k) = {}
    /\ \A e, k : /\ OnItsWay({e}, k) <=> e.kind = k
                 /\ e.kind = k => Told({e}, k) = {e.what}
                 /\ e.kind # k => Told({e}, k) = {}
    BY DEF OnItsWay, Told

(* A turn is under way, over or not begun, unless there is no session.      *)
LEMMA TurnFacts ==
    ASSUME Types
    PROVE  /\ session.turn \in {"none", "fresh", "busy", "ended"}
           /\ session = NoSession <=> session.turn = "none"
           /\ task.status \in {"backlog", "running", "review", "done"}
    BY DEF Types, SessionOK, NoSession, RowRecord

LEMMA KeepsUpFacts ==
    ASSUME KeepsUp
    PROVE  /\ InOrder /\ ~Lossy
           /\ "move" \notin Acts /\ "close" \notin Acts /\ "retry" \notin Acts
           /\ setting' = setting => KeepsUp'
<1>1. InOrder /\ ~Lossy /\ Acts \subseteq {"crash", "detach", "resume"}
    BY DEF KeepsUp
<1>2. setting' = setting => KeepsUp'
    BY DEF KeepsUp, InOrder, Lossy, Acts
<1> QED
    BY <1>1, <1>2

(* One event at a time, but for the two a resume sends.                     *)
LEMMA OneEvent ==
    ASSUME OneAtATime, NEW e \in inflight, e.kind \notin {"resumed", "clear"}
    PROVE  inflight = {e}
<1>1. ASSUME NEW d \in inflight PROVE d = e
    <2>1. d = e \/ {d.kind, e.kind} = {"resumed", "clear"}
        BY DEF OneAtATime
    <2>2. e.kind \in {d.kind, e.kind}
        OBVIOUS
    <2> QED BY <2>1, <2>2
<1> QED
    BY <1>1

(* With a session and nothing on its way, the row is the session's.         *)
LEMMA NothingOut ==
    ASSUME Types, KeepingUp, inflight = {}, session # NoSession
    PROVE  /\ agent.window /\ ~launching /\ task.status \in {"running", "review"} /\ agent # NoAgent
           /\ session.turn = "fresh" => session.subs = {} /\ entries = {} /\ ~agent.pending
           /\ session.turn = "busy" => task.status = "running" /\ ~agent.pending
           /\ session.turn = "ended" => IF entries = {} THEN task.status # "running"
                                        ELSE task.status = "running" /\ agent.pending
           /\ {e.sub : e \in entries} = session.subs
           /\ \A e \in entries : e.sid = session.id
<1>1. session.turn \in {"fresh", "busy", "ended"} /\ task.status \in {"backlog", "running", "review", "done"}
    BY TurnFacts
<1>2. \A k : ~OnItsWay(inflight, k) /\ Told(inflight, k) = {}
    BY OnItsWayFacts
<1>3. agent.window /\ ~launching /\ task.status \in {"running", "review"} /\ agent # NoAgent
    BY <1>1, <1>2 DEF KeepingUp, WithASession, BeforeTheLaunch
<1>4. /\ session.turn = "fresh" => session.subs = {} /\ entries = {} /\ ~agent.pending
      /\ session.turn = "busy" => task.status = "running" /\ ~agent.pending
      /\ session.turn = "ended" => IF entries = {} THEN task.status # "running"
                                   ELSE task.status = "running" /\ agent.pending
    BY <1>2 DEF KeepingUp, RowFollows, WhileFresh, WhileBusy, OnceEnded
<1>5. session.turn \in {"busy", "ended"} =>
        {e.sub : e \in entries} = session.subs /\ \A e \in entries : e.sid = session.id
    BY <1>2 DEF KeepingUp, RowFollows, SubagentsFollow
<1>6. session.turn = "fresh" =>
        {e.sub : e \in entries} = session.subs /\ \A e \in entries : e.sid = session.id
    BY <1>4
<1> QED
    BY <1>1, <1>3, <1>4, <1>5, <1>6

(* The session sends an event: what is not about the row stays.             *)
LEMMA EventSent ==
    ASSUME Types, KeepingUp, inflight = {}, session # NoSession, session' # NoSession,
           NEW e, inflight' = {e}, e.kind # "drain", e.sid = session'.id,
           UNCHANGED <<task, agent, launching>>
    PROVE  /\ OneAtATime' /\ BeforeTheLaunch' /\ WithoutASession' /\ WithASession'
           /\ \A k : OnItsWay(inflight', k) <=> e.kind = k
           /\ \A k : /\ e.kind = k => Told(inflight', k) = {e.what}
                     /\ e.kind # k => Told(inflight', k) = {}
<1>1. agent.window /\ ~launching /\ task.status \in {"running", "review"} /\ agent # NoAgent
    BY NothingOut
<1>2. OneAtATime'
    BY DEF OneAtATime
<1>3. BeforeTheLaunch' /\ WithoutASession'
    BY <1>1 DEF BeforeTheLaunch, WithoutASession
<1>4. WithASession'
    BY <1>1 DEF WithASession
<1> QED
    BY <1>2, <1>3, <1>4, OnItsWayFacts

LEMMA FiredEvents ==
    ASSUME KeepsUp, NEW kind, NEW what, Fire(kind, what)
    PROVE  /\ inflight = {} /\ inflight' = {Message(kind, session.id, what)}
           /\ UNCHANGED <<task, agent, entries, launching, sessions, clock>>
    BY KeepsUpFacts DEF Fire, KeepTheRows

(* Tool calls and notifications say nothing of the turn.                    *)
LEMMA QuietSteps ==
    ASSUME Types, KeepingUp, session # NoSession, session' = session,
           \A e \in inflight \cup inflight' : e.kind \in {"tool", "note"},
           \A d, e \in inflight' : d = e,
           task'.status = task.status, entries' = entries, launching' = launching,
           agent'.pending = agent.pending, agent'.window = agent.window, agent' # NoAgent
    PROVE  KeepingUp'
<1>1. \A k : k \notin {"tool", "note"} => /\ ~OnItsWay(inflight, k) /\ Told(inflight, k) = {}
                                          /\ ~OnItsWay(inflight', k) /\ Told(inflight', k) = {}
    BY DEF OnItsWay, Told
<1>2. OneAtATime' /\ BeforeTheLaunch' /\ WithoutASession'
    BY DEF KeepingUp, OneAtATime, BeforeTheLaunch, WithoutASession
<1>3. WithASession'
    BY <1>1 DEF KeepingUp, WithASession
<1>4. WhileFresh'
    BY <1>1 DEF KeepingUp, RowFollows, WhileFresh
<1>5. SubagentsFollow'
    BY <1>1 DEF KeepingUp, RowFollows, SubagentsFollow
<1>6. WhileBusy' /\ OnceEnded' /\ PromptsAreLater'
    BY <1>1 DEF KeepingUp, RowFollows, WhileBusy, OnceEnded, PromptsAreLater
<1> QED
    BY <1>2, <1>3, <1>4, <1>5, <1>6 DEF KeepingUp, RowFollows

(* What the session does.                                                   *)
LEMMA SessionKeepsUp ==
    ASSUME ActivityInv, KeepsUp, KeepingUp,
           SubmitPrompt \/ EndTurn \/ UseTool
              \/ (\E sub \in Sub : StartSubagent(sub) \/ StopSubagent(sub))
              \/ (\E mode \in NoteModes : Notify(mode))
    PROVE  KeepingUp'
<1>0. Types
    BY DEF ActivityInv
<1>1. ASSUME UseTool \/ \E mode \in NoteModes : Notify(mode) PROVE KeepingUp'
    <2>1. PICK kind \in {"tool", "note"}, what \in NoteModes \cup {Unread} :
                 Fire(kind, what) /\ session' = session /\ session # NoSession
        BY <1>1 DEF UseTool, Notify, NoSession
    <2>2. inflight = {} /\ inflight' = {Message(kind, session.id, what)} /\ UNCHANGED <<task, agent, entries, launching>>
        BY <2>1, FiredEvents
    <2>3. agent # NoAgent
        BY <1>0, <2>1, <2>2, NothingOut
    <2>4. Message(kind, session.id, what).kind = kind
        BY DEF Message
    <2> QED BY <1>0, <2>1, <2>2, <2>3, <2>4, QuietSteps
<1>2. CASE SubmitPrompt
    <2> DEFINE e == Message("prompt", session.id, "none")
    <2>1. /\ inflight = {} /\ inflight' = {e} /\ UNCHANGED <<task, agent, entries, launching>>
          /\ agent.stopAt < clock
        BY <1>2, FiredEvents, KeepsUpFacts DEF SubmitPrompt
    <2>2. session # NoSession /\ session' # NoSession /\ session'.id = session.id /\ session'.turn = "busy"
          /\ session'.subs = session.subs
        BY <1>0, <1>2 DEF SubmitPrompt, NoSession, Types, SessionOK
    <2>3. e.kind = "prompt" /\ e.sid = session.id /\ e.at = clock
        BY DEF Message
    <2> HIDE DEF e
    <2>4. OneAtATime' /\ BeforeTheLaunch' /\ WithoutASession' /\ WithASession'
        BY <1>0, <2>1, <2>2, <2>3, EventSent
    <2>5. \A k : (OnItsWay(inflight', k) <=> k = "prompt") /\ (k # "prompt" => Told(inflight', k) = {})
        BY <1>0, <2>1, <2>2, <2>3, EventSent
    <2>6. SubagentsFollow'
        BY <1>0, <2>1, <2>2, <2>5, NothingOut DEF SubagentsFollow
    <2>7. WhileFresh' /\ WhileBusy' /\ OnceEnded'
        BY <2>2, <2>5 DEF WhileFresh, WhileBusy, OnceEnded
    <2>8. PromptsAreLater'
        BY <2>1, <2>3 DEF PromptsAreLater
    <2> QED BY <2>4, <2>6, <2>7, <2>8 DEF KeepingUp, RowFollows
<1>3. CASE EndTurn
    <2> DEFINE e == Message("stop", session.id, "none")
    <2>1. inflight = {} /\ inflight' = {e} /\ UNCHANGED <<task, agent, entries, launching>>
        BY <1>3, FiredEvents DEF EndTurn
    <2>2. session # NoSession /\ session' # NoSession /\ session'.id = session.id /\ session.turn = "busy"
          /\ session'.turn = "ended" /\ session'.subs = session.subs
        BY <1>0, <1>3 DEF EndTurn, NoSession, Types, SessionOK
    <2>3. e.kind = "stop" /\ e.sid = session.id
        BY DEF Message
    <2> HIDE DEF e
    <2>4. OneAtATime' /\ BeforeTheLaunch' /\ WithoutASession' /\ WithASession'
        BY <1>0, <2>1, <2>2, <2>3, EventSent
    <2>5. \A k : (OnItsWay(inflight', k) <=> k = "stop") /\ (k # "stop" => Told(inflight', k) = {})
        BY <1>0, <2>1, <2>2, <2>3, EventSent
    <2>6. SubagentsFollow'
        BY <1>0, <2>1, <2>2, <2>5, NothingOut DEF SubagentsFollow
    <2>7. WhileFresh' /\ WhileBusy'
        BY <2>2 DEF WhileFresh, WhileBusy
    <2>8. OnceEnded'
        BY <1>0, <2>1, <2>2, <2>5, NothingOut DEF OnceEnded
    <2>9. PromptsAreLater'
        BY <2>1, <2>3 DEF PromptsAreLater
    <2> QED BY <2>4, <2>6, <2>7, <2>8, <2>9 DEF KeepingUp, RowFollows
<1>4. ASSUME NEW sub \in Sub, StartSubagent(sub) PROVE KeepingUp'
    <2> DEFINE e == Message("substart", session.id, sub)
    <2>1. inflight = {} /\ inflight' = {e} /\ UNCHANGED <<task, agent, entries, launching>>
        BY <1>4, FiredEvents DEF StartSubagent
    <2>2. session # NoSession /\ session' # NoSession /\ session'.id = session.id /\ session.turn = "busy"
          /\ session'.turn = "busy" /\ session'.subs = session.subs \cup {sub} /\ sub \notin session.subs
        BY <1>0, <1>4 DEF StartSubagent, NoSession, Types, SessionOK
    <2>3. e.kind = "substart" /\ e.sid = session.id /\ e.what = sub
        BY DEF Message
    <2> HIDE DEF e
    <2>4. OneAtATime' /\ BeforeTheLaunch' /\ WithoutASession' /\ WithASession'
        BY <1>0, <2>1, <2>2, <2>3, EventSent
    <2>5. /\ \A k : (OnItsWay(inflight', k) <=> k = "substart") /\ (k # "substart" => Told(inflight', k) = {})
          /\ Told(inflight', "substart") = {sub}
        BY <1>0, <2>1, <2>2, <2>3, EventSent
    <2>6. SubagentsFollow'
        BY <1>0, <2>1, <2>2, <2>5, NothingOut DEF SubagentsFollow
    <2>7. WhileFresh' /\ OnceEnded'
        BY <2>2 DEF WhileFresh, OnceEnded
    <2>8. WhileBusy'
        BY <1>0, <2>1, <2>2, <2>5, NothingOut DEF WhileBusy
    <2>9. PromptsAreLater'
        BY <2>1, <2>3 DEF PromptsAreLater
    <2> QED BY <2>4, <2>6, <2>7, <2>8, <2>9 DEF KeepingUp, RowFollows
<1>5. ASSUME NEW sub \in Sub, StopSubagent(sub) PROVE KeepingUp'
    <2> DEFINE e == Message("substop", session.id, sub)
    <2>1. inflight = {} /\ inflight' = {e} /\ UNCHANGED <<task, agent, entries, launching>>
        BY <1>5, FiredEvents DEF StopSubagent
    <2>2. session # NoSession /\ sub \in session.subs
        BY <1>5 DEF StopSubagent, NoSession
    <2>3. session' # NoSession /\ session'.id = session.id /\ session.turn \in {"busy", "ended"}
          /\ session'.turn = session.turn /\ session'.subs = session.subs \ {sub}
        BY <1>0, <1>5, <2>1, <2>2, NothingOut, TurnFacts DEF StopSubagent, NoSession, Types, SessionOK
    <2>4. e.kind = "substop" /\ e.sid = session.id /\ e.what = sub
        BY DEF Message
    <2> HIDE DEF e
    <2>5. OneAtATime' /\ BeforeTheLaunch' /\ WithoutASession' /\ WithASession'
        BY <1>0, <2>1, <2>2, <2>3, <2>4, EventSent
    <2>6. /\ \A k : (OnItsWay(inflight', k) <=> k = "substop") /\ (k # "substop" => Told(inflight', k) = {})
          /\ Told(inflight', "substop") = {sub}
        BY <1>0, <2>1, <2>2, <2>3, <2>4, EventSent
    <2>7. SubagentsFollow'
        BY <1>0, <2>1, <2>2, <2>3, <2>6, NothingOut DEF SubagentsFollow
    <2>8. WhileFresh'
        BY <2>3 DEF WhileFresh
    <2>9. WhileBusy' /\ OnceEnded'
        BY <1>0, <2>1, <2>2, <2>3, <2>6, NothingOut DEF WhileBusy, OnceEnded
    <2>10. PromptsAreLater'
        BY <2>1, <2>4 DEF PromptsAreLater
    <2> QED BY <2>5, <2>7, <2>8, <2>9, <2>10 DEF KeepingUp, RowFollows
<1> QED
    BY <1>1, <1>2, <1>3, <1>4, <1>5

(* A new session: its row is cleared, and nothing else of it is known.      *)
LEMMA StartsKeepUp ==
    ASSUME KeepsUp, KeepingUp, Types, inflight = {}, NEW rest,
           rest = {} \/ rest = {Message("resumed", 0, "none")},
           StartSession(rest), rest = {} => agent'.window,
           task' = task, task.status \in {"running", "review"}, launching' = FALSE,
           agent' # NoAgent
    PROVE  KeepingUp'
<1> DEFINE new == Message("clear", sessions + 1, "none")
<1>1. inflight' = rest \cup {new} /\ session' # NoSession /\ session'.turn = "fresh" /\ session'.subs = {}
    BY KeepsUpFacts DEF StartSession, NoSession
<1>2. new.kind = "clear" /\ \A e \in rest : e.kind = "resumed"
    BY DEF Message
<1>3. OnItsWay(inflight', "clear") /\ (rest # {} => OnItsWay(inflight', "resumed"))
    BY <1>1, <1>2 DEF OnItsWay
<1>4. \A e \in inflight' : e.kind \in {"clear", "resumed"}
    BY <1>1, <1>2
<1>5. OneAtATime'
    <2>1. \A d, e \in rest : d = e
        OBVIOUS
    <2> HIDE DEF new
    <2> QED BY <1>1, <1>2, <2>1 DEF OneAtATime
<1> HIDE DEF new
<1>6. BeforeTheLaunch' /\ WithoutASession'
    BY <1>1 DEF BeforeTheLaunch, WithoutASession
<1>7. WithASession'
    BY <1>3, <1>4 DEF WithASession
<1>8. RowFollows'
    BY <1>1, <1>3, <1>4
       DEF RowFollows, WhileFresh, SubagentsFollow, WhileBusy, OnceEnded, PromptsAreLater
<1> QED
    BY <1>5, <1>6, <1>7, <1>8 DEF KeepingUp

(* Without a session the row owes it nothing.                               *)
LEMMA NoSessionFollows ==
    ASSUME session' = NoSession, \A e \in inflight' : e.kind # "prompt"
    PROVE  WithASession' /\ RowFollows'
    BY DEF NoSession, WithASession, RowFollows, WhileFresh, SubagentsFollow, WhileBusy, OnceEnded,
       PromptsAreLater

(* Nothing a session does: the board, a person, the window, the clock.      *)
LEMMA OthersKeepUp ==
    ASSUME ActivityInv, KeepsUp, KeepingUp,
           ClearTranscript \/ BoardStep \/ WindowDies \/ TimePasses \/ UNCHANGED vars
    PROVE  KeepingUp'
<1>0. /\ Types
      /\ session.turn \in {"none", "fresh", "busy", "ended"}
      /\ session = NoSession <=> session.turn = "none"
      /\ task.status \in {"backlog", "running", "review", "done"}
      /\ agent.pending => task.status = "running"
      /\ agent.id = 0 => agent = NoAgent
    BY TurnFacts DEF ActivityInv, RowsCount, PendingStopOnlyWhileRunning
<1>a. /\ task.status # "done"
      /\ launching => task.status = "running"
      /\ launching \/ task.status = "backlog" =>
             session = NoSession /\ inflight = {} /\ ~agent.window /\ ~agent.pending
      /\ task.status # "backlog" => agent # NoAgent
    BY DEF KeepingUp, BeforeTheLaunch
<1>b. session = NoSession =>
        /\ \A e \in inflight : e.kind \in {"clear", "drain"}
        /\ agent.window => inflight = {}
        /\ agent.pending /\ ~agent.window => inflight # {}
    BY DEF KeepingUp, WithoutASession
<1>c. ASSUME UNCHANGED <<agent, entries, session, launching, inflight>>, task'.status = task.status
      PROVE KeepingUp'
    <2>1. OneAtATime' /\ BeforeTheLaunch' /\ WithoutASession' /\ WithASession'
        BY <1>c DEF KeepingUp, OneAtATime, BeforeTheLaunch, WithoutASession, WithASession
    <2>2. RowFollows'
        BY <1>c DEF KeepingUp, RowFollows, WhileFresh, SubagentsFollow, WhileBusy, OnceEnded, PromptsAreLater
    <2> QED BY <2>1, <2>2 DEF KeepingUp
<1>1. CASE ClearTranscript
    <2>1. inflight = {} /\ session # NoSession /\ StartSession({}) /\ UNCHANGED <<task, agent, launching>>
        BY <1>0, <1>1, KeepsUpFacts DEF ClearTranscript, KeepTheRows
    <2>2. agent.window /\ ~launching /\ task.status \in {"running", "review"} /\ agent # NoAgent
        BY <1>0, <2>1, NothingOut
    <2>3. launching' = FALSE
        BY <2>1, <2>2
    <2> QED BY <1>0, <2>1, <2>2, <2>3, StartsKeepUp
<1>2. CASE Launched
    <2>1. inflight = {} /\ StartSession({}) /\ task' = task /\ task.status = "running" /\ launching' = FALSE
          /\ agent # NoAgent /\ agent' = [agent EXCEPT !.window = TRUE]
        BY <1>a, <1>2 DEF Launched
    <2>2. agent'.window = TRUE
        BY <1>0, <2>1 DEF Types, AgentRecord
    <2>3. agent' # NoAgent
        BY <2>2 DEF NoAgent
    <2> QED BY <1>0, <2>1, <2>2, <2>3, StartsKeepUp
<1>3. CASE ResumeTask
    <2>1. /\ inflight = {} /\ StartSession({Message("resumed", 0, "none")}) /\ UNCHANGED <<task, agent>>
          /\ launching' = FALSE /\ agent # NoAgent /\ task.status \in {"running", "review"}
        BY <1>0, <1>a, <1>3, KeepsUpFacts DEF ResumeTask, KeepTheRows, Types
    <2> QED BY <1>0, <2>1, StartsKeepUp
<1>4. CASE Dispatch
    <2>1. session = NoSession /\ inflight = {} /\ session' = NoSession /\ inflight' = {} /\ task'.status = "running"
        BY <1>a, <1>4 DEF Dispatch, Row
    <2>2. agent'.id = agents + 1 /\ ~agent'.window /\ ~agent'.pending /\ agents \in Nat
        BY <1>0, <1>4, SettingFacts DEF Dispatch, NoAgent, Types
    <2>3. agent' # NoAgent
        BY <2>2 DEF NoAgent
    <2>4. OneAtATime' /\ BeforeTheLaunch' /\ WithoutASession'
        BY <2>1, <2>2, <2>3 DEF OneAtATime, BeforeTheLaunch, WithoutASession
    <2> QED BY <2>1, <2>4, NoSessionFollows DEF KeepingUp
<1>5. CASE LaunchFails
    <2>1. session' = NoSession /\ inflight' = {} /\ task'.status = "backlog" /\ agent' = NoAgent
          /\ launching' = FALSE
        BY <1>a, <1>5 DEF LaunchFails, EndAgent, Row
    <2>2. OneAtATime' /\ BeforeTheLaunch' /\ WithoutASession'
        BY <2>1 DEF OneAtATime, BeforeTheLaunch, WithoutASession, NoAgent
    <2> QED BY <2>1, <2>2, NoSessionFollows DEF KeepingUp
<1>6. CASE WindowGone
    <2>1. session = NoSession /\ inflight = {} /\ session' = NoSession /\ agent.window /\ ~launching
          /\ launching' = launching /\ task.status # "backlog"
        BY <1>a, <1>b, <1>6 DEF WindowGone
    <2>2. ~agent'.window /\ agent'.id = agent.id /\ agent'.pending = agent.pending
        BY <1>0, <1>6 DEF WindowGone, Types, AgentRecord
    <2>3. task'.status = task.status /\ agent' # NoAgent
        BY <1>0, <1>a, <1>6, <2>1, <2>2 DEF WindowGone, Row, NoAgent
    <2> DEFINE new == Message("clear", 0, "none")
    <2>4. IF task.status = "running" THEN inflight' = {new} ELSE inflight' = {}
        BY <1>6, <2>1 DEF WindowGone
    <2>5. new.kind = "clear"
        BY DEF Message
    <2> HIDE DEF new
    <2>6. OneAtATime' /\ BeforeTheLaunch' /\ WithoutASession'
        BY <1>0, <1>a, <2>1, <2>2, <2>3, <2>4, <2>5 DEF OneAtATime, BeforeTheLaunch, WithoutASession
    <2> QED BY <2>1, <2>4, <2>5, <2>6, NoSessionFollows DEF KeepingUp
<1>7. CASE DetachTmux
    <2> DEFINE new == Message("drain", 0, "none")
    <2>1. inflight' = {new} /\ session' = NoSession /\ agent.window /\ ~launching
          /\ launching' = launching /\ task.status # "backlog"
        BY <1>a, <1>7, KeepsUpFacts DEF DetachTmux
    <2>2. ~agent'.window /\ agent'.id = agent.id
        BY <1>0, <1>7 DEF DetachTmux, Types, AgentRecord
    <2>3. task'.status = task.status /\ agent' # NoAgent
        BY <1>0, <1>a, <1>7, <2>1, <2>2 DEF DetachTmux, Row, NoAgent
    <2>4. new.kind = "drain"
        BY DEF Message
    <2> HIDE DEF new
    <2>5. OneAtATime' /\ BeforeTheLaunch' /\ WithoutASession'
        BY <1>0, <1>a, <2>1, <2>2, <2>3, <2>4 DEF OneAtATime, BeforeTheLaunch, WithoutASession
    <2> QED BY <2>1, <2>4, <2>5, NoSessionFollows DEF KeepingUp
<1>8. CASE WindowDies
    <2>1. inflight = {} /\ session # NoSession /\ inflight' = {} /\ session' = NoSession
          /\ UNCHANGED <<task, agent, launching>>
        BY <1>8, KeepsUpFacts DEF WindowDies
    <2>2. agent.window /\ ~launching /\ task.status \in {"running", "review"} /\ agent # NoAgent
        BY <1>0, <2>1, NothingOut
    <2>3. OneAtATime' /\ BeforeTheLaunch' /\ WithoutASession'
        BY <2>1, <2>2 DEF OneAtATime, BeforeTheLaunch, WithoutASession
    <2> QED BY <2>1, <2>3, NoSessionFollows DEF KeepingUp
<1>9. CASE TickSubStatus
    <2>1. task'.status = task.status
        BY <1>0, <1>9 DEF TickSubStatus, Types, RowRecord
    <2> QED BY <1>9, <1>c, <2>1 DEF TickSubStatus
<1>10. CASE TimePasses \/ UNCHANGED vars
    BY <1>10, <1>c DEF TimePasses, vars, activityVars
<1> QED
    BY <1>1, <1>2, <1>3, <1>4, <1>5, <1>6, <1>7, <1>8, <1>9, <1>10, KeepsUpFacts
       DEF BoardStep, CloseSession, MoveTask, RetryFresh

(* The store applies a session's event: what is not about the row stays.    *)
LEMMA EventApplied ==
    ASSUME Types, KeepingUp, session # NoSession, session' = session, launching' = launching,
           NEW e \in inflight, inflight' = inflight \ {e},
           agent' # NoAgent, agent.window => agent'.window,
           task'.status \in {"running", "review"},
           e.kind = "resumed" => agent'.window
    PROVE  OneAtATime' /\ BeforeTheLaunch' /\ WithoutASession' /\ WithASession'
<1>1. ~launching
    BY DEF KeepingUp, BeforeTheLaunch
<1>2. OneAtATime'
    BY DEF KeepingUp, OneAtATime
<1>3. BeforeTheLaunch' /\ WithoutASession'
    BY <1>1 DEF BeforeTheLaunch, WithoutASession
<1>4. agent'.window \/ OnItsWay(inflight', "resumed")
    BY DEF KeepingUp, WithASession, OnItsWay
<1>5. WithASession'
    BY <1>4 DEF KeepingUp, WithASession
<1> QED
    BY <1>2, <1>3, <1>5

LEMMA DeliveriesKeepUp ==
    ASSUME ActivityInv, KeepsUp, KeepingUp, Deliver
    PROVE  KeepingUp'
<1>0. /\ Types
      /\ session.turn \in {"none", "fresh", "busy", "ended"}
      /\ session = NoSession <=> session.turn = "none"
      /\ task.status \in {"backlog", "running", "review", "done"}
      /\ agent.pending => task.status = "running"
      /\ agent.id = 0 => agent = NoAgent
      /\ agent \in AgentRecord(agents, MaxClock)
    BY TurnFacts DEF ActivityInv, RowsCount, PendingStopOnlyWhileRunning, Types
<1>1. agent.live = 0 <=> entries = {}
    BY FS_EmptySet DEF ActivityInv, RowsCount, LiveCountIsTheRows
<1>2. inflight # {} => ~launching /\ task.status \in {"running", "review"} /\ agent # NoAgent
    BY <1>0 DEF KeepingUp, BeforeTheLaunch
<1>3. session = NoSession => \A e \in inflight : e.kind \in {"clear", "drain"}
    BY DEF KeepingUp, WithoutASession
<1>4. session # NoSession => \A e \in inflight : e.kind # "drain"
    BY DEF KeepingUp, WithASession
<1>5. OneAtATime
    BY DEF KeepingUp
<1>6. ASSUME NEW e \in inflight, ClassifyToolUse(e) PROVE KeepingUp'
    <2>1. e.kind = "tool" /\ inflight = {e} /\ session # NoSession
        BY <1>3, <1>5, <1>6, OneEvent DEF ClassifyToolUse
    <2> DEFINE new == [e EXCEPT !.what = Classify(agent, e.at, e.at)]
    <2>2. inflight' = {new} /\ UNCHANGED <<task, agent, entries, session, launching>>
        BY <1>6, <2>1 DEF ClassifyToolUse
    <2>3. new.kind = "tool"
        BY <1>0, <2>1 DEF Types, EventOK
    <2> HIDE DEF new
    <2> QED BY <1>0, <1>2, <2>1, <2>2, <2>3, QuietSteps
<1> SUFFICES ASSUME NEW e \in inflight, StoreApplies(e), Applied(e), KeepAllButTheRows PROVE KeepingUp'
    BY <1>6 DEF Deliver
<1>7. inflight' = inflight \ {e} /\ UNCHANGED <<session, launching, clock, sessions, agents>>
    BY DEF Applied, KeepAllButTheRows
<1>8. ~launching /\ task.status \in {"running", "review"} /\ agent # NoAgent /\ agent.id # 0
    BY <1>0, <1>2
<1>9. \A k : ~OnItsWay({}, k) /\ Told({}, k) = {}
    BY OnItsWayFacts
<1>a. \A k : (OnItsWay({e}, k) <=> e.kind = k) /\ (e.kind = k => Told({e}, k) = {e.what})
             /\ (e.kind # k => Told({e}, k) = {})
    BY OnItsWayFacts
<1>10. CASE TryRecordStop(e)
    <2>1. e.kind = "stop" /\ inflight = {e} /\ inflight' = {} /\ session # NoSession /\ entries' = entries
        BY <1>3, <1>5, <1>7, <1>10, OneEvent DEF TryRecordStop
    <2>2. session.turn = "ended" /\ task.status = "running"
        BY <1>0, <1>a, <2>1 DEF KeepingUp, RowFollows, WhileFresh, WhileBusy, OnceEnded
    <2>3. IF entries = {} THEN task'.status = "review" /\ agent' = AtRest(agent)
          ELSE task' = task /\ agent' = [agent EXCEPT !.pending = TRUE, !.stopAt = e.at]
        BY <1>1, <1>10, <2>2 DEF TryRecordStop, FlipToReview, Row
    <2>4. /\ agent'.window = agent.window /\ agent'.id = agent.id
          /\ task'.status \in {"running", "review"}
          /\ IF entries = {} THEN task'.status = "review" ELSE task'.status = "running" /\ agent'.pending
        <3>1. CASE entries = {}
            <4>1. agent \in AgentRecord(agents, MaxClock)
                BY <1>0
            <4>2. AtRest(agent).window = agent.window /\ AtRest(agent).id = agent.id
                BY <4>1, SettledAgents
            <4> QED BY <2>3, <3>1, <4>2
        <3>2. CASE entries # {}
            BY <1>0, <2>2, <2>3, <3>2 DEF AgentRecord
        <3> QED BY <3>1, <3>2
    <2>5. agent' # NoAgent
        BY <1>8, <2>4 DEF NoAgent
    <2>6. OneAtATime' /\ BeforeTheLaunch' /\ WithoutASession' /\ WithASession'
        BY <1>0, <1>7, <2>1, <2>4, <2>5, EventApplied
    <2>7. SubagentsFollow'
        BY <1>7, <1>9, <1>a, <2>1, <2>2 DEF KeepingUp, RowFollows, SubagentsFollow
    <2>8. OnceEnded'
        BY <1>9, <2>1, <2>4 DEF OnceEnded
    <2> QED BY <1>7, <2>1, <2>2, <2>6, <2>7, <2>8 DEF KeepingUp, RowFollows, WhileFresh, WhileBusy, PromptsAreLater
<1>11. CASE RecordUserPromptSubmit(e)
    <2>1. e.kind = "prompt" /\ inflight = {e} /\ inflight' = {} /\ session # NoSession /\ entries' = entries
        BY <1>3, <1>5, <1>7, <1>11, OneEvent DEF RecordUserPromptSubmit
    <2>2. session.turn = "busy" /\ agent.stopAt < e.at
        BY <1>0, <1>a, <2>1 DEF KeepingUp, RowFollows, WhileFresh, OnceEnded, PromptsAreLater
    <2>3. task'.status = "running" /\ agent' = AfterPrompt(agent, e.at)
        BY <1>8, <1>11 DEF RecordUserPromptSubmit, Row
    <2>4. agent'.window = agent.window /\ agent'.id = agent.id /\ agent'.pending = FALSE
        BY <1>0, <1>8, <2>2, <2>3 DEF AfterPrompt, VoidsPendingStop, AgentRecord
    <2>5. agent' # NoAgent
        BY <1>8, <2>4 DEF NoAgent
    <2>6. OneAtATime' /\ BeforeTheLaunch' /\ WithoutASession' /\ WithASession'
        BY <1>0, <1>7, <2>1, <2>3, <2>4, <2>5, EventApplied
    <2>7. SubagentsFollow'
        <3>1. /\ {d.sub : d \in entries} = session.subs
              /\ \A d \in entries : d.sid = session.id
            BY <1>a, <2>1, <2>2 DEF KeepingUp, RowFollows, SubagentsFollow
        <3> QED BY <1>7, <1>9, <2>1, <3>1 DEF SubagentsFollow
    <2>8. WhileBusy'
        BY <1>9, <2>1, <2>3, <2>4 DEF WhileBusy
    <2> QED BY <1>7, <2>1, <2>2, <2>6, <2>7, <2>8 DEF KeepingUp, RowFollows, WhileFresh, OnceEnded, PromptsAreLater
<1>12. CASE SubagentStart(e)
    <2>1. e.kind = "substart" /\ inflight = {e} /\ inflight' = {} /\ session # NoSession /\ task' = task
        BY <1>3, <1>5, <1>7, <1>12, OneEvent DEF SubagentStart
    <2>2. session.turn = "busy"
        BY <1>0, <1>a, <2>1 DEF KeepingUp, RowFollows, WhileFresh, OnceEnded
    <2>3. e.sid = session.id
        BY <2>1 DEF KeepingUp, WithASession
    <2> DEFINE rest == Without(Fenced(entries, e.sid), e.what)
               new == [sub |-> e.what, sid |-> e.sid, owner |-> agent.id]
    <2>4. entries' = rest \cup {new} /\ agent' = Synced(agent, entries')
        BY <1>8, <1>12 DEF SubagentStart
    <2>5. agent'.window = agent.window /\ agent'.id = agent.id /\ agent'.pending = agent.pending
        BY <1>0, <1>8, <2>4 DEF Synced, AgentRecord
    <2>6. /\ {d.sub : d \in entries} = session.subs \ {e.what} /\ e.what \in session.subs
          /\ \A d \in entries : d.sid = session.id
        BY <1>a, <2>1, <2>2 DEF KeepingUp, RowFollows, SubagentsFollow
    <2>7. rest = entries
        BY <2>3, <2>6 DEF Without, Fenced
    <2>8. {d.sub : d \in entries'} = session.subs /\ \A d \in entries' : d.sid = session.id
        <3>1. entries' = entries \cup {new} /\ new.sub = e.what /\ new.sid = session.id
            BY <2>3, <2>4, <2>7
        <3> HIDE DEF new
        <3>2. {d.sub : d \in entries'} = {d.sub : d \in entries} \cup {new.sub}
            BY <3>1
        <3> QED BY <2>6, <3>1, <3>2
    <2>9. agent' # NoAgent
        BY <1>8, <2>5 DEF NoAgent
    <2>10. OneAtATime' /\ BeforeTheLaunch' /\ WithoutASession' /\ WithASession'
        BY <1>0, <1>7, <1>8, <2>1, <2>5, <2>9, EventApplied
    <2>11. SubagentsFollow'
        BY <1>7, <1>9, <2>1, <2>8 DEF SubagentsFollow
    <2>12. WhileBusy'
        BY <1>7, <1>9, <1>a, <2>1, <2>2, <2>5 DEF KeepingUp, RowFollows, WhileBusy
    <2> QED BY <1>7, <2>1, <2>2, <2>10, <2>11, <2>12 DEF KeepingUp, RowFollows, WhileFresh, OnceEnded, PromptsAreLater
(* A row that goes: the agent whose rows were counted again.                *)
<1>b. ASSUME NEW rows, entries' = rows, ApplyPendingStopIfDrained(Synced(agent, rows)),
             IsFiniteSet(rows)
      PROVE /\ agent'.window = agent.window /\ agent'.id = agent.id
            /\ IF agent.pending /\ rows = {} THEN task'.status = "review" /\ ~agent'.pending
               ELSE task' = task /\ agent'.pending = agent.pending
    <2> DEFINE a == Synced(agent, rows)
    <2>1. Cardinality(rows) \in Nat /\ (Cardinality(rows) = 0 <=> rows = {})
        BY <1>b, FS_EmptySet, FS_CardinalityType
    <2>2. a = [agent EXCEPT !.live = Cardinality(rows)]
        BY <1>8 DEF Synced
    <2>3. a \in AgentRecord(agents, MaxClock) /\ a.window = agent.window /\ a.id = agent.id
          /\ a.pending = agent.pending /\ (a.live = 0 <=> rows = {})
        BY <1>0, <2>1, <2>2 DEF AgentRecord
    <2>4. a # NoAgent
        BY <1>8, <2>3 DEF NoAgent
    <2>5. ApplyPendingStopIfDrained(a)
        BY <1>b
    <2> HIDE DEF a
    <2>6. CASE agent.pending /\ rows = {}
        <3>1. agent' = AtRest(a) /\ task'.status = "review"
            BY <1>0, <2>3, <2>4, <2>5, <2>6 DEF ApplyPendingStopIfDrained, FlipToReview, Row
        <3> QED BY <2>3, <2>6, <3>1, SettledAgents
    <2>7. CASE ~(agent.pending /\ rows = {})
        BY <2>3, <2>5, <2>7 DEF ApplyPendingStopIfDrained
    <2> QED BY <2>6, <2>7
<1>13. CASE SubagentStop(e)
    <2>1. e.kind = "substop" /\ inflight = {e} /\ inflight' = {} /\ session # NoSession
        BY <1>3, <1>5, <1>7, <1>13, OneEvent DEF SubagentStop
    <2>2. session.turn \in {"busy", "ended"}
        BY <1>0, <1>a, <2>1 DEF KeepingUp, RowFollows, WhileFresh
    <2>3. e.sid = session.id
        BY <2>1 DEF KeepingUp, WithASession
    <2>4. /\ {d.sub : d \in entries} = session.subs \cup {e.what} /\ e.what \notin session.subs
          /\ \A d \in entries : d.sid = session.id
        BY <1>a, <2>1, <2>2 DEF KeepingUp, RowFollows, SubagentsFollow
    <2>5. entries' = {d \in entries : d.sub # e.what}
        BY <1>13, <2>3, <2>4 DEF SubagentStop, Without, Fenced
    <2>6. {d.sub : d \in entries'} = session.subs /\ \A d \in entries' : d.sid = session.id
        BY <2>4, <2>5
    <2>7. IsFiniteSet(entries')
        BY <2>5, FS_Subset DEF ActivityInv, RowsCount
    <2>8. /\ agent'.window = agent.window /\ agent'.id = agent.id
          /\ IF agent.pending /\ entries' = {} THEN task'.status = "review" /\ ~agent'.pending
             ELSE task' = task /\ agent'.pending = agent.pending
        BY <1>b, <1>13, <2>7 DEF SubagentStop
    <2>9. agent' # NoAgent /\ task'.status \in {"running", "review"}
        BY <1>8, <2>8 DEF NoAgent
    <2>10. OneAtATime' /\ BeforeTheLaunch' /\ WithoutASession' /\ WithASession'
        BY <1>0, <1>7, <2>1, <2>8, <2>9, EventApplied
    <2>11. SubagentsFollow'
        BY <1>7, <1>9, <2>1, <2>6 DEF SubagentsFollow
    <2>12. session.turn = "busy" => task.status = "running" /\ ~agent.pending
        BY <1>a, <2>1 DEF KeepingUp, RowFollows, WhileBusy
    <2>13. session.turn = "ended" => task.status = "running" /\ agent.pending
        <3>1. entries # {}
            BY <2>4
        <3> QED BY <1>a, <2>1, <3>1 DEF KeepingUp, RowFollows, OnceEnded
    <2>14. WhileBusy' /\ OnceEnded'
        BY <1>7, <1>9, <2>1, <2>8, <2>12, <2>13 DEF WhileBusy, OnceEnded
    <2> QED BY <1>7, <2>1, <2>2, <2>10, <2>11, <2>14 DEF KeepingUp, RowFollows, WhileFresh, PromptsAreLater
<1>14. CASE SubagentClear(e)
    <2>1. e.kind = "drain" /\ inflight = {e} /\ inflight' = {} /\ session = NoSession
        BY <1>4, <1>5, <1>7, <1>14, OneEvent DEF SubagentClear
    <2>2. /\ agent'.window = agent.window /\ agent'.id = agent.id
          /\ IF agent.pending THEN task'.status = "review" /\ ~agent'.pending
             ELSE task' = task /\ agent'.pending = agent.pending
        BY <1>b, <1>14, EmptyRows DEF SubagentClear
    <2>3. agent' # NoAgent /\ task'.status \in {"running", "review"} /\ ~agent'.pending
        BY <1>0, <1>8, <2>2 DEF NoAgent, AgentRecord
    <2>4. OneAtATime' /\ BeforeTheLaunch' /\ WithoutASession'
        BY <1>7, <1>8, <2>1, <2>3 DEF OneAtATime, BeforeTheLaunch, WithoutASession
    <2> QED BY <1>7, <2>1, <2>4, NoSessionFollows DEF KeepingUp
<1>15. CASE SubagentClearAndVoidPendingStop(e)
    <2>1. e.kind = "clear" /\ entries' = {} /\ task' = task /\ agent' = Voided(Synced(agent, {}))
        BY <1>15 DEF SubagentClearAndVoidPendingStop
    <2>2. agent'.window = agent.window /\ agent'.id = agent.id /\ agent'.pending = FALSE
          /\ agent'.stopAt = agent.stopAt
        <3>1. Synced(agent, {}) = [agent EXCEPT !.live = 0]
            BY <1>8, EmptyRows DEF Synced
        <3> DEFINE a == [agent EXCEPT !.live = 0]
        <3>2. a \in AgentRecord(agents, MaxClock) /\ a.window = agent.window /\ a.id = agent.id
              /\ a.stopAt = agent.stopAt
            BY <1>0 DEF AgentRecord
        <3>3. agent' = Voided(a)
            BY <2>1, <3>1
        <3> HIDE DEF a
        <3>4. Voided(a).window = a.window /\ Voided(a).id = a.id /\ Voided(a).pending = FALSE
              /\ Voided(a).stopAt = a.stopAt
            BY <3>2, SettledAgents
        <3> QED BY <3>2, <3>3, <3>4
    <2>3. agent' # NoAgent
        BY <1>8, <2>2 DEF NoAgent
    <2>4. CASE session = NoSession
        <3>1. inflight' = {}
            <4>1. ASSUME NEW d \in inflight' PROVE FALSE
                <5>1. d # e /\ d \in inflight /\ {d.kind, e.kind} = {"resumed", "clear"}
                    BY <1>5, <1>7, <4>1 DEF OneAtATime
                <5>2. "resumed" \in {d.kind, e.kind}
                    BY <5>1
                <5> QED BY <1>3, <2>1, <2>4, <5>1, <5>2
            <4> QED BY <4>1
        <3>2. OneAtATime' /\ BeforeTheLaunch' /\ WithoutASession'
            BY <1>7, <1>8, <2>1, <2>2, <2>3, <3>1 DEF OneAtATime, BeforeTheLaunch, WithoutASession
        <3> QED BY <1>7, <2>4, <3>1, <3>2, NoSessionFollows DEF KeepingUp
    <2>5. CASE session # NoSession
        <3>1. OneAtATime' /\ BeforeTheLaunch' /\ WithoutASession' /\ WithASession'
            BY <1>0, <1>7, <1>8, <2>1, <2>2, <2>3, <2>5, EventApplied
        <3>2. session.turn = "fresh"
            BY <1>0, <2>1, <2>5 DEF KeepingUp, RowFollows, SubagentsFollow, OnItsWay
        <3>3. WhileFresh'
            BY <1>7, <2>1, <2>2, <3>2 DEF KeepingUp, RowFollows, WhileFresh
        <3>4. PromptsAreLater'
            BY <1>7, <2>2 DEF KeepingUp, RowFollows, PromptsAreLater
        <3> QED BY <1>7, <3>1, <3>2, <3>3, <3>4 DEF KeepingUp, RowFollows, SubagentsFollow, WhileBusy, OnceEnded
    <2> QED BY <2>4, <2>5
<1>16. CASE RecordNotification(e) \/ RecordPreToolUse(e)
    <2>1. e.kind \in {"tool", "note"} /\ entries' = entries
        BY <1>16 DEF RecordNotification, RecordPreToolUse
    <2>2. inflight = {e} /\ inflight' = {} /\ session # NoSession
        BY <1>3, <1>5, <1>7, <2>1, OneEvent
    <2>3. task'.status = task.status /\ agent'.pending = agent.pending /\ agent'.window = agent.window
          /\ agent'.id = agent.id
        BY <1>0, <1>8, <1>16 DEF RecordNotification, RecordPreToolUse, Noted, Row, AgentRecord
    <2>4. agent' # NoAgent
        BY <1>8, <2>3 DEF NoAgent
    <2> QED BY <1>0, <1>7, <2>1, <2>2, <2>3, <2>4, QuietSteps
<1>17. CASE Resumed(e)
    <2>1. e.kind = "resumed" /\ entries' = entries /\ task'.status = "running"
          /\ agent' = [agent EXCEPT !.window = TRUE, !.toolAt = clock]
        BY <1>8, <1>17 DEF Resumed, Row
    <2>2. agent'.window /\ agent'.id = agent.id /\ agent'.pending = agent.pending /\ agent'.stopAt = agent.stopAt
        BY <1>0, <2>1 DEF AgentRecord
    <2>3. session # NoSession /\ agent' # NoAgent
        BY <1>3, <1>8, <2>1, <2>2 DEF NoAgent
    <2>4. OneAtATime' /\ BeforeTheLaunch' /\ WithoutASession' /\ WithASession'
        BY <1>0, <1>7, <2>1, <2>2, <2>3, EventApplied
    <2>5. session.turn = "fresh"
        BY <1>0, <2>1, <2>3 DEF KeepingUp, RowFollows, SubagentsFollow, OnItsWay
    <2>6. WhileFresh'
        BY <1>7, <2>1, <2>2, <2>5 DEF KeepingUp, RowFollows, WhileFresh, OnItsWay
    <2>7. PromptsAreLater'
        BY <1>7, <2>2 DEF KeepingUp, RowFollows, PromptsAreLater
    <2> QED BY <1>7, <2>4, <2>5, <2>6, <2>7 DEF KeepingUp, RowFollows, SubagentsFollow, WhileBusy, OnceEnded
<1> QED
    BY <1>10, <1>11, <1>12, <1>13, <1>14, <1>15, <1>16, <1>17 DEF StoreApplies

(***************************************************************************)
(* The invariant holds, and the property with it.                          *)
(***************************************************************************)
LEMMA ActivityInvHolds == Spec => [](ActivityInv /\ (KeepsUp => KeepingUp))
<1>1. Init => ActivityInv /\ KeepingUp
    <2> SUFFICES ASSUME Init PROVE ActivityInv /\ KeepingUp
        OBVIOUS
    <2>1. setting \in Settings /\ MaxAgents \in Nat /\ MaxSessions \in Nat /\ MaxClock \in Nat \ {0}
        BY SettingFacts DEF Init
    <2>2. agent = NoAgent /\ entries = {} /\ task.status = "backlog" /\ session = NoSession /\ inflight = {}
          /\ ~launching /\ agent.id = 0 /\ agent.live = 0 /\ ~agent.pending /\ ~agent.window
          /\ session.turn = "none"
        BY DEF Init, NoAgent, NoSession, Row
    <2>3. Types
        <3>1. NoAgent \in AgentRecord(0, MaxClock)
            BY <2>1 DEF AgentRecord, NoAgent, Never
        <3>2. SessionOK(NoSession, Sub, 0)
            BY DEF SessionOK, NoSession
        <3>3. task \in RowRecord /\ agents = 0 /\ sessions = 0 /\ agent = NoAgent /\ entries = {}
              /\ session = NoSession /\ launching = FALSE /\ clock = 1 /\ inflight = {}
            BY RowFacts DEF Init
        <3>4. 0 \in 0..MaxAgents /\ 0 \in 0..MaxSessions /\ 1 \in 1..MaxClock
            BY <2>1
        <3> QED BY <2>1, <3>1, <3>2, <3>3, <3>4 DEF Types
    <2>4. Counts
        BY <2>2, EmptyRows DEF Init, Counts, RowsCount, LiveCountIsTheRows, RowsAreOfOneSession,
           RowsAreOfTheCurrentAgent, NoStrandedStop, PendingStopOnlyWhileRunning
    <2>5. KeepingUp
        BY <2>2 DEF KeepingUp, OneAtATime, BeforeTheLaunch, WithoutASession, WithASession, RowFollows,
           WhileFresh, SubagentsFollow, WhileBusy, OnceEnded, PromptsAreLater
    <2> QED BY <2>3, <2>4, <2>5 DEF ActivityInv, Counts
<1>2. ActivityInv /\ (KeepsUp => KeepingUp) /\ [Next]_vars => (ActivityInv /\ (KeepsUp => KeepingUp))'
    <2> SUFFICES ASSUME ActivityInv, KeepsUp => KeepingUp, [Next]_vars
                 PROVE  (ActivityInv /\ (KeepsUp => KeepingUp))'
        OBVIOUS
    <2>1. ActivityInv'
        BY TypesStep, CountsStep DEF ActivityInv, Counts
    <2>2. KeepsUp' => KeepsUp
        BY DEF Next, vars, KeepsUp, InOrder, Lossy, Acts
    <2>3. ASSUME KeepsUp, KeepingUp PROVE KeepingUp'
        BY <2>3, SessionKeepsUp, OthersKeepUp, DeliveriesKeepUp DEF Next, SessionStep
    <2> QED BY <2>1, <2>2, <2>3
<1> QED
    BY <1>1, <1>2, PTL DEF Spec

(* Whatever order the hooks of an agent are written in and whatever the     *)
(* board does between, the count is the current agent's rows of one session,*)
(* and a stop put off is one a subagent still ends; where the writes keep   *)
(* up, the row says what the session does (agent_state.rs, hooks/mod.rs).   *)
THEOREM HooksStayInAgreement == Spec => []HooksAgree
<1>1. ActivityInv /\ (KeepsUp => KeepingUp) => HooksAgree
    <2> SUFFICES ASSUME ActivityInv, KeepsUp => KeepingUp PROVE HooksAgree
        OBVIOUS
    <2>1. Types /\ Cardinality(entries) \in 0..Cardinality(Sub) /\ agent.live = Cardinality(entries)
        BY RowsAreBounded DEF ActivityInv, LiveCountIsTheRows
    <2>2. MaxAgents \in Nat /\ MaxSessions \in Nat /\ MaxClock \in Nat \ {0}
        BY <2>1, SettingFacts DEF Types
    <2>3. TypeOK
        <3>1. task.status \in {"backlog", "running", "review", "done"} /\ task.sub \in LegalSubs(task.status)
            BY <2>1 DEF Types, RowRecord
        <3>2. agent.id \in 0..agents /\ agent.live \in 0..Cardinality(Sub) /\ agent.window \in BOOLEAN
              /\ agent.pending \in BOOLEAN /\ {agent.stopAt, agent.toolAt, agent.noteAt} \subseteq 0..MaxClock
            BY <2>1 DEF Types, AgentRecord
        <3>3. \A e \in entries : e.sub \in Sub /\ e.sid \in 1..sessions /\ e.owner \in 1..agents
            BY <2>1 DEF Types, EntryRecord
        <3>4. session.turn \in {"none", "fresh", "busy", "ended"} /\ session.subs \subseteq Sub
              /\ session.id \in 0..sessions
            BY <2>1 DEF Types, SessionOK
        <3>5. \A e \in inflight : e.kind \in HookKinds \cup BoardWrites /\ e.at \in 1..clock
                                  /\ e.sid \in 0..sessions
            BY <2>1 DEF Types, EventOK
        <3> QED BY <2>1, <3>1, <3>2, <3>3, <3>4, <3>5 DEF TypeOK, Types
    <2>4. ASSUME KeepsUp PROVE WorkIsRunning /\ TurnOverIsInReview /\ NoStopWithoutASession
        <3>1. WorkIsRunning
            BY <2>1, <2>4, NothingOut DEF WorkIsRunning, Settled
        <3>2. TurnOverIsInReview
            BY <2>1, <2>4, NothingOut DEF TurnOverIsInReview, Settled
        <3>3. NoStopWithoutASession
            BY <2>4 DEF NoStopWithoutASession, KeepingUp, WithoutASession
        <3> QED BY <3>1, <3>2, <3>3
    <2> QED BY <2>3, <2>4 DEF HooksAgree, ActivityInv
<1> QED
    BY <1>1, ActivityInvHolds, PTL
=============================================================================
