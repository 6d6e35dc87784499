----------------------------- MODULE ViewMirror -----------------------------
(***************************************************************************)
(* The rows a board holds of the store (src/src/sync/rows.rs), as the      *)
(* callbacks of the store's client change them (src/src/sync/              *)
(* sdk_connector/wiring.rs), and the pump that draws them (src/src/        *)
(* runtime/tasks.rs): one task, served by two views, and its agents,       *)
(* served by one.                                                          *)
(*                                                                         *)
(* A view has no key, so a new version of a row arrives as an insert and a *)
(* delete. The client changes its cache of all views for one transaction   *)
(* and then runs the callbacks one by one, in an order that is not ours.   *)
(*                                                                         *)
(* A task row is what it decodes to and a column the decoder ignores.      *)
(***************************************************************************)
EXTENDS Naturals

CONSTANTS
    ViewSettings    \* what the rows of a behaviour may be

None == [text |-> "none", other |-> 0]
Removed == "removed"
Undecodable == "undecodable"
NoCurrent == "no agent"

ASSUME ViewMirrorAssumption ==
    \A c \in ViewSettings :
        /\ c.spoilt \in BOOLEAN
        /\ {"none", Removed, Undecodable} \cap c.texts = {}
        /\ {NoCurrent, "own", "covered"} \cap c.agents = {}

VARIABLES
    cache,          \* the task row each view serves, None for none
    agentCache,     \* the agent rows the agents' view serves
    pending,        \* callbacks of the last transaction still to run
    heldTask,       \* the raw task row the board holds, None for none
    mark,           \* the raw row of the task's undecodable mark
    heldAgents,     \* the raw agent rows the board holds
    current,        \* the agent the board takes for the current one
    unseen,         \* whether the rows moved since the pump last woke
    pump,           \* "waiting" or "reading"
    drawn,          \* the task and the agent's row on the board
    viewQuiet,      \* the store has stopped changing
    viewSetting     \* the member of ViewSettings a behaviour belongs to: it never changes

Text == viewSetting.texts           \* what a task row may decode to
Spoilt == viewSetting.spoilt        \* whether it has rows that do not decode
Agent == viewSetting.agents         \* the agents of the task

View == {"own", "covered"}
Other(v) == IF v = "own" THEN "covered" ELSE "own"

Decoded == Text \cup {Removed} \cup (IF Spoilt THEN {Undecodable} ELSE {})
Raw == [text : Decoded, other : {0, 1}]
AgentRow == [text : {"current", "ended"}, other : {0, 1}]

heldVars == <<heldTask, mark, heldAgents, current, unseen>>
mirrorVars == <<cache, agentCache, pending, heldVars, pump, drawn, viewQuiet>>
viewVars == <<mirrorVars, viewSetting>>

ViewInit ==
    /\ viewSetting \in ViewSettings
    /\ cache = [v \in View |-> None]
    /\ agentCache = [a \in Agent |-> None]
    /\ pending = {}
    /\ heldTask = None /\ mark = None
    /\ heldAgents = [a \in Agent |-> None]
    /\ current = NoCurrent
    /\ unseen = FALSE
    /\ pump = "waiting"
    /\ drawn = <<None, None>>
    /\ viewQuiet = FALSE

(***************************************************************************)
(* Transactions. The store changes the row and who is served it; a view    *)
(* that serves the row serves the one version there is.                    *)
(***************************************************************************)
Callbacks(what, old, new) ==
    {[on |-> what, kind |-> "insert", row |-> r] : r \in {new} \ {old, None}}
    \cup {[on |-> what, kind |-> "delete", row |-> r] : r \in {old} \ {new, None}}

TaskTransaction ==
    /\ pending = {} /\ ~viewQuiet
    /\ \E raw \in Raw, views \in SUBSET View :
           cache' = [v \in View |-> IF v \in views THEN raw ELSE None]
    /\ cache' # cache
    /\ pending' = UNION {Callbacks(v, cache[v], cache'[v]) : v \in View}
    /\ UNCHANGED <<agentCache, heldVars, pump, drawn, viewQuiet>>

\* A task has at most one current agent, and an ended one stays ended. The
\* agents leave the view together, when the task is no longer held.
AgentTransaction ==
    /\ pending = {} /\ ~viewQuiet
    /\ agentCache' \in [Agent -> AgentRow \cup {None}]
    /\ agentCache' # agentCache
    /\ \A a, b \in Agent :
           agentCache'[a].text = "current" /\ agentCache'[b].text = "current" => a = b
    /\ \A a \in Agent :
           agentCache[a].text = "ended" => agentCache'[a].text \in {"ended", "none"}
    /\ (\A a \in Agent : agentCache[a] # None => agentCache'[a] # None)
         \/ (\A a \in Agent : agentCache'[a] = None)
    /\ pending' = UNION {Callbacks(a, agentCache[a], agentCache'[a]) : a \in Agent}
    /\ UNCHANGED <<cache, heldVars, pump, drawn, viewQuiet>>

StoreFallsQuiet ==
    /\ ~viewQuiet
    /\ viewQuiet' = TRUE
    /\ UNCHANGED <<cache, agentCache, pending, heldVars, pump, drawn>>

(***************************************************************************)
(* The task's callbacks.                                                   *)
(***************************************************************************)
RemoveTask ==
    /\ unseen' = (unseen \/ heldTask # None \/ mark # None)
    /\ heldTask' = None
    /\ mark' = None

UpsertTask(row) ==
    \/ row.text = Removed /\ RemoveTask
    \/ row.text = Undecodable /\ heldTask' = None /\ mark' = row /\ unseen' = unseen
    \/ row.text \in Text /\ heldTask' = row /\ mark' = None /\ unseen' = TRUE

\* The row that is held, judged by the whole row.
IsHeld(held, row) == held = row

\* The faulty form removes the row without waking the board.
RetireTaskQuietly(row) ==
    /\ IF row.text \in Text
         THEN /\ heldTask' = IF IsHeld(heldTask, row) THEN None ELSE heldTask
              /\ mark' = mark
         ELSE /\ mark' = IF IsHeld(mark, row) THEN None ELSE mark
              /\ heldTask' = heldTask
    /\ unseen' = unseen

RetireTask(row) ==
    /\ IF row.text \in Text
         THEN /\ heldTask' = IF IsHeld(heldTask, row) THEN None ELSE heldTask
              /\ mark' = mark
         ELSE /\ mark' = IF IsHeld(mark, row) THEN None ELSE mark
              /\ heldTask' = heldTask
    /\ unseen' = (unseen \/ heldTask' # heldTask \/ mark' # mark)

ServedElsewhere(v) == cache[Other(v)] # None

TaskCallback(c) ==
    /\ c.on \in View
    /\ \/ c.kind = "insert" /\ UpsertTask(c.row)
       \/ c.kind = "delete" /\ ~ServedElsewhere(c.on) /\ RetireTask(c.row)
       \/ c.kind = "delete" /\ ServedElsewhere(c.on) /\ UNCHANGED <<heldTask, mark, unseen>>
    /\ UNCHANGED <<heldAgents, current>>

(***************************************************************************)
(* The agents' callbacks keep the index of the current agent in step.      *)
(***************************************************************************)
\* The faulty form leaves an agent in the index that is gone.
IndexAgentOutNever(a) == current
IndexAgentOut(a) == IF current = a THEN NoCurrent ELSE current

UpsertAgent(a, row) ==
    /\ heldAgents' = [heldAgents EXCEPT ![a] = row]
    /\ current' = IF row.text = "current" THEN a ELSE IndexAgentOut(a)
    /\ unseen' = TRUE

RetireAgent(a, row) ==
    \/ /\ IsHeld(heldAgents[a], row)
       /\ heldAgents' = [heldAgents EXCEPT ![a] = None]
       /\ current' = IndexAgentOut(a)
       /\ unseen' = TRUE
    \/ ~IsHeld(heldAgents[a], row) /\ UNCHANGED <<heldAgents, current, unseen>>

AgentCallback(c) ==
    /\ c.on \in Agent
    /\ \/ c.kind = "insert" /\ UpsertAgent(c.on, c.row)
       \/ c.kind = "delete" /\ RetireAgent(c.on, c.row)
    /\ UNCHANGED <<heldTask, mark>>

Callback ==
    /\ \E c \in pending :
           /\ TaskCallback(c) \/ AgentCallback(c)
           /\ pending' = pending \ {c}
    /\ UNCHANGED <<cache, agentCache, pump, drawn, viewQuiet>>

(***************************************************************************)
(* The pump wakes when the rows have moved, notes that, and reads.         *)
(***************************************************************************)
ViewOfTask ==
    <<heldTask, IF heldTask # None /\ current # NoCurrent THEN heldAgents[current] ELSE None>>

Wake ==
    /\ pump = "waiting" /\ unseen
    /\ pump' = "reading"
    /\ unseen' = FALSE
    /\ UNCHANGED <<cache, agentCache, pending, heldTask, mark, heldAgents, current, drawn, viewQuiet>>

Read ==
    /\ pump = "reading"
    /\ drawn' = ViewOfTask
    /\ pump' = "waiting"
    /\ UNCHANGED <<cache, agentCache, pending, heldVars, viewQuiet>>

ViewStep == TaskTransaction \/ AgentTransaction \/ StoreFallsQuiet \/ Callback \/ Wake \/ Read

ViewNext == ViewStep /\ UNCHANGED viewSetting

ViewSpec == ViewInit /\ [][ViewNext]_viewVars
ViewFairSpec ==
    ViewSpec /\ WF_mirrorVars(Callback) /\ WF_mirrorVars(Wake) /\ WF_mirrorVars(Read)

-----------------------------------------------------------------------------
(* Properties *)

\* The types; the index names a row that is held, and a task is never both on
\* the board and marked as one that does not decode.
ViewTypeOK ==
    /\ cache \in [View -> Raw \cup {None}]
    /\ agentCache \in [Agent -> AgentRow \cup {None}]
    /\ heldTask \in Raw \cup {None} /\ mark \in Raw \cup {None}
    /\ heldAgents \in [Agent -> AgentRow \cup {None}]
    /\ current \in {a \in Agent : heldAgents[a] # None} \cup {NoCurrent}
    /\ heldTask = None \/ mark = None
    /\ unseen \in BOOLEAN /\ viewQuiet \in BOOLEAN
    /\ pump \in {"waiting", "reading"}

Served == IF cache["own"] # None THEN cache["own"] ELSE cache["covered"]

\* Once the callbacks of a transaction have run, in whatever order, the board
\* holds the task row a view serves, marks the task if that row does not
\* decode, and holds nothing else (sync.allium, AViewUpdateNeverErasesTheRow).
HeldIsServed ==
    pending = {} =>
        /\ heldTask = IF Served.text \in Text THEN Served ELSE None
        /\ mark = IF Served.text = Undecodable THEN Served ELSE None
        /\ heldAgents = agentCache

\* A row that is held and that a view goes on serving is not taken off the
\* board between two callbacks either (sdk_connector/wiring.rs, paired views).
KeepsServedRow == \A v \in View : heldTask # None /\ cache'[v] = heldTask => heldTask' = heldTask

\* At rest the index names the agent that is current in the rows, so a task is
\* drawn with the session of its own agent (rows.rs, index_agent_out).
CurrentAgentIsIndexed ==
    pending = {} =>
        \A a \in Agent : (current = a) <=> (heldAgents[a].text = "current")

\* When the pump waits and nothing woke it, the board shows what it holds: no
\* change of the rows goes undrawn (rows.rs, SharedRows::write: "wake the board
\* only if `f` says something moved").
DrawnIsHeld == pump = "waiting" /\ ~unseen => drawn = ViewOfTask

\* The rows on the board are those a view serves, in whatever order callbacks
\* run, and a row that goes on being served is never taken off on the way; every
\* change is drawn, but for a row that stops decoding.
BoardsShowWhatIs ==
    /\ [](/\ ViewTypeOK
          /\ HeldIsServed
          /\ CurrentAgentIsIndexed
          /\ ~Spoilt => DrawnIsHeld)
    /\ [][KeepsServedRow]_viewVars

\* The board shows the row the store serves.
ShowsServed == drawn[1] = IF Served.text \in Text THEN Served ELSE None
=============================================================================
