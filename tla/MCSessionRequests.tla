-------------------------- MODULE MCSessionRequests --------------------------
(* Small instances of SessionRequests for TLC. *)
EXTENDS MCDispatchRequests, SessionRequests

(* MoveTask back to backlog and into done, and a resume that opens the     *)
(* task's window again.                                                    *)
MovesAndResume ==
    {BoardPatch({"status", "window"}, s) : s \in {"backlog", "done"}}
    \cup {[BoardPatch({"status", "window"}, "running") EXCEPT !.window = w] : w \in Window}

Kinds == [phoenix : BOOLEAN, schedule : BOOLEAN]
Plain == {k \in Kinds : ~k.phoenix /\ ~k.schedule}
==============================================================================
