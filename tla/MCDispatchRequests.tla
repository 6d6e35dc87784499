-------------------------- MODULE MCDispatchRequests --------------------------
(* Small instances of DispatchRequests for TLC. *)
EXTENDS DispatchRequests, TLC

CONSTANTS t1, t2, e1, e2

SubEpicOfRoot == e1 :> e2 @@ e2 :> None
FlatEpic == [e \in Epic |-> None]
OnUserBoard == [t \in Task |-> None]
InFirstEpic == [t \in Task |-> e1]

BoardPatch(names, s) ==
    [names |-> names, status |-> s, worktree |-> None, host |-> None,
     window |-> None, schedule |-> FALSE, phoenix |-> FALSE]

(* MoveTask forward, and backward or into done with the window released.   *)
Moves == {BoardPatch({"status"}, s) : s \in {"running", "review"}}
         \cup {BoardPatch({"status", "window"}, s) : s \in {"backlog", "done"}}

(* RetryFresh, and the pointer clear that follows its cleanup.             *)
Pointers == {"worktree", "host", "window"}
Releases == {BoardPatch(Pointers \cup {"status"}, "backlog"),
             BoardPatch(Pointers, "backlog")}

(* A persist of a board's copy sends the status and each pointer the copy  *)
(* has.  A copy whose worktree a teardown cleared keeps its host.          *)
StaleCopy(w, h, win) ==
    [BoardPatch({"status"} \cup {f \in Pointers : CASE f = "worktree" -> w # None
                                                   [] f = "host" -> h # None
                                                   [] f = "window" -> win # None},
                "running") EXCEPT !.worktree = w, !.host = h, !.window = win]

StaleCopies == {StaleCopy(w, h, win) : w \in Worktree \cup {None}, h \in Host,
                                       win \in Window \cup {None}}

Schedules == {[BoardPatch({"schedule"}, "backlog") EXCEPT !.schedule = on] : on \in BOOLEAN}
Phoenixes == {[BoardPatch({"phoenix"}, "backlog") EXCEPT !.phoenix = on] : on \in BOOLEAN}

AllPatches == Moves \cup Releases \cup StaleCopies
SchedulePatches == Moves \cup Schedules \cup Phoenixes

HostSymmetry == Permutations(Host) \cup Permutations(User)
============================================================================
