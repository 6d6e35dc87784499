---------------------------- MODULE MCDispatchHost ----------------------------
(***************************************************************************)
(* Small instances of DispatchHost for TLC: one task, a path and a window  *)
(* name of its own, and a board for each of two hosts.  A behaviour has    *)
(* one of three surroundings, chosen at its start.                         *)
(***************************************************************************)
EXTENDS DispatchHost, TLC

CONSTANTS t1, h1, h2, u1, u2, w1, win1

FlatEpic == [e \in Epic |-> None]
OnUserBoard == [t \in Task |-> None]
OwnBoards == (h1 :> u1) @@ (h2 :> u2)
OnePath == [t \in Task |-> w1]
OneName == [t \in Task |-> win1]

Move(names, s) ==
    [names |-> names, status |-> s, worktree |-> None, host |-> None,
     window |-> None, schedule |-> FALSE, phoenix |-> FALSE]

(* A task, closed or dispatched, that is put back in backlog. *)
Reopen == {Move({"status", "window"}, "backlog")}

(* One board meets every fault; two boards compete for the task, while     *)
(* each ends what it is at before the task goes out again, or restart at   *)
(* any time.                                                               *)
EveryFault == [faults |-> {"crash", "killed", "lost", "teardown"}, prompt |-> FALSE]
Rollbacks == [faults |-> {}, prompt |-> TRUE]
Restarts == [faults |-> {"crash"}, prompt |-> FALSE]

Surroundings == {EveryFault, Rollbacks, Restarts}

(* Where everything fails the second host never registers. *)
MCNext ==
    /\ HostNext
    /\ setting = EveryFault => hosts'[h2] = hosts[h2]

(* Each attempt is a job of its own and runs to its end. *)
MCSpec ==
    /\ HostInit /\ [][MCNext]_vars
    /\ \A r \in RequestId : WF_<<storeVars, hostVars>>(setting = EveryFault /\ Proceed(r))
----------------------------------------------------------------------------
(* Properties *)

(* An attempt that was claimed ends, whatever fails around it. *)
AtWork(r) == setting = EveryFault /\ Working(r)

AttemptsEnd == \A r \in RequestId : AtWork(r) ~> ~AtWork(r)
==============================================================================
