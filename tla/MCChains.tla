------------------------------- MODULE MCChains -------------------------------
(***************************************************************************)
(* Two subtasks of one epic, for TLC.  In the instance "chain" the end of  *)
(* one session has the epic dispatch the next subtask, beside whatever     *)
(* else SessionRequests lets the callers do; in "schedules" the tasks have *)
(* schedules and successors, and DispatchRequests alone runs, while the    *)
(* session rows rest.                                                      *)
(***************************************************************************)
EXTENDS MCSessionRequests

VARIABLE instance

mcVars == <<allVars, instance>>

(* One request at a time is enough for a task that waits for its run.      *)
Scheduled ==
    INSTANCE DispatchRequests
    WITH MaxRequests <- 1, Origins <- {"user", "epic_chain", "schedule"},
         Patches <- SchedulePatches

MCInit ==
    \/ instance = "chain" /\ SessionInit
    \/ /\ instance = "schedules" /\ Scheduled!Init
       /\ session = [q \in SessionId |-> NoSession] /\ sessionTimers = {} /\ nextSession = 1

MCNext ==
    \/ instance = "chain" /\ SessionNext /\ UNCHANGED instance
    \/ instance = "schedules" /\ Scheduled!Next /\ UNCHANGED <<sessionVars, instance>>

(* Time passes and the timers are served, as both modules assume.          *)
MCSpec ==
    /\ MCInit /\ [][MCNext]_mcVars
    /\ WF_allVars(instance = "chain" /\ SessionTick)
    /\ \A q \in SessionId : WF_allVars(instance = "chain" /\ ExpireSessionRequest(q))
    /\ WF_storeVars(instance = "schedules" /\ Scheduled!Tick)
    /\ WF_storeVars(instance = "schedules" /\ Scheduled!ExpireDispatchRequest(1))
----------------------------------------------------------------------------
(* Liveness *)

(* The backstop ends every session request and every dispatch request,     *)
(* whatever their hosts and the callers do.                                *)
Waits == instance = "schedules" /\ request[1].state \in OpenStates

RequestsEnd ==
    /\ \A q \in SessionId : SessionIsOpen(q) ~> ~SessionIsOpen(q)
    /\ Waits ~> ~Waits
==============================================================================
