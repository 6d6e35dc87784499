----------------------------- MODULE DispatchLease -----------------------------
(***************************************************************************)
(* What a dispatch request is, without timers, reports, hosts or epics: an *)
(* exclusive lease on a task.  A lease is taken on a task nobody holds,    *)
(* started by one host, and ended once; its id is never used again.        *)
(***************************************************************************)
CONSTANTS Task, Id

VARIABLES
    phase,  \* where each lease is in its life
    held    \* the leases that hold each task: none, or one

leaseVars == <<phase, held>>

Phase == {"unborn", "requested", "provisioning", "dispatched", "failed", "forgotten"}

Init ==
    /\ phase = [i \in Id |-> "unborn"]
    /\ held = [t \in Task |-> {}]

(* Finished leases may be forgotten while a new one is taken. *)
Take(i, t, gone) ==
    /\ phase[i] = "unborn"
    /\ held[t] = {}
    /\ \A g \in gone : phase[g] \in {"dispatched", "failed"}
    /\ phase' = [j \in Id |-> IF j = i THEN "requested"
                              ELSE IF j \in gone THEN "forgotten" ELSE phase[j]]
    /\ held' = [held EXCEPT ![t] = {i}]

Start(i) ==
    /\ phase[i] = "requested"
    /\ phase' = [phase EXCEPT ![i] = "provisioning"]
    /\ UNCHANGED held

(* Only a started lease succeeds. *)
Succeed(i) ==
    /\ phase[i] = "provisioning"
    /\ phase' = [phase EXCEPT ![i] = "dispatched"]
    /\ held' = [t \in Task |-> held[t] \ {i}]

Fail(ended) ==
    /\ \A i \in ended : phase[i] \in {"requested", "provisioning"}
    /\ phase' = [i \in Id |-> IF i \in ended THEN "failed" ELSE phase[i]]
    /\ held' = [t \in Task |-> held[t] \ ended]

(* Finished leases may be forgotten at any other time, too. *)
Prune(gone) ==
    /\ \A g \in gone : phase[g] \in {"dispatched", "failed"}
    /\ phase' = [i \in Id |-> IF i \in gone THEN "forgotten" ELSE phase[i]]
    /\ UNCHANGED held

(* A deleted task takes its leases with it, held or finished. *)
Forget(t, gone) ==
    /\ held[t] \subseteq gone
    /\ \A i \in gone : phase[i] # "unborn"
    /\ \A u \in Task \ {t} : held[u] \cap gone = {}
    /\ phase' = [i \in Id |-> IF i \in gone THEN "forgotten" ELSE phase[i]]
    /\ held' = [held EXCEPT ![t] = {}]

Next ==
    \/ \E i \in Id, t \in Task, gone \in SUBSET Id : Take(i, t, gone)
    \/ \E i \in Id : Start(i) \/ Succeed(i)
    \/ \E ended \in SUBSET Id : Fail(ended)
    \/ \E gone \in SUBSET Id : Prune(gone)
    \/ \E t \in Task, gone \in SUBSET Id : Forget(t, gone)

Spec == Init /\ [][Next]_leaseVars
============================================================================
