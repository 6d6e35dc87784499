------------------------------- MODULE MCHosts -------------------------------
(***************************************************************************)
(* Small instances for TLC of the components in which a host works for the *)
(* store: FeedRequests, FinishTask, SessionHost and StoreConnection.  A    *)
(* behaviour belongs to one instance, chosen at its start; the variables   *)
(* of the other components rest.  The connection, and the wrap-ups of      *)
(* "races", have the constants of the .cfg; the instances of FeedRequests  *)
(* are its settings.                                                       *)
(***************************************************************************)
EXTENDS StoreConnection, FinishTask, FeedRequests, TLC

CONSTANTS
    Chosen,         \* the instances of a run
    h1, h2, b1, b2, i1, i2, t1, t2, c1, c2, c3

VARIABLES
    sessionRow, task, born, sessionLate, inWindow, process, settled, served,
    openExits, job, kills, mine, leftBehind, sessionFaults,         \* SessionHost
    instance

exitVars == <<sessionRow, task, born, sessionLate, inWindow, process, settled, served,
              openExits, job, kills, mine, leftBehind, sessionFaults>>
allVars == <<feedVars, finishVars, exitVars, vars, instance>>

W(c) == INSTANCE FinishTask WITH Task <- c.tasks, Push <- c.push, Events <- c.events

S(c) ==
    INSTANCE SessionHost
    WITH Task <- {t1}, MaxSessions <- 2, MaxFaults <- c.faults, Ops <- c.ops,
         row <- sessionRow, late <- sessionLate, board <- process, faults <- sessionFaults

OneEach == (b1 :> h1) @@ (b2 :> h2)

(* A feed with one request row; the poll is moved once, if at all.         *)
FeedOf(on, items, openings, crashes, losses, failing) ==
    [on |-> on, items |-> items, faults |-> failing, grace |-> 0, stale |-> 0, retention |-> 0,
     requests |-> 1, overrides |-> 1, crashes |-> crashes, losses |-> losses,
     openings |-> openings]

Feeds ==
    [cycles   |-> FeedOf(OneEach, {i1}, 2, 0, 0, {}),
     degraded |-> [FeedOf(OneEach, {i1, i2}, 2, 0, 0, {"degraded feed"}) EXCEPT !.overrides = 0],
     handover |-> [FeedOf((b1 :> h1) @@ (b2 :> h1), {i1}, 1, 1, 0, {}) EXCEPT !.overrides = 0],
     servers  |-> FeedOf(OneEach, {i1}, 1, 0, 1, {"unsent claim", "failed teardown"}),
     answers  |-> FeedOf(OneEach, {i1}, 1, 0, 1, {"lost answer", "failed feed"})]

ChosenFeeds == {Feeds[i] : i \in DOMAIN Feeds}

WrapUps ==
    [alone |-> [tasks |-> {t1}, push |-> {c1},
                events |-> {"deadline", "crash", "abort fails", "merge"}],
     fails |-> [tasks |-> {t1, t2}, push |-> {}, events |-> {"crash", "abort fails"}]]

Exits ==
    [teardowns |-> [faults |-> 2, ops |-> {"deadline", "leave", "close again"}]]

ASSUME InstancesAssumption ==
    \A i \in Chosen \cap DOMAIN Exits : S(Exits[i])!SessionHostAssumption

NoFeed == FeedInit /\ setting = Feeds.cycles
NoExit ==
    /\ sessionRow = "rests" /\ task = "rests" /\ born = "rests" /\ sessionLate = "rests"
    /\ inWindow = "rests" /\ process = "rests" /\ settled = "rests" /\ served = "rests"
    /\ openExits = "rests" /\ job = "rests" /\ kills = "rests" /\ mine = "rests"
    /\ leftBehind = "rests" /\ sessionFaults = "rests"
NoFinish == FinishInit
NoStore == Init /\ stored = NoIdentity /\ token = NoIdentity

MCInit ==
    \/ /\ \E i \in Chosen \cap DOMAIN Feeds : instance = i /\ FeedInit /\ setting = Feeds[i]
       /\ NoFinish /\ NoExit /\ NoStore
    \/ /\ \E i \in Chosen \cap DOMAIN WrapUps : instance = i /\ W(WrapUps[i])!FinishInit
       /\ NoFeed /\ NoExit /\ NoStore
    \/ /\ "races" \in Chosen /\ instance = "races" /\ FinishInit
       /\ NoFeed /\ NoExit /\ NoStore
    \/ /\ \E i \in Chosen \cap DOMAIN Exits : instance = i /\ S(Exits[i])!Init
       /\ NoFeed /\ NoFinish /\ NoStore
    \/ /\ "reconnect" \in Chosen /\ instance = "reconnect" /\ Init
       /\ NoFeed /\ NoFinish /\ NoExit

OfAFeed == instance \in DOMAIN Feeds

MCNext ==
    \/ /\ OfAFeed /\ FeedNext
       /\ UNCHANGED <<finishVars, exitVars, vars, instance>>
    \/ /\ \/ instance = "races" /\ FinishNext
          \/ \E i \in Chosen \cap DOMAIN WrapUps : instance = i /\ W(WrapUps[i])!FinishNext
       /\ UNCHANGED <<feedVars, exitVars, vars, instance>>
    \/ /\ \E i \in Chosen \cap DOMAIN Exits : instance = i /\ S(Exits[i])!Next
       /\ UNCHANGED <<feedVars, finishVars, vars, instance>>
    \/ /\ instance = "reconnect" /\ Next
       /\ UNCHANGED <<feedVars, finishVars, exitVars, instance>>

MCSpec == MCInit /\ [][MCNext]_allVars

(* In the run that checks safety alone, no task and no connection stands   *)
(* out.                                                                    *)
Alike == Permutations({t1, t2}) \cup Permutations({c1, c2, c3}) \cup Permutations({i1, i2})

(* The fairness each component states.  People, GitHub and whatever fails  *)
(* owe nothing.                                                            *)
MCFairSpec ==
    /\ MCSpec
    /\ WF_feedVars(OfAFeed /\ TimePasses)
    /\ \A b \in Board : /\ WF_feedVars(OfAFeed /\ PickUp(b))
                        /\ WF_feedVars(OfAFeed /\ Serve(b))
                        /\ WF_feedVars(OfAFeed /\ Cycle(b))
                        /\ WF_feedVars(OfAFeed /\ Restart(b))
    /\ \A i \in Chosen \cap DOMAIN WrapUps : \A t \in WrapUps[i].tasks :
           /\ WF_finishVars(instance = i /\ W(WrapUps[i])!HostStep(t))
           /\ WF_finishVars(instance = i /\ W(WrapUps[i])!RequestWrapUp(t))
           /\ SF_finishVars(instance = i /\ W(WrapUps[i])!Resolve(t))
    /\ \A i \in Chosen \cap DOMAIN Exits :
           /\ WF_exitVars(instance = i /\ S(Exits[i])!StartStep)
           /\ WF_exitVars(instance = i /\ S(Exits[i])!IdentitySettles)
           /\ WF_exitVars(instance = i /\ S(Exits[i])!ServeRows)
           /\ \A q \in 1..2 :
                  /\ WF_exitVars(instance = i /\ S(Exits[i])!ServeOne(q))
                  /\ WF_exitVars(instance = i /\ S(Exits[i])!TearDownFailed(q))
                  /\ WF_exitVars(instance = i /\ S(Exits[i])!Backstop(q))
                  /\ WF_exitVars(instance = i /\ S(Exits[i])!DeadlinePasses(q))
    /\ WF_vars(instance = "reconnect" /\ SessionStep)
    /\ \A c \in Conn :
           /\ WF_vars(instance = "reconnect" /\ ReportEnd(c))
           /\ WF_vars(instance = "reconnect" /\ Deliver(c))

----------------------------------------------------------------------------
(* Liveness *)

(* A requested teardown of a feed's worktree is served, and the window of  *)
(* a closed session whose row a board has seen open is killed, whatever    *)
(* calls are lost, while that board runs, unless the kill its failed row   *)
(* owed fails too; and no sweep fails a row the sweeping board claimed.    *)
LeftoverOwed == instance = "servers" /\ TeardownOpen(1)
SeenOpen(q) == instance = "teardowns" /\ S(Exits.teardowns)!SeenOpen(q)
WindowKilled(q) == instance = "teardowns" => S(Exits.teardowns)!WindowKilled(q)

TeardownsEnd ==
    /\ LeftoverOwed ~> ~LeftoverOwed
    /\ \A q \in 1..2 : SeenOpen(q) ~> WindowKilled(q)
    /\ [][instance = "teardowns" => S(Exits.teardowns)!KeepsOwnClaims]_exitVars

(* Once people leave the checkout alone every task's work lands: wrap-ups  *)
(* that compete for one base branch do not starve each other, and neither  *)
(* a crash nor a killed command leaves a worktree none gets past.          *)
WrapUpsLand ==
    \A i \in {"alone", "fails"} :
        <>(instance = i /\ quiet)
            => \A t \in WrapUps[i].tasks : <>(instance = i => W(WrapUps[i])!Landed(t))

(* Once failures stop, a board that started and is who it was shows the    *)
(* rows of its one connection for good.                                    *)
BoardComesBack == <>[](instance = "reconnect" => IsBack)
=============================================================================
