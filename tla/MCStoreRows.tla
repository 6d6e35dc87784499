---------------------------- MODULE MCStoreRows ----------------------------
(***************************************************************************)
(* Small instances of EpicTree and FeedIngest for TLC: what the store does *)
(* to whole trees of rows in one transaction.  A behaviour belongs to one  *)
(* instance, chosen at its start; the other component's variables rest.    *)
(***************************************************************************)
EXTENDS EpicTree, FeedIngest

CONSTANTS
    Chosen,         \* the instances of a run
    i1, i2

VARIABLE instance

mcVars == <<treeVars, ingestVars, instance>>

Tree(epicCount, taskCount, repos, depth, calls) ==
    [epics |-> epicCount, tasks |-> taskCount, repos |-> repos, depth |-> depth, calls |-> calls]

Trees ==
    [shape   |-> Tree(4, 1, {"r1"}, 2, {"create", "reparent", "move", "delete"}),
     rollUp  |-> Tree(3, 1, {"r1"}, 3, {"create", "place", "reparent", "delete", "batch"}),
     groups  |-> Tree(3, 2, {"r1", "r2"}, 3, {"create", "group"}),
     updates |-> Tree(3, 1, {"r1", "r2"}, 3, {"create", "group", "repo", "update"}),
     reborn  |-> Tree(3, 2, {"r1"}, 3, {"create", "group", "phoenix"})]

MCTreeSettings == {Trees[i] : i \in DOMAIN Trees}

(* Two items of two repositories; the second is not checked out on the     *)
(* host, so its path names another.                                        *)
MCItem == {i1, i2}
MCRepo == {"r1", "r2", "other"}
MCUrlRepo == [i \in MCItem |-> IF i = i1 THEN "r1" ELSE "r2"]
MCPathRepo == [i \in MCItem \cup {Manual} |-> IF i = i2 THEN "other" ELSE "r1"]

Source(items, reviews, most, ops) ==
    [items |-> items, reviews |-> reviews, most |-> most, ops |-> ops]

Feeds ==
    [reviews  |-> Source(MCItem, TRUE, 3, {"degraded", "delete epic"}),
     grouping |-> Source({i2}, TRUE, 2, {"toggle", "move"}),
     flat     |-> Source(MCItem, FALSE, 6, {"degraded", "manual task"}),
     grouped  |-> Source(MCItem, FALSE, 4, {"toggle", "move", "manual task", "delete epic"})]

MCIngestSettings == {Feeds[i] : i \in DOMAIN Feeds}

MCInit ==
    /\ IngestInit /\ TreeInit
    /\ \/ \E i \in Chosen \cap DOMAIN Trees :
              instance = i /\ treeSetting = Trees[i] /\ setting = Feeds.flat
       \/ \E i \in Chosen \cap DOMAIN Feeds :
              instance = i /\ setting = Feeds[i] /\ treeSetting = Trees.shape

MCNext ==
    \/ instance \in DOMAIN Trees /\ TreeNext /\ UNCHANGED <<ingestVars, instance>>
    \/ instance \in DOMAIN Feeds /\ IngestNext /\ UNCHANGED <<treeVars, instance>>

MCSpec == MCInit /\ [][MCNext]_mcVars
=============================================================================
