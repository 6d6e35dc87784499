----------------------------- MODULE FeedIngest -----------------------------
(* How the store reconciles the tasks of a feed epic with an emission of its  *)
(* feed: flat, grouped by repository, or routed to the role sub-epics of a    *)
(* reviews parent.  Between emissions people move, finish and delete tasks,   *)
(* toggle grouping and delete sub-epics.  Each action is a reducer.           *)
(*                                                                            *)
(* An epic is named by its path: <<"feed">> is the feed epic, <<"feed", role>>*)
(* a role sub-epic, one more element a repo group, <<"aside">> an epic of     *)
(* somebody's own.                                                            *)
EXTENDS Naturals, FiniteSets, SequencesExt

CONSTANTS
    Item, Repo,    \* what feeds report; repositories
    UrlRepo,       \* [Item -> Repo], the repository in the item's url
    PathRepo,      \* [Item \cup {Manual} -> Repo], of the task's checkout
    Manual,        \* the item of a task no feed made
    IngestSettings \* the feeds, and what happens to one in a behaviour

AllOps == {"degraded", "toggle", "move", "move out", "manual task", "delete epic"}

ASSUME IngestAssumption ==
    /\ IsFiniteSet(Item) /\ Manual \notin Item
    /\ UrlRepo \in [Item -> Repo] /\ PathRepo \in [Item \cup {Manual} -> Repo]
    /\ \A c \in IngestSettings :
           /\ c.items \subseteq Item /\ c.reviews \in BOOLEAN
           /\ c.ops \subseteq AllOps /\ c.most \in Nat

VARIABLES
    epics,     \* the epics there are
    tasks,     \* the task rows
    retired,   \* items deleted by a person (retired_feed_items of the feed)
    grouped,   \* epics with group_by_repo on
    lastId,    \* ids handed out to tasks
    source,    \* history: the last trusted emission, what of it is wanted
    setting    \* the member of IngestSettings a behaviour belongs to: it never changes

ingestVars == <<epics, tasks, retired, grouped, lastId, source, setting>>

Reviews == setting.reviews    \* whether the epic is a reviews parent
Ops == setting.ops            \* what people and sources do, of AllOps
MaxTasks == setting.most      \* bound: tasks ever made

Feed == <<"feed">>
Aside == <<"aside">>
RoleOrder == <<"my", "team", "bots">>
Roles == Range(RoleOrder)
Sub(epic, name) == Append(epic, name)
RoleEpics == {Sub(Feed, r) : r \in Roles}
Grouping == IF Reviews THEN RoleEpics ELSE {Feed}    \* what may be grouped

Row(id, item, at) == [id |-> id, item |-> item, at |-> at, done |-> FALSE]

Under(epic) == {e \in epics : IsPrefix(epic, e)}

IngestTypeOK ==
    /\ {Feed, Aside} \subseteq epics
    /\ epics \subseteq {Feed, Aside} \cup RoleEpics
                   \cup {Sub(e, r) : e \in Grouping, r \in Repo}
    /\ \A t \in tasks :
           t.id \in 1..lastId /\ t.item \in Item \cup {Manual} /\ t.at \in epics
    /\ retired \subseteq Item /\ grouped \subseteq Grouping /\ lastId \in 0..MaxTasks

IngestInit ==
    /\ setting \in IngestSettings
    /\ epics = {Feed, Aside}
    /\ tasks = {} /\ retired = {} /\ grouped = {} /\ lastId = 0
    /\ source = [open |-> {}, wanted |-> {}]

-----------------------------------------------------------------------------
(* The steps of a reducer work on the rows as it has left them so far.        *)

Store == [epics |-> epics, tasks |-> tasks, retired |-> retired, lastId |-> lastId]
Commit(s) ==
    /\ s.lastId <= MaxTasks
    /\ epics' = s.epics /\ tasks' = s.tasks /\ retired' = s.retired
    /\ lastId' = s.lastId
FeedTasks(s, at) == {t \in s.tasks : t.at \in at /\ t.item # Manual}
Children(s, epic) == {e \in s.epics : Len(e) = Len(epic) + 1 /\ IsPrefix(epic, e)}
Subtree(s, epic) == {e \in s.epics : IsPrefix(epic, e)}
ItemsOf(rows) == {t.item : t \in rows}

\* relink_task and the move of an ingest: the epic changes, nothing else.
Relinked(s, rows, target) ==
    [s EXCEPT !.tasks = (@ \ rows) \cup {[t EXCEPT !.at = target[t]] : t \in rows}]

Numbered(set) == CHOOSE f \in [set -> 1..Cardinality(set)] : IsInjective(f)

\* upsert_feed_item for each item of each epic of items: one with no row in the
\* epic is inserted, unless it is retired.
Inserted(s, items) ==
    LET New(epic) == items[epic] \ (s.retired \cup ItemsOf({t \in s.tasks : t.at = epic}))
        missing == UNION {{epic} \X New(epic) : epic \in DOMAIN items}
    IN [s EXCEPT !.tasks = @ \cup {Row(s.lastId + Numbered(missing)[new], new[2], new[1]) :
                                       new \in missing},
                 !.lastId = @ + Cardinality(missing)]

\* delete_stale_feed_tasks_in_epic, in each epic of keep: manual tasks stay.
WithoutStale(s, keep) ==
    [s EXCEPT !.tasks = @ \ {t \in FeedTasks(s, DOMAIN keep) : t.item \notin keep[t.at]}]

UpsertFeedTasks(s, items, additive) ==
    IF additive THEN Inserted(s, items) ELSE WithoutStale(Inserted(s, items), items)

DropClosedRetired(s, emission, additive) ==
    IF additive THEN s ELSE [s EXCEPT !.retired = @ \cap emission]

\* flatten_epic: the tasks of the repo groups go home, and groups left empty go.
DeletedFirst(s, root) ==     \* faulty: the groups go before their tasks are moved
    [s EXCEPT !.tasks = {t \in @ : t.at \notin Children(s, root)},
              !.epics = @ \ Children(s, root)]
Flattened(s, root) ==
    LET rows == {t \in s.tasks : t.at \in Children(s, root)}
    IN [Relinked(s, rows, [t \in rows |-> root]) EXCEPT !.epics = @ \ Children(s, root)]

\* Where a task of repo goes when put into epic (route_to_repo_group).
Routed(epic, repo) == IF epic \in grouped \cap RoleEpics THEN Sub(epic, repo) ELSE epic

RetiredWithoutTask(s, items) ==
    {i \in items \cap s.retired : i \notin ItemsOf(FeedTasks(s, Subtree(s, Feed)))}

-----------------------------------------------------------------------------
(* Ingest.                                                                    *)

IngestFlat(emission, additive) ==
    LET s1 == IF Children(Store, Feed) # {} THEN Flattened(Store, Feed) ELSE Store
        s2 == DropClosedRetired(s1, emission, additive)
    IN UpsertFeedTasks(s2, [epic \in {Feed} |-> emission], additive)

IngestGrouped(emission, additive) ==
    LET s1 == DropClosedRetired(Store, emission, additive)
        known == Children(s1, Feed)
        \* a repository with no sub-epic earns one by an item that is not dropped
        unseen == {i \in emission : Sub(Feed, UrlRepo[i]) \notin known}
        items == emission \ RetiredWithoutTask(s1, unseen)
        group == {Sub(Feed, UrlRepo[i]) : i \in items}
        itemsOf == [epic \in group |-> {i \in items : Sub(Feed, UrlRepo[i]) = epic}]
        s2 == UpsertFeedTasks([s1 EXCEPT !.epics = @ \cup group], itemsOf, additive)
    IN IF additive THEN s2
       ELSE WithoutStale(s2, [epic \in (known \ group) \cup {Feed} |-> {}])

\* index_existing: the row of an item under the parent; one in a role epic wins
\* over one in its groups, that over one on the parent, a later role over an
\* earlier.
RoleIndex(t) == CHOOSE n \in DOMAIN RoleOrder : RoleOrder[n] = t.at[2]
Precedence(t) == CASE Len(t.at) = 1 -> 0
                   [] Len(t.at) = 3 -> RoleIndex(t)
                   [] Len(t.at) = 2 -> Len(RoleOrder) + RoleIndex(t)
Existing(s, i) ==
    LET rows == {t \in FeedTasks(s, Subtree(s, Feed)) : t.item = i}
        Above(t, u) == \/ Precedence(t) > Precedence(u)
                       \/ Precedence(t) = Precedence(u) /\ t.id >= u.id
    IN {t \in rows : \A u \in rows : Above(t, u)}

\* The phases of ingest_role_routed: every move before any delete.
MoveNothing(s, target) == s     \* faulty: rows are not moved first
MovedToTargets(s, target) ==
    LET rows == UNION {Existing(s, i) : i \in DOMAIN target}
    IN Relinked(s, rows, [t \in rows |-> target[t.item]])

\* signals gives an emitted item's role, or "excluded" (route_signals,
\* excluded_from_reviews).
Wanted(emission, signals) == {i \in emission : signals[i] # "excluded"}

IngestRoleRouted(emission, signals, additive) ==
    LET s1 == DropClosedRetired([Store EXCEPT !.epics = @ \cup RoleEpics],
                                emission, additive)
        kept == Wanted(emission, signals)
        items == kept \ RetiredWithoutTask(s1, kept)
        target == [i \in items |-> Routed(Sub(Feed, signals[i]), UrlRepo[i])]
        itemsOf == [epic \in Range(target) |-> {i \in items : target[i] = epic}]
        s2 == MovedToTargets([s1 EXCEPT !.epics = @ \cup Range(target)], target)
        s3 == UpsertFeedTasks(s2, itemsOf, additive)
    IN IF additive THEN s3
       ELSE WithoutStale(s3, [epic \in Subtree(s3, Feed) |->
                                  IF epic = Feed THEN {} ELSE items])

\* ingest_into picks the strategy from the epic's own row.
IngestFeed(emission, signals, additive) ==
    /\ additive => "degraded" \in Ops /\ emission # {}
    /\ Commit(IF Reviews THEN IngestRoleRouted(emission, signals, additive)
              ELSE IF Feed \in grouped THEN IngestGrouped(emission, additive)
              ELSE IngestFlat(emission, additive))
    /\ source' = IF additive THEN source
                 ELSE [open |-> emission, wanted |-> Wanted(emission, signals)]
    /\ UNCHANGED <<grouped, setting>>

-----------------------------------------------------------------------------
(* People.                                                                    *)

\* create_task, of a task no feed made.
CreateManualTask(epic) ==
    /\ "manual task" \in Ops /\ epic \in epics
    /\ \A t \in tasks : t.item # Manual
    /\ LET at == Routed(epic, PathRepo[Manual])
       IN Commit([Store EXCEPT !.epics = @ \cup {at}, !.lastId = @ + 1,
                               !.tasks = @ \cup {Row(lastId + 1, Manual, at)}])
    /\ UNCHANGED <<grouped, source, setting>>

\* set_task_epic.
SetTaskEpic(t, epic) ==
    LET at == Routed(epic, PathRepo[t.item])
    IN /\ epic \in epics /\ at # t.at
       /\ IF Aside \in {at, t.at} THEN "move out" \in Ops ELSE "move" \in Ops
       /\ Commit(Relinked([Store EXCEPT !.epics = @ \cup {at}], {t}, [row \in {t} |-> at]))
       /\ UNCHANGED <<grouped, source, setting>>

FinishTask(t) ==
    /\ ~t.done
    /\ tasks' = (tasks \ {t}) \cup {[t EXCEPT !.done = TRUE]}
    /\ UNCHANGED <<epics, retired, grouped, lastId, source, setting>>

\* retire_task_if_feed_backed: under the feed epic, of a task a feed made.
RetiresNothing(rows) == {}     \* faulty: a deleted task comes back
Retires(rows) == ItemsOf({t \in rows : t.item # Manual /\ IsPrefix(Feed, t.at)})

DeleteTask(t) ==
    /\ t.done
    /\ tasks' = tasks \ {t} /\ retired' = retired \cup Retires({t})
    /\ UNCHANGED <<epics, grouped, lastId, source, setting>>

\* delete_epic of a sub-epic: all that is in it must be done.
DeleteEpic(epic) ==
    LET rows == {t \in tasks : t.at \in Under(epic)}
    IN /\ "delete epic" \in Ops /\ epic \in epics \ {Feed, Aside}
       /\ \A t \in rows : t.done
       /\ tasks' = tasks \ rows /\ retired' = retired \cup Retires(rows)
       /\ epics' = epics \ Under(epic) /\ grouped' = grouped \ Under(epic)
       /\ UNCHANGED <<lastId, source, setting>>

\* ToggleGroupByRepo flips the flag; for an epic with no feed command the board
\* then asks for regroup_epic or flatten_epic, a call of its own.
ToggleGroupByRepo(epic) ==
    /\ "toggle" \in Ops /\ epic \in epics \cap Grouping
    /\ grouped' = (grouped \cup {epic}) \ (grouped \cap {epic})
    /\ UNCHANGED <<epics, tasks, retired, lastId, source, setting>>

RegroupEpic(epic) ==
    /\ epic \in epics \cap grouped \cap RoleEpics
    /\ LET rows == {t \in tasks : t.at = epic}
           target == [t \in rows |-> Routed(epic, PathRepo[t.item])]
       IN /\ rows # {}
          /\ Commit(Relinked([Store EXCEPT !.epics = @ \cup Range(target)], rows, target))
    /\ UNCHANGED <<grouped, source, setting>>

FlattenEpic(epic) ==
    /\ epic \in (epics \cap RoleEpics) \ grouped /\ Children(Store, epic) # {}
    /\ Commit(Flattened(Store, epic))
    /\ UNCHANGED <<grouped, source, setting>>

IngestNext ==
    \/ \E emission \in SUBSET setting.items, additive \in BOOLEAN :
           \E signals \in [emission -> IF Reviews THEN Roles \cup {"excluded"} ELSE {"my"}] :
               IngestFeed(emission, signals, additive)
    \/ \E epic \in epics :
           \/ CreateManualTask(epic) \/ DeleteEpic(epic) \/ ToggleGroupByRepo(epic)
           \/ RegroupEpic(epic) \/ FlattenEpic(epic)
    \/ \E t \in tasks : FinishTask(t) \/ DeleteTask(t)
                        \/ \E epic \in epics : SetTaskEpic(t, epic)

IngestSpec == IngestInit /\ [][IngestNext]_ingestVars

-----------------------------------------------------------------------------
(* Properties.                                                                *)

\* A task that is taken out of the feed's subtree leaves its item without one
\* there, and may come back beside the next; a flat feed that becomes grouped
\* while its source is degraded leaves the old rows where they were.
OnePlace ==
    /\ "move out" \notin Ops
    /\ Reviews \/ ~({"degraded", "toggle"} \subseteq Ops)

\* No two feed tasks of the subtree are of one item (Feed Task Identity).
OneTaskPerItem ==
    /\ IngestTypeOK
    /\ OnePlace =>
           \A t, u \in tasks :
               /\ t.item = u.item /\ t.item # Manual
               /\ IsPrefix(Feed, t.at) /\ IsPrefix(Feed, u.at)
               => t = u

\* The refinement: the subtree shows what FeedMirror promises, what the source
\* reports but for what people deleted, by whichever strategy and across a change
\* of it; a deleted task stays away while its item is open, and returns when the
\* item does.
Shown == ItemsOf({t \in tasks : t.item # Manual /\ IsPrefix(Feed, t.at)})
Mirror == INSTANCE FeedMirror WITH shown <- Shown
MirrorsTheFeed == Mirror!Init /\ [][OnePlace => Mirror!Next]_(Mirror!vars)

\* A task is never replaced by another of its item: a change of role, of
\* grouping or of place is a move, so a running agent keeps its worktree.
ReplacesNoRow ==
    \A i \in Item :
        LET before == {t.id : t \in {t \in tasks : t.item = i}}
            after == {t.id : t \in {t \in tasks' : t.item = i}}
        IN before # {} /\ after # {} => before \cap after # {}

\* A task no feed made is removed by a person only, when it is done.
KeepsManualTasks ==
    \A t \in tasks : t.item = Manual => (\E u \in tasks' : u.id = t.id) \/ t.done

\* The reconcile of a reviews parent moves tasks across any change of grouping;
\* that of another feed gives an item a new task in its group.
FeedRowsStay ==
    [][/\ OnePlace /\ (Reviews \/ "toggle" \notin Ops) => ReplacesNoRow
       /\ KeepsManualTasks]_ingestVars
=============================================================================
