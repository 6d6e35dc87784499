-------------------------- MODULE FeedIngest_proofs --------------------------
(***************************************************************************)
(* Proofs about the reconciles of feeds, for any items, repositories and   *)
(* emissions, any routing signals, and any setting of what people do.      *)
(*                                                                         *)
(* The invariant is that each item has one row, that the row is under the  *)
(* feed epic, and that no item shown is retired.  A reconcile keeps it     *)
(* because it brings an item's row to the epic its upsert looks in before  *)
(* it looks, and drops rows only after that: the section on strategies     *)
(* shows this of each of the three, and the actions then follow from it.   *)
(* The operators' lemmas speak of any store a reducer may have made.       *)
(***************************************************************************)
EXTENDS FeedIngest, FiniteSetTheorems, TLAPS

(* The names of epics: what a path may be.                                 *)
Name == Roles \cup Repo \cup {"feed", "aside"}
Paths == {Feed, Aside} \cup RoleEpics \cup {Sub(e, r) : e \in Grouping, r \in Repo}

(* A sub-epic is one name longer, under the same first name.               *)
LEMMA SubFacts ==
    ASSUME NEW e \in Seq(Name), NEW q \in Name
    PROVE  /\ Sub(e, q) \in Seq(Name) /\ Len(Sub(e, q)) = Len(e) + 1
           /\ Len(e) > 0 => Sub(e, q)[1] = e[1]
BY DEF Sub

(* A prefix, read element by element.                                      *)
LEMMA PrefixOfSeq ==
    ASSUME NEW s \in Seq(Name), NEW t \in Seq(Name)
    PROVE  IsPrefix(s, t) <=> Len(s) <= Len(t) /\ \A n \in 1..Len(s) : s[n] = t[n]
BY DEF IsPrefix

(* The feed epic and the epic aside are two.                               *)
LEMMA RootFacts ==
    /\ Feed \in Seq(Name) /\ Len(Feed) = 1 /\ Feed[1] = "feed"
    /\ Aside \in Seq(Name) /\ Len(Aside) = 1 /\ Aside[1] = "aside"
    /\ Feed # Aside
<1>1. Feed \in Seq(Name) /\ Aside \in Seq(Name)
    BY DEF Feed, Aside, Name
<1>2. Len(Feed) = 1 /\ Len(Aside) = 1
    BY DEF Feed, Aside
<1>3. Feed[1] = "feed" /\ Aside[1] = "aside"
    BY DEF Feed, Aside
<1> QED BY <1>1, <1>2, <1>3

(* A role sub-epic is directly below the feed epic.                        *)
LEMMA RoleEpicFacts ==
    ASSUME NEW e \in RoleEpics
    PROVE  e \in Seq(Name) /\ Len(e) = 2 /\ e[1] = "feed"
<1>1. PICK r \in Roles : e = Sub(Feed, r)
    BY DEF RoleEpics
<1>2. r \in Name /\ Feed \in Seq(Name) /\ Len(Feed) = 1 /\ Feed[1] = "feed"
    BY RootFacts DEF Name
<1>3. e \in Seq(Name) /\ Len(e) = Len(Feed) + 1 /\ (Len(Feed) > 0 => e[1] = Feed[1])
    BY <1>1, <1>2, SubFacts
<1> QED BY <1>2, <1>3

(* What may be grouped is the feed epic, or a role of a reviews parent.    *)
LEMMA GroupingFacts ==
    ASSUME NEW e \in Grouping
    PROVE  /\ e \in Seq(Name) /\ e[1] = "feed"
           /\ Len(e) = IF Reviews THEN 2 ELSE 1
           /\ ~Reviews => e = Feed
           /\ Reviews => e \in RoleEpics
BY RootFacts, RoleEpicFacts DEF Grouping

(* An epic is in the feed's subtree unless it is the one aside.            *)
LEMMA PathFacts ==
    ASSUME NEW e \in Paths
    PROVE  /\ e \in Seq(Name) /\ Len(e) \in {1, 2, 3}
           /\ e \in {Feed, Aside} \/ Len(e) \in {2, 3}
           /\ e = Aside \/ e[1] = "feed"
           /\ e \notin {Feed, Aside} /\ ~Reviews => Len(e) = 2
<1>1. CASE e \in {Feed, Aside}
    BY <1>1, RootFacts
<1>2. CASE e \in RoleEpics
    BY <1>2, RoleEpicFacts
<1>3. CASE e \in {Sub(p, r) : p \in Grouping, r \in Repo}
    <2>1. PICK p \in Grouping, r \in Repo : e = Sub(p, r)
        BY <1>3
    <2>2. r \in Name
        BY DEF Name
    <2>3. Len(p) = 1 \/ Len(p) = 2
        BY <2>1, GroupingFacts
    <2>4. p \in Seq(Name) /\ p[1] = "feed" /\ (~Reviews => Len(p) = 1)
        BY <2>1, GroupingFacts
    <2>5. e \in Seq(Name) /\ Len(e) = Len(p) + 1 /\ (Len(p) > 0 => e[1] = p[1])
        BY <2>1, <2>2, <2>4, SubFacts
    <2>6. (~Reviews => Len(p) = 1) /\ Len(e) = Len(p) + 1
        BY <2>4, <2>5
    <2>7. (Len(e) = 2 \/ Len(e) = 3) /\ (~Reviews => Len(e) = 2)
        <3>1. Len(p) = 1 => Len(e) = 2
            BY <2>6
        <3>2. Len(p) = 2 => Len(e) = 3
            BY <2>6
        <3> QED BY <2>3, <2>6, <3>1, <3>2
    <2>8. e[1] = "feed"
        BY <2>3, <2>4, <2>5
    <2> QED BY <2>5, <2>7, <2>8
<1> QED BY <1>1, <1>2, <1>3 DEF Paths

(* All epics but the one aside are in the subtree of the feed.             *)
LEMMA InTheFeed ==
    ASSUME NEW e \in Paths
    PROVE  IsPrefix(Feed, e) <=> e # Aside
<1>1. IsPrefix(Feed, e) <=> Len(Feed) <= Len(e) /\ \A n \in 1..Len(Feed) : Feed[n] = e[n]
    BY RootFacts, PathFacts, PrefixOfSeq
<1>2. IsPrefix(Feed, e) <=> e[1] = "feed"
    BY <1>1, RootFacts, PathFacts
<1> QED BY <1>2, RootFacts, PathFacts

(* What is below a sub-epic is neither of the epics at the top.            *)
LEMMA NotBelow ==
    ASSUME NEW e \in Paths \ {Feed, Aside}
    PROVE  ~IsPrefix(e, Feed) /\ ~IsPrefix(e, Aside) /\ IsPrefix(e, e)
<1>1. Len(e) > 1
    BY PathFacts
<1> QED BY <1>1, PathFacts, RootFacts, PrefixOfSeq

(* What the children of the feed epic and of a role are.                   *)
LEMMA ChildFacts ==
    ASSUME NEW s, s.epics \subseteq Paths, NEW root \in Paths, {Feed, Aside} \subseteq s.epics
    PROVE  /\ Children(s, root) \subseteq s.epics \ {Feed, Aside, root}
           /\ root = Feed /\ ~Reviews => Children(s, root) = s.epics \ {Feed, Aside}
<1>1. \A e \in Children(s, root) : Len(e) = Len(root) + 1 /\ e \in s.epics
    BY DEF Children
<1>2. Children(s, root) \subseteq s.epics \ {Feed, Aside, root}
    <2> SUFFICES ASSUME NEW e \in Children(s, root) PROVE e \in s.epics \ {Feed, Aside, root}
        OBVIOUS
    <2>1. Len(root) = 1 \/ Len(root) = 2 \/ Len(root) = 3
        BY PathFacts
    <2>2. Len(e) = Len(root) + 1 /\ e \in s.epics
        BY <1>1
    <2>3. Len(e) # 1 /\ Len(e) # Len(root)
        <3>1. CASE Len(root) = 1
            BY <2>2, <3>1
        <3>2. CASE Len(root) = 2
            BY <2>2, <3>2
        <3>3. CASE Len(root) = 3
            BY <2>2, <3>3
        <3> QED BY <2>1, <3>1, <3>2, <3>3
    <2>4. e # Feed /\ e # Aside
        BY <2>3, RootFacts
    <2> QED BY <2>2, <2>3, <2>4
<1>3. ASSUME root = Feed, ~Reviews, NEW e \in s.epics \ {Feed, Aside}
      PROVE  e \in Children(s, root)
    <2>1. e \in Paths /\ Len(e) = 2
        BY <1>3, PathFacts
    <2>2. IsPrefix(Feed, e)
        BY <2>1, <1>3, InTheFeed
    <2> QED BY <1>3, <2>1, <2>2, RootFacts DEF Children
<1> QED BY <1>2, <1>3

(* The subtree of the feed is every epic but the one aside.                *)
LEMMA SubtreeOfTheFeed ==
    ASSUME NEW s, s.epics \subseteq Paths
    PROVE  Subtree(s, Feed) = s.epics \ {Aside}
BY InTheFeed DEF Subtree

(* Where a task is put is an epic of the feed's subtree, or where it was.  *)
LEMMA RoutedFacts ==
    ASSUME grouped \subseteq Grouping, NEW e \in Paths, NEW r \in Repo
    PROVE  /\ Routed(e, r) \in Paths
           /\ e # Aside <=> Routed(e, r) # Aside
           /\ e = Feed <=> Routed(e, r) = Feed
<1>1. CASE e \notin grouped \cap RoleEpics
    BY <1>1 DEF Routed
<1>2. CASE e \in grouped \cap RoleEpics
    <2>1. Routed(e, r) = Sub(e, r) /\ Sub(e, r) \in Paths
        BY <1>2 DEF Routed, Paths
    <2>2. Len(e) = 2 /\ e \in Seq(Name) /\ r \in Name
        BY <1>2, RoleEpicFacts DEF Name
    <2>3. Len(Sub(e, r)) = Len(e) + 1
        BY <2>2, SubFacts
    <2>4. Sub(e, r) # Feed /\ Sub(e, r) # Aside /\ e # Feed /\ e # Aside
        BY <2>2, <2>3, RootFacts
    <2> QED BY <2>1, <2>4
<1> QED BY <1>1, <1>2

-----------------------------------------------------------------------------
(* What the steps of a reducer make of the rows.                           *)

Rows == [id : Nat, item : Item \cup {Manual}, at : Paths, done : BOOLEAN]
Stores == [epics : SUBSET Paths, tasks : SUBSET Rows, retired : SUBSET Item, lastId : Nat]

Sound(s) ==
    /\ s \in Stores /\ {Feed, Aside} \subseteq s.epics
    /\ \A t \in s.tasks : t.id \in 1..s.lastId /\ t.at \in s.epics

FeedRow(t) == t.item # Manual
Same(t, u) == t.id = u.id /\ t.item = u.item /\ t.done = u.done

(* The rows of s2 are those of s, each where at puts it.                   *)
Moved(s, s2, at) ==
    /\ \A u \in s2.tasks : \E t \in s.tasks : Same(t, u) /\ u.at = at[t]
    /\ \A t \in s.tasks : \E u \in s2.tasks : Same(t, u) /\ u.at = at[t]

(* A finite set can be numbered, so the rows an ingest writes have ids.    *)
LEMMA Numbering ==
    ASSUME NEW S, IsFiniteSet(S)
    PROVE  /\ Cardinality(S) \in Nat
           /\ Numbered(S) \in [S -> 1..Cardinality(S)]
<1> DEFINE n == Cardinality(S)
           Numbers(f) == IsInjective(f)
<1>1. n \in Nat
    BY FS_CardinalityType
<1>2. IsFiniteSet(1..n) /\ Cardinality(1..n) = n
    BY <1>1, FS_Interval
<1>3. ExistsBijection(S, 1..n)
    BY <1>2, FS_SameCardinalityBij
<1>4. \E f \in [S -> 1..n] : Numbers(f)
    BY <1>3 DEF ExistsBijection, Bijection, Injection
<1>5. Numbered(S) = CHOOSE f \in [S -> 1..n] : Numbers(f)
    BY DEF Numbered
<1>6. Numbered(S) \in [S -> 1..n]
    <2> HIDE DEF Numbers, n
    <2> QED BY <1>4, <1>5
<1> QED BY <1>1, <1>6

(* Moved rows are the rows there were, each at its target.                 *)
LEMMA RelinkedRows ==
    ASSUME NEW s, Sound(s), NEW rows \in SUBSET s.tasks,
           NEW target \in [rows -> s.epics], NEW s2, s2 = Relinked(s, rows, target)
    PROVE  /\ Sound(s2)
           /\ s2.epics = s.epics /\ s2.retired = s.retired /\ s2.lastId = s.lastId
           /\ Moved(s, s2, [t \in s.tasks |-> IF t \in rows THEN target[t] ELSE t.at])
<1> DEFINE new == {[t EXCEPT !.at = target[t]] : t \in rows}
<1>1. s2 = [s EXCEPT !.tasks = (@ \ rows) \cup new]
    BY DEF Relinked
<1>2. s \in Stores /\ s.tasks \subseteq Rows /\ s.epics \subseteq Paths
    BY DEF Sound, Stores
<1>3. \A u \in new : \E t \in rows : u = [t EXCEPT !.at = target[t]]
    OBVIOUS
<1>4. \A t \in rows : /\ [t EXCEPT !.at = target[t]] \in new
                      /\ [t EXCEPT !.at = target[t]] \in Rows
                      /\ Same(t, [t EXCEPT !.at = target[t]])
                      /\ [t EXCEPT !.at = target[t]].at = target[t]
    BY <1>2 DEF Rows, Same
<1>5. /\ s2.tasks = (s.tasks \ rows) \cup new
      /\ s2.epics = s.epics /\ s2.retired = s.retired /\ s2.lastId = s.lastId
    BY <1>1, <1>2 DEF Stores
<1> HIDE DEF new
<1>6. new \subseteq Rows
    BY <1>3, <1>4
<1>7. s2 \in Stores
    BY <1>1, <1>2, <1>6 DEF Stores
<1>8. ASSUME NEW u \in s2.tasks
      PROVE  \E t \in s.tasks :
                 Same(t, u) /\ u.at = (IF t \in rows THEN target[t] ELSE t.at)
    <2>1. CASE u \in s.tasks \ rows
        BY <2>1 DEF Same
    <2>2. CASE u \in new
        <3>1. PICK t \in rows : u = [t EXCEPT !.at = target[t]]
            BY <2>2, <1>3
        <3>2. Same(t, u) /\ u.at = target[t] /\ t \in s.tasks
            BY <3>1, <1>4
        <3> QED BY <3>2
    <2> QED BY <2>1, <2>2, <1>5
<1>9. \A t \in s.tasks : \E u \in s2.tasks :
          Same(t, u) /\ u.at = (IF t \in rows THEN target[t] ELSE t.at)
    BY <1>4, <1>5 DEF Same
<1>10. \A u \in s2.tasks : u.id \in 1..s2.lastId /\ u.at \in s2.epics
    BY <1>5, <1>8 DEF Sound, Same
<1>11. Sound(s2)
    BY <1>5, <1>7, <1>10 DEF Sound
<1> QED BY <1>5, <1>8, <1>9, <1>11 DEF Moved

(* What an upsert inserts: one row for each pair of an epic and an item of *)
(* it that has none and is not retired.                                    *)
LEMMA InsertedRows ==
    ASSUME NEW s, Sound(s), NEW items, NEW D, D \subseteq s.epics, IsFiniteSet(D),
           items \in [D -> SUBSET Item], NEW s2, s2 = Inserted(s, items)
    PROVE  /\ Sound(s2)
           /\ s2.epics = s.epics /\ s2.retired = s.retired /\ s.tasks \subseteq s2.tasks
           /\ \A u \in s2.tasks \ s.tasks :
                  /\ u.at \in D /\ u.item \in items[u.at] \ s.retired
                  /\ \A t \in s.tasks : t.at = u.at => t.item # u.item
           /\ \A u, v \in s2.tasks \ s.tasks : u.at = v.at /\ u.item = v.item => u = v
           /\ \A e \in D : \A i \in items[e] \ s.retired :
                  \E u \in s2.tasks : u.at = e /\ u.item = i
<1> DEFINE New(epic) == items[epic] \ (s.retired \cup ItemsOf({t \in s.tasks : t.at = epic}))
           missing == UNION {{epic} \X New(epic) : epic \in D}
           At(new) == Row(s.lastId + Numbered(missing)[new], new[2], new[1])
           rows == {At(new) : new \in missing}
<1>1. s2 = [s EXCEPT !.tasks = @ \cup rows, !.lastId = @ + Cardinality(missing)]
    BY DEF Inserted
<1>2. s \in Stores /\ s.tasks \subseteq Rows /\ s.epics \subseteq Paths /\ s.lastId \in Nat
    BY DEF Sound, Stores
<1>3. ASSUME NEW new \in missing
      PROVE  new = <<new[1], new[2]>> /\ new[1] \in D /\ new[2] \in New(new[1])
    <2>1. PICK e \in D : new \in {e} \X New(e)
        OBVIOUS
    <2> HIDE DEF New
    <2> QED BY <2>1
<1>4. \A e \in D : \A i \in New(e) : <<e, i>> \in missing
    OBVIOUS
<1>5. missing \subseteq D \X Item
    <2>1. \A e \in D : New(e) \subseteq Item
        OBVIOUS
    <2> HIDE DEF missing, New
    <2> QED BY <2>1, <1>3
<1>6. IsFiniteSet(missing)
    <2>1. IsFiniteSet(D \X Item)
        BY FS_Product, IngestAssumption
    <2> HIDE DEF missing
    <2> QED BY <2>1, <1>5, FS_Subset
<1>7. /\ \A e, i : i \in New(e) <=>
             /\ i \in items[e] \ s.retired
             /\ \A t \in s.tasks : t.at = e => t.item # i
    BY DEF ItemsOf
<1>8. rows = {At(new) : new \in missing}
    OBVIOUS
<1> HIDE DEF missing, New
<1>9. Cardinality(missing) \in Nat /\ Numbered(missing) \in [missing -> 1..Cardinality(missing)]
    BY <1>6, Numbering
<1>10. ASSUME NEW new \in missing
       PROVE  /\ At(new) \in Rows
              /\ At(new).id \in 1..(s.lastId + Cardinality(missing))
              /\ At(new).at = new[1] /\ At(new).item = new[2] /\ new = <<new[1], new[2]>>
              /\ new[1] \in D /\ new[2] \in New(new[1])
    <2>1. /\ new = <<new[1], new[2]>> /\ new[1] \in D /\ new[2] \in New(new[1])
          /\ new[2] \in Item
        BY <1>3, <1>7
    <2>2. Numbered(missing)[new] \in 1..Cardinality(missing)
        BY <1>9
    <2>3. s.lastId + Numbered(missing)[new] \in 1..(s.lastId + Cardinality(missing))
        BY <2>2, <1>2, <1>9
    <2> QED BY <2>1, <2>3, <1>2 DEF Row, Rows
<1> HIDE DEF At
<1>11. \A u \in rows : \E new \in missing : u = At(new)
    BY <1>8
<1>12. \A new \in missing : At(new) \in rows
    BY <1>8
<1> HIDE DEF rows
<1>13. /\ s2.tasks = s.tasks \cup rows /\ s2.lastId = s.lastId + Cardinality(missing)
       /\ s2.epics = s.epics /\ s2.retired = s.retired
    BY <1>1, <1>2 DEF Stores
<1>14. s2 \in Stores
    <2>1. s.tasks \cup rows \subseteq Rows /\ s.lastId + Cardinality(missing) \in Nat
        BY <1>2, <1>9, <1>10, <1>11
    <2> QED BY <2>1, <1>1, <1>2 DEF Stores
<1>15. Sound(s2)
    BY <1>2, <1>9, <1>10, <1>11, <1>13, <1>14 DEF Sound
<1>16. \A u \in s2.tasks \ s.tasks :
           /\ u.at \in D /\ u.item \in items[u.at] \ s.retired
           /\ \A t \in s.tasks : t.at = u.at => t.item # u.item
    BY <1>7, <1>10, <1>11, <1>13
<1>17. \A u, v \in s2.tasks \ s.tasks : u.at = v.at /\ u.item = v.item => u = v
    BY <1>10, <1>11, <1>13
<1>18. ASSUME NEW e \in D, NEW i \in items[e] \ s.retired
       PROVE  \E u \in s2.tasks : u.at = e /\ u.item = i
    <2>1. CASE i \in New(e)
        <3>1. <<e, i>> \in missing
            BY <2>1, <1>4
        <3> QED BY <3>1, <1>10, <1>12, <1>13
    <2>2. CASE i \notin New(e)
        BY <2>2, <1>7, <1>13
    <2> QED BY <2>1, <2>2
<1> QED BY <1>13, <1>15, <1>16, <1>17, <1>18

(* What a stale delete leaves.                                             *)
LEMMA KeptRows ==
    ASSUME NEW s, Sound(s), NEW keep, NEW D, keep \in [D -> SUBSET Item],
           NEW s2, s2 = WithoutStale(s, keep)
    PROVE  /\ Sound(s2)
           /\ s2.epics = s.epics /\ s2.retired = s.retired /\ s2.lastId = s.lastId
           /\ \A t : t \in s2.tasks <=>
                  t \in s.tasks /\ (FeedRow(t) /\ t.at \in D => t.item \in keep[t.at])
<1>1. s2 = [s EXCEPT !.tasks = @ \ {t \in FeedTasks(s, D) : t.item \notin keep[t.at]}]
    BY DEF WithoutStale
<1>2. s \in Stores
    BY DEF Sound
<1>3. /\ s2.tasks = s.tasks \ {t \in FeedTasks(s, D) : t.item \notin keep[t.at]}
      /\ s2.epics = s.epics /\ s2.retired = s.retired /\ s2.lastId = s.lastId
    BY <1>1, <1>2 DEF Stores
<1>4. s2 \in Stores
    BY <1>1, <1>2 DEF Stores
<1>5. Sound(s2)
    BY <1>3, <1>4 DEF Sound
<1> QED BY <1>3, <1>5 DEF FeedTasks, FeedRow

(* What an upsert leaves and inserts, in the epics D of items.             *)
Upserted(s, s2, D, items, additive) ==
    /\ s2.epics = s.epics /\ s2.retired = s.retired
    /\ \A t \in s.tasks :
           additive \/ ~FeedRow(t) \/ t.at \notin D \/ t.item \in items[t.at] => t \in s2.tasks
    /\ \A u \in s2.tasks :
           FeedRow(u) /\ u.at \in D => (u \in s.tasks /\ additive) \/ u.item \in items[u.at]
    /\ \A u \in s2.tasks \ s.tasks :
           /\ u.at \in D /\ u.item \in items[u.at] \ s.retired
           /\ \A t \in s.tasks : t.at = u.at => t.item # u.item
    /\ \A u, v \in s2.tasks \ s.tasks : u.at = v.at /\ u.item = v.item => u = v
    /\ \A e \in D : \A i \in items[e] \ s.retired : \E u \in s2.tasks : u.at = e /\ u.item = i

(* An upsert leaves and inserts just that.                                 *)
LEMMA UpsertedRows ==
    ASSUME NEW s, Sound(s), NEW items, NEW D, D \subseteq s.epics, IsFiniteSet(D),
           items \in [D -> SUBSET Item], NEW additive \in BOOLEAN,
           NEW s2, s2 = UpsertFeedTasks(s, items, additive)
    PROVE  Sound(s2) /\ Upserted(s, s2, D, items, additive)
<1> DEFINE s1 == Inserted(s, items)
<1>1. /\ Sound(s1)
      /\ s1.epics = s.epics /\ s1.retired = s.retired /\ s.tasks \subseteq s1.tasks
      /\ \A u \in s1.tasks \ s.tasks :
             /\ u.at \in D /\ u.item \in items[u.at] \ s.retired
             /\ \A t \in s.tasks : t.at = u.at => t.item # u.item
      /\ \A u, v \in s1.tasks \ s.tasks : u.at = v.at /\ u.item = v.item => u = v
      /\ \A e \in D : \A i \in items[e] \ s.retired :
             \E u \in s1.tasks : u.at = e /\ u.item = i
    BY InsertedRows
<1> HIDE DEF s1
<1>2. CASE additive
    <2>1. s2 = s1
        BY <1>2 DEF UpsertFeedTasks, s1
    <2> QED BY <2>1, <1>1, <1>2 DEF Upserted
<1>3. CASE ~additive
    <2>1. s2 = WithoutStale(s1, items)
        BY <1>3 DEF UpsertFeedTasks, s1
    <2>2. /\ Sound(s2)
          /\ s2.epics = s1.epics /\ s2.retired = s1.retired /\ s2.lastId = s1.lastId
          /\ \A t : t \in s2.tasks <=>
                 t \in s1.tasks /\ (FeedRow(t) /\ t.at \in D => t.item \in items[t.at])
        BY <2>1, <1>1, KeptRows
    <2> QED BY <2>2, <1>1, <1>3 DEF Upserted
<1> QED BY <1>2, <1>3

-----------------------------------------------------------------------------
(* One task of an item.                                                    *)

One(s) == \A t, u \in s.tasks : FeedRow(t) /\ t.item = u.item => t = u
Inside(s) == \A t \in s.tasks : FeedRow(t) => t.at # Aside
ShownIn(s) == {t.item : t \in {t \in s.tasks : FeedRow(t)}}
Settled(s) == One(s) /\ Inside(s) /\ ShownIn(s) \cap s.retired = {}

KeepsManual(s, s2) == \A t \in s.tasks : ~FeedRow(t) => \E u \in s2.tasks : Same(t, u)
KeepsRows(s, s2) ==
    \A t \in s.tasks, u \in s2.tasks : FeedRow(t) /\ t.item = u.item => t.id = u.id

(* What FeedMirror promises of an emission.                                *)
Mirrored(s, s2, open, wanted, additive) ==
    /\ s2.retired = IF additive THEN s.retired ELSE s.retired \cap open
    /\ ShownIn(s2) = IF additive THEN ShownIn(s) \cup (wanted \ s.retired)
                     ELSE {i \in wanted : i \in ShownIn(s) \/ i \notin s.retired}

(* A row that is moved is the row it was.                                  *)
LEMMA MovedIsKept ==
    ASSUME NEW s, Sound(s), NEW s2, Sound(s2), NEW at, Moved(s, s2, at)
    PROVE  /\ KeepsManual(s, s2) /\ ShownIn(s2) = ShownIn(s)
           /\ One(s) => One(s2) /\ KeepsRows(s, s2)
           /\ Inside(s) /\ (\A t \in s.tasks : FeedRow(t) => at[t] # Aside) => Inside(s2)
<1>1. KeepsManual(s, s2) /\ ShownIn(s2) = ShownIn(s)
    BY DEF Moved, KeepsManual, ShownIn, FeedRow, Same
<1>2. ASSUME One(s) PROVE One(s2)
    <2> SUFFICES ASSUME NEW u \in s2.tasks, NEW v \in s2.tasks, FeedRow(u), u.item = v.item
                 PROVE  u = v
        BY DEF One
    <2>1. PICK t \in s.tasks : Same(t, u) /\ u.at = at[t]
        BY DEF Moved
    <2>2. PICK w \in s.tasks : Same(w, v) /\ v.at = at[w]
        BY DEF Moved
    <2>3. t = w
        BY <1>2, <2>1, <2>2 DEF One, Same, FeedRow
    <2>4. u \in Rows /\ v \in Rows
        BY DEF Sound, Stores
    <2> QED BY <2>1, <2>2, <2>3, <2>4 DEF Rows, Same
<1>3. One(s) => KeepsRows(s, s2)
    BY DEF Moved, One, KeepsRows, FeedRow, Same
<1>4. (\A t \in s.tasks : FeedRow(t) => at[t] # Aside) => Inside(s2)
    BY DEF Moved, Inside, FeedRow, Same
<1> QED BY <1>1, <1>2, <1>3, <1>4

(* An upsert makes no second row of an item whose rows are all in one      *)
(* place, and what is dropped after it makes none either.                  *)
LEMMA UpsertedOnce ==
    ASSUME NEW s, NEW s2, NEW D, NEW items, NEW additive, Upserted(s, s2, D, items, additive),
           One(s), NEW s3, s3.tasks \subseteq s2.tasks,
           \A u, v \in s3.tasks : FeedRow(u) /\ u.item = v.item /\ u \notin s.tasks => u.at = v.at
    PROVE  One(s3)
<1> SUFFICES ASSUME NEW u \in s3.tasks, NEW v \in s3.tasks, FeedRow(u), u.item = v.item
             PROVE  u = v
    BY DEF One
<1>1. u \in s2.tasks /\ v \in s2.tasks /\ FeedRow(v)
    BY DEF FeedRow
<1>2. CASE u \in s.tasks /\ v \in s.tasks
    BY <1>2 DEF One
<1>3. CASE u \notin s.tasks
    <2>1. u.at = v.at
        BY <1>3
    <2> QED BY <1>1, <1>3, <2>1 DEF Upserted
<1>4. CASE v \notin s.tasks
    <2>1. u.at = v.at
        BY <1>1, <1>4
    <2> QED BY <1>1, <1>4, <2>1 DEF Upserted
<1> QED BY <1>2, <1>3, <1>4

(* Groups left empty go, and what was in them is at their parent.          *)
LEMMA FlattenedRows ==
    ASSUME NEW s, Sound(s), NEW root \in s.epics, NEW s2, s2 = Flattened(s, root)
    PROVE  /\ Sound(s2)
           /\ s2.epics = s.epics \ Children(s, root)
           /\ s2.retired = s.retired /\ s2.lastId = s.lastId
           /\ Moved(s, s2, [t \in s.tasks |-> IF t.at \in Children(s, root) THEN root ELSE t.at])
<1> DEFINE rows == {t \in s.tasks : t.at \in Children(s, root)}
           target == [t \in rows |-> root]
           s1 == Relinked(s, rows, target)
           at == [t \in s.tasks |-> IF t \in rows THEN target[t] ELSE t.at]
<1>1. /\ Sound(s1) /\ s1.epics = s.epics /\ s1.retired = s.retired /\ s1.lastId = s.lastId
      /\ Moved(s, s1, at)
    <2>1. rows \in SUBSET s.tasks /\ target \in [rows -> s.epics]
        OBVIOUS
    <2> HIDE DEF rows, target
    <2> QED BY <2>1, RelinkedRows
<1>2. s2 = [s1 EXCEPT !.epics = @ \ Children(s, root)]
    BY DEF Flattened
<1>3. at = [t \in s.tasks |-> IF t.at \in Children(s, root) THEN root ELSE t.at]
    OBVIOUS
<1> HIDE DEF s1
<1>4. /\ s2.tasks = s1.tasks /\ s2.epics = s1.epics \ Children(s, root)
      /\ s2.retired = s1.retired /\ s2.lastId = s1.lastId /\ s2 \in Stores
    BY <1>1, <1>2 DEF Sound, Stores
<1>5. s.epics \subseteq Paths /\ {Feed, Aside} \subseteq s.epics
    BY DEF Sound, Stores
<1>6. Children(s, root) \subseteq s.epics \ {Feed, Aside, root}
    BY <1>5, ChildFacts
<1>7. ASSUME NEW u \in s2.tasks PROVE u.at \notin Children(s, root)
    <2>1. PICK t \in s.tasks : u.at = at[t]
        BY <1>1, <1>4 DEF Moved
    <2> QED BY <2>1, <1>6
<1>8. Sound(s2)
    BY <1>1, <1>4, <1>5, <1>6, <1>7 DEF Sound
<1>9. Moved(s, s2, at)
    BY <1>1, <1>4 DEF Moved
<1> QED BY <1>1, <1>3, <1>4, <1>8, <1>9

-----------------------------------------------------------------------------
(* The three strategies of a reconcile.                                    *)

IngestTypes ==
    /\ setting \in IngestSettings /\ Sound(Store) /\ lastId <= MaxTasks
    /\ grouped \subseteq Grouping /\ (grouped # {} => "toggle" \in Ops)

(* The store, as the variables have it.                                    *)
LEMMA StoreFields ==
    /\ Store.epics = epics /\ Store.tasks = tasks
    /\ Store.retired = retired /\ Store.lastId = lastId
BY DEF Store

(* Items that closed are no longer retired; nothing else changes.          *)
LEMMA DroppedRetired ==
    ASSUME NEW s, Sound(s), NEW open, NEW s2, s2 = [s EXCEPT !.retired = @ \cap open]
    PROVE  /\ Sound(s2)
           /\ s2.epics = s.epics /\ s2.tasks = s.tasks /\ s2.lastId = s.lastId
           /\ s2.retired = s.retired \cap open
<1>1. s \in Stores
    BY DEF Sound
<1>2. /\ s2 \in Stores /\ s2.epics = s.epics /\ s2.tasks = s.tasks /\ s2.lastId = s.lastId
      /\ s2.retired = s.retired \cap open
    BY <1>1 DEF Stores
<1> QED BY <1>2 DEF Sound

(* A flat reconcile: all rows come home first, so each item's row is where *)
(* the upsert looks for it.                                                *)
LEMMA FlatIngest ==
    ASSUME IngestTypes, ~Reviews, NEW emission \in SUBSET Item, NEW additive \in BOOLEAN,
           NEW s2, s2 = IngestFlat(emission, additive)
    PROVE  /\ Sound(s2) /\ KeepsManual(Store, s2)
           /\ Settled(Store) => /\ Settled(s2) /\ KeepsRows(Store, s2)
                                /\ Mirrored(Store, s2, emission, emission, additive)
<1> DEFINE s0 == IF Children(Store, Feed) # {} THEN Flattened(Store, Feed) ELSE Store
           s1 == DropClosedRetired(s0, emission, additive)
           items == [epic \in {Feed} |-> emission]
           at == [t \in Store.tasks |-> IF t.at \in Children(Store, Feed) THEN Feed ELSE t.at]
<1>1. Sound(Store) /\ Feed \in Store.epics /\ Feed \in Paths
    BY DEF IngestTypes, Sound, Paths
<1>2. Children(Store, Feed) = Store.epics \ {Feed, Aside}
    BY <1>1, ChildFacts DEF Sound, Stores
<1>3. /\ Sound(s0) /\ {Feed, Aside} \subseteq s0.epics /\ s0.retired = Store.retired
      /\ Moved(Store, s0, at)
    <2>1. CASE Children(Store, Feed) # {}
        BY <2>1, <1>1, FlattenedRows DEF Sound
    <2>2. CASE Children(Store, Feed) = {}
        <3>1. s0 = Store
            BY <2>2
        <3>2. \A t \in Store.tasks : at[t] = t.at
            BY <2>2
        <3> HIDE DEF s0, at
        <3> QED BY <3>1, <3>2, <1>1 DEF Sound, Moved, Same
    <2> QED BY <2>1, <2>2
<1> HIDE DEF s0
<1>4. KeepsManual(Store, s0) /\ ShownIn(s0) = ShownIn(Store)
    BY <1>1, <1>3, MovedIsKept
<1>5. ASSUME Settled(Store)
      PROVE  /\ One(s0) /\ KeepsRows(Store, s0)
             /\ \A u \in s0.tasks : FeedRow(u) => u.at = Feed
    <2>1. One(s0) /\ KeepsRows(Store, s0)
        BY <1>1, <1>3, <1>5, MovedIsKept DEF Settled
    <2>2. \A t \in Store.tasks : FeedRow(t) => at[t] = Feed
        BY <1>2, <1>5, <1>1 DEF Settled, Inside, Sound
    <2>3. \A u \in s0.tasks : FeedRow(u) => \E t \in Store.tasks : FeedRow(t) /\ u.at = at[t]
        BY <1>3 DEF Moved, Same, FeedRow
    <2> HIDE DEF at
    <2> QED BY <2>1, <2>2, <2>3
<1>6. /\ Sound(s1) /\ s1.epics = s0.epics /\ s1.tasks = s0.tasks
      /\ s1.retired = IF additive THEN s0.retired ELSE s0.retired \cap emission
    <2>1. Sound(s0)
        BY <1>3
    <2>2. CASE additive
        BY <2>1, <2>2 DEF DropClosedRetired
    <2>3. CASE ~additive
        <3>1. s1 = [s0 EXCEPT !.retired = @ \cap emission]
            BY <2>3 DEF DropClosedRetired
        <3> HIDE DEF s1
        <3> QED BY <3>1, <2>1, <2>3, DroppedRetired
    <2> QED BY <2>2, <2>3
<1> HIDE DEF s1
<1>7. s2 = UpsertFeedTasks(s1, items, additive)
    BY DEF IngestFlat, s0, s1
<1>8. Sound(s2) /\ Upserted(s1, s2, {Feed}, items, additive)
    <2>1. {Feed} \subseteq s1.epics /\ IsFiniteSet({Feed})
        BY <1>3, <1>6, FS_Singleton
    <2>2. items \in [{Feed} -> SUBSET Item]
        OBVIOUS
    <2> HIDE DEF items
    <2> QED BY <2>1, <2>2, <1>6, <1>7, UpsertedRows
<1>9. items[Feed] = emission
    OBVIOUS
<1> HIDE DEF items
<1>10. KeepsManual(Store, s2)
    BY <1>4, <1>6, <1>8 DEF KeepsManual, Upserted, FeedRow, Same
<1>11. ASSUME Settled(Store)
       PROVE  /\ Settled(s2) /\ KeepsRows(Store, s2)
              /\ Mirrored(Store, s2, emission, emission, additive)
    <2>1. One(s1) /\ KeepsRows(Store, s1)
        BY <1>5, <1>6, <1>11 DEF One, KeepsRows
    <2>2. \A u \in s1.tasks : FeedRow(u) => u.at = Feed
        BY <1>5, <1>6, <1>11
    <2>3. \A u \in s2.tasks : FeedRow(u) => u.at = Feed
        BY <2>2, <1>8 DEF Upserted
    <2>4. One(s2)
        BY <2>1, <2>3, <1>8, UpsertedOnce DEF FeedRow
    <2>5. ShownIn(s1) = ShownIn(Store)
        BY <1>4, <1>6 DEF ShownIn
    <2>6. \A u \in s2.tasks \ s1.tasks : FeedRow(u) => u.item \notin ShownIn(s1)
        BY <2>2, <1>8 DEF Upserted, ShownIn, FeedRow
    <2>7. KeepsRows(Store, s2)
        BY <2>1, <2>5, <2>6 DEF KeepsRows, ShownIn, FeedRow
    <2>8. s2.retired = IF additive THEN Store.retired ELSE Store.retired \cap emission
        BY <1>3, <1>6, <1>8 DEF Upserted
    <2>9. \A i : i \in ShownIn(s2) <=> \E u \in s2.tasks : FeedRow(u) /\ u.item = i
        BY DEF ShownIn
    <2>10. \A i : i \in ShownIn(s1) <=> \E u \in s1.tasks : FeedRow(u) /\ u.item = i
        BY DEF ShownIn
    <2>11. \A i \in emission : i # Manual
        BY IngestAssumption
    <2>12. \A i \in emission \ s1.retired : i \in ShownIn(s2)
        BY <2>9, <2>11, <1>8, <1>9 DEF Upserted, FeedRow
    <2>13. \A u \in s2.tasks : FeedRow(u) => u \in s1.tasks \/ u.item \in emission \ s1.retired
        BY <1>8, <1>9, <2>3 DEF Upserted
    <2>14. ShownIn(s2) = IF additive THEN ShownIn(Store) \cup (emission \ Store.retired)
                         ELSE {i \in emission : i \in ShownIn(Store) \/ i \notin Store.retired}
        <3>1. CASE additive
            <4>1. \A t \in s1.tasks : t \in s2.tasks
                BY <3>1, <1>8 DEF Upserted
            <4>2. s1.retired = Store.retired
                BY <3>1, <1>3, <1>6
            <4>3. \A i : i \in ShownIn(s2) <=>
                         i \in ShownIn(Store) \/ i \in emission \ Store.retired
                BY <4>1, <4>2, <2>5, <2>9, <2>10, <2>12, <2>13
            <4> QED BY <3>1, <4>3
        <3>2. CASE ~additive
            <4>1. \A t \in s1.tasks : FeedRow(t) /\ t.item \in emission => t \in s2.tasks
                BY <2>2, <1>8, <1>9 DEF Upserted
            <4>2. \A u \in s2.tasks : FeedRow(u) => u.item \in emission
                BY <3>2, <2>3, <1>8, <1>9 DEF Upserted
            <4>3. s1.retired = Store.retired \cap emission
                BY <3>2, <1>3, <1>6
            <4> QED BY <3>2, <4>1, <4>2, <4>3, <2>5, <2>9, <2>10, <2>12, <2>13
        <3> QED BY <3>1, <3>2
    <2>15. Inside(s2)
        BY <2>3, RootFacts DEF Inside
    <2>16. ShownIn(s2) \cap s2.retired = {}
        BY <2>8, <2>14, <1>11 DEF Settled
    <2> QED BY <2>4, <2>7, <2>8, <2>14, <2>15, <2>16 DEF Settled, Mirrored
<1> QED BY <1>8, <1>10, <1>11

(* A reducer makes the epics it puts tasks into.                           *)
LEMMA AddedEpics ==
    ASSUME NEW s, Sound(s), NEW E \in SUBSET Paths, NEW s2, s2 = [s EXCEPT !.epics = @ \cup E]
    PROVE  /\ Sound(s2) /\ s2.epics = s.epics \cup E
           /\ s2.tasks = s.tasks /\ s2.retired = s.retired /\ s2.lastId = s.lastId
<1>1. s \in Stores
    BY DEF Sound
<1>2. /\ s2 \in Stores /\ s2.epics = s.epics \cup E /\ s2.tasks = s.tasks
      /\ s2.retired = s.retired /\ s2.lastId = s.lastId
    BY <1>1 DEF Stores
<1> QED BY <1>2 DEF Sound

(* Finitely many items are put in finitely many epics.                     *)
LEMMA FiniteRange ==
    ASSUME NEW S, IsFiniteSet(S), NEW T, NEW f \in [S -> T]
    PROVE  IsFiniteSet({f[x] : x \in S})
<1> DEFINE R == {f[x] : x \in S}
<1>1. f \in Surjection(S, R)
    BY DEF Surjection
<1>2. IsFiniteSet(R)
    <2> HIDE DEF R
    <2> QED BY <1>1, FS_Surjection
<1> QED BY <1>2

(* The row of an item moves; there is one when items have one row.         *)
LEMMA MovedToTargetRows ==
    ASSUME NEW s, Sound(s), NEW items \in SUBSET Item, NEW target \in [items -> s.epics],
           NEW s2, s2 = MovedToTargets(s, target)
    PROVE  /\ Sound(s2)
           /\ s2.epics = s.epics /\ s2.retired = s.retired /\ s2.lastId = s.lastId
           /\ KeepsManual(s, s2) /\ ShownIn(s2) = ShownIn(s)
           /\ One(s) /\ Inside(s) =>
                  /\ One(s2) /\ KeepsRows(s, s2)
                  /\ \A u \in s2.tasks :
                         FeedRow(u) => \E t \in s.tasks :
                             /\ t.item = u.item
                             /\ u.at = IF u.item \in items THEN target[u.item] ELSE t.at
<1> DEFINE rows == UNION {Existing(s, i) : i \in items}
           to == [t \in rows |-> target[t.item]]
           at == [t \in s.tasks |-> IF t \in rows THEN to[t] ELSE t.at]
<1>1. \A i : Existing(s, i) \subseteq {t \in s.tasks : FeedRow(t) /\ t.item = i}
    BY DEF Existing, FeedTasks, FeedRow
<1>2. \A t \in rows : t \in s.tasks /\ t.item \in items
    BY <1>1
<1>3. rows \in SUBSET s.tasks /\ to \in [rows -> s.epics]
    BY <1>2
<1>4. s2 = Relinked(s, rows, to)
    BY DEF MovedToTargets
<1>5. /\ Sound(s2)
      /\ s2.epics = s.epics /\ s2.retired = s.retired /\ s2.lastId = s.lastId
      /\ Moved(s, s2, at)
    <2> HIDE DEF rows, to
    <2> QED BY <1>3, <1>4, RelinkedRows
<1>6. /\ KeepsManual(s, s2) /\ ShownIn(s2) = ShownIn(s)
      /\ One(s) => One(s2) /\ KeepsRows(s, s2)
    <2> HIDE DEF at
    <2> QED BY <1>5, MovedIsKept
<1>7. ASSUME One(s), Inside(s), NEW t \in s.tasks, FeedRow(t), t.item \in items
      PROVE  t \in Existing(s, t.item)
    <2>1. s.epics \subseteq Paths /\ t.at \in s.epics /\ t.at # Aside
        BY <1>7 DEF Sound, Stores, Inside
    <2>2. t \in FeedTasks(s, Subtree(s, Feed))
        BY <1>7, <2>1, SubtreeOfTheFeed DEF FeedTasks, FeedRow
    <2>3. \A u \in FeedTasks(s, Subtree(s, Feed)) : u.item = t.item => u = t
        BY <1>7 DEF FeedTasks, One
    <2>4. t.id >= t.id
        BY DEF Sound, Stores, Rows
    <2> QED BY <2>2, <2>3, <2>4 DEF Existing
<1>8. ASSUME One(s), Inside(s), NEW u \in s2.tasks, FeedRow(u)
      PROVE  \E t \in s.tasks : /\ t.item = u.item
                                /\ u.at = IF u.item \in items THEN target[u.item] ELSE t.at
    <2>1. PICK t \in s.tasks : Same(t, u) /\ u.at = at[t]
        BY <1>5 DEF Moved
    <2>2. FeedRow(t) /\ t.item = u.item
        BY <2>1, <1>8 DEF FeedRow, Same
    <2>3. CASE u.item \in items
        <3>1. t \in rows
            BY <1>7, <1>8, <2>2, <2>3
        <3>2. at[t] = target[t.item]
            BY <3>1
        <3> QED BY <2>1, <2>2, <2>3, <3>2
    <2>4. CASE u.item \notin items
        <3>1. t \notin rows
            BY <1>2, <2>2, <2>4
        <3> QED BY <2>1, <2>2, <2>4, <3>1
    <2> QED BY <2>3, <2>4
<1> QED BY <1>5, <1>6, <1>8

(* What a role-routed reconcile wants of an emission, and where.           *)
SignalsOf(emission) == [emission -> IF Reviews THEN Roles \cup {"excluded"} ELSE {"my"}]

(* A role-routed reconcile moves first, so an item's row is where the      *)
(* upsert looks for it, and a row that is dropped is of no item wanted.    *)
LEMMA RoleIngest ==
    ASSUME IngestTypes, Reviews, NEW emission \in SUBSET Item, NEW additive \in BOOLEAN,
           NEW signals \in SignalsOf(emission),
           NEW sf, sf = IngestRoleRouted(emission, signals, additive)
    PROVE  /\ Sound(sf) /\ KeepsManual(Store, sf)
           /\ Settled(Store) => /\ Settled(sf) /\ KeepsRows(Store, sf)
                                /\ Mirrored(Store, sf, emission, Wanted(emission, signals), additive)
<1> DEFINE sr == [Store EXCEPT !.epics = @ \cup RoleEpics]
           s1 == DropClosedRetired(sr, emission, additive)
           kept == Wanted(emission, signals)
           items == kept \ RetiredWithoutTask(s1, kept)
           target == [i \in items |-> Routed(Sub(Feed, signals[i]), UrlRepo[i])]
           D == Range(target)
           itemsOf == [epic \in D |-> {i \in items : target[i] = epic}]
           st == [s1 EXCEPT !.epics = @ \cup D]
           s2 == MovedToTargets(st, target)
           s3 == UpsertFeedTasks(s2, itemsOf, additive)
           keep == [epic \in Subtree(s3, Feed) |-> IF epic = Feed THEN {} ELSE items]
<1>1. sf = IF additive THEN s3 ELSE WithoutStale(s3, keep)
    BY DEF IngestRoleRouted
<1>2. /\ Sound(sr) /\ sr.tasks = tasks /\ sr.retired = retired
    <2>1. Sound(Store) /\ RoleEpics \in SUBSET Paths
        BY DEF IngestTypes, Paths
    <2> HIDE DEF sr
    <2>2. sr = [Store EXCEPT !.epics = @ \cup RoleEpics]
        BY DEF sr
    <2> QED BY <2>1, <2>2, AddedEpics, StoreFields
<1> HIDE DEF sr
<1>3. /\ Sound(s1) /\ s1.tasks = tasks
      /\ s1.retired = IF additive THEN retired ELSE retired \cap emission
    <2>1. CASE additive
        BY <1>2, <2>1 DEF DropClosedRetired
    <2>2. CASE ~additive
        <3>1. s1 = [sr EXCEPT !.retired = @ \cap emission]
            BY <2>2 DEF DropClosedRetired
        <3> HIDE DEF s1
        <3> QED BY <3>1, <1>2, <2>2, DroppedRetired
    <2> QED BY <2>1, <2>2
<1> HIDE DEF s1
<1>4. /\ kept \subseteq emission /\ items \subseteq kept /\ items \subseteq Item
      /\ \A i \in kept : signals[i] \in Roles
    <2>1. kept \subseteq emission /\ \A i \in kept : signals[i] # "excluded"
        BY DEF Wanted
    <2>2. signals \in [emission -> Roles \cup {"excluded"}]
        BY DEF SignalsOf
    <2> HIDE DEF kept
    <2> QED BY <2>1, <2>2
<1> HIDE DEF kept
<1>5. \A i \in kept : i \in items <=> i \notin s1.retired \/ i \in ItemsOf(FeedTasks(s1, Subtree(s1, Feed)))
    BY DEF RetiredWithoutTask
<1> HIDE DEF items
<1>6. ASSUME NEW i \in items
      PROVE  target[i] \in Paths \ {Feed, Aside}
    <2>1. Sub(Feed, signals[i]) \in RoleEpics /\ UrlRepo[i] \in Repo
        BY <1>4, IngestAssumption DEF RoleEpics
    <2>2. Sub(Feed, signals[i]) \in Paths /\ Sub(Feed, signals[i]) \notin {Feed, Aside}
        <3>1. \A e \in RoleEpics : Len(e) = 2
            BY RoleEpicFacts
        <3>2. Len(Feed) = 1 /\ Len(Aside) = 1
            BY RootFacts
        <3>3. \A e \in RoleEpics : e \in Paths /\ e \notin {Feed, Aside}
            BY <3>1, <3>2 DEF Paths
        <3> QED BY <2>1, <3>3
    <2>3. grouped \subseteq Grouping
        BY DEF IngestTypes
    <2>4. Routed(Sub(Feed, signals[i]), UrlRepo[i]) \in Paths \ {Feed, Aside}
        BY <2>1, <2>2, <2>3, RoutedFacts
    <2> QED BY <2>4
<1>7. D = {target[i] : i \in items}
    BY DEF Range
<1>8. D \subseteq Paths \ {Feed, Aside} /\ IsFiniteSet(D)
    <2>1. target \in [items -> Paths]
        BY <1>6
    <2>2. IsFiniteSet(items)
        BY <1>4, IngestAssumption, FS_Subset
    <2> HIDE DEF target, D
    <2> QED BY <2>1, <2>2, <1>6, <1>7, FiniteRange
<1>9. \A i \in items : target[i] \in D
    BY <1>7
<1>10. itemsOf \in [D -> SUBSET Item] /\ \A e \in D : itemsOf[e] = {i \in items : target[i] = e}
    BY <1>4
<1>11. target = [i \in items |-> target[i]]
    OBVIOUS
<1> HIDE DEF target, D, itemsOf
<1>12. /\ Sound(st) /\ st.tasks = tasks /\ st.retired = s1.retired /\ st.epics = s1.epics \cup D
    <2>1. D \in SUBSET Paths
        BY <1>8
    <2> QED BY <2>1, <1>3, AddedEpics
<1> HIDE DEF st
<1>13. target \in [items -> st.epics]
    BY <1>9, <1>11, <1>12
<1>14. /\ Sound(s2)
       /\ s2.epics = st.epics /\ s2.retired = st.retired /\ s2.lastId = st.lastId
       /\ KeepsManual(st, s2) /\ ShownIn(s2) = ShownIn(st)
       /\ One(st) /\ Inside(st) =>
              /\ One(s2) /\ KeepsRows(st, s2)
              /\ \A u \in s2.tasks :
                     FeedRow(u) => \E t \in st.tasks :
                         /\ t.item = u.item
                         /\ u.at = IF u.item \in items THEN target[u.item] ELSE t.at
    BY <1>4, <1>12, <1>13, MovedToTargetRows
<1> HIDE DEF s2
<1>15. Sound(s3) /\ Upserted(s2, s3, D, itemsOf, additive)
    BY <1>8, <1>10, <1>12, <1>14, UpsertedRows
<1> HIDE DEF s3
<1>16. \A i : i \in ItemsOf(FeedTasks(s1, Subtree(s1, Feed))) <=>
                  \E t \in tasks : FeedRow(t) /\ t.item = i /\ t.at # Aside
    BY <1>3, SubtreeOfTheFeed DEF ItemsOf, FeedTasks, FeedRow, Sound, Stores
<1>17. /\ Sound(sf) /\ sf.retired = s3.retired /\ sf.tasks \subseteq s3.tasks
       /\ \A t \in s3.tasks : ~FeedRow(t) => t \in sf.tasks
       /\ additive => sf.tasks = s3.tasks
       /\ ~additive => \A t \in s3.tasks : FeedRow(t) /\ t.at # Aside =>
                           (t \in sf.tasks <=> t.at # Feed /\ t.item \in items)
    <2>1. CASE additive
        BY <2>1, <1>1, <1>15
    <2>2. CASE ~additive
        <3>1. sf = WithoutStale(s3, keep)
            BY <2>2, <1>1
        <3>2. keep \in [Subtree(s3, Feed) -> SUBSET Item]
            BY <1>4
        <3>3. \A e \in Subtree(s3, Feed) : keep[e] = IF e = Feed THEN {} ELSE items
            OBVIOUS
        <3> HIDE DEF keep
        <3>4. /\ Sound(sf) /\ sf.retired = s3.retired
              /\ \A t : t \in sf.tasks <=>
                     t \in s3.tasks /\ (FeedRow(t) /\ t.at \in Subtree(s3, Feed) => t.item \in keep[t.at])
            BY <3>1, <3>2, <1>15, KeptRows
        <3>5. \A t \in s3.tasks : t.at \in Subtree(s3, Feed) <=> t.at # Aside
            BY <1>15, SubtreeOfTheFeed DEF Sound, Stores
        <3> QED BY <2>2, <3>3, <3>4, <3>5
    <2> QED BY <2>1, <2>2
<1>18. KeepsManual(Store, sf)
    BY <1>12, <1>14, <1>15, <1>17, StoreFields DEF KeepsManual, Upserted, FeedRow, Same
<1>19. ASSUME Settled(Store)
       PROVE  /\ Settled(sf) /\ KeepsRows(Store, sf)
              /\ Mirrored(Store, sf, emission, kept, additive)
    <2>1. One(st) /\ Inside(st) /\ ShownIn(st) = ShownIn(Store)
        BY <1>12, <1>19, StoreFields DEF Settled, One, Inside, ShownIn
    <2>2. One(s2) /\ KeepsRows(Store, s2)
        BY <2>1, <1>12, <1>14, StoreFields DEF KeepsRows
    <2>3. \A u \in s2.tasks : FeedRow(u) =>
              u.at # Aside /\ (u.item \in items => u.at = target[u.item])
        BY <2>1, <1>6, <1>14 DEF Inside, FeedRow
    <2>4. \A u \in s3.tasks : FeedRow(u) =>
              u.at # Aside /\ (u.item \in items => u.at = target[u.item])
        BY <2>3, <1>6, <1>8, <1>10, <1>15 DEF Upserted
    <2>5. \A u \in s3.tasks \ s2.tasks : u.item \in items /\ u.item \notin s2.retired
        BY <1>10, <1>15 DEF Upserted
    <2>6. One(s3)
        BY <2>2, <2>4, <2>5, <1>15, UpsertedOnce DEF FeedRow
    <2>7. One(sf) /\ Inside(sf)
        BY <2>4, <2>6, <1>17 DEF One, Inside
    <2>8. \A i : i \in ShownIn(Store) <=> \E t \in tasks : FeedRow(t) /\ t.item = i
        BY StoreFields DEF ShownIn
    <2>9. \A i : i \in ShownIn(Store) <=> \E t \in s2.tasks : FeedRow(t) /\ t.item = i
        BY <2>1, <1>14 DEF ShownIn
    <2>10. \A i : i \in ShownIn(sf) <=> \E t \in sf.tasks : FeedRow(t) /\ t.item = i
        BY DEF ShownIn
    <2>11. \A u \in s3.tasks \ s2.tasks : u.item \notin ShownIn(Store)
        BY <2>3, <2>4, <2>5, <2>9, <1>15 DEF Upserted, FeedRow
    <2>12. KeepsRows(Store, sf)
        BY <2>2, <2>8, <2>11, <1>17, StoreFields DEF KeepsRows
    <2>13. sf.retired = IF additive THEN retired ELSE retired \cap emission
        BY <1>3, <1>12, <1>14, <1>15, <1>17 DEF Upserted
    <2>14. \A i \in kept : i \in items <=> i \notin s1.retired \/ i \in ShownIn(Store)
        BY <1>5, <1>16, <2>8, <1>19, StoreFields DEF Settled, Inside
    <2>15. \A i \in items : i \in ShownIn(Store) \/ i \notin s1.retired =>
               \E u \in s3.tasks : FeedRow(u) /\ u.item = i /\ u.at = target[i]
        <3> SUFFICES ASSUME NEW i \in items, i \in ShownIn(Store) \/ i \notin s1.retired
                     PROVE  \E u \in s3.tasks : FeedRow(u) /\ u.item = i /\ u.at = target[i]
            OBVIOUS
        <3>1. target[i] \in D /\ i \in itemsOf[target[i]] /\ i # Manual
            BY <1>4, <1>9, <1>10, IngestAssumption
        <3>2. CASE i \in ShownIn(Store)
            <4>1. PICK t \in s2.tasks : FeedRow(t) /\ t.item = i /\ t.at = target[i]
                BY <3>2, <2>3, <2>9
            <4>2. t \in s3.tasks
                BY <3>1, <4>1, <1>15 DEF Upserted
            <4> QED BY <4>1, <4>2
        <3>3. CASE i \notin s1.retired
            <4>1. i \in itemsOf[target[i]] \ s2.retired
                BY <3>1, <3>3, <1>12, <1>14
            <4>2. PICK u \in s3.tasks : u.at = target[i] /\ u.item = i
                BY <3>1, <4>1, <1>15 DEF Upserted
            <4> QED BY <3>1, <4>2 DEF FeedRow
        <3> QED BY <3>2, <3>3
    <2>16. CASE additive
        <3>1. s1.retired = retired /\ s2.retired = retired
            BY <2>16, <1>3, <1>12, <1>14
        <3>2. \A t \in s2.tasks : t \in s3.tasks
            BY <2>16, <1>15 DEF Upserted
        <3>3. \A i : i \in ShownIn(sf) <=> i \in ShownIn(Store) \/ i \in kept \ retired
            <4>1. sf.tasks = s3.tasks
                BY <2>16, <1>17
            <4>2. ASSUME NEW i \in ShownIn(sf), i \notin ShownIn(Store)
                  PROVE  i \in kept \ retired
                <5>1. PICK u \in s3.tasks : FeedRow(u) /\ u.item = i
                    BY <4>1, <4>2, <2>10
                <5>2. u \notin s2.tasks
                    BY <5>1, <4>2, <2>9
                <5> QED BY <5>1, <5>2, <3>1, <2>5, <1>4
            <4>3. \A i \in ShownIn(Store) : i \in ShownIn(sf)
                BY <4>1, <3>2, <2>9, <2>10
            <4>4. \A i \in kept \ retired : i \in ShownIn(sf)
                BY <4>1, <3>1, <2>10, <2>14, <2>15
            <4> QED BY <4>2, <4>3, <4>4
        <3>4. ShownIn(sf) = ShownIn(Store) \cup (kept \ Store.retired)
            BY <3>3, StoreFields
        <3>5. ShownIn(sf) \cap sf.retired = {}
            BY <3>4, <2>13, <2>16, <1>19, StoreFields DEF Settled
        <3> QED BY <3>4, <3>5, <2>7, <2>12, <2>13, <2>16, StoreFields DEF Settled, Mirrored
    <2>17. CASE ~additive
        <3>1. s1.retired = retired \cap emission /\ s2.retired = retired \cap emission
            BY <2>17, <1>3, <1>12, <1>14
        <3>2. ASSUME NEW i \in ShownIn(sf)
              PROVE  i \in kept /\ (i \in ShownIn(Store) \/ i \notin retired)
            <4>1. PICK u \in sf.tasks : FeedRow(u) /\ u.item = i
                BY <3>2, <2>10
            <4>2. i \in items
                BY <4>1, <2>4, <2>17, <1>17
            <4> QED BY <4>2, <3>1, <2>14, <1>4
        <3>3. ASSUME NEW i \in kept, i \in ShownIn(Store) \/ i \notin retired
              PROVE  i \in ShownIn(sf)
            <4>1. i \in items /\ (i \in ShownIn(Store) \/ i \notin s1.retired)
                BY <3>3, <3>1, <2>14
            <4>2. PICK u \in s3.tasks : FeedRow(u) /\ u.item = i /\ u.at = target[i]
                BY <4>1, <2>15
            <4>3. target[i] # Feed /\ target[i] # Aside
                BY <4>1, <1>6
            <4>4. u \in sf.tasks
                BY <4>1, <4>2, <4>3, <2>17, <1>17
            <4> QED BY <4>2, <4>4, <2>10
        <3>4. ShownIn(sf) = {i \in kept : i \in ShownIn(Store) \/ i \notin Store.retired}
            BY <3>2, <3>3, StoreFields
        <3>5. ShownIn(sf) \cap sf.retired = {}
            BY <3>4, <2>13, <2>17, <1>19, StoreFields DEF Settled
        <3> QED BY <3>4, <3>5, <2>7, <2>12, <2>13, <2>17, StoreFields DEF Settled, Mirrored
    <2> QED BY <2>16, <2>17
<1> QED BY <1>17, <1>18, <1>19 DEF kept

(* A grouped reconcile makes rows in the groups and drops every other, so  *)
(* what is left of an item is the row in its group.                        *)
LEMMA GroupedIngest ==
    ASSUME IngestTypes, ~Reviews, NEW emission \in SUBSET Item, NEW additive \in BOOLEAN,
           Feed \in grouped, NEW sf, sf = IngestGrouped(emission, additive)
    PROVE  /\ Sound(sf) /\ KeepsManual(Store, sf)
           /\ Settled(Store) /\ ~additive =>
                  /\ Settled(sf)
                  /\ Mirrored(Store, sf, emission, emission, additive)
<1> DEFINE s1 == DropClosedRetired(Store, emission, additive)
           known == Children(s1, Feed)
           unseen == {i \in emission : Sub(Feed, UrlRepo[i]) \notin known}
           items == emission \ RetiredWithoutTask(s1, unseen)
           group == {Sub(Feed, UrlRepo[i]) : i \in items}
           itemsOf == [epic \in group |-> {i \in items : Sub(Feed, UrlRepo[i]) = epic}]
           sg == [s1 EXCEPT !.epics = @ \cup group]
           s2 == UpsertFeedTasks(sg, itemsOf, additive)
           keep == [epic \in (known \ group) \cup {Feed} |-> {}]
           home == [i \in items |-> Sub(Feed, UrlRepo[i])]
<1>1. sf = IF additive THEN s2 ELSE WithoutStale(s2, keep)
    BY DEF IngestGrouped
<1>2. Sound(Store)
    BY DEF IngestTypes
<1>3. /\ Sound(s1) /\ s1.tasks = tasks /\ s1.epics = epics
      /\ s1.retired = IF additive THEN retired ELSE retired \cap emission
    <2>1. CASE additive
        BY <1>2, <2>1, StoreFields DEF DropClosedRetired
    <2>2. CASE ~additive
        <3>1. s1 = [Store EXCEPT !.retired = @ \cap emission]
            BY <2>2 DEF DropClosedRetired
        <3> HIDE DEF s1
        <3> QED BY <3>1, <1>2, <2>2, DroppedRetired, StoreFields
    <2> QED BY <2>1, <2>2
<1> HIDE DEF s1
<1>4. known = epics \ {Feed, Aside}
    <2>1. s1.epics \subseteq Paths /\ Feed \in Paths /\ {Feed, Aside} \subseteq s1.epics
        BY <1>3 DEF Sound, Stores, Paths
    <2> QED BY <2>1, <1>3, ChildFacts
<1> HIDE DEF known
<1>5. items \subseteq emission /\ \A i \in emission : i \notin s1.retired => i \in items
    BY DEF RetiredWithoutTask
<1> HIDE DEF items
<1>6. \A i \in items : i \in Item /\ UrlRepo[i] \in Repo
    BY <1>5, IngestAssumption
<1>7. \A i \in items : home[i] = Sub(Feed, UrlRepo[i])
    OBVIOUS
<1>8. ASSUME NEW i \in items
      PROVE  home[i] \in Paths /\ home[i] # Feed /\ home[i] # Aside
    <2>1. home[i] = Sub(Feed, UrlRepo[i]) /\ UrlRepo[i] \in Repo
        BY <1>6
    <2>2. Grouping = {Feed}
        BY DEF Grouping
    <2>3. Sub(Feed, UrlRepo[i]) \in Paths
        BY <2>1, <2>2 DEF Paths
    <2>4. Len(Sub(Feed, UrlRepo[i])) = 2
        <3>1. UrlRepo[i] \in Name /\ Feed \in Seq(Name) /\ Len(Feed) = 1
            BY <2>1, RootFacts DEF Name
        <3>2. Len(Sub(Feed, UrlRepo[i])) = Len(Feed) + 1
            BY <3>1, SubFacts
        <3> QED BY <3>1, <3>2
    <2>5. Sub(Feed, UrlRepo[i]) # Feed /\ Sub(Feed, UrlRepo[i]) # Aside
        BY <2>4, RootFacts
    <2> HIDE DEF home
    <2> QED BY <2>1, <2>3, <2>5
<1>9. group = {home[i] : i \in items}
    OBVIOUS
<1>10. group \subseteq Paths \ {Feed, Aside} /\ IsFiniteSet(group)
    <2>1. home \in [items -> Paths]
        BY <1>8
    <2>2. IsFiniteSet(items)
        BY <1>5, IngestAssumption, FS_Subset
    <2> HIDE DEF home, group
    <2> QED BY <2>1, <2>2, <1>8, <1>9, FiniteRange
<1>11. \A i \in items : home[i] \in group
    BY <1>9
<1>12. /\ itemsOf \in [group -> SUBSET Item]
       /\ \A e \in group : itemsOf[e] = {i \in items : home[i] = e}
    BY <1>6, <1>7
<1> HIDE DEF home, group, itemsOf
<1>13. /\ Sound(sg) /\ sg.tasks = tasks /\ sg.retired = s1.retired /\ sg.epics = epics \cup group
    <2>1. group \in SUBSET Paths
        BY <1>10
    <2> QED BY <2>1, <1>3, AddedEpics
<1> HIDE DEF sg
<1>14. Sound(s2) /\ Upserted(sg, s2, group, itemsOf, additive)
    BY <1>10, <1>12, <1>13, UpsertedRows
<1> HIDE DEF s2
<1>15. /\ Sound(sf) /\ sf.retired = s2.retired /\ sf.tasks \subseteq s2.tasks
       /\ \A t \in s2.tasks : ~FeedRow(t) => t \in sf.tasks
       /\ ~additive => \A t \in s2.tasks : FeedRow(t) =>
                           (t \in sf.tasks <=> t.at \notin (known \ group) \cup {Feed})
    <2>1. CASE additive
        BY <2>1, <1>1, <1>14
    <2>2. CASE ~additive
        <3>1. sf = WithoutStale(s2, keep)
            BY <2>2, <1>1
        <3>2. /\ keep \in [(known \ group) \cup {Feed} -> SUBSET Item]
              /\ \A e \in (known \ group) \cup {Feed} : keep[e] = {}
            OBVIOUS
        <3> HIDE DEF keep
        <3>3. /\ Sound(sf) /\ sf.retired = s2.retired
              /\ \A t : t \in sf.tasks <=>
                     /\ t \in s2.tasks
                     /\ FeedRow(t) /\ t.at \in (known \ group) \cup {Feed} => t.item \in keep[t.at]
            BY <3>1, <3>2, <1>14, KeptRows
        <3> QED BY <2>2, <3>2, <3>3
    <2> QED BY <2>1, <2>2
<1>16. KeepsManual(Store, sf)
    BY <1>13, <1>14, <1>15, StoreFields DEF KeepsManual, Upserted, FeedRow, Same
<1>17. ASSUME Settled(Store), ~additive
       PROVE  Settled(sf) /\ Mirrored(Store, sf, emission, emission, additive)
    <2>1. One(sg) /\ Inside(sg)
        BY <1>13, <1>17, StoreFields DEF Settled, One, Inside
    <2>2. \A u \in s2.tasks : FeedRow(u) => u.at # Aside /\ u.at \in s2.epics
        BY <2>1, <1>10, <1>14 DEF Upserted, Inside, Sound
    <2>3. s2.epics = epics \cup group /\ s2.retired = retired \cap emission
        BY <1>3, <1>13, <1>14, <1>17 DEF Upserted
    <2>4. ASSUME NEW u \in sf.tasks, FeedRow(u)
          PROVE  u.item \in items /\ u.at = home[u.item] /\ u.at # Aside
        <3>1. u \in s2.tasks /\ u.at \in group
            BY <2>2, <2>3, <2>4, <1>4, <1>15, <1>17
        <3>2. u.item \in itemsOf[u.at]
            BY <3>1, <2>4, <1>14, <1>17 DEF Upserted
        <3> QED BY <3>1, <3>2, <2>2, <2>4, <1>12
    <2>5. One(sf)
        <3>1. \A u, v \in sf.tasks : FeedRow(u) /\ u.item = v.item => u.at = v.at
            BY <2>4 DEF FeedRow
        <3> QED BY <3>1, <2>1, <1>14, <1>15, UpsertedOnce
    <2>6. Inside(sf)
        BY <2>4 DEF Inside
    <2>7. ASSUME NEW i \in ShownIn(sf)
          PROVE  i \in emission /\ (i \in ShownIn(Store) \/ i \notin retired)
        <3>1. PICK u \in sf.tasks : FeedRow(u) /\ u.item = i
            BY DEF ShownIn
        <3>2. i \in items /\ i \in emission
            BY <3>1, <2>4, <1>5
        <3>3. CASE u \in sg.tasks
            BY <3>1, <3>2, <3>3, <1>13, StoreFields DEF ShownIn
        <3>4. CASE u \notin sg.tasks
            <4>1. u.item \notin sg.retired
                BY <3>4, <1>14, <1>15 DEF Upserted
            <4> QED BY <4>1, <3>1, <3>2, <1>3, <1>13, <1>17
        <3> QED BY <3>3, <3>4
    <2>8. ASSUME NEW i \in emission, i \notin retired
          PROVE  i \in ShownIn(sf)
        <3>1. i \in items /\ i \notin sg.retired /\ i # Manual
            BY <2>8, <1>3, <1>5, <1>13, <1>17, IngestAssumption
        <3>2. home[i] \in group /\ i \in itemsOf[home[i]] \ sg.retired
            BY <3>1, <1>11, <1>12
        <3>3. PICK u \in s2.tasks : u.at = home[i] /\ u.item = i
            BY <3>2, <1>14 DEF Upserted
        <3>4. FeedRow(u) /\ u.at \in group /\ u.at # Feed
            BY <3>1, <3>2, <3>3, <1>8 DEF FeedRow
        <3>5. u \in sf.tasks
            BY <3>3, <3>4, <1>15, <1>17
        <3> QED BY <3>3, <3>4, <3>5 DEF ShownIn
    <2>9. \A i \in ShownIn(Store) : i \notin retired
        BY <1>17, StoreFields DEF Settled
    <2>10. ShownIn(sf) = {i \in emission : i \in ShownIn(Store) \/ i \notin Store.retired}
        BY <2>7, <2>8, <2>9, StoreFields
    <2>11. sf.retired = retired \cap emission
        BY <2>3, <1>15
    <2>12. ShownIn(sf) \cap sf.retired = {}
        BY <2>9, <2>10, <2>11, StoreFields
    <2> QED BY <2>5, <2>6, <2>10, <2>11, <2>12, <1>17, StoreFields DEF Settled, Mirrored
<1> QED BY <1>15, <1>16, <1>17

-----------------------------------------------------------------------------
(* What every action owes: the types, the rows no feed made, and, where    *)
(* OnePlace holds, one row an item, the rows themselves and the mirror.    *)

Owed ==
    /\ IngestTypes' /\ KeepsManualTasks
    /\ OnePlace /\ Settled(Store) =>
           /\ Settled(Store')
           /\ Reviews \/ "toggle" \notin Ops => ReplacesNoRow
           /\ Mirror!Next \/ UNCHANGED <<Shown, retired, source>>

(* The store after a step, as the variables have it.                       *)
LEMMA StoreFieldsAfter ==
    /\ Store'.epics = epics' /\ Store'.tasks = tasks'
    /\ Store'.retired = retired' /\ Store'.lastId = lastId'
BY DEF Store

(* A setting never changes, so neither does what is read from it.          *)
LEMMA SettingRests ==
    ASSUME UNCHANGED setting
    PROVE  /\ Reviews' = Reviews /\ Ops' = Ops /\ MaxTasks' = MaxTasks
           /\ Grouping' = Grouping /\ Paths' = Paths /\ Rows' = Rows /\ Stores' = Stores
           /\ Sound(Store)' <=> Sound(Store')
<1>1. Reviews' = Reviews /\ Ops' = Ops /\ MaxTasks' = MaxTasks
    BY DEF Reviews, Ops, MaxTasks
<1>2. Grouping' = Grouping
    BY <1>1 DEF Grouping
<1>3. Paths' = Paths
    BY <1>2 DEF Paths
<1>4. Rows' = Rows /\ Stores' = Stores
    BY <1>3 DEF Rows, Stores
<1> QED BY <1>1, <1>2, <1>3, <1>4 DEF Sound

(* What of the store's rows the properties speak of.                       *)
LEMMA ShownIsShown ==
    ASSUME NEW s, Sound(s), Inside(s)
    PROVE  ShownIn(s) = ItemsOf({t \in s.tasks : t.item # Manual /\ IsPrefix(Feed, t.at)})
BY InTheFeed DEF Sound, Stores, Inside, ShownIn, ItemsOf, FeedRow

(* What the store keeps is what the action properties ask for.             *)
LEMMA RowsAreKept ==
    ASSUME Sound(Store), Sound(Store')
    PROVE  /\ KeepsManual(Store, Store') => KeepsManualTasks
           /\ KeepsRows(Store, Store') => ReplacesNoRow
<1>1. KeepsManual(Store, Store') => KeepsManualTasks
    BY StoreFields, StoreFieldsAfter DEF KeepsManual, KeepsManualTasks, FeedRow, Same
<1>2. ASSUME KeepsRows(Store, Store'), NEW i \in Item,
             NEW t \in tasks, t.item = i, NEW u \in tasks', u.item = i
      PROVE  t.id = u.id
    BY <1>2, StoreFields, StoreFieldsAfter, IngestAssumption DEF KeepsRows, FeedRow
<1>3. KeepsRows(Store, Store') => ReplacesNoRow
    BY <1>2 DEF ReplacesNoRow
<1> QED BY <1>1, <1>3

(* A step that leaves every task, wherever it puts it.                     *)
LEMMA MovingStep ==
    ASSUME IngestTypes, UNCHANGED <<retired, source, setting>>,
           Sound(Store'), lastId' <= MaxTasks,
           grouped' \subseteq Grouping, grouped' # {} => "toggle" \in Ops,
           KeepsManual(Store, Store'), ShownIn(Store') = ShownIn(Store),
           OnePlace /\ Settled(Store) =>
               One(Store') /\ KeepsRows(Store, Store') /\ Inside(Store')
    PROVE  Owed
<1>1. Sound(Store)
    BY DEF IngestTypes
<1>2. IngestTypes'
    BY SettingRests DEF IngestTypes
<1>3. ASSUME OnePlace, Settled(Store)
      PROVE  Settled(Store') /\ ReplacesNoRow /\ UNCHANGED <<Shown, retired, source>>
    <2>1. One(Store') /\ KeepsRows(Store, Store') /\ Inside(Store') /\ Inside(Store)
        BY <1>3 DEF Settled
    <2>2. Shown = ShownIn(Store)
        BY <1>1, <2>1, ShownIsShown, StoreFields DEF Shown
    <2>3. Shown' = ShownIn(Store')
        BY <2>1, ShownIsShown, StoreFieldsAfter DEF Shown, ItemsOf
    <2>4. Settled(Store')
        BY <1>3, <2>1, StoreFields, StoreFieldsAfter DEF Settled
    <2> QED BY <1>1, <2>1, <2>2, <2>3, <2>4, RowsAreKept
<1> QED BY <1>1, <1>2, <1>3, RowsAreKept DEF Owed

(* A step that removes finished tasks, and retires their items.            *)
LEMMA RemovingStep ==
    ASSUME IngestTypes, UNCHANGED <<lastId, source, setting>>,
           NEW rows \in SUBSET tasks, \A t \in rows : t.done,
           tasks' = tasks \ rows, retired' = retired \cup Retires(rows),
           epics' \subseteq epics, {Feed, Aside} \subseteq epics',
           \A t \in tasks' : t.at \in epics', grouped' \subseteq grouped
    PROVE  Owed
<1>1. Sound(Store) /\ Store \in Stores
    BY DEF IngestTypes, Sound
<1>2. \A i : i \in Retires(rows) <=> \E t \in rows : FeedRow(t) /\ IsPrefix(Feed, t.at) /\ t.item = i
    BY DEF Retires, ItemsOf, FeedRow
<1>3. tasks \subseteq Rows /\ retired \subseteq Item /\ epics \subseteq Paths /\ lastId \in Nat
    BY <1>1, StoreFields DEF Stores
<1>4. Retires(rows) \subseteq Item
    BY <1>2, <1>3 DEF Rows, FeedRow
<1>5. Store' \in Stores
    BY <1>3, <1>4 DEF Store, Stores
<1>6. Sound(Store')
    BY <1>1, <1>5, StoreFields, StoreFieldsAfter DEF Sound
<1>7. IngestTypes'
    BY <1>6, SettingRests DEF IngestTypes
<1>8. KeepsManualTasks
    BY DEF KeepsManualTasks
<1>9. ASSUME OnePlace, Settled(Store)
      PROVE  Settled(Store') /\ ReplacesNoRow /\ Mirror!Next
    <2>1. One(Store') /\ Inside(Store') /\ KeepsRows(Store, Store')
        BY <1>9, StoreFields, StoreFieldsAfter DEF Settled, One, Inside, KeepsRows
    <2>2. Shown = ShownIn(Store)
        BY <1>1, <1>9, ShownIsShown, StoreFields DEF Shown, Settled
    <2>3. Shown' = ShownIn(Store')
        BY <1>6, <2>1, ShownIsShown, StoreFieldsAfter DEF Shown, ItemsOf
    <2>4. \A i : i \in Retires(rows) <=> \E t \in rows : FeedRow(t) /\ t.item = i
        BY <1>2, <1>3, <1>9, InTheFeed, StoreFields DEF Settled, Inside, Rows
    <2>5. \A i : i \in Shown <=> \E t \in tasks : FeedRow(t) /\ t.item = i
        BY <2>2, StoreFields DEF ShownIn
    <2>6. \A i : i \in Shown' <=> \E t \in tasks' : FeedRow(t) /\ t.item = i
        BY <2>3, StoreFieldsAfter DEF ShownIn
    <2>7. \A t, u \in tasks : FeedRow(t) /\ t.item = u.item => t = u
        BY <1>9, StoreFields DEF Settled, One
    <2>8. Retires(rows) \subseteq Shown
        BY <2>4, <2>5
    <2>9. Shown' = Shown \ Retires(rows)
        BY <2>4, <2>5, <2>6, <2>7 DEF FeedRow
    <2>10. Mirror!Retire(Retires(rows))
        BY <2>8, <2>9 DEF Mirror!Retire
    <2>11. Mirror!Next
        BY <1>4, <2>10 DEF Mirror!Next
    <2>12. Settled(Store')
        BY <1>9, <2>1, <2>2, <2>3, <2>9, StoreFields, StoreFieldsAfter DEF Settled
    <2> QED BY <1>1, <1>6, <2>1, <2>11, <2>12, RowsAreKept
<1> QED BY <1>7, <1>8, <1>9 DEF Owed

(* What a committed reducer leaves is the store.                           *)
LEMMA Committed ==
    ASSUME NEW s, Sound(s), Commit(s)
    PROVE  Store' = s /\ Sound(Store') /\ lastId' <= MaxTasks
<1>1. s \in Stores
    BY DEF Sound
<1>2. s = [epics |-> s.epics, tasks |-> s.tasks, retired |-> s.retired, lastId |-> s.lastId]
    BY <1>1 DEF Stores
<1>3. Store' = s
    BY <1>2 DEF Store, Commit
<1> QED BY <1>3 DEF Commit

-----------------------------------------------------------------------------
(* The actions.                                                            *)

(* An emission, by whichever strategy the epic has.                        *)
LEMMA IngestOwed ==
    ASSUME IngestTypes, NEW emission \in SUBSET setting.items, NEW additive \in BOOLEAN,
           NEW signals \in SignalsOf(emission), IngestFeed(emission, signals, additive)
    PROVE  Owed
<1> DEFINE s2 == IF Reviews THEN IngestRoleRouted(emission, signals, additive)
                 ELSE IF Feed \in grouped THEN IngestGrouped(emission, additive)
                 ELSE IngestFlat(emission, additive)
           wanted == Wanted(emission, signals)
<1>1. emission \subseteq Item /\ wanted \subseteq emission
    BY IngestAssumption DEF IngestTypes, Wanted
<1>2. ~Reviews => wanted = emission
    BY DEF Wanted, SignalsOf
<1>3. /\ Sound(s2) /\ KeepsManual(Store, s2)
      /\ OnePlace /\ Settled(Store) =>
             /\ Settled(s2)
             /\ Reviews \/ "toggle" \notin Ops => KeepsRows(Store, s2)
             /\ Mirrored(Store, s2, emission, wanted, additive)
    <2>1. CASE Reviews
        <3>1. s2 = IngestRoleRouted(emission, signals, additive)
            BY <2>1
        <3> HIDE DEF s2
        <3> QED BY <3>1, <2>1, <1>1, RoleIngest
    <2>2. CASE ~Reviews /\ Feed \notin grouped
        <3>1. s2 = IngestFlat(emission, additive)
            BY <2>2
        <3> HIDE DEF s2
        <3> QED BY <3>1, <2>2, <1>1, <1>2, FlatIngest
    <2>3. CASE ~Reviews /\ Feed \in grouped
        <3>1. s2 = IngestGrouped(emission, additive)
            BY <2>3
        <3>2. "toggle" \in Ops /\ (OnePlace => ~additive)
            BY <2>3 DEF IngestTypes, OnePlace, IngestFeed
        <3> HIDE DEF s2
        <3> QED BY <3>1, <3>2, <2>3, <1>1, <1>2, GroupedIngest
    <2> QED BY <2>1, <2>2, <2>3
<1>4. Commit(s2) /\ UNCHANGED <<grouped, setting>>
      /\ source' = IF additive THEN source ELSE [open |-> emission, wanted |-> wanted]
    BY DEF IngestFeed
<1> HIDE DEF s2, wanted
<1>5. Store' = s2 /\ Sound(Store') /\ lastId' <= MaxTasks
    BY <1>3, <1>4, Committed
<1>6. Sound(Store)
    BY DEF IngestTypes
<1>7. IngestTypes'
    BY <1>4, <1>5, SettingRests DEF IngestTypes
<1>8. KeepsManualTasks
    BY <1>3, <1>5, <1>6, RowsAreKept
<1>9. ASSUME OnePlace, Settled(Store)
      PROVE  /\ Settled(Store')
             /\ Reviews \/ "toggle" \notin Ops => ReplacesNoRow
             /\ Mirror!Next
    <2>1. /\ Settled(Store') /\ Mirrored(Store, Store', emission, wanted, additive)
          /\ Reviews \/ "toggle" \notin Ops => KeepsRows(Store, Store')
        BY <1>3, <1>5, <1>9
    <2>2. Shown = ShownIn(Store)
        BY <1>6, <1>9, ShownIsShown, StoreFields DEF Shown, Settled
    <2>3. Shown' = ShownIn(Store')
        BY <1>5, <2>1, ShownIsShown, StoreFieldsAfter DEF Shown, ItemsOf, Settled
    <2>4. ASSUME additive PROVE Mirror!Next
        <3>1. /\ retired' = retired /\ source' = source
              /\ Shown' = Shown \cup (wanted \ retired)
            BY <1>4, <2>1, <2>2, <2>3, <2>4, StoreFields, StoreFieldsAfter DEF Mirrored
        <3>2. Mirror!Add(wanted)
            BY <3>1 DEF Mirror!Add
        <3>3. wanted \in SUBSET Item
            BY <1>1
        <3> QED BY <3>2, <3>3 DEF Mirror!Next
    <2>5. ASSUME ~additive PROVE Mirror!Next
        <3>1. /\ retired' = retired \cap emission
              /\ source' = [open |-> emission, wanted |-> wanted]
              /\ Shown' = {i \in wanted : i \in Shown \/ i \notin retired}
            BY <1>4, <2>1, <2>2, <2>3, <2>5, StoreFields, StoreFieldsAfter DEF Mirrored
        <3>2. Mirror!Mirror(emission, wanted)
            BY <3>1 DEF Mirror!Mirror
        <3> QED BY <3>2, <1>1 DEF Mirror!Next
    <2>6. Mirror!Next
        BY <2>4, <2>5
    <2> QED BY <1>5, <1>6, <2>1, <2>6, RowsAreKept
<1> QED BY <1>7, <1>8, <1>9 DEF Owed

(* A task nobody reports is no row of a feed.                              *)
LEMMA CreateOwed ==
    ASSUME IngestTypes, NEW epic \in epics, CreateManualTask(epic)
    PROVE  Owed
<1> DEFINE at == Routed(epic, PathRepo[Manual])
           s2 == [Store EXCEPT !.epics = @ \cup {at}, !.lastId = @ + 1,
                               !.tasks = @ \cup {Row(lastId + 1, Manual, at)}]
<1>1. Sound(Store) /\ Store \in Stores /\ epic \in Paths /\ grouped \subseteq Grouping
    BY StoreFields DEF IngestTypes, Sound, Stores
<1>2. at \in Paths
    BY <1>1, IngestAssumption, RoutedFacts
<1>3. Commit(s2) /\ UNCHANGED <<grouped, source, setting>>
    BY DEF CreateManualTask
<1> HIDE DEF at
<1>4. lastId \in Nat /\ tasks \subseteq Rows /\ epics \subseteq Paths
    BY <1>1, StoreFields DEF Stores
<1> DEFINE row == Row(lastId + 1, Manual, at)
<1>5. row \in Rows /\ row.id = lastId + 1 /\ row.at = at /\ ~FeedRow(row)
    BY <1>2, <1>4 DEF Row, Rows, FeedRow
<1>6. /\ s2.epics = epics \cup {at} /\ s2.lastId = lastId + 1
      /\ s2.tasks = tasks \cup {row} /\ s2.retired = retired
    BY <1>1, StoreFields DEF Stores
<1> HIDE DEF row
<1>7. s2 \in Stores
    <2>1. /\ epics \cup {at} \in SUBSET Paths /\ tasks \cup {row} \in SUBSET Rows
          /\ lastId + 1 \in Nat
        BY <1>2, <1>4, <1>5
    <2>2. s2 = [Store EXCEPT !.epics = epics \cup {at}, !.lastId = lastId + 1,
                             !.tasks = tasks \cup {row}]
        BY StoreFields DEF row
    <2> HIDE DEF s2
    <2> QED BY <1>1, <2>1, <2>2 DEF Stores
<1> HIDE DEF s2
<1>8. \A t \in s2.tasks : t.id \in 1..s2.lastId /\ t.at \in s2.epics
    <2>1. \A t \in tasks : t.id \in 1..lastId /\ t.at \in epics
        BY <1>1, StoreFields DEF Sound
    <2>2. \A n \in 1..lastId : n \in 1..(lastId + 1)
        BY <1>4
    <2>3. lastId + 1 \in 1..(lastId + 1)
        BY <1>4
    <2> QED BY <2>1, <2>2, <2>3, <1>5, <1>6
<1>9. Sound(s2)
    BY <1>1, <1>6, <1>7, <1>8, StoreFields DEF Sound
<1>10. Store' = s2 /\ Sound(Store') /\ lastId' <= MaxTasks
    BY <1>3, <1>9, Committed
<1>11. /\ KeepsManual(Store, s2) /\ ShownIn(s2) = ShownIn(Store)
    BY <1>5, <1>6, StoreFields DEF KeepsManual, ShownIn, Same
<1>12. ASSUME Settled(Store) PROVE One(s2) /\ KeepsRows(Store, s2) /\ Inside(s2)
    BY <1>5, <1>6, <1>12, StoreFields DEF Settled, One, KeepsRows, Inside, FeedRow
<1>13. retired' = retired
    BY <1>6, <1>10, StoreFieldsAfter
<1> QED BY <1>3, <1>10, <1>11, <1>12, <1>13, MovingStep DEF IngestTypes

(* A finished task is the row it was.                                      *)
LEMMA FinishOwed ==
    ASSUME IngestTypes, NEW t \in tasks, FinishTask(t)
    PROVE  Owed
<1> DEFINE u == [t EXCEPT !.done = TRUE]
<1>1. Sound(Store) /\ Store \in Stores /\ tasks \subseteq Rows /\ t \in Rows
    BY StoreFields DEF IngestTypes, Sound, Stores
<1>2. u \in Rows /\ u.id = t.id /\ u.item = t.item /\ u.at = t.at
    BY <1>1 DEF Rows
<1>3. tasks' = (tasks \ {t}) \cup {u} /\ UNCHANGED <<epics, retired, grouped, lastId, source, setting>>
    BY DEF FinishTask
<1> HIDE DEF u
<1>4. Store' \in Stores
    BY <1>1, <1>2, <1>3, StoreFields, StoreFieldsAfter DEF Stores, Store
<1>5. Sound(Store')
    BY <1>1, <1>2, <1>3, <1>4, StoreFields, StoreFieldsAfter DEF Sound
<1>6. IngestTypes'
    BY <1>3, <1>5, SettingRests DEF IngestTypes
<1>7. KeepsManualTasks
    BY <1>2, <1>3 DEF KeepsManualTasks
<1>8. ASSUME OnePlace, Settled(Store)
      PROVE  Settled(Store') /\ ReplacesNoRow /\ UNCHANGED <<Shown, retired, source>>
    <2>1. Inside(Store') /\ KeepsRows(Store, Store') /\ ShownIn(Store') = ShownIn(Store)
        BY <1>2, <1>3, <1>8, StoreFields, StoreFieldsAfter
        DEF Settled, One, Inside, KeepsRows, ShownIn, FeedRow
    <2>2. One(Store')
        BY <1>2, <1>3, <1>8, StoreFields, StoreFieldsAfter DEF Settled, One, FeedRow
    <2>3. Shown = ShownIn(Store)
        BY <1>1, <1>8, ShownIsShown, StoreFields DEF Shown, Settled
    <2>4. Shown' = ShownIn(Store')
        BY <1>5, <2>1, ShownIsShown, StoreFieldsAfter DEF Shown, ItemsOf
    <2>5. Settled(Store')
        BY <1>3, <1>8, <2>1, <2>2, StoreFields, StoreFieldsAfter DEF Settled
    <2> QED BY <1>1, <1>3, <1>5, <2>1, <2>3, <2>4, <2>5, RowsAreKept
<1> QED BY <1>6, <1>7, <1>8 DEF Owed

(* Tasks moved to epics that are made for them where they are missing.     *)
LEMMA RelinkOwed ==
    ASSUME IngestTypes, NEW E \in SUBSET Paths, NEW rows \in SUBSET tasks,
           NEW target \in [rows -> epics \cup E],
           Commit(Relinked([Store EXCEPT !.epics = @ \cup E], rows, target)),
           UNCHANGED <<grouped, source, setting>>,
           OnePlace => \A t \in rows : FeedRow(t) /\ t.at # Aside => target[t] # Aside
    PROVE  Owed
<1> DEFINE se == [Store EXCEPT !.epics = @ \cup E]
           s2 == Relinked(se, rows, target)
           at == [t \in se.tasks |-> IF t \in rows THEN target[t] ELSE t.at]
<1>1. Sound(Store)
    BY DEF IngestTypes
<1>2. /\ Sound(se) /\ se.epics = epics \cup E /\ se.tasks = tasks
      /\ se.retired = retired /\ se.lastId = lastId
    <2> HIDE DEF se
    <2>1. se = [Store EXCEPT !.epics = @ \cup E]
        BY DEF se
    <2> QED BY <2>1, <1>1, AddedEpics, StoreFields
<1>3. Commit(s2)
    OBVIOUS
<1> HIDE DEF se
<1>4. /\ Sound(s2) /\ s2.retired = retired /\ Moved(se, s2, at)
    <2>1. rows \in SUBSET se.tasks /\ target \in [rows -> se.epics]
        BY <1>2
    <2> HIDE DEF s2
    <2>2. s2 = Relinked(se, rows, target)
        BY DEF s2
    <2> QED BY <2>1, <2>2, <1>2, RelinkedRows
<1> HIDE DEF s2
<1>5. Store' = s2 /\ Sound(Store') /\ lastId' <= MaxTasks
    BY <1>3, <1>4, Committed
<1>6. /\ KeepsManual(se, s2) /\ ShownIn(s2) = ShownIn(se)
      /\ One(se) => One(s2) /\ KeepsRows(se, s2)
      /\ Inside(se) /\ (\A t \in se.tasks : FeedRow(t) => at[t] # Aside) => Inside(s2)
    <2> HIDE DEF at
    <2> QED BY <1>2, <1>4, MovedIsKept
<1>7. /\ KeepsManual(Store, s2) /\ ShownIn(s2) = ShownIn(Store)
    BY <1>2, <1>6, StoreFields DEF KeepsManual, ShownIn
<1>8. ASSUME OnePlace, Settled(Store)
      PROVE  One(s2) /\ KeepsRows(Store, s2) /\ Inside(s2)
    <2>1. One(se) /\ Inside(se)
        BY <1>2, <1>8, StoreFields DEF Settled, One, Inside
    <2>2. \A t \in se.tasks : FeedRow(t) => at[t] # Aside
        BY <2>1, <1>2, <1>8 DEF Inside
    <2>3. KeepsRows(Store, s2)
        BY <2>1, <1>2, <1>6, StoreFields DEF KeepsRows
    <2> QED BY <2>1, <2>2, <2>3, <1>6
<1>9. retired' = retired
    BY <1>4, <1>5, StoreFieldsAfter
<1>10. grouped' \subseteq Grouping /\ (grouped' # {} => "toggle" \in Ops)
    BY DEF IngestTypes
<1> QED BY <1>5, <1>7, <1>8, <1>9, <1>10, MovingStep

(* A task somebody moves is the row it was.                                *)
LEMMA SetTaskEpicOwed ==
    ASSUME IngestTypes, NEW t \in tasks, NEW epic \in epics, SetTaskEpic(t, epic)
    PROVE  Owed
<1> DEFINE at == Routed(epic, PathRepo[t.item])
           target == [row \in {t} |-> at]
<1>1. epic \in Paths /\ grouped \subseteq Grouping /\ t.item \in Item \cup {Manual}
    BY StoreFields DEF IngestTypes, Sound, Stores, Rows
<1>2. at \in Paths
    BY <1>1, IngestAssumption, RoutedFacts
<1>3. /\ Commit(Relinked([Store EXCEPT !.epics = @ \cup {at}], {t}, target))
      /\ UNCHANGED <<grouped, source, setting>>
      /\ IF Aside \in {at, t.at} THEN "move out" \in Ops ELSE "move" \in Ops
    BY DEF SetTaskEpic
<1> HIDE DEF at
<1>4. OnePlace => at # Aside
    BY <1>3 DEF OnePlace
<1> DEFINE E == {at}
           rows == {t}
<1>5. /\ E \in SUBSET Paths /\ rows \in SUBSET tasks /\ target \in [rows -> epics \cup E]
      /\ OnePlace => \A row \in rows : target[row] # Aside
      /\ Commit(Relinked([Store EXCEPT !.epics = @ \cup E], rows, target))
      /\ UNCHANGED <<grouped, source, setting>>
    BY <1>2, <1>3, <1>4
<1> HIDE DEF target, E, rows
<1>6. OnePlace => \A row \in rows : FeedRow(row) /\ row.at # Aside => target[row] # Aside
    BY <1>5
<1> QED BY <1>5, <1>6, RelinkOwed

(* Grouping moves rows to the groups of their repositories.                *)
LEMMA RegroupOwed ==
    ASSUME IngestTypes, NEW epic \in epics, RegroupEpic(epic)
    PROVE  Owed
<1> DEFINE rows == {t \in tasks : t.at = epic}
           target == [t \in rows |-> Routed(epic, PathRepo[t.item])]
<1>1. /\ epic \in RoleEpics /\ UNCHANGED <<grouped, source, setting>>
      /\ Commit(Relinked([Store EXCEPT !.epics = @ \cup Range(target)], rows, target))
    BY DEF RegroupEpic
<1>2. /\ epic \in Paths /\ grouped \subseteq Grouping
      /\ \A t \in rows : t.item \in Item \cup {Manual} /\ PathRepo[t.item] \in Repo
    BY StoreFields, IngestAssumption DEF IngestTypes, Sound, Stores, Rows
<1>3. \A t \in rows : target[t] = Routed(epic, PathRepo[t.item])
    OBVIOUS
<1>4. epic # Aside
    BY <1>1, RoleEpicFacts, RootFacts
<1>5. Range(target) = {target[t] : t \in rows}
    BY DEF Range
<1>6. target = [t \in rows |-> target[t]]
    OBVIOUS
<1>7. rows \in SUBSET tasks
    OBVIOUS
<1> HIDE DEF rows, target
<1>8. \A t \in rows : target[t] \in Paths /\ target[t] # Aside
    BY <1>2, <1>3, <1>4, RoutedFacts
<1>9. Range(target) \in SUBSET Paths /\ target \in [rows -> epics \cup Range(target)]
    BY <1>5, <1>6, <1>8
<1> QED BY <1>1, <1>7, <1>8, <1>9, RelinkOwed

(* Flattening moves rows to the role epic of their groups.                 *)
LEMMA FlattenOwed ==
    ASSUME IngestTypes, NEW epic \in epics, FlattenEpic(epic)
    PROVE  Owed
<1> DEFINE s2 == Flattened(Store, epic)
           at == [t \in Store.tasks |-> IF t.at \in Children(Store, epic) THEN epic ELSE t.at]
<1>1. /\ epic \in RoleEpics /\ Commit(s2) /\ UNCHANGED <<grouped, source, setting>>
    BY DEF FlattenEpic
<1>2. Sound(Store) /\ epic \in Store.epics
    BY StoreFields DEF IngestTypes
<1>3. Sound(s2) /\ s2.retired = retired /\ Moved(Store, s2, at)
    BY <1>2, FlattenedRows, StoreFields
<1> HIDE DEF s2
<1>4. epic # Aside
    BY <1>1, RoleEpicFacts, RootFacts
<1>5. Store' = s2 /\ Sound(Store') /\ lastId' <= MaxTasks
    BY <1>1, <1>3, Committed
<1>6. Inside(Store) => \A t \in Store.tasks : FeedRow(t) => at[t] # Aside
    BY <1>4 DEF Inside
<1> HIDE DEF at
<1>7. /\ KeepsManual(Store, s2) /\ ShownIn(s2) = ShownIn(Store)
      /\ One(Store) => One(s2) /\ KeepsRows(Store, s2)
      /\ Inside(Store) => Inside(s2)
    BY <1>2, <1>3, <1>6, MovedIsKept
<1>8. retired' = retired
    BY <1>3, <1>5, StoreFieldsAfter
<1>9. grouped' \subseteq Grouping /\ (grouped' # {} => "toggle" \in Ops)
    BY <1>1 DEF IngestTypes
<1> QED BY <1>1, <1>5, <1>7, <1>8, <1>9, MovingStep DEF Settled

(* A deleted task's item is retired.                                       *)
LEMMA DeleteTaskOwed ==
    ASSUME IngestTypes, NEW t \in tasks, DeleteTask(t)
    PROVE  Owed
<1>1. /\ t.done /\ tasks' = tasks \ {t} /\ retired' = retired \cup Retires({t})
      /\ UNCHANGED <<epics, grouped, lastId, source, setting>>
    BY DEF DeleteTask
<1>2. {Feed, Aside} \subseteq epics /\ \A u \in tasks : u.at \in epics
    BY StoreFields DEF IngestTypes, Sound
<1> DEFINE rows == {t}
<1>3. /\ rows \in SUBSET tasks /\ (\A u \in rows : u.done)
      /\ tasks' = tasks \ rows /\ retired' = retired \cup Retires(rows)
    BY <1>1
<1> HIDE DEF rows
<1> QED BY <1>1, <1>2, <1>3, RemovingStep

(* The items of all tasks in a deleted sub-epic are retired.               *)
LEMMA DeleteEpicOwed ==
    ASSUME IngestTypes, NEW epic \in epics, DeleteEpic(epic)
    PROVE  Owed
<1> DEFINE rows == {t \in tasks : t.at \in Under(epic)}
<1>1. /\ epic \in epics \ {Feed, Aside}
      /\ \A t \in rows : t.done
      /\ tasks' = tasks \ rows /\ retired' = retired \cup Retires(rows)
      /\ epics' = epics \ Under(epic) /\ grouped' = grouped \ Under(epic)
      /\ UNCHANGED <<lastId, source, setting>>
    BY DEF DeleteEpic
<1>2. /\ {Feed, Aside} \subseteq epics /\ epics \subseteq Paths
      /\ \A t \in tasks : t.at \in epics
    BY StoreFields DEF IngestTypes, Sound, Stores
<1>3. Feed \notin Under(epic) /\ Aside \notin Under(epic)
    BY <1>1, <1>2, NotBelow DEF Under
<1>4. rows \in SUBSET tasks /\ \A t \in tasks \ rows : t.at \notin Under(epic)
    OBVIOUS
<1> HIDE DEF rows
<1>5. /\ epics' \subseteq epics /\ {Feed, Aside} \subseteq epics'
      /\ (\A t \in tasks' : t.at \in epics') /\ grouped' \subseteq grouped
    BY <1>1, <1>2, <1>3, <1>4
<1> QED BY <1>1, <1>4, <1>5, RemovingStep

(* The flag of an epic moves no task.                                      *)
LEMMA ToggleOwed ==
    ASSUME IngestTypes, NEW epic \in epics, ToggleGroupByRepo(epic)
    PROVE  Owed
<1>1. /\ "toggle" \in Ops /\ grouped' \subseteq grouped \cup {epic} /\ epic \in Grouping
      /\ UNCHANGED <<epics, tasks, retired, lastId, source, setting>>
    BY DEF ToggleGroupByRepo
<1>2. Store' = Store
    BY <1>1 DEF Store
<1>3. Sound(Store) /\ lastId <= MaxTasks /\ grouped \subseteq Grouping
    BY DEF IngestTypes
<1>4. KeepsManual(Store, Store) /\ (One(Store) => KeepsRows(Store, Store))
    BY DEF KeepsManual, KeepsRows, One, FeedRow, Same
<1> QED BY <1>1, <1>2, <1>3, <1>4, MovingStep DEF Settled

-----------------------------------------------------------------------------
(* The invariant and what follows from it.                                 *)

(* Where rows stay under the feed epic, each item has one row, there, and  *)
(* no item shown is retired.  Both parts are needed: a row aside, or a     *)
(* retired item still shown, is one the next emission would double.        *)
IngestInv == IngestTypes /\ (OnePlace => Settled(Store))

(* The invariant holds before the first emission.                          *)
LEMMA IngestInvInit == IngestInit => IngestInv
<1> SUFFICES ASSUME IngestInit PROVE IngestInv
    OBVIOUS
<1>1. /\ setting \in IngestSettings /\ tasks = {} /\ retired = {} /\ grouped = {} /\ lastId = 0
      /\ epics = {Feed, Aside}
    BY DEF IngestInit
<1>2. Store \in Stores
    BY <1>1 DEF Store, Stores, Paths
<1>3. Sound(Store)
    BY <1>1, <1>2, StoreFields DEF Sound
<1>4. lastId <= MaxTasks
    BY <1>1, IngestAssumption DEF MaxTasks
<1>5. Settled(Store)
    BY <1>1, StoreFields DEF Settled, One, Inside, ShownIn
<1> QED BY <1>1, <1>3, <1>4, <1>5 DEF IngestInv, IngestTypes

(* Every action owes what the invariant and the properties need.           *)
LEMMA IngestStep == IngestTypes /\ IngestNext => Owed
<1> SUFFICES ASSUME IngestTypes, IngestNext PROVE Owed
    OBVIOUS
<1>1. ASSUME NEW emission \in SUBSET setting.items, NEW additive \in BOOLEAN,
             NEW signals \in SignalsOf(emission), IngestFeed(emission, signals, additive)
      PROVE  Owed
    BY <1>1, IngestOwed
<1>2. ASSUME NEW epic \in epics,
             \/ CreateManualTask(epic) \/ DeleteEpic(epic) \/ ToggleGroupByRepo(epic)
             \/ RegroupEpic(epic) \/ FlattenEpic(epic)
      PROVE  Owed
    BY <1>2, CreateOwed, DeleteEpicOwed, ToggleOwed, RegroupOwed, FlattenOwed
<1>3. ASSUME NEW t \in tasks,
             FinishTask(t) \/ DeleteTask(t) \/ \E epic \in epics : SetTaskEpic(t, epic)
      PROVE  Owed
    BY <1>3, FinishOwed, DeleteTaskOwed, SetTaskEpicOwed
<1> QED BY <1>1, <1>2, <1>3 DEF IngestNext, SignalsOf

(* No action changes the setting.                                          *)
LEMMA SettingStays == IngestTypes /\ IngestNext => UNCHANGED setting
BY DEF IngestNext, IngestFeed, CreateManualTask, SetTaskEpic, FinishTask, DeleteTask, DeleteEpic,
       ToggleGroupByRepo, RegroupEpic, FlattenEpic

(* The invariant is inductive.                                             *)
LEMMA IngestInvStep == IngestInv /\ [IngestNext]_ingestVars => IngestInv'
<1> SUFFICES ASSUME IngestInv, [IngestNext]_ingestVars PROVE IngestInv'
    OBVIOUS
<1>1. CASE IngestNext
    <2>1. Owed /\ UNCHANGED setting
        BY <1>1, IngestStep, SettingStays DEF IngestInv
    <2>2. OnePlace' = OnePlace
        BY <2>1, SettingRests DEF OnePlace
    <2>3. Settled(Store') => Settled(Store)'
        BY DEF Settled, One, Inside, ShownIn, FeedRow
    <2> QED BY <2>1, <2>2, <2>3 DEF IngestInv, Owed
<1>2. CASE UNCHANGED ingestVars
    <2>1. /\ Store' = Store /\ UNCHANGED <<setting, grouped, lastId>>
        BY <1>2 DEF ingestVars, Store
    <2>2. OnePlace' = OnePlace
        BY <2>1, SettingRests DEF OnePlace
    <2>3. IngestTypes'
        BY <2>1, SettingRests DEF IngestInv, IngestTypes
    <2>4. Settled(Store) => Settled(Store)'
        BY <2>1 DEF Settled, One, Inside, ShownIn, FeedRow
    <2> QED BY <2>2, <2>3, <2>4 DEF IngestInv
<1> QED BY <1>1, <1>2

(* So it holds always.                                                     *)
LEMMA IngestInvariant == IngestSpec => []IngestInv
BY IngestInvInit, IngestInvStep, PTL DEF IngestSpec

(* One row of an item in the store is one task in the subtree.             *)
LEMMA OneTaskFollows == IngestInv => OneTaskPerItem
<1> SUFFICES ASSUME IngestInv PROVE OneTaskPerItem
    OBVIOUS
<1>1. Sound(Store) /\ Store \in Stores /\ setting \in IngestSettings
    BY DEF IngestInv, IngestTypes, Sound
<1>2. /\ {Feed, Aside} \subseteq epics /\ epics \subseteq Paths
      /\ tasks \subseteq Rows /\ \A t \in tasks : t.id \in 1..lastId /\ t.at \in epics
    BY <1>1, StoreFields DEF Sound, Stores
<1>3. lastId \in Nat /\ retired \subseteq Item /\ MaxTasks \in Nat
    BY <1>1, StoreFields, IngestAssumption DEF Stores, MaxTasks
<1>4. IngestTypeOK
    BY <1>2, <1>3 DEF IngestInv, IngestTypes, IngestTypeOK, Paths, Rows
<1>5. OnePlace => \A t, u \in tasks : t.item = u.item /\ t.item # Manual => t = u
    BY StoreFields DEF IngestInv, Settled, One, FeedRow
<1> QED BY <1>4, <1>5 DEF OneTaskPerItem

(***************************************************************************)
(* No two tasks under a feed epic are of one item, whatever the sequence   *)
(* of emissions, degraded ones, moves, deletes and changes of grouping: a  *)
(* reducer of ingest finds the row an item has, wherever it is, before it  *)
(* inserts one (index_existing, flatten_epic, upsert_feed_item).  For      *)
(* every setting in which rows stay under the feed epic (OnePlace).        *)
(***************************************************************************)
THEOREM FeedsHaveOneTaskPerItem == IngestSpec => []OneTaskPerItem
BY IngestInvariant, OneTaskFollows, PTL

(***************************************************************************)
(* The reconciles implement FeedMirror: what is shown under the epic is    *)
(* what the source last reported but for what people deleted, a degraded   *)
(* emission only adds, and a deleted item stays away until it closes       *)
(* (drop_closed_retired, delete_stale_feed_tasks_in_epic), by each of the  *)
(* three strategies and across changes of strategy.                        *)
(***************************************************************************)
THEOREM FeedsMirrorTheirSource == IngestSpec => MirrorsTheFeed
<1>1. IngestInit => Mirror!Init
    BY DEF IngestInit, Mirror!Init, Shown, ItemsOf
<1>2. IngestInv /\ [IngestNext]_ingestVars => [OnePlace => Mirror!Next]_(Mirror!vars)
    <2> SUFFICES ASSUME IngestInv, [IngestNext]_ingestVars
                 PROVE  (OnePlace => Mirror!Next) \/ UNCHANGED Mirror!vars
        OBVIOUS
    <2>1. CASE IngestNext
        BY <2>1, IngestStep DEF IngestInv, Owed, Mirror!vars
    <2>2. CASE UNCHANGED ingestVars
        BY <2>2 DEF ingestVars, Mirror!vars, Shown, ItemsOf
    <2> QED BY <2>1, <2>2
<1> QED BY <1>1, <1>2, IngestInvariant, PTL DEF IngestSpec, MirrorsTheFeed

(***************************************************************************)
(* A change of role, of place or of grouping keeps an item's task, so its  *)
(* agent keeps the worktree (ingest_role_routed moves before it deletes),  *)
(* and no reconcile removes a task that no feed made.                      *)
(***************************************************************************)
THEOREM ReconcilesMoveRows == IngestSpec => FeedRowsStay
<1>1. ASSUME IngestInv, [IngestNext]_ingestVars
      PROVE  [/\ OnePlace /\ (Reviews \/ "toggle" \notin Ops) => ReplacesNoRow
              /\ KeepsManualTasks]_ingestVars
    <2>1. CASE IngestNext
        BY <2>1, <1>1, IngestStep DEF IngestInv, Owed
    <2> QED BY <2>1, <1>1
<1> QED BY <1>1, IngestInvariant, PTL DEF IngestSpec, FeedRowsStay
=============================================================================
