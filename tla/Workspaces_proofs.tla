-------------------------- MODULE Workspaces_proofs --------------------------
(***************************************************************************)
(* Proofs about Workspaces: what hangs on sight follows it, for any        *)
(* people, workspaces, epics, tasks and packages and any forest of epics,  *)
(* and private work is exposed and deleted by its holder alone.            *)
(***************************************************************************)
EXTENDS Workspaces, FiniteSetTheorems, TLAPS

----------------------------------------------------------------------------
(* Lines of epics *)

(* The rows of a store.                                                    *)
LEMMA Rows ==
    ASSUME NEW s \in Store
    PROVE  /\ s.super \subseteq Person
           /\ s.ws \in [Workspace -> Life]
           /\ s.role \in [Workspace -> [Person -> Role]]
           /\ s.epic \in [Epic -> EpicRow]
           /\ s.task \in [Task -> TaskRow]
           /\ s.package \in [Package -> PackageRow]
           /\ s.follows \subseteq Person \X Epic
           /\ s.unseen \subseteq Person \X Task
           /\ s.bookmarks \subseteq Person \X Task
           /\ s.links \subseteq Package \X (Epic \cup Task)
           /\ s.epicClaim \in [Epic -> Person \cup {Nobody}]
           /\ s.taskClaim \in [Task -> Person \cup {Nobody}]
BY DEF Store

LEMMA EpicRows ==
    ASSUME NEW s \in Store, NEW e \in Epic
    PROVE  /\ s.epic[e] \in EpicRow
           /\ s.epic[e].life \in Life /\ s.epic[e].parent \in Epic \cup {Root}
           /\ s.epic[e].ws \in Workspace /\ s.epic[e].private \in BOOLEAN
           /\ s.epic[e].creator \in Person /\ s.epic[e].setter \in Person \cup {Nobody}
           /\ e \in Live(s.epic) <=> s.epic[e].life = "live"
BY Rows DEF EpicRow, Live

(* A line holds its epic and, with an epic, its parent, and is the least   *)
(* set that does.                                                          *)
LEMMA LineFacts ==
    ASSUME NEW s \in Store, NEW e \in Epic
    PROVE  /\ Line(s, e) \subseteq Epic
           /\ e \in Line(s, e)
           /\ UpClosed(s, Line(s, e))
           /\ \A es \in SUBSET Epic : e \in es /\ UpClosed(s, es) => Line(s, e) \subseteq es
<1>1. Line(s, e) \subseteq Epic /\ e \in Line(s, e)
    BY DEF Line
<1>2. \A es \in SUBSET Epic : e \in es /\ UpClosed(s, es) => Line(s, e) \subseteq es
    BY DEF Line
<1>3. ASSUME NEW x \in Line(s, e), s.epic[x].parent # Root PROVE s.epic[x].parent \in Line(s, e)
    <2>1. x \in Epic /\ s.epic[x].parent \in Epic
        BY <1>1, <1>3, EpicRows
    <2>2. ASSUME NEW es \in SUBSET Epic, e \in es, UpClosed(s, es) PROVE s.epic[x].parent \in es
        <3>1. x \in es
            BY <1>2, <2>2
        <3> QED BY <1>3, <2>2, <3>1 DEF UpClosed
    <2> QED BY <2>1, <2>2 DEF Line
<1> QED BY <1>1, <1>2, <1>3 DEF UpClosed

LEMMA LineGoesOn ==
    ASSUME NEW s \in Store, NEW e \in Epic, NEW x \in Line(s, e)
    PROVE  x \in Epic /\ Line(s, x) \subseteq Line(s, e)
BY LineFacts

(* From an epic a line goes on from its parent.                            *)
LEMMA LineByParent ==
    ASSUME NEW s \in Store, NEW e \in Epic
    PROVE  Line(s, e) = {e} \cup (IF s.epic[e].parent = Root THEN {}
                                  ELSE Line(s, s.epic[e].parent))
<1>1. CASE s.epic[e].parent = Root
    <2>1. UpClosed(s, {e})
        BY <1>1 DEF UpClosed
    <2> QED BY <1>1, <2>1, LineFacts
<1>2. CASE s.epic[e].parent # Root
    <2> DEFINE up == s.epic[e].parent
    <2>1. up \in Epic /\ up \in Line(s, e)
        BY <1>2, EpicRows, LineFacts DEF UpClosed
    <2>2. Line(s, up) \subseteq Line(s, e) /\ e \in Line(s, e)
        BY <2>1, LineGoesOn, LineFacts
    <2>3. Line(s, up) \subseteq Epic /\ up \in Line(s, up) /\ UpClosed(s, Line(s, up))
        BY <2>1, LineFacts
    <2>4. UpClosed(s, {e} \cup Line(s, up))
        BY <2>3 DEF UpClosed
    <2>5. Line(s, e) \subseteq {e} \cup Line(s, up)
        BY <2>3, <2>4, LineFacts
    <2> QED BY <1>2, <2>2, <2>5
<1> QED BY <1>1, <1>2

(* Of two epics on a line one is on the line of the other.                 *)
LEMMA LinesAreChains ==
    ASSUME NEW s \in Store, NEW e \in Epic, NEW x \in Line(s, e), NEW y \in Line(s, e)
    PROVE  x \in Line(s, y) \/ y \in Line(s, x)
<1> DEFINE es == {z \in Line(s, e) : x \in Line(s, z) \/ z \in Line(s, x)}
<1>1. Line(s, e) \subseteq Epic /\ e \in Line(s, e) /\ UpClosed(s, Line(s, e)) /\ x \in Epic
    BY LineFacts
<1>2. e \in es
    BY <1>1
<1>3. ASSUME NEW z \in es, s.epic[z].parent # Root PROVE s.epic[z].parent \in es
    <2>1. z \in Epic /\ s.epic[z].parent \in Line(s, e) /\ s.epic[z].parent \in Epic
        BY <1>1, <1>3 DEF UpClosed
    <2>2. CASE z \in Line(s, x)
        BY <1>1, <1>3, <2>1, <2>2, LineFacts DEF UpClosed
    <2>3. CASE x \in Line(s, z) /\ x # z
        BY <1>3, <2>1, <2>3, LineByParent
    <2>4. CASE x = z
        BY <1>1, <1>3, <2>1, <2>4, LineFacts DEF UpClosed
    <2> QED BY <1>3, <2>2, <2>3, <2>4
<1>4. UpClosed(s, es)
    BY <1>3 DEF UpClosed
<1>5. Line(s, e) \subseteq es
    <2> HIDE DEF es
    <2>1. es \subseteq Epic
        BY <1>1 DEF es
    <2> QED BY <1>2, <1>4, <2>1, LineFacts
<1> QED BY <1>5

(* A line and the holder at its start are those of any store that has the  *)
(* same rows on it.                                                        *)
LEMMA LinesAgree ==
    ASSUME NEW s \in Store, NEW r \in Store, NEW e \in Epic,
           \A x \in Line(s, e) : r.epic[x].parent = s.epic[x].parent
    PROVE  Line(r, e) = Line(s, e)
<1>1. /\ Line(s, e) \subseteq Epic /\ e \in Line(s, e) /\ UpClosed(s, Line(s, e))
      /\ Line(r, e) \subseteq Epic /\ e \in Line(r, e) /\ UpClosed(r, Line(r, e))
    BY LineFacts
<1>2. UpClosed(r, Line(s, e))
    BY <1>1 DEF UpClosed
<1>3. Line(r, e) \subseteq Line(s, e)
    BY <1>1, <1>2, LineFacts
<1>4. UpClosed(s, Line(r, e))
    BY <1>1, <1>3 DEF UpClosed
<1>5. Line(s, e) \subseteq Line(r, e)
    BY <1>1, <1>4, LineFacts
<1> QED BY <1>3, <1>5

LEMMA HoldersAgree ==
    ASSUME NEW s \in Store, NEW r \in Store, NEW e \in Epic,
           \A x \in Line(s, e) : /\ r.epic[x].parent = s.epic[x].parent
                                 /\ r.epic[x].private = s.epic[x].private
                                 /\ r.epic[x].creator = s.epic[x].creator
    PROVE  Line(r, e) = Line(s, e) /\ PrivateHolder(r, e) = PrivateHolder(s, e)
<1>1. Line(r, e) = Line(s, e)
    BY LinesAgree
<1>2. \A x \in Line(s, e) : Line(r, x) = Line(s, x)
    BY LineGoesOn, LinesAgree
<1> DEFINE private == {x \in Line(s, e) : s.epic[x].private}
           nearest == {x \in private : private \subseteq Line(s, x)}
<1>3. {x \in Line(r, e) : r.epic[x].private} = private
    BY <1>1
<1>4. {x \in private : private \subseteq Line(r, x)} = nearest
    BY <1>2
<1>5. nearest # {} => r.epic[CHOOSE x \in nearest : TRUE].creator = s.epic[CHOOSE x \in nearest : TRUE].creator
    <2>1. nearest # {} => (CHOOSE x \in nearest : TRUE) \in nearest
        OBVIOUS
    <2> QED BY <2>1
<1> HIDE DEF nearest
<1>6. PrivateHolder(r, e) = IF nearest = {} THEN Nobody ELSE r.epic[CHOOSE x \in nearest : TRUE].creator
    BY <1>3, <1>4 DEF PrivateHolder
<1>7. PrivateHolder(s, e) = IF nearest = {} THEN Nobody ELSE s.epic[CHOOSE x \in nearest : TRUE].creator
    BY DEF PrivateHolder, nearest
<1> QED BY <1>1, <1>5, <1>6, <1>7

LEMMA LineIsWhole ==
    ASSUME NEW s \in Store, NEW e \in Live(s.epic), SubEpicSharesItsParentsWorkspace(s)
    PROVE  \A x \in Line(s, e) : x \in Live(s.epic) /\ s.epic[x].ws = s.epic[e].ws
<1> DEFINE es == {x \in Live(s.epic) : s.epic[x].ws = s.epic[e].ws}
<1>1. es \in SUBSET Epic /\ e \in es /\ e \in Epic
    BY Rows DEF Live
<1>2. UpClosed(s, es)
    BY DEF UpClosed, SubEpicSharesItsParentsWorkspace
<1> HIDE DEF es
<1>3. Line(s, e) \subseteq es
    BY <1>1, <1>2, LineFacts
<1> QED BY <1>3 DEF es

(* The holder of an epic, by its own row and its parent.                   *)
LEMMA HolderIsAPerson ==
    ASSUME NEW s \in Store, NEW e \in Epic
    PROVE  PrivateHolder(s, e) \in Person \cup {Nobody}
<1> DEFINE nearest == {x \in {y \in Line(s, e) : s.epic[y].private} :
                           {y \in Line(s, e) : s.epic[y].private} \subseteq Line(s, x)}
<1>1. PrivateHolder(s, e) = IF nearest = {} THEN Nobody ELSE s.epic[CHOOSE x \in nearest : TRUE].creator
    BY DEF PrivateHolder
<1>2. nearest # {} => (CHOOSE x \in nearest : TRUE) \in nearest
    OBVIOUS
<1>3. nearest \subseteq Epic
    BY LineFacts
<1> HIDE DEF nearest
<1> QED BY <1>1, <1>2, <1>3, EpicRows

LEMMA HolderOfAPrivateEpic ==
    ASSUME NEW s \in Store, NEW e \in Live(s.epic), s.epic[e].private,
           NoCycles(s), SubEpicSharesItsParentsWorkspace(s)
    PROVE  PrivateHolder(s, e) = s.epic[e].creator
<1> DEFINE private == {x \in Line(s, e) : s.epic[x].private}
           nearest == {x \in private : private \subseteq Line(s, x)}
<1>0. e \in Epic
    BY Rows DEF Live
<1>1. e \in Line(s, e) /\ e \in nearest
    BY <1>0, LineFacts
<1>2. ASSUME NEW x \in nearest, x # e PROVE FALSE
    <2>1. x \in Line(s, e) /\ e \in Line(s, x) /\ x \in Epic
        BY <1>0, <1>1, LineGoesOn
    <2>2. s.epic[e].parent # Root /\ x \in Line(s, s.epic[e].parent) /\ s.epic[e].parent \in Epic
        BY <1>0, <1>2, <2>1, LineByParent, EpicRows
    <2>3. e \in Line(s, s.epic[e].parent)
        BY <2>1, <2>2, LineGoesOn
    <2> QED BY <2>2, <2>3 DEF NoCycles
<1>3. nearest = {e}
    BY <1>1, <1>2
<1>4. PrivateHolder(s, e) = IF nearest = {} THEN Nobody ELSE s.epic[CHOOSE x \in nearest : TRUE].creator
    BY DEF PrivateHolder
<1> HIDE DEF nearest
<1> QED BY <1>3, <1>4

(* The holder depends on the private epics of the line alone.              *)
LEMMA SamePrivateLine ==
    ASSUME NEW s \in Store, NEW e \in Epic, NEW d \in Epic,
           {x \in Line(s, e) : s.epic[x].private} = {x \in Line(s, d) : s.epic[x].private}
    PROVE  PrivateHolder(s, e) = PrivateHolder(s, d)
<1> DEFINE private == {x \in Line(s, e) : s.epic[x].private}
           others == {x \in Line(s, d) : s.epic[x].private}
           Holder(set) == LET nearest == {x \in set : set \subseteq Line(s, x)}
                          IN  IF nearest = {} THEN Nobody
                              ELSE s.epic[CHOOSE x \in nearest : TRUE].creator
<1>1. PrivateHolder(s, e) = Holder(private) /\ PrivateHolder(s, d) = Holder(others)
    BY DEF PrivateHolder
<1>2. private = others
    OBVIOUS
<1> HIDE DEF private, others
<1> QED BY <1>1, <1>2

LEMMA HolderOfAPublicEpic ==
    ASSUME NEW s \in Store, NEW e \in Epic, ~s.epic[e].private
    PROVE  PrivateHolder(s, e) = IF s.epic[e].parent = Root THEN Nobody
                                 ELSE PrivateHolder(s, s.epic[e].parent)
<1>1. CASE s.epic[e].parent = Root
    <2>1. {x \in Line(s, e) : s.epic[x].private} = {}
        BY <1>1, LineByParent
    <2> QED BY <1>1, <2>1 DEF PrivateHolder
<1>2. CASE s.epic[e].parent # Root
    <2>1. Line(s, e) = {e} \cup Line(s, s.epic[e].parent)
        BY <1>2, LineByParent
    <2>2. {x \in Line(s, e) : s.epic[x].private} = {x \in Line(s, s.epic[e].parent) : s.epic[x].private}
        BY <2>1
    <2> QED BY <1>2, <2>2, SamePrivateLine, EpicRows
<1> QED BY <1>1, <1>2

(* Stores whose forests are the same but for some epics.                   *)
SameTreesBut(s, r, es) ==
    \A x \in Epic \ es : /\ r.epic[x].parent = s.epic[x].parent
                         /\ r.epic[x].private = s.epic[x].private
                         /\ r.epic[x].creator = s.epic[x].creator

LEMMA SameTrees ==
    ASSUME NEW s \in Store, NEW r \in Store, SameTreesBut(s, r, {})
    PROVE  \A x \in Epic : Line(r, x) = Line(s, x) /\ PrivateHolder(r, x) = PrivateHolder(s, x)
BY HoldersAgree, LineGoesOn DEF SameTreesBut

LEMMA BesideTheChange ==
    ASSUME NEW s \in Store, NEW r \in Store, NEW e \in Epic, SameTreesBut(s, r, {e}),
           NEW x \in Epic, e \notin Line(s, x)
    PROVE  Line(r, x) = Line(s, x) /\ PrivateHolder(r, x) = PrivateHolder(s, x)
BY HoldersAgree, LineGoesOn DEF SameTreesBut

(* A line that meets the changed epic is as it was up to there and goes on *)
(* from it.                                                                *)
Below(s, e, x) == {z \in Line(s, x) : e \in Line(s, z)} \ {e}

LEMMA LineThroughTheChange ==
    ASSUME NEW s \in Store, NEW r \in Store, NEW e \in Epic, SameTreesBut(s, r, {e}),
           s.epic[e].parent # Root => e \notin Line(s, s.epic[e].parent),
           NEW x \in Epic, e \in Line(s, x)
    PROVE  Line(r, x) = Below(s, e, x) \cup Line(r, e)
<1> DEFINE all == Below(s, e, x) \cup Line(r, e)
           kept == {z \in Line(s, x) : e \in Line(s, z) => z \in Line(r, x)}
<1>1. /\ Line(s, x) \subseteq Epic /\ x \in Line(s, x) /\ UpClosed(s, Line(s, x))
      /\ Line(r, e) \subseteq Epic /\ e \in Line(r, e) /\ UpClosed(r, Line(r, e))
      /\ Line(r, x) \subseteq Epic /\ x \in Line(r, x) /\ UpClosed(r, Line(r, x))
    BY LineFacts
<1>2. ASSUME NEW z \in all, r.epic[z].parent # Root PROVE r.epic[z].parent \in all
    <2>1. CASE z \in Line(r, e)
        BY <1>1, <1>2, <2>1 DEF UpClosed
    <2>2. CASE z \in Below(s, e, x)
        <3>1. z \in Epic /\ z # e /\ z \in Line(s, x) /\ e \in Line(s, z)
            BY <1>1, <2>2 DEF Below
        <3>2. r.epic[z].parent = s.epic[z].parent
            BY <3>1 DEF SameTreesBut
        <3>3. s.epic[z].parent \in Line(s, x)
            BY <1>1, <1>2, <3>1, <3>2 DEF UpClosed
        <3>4. e \in Line(s, s.epic[z].parent)
            BY <1>2, <3>1, <3>2, LineByParent
        <3> QED BY <1>1, <3>2, <3>3, <3>4 DEF Below
    <2> QED BY <2>1, <2>2
<1>3. Line(r, x) \subseteq all
    <2>1. UpClosed(r, all)
        BY <1>2 DEF UpClosed
    <2>2. x \in all /\ all \in SUBSET Epic
        BY <1>1 DEF Below
    <2> HIDE DEF all
    <2> QED BY <2>1, <2>2, LineFacts
<1>4. ASSUME NEW z \in kept, s.epic[z].parent # Root PROVE s.epic[z].parent \in kept
    <2>1. z \in Epic /\ z \in Line(s, x) /\ s.epic[z].parent \in Line(s, x)
        BY <1>1, <1>4 DEF UpClosed
    <2>2. ASSUME e \in Line(s, s.epic[z].parent) PROVE s.epic[z].parent \in Line(r, x)
        <3>1. e \in Line(s, z) /\ z # e
            BY <1>4, <2>1, <2>2, LineByParent
        <3>2. r.epic[z].parent = s.epic[z].parent
            BY <2>1, <3>1 DEF SameTreesBut
        <3> QED BY <1>1, <1>4, <3>1, <3>2 DEF UpClosed
    <2> QED BY <2>1, <2>2
<1>5. Line(s, x) \subseteq kept
    <2>1. UpClosed(s, kept)
        BY <1>4 DEF UpClosed
    <2>2. x \in kept /\ kept \in SUBSET Epic
        BY <1>1
    <2> HIDE DEF kept
    <2> QED BY <2>1, <2>2, LineFacts
<1>6. e \in Line(r, x) /\ Below(s, e, x) \subseteq Line(r, x)
    BY <1>5, LineFacts DEF Below
<1>7. Line(r, e) \subseteq Line(r, x)
    BY <1>6, LineGoesOn
<1> QED BY <1>3, <1>6, <1>7

(* A change at an epic that leaves no cycle there.                         *)
ChangedAt(s, r, e) ==
    /\ SameTreesBut(s, r, {e})
    /\ s.epic[e].parent # Root => e \notin Line(s, s.epic[e].parent)
    /\ r.epic[e].parent # Root => e \notin Line(r, r.epic[e].parent)

(* Where an epic below the changed one is private, the nearest is there.   *)
PrivateBelow(s, e, x) == {y \in Below(s, e, x) : s.epic[y].private}

LEMMA NearestBelow ==
    ASSUME NEW s \in Store, NEW r \in Store, NEW e \in Epic, ChangedAt(s, r, e),
           NEW x \in Epic, e \in Line(s, x), PrivateBelow(s, e, x) # {}
    PROVE  {y \in {z \in Line(r, x) : r.epic[z].private} :
                {z \in Line(r, x) : r.epic[z].private} \subseteq Line(r, y)}
           = {y \in PrivateBelow(s, e, x) : PrivateBelow(s, e, x) \subseteq Below(s, e, y)}
<1> DEFINE below == PrivateBelow(s, e, x)
           private == {z \in Line(r, x) : r.epic[z].private}
<1>1. Line(r, x) = Below(s, e, x) \cup Line(r, e)
    BY LineThroughTheChange DEF ChangedAt
<1>2. ASSUME NEW y \in Below(s, e, x)
      PROVE  /\ y \in Epic /\ y # e /\ e \in Line(s, y)
             /\ Line(r, y) = Below(s, e, y) \cup Line(r, e)
             /\ r.epic[y].private = s.epic[y].private
    <2>1. y \in Epic /\ y # e /\ e \in Line(s, y)
        BY LineFacts DEF Below
    <2> QED BY <2>1, LineThroughTheChange DEF ChangedAt, SameTreesBut
<1>3. ASSUME NEW y \in Below(s, e, x), y \in Line(r, e) PROVE FALSE
    <2>1. r.epic[e].parent # Root /\ y \in Line(r, r.epic[e].parent) /\ r.epic[e].parent \in Epic
        BY <1>2, <1>3, LineByParent, EpicRows
    <2>2. e \in Line(r, y)
        BY <1>2, LineFacts
    <2>3. e \in Line(r, r.epic[e].parent)
        BY <2>1, <2>2, LineGoesOn
    <2> QED BY <2>1, <2>3 DEF ChangedAt
<1>4. below \subseteq private /\ below \subseteq Below(s, e, x) /\ below \cap Line(r, e) = {}
      /\ private \subseteq below \cup Line(r, e)
    BY <1>1, <1>2, <1>3 DEF PrivateBelow
<1>5. ASSUME NEW y \in private, private \subseteq Line(r, y) PROVE y \in below /\ below \subseteq Below(s, e, y)
    <2>1. y \notin Line(r, e)
        BY <1>4, <1>5, LineGoesOn
    <2> QED BY <1>2, <1>4, <1>5, <2>1
<1>6. ASSUME NEW y \in below, below \subseteq Below(s, e, y) PROVE y \in private /\ private \subseteq Line(r, y)
    BY <1>2, <1>4, <1>6
<1> QED BY <1>5, <1>6

(* The holder below a change is who it was, or the holder of the changed   *)
(* epic before and after.                                                  *)
LEMMA HolderBelowTheChange ==
    ASSUME NEW s \in Store, NEW r \in Store, NEW e \in Epic, ChangedAt(s, r, e),
           NEW x \in Epic, e \in Line(s, x)
    PROVE  \/ PrivateHolder(r, x) = PrivateHolder(s, x)
           \/ /\ PrivateHolder(s, x) = PrivateHolder(s, e)
              /\ PrivateHolder(r, x) = PrivateHolder(r, e)
<1>1. ChangedAt(s, s, e)
    BY DEF ChangedAt, SameTreesBut
<1>2. /\ Line(r, x) = Below(s, e, x) \cup Line(r, e)
      /\ Line(s, x) = Below(s, e, x) \cup Line(s, e)
    BY <1>1, LineThroughTheChange DEF ChangedAt
<1>3. \A y \in Below(s, e, x) : y \in Epic /\ r.epic[y].private = s.epic[y].private
                                /\ r.epic[y].creator = s.epic[y].creator
    BY LineFacts DEF Below, ChangedAt, SameTreesBut
<1>4. CASE PrivateBelow(s, e, x) = {}
    <2>1. {z \in Line(s, x) : s.epic[z].private} = {z \in Line(s, e) : s.epic[z].private}
        BY <1>2, <1>4 DEF PrivateBelow
    <2>2. {z \in Line(r, x) : r.epic[z].private} = {z \in Line(r, e) : r.epic[z].private}
        BY <1>2, <1>3, <1>4 DEF PrivateBelow
    <2> QED BY <2>1, <2>2, SamePrivateLine
<1>5. CASE PrivateBelow(s, e, x) # {}
    <2> DEFINE nearest == {y \in PrivateBelow(s, e, x) : PrivateBelow(s, e, x) \subseteq Below(s, e, y)}
    <2>1. nearest # {} => (CHOOSE y \in nearest : TRUE) \in Below(s, e, x)
        BY DEF PrivateBelow
    <2> DEFINE after == {y \in {z \in Line(r, x) : r.epic[z].private} :
                             {z \in Line(r, x) : r.epic[z].private} \subseteq Line(r, y)}
               before == {y \in {z \in Line(s, x) : s.epic[z].private} :
                              {z \in Line(s, x) : s.epic[z].private} \subseteq Line(s, y)}
    <2>2. after = nearest /\ before = nearest
        BY <1>1, <1>5, NearestBelow
    <2>3. /\ PrivateHolder(r, x) = IF after = {} THEN Nobody ELSE r.epic[CHOOSE y \in after : TRUE].creator
          /\ PrivateHolder(s, x) = IF before = {} THEN Nobody ELSE s.epic[CHOOSE y \in before : TRUE].creator
        BY DEF PrivateHolder
    <2> HIDE DEF nearest, after, before
    <2> QED BY <1>3, <2>1, <2>2, <2>3
<1> QED BY <1>4, <1>5

LEMMA BelowIsNotAbove ==
    ASSUME NEW s \in Store, NEW r \in Store, NEW e \in Epic, ChangedAt(s, r, e),
           NEW x \in Epic, e \in Line(s, x), x # e
    PROVE  x \notin Line(r, e)
<1>1. Line(r, x) = Below(s, e, x) \cup Line(r, e) /\ e \in Line(r, x)
    BY LineThroughTheChange, LineFacts DEF ChangedAt
<1>2. ASSUME x \in Line(r, e) PROVE FALSE
    <2>1. r.epic[e].parent # Root /\ x \in Line(r, r.epic[e].parent) /\ r.epic[e].parent \in Epic
        BY <1>2, LineByParent, EpicRows
    <2>2. e \in Line(r, r.epic[e].parent)
        BY <1>1, <2>1, LineGoesOn
    <2> QED BY <2>1, <2>2 DEF ChangedAt
<1> QED BY <1>2

LEMMA ChangeMakesNoCycle ==
    ASSUME NEW s \in Store, NEW r \in Store, NEW e \in Epic, ChangedAt(s, r, e), NoCycles(s),
           Live(r.epic) \subseteq Live(s.epic) \cup {e}
    PROVE  NoCycles(r)
<1> SUFFICES ASSUME NEW x \in Live(r.epic), r.epic[x].parent # Root,
                    x \in Line(r, r.epic[x].parent)
             PROVE  FALSE
    BY DEF NoCycles
<1>1. x \in Epic /\ x # e /\ x \in Live(s.epic)
    BY Rows DEF Live, ChangedAt
<1> DEFINE up == s.epic[x].parent
<1>2. r.epic[x].parent = up /\ up # Root /\ up \in Epic /\ x \notin Line(s, up)
    BY <1>1, EpicRows DEF ChangedAt, SameTreesBut, NoCycles
<1>3. e \in Line(s, up)
    BY <1>1, <1>2, BesideTheChange DEF ChangedAt
<1>4. Line(r, up) = Below(s, e, up) \cup Line(r, e)
    BY <1>2, <1>3, LineThroughTheChange DEF ChangedAt
<1>5. e \in Line(s, x)
    BY <1>1, <1>2, <1>3, LineByParent
<1>6. x \notin Line(r, e)
    BY <1>1, <1>5, BelowIsNotAbove
<1> QED BY <1>2, <1>4, <1>6 DEF Below

----------------------------------------------------------------------------
(* What a call leaves alone *)

LEMMA SightAgrees ==
    ASSUME NEW s \in Store, NEW r \in Store, r.epic = s.epic, r.role = s.role
    PROVE  /\ \A e \in Epic : Line(r, e) = Line(s, e) /\ PrivateHolder(r, e) = PrivateHolder(s, e)
           /\ \A p \in Person, e \in Epic : SeesEpic(r, p, e) <=> SeesEpic(s, p, e)
<1>1. SameTreesBut(s, r, {})
    BY DEF SameTreesBut
<1>2. \A e \in Epic : Line(r, e) = Line(s, e) /\ PrivateHolder(r, e) = PrivateHolder(s, e)
    BY <1>1, SameTrees
<1> QED BY <1>2 DEF SeesEpic, Member

(* Each part of a sound store rests on some of its tables.                 *)
LEMMA Frame ==
    ASSUME NEW s, NEW o, Sound(s, o), NEW r \in Store
    PROVE  /\ r.task = s.task => RowsAreWhole(r) /\ ("board" \notin o => NoUserBoards(r))
           /\ r.epic = s.epic => /\ NoCycles(r) /\ SubEpicSharesItsParentsWorkspace(r)
                                 /\ ~TreesChange(o) => HoldersNest(r)
           /\ r.epic = s.epic /\ r.task = s.task => TasksAreFiled(r)
           /\ (/\ r.epic = s.epic /\ r.task = s.task /\ r.follows = s.follows
               /\ r.epicClaim = s.epicClaim /\ r.taskClaim = s.taskClaim) => FreshRowsAreBare(r)
           /\ r.epic = s.epic /\ r.ws = s.ws /\ r.package = s.package => NothingIsStranded(r)
           /\ r.epic = s.epic /\ r.role = s.role /\ r.epicClaim = s.epicClaim => EpicClaimsFollowSight(r)
           /\ r.epic = s.epic /\ r.epicClaim = s.epicClaim => CommandsRunOnTheirSettersHost(r)
           /\ r.epic = s.epic /\ r.role = s.role /\ r.follows = s.follows => FollowsStayInside(r)
           /\ (/\ r.epic = s.epic /\ r.role = s.role
               /\ r.task = s.task /\ r.unseen = s.unseen) => UnseenMarksStayInside(r)
           /\ (/\ r.epic = s.epic /\ r.task = s.task
               /\ r.package = s.package /\ r.links = s.links) =>
                  LinksAreBetweenRows(r) /\ LinkedItemsShareThePackagesWorkspace(r, LinkedItems(o))
           /\ (/\ r.epic = s.epic /\ r.role = s.role
               /\ r.task = s.task /\ r.taskClaim = s.taskClaim) =>
                  (~TasksMove(o) => TaskClaimsFollowSight(r))
<1>0. s \in Store /\ Live(s.epic) \subseteq Epic /\ Live(s.task) \subseteq Task
    BY Rows DEF Sound, RowsAreWhole, Live
<1>1. r.task = s.task => RowsAreWhole(r) /\ ("board" \notin o => NoUserBoards(r))
    BY DEF Sound, RowsAreWhole, NoUserBoards
<1>2. ASSUME r.epic = s.epic
      PROVE  /\ \A e \in Epic : Line(r, e) = Line(s, e) /\ PrivateHolder(r, e) = PrivateHolder(s, e)
             /\ NoCycles(r) /\ SubEpicSharesItsParentsWorkspace(r)
             /\ ~TreesChange(o) => HoldersNest(r)
    <2>1. SameTreesBut(s, r, {})
        BY <1>2 DEF SameTreesBut
    <2>2. \A e \in Epic : Line(r, e) = Line(s, e) /\ PrivateHolder(r, e) = PrivateHolder(s, e)
        BY <1>0, <2>1, SameTrees
    <2>3. \A e \in Epic : s.epic[e].parent # Root => s.epic[e].parent \in Epic
        BY <1>0, EpicRows
    <2>4. NoCycles(r) /\ SubEpicSharesItsParentsWorkspace(r)
        BY <1>0, <1>2, <2>2, <2>3 DEF Sound, NoCycles, SubEpicSharesItsParentsWorkspace
    <2>5. ~TreesChange(o) => HoldersNest(r)
        BY <1>0, <1>2, <2>2, <2>3 DEF Sound, HoldersNest
    <2> QED BY <2>2, <2>4, <2>5
<1>3. r.epic = s.epic /\ r.task = s.task => TasksAreFiled(r)
    BY DEF Sound, TasksAreFiled
<1>4. (/\ r.epic = s.epic /\ r.task = s.task /\ r.follows = s.follows
       /\ r.epicClaim = s.epicClaim /\ r.taskClaim = s.taskClaim) => FreshRowsAreBare(r)
    BY DEF Sound, FreshRowsAreBare
<1>5. r.epic = s.epic /\ r.ws = s.ws /\ r.package = s.package => NothingIsStranded(r)
    BY DEF Sound, NothingIsStranded, Open
<1>6. r.epic = s.epic /\ r.epicClaim = s.epicClaim => CommandsRunOnTheirSettersHost(r)
    BY DEF Sound, CommandsRunOnTheirSettersHost
<1>7. r.epic = s.epic /\ r.role = s.role /\ r.follows = s.follows => FollowsStayInside(r)
    BY DEF Sound, FollowsStayInside, Member
<1>8. (/\ r.epic = s.epic /\ r.role = s.role
       /\ r.task = s.task /\ r.unseen = s.unseen) => UnseenMarksStayInside(r)
    BY DEF Sound, UnseenMarksStayInside, Member
<1>9. (/\ r.epic = s.epic /\ r.task = s.task
       /\ r.package = s.package /\ r.links = s.links) =>
          LinksAreBetweenRows(r) /\ LinkedItemsShareThePackagesWorkspace(r, LinkedItems(o))
    BY DEF Sound, LinksAreBetweenRows, LinkedItemsShareThePackagesWorkspace, ItemWorkspaces
<1>10. ASSUME r.epic = s.epic, r.role = s.role
       PROVE  /\ r.epicClaim = s.epicClaim => EpicClaimsFollowSight(r)
              /\ r.task = s.task /\ r.taskClaim = s.taskClaim =>
                     (~TasksMove(o) => TaskClaimsFollowSight(r))
    <2>1. /\ \A e \in Epic : Line(r, e) = Line(s, e)
          /\ \A p \in Person, e \in Epic : SeesEpic(r, p, e) <=> SeesEpic(s, p, e)
        BY <1>0, <1>10, SightAgrees
    <2>2. /\ \A e \in Epic : s.epicClaim[e] \in Person \cup {Nobody}
          /\ \A t \in Task : s.taskClaim[t] \in Person \cup {Nobody} /\ s.task[t].epic \in Epic \cup {Root}
        BY <1>0, Rows DEF TaskRow
    <2>3. r.epicClaim = s.epicClaim => EpicClaimsFollowSight(r)
        BY <1>0, <1>10, <2>1, <2>2 DEF Sound, EpicClaimsFollowSight
    <2>4. r.task = s.task => \A p \in Person, t \in Task : SeesTask(r, p, t) <=> SeesTask(s, p, t)
        BY <2>1, <2>2 DEF SeesTask
    <2>5. r.task = s.task /\ r.taskClaim = s.taskClaim => (~TasksMove(o) => TaskClaimsFollowSight(r))
        BY <1>0, <2>2, <2>4 DEF Sound, TaskClaimsFollowSight
    <2> QED BY <2>3, <2>5
<1> QED BY <1>1, <1>2, <1>3, <1>4, <1>5, <1>6, <1>7, <1>8, <1>9, <1>10

----------------------------------------------------------------------------
(* What the helpers of the calls return *)

(* The tables two stores share.                                            *)
People(s) == <<s.super, s.ws, s.role>>
Trees(s) == <<s.epic, s.task, s.package>>
Held(s) == <<s.follows, s.unseen, s.bookmarks, s.links>>

LEMMA ReleasedEpicClaims ==
    ASSUME NEW s \in Store, NEW lost
    PROVE  LET r == ReleaseEpicClaims(s, lost)
           IN  /\ r \in Store /\ People(r) = People(s) /\ Trees(r) = Trees(s) /\ Held(r) = Held(s)
               /\ r.taskClaim = s.taskClaim
               /\ \A e \in Epic : r.epicClaim[e] = IF <<e, s.epicClaim[e]>> \in lost THEN Nobody
                                                   ELSE s.epicClaim[e]
BY DEF ReleaseEpicClaims, Store, People, Trees, Held

LEMMA ReleasedTaskClaims ==
    ASSUME NEW s \in Store, NEW lost
    PROVE  LET r == ReleaseTaskClaims(s, lost)
           IN  /\ r \in Store /\ People(r) = People(s) /\ Trees(r) = Trees(s) /\ Held(r) = Held(s)
               /\ r.epicClaim = s.epicClaim
               /\ \A t \in Task : r.taskClaim[t] =
                      IF t \in Live(s.task) /\ <<s.task[t].epic, s.taskClaim[t]>> \in lost
                      THEN Nobody ELSE s.taskClaim[t]
BY DEF ReleaseTaskClaims, Store, People, Trees, Held

LEMMA DroppedMarks ==
    ASSUME NEW s \in Store, NEW lost
    PROVE  LET r == DropMarks(s, lost)
           IN  /\ r \in Store /\ People(r) = People(s) /\ Trees(r) = Trees(s)
               /\ r.follows = s.follows /\ r.links = s.links
               /\ r.unseen = s.unseen \ lost /\ r.bookmarks = s.bookmarks \ lost
               /\ r.epicClaim = s.epicClaim /\ r.taskClaim = s.taskClaim
BY DEF DropMarks, Store, People, Trees

LEMMA DroppedLinks ==
    ASSUME NEW s \in Store, NEW items
    PROVE  LET r == DropLinksTo(s, items)
           IN  /\ r \in Store /\ People(r) = People(s) /\ Trees(r) = Trees(s)
               /\ r.follows = s.follows /\ r.unseen = s.unseen /\ r.bookmarks = s.bookmarks
               /\ r.links = {l \in s.links : l[2] \notin items}
               /\ r.epicClaim = s.epicClaim /\ r.taskClaim = s.taskClaim
BY DEF DropLinksTo, Store, People, Trees

LEMMA EndedFollows ==
    ASSUME NEW s \in Store, NEW es, NEW people
    PROVE  LET r == EndFollows(s, es, people)
           IN  /\ r \in Store /\ People(r) = People(s) /\ Trees(r) = Trees(s)
               /\ r.unseen = s.unseen /\ r.bookmarks = s.bookmarks /\ r.links = s.links
               /\ r.follows = s.follows \ (people \X es)
               /\ r.epicClaim = s.epicClaim /\ r.taskClaim = s.taskClaim
BY DEF EndFollows, Store, People, Trees

(* Every task that is there is in one of the epics or in none.             *)
LEMMA EndedHolds ==
    ASSUME NEW s \in Store, NEW es, NEW people
    PROVE  LET r == EndHolds(s, es, people)
           IN  /\ r \in Store /\ People(r) = People(s) /\ Trees(r) = Trees(s) /\ r.links = s.links
               /\ r.follows = s.follows \ (people \X es)
               /\ r.unseen = s.unseen \ (people \X TasksIn(s, es))
               /\ r.bookmarks = s.bookmarks \ (people \X TasksIn(s, es))
               /\ \A e \in Epic : r.epicClaim[e] = IF e \in es /\ s.epicClaim[e] \in people
                                                   THEN Nobody ELSE s.epicClaim[e]
               /\ \A t \in Task : r.taskClaim[t] =
                      IF t \in TasksIn(s, es) /\ s.taskClaim[t] \in people
                      THEN Nobody ELSE s.taskClaim[t]
<1> DEFINE lost == es \X people
           c1 == ReleaseEpicClaims(s, lost)
           c2 == ReleaseTaskClaims(c1, lost)
           c3 == EndFollows(c2, es, people)
           r == DropMarks(c3, people \X TasksIn(s, es))
<1>0. EndHolds(s, es, people) = r
    BY DEF EndHolds
<1>1. /\ c1 \in Store /\ People(c1) = People(s) /\ Trees(c1) = Trees(s) /\ Held(c1) = Held(s)
      /\ c1.taskClaim = s.taskClaim
      /\ \A e \in Epic : c1.epicClaim[e] = IF <<e, s.epicClaim[e]>> \in lost THEN Nobody
                                           ELSE s.epicClaim[e]
    BY ReleasedEpicClaims
<1> HIDE DEF c1
<1>2. /\ c2 \in Store /\ People(c2) = People(c1) /\ Trees(c2) = Trees(c1) /\ Held(c2) = Held(c1)
      /\ c2.epicClaim = c1.epicClaim
      /\ \A t \in Task : c2.taskClaim[t] =
             IF t \in Live(c1.task) /\ <<c1.task[t].epic, c1.taskClaim[t]>> \in lost
             THEN Nobody ELSE c1.taskClaim[t]
    BY <1>1, ReleasedTaskClaims
<1> HIDE DEF c2
<1>3. /\ c3 \in Store /\ People(c3) = People(c2) /\ Trees(c3) = Trees(c2)
      /\ c3.unseen = c2.unseen /\ c3.bookmarks = c2.bookmarks /\ c3.links = c2.links
      /\ c3.follows = c2.follows \ (people \X es)
      /\ c3.epicClaim = c2.epicClaim /\ c3.taskClaim = c2.taskClaim
    BY <1>2, EndedFollows
<1> HIDE DEF c3
<1>4. /\ r \in Store /\ People(r) = People(c3) /\ Trees(r) = Trees(c3)
      /\ r.follows = c3.follows /\ r.links = c3.links
      /\ r.unseen = c3.unseen \ (people \X TasksIn(s, es))
      /\ r.bookmarks = c3.bookmarks \ (people \X TasksIn(s, es))
      /\ r.epicClaim = c3.epicClaim /\ r.taskClaim = c3.taskClaim
    BY <1>3, DroppedMarks
<1> HIDE DEF r
<1>5. c1.task = s.task /\ \A t \in Task : t \in TasksIn(s, es) <=> t \in Live(s.task) /\ s.task[t].epic \in es
    BY <1>1 DEF Trees, TasksIn
<1>6. \A t \in Task : r.taskClaim[t] = IF t \in TasksIn(s, es) /\ s.taskClaim[t] \in people
                                       THEN Nobody ELSE s.taskClaim[t]
    <2>1. r.taskClaim = c2.taskClaim /\ c1.taskClaim = s.taskClaim
        BY <1>1, <1>3, <1>4
    <2>2. \A t \in Task : c2.taskClaim[t] =
              IF t \in Live(s.task) /\ <<s.task[t].epic, s.taskClaim[t]>> \in es \X people
              THEN Nobody ELSE s.taskClaim[t]
        BY <1>2, <1>5, <2>1
    <2> QED BY <1>5, <2>1, <2>2
<1>7. \A e \in Epic : r.epicClaim[e] = IF e \in es /\ s.epicClaim[e] \in people
                                       THEN Nobody ELSE s.epicClaim[e]
    BY <1>1, <1>2, <1>3, <1>4
<1> QED BY <1>0, <1>1, <1>2, <1>3, <1>4, <1>6, <1>7 DEF Held

----------------------------------------------------------------------------
(* People and workspaces *)

LEMMA AdminsAreAside ==
    ASSUME Sound(store, ops), NEW p \in Person, NEW q \in Person,
           ClaimSuperAdmin(p) \/ GrantSuperAdmin(p, q) \/ RevokeSuperAdmin(p, q)
    PROVE  Sound(store', ops')
<1>0. store \in Store
    BY DEF Sound, RowsAreWhole
<1>1. /\ store' \in Store /\ store'.ws = store.ws /\ store'.role = store.role
      /\ Trees(store') = Trees(store) /\ Held(store') = Held(store)
      /\ store'.epicClaim = store.epicClaim /\ store'.taskClaim = store.taskClaim /\ ops' = ops
    BY <1>0 DEF ClaimSuperAdmin, GrantSuperAdmin, RevokeSuperAdmin, Commit, Store, Trees, Held
<1>2. /\ store'.epic = store.epic /\ store'.task = store.task /\ store'.package = store.package
      /\ store'.follows = store.follows /\ store'.unseen = store.unseen /\ store'.links = store.links
    BY <1>1 DEF Trees, Held
<1> QED BY <1>1, <1>2, Frame DEF Sound

(* A workspace with work keeps its members.                                *)
LEMMA MembersOfWork ==
    ASSUME NEW s, NEW o, Sound(s, o), NEW r \in Store, Trees(r) = Trees(s), Held(r) = Held(s),
           r.epicClaim = s.epicClaim, r.taskClaim = s.taskClaim,
           \A e \in Live(s.epic) : /\ s.epic[e].ws \in Open(r)
                                   /\ \A p \in Person : Member(s, p, s.epic[e].ws) =>
                                                        Member(r, p, s.epic[e].ws),
           \A k \in Live(s.package) : s.package[k].ws \in Open(r)
    PROVE  Sound(r, o)
<1>0. s \in Store /\ Live(s.epic) \subseteq Epic /\ Live(s.task) \subseteq Task
    BY Rows DEF Sound, RowsAreWhole, Live
<1>1. /\ r.epic = s.epic /\ r.task = s.task /\ r.package = s.package
      /\ r.follows = s.follows /\ r.unseen = s.unseen /\ r.links = s.links
    BY DEF Trees, Held
<1>2. SameTreesBut(s, r, {})
    BY <1>1 DEF SameTreesBut
<1>3. \A e \in Epic : Line(r, e) = Line(s, e) /\ PrivateHolder(r, e) = PrivateHolder(s, e)
    BY <1>0, <1>2, SameTrees
<1>4. \A p \in Person, e \in Epic : SeesEpic(s, p, e) => SeesEpic(r, p, e)
    BY <1>1, <1>3 DEF SeesEpic
<1>5. /\ \A e \in Epic : s.epicClaim[e] \in Person \cup {Nobody}
      /\ \A t \in Task : s.taskClaim[t] \in Person \cup {Nobody} /\ s.task[t].epic \in Epic \cup {Root}
      /\ \A f \in s.follows : f[1] \in Person /\ f[2] \in Epic
      /\ \A m \in s.unseen : m[1] \in Person /\ m[2] \in Task
    BY <1>0, Rows DEF TaskRow
<1>6. NothingIsStranded(r)
    BY <1>1 DEF NothingIsStranded
<1>7. EpicClaimsFollowSight(r)
    BY <1>0, <1>1, <1>4, <1>5 DEF Sound, EpicClaimsFollowSight
<1>8. FollowsStayInside(r)
    BY <1>1, <1>5 DEF Sound, FollowsStayInside
<1>9. UnseenMarksStayInside(r)
    BY <1>1, <1>5 DEF Sound, UnseenMarksStayInside, TasksAreFiled
<1>10. ~TasksMove(o) => TaskClaimsFollowSight(r)
    <2>1. \A p \in Person, t \in Task : SeesTask(s, p, t) => SeesTask(r, p, t)
        BY <1>1, <1>4, <1>5 DEF SeesTask
    <2> QED BY <1>0, <1>1, <1>5, <2>1 DEF Sound, TaskClaimsFollowSight
<1>12. /\ RowsAreWhole(r) /\ NoCycles(r) /\ TasksAreFiled(r) /\ FreshRowsAreBare(r)
       /\ SubEpicSharesItsParentsWorkspace(r) /\ CommandsRunOnTheirSettersHost(r)
       /\ LinksAreBetweenRows(r) /\ LinkedItemsShareThePackagesWorkspace(r, LinkedItems(o))
       /\ "board" \notin o => NoUserBoards(r)
       /\ ~TreesChange(o) => HoldersNest(r)
    BY <1>1, Frame
<1> QED BY <1>6, <1>7, <1>8, <1>9, <1>10, <1>12 DEF Sound

LEMMA WorkspacesStaySound ==
    ASSUME Sound(store, ops), NEW p \in Person, NEW w \in Workspace,
           CreateWorkspace(p, w) \/ DeleteWorkspace(p, w)
    PROVE  Sound(store', ops')
<1>0. store \in Store
    BY DEF Sound, RowsAreWhole
<1> DEFINE open == [store.ws EXCEPT ![w] = "live"]
           closed == [store.ws EXCEPT ![w] = "deleted"]
           nobody == [store.role EXCEPT ![w] = [o \in Person |-> "none"]]
<1>a. open \in [Workspace -> Life] /\ closed \in [Workspace -> Life] /\ nobody \in [Workspace -> [Person -> Role]]
    BY <1>0, Rows DEF Life, Role
<1>b. /\ CreateWorkspace(p, w) => store' = [store EXCEPT !.ws = open]
      /\ DeleteWorkspace(p, w) => store' = [store EXCEPT !.ws = closed, !.role = nobody]
    BY <1>0 DEF CreateWorkspace, DeleteWorkspace, Commit, Store
<1>c. ops' = ops
    BY DEF CreateWorkspace, DeleteWorkspace, Commit
<1> HIDE DEF open, closed, nobody
<1>1. /\ store' \in Store
      /\ Trees(store') = Trees(store) /\ Held(store') = Held(store)
      /\ store'.epicClaim = store.epicClaim /\ store'.taskClaim = store.taskClaim
    BY <1>0, <1>a, <1>b DEF Store, Trees, Held
<1>2. ASSUME NEW v \in Open(store),
             v = w => CreateWorkspace(p, w)
      PROVE  v \in Open(store') /\ store'.role[v] = store.role[v]
    <2>1. CASE CreateWorkspace(p, w)
        <3>1. store'.ws = open /\ store'.role = store.role
            BY <1>0, <1>b, <2>1 DEF Store
        <3> QED BY <1>0, <3>1, Rows DEF Open, open
    <2>2. CASE DeleteWorkspace(p, w) /\ v # w
        <3>1. store'.ws = closed /\ store'.role = nobody
            BY <1>0, <1>b, <2>2 DEF Store
        <3> QED BY <1>0, <2>2, <3>1, Rows DEF Open, closed, nobody
    <2> QED BY <1>2, <2>1, <2>2
<1>5. DeleteWorkspace(p, w) => /\ \A e \in Live(store.epic) : store.epic[e].ws # w
                               /\ \A k \in Live(store.package) : store.package[k].ws # w
    BY DEF DeleteWorkspace
<1>3. \A e \in Live(store.epic) : store.epic[e].ws \in Workspace /\ store.epic[e].ws \in Open(store)
    BY <1>0, Rows DEF Sound, NothingIsStranded, Open
<1>4. \A k \in Live(store.package) : store.package[k].ws \in Workspace /\ store.package[k].ws \in Open(store)
    BY <1>0, Rows DEF Sound, NothingIsStranded, Open
<1> QED BY <1>c, <1>1, <1>2, <1>3, <1>4, <1>5, MembersOfWork DEF Member

LEMMA NewRolesStaySound ==
    ASSUME Sound(store, ops), NEW p \in Person, NEW q \in Person, NEW w \in Workspace,
           NEW role \in Role \ {"none"}, AddMember(p, w, q, role) \/ SetMemberRole(p, w, q, role)
    PROVE  Sound(store', ops')
<1>0. store \in Store
    BY DEF Sound, RowsAreWhole
<1> DEFINE roles == [store.role EXCEPT ![w][q] = role]
<1>a. roles \in [Workspace -> [Person -> Role]]
    BY <1>0, Rows
<1>b. store' = [store EXCEPT !.role = roles] /\ ops' = ops
    BY <1>0 DEF AddMember, SetMemberRole, Commit, Store
<1>2. \A v \in Workspace, o \in Person : store.role[v][o] # "none" => roles[v][o] # "none"
    BY <1>0, Rows
<1> HIDE DEF roles
<1>1. /\ store' \in Store /\ store'.ws = store.ws /\ store'.role = roles
      /\ Trees(store') = Trees(store) /\ Held(store') = Held(store)
      /\ store'.epicClaim = store.epicClaim /\ store'.taskClaim = store.taskClaim
    BY <1>0, <1>a, <1>b DEF Store, Trees, Held
<1>3. \A e \in Live(store.epic) : store.epic[e].ws \in Workspace /\ store.epic[e].ws \in Open(store')
    BY <1>0, <1>1, Rows DEF Sound, NothingIsStranded, Open
<1>4. \A k \in Live(store.package) : store.package[k].ws \in Open(store')
    BY <1>0, <1>1, Rows DEF Sound, NothingIsStranded, Open
<1> QED BY <1>b, <1>1, <1>2, <1>3, <1>4, MembersOfWork DEF Member

(* A member who leaves loses what they held through the workspace.         *)
LEMMA RemovalsStaySound ==
    ASSUME Sound(store, ops), NEW p \in Person, NEW q \in Person, NEW w \in Workspace,
           RemoveMember(p, w, q)
    PROVE  Sound(store', ops')
<1>0. store \in Store
    BY DEF Sound, RowsAreWhole
<1> DEFINE roles == [store.role EXCEPT ![w][q] = "none"]
           s == [store EXCEPT !.role = roles]
           es == {e \in Live(store.epic) : store.epic[e].ws = w}
           r == EndHolds(s, es, {q})
<1>1. roles \in [Workspace -> [Person -> Role]]
    BY <1>0, Rows DEF Role
<1>2. \A v \in Workspace, o \in Person : v # w \/ o # q => roles[v][o] = store.role[v][o]
    BY <1>0, Rows
<1>3. s = [store EXCEPT !.role[w][q] = "none"]
    BY <1>0 DEF Store
<1> HIDE DEF roles
<1>4. s \in Store /\ s.role = roles /\ s.ws = store.ws /\ Trees(s) = Trees(store) /\ Held(s) = Held(store)
      /\ s.epicClaim = store.epicClaim /\ s.taskClaim = store.taskClaim
    BY <1>0, <1>1 DEF Store, Trees, Held
<1>5. s.epic = store.epic /\ s.task = store.task /\ s.package = store.package
      /\ s.follows = store.follows /\ s.unseen = store.unseen /\ s.links = store.links
    BY <1>4 DEF Trees, Held
<1>6. store' = r /\ ops' = ops
    BY <1>3, <1>5 DEF RemoveMember, Removed, Commit
<1> HIDE DEF s
<1>7. /\ r \in Store /\ People(r) = People(s) /\ Trees(r) = Trees(s) /\ r.links = s.links
      /\ r.follows = s.follows \ ({q} \X es)
      /\ r.unseen = s.unseen \ ({q} \X TasksIn(s, es))
      /\ \A e \in Epic : r.epicClaim[e] = IF e \in es /\ s.epicClaim[e] \in {q} THEN Nobody
                                          ELSE s.epicClaim[e]
      /\ \A t \in Task : r.taskClaim[t] = IF t \in TasksIn(s, es) /\ s.taskClaim[t] \in {q} THEN Nobody
                                          ELSE s.taskClaim[t]
    BY <1>4, EndedHolds
<1> HIDE DEF r
<1>8. /\ r.ws = store.ws /\ r.role = roles /\ r.epic = store.epic /\ r.task = store.task
      /\ r.package = store.package /\ r.links = store.links
    BY <1>4, <1>5, <1>7 DEF People, Trees
<1>9. SameTreesBut(store, r, {})
    BY <1>8 DEF SameTreesBut
<1>10. \A e \in Epic : Line(r, e) = Line(store, e) /\ PrivateHolder(r, e) = PrivateHolder(store, e)
    BY <1>0, <1>7, <1>9, SameTrees
<1>11. \A o \in Person, e \in Epic : SeesEpic(store, o, e) /\ (e \notin es \/ o # q) => SeesEpic(r, o, e)
    BY <1>0, <1>2, <1>8, <1>10, EpicRows DEF SeesEpic, Member
<1>12. /\ Live(store.epic) \subseteq Epic /\ Live(store.task) \subseteq Task
       /\ \A e \in Epic : store.epicClaim[e] \in Person \cup {Nobody}
       /\ \A t \in Task : store.taskClaim[t] \in Person \cup {Nobody}
                          /\ store.task[t].epic \in Epic \cup {Root}
       /\ \A f \in store.follows : f[1] \in Person /\ f[2] \in Epic /\ f = <<f[1], f[2]>>
       /\ \A m \in store.unseen : m[1] \in Person /\ m[2] \in Task /\ m = <<m[1], m[2]>>
    BY <1>0, Rows DEF TaskRow, Live
<1>13. EpicClaimsFollowSight(r)
    BY <1>4, <1>7, <1>8, <1>11, <1>12 DEF Sound, EpicClaimsFollowSight
<1>14. CommandsRunOnTheirSettersHost(r)
    BY <1>4, <1>7, <1>8, <1>12 DEF Sound, CommandsRunOnTheirSettersHost
<1>15. FollowsStayInside(r)
    <2> SUFFICES ASSUME NEW f \in r.follows, f[2] \in Live(r.epic)
                 PROVE  Member(r, f[1], r.epic[f[2]].ws)
        BY DEF FollowsStayInside
    <2>1. f \in store.follows /\ ~(f[1] = q /\ f[2] \in es)
        BY <1>5, <1>7, <1>12
    <2>2. Member(store, f[1], store.epic[f[2]].ws) /\ store.epic[f[2]].ws \in Workspace
        BY <1>0, <1>8, <1>12, <2>1, EpicRows DEF Sound, FollowsStayInside
    <2> QED BY <1>2, <1>8, <1>12, <2>1, <2>2 DEF Member
<1>16. UnseenMarksStayInside(r)
    <2> SUFFICES ASSUME NEW m \in r.unseen
                 PROVE  /\ m[2] \in Live(r.task) /\ r.task[m[2]].epic # Root
                        /\ Member(r, m[1], r.epic[r.task[m[2]].epic].ws)
        BY DEF UnseenMarksStayInside
    <2>1. m \in store.unseen /\ ~(m[1] = q /\ m[2] \in TasksIn(s, es))
        BY <1>5, <1>7, <1>12
    <2> DEFINE e == store.task[m[2]].epic
    <2>2. m[2] \in Live(store.task) /\ e \in Live(store.epic) /\ e # Root
          /\ Member(store, m[1], store.epic[e].ws)
        BY <2>1 DEF Sound, UnseenMarksStayInside, TasksAreFiled
    <2>3. ~(m[1] = q /\ store.epic[e].ws = w)
        BY <1>5, <2>1, <2>2 DEF TasksIn
    <2>4. Member(r, m[1], store.epic[e].ws)
        BY <1>0, <1>2, <1>8, <1>12, <2>1, <2>2, <2>3, EpicRows DEF Member
    <2> QED BY <1>8, <2>2, <2>4
<1>17. ~TasksMove(ops) => TaskClaimsFollowSight(r)
    <2> SUFFICES ASSUME ~TasksMove(ops), NEW t \in Live(r.task), r.taskClaim[t] # Nobody
                 PROVE  SeesTask(r, r.taskClaim[t], t)
        BY DEF TaskClaimsFollowSight
    <2> DEFINE o == store.taskClaim[t]
    <2>0. t \in Live(store.task) /\ t \in Task /\ s.taskClaim[t] = o
        BY <1>4, <1>8, <1>12
    <2>1. r.taskClaim[t] = o /\ o \in Person /\ ~(t \in TasksIn(s, es) /\ o = q)
        BY <1>7, <1>12, <2>0
    <2>2. SeesTask(store, o, t)
        BY <2>0, <2>1 DEF Sound, TaskClaimsFollowSight
    <2>3. store.task[t].epic # Root => SeesEpic(r, o, store.task[t].epic)
        BY <1>5, <1>11, <1>12, <2>0, <2>1, <2>2 DEF SeesTask, TasksIn
    <2> QED BY <1>8, <2>0, <2>1, <2>2, <2>3 DEF SeesTask
<1>19. FreshRowsAreBare(r)
    <2>1. \A e \in Epic : store.epicClaim[e] = Nobody => r.epicClaim[e] = Nobody
        BY <1>4, <1>7
    <2>2. \A t \in Task : store.taskClaim[t] = Nobody => r.taskClaim[t] = Nobody
        BY <1>4, <1>7
    <2>3. r.follows \subseteq store.follows
        BY <1>5, <1>7
    <2> QED BY <1>8, <2>1, <2>2, <2>3 DEF Sound, FreshRowsAreBare
<1>20. /\ RowsAreWhole(r) /\ NoCycles(r) /\ TasksAreFiled(r) /\ NothingIsStranded(r)
       /\ SubEpicSharesItsParentsWorkspace(r)
       /\ LinksAreBetweenRows(r) /\ LinkedItemsShareThePackagesWorkspace(r, LinkedItems(ops))
       /\ "board" \notin ops => NoUserBoards(r)
       /\ ~TreesChange(ops) => HoldersNest(r)
    BY <1>7, <1>8, Frame
<1> QED BY <1>6, <1>13, <1>14, <1>15, <1>16, <1>17, <1>19, <1>20 DEF Sound

LEMMA PeopleStaySound ==
    ASSUME Sound(store, ops), NEW p \in Person, PeopleStep(p)
    PROVE  Sound(store', ops')
<1>1. "member" \in Role \ {"none"} /\ \A role \in Role \ {"none"} : role \in Role
    BY DEF Role
<1> QED BY <1>1, AdminsAreAside, WorkspacesStaySound, NewRolesStaySound, RemovalsStaySound DEF PeopleStep

----------------------------------------------------------------------------
(* Follows and poll claims *)

LEMMA FollowsStaySound ==
    ASSUME Sound(store, ops), NEW p \in Person, NEW e \in Epic, SubscribeToEpic(p, e)
    PROVE  Sound(store', ops')
<1>0. store \in Store /\ Live(store.epic) \subseteq Epic
    BY Rows DEF Sound, RowsAreWhole, Live
<1>1. /\ store' \in Store /\ People(store') = People(store) /\ Trees(store') = Trees(store)
      /\ store'.follows = store.follows \cup {<<p, e>>}
      /\ store'.unseen = store.unseen /\ store'.links = store.links
      /\ store'.epicClaim = store.epicClaim /\ store'.taskClaim = store.taskClaim /\ ops' = ops
    BY <1>0 DEF SubscribeToEpic, Commit, Store, People, Trees
<1>2. /\ store'.ws = store.ws /\ store'.role = store.role
      /\ store'.epic = store.epic /\ store'.task = store.task /\ store'.package = store.package
    BY <1>1 DEF People, Trees
<1>3. SeesEpic(store, p, e) /\ e \in Live(store.epic) /\ Member(store, p, store.epic[e].ws)
    BY DEF SubscribeToEpic, SeesEpic
<1>4. FollowsStayInside(store')
    BY <1>1, <1>2, <1>3 DEF Sound, FollowsStayInside, Member
<1>5. FreshRowsAreBare(store')
    BY <1>1, <1>2, <1>3 DEF Sound, FreshRowsAreBare, Fresh, Live
<1> QED BY <1>1, <1>2, <1>4, <1>5, Frame DEF Sound

LEMMA EndsOfFollowsStaySound ==
    ASSUME Sound(store, ops), NEW p \in Person, NEW e \in Epic, UnsubscribeFromEpic(p, e)
    PROVE  Sound(store', ops')
<1>0. store \in Store /\ Live(store.epic) \subseteq Epic
    BY Rows DEF Sound, RowsAreWhole, Live
<1> DEFINE rest == [store EXCEPT !.follows = @ \ {<<p, e>>}]
           lost == {x \in SubtreeIds(store, e) : \A y \in Line(store, x) : <<p, y>> \notin rest.follows}
           r == ReleaseEpicClaims(rest, lost \X {p})
<1>1. /\ rest \in Store /\ People(rest) = People(store) /\ Trees(rest) = Trees(store)
      /\ rest.follows = store.follows \ {<<p, e>>}
      /\ rest.unseen = store.unseen /\ rest.links = store.links
      /\ rest.epicClaim = store.epicClaim /\ rest.taskClaim = store.taskClaim
    BY <1>0 DEF Store, People, Trees
<1>2. store' = r /\ ops' = ops
    BY DEF UnsubscribeFromEpic, Unfollowed, Commit
<1> HIDE DEF rest
<1>3. /\ r \in Store /\ People(r) = People(rest) /\ Trees(r) = Trees(rest) /\ Held(r) = Held(rest)
      /\ r.taskClaim = rest.taskClaim
      /\ \A x \in Epic : r.epicClaim[x] = IF <<x, rest.epicClaim[x]>> \in lost \X {p} THEN Nobody
                                          ELSE rest.epicClaim[x]
    BY <1>1, ReleasedEpicClaims
<1> HIDE DEF r
<1>4. /\ r.ws = store.ws /\ r.role = store.role
      /\ r.epic = store.epic /\ r.task = store.task /\ r.package = store.package
      /\ r.follows = store.follows \ {<<p, e>>} /\ r.unseen = store.unseen /\ r.links = store.links
      /\ r.taskClaim = store.taskClaim
    BY <1>1, <1>3 DEF People, Trees, Held
<1>5. \A x \in Epic : r.epicClaim[x] = IF x \in lost /\ store.epicClaim[x] = p THEN Nobody
                                       ELSE store.epicClaim[x]
    BY <1>1, <1>3
<1>6. FollowsStayInside(r)
    BY <1>4 DEF Sound, FollowsStayInside, Member
<1>7. FreshRowsAreBare(r)
    BY <1>4, <1>5 DEF Sound, FreshRowsAreBare
<1>8. /\ \A x \in Epic : Line(r, x) = Line(store, x)
      /\ \A o \in Person, x \in Epic : SeesEpic(r, o, x) <=> SeesEpic(store, o, x)
      /\ \A x \in Epic : store.epicClaim[x] \in Person \cup {Nobody}
    BY <1>0, <1>3, <1>4, SightAgrees, Rows
<1>9. EpicClaimsFollowSight(r) /\ CommandsRunOnTheirSettersHost(r)
    BY <1>0, <1>4, <1>5, <1>8 DEF Sound, EpicClaimsFollowSight, CommandsRunOnTheirSettersHost
<1> QED BY <1>2, <1>3, <1>4, <1>6, <1>7, <1>9, Frame DEF Sound

LEMMA ClaimsStaySound ==
    ASSUME Sound(store, ops), NEW p \in Person, NEW e \in Epic,
           ClaimEpicPoll(p, e) \/ OverrideEpicPoll(p, e)
    PROVE  Sound(store', ops')
<1>0. store \in Store /\ Live(store.epic) \subseteq Epic
    BY Rows DEF Sound, RowsAreWhole, Live
<1> DEFINE r == [store EXCEPT !.epicClaim[e] = p]
<1>1. /\ r \in Store /\ People(r) = People(store) /\ Trees(r) = Trees(store) /\ Held(r) = Held(store)
      /\ r.taskClaim = store.taskClaim
      /\ \A x \in Epic : r.epicClaim[x] = IF x = e THEN p ELSE store.epicClaim[x]
    BY <1>0 DEF Store, People, Trees, Held
<1>2. store' = r /\ ops' = ops /\ SeesEpic(store, p, e) /\ store.epic[e].setter \in {Nobody, p}
    BY DEF ClaimEpicPoll, OverrideEpicPoll, MayClaimEpic, Commit
<1> HIDE DEF r
<1>3. /\ r.ws = store.ws /\ r.role = store.role
      /\ r.epic = store.epic /\ r.task = store.task /\ r.package = store.package
      /\ r.follows = store.follows /\ r.unseen = store.unseen /\ r.links = store.links
    BY <1>1 DEF People, Trees, Held
<1>4. /\ \A o \in Person, x \in Epic : SeesEpic(r, o, x) <=> SeesEpic(store, o, x)
      /\ \A x \in Epic : store.epicClaim[x] \in Person \cup {Nobody}
    BY <1>0, <1>1, <1>3, SightAgrees, Rows
<1>6. SeesEpic(store, p, e) /\ e \in Live(store.epic)
    BY <1>2 DEF SeesEpic
<1>7. EpicClaimsFollowSight(r) /\ CommandsRunOnTheirSettersHost(r)
    BY <1>0, <1>1, <1>2, <1>3, <1>4, <1>6 DEF Sound, EpicClaimsFollowSight, CommandsRunOnTheirSettersHost
<1>9. FreshRowsAreBare(r)
    BY <1>1, <1>3, <1>6 DEF Sound, FreshRowsAreBare, Fresh, Live
<1> QED BY <1>1, <1>2, <1>3, <1>7, <1>9, Frame DEF Sound

----------------------------------------------------------------------------
(* Tasks *)

(* A call on one task, for all of whose rows the parts hold.               *)
LEMMA OneTaskChanges ==
    ASSUME NEW s, NEW o, Sound(s, o), NEW r \in Store, NEW t \in Task,
           People(r) = People(s), r.epic = s.epic, r.package = s.package,
           r.follows = s.follows, r.epicClaim = s.epicClaim,
           \A u \in Task \ {t} : r.task[u] = s.task[u] /\ r.taskClaim[u] = s.taskClaim[u],
           t \in Live(r.task) => /\ (r.task[t].epic = Root) = (r.task[t].owner # Nobody)
                                 /\ r.task[t].epic \in Live(s.epic) \cup {Root}
                                 /\ "board" \notin o => r.task[t].epic # Root,
           Fresh(r.task, t) => r.taskClaim[t] = Nobody,
           ~TasksMove(o) /\ t \in Live(r.task) /\ r.taskClaim[t] # Nobody =>
               SeesTask(s, r.taskClaim[t], t) /\ r.task[t].epic = s.task[t].epic
                                              /\ r.task[t].owner = s.task[t].owner,
           \A m \in r.unseen : m[2] # t => m \in s.unseen,
           \A m \in r.unseen : m[2] = t => /\ t \in Live(r.task) /\ r.task[t].epic # Root
                                           /\ Member(s, m[1], s.epic[r.task[t].epic].ws),
           r.links \subseteq s.links,
           \A l \in r.links : l[2] = t =>
               /\ t \in Live(r.task)
               /\ "board" \notin o => s.epic[r.task[t].epic].ws = s.epic[s.task[t].epic].ws
    PROVE  Sound(r, o)
<1>0. /\ s \in Store /\ Live(s.epic) \subseteq Epic /\ Live(s.task) \subseteq Task /\ Live(r.task) \subseteq Task
      /\ r.ws = s.ws /\ r.role = s.role
    BY Rows DEF Sound, RowsAreWhole, Live, People
<1>1. /\ \A u \in Task : u # t => (u \in Live(r.task) <=> u \in Live(s.task))
      /\ \A u \in Task : s.taskClaim[u] \in Person \cup {Nobody} /\ s.task[u].epic \in Epic \cup {Root}
      /\ r.taskClaim[t] \in Person \cup {Nobody}
      /\ \A m \in r.unseen : m[2] \in Task
      /\ \A l \in s.links : l[1] \in Package /\ l[2] \in Epic \cup Task
    BY <1>0, Rows DEF Live, TaskRow
<1>2. \A p \in Person, e \in Epic : SeesEpic(r, p, e) <=> SeesEpic(s, p, e)
    BY <1>0, SightAgrees
<1>3. RowsAreWhole(r) /\ TasksAreFiled(r) /\ ("board" \notin o => NoUserBoards(r))
    BY <1>0, <1>1 DEF Sound, RowsAreWhole, TasksAreFiled, NoUserBoards
<1>4. FreshRowsAreBare(r)
    BY <1>0, <1>1 DEF Sound, FreshRowsAreBare, Fresh
<1>5. UnseenMarksStayInside(r)
    <2> SUFFICES ASSUME NEW m \in r.unseen
                 PROVE  /\ m[2] \in Live(r.task) /\ r.task[m[2]].epic # Root
                        /\ Member(r, m[1], r.epic[r.task[m[2]].epic].ws)
        BY DEF UnseenMarksStayInside
    <2>1. CASE m[2] = t
        BY <1>0, <2>1 DEF Member
    <2>2. CASE m[2] # t
        <3>1. m \in s.unseen /\ m[2] \in Task /\ r.task[m[2]] = s.task[m[2]]
            BY <1>1, <2>2
        <3>2. /\ m[2] \in Live(s.task) /\ s.task[m[2]].epic # Root
              /\ Member(s, m[1], s.epic[s.task[m[2]].epic].ws)
            BY <3>1 DEF Sound, UnseenMarksStayInside
        <3> QED BY <1>0, <1>1, <2>2, <3>1, <3>2 DEF Member
    <2> QED BY <2>1, <2>2
<1>6. LinksAreBetweenRows(r)
    BY <1>0, <1>1 DEF Sound, LinksAreBetweenRows
<1>7. LinkedItemsShareThePackagesWorkspace(r, LinkedItems(o))
    <2> SUFFICES ASSUME NEW l \in r.links, l[2] \in LinkedItems(o)
                 PROVE  ItemWorkspaces(r, l[2]) \subseteq {r.package[l[1]].ws}
        BY DEF LinkedItemsShareThePackagesWorkspace
    <2>1. ItemWorkspaces(s, l[2]) \subseteq {s.package[l[1]].ws}
        BY DEF Sound, LinkedItemsShareThePackagesWorkspace
    <2>2. CASE l[2] \in Epic
        BY <2>1, <2>2 DEF ItemWorkspaces
    <2>3. CASE l[2] \in Task /\ l[2] # t
        BY <2>1, <2>3, WorkspacesAssumption DEF ItemWorkspaces
    <2>4. CASE l[2] = t /\ "board" \notin o
        <3>1. t \notin Epic
            BY WorkspacesAssumption
        <3>2. t \in Live(s.task) /\ s.task[t].epic # Root
            BY <1>0, <2>4, <3>1 DEF Sound, LinksAreBetweenRows, NoUserBoards
        <3>3. s.epic[s.task[t].epic].ws = s.package[l[1]].ws
            BY <2>1, <2>4, <3>1, <3>2 DEF ItemWorkspaces
        <3> QED BY <2>4, <3>1, <3>3 DEF ItemWorkspaces
    <2> QED BY <1>1, <2>2, <2>3, <2>4, WorkspacesAssumption DEF LinkedItems
<1>8. ~TasksMove(o) => TaskClaimsFollowSight(r)
    <2> SUFFICES ASSUME ~TasksMove(o), NEW u \in Live(r.task), r.taskClaim[u] # Nobody
                 PROVE  SeesTask(r, r.taskClaim[u], u)
        BY DEF TaskClaimsFollowSight
    <2>1. r.taskClaim[u] \in Person /\ SeesTask(s, r.taskClaim[u], u)
          /\ r.task[u].epic = s.task[u].epic /\ r.task[u].owner = s.task[u].owner
        BY <1>0, <1>1 DEF Sound, TaskClaimsFollowSight
    <2> QED BY <1>0, <1>1, <1>2, <2>1 DEF SeesTask
<1>9. /\ NoCycles(r) /\ SubEpicSharesItsParentsWorkspace(r) /\ NothingIsStranded(r)
      /\ EpicClaimsFollowSight(r) /\ CommandsRunOnTheirSettersHost(r) /\ FollowsStayInside(r)
      /\ ~TreesChange(o) => HoldersNest(r)
    BY <1>0, Frame
<1> QED BY <1>3, <1>4, <1>5, <1>6, <1>7, <1>8, <1>9 DEF Sound

LEMMA OneSoundTask ==
    ASSUME NEW s, NEW o, Sound(s, o), NEW t \in Task
    PROVE  /\ t \in Live(s.task) => /\ (s.task[t].epic = Root) = (s.task[t].owner # Nobody)
                                    /\ s.task[t].epic \in Live(s.epic) \cup {Root}
                                    /\ "board" \notin o => s.task[t].epic # Root
           /\ Fresh(s.task, t) => s.taskClaim[t] = Nobody /\ t \notin Live(s.task)
           /\ ~TasksMove(o) /\ t \in Live(s.task) /\ s.taskClaim[t] # Nobody =>
                  SeesTask(s, s.taskClaim[t], t)
           /\ \A m \in s.unseen : m[2] = t => /\ t \in Live(s.task) /\ s.task[t].epic # Root
                                              /\ Member(s, m[1], s.epic[s.task[t].epic].ws)
           /\ \A l \in s.links : l[2] = t => t \in Live(s.task)
<1>1. s \in Store /\ Live(s.epic) \subseteq Epic
    BY Rows DEF Sound, RowsAreWhole, Live
<1>2. t \in Live(s.task) => /\ (s.task[t].epic = Root) = (s.task[t].owner # Nobody)
                            /\ s.task[t].epic \in Live(s.epic) \cup {Root}
                            /\ "board" \notin o => s.task[t].epic # Root
    BY DEF Sound, RowsAreWhole, TasksAreFiled, NoUserBoards
<1>3. Fresh(s.task, t) => s.taskClaim[t] = Nobody /\ t \notin Live(s.task)
    BY DEF Sound, FreshRowsAreBare, Fresh, Live
<1>4. ~TasksMove(o) /\ t \in Live(s.task) /\ s.taskClaim[t] # Nobody => SeesTask(s, s.taskClaim[t], t)
    BY DEF Sound, TaskClaimsFollowSight
<1>5. \A m \in s.unseen : m[2] = t => /\ t \in Live(s.task) /\ s.task[t].epic # Root
                                      /\ Member(s, m[1], s.epic[s.task[t].epic].ws)
    BY DEF Sound, UnseenMarksStayInside
<1>6. \A l \in s.links : l[2] = t => t \in Live(s.task)
    BY <1>1, WorkspacesAssumption DEF Sound, LinksAreBetweenRows
<1> QED BY <1>2, <1>3, <1>4, <1>5, <1>6

LEMMA NewTasksStaySound ==
    ASSUME Sound(store, ops), NEW p \in Person, NEW t \in Task, NEW e \in Epic \cup {Root},
           NEW signal \in BOOLEAN, e = Root => "board" \in ops, CreateTask(p, t, e, signal)
    PROVE  Sound(store', ops')
<1>0. store \in Store /\ p # Nobody
    BY WorkspacesAssumption DEF Sound, RowsAreWhole
<1> DEFINE row == [life |-> "live", epic |-> e, creator |-> p, done |-> FALSE,
                   owner |-> IF e = Root THEN p ELSE Nobody]
           new == {m \in Person \X {t} : signal /\ e # Root /\ SeesEpic(store, m[1], e)}
           r == [store EXCEPT !.task[t] = row, !.unseen = @ \cup new]
<1>1. row \in TaskRow /\ new \subseteq Person \X Task
    BY DEF TaskRow, Life
<1>2. row.life = "live" /\ row.epic = e /\ row.owner = IF e = Root THEN p ELSE Nobody
    OBVIOUS
<1>3. \A m \in new : m[2] = t /\ e # Root /\ SeesEpic(store, m[1], e)
    OBVIOUS
<1> HIDE DEF row, new
<1>4. /\ r \in Store /\ People(r) = People(store) /\ r.epic = store.epic /\ r.package = store.package
      /\ r.follows = store.follows /\ r.epicClaim = store.epicClaim /\ r.taskClaim = store.taskClaim
      /\ r.links = store.links /\ r.unseen = store.unseen \cup new
      /\ \A u \in Task : r.task[u] = IF u = t THEN row ELSE store.task[u]
    BY <1>0, <1>1 DEF Store, People
<1>5. store' = r /\ ops' = ops /\ Fresh(store.task, t) /\ EntersSeen(p, e)
    BY DEF CreateTask, Commit, row, new
<1> HIDE DEF r
<1>6. t \notin Live(store.task) /\ store.taskClaim[t] = Nobody
      /\ (\A m \in store.unseen : m[2] # t) /\ (\A l \in store.links : l[2] # t)
    BY <1>5, OneSoundTask
<1>7. e \in Live(store.epic) \cup {Root}
    BY <1>5 DEF EntersSeen, SeesEpic
<1>8. \A m \in r.unseen : m[2] # t => m \in store.unseen
    BY <1>3, <1>4
<1>9. \A m \in r.unseen : m[2] = t => /\ e # Root /\ Member(store, m[1], store.epic[e].ws)
    BY <1>3, <1>4, <1>6 DEF SeesEpic
<1>10. t \in Live(r.task)
    BY <1>2, <1>4, Rows DEF Live
<1>11. ~Fresh(r.task, t)
    BY <1>2, <1>4 DEF Fresh
<1> QED BY <1>0, <1>2, <1>4, <1>5, <1>6, <1>7, <1>8, <1>9, <1>10, <1>11, OneTaskChanges

LEMMA MovedTasksStaySound ==
    ASSUME Sound(store, ops), NEW p \in Person, NEW t \in Task, NEW e \in Epic \cup {Root},
           e = Root => "board" \in ops, "move" \in ops \/ "board" \in ops, SetTaskEpic(p, t, e)
    PROVE  Sound(store', ops')
<1>0. store \in Store /\ p # Nobody /\ t \in Live(store.task)
    BY WorkspacesAssumption DEF Sound, RowsAreWhole, SetTaskEpic, SeesTask
<1> DEFINE was == store.task[t].epic
           owner == IF e = Root THEN p ELSE Nobody
           task == [store.task EXCEPT ![t].epic = e, ![t].owner = owner]
           links == IF Root \notin {was, e} /\ store.epic[was].ws # store.epic[e].ws
                    THEN DropLinksTo(store, {t}).links ELSE store.links
           r == [store EXCEPT !.task = task, !.unseen = {m \in @ : m[2] # t}, !.links = links]
<1>1. /\ task \in [Task -> TaskRow] /\ \A u \in Task \ {t} : task[u] = store.task[u]
      /\ task[t].epic = e /\ task[t].owner = owner /\ task[t].life = "live"
    BY <1>0, Rows DEF TaskRow, Live
<1>2. /\ links \subseteq store.links
      /\ Root \notin {was, e} /\ store.epic[was].ws # store.epic[e].ws => \A l \in links : l[2] # t
    BY <1>0, DroppedLinks
<1>3. store' = r /\ ops' = ops /\ EntersSeen(p, e)
    <2>1. store' = MovedTask(store, p, t, e) /\ ops' = ops /\ EntersSeen(p, e)
        BY DEF SetTaskEpic, Commit
    <2>2. MovedTask(store, p, t, e) = r
        BY <1>0 DEF MovedTask, Store
    <2> QED BY <2>1, <2>2
<1> HIDE DEF task, links
<1>4. /\ r \in Store /\ People(r) = People(store) /\ r.epic = store.epic /\ r.package = store.package
      /\ r.follows = store.follows /\ r.epicClaim = store.epicClaim /\ r.taskClaim = store.taskClaim
      /\ r.links = links /\ r.unseen = {m \in store.unseen : m[2] # t} /\ r.task = task
    BY <1>0, <1>1, <1>2 DEF Store, People
<1> HIDE DEF r
<1>5. t \in Live(r.task) /\ ~Fresh(r.task, t)
    BY <1>1, <1>4 DEF Live, Fresh
<1>6. e \in Live(store.epic) \cup {Root}
    BY <1>3 DEF EntersSeen, SeesEpic
<1>7. TasksMove(ops)
    BY DEF TasksMove
<1>8. "board" \notin ops => was # Root
    BY <1>0, OneSoundTask
<1>9. \A l \in r.links : l[2] = t => ("board" \notin ops => store.epic[e].ws = store.epic[was].ws)
    BY <1>2, <1>4, <1>8
<1> QED BY <1>0, <1>1, <1>2, <1>3, <1>4, <1>5, <1>6, <1>7, <1>9, OneTaskChanges

LEMMA OtherTaskCallsStaySound ==
    ASSUME Sound(store, ops), NEW p \in Person, NEW t \in Task,
           \/ FinishTask(p, t) \/ DeleteTask(p, t)
           \/ ClaimTaskPoll(p, t) \/ OverrideTaskPoll(p, t)
           \/ MarkTaskSeen(p, t) \/ \E on \in BOOLEAN : SetBookmark(p, t, on)
    PROVE  Sound(store', ops')
<1>0. store \in Store /\ p # Nobody /\ SeesTask(store, p, t) /\ t \in Live(store.task)
    BY WorkspacesAssumption
       DEF Sound, RowsAreWhole, FinishTask, DeleteTask, ClaimTaskPoll, OverrideTaskPoll,
           MarkTaskSeen, SetBookmark, SeesTask
<1>a. /\ (store.task[t].epic = Root) = (store.task[t].owner # Nobody)
      /\ store.task[t].epic \in Live(store.epic) \cup {Root}
      /\ "board" \notin ops => store.task[t].epic # Root
      /\ ~TasksMove(ops) /\ store.taskClaim[t] # Nobody => SeesTask(store, store.taskClaim[t], t)
      /\ \A m \in store.unseen : m[2] = t => /\ store.task[t].epic # Root
                                            /\ Member(store, m[1], store.epic[store.task[t].epic].ws)
    BY <1>0, OneSoundTask
<1>1. CASE FinishTask(p, t)
    <2> DEFINE c == ClearMarks(store, t)
               task == [c.task EXCEPT ![t].done = TRUE]
               r == [c EXCEPT !.task = task]
    <2>1. /\ c \in Store /\ People(c) = People(store) /\ Trees(c) = Trees(store)
          /\ c.follows = store.follows /\ c.links = store.links
          /\ c.unseen = store.unseen \ (Person \X {t})
          /\ c.epicClaim = store.epicClaim /\ c.taskClaim = store.taskClaim
        BY <1>0, DroppedMarks DEF ClearMarks
    <2>2. store' = r /\ ops' = ops
        <3>1. store' = [c EXCEPT !.task[t].done = TRUE] /\ ops' = ops
            BY <1>1 DEF FinishTask, Commit
        <3> QED BY <2>1, <3>1 DEF Store
    <2> HIDE DEF c
    <2>8. task \in [Task -> TaskRow]
        <3>1. c.task \in [Task -> TaskRow] /\ c.task[t] \in TaskRow
            BY <2>1, Rows
        <3>2. [c.task[t] EXCEPT !.done = TRUE] \in TaskRow
            BY <3>1 DEF TaskRow
        <3> QED BY <3>1, <3>2
    <2> HIDE DEF task
    <2>3. /\ r \in Store /\ People(r) = People(c) /\ r.epic = c.epic /\ r.package = c.package
          /\ r.follows = c.follows /\ r.links = c.links /\ r.unseen = c.unseen
          /\ r.epicClaim = c.epicClaim /\ r.taskClaim = c.taskClaim
          /\ r.task = task
        BY <2>1, <2>8 DEF Store, People
    <2> HIDE DEF r
    <2>4. /\ r.epic = store.epic /\ r.package = store.package /\ c.task = store.task
          /\ \A u \in Task \ {t} : r.task[u] = store.task[u]
          /\ r.task[t].epic = store.task[t].epic /\ r.task[t].owner = store.task[t].owner
          /\ r.task[t].life = store.task[t].life
        BY <1>0, <2>1, <2>3, Rows DEF Trees, TaskRow, task
    <2>5. \A m \in r.unseen : m \in store.unseen /\ m[2] # t
        BY <1>0, <2>1, <2>3, Rows
    <2>6. ~Fresh(r.task, t)
        BY <1>0, <2>4 DEF Live, Fresh
    <2>7. t \in Live(r.task)
        BY <1>0, <2>3, <2>4, Rows DEF Live
    <2> QED BY <1>0, <2>1, <2>2, <2>3, <2>4, <2>5, <2>6, <2>7, <1>a, OneTaskChanges
<1>2. CASE DeleteTask(p, t)
    <2> DEFINE c == ClearMarks(store, t)
               d == DropLinksTo(c, {t})
               task == [d.task EXCEPT ![t].life = "deleted"]
               r == [d EXCEPT !.task = task]
    <2>1. /\ c \in Store /\ People(c) = People(store) /\ Trees(c) = Trees(store)
          /\ c.follows = store.follows /\ c.links = store.links
          /\ c.unseen = store.unseen \ (Person \X {t})
          /\ c.epicClaim = store.epicClaim /\ c.taskClaim = store.taskClaim
        BY <1>0, DroppedMarks DEF ClearMarks
    <2>2. store' = [d EXCEPT !.task[t].life = "deleted"] /\ ops' = ops
        BY <1>2 DEF DeleteTask, DeleteTaskRow, Commit
    <2> HIDE DEF c
    <2>3. /\ d \in Store /\ People(d) = People(c) /\ Trees(d) = Trees(c)
          /\ d.follows = c.follows /\ d.unseen = c.unseen
          /\ d.links = {l \in c.links : l[2] \notin {t}}
          /\ d.epicClaim = c.epicClaim /\ d.taskClaim = c.taskClaim
        BY <2>1, DroppedLinks
    <2>8. store' = r /\ task \in [Task -> TaskRow]
        <3>1. d.task \in [Task -> TaskRow] /\ d.task[t] \in TaskRow
            BY <2>3, Rows
        <3>2. [d.task[t] EXCEPT !.life = "deleted"] \in TaskRow
            BY <3>1 DEF TaskRow, Life
        <3>3. task \in [Task -> TaskRow]
            BY <3>1, <3>2
        <3>4. store' = r
            BY <2>2, <2>3 DEF Store
        <3> QED BY <3>3, <3>4
    <2> HIDE DEF d, task
    <2>4. /\ r \in Store /\ People(r) = People(d) /\ r.epic = d.epic /\ r.package = d.package
          /\ r.follows = d.follows /\ r.links = d.links /\ r.unseen = d.unseen
          /\ r.epicClaim = d.epicClaim /\ r.taskClaim = d.taskClaim
          /\ r.task = task
        BY <2>3, <2>8 DEF Store, People
    <2> HIDE DEF r
    <2>5. /\ r.epic = store.epic /\ r.package = store.package /\ d.task = store.task
          /\ \A u \in Task \ {t} : r.task[u] = store.task[u]
          /\ r.task[t].life = "deleted"
        BY <1>0, <2>1, <2>3, <2>4, Rows DEF Trees, TaskRow, task
    <2>6. \A m \in r.unseen : m \in store.unseen /\ m[2] # t
        BY <1>0, <2>1, <2>3, <2>4, Rows
    <2>7. ~Fresh(r.task, t) /\ t \notin Live(r.task)
        BY <2>5 DEF Live, Fresh
    <2> QED BY <1>0, <2>1, <2>2, <2>3, <2>4, <2>5, <2>6, <2>7, <2>8, OneTaskChanges
<1>3. CASE ClaimTaskPoll(p, t) \/ OverrideTaskPoll(p, t)
    <2> DEFINE r == [store EXCEPT !.taskClaim[t] = p]
    <2>1. store' = r /\ ops' = ops
        BY <1>3 DEF ClaimTaskPoll, OverrideTaskPoll, Commit
    <2>2. /\ r \in Store /\ People(r) = People(store) /\ Trees(r) = Trees(store) /\ Held(r) = Held(store)
          /\ r.epicClaim = store.epicClaim /\ r.taskClaim = [store.taskClaim EXCEPT ![t] = p]
        BY <1>0 DEF Store, People, Trees, Held
    <2> HIDE DEF r
    <2>3. /\ r.epic = store.epic /\ r.task = store.task /\ r.package = store.package
          /\ r.follows = store.follows /\ r.unseen = store.unseen /\ r.links = store.links
          /\ r.taskClaim[t] = p /\ \A u \in Task \ {t} : r.taskClaim[u] = store.taskClaim[u]
        BY <1>0, <2>2, Rows DEF Trees, Held
    <2>4. ~Fresh(r.task, t)
        BY <1>0, <2>3 DEF Live, Fresh
    <2>5. SeesTask(store, r.taskClaim[t], t) /\ t \in Live(r.task)
        BY <1>0, <2>3
    <2>6. /\ \A u \in Task \ {t} : r.task[u] = store.task[u] /\ r.taskClaim[u] = store.taskClaim[u]
          /\ r.task[t].epic = store.task[t].epic /\ r.task[t].owner = store.task[t].owner
          /\ \A m \in r.unseen : m \in store.unseen
          /\ r.links \subseteq store.links
        BY <2>3
    <2>7. /\ (r.task[t].epic = Root) = (r.task[t].owner # Nobody)
          /\ r.task[t].epic \in Live(store.epic) \cup {Root}
          /\ "board" \notin ops => r.task[t].epic # Root
          /\ \A m \in r.unseen : m[2] = t => /\ r.task[t].epic # Root
                                            /\ Member(store, m[1], store.epic[r.task[t].epic].ws)
        BY <1>a, <2>6
    <2>8. Sound(r, ops)
        BY <2>2, <2>3, <2>4, <2>5, <2>6, <2>7, OneTaskChanges
    <2> QED BY <2>1, <2>8
<1>4. CASE MarkTaskSeen(p, t) \/ \E on \in BOOLEAN : SetBookmark(p, t, on)
    <2> DEFINE marks == [b \in BOOLEAN |-> IF b THEN store.bookmarks \cup {<<p, t>>}
                                           ELSE store.bookmarks \ {<<p, t>>}]
    <2>0. /\ store' = [store EXCEPT !.unseen = @ \ {<<p, t>>}]
             \/ \E on \in BOOLEAN : store' = [store EXCEPT !.bookmarks = marks[on]]
          /\ \A on \in BOOLEAN : marks[on] \subseteq Person \X Task
          /\ ops' = ops
        <3>1. \A on \in BOOLEAN : marks[on] = IF on THEN store.bookmarks \cup {<<p, t>>}
                                              ELSE store.bookmarks \ {<<p, t>>}
            OBVIOUS
        <3>2. \A on \in BOOLEAN : marks[on] \subseteq Person \X Task
            BY <1>0, <3>1, Rows
        <3>3. CASE MarkTaskSeen(p, t)
            BY <3>2, <3>3 DEF MarkTaskSeen, Commit
        <3>4. ASSUME NEW on \in BOOLEAN, SetBookmark(p, t, on)
              PROVE  store' = [store EXCEPT !.bookmarks = marks[on]] /\ ops' = ops
            BY <3>1, <3>4 DEF SetBookmark, Commit
        <3> QED BY <1>4, <3>2, <3>3, <3>4
    <2> HIDE DEF marks
    <2>1. /\ store' \in Store /\ People(store') = People(store) /\ Trees(store') = Trees(store)
          /\ store'.follows = store.follows /\ store'.links = store.links
          /\ store'.epicClaim = store.epicClaim /\ store'.taskClaim = store.taskClaim
          /\ store'.unseen \subseteq store.unseen /\ ops' = ops
        BY <1>0, <2>0 DEF Store, People, Trees
    <2>2. /\ store'.epic = store.epic /\ store'.task = store.task /\ store'.package = store.package
        BY <2>1 DEF Trees
    <2>3. ~Fresh(store'.task, t)
        BY <1>0, <2>2 DEF Live, Fresh
    <2> QED BY <1>0, <2>1, <2>2, <2>3, <1>a, OneTaskChanges
<1> QED BY <1>1, <1>2, <1>3, <1>4

LEMMA TasksStaySound ==
    ASSUME Sound(store, ops), NEW p \in Person, TaskStep(p)
    PROVE  Sound(store', ops')
<1>1. PICK t \in Task :
        \/ \E e \in Epic, signal \in BOOLEAN : "tasks" \in ops /\ CreateTask(p, t, e, signal)
        \/ \E e \in Epic : "move" \in ops /\ SetTaskEpic(p, t, e)
        \/ "board" \in ops /\ (CreateTask(p, t, Root, FALSE) \/ SetTaskEpic(p, t, Root))
        \/ "delete" \in ops /\ (FinishTask(p, t) \/ DeleteTask(p, t))
        \/ "poll" \in ops /\ (ClaimTaskPoll(p, t) \/ OverrideTaskPoll(p, t))
        \/ "marks" \in ops /\ (MarkTaskSeen(p, t) \/ \E on \in BOOLEAN : SetBookmark(p, t, on))
    BY DEF TaskStep
<1>2. \A e \in Epic : e \in Epic \cup {Root} /\ e # Root
    BY WorkspacesAssumption
<1> QED BY <1>1, <1>2, NewTasksStaySound, MovedTasksStaySound, OtherTaskCallsStaySound

----------------------------------------------------------------------------
(* Work packages *)

LEMMA PackagesChange ==
    ASSUME NEW s, NEW o, Sound(s, o), NEW r \in Store,
           People(r) = People(s), r.epic = s.epic, r.task = s.task,
           r.follows = s.follows, r.unseen = s.unseen,
           r.epicClaim = s.epicClaim, r.taskClaim = s.taskClaim,
           \A k \in Live(r.package) : r.package[k].ws \in Open(s),
           \A l \in r.links : /\ l[1] \in Live(r.package)
                              /\ l[2] \in Live(s.epic) \cup Live(s.task)
                              /\ l[2] \in LinkedItems(o) =>
                                     ItemWorkspaces(s, l[2]) \subseteq {r.package[l[1]].ws}
    PROVE  Sound(r, o)
<1>1. r.ws = s.ws /\ r.role = s.role
    BY DEF People
<1>2. NothingIsStranded(r)
    BY <1>1 DEF Sound, NothingIsStranded, Open
<1>3. LinksAreBetweenRows(r) /\ LinkedItemsShareThePackagesWorkspace(r, LinkedItems(o))
    BY DEF LinksAreBetweenRows, LinkedItemsShareThePackagesWorkspace, ItemWorkspaces
<1> QED BY <1>1, <1>2, <1>3, Frame DEF Sound

LEMMA PackagesStaySound ==
    ASSUME Sound(store, ops), NEW p \in Person, PackageStep(p)
    PROVE  Sound(store', ops')
<1>0. store \in Store
    BY DEF Sound, RowsAreWhole
<1>1. /\ \A k \in Live(store.package) : store.package[k].ws \in Open(store)
      /\ \A l \in store.links : /\ l[1] \in Live(store.package)
                                /\ l[2] \in Live(store.epic) \cup Live(store.task)
                                /\ l[2] \in LinkedItems(ops) =>
                                       ItemWorkspaces(store, l[2]) \subseteq {store.package[l[1]].ws}
    BY DEF Sound, NothingIsStranded, LinksAreBetweenRows, LinkedItemsShareThePackagesWorkspace
<1>2. PICK k \in Package :
        \/ \E w \in Workspace, private \in BOOLEAN : CreatePackage(p, k, w, private)
        \/ \E private \in BOOLEAN : SetPackageVisibility(p, k, private)
        \/ DeletePackage(p, k)
        \/ \E i \in Epic \cup Task : LinkItem(p, k, i) \/ UnlinkItem(p, k, i)
    BY DEF PackageStep
<1>3. ASSUME NEW row \in PackageRow, NEW links \in SUBSET store.links,
             store' = [store EXCEPT !.package = [store.package EXCEPT ![k] = row], !.links = links],
             ops' = ops,
             row.life = "live" => row.ws \in Open(store),
             \A l \in links : l[1] = k => row.life = "live" /\ row.ws = store.package[k].ws
      PROVE  Sound(store', ops')
    <2> DEFINE package == [store.package EXCEPT ![k] = row]
               r == [store EXCEPT !.package = package, !.links = links]
    <2>1. package \in [Package -> PackageRow] /\ store' = r
        BY <1>0, <1>3, Rows
    <2>2. /\ \A j \in Package : package[j] = IF j = k THEN row ELSE store.package[j]
          /\ \A j \in Package : j \in Live(store.package) <=> store.package[j].life = "live"
          /\ \A j \in Package : j \in Live(package) <=> package[j].life = "live"
          /\ Live(package) \subseteq Package
          /\ \A l \in store.links : l[1] \in Package
        BY <1>0, Rows DEF Live
    <2> HIDE DEF package
    <2>3. /\ r \in Store /\ People(r) = People(store) /\ r.epic = store.epic /\ r.task = store.task
          /\ r.follows = store.follows /\ r.unseen = store.unseen
          /\ r.epicClaim = store.epicClaim /\ r.taskClaim = store.taskClaim
          /\ r.package = package /\ r.links = links
        BY <1>0, <2>1, Rows DEF Store, People
    <2> HIDE DEF r
    <2>4. \A j \in Live(package) : package[j].ws \in Open(store)
        BY <1>1, <1>3, <2>2
    <2>5. \A l \in links : l[1] \in Live(package) /\ package[l[1]].ws = store.package[l[1]].ws
        BY <1>1, <1>3, <2>2
    <2> QED BY <1>1, <1>3, <2>1, <2>3, <2>4, <2>5, PackagesChange
<1>4. store.package[k] \in PackageRow /\ store.package \in [Package -> PackageRow]
    BY <1>0, Rows
<1>5. ASSUME NEW w \in Workspace, NEW private \in BOOLEAN, CreatePackage(p, k, w, private)
      PROVE  Sound(store', ops')
    <2> DEFINE row == [life |-> "live", ws |-> w, private |-> private, creator |-> p]
    <2>1. row \in PackageRow
        BY DEF PackageRow, Life
    <2>2. store' = [store EXCEPT !.package = [store.package EXCEPT ![k] = row], !.links = store.links]
          /\ ops' = ops
        BY <1>0, <1>5 DEF CreatePackage, Commit, Store
    <2>3. row.ws \in Open(store)
        BY <1>5 DEF CreatePackage
    <2>4. \A l \in store.links : l[1] # k
        BY <1>1, <1>5 DEF CreatePackage, Fresh, Live
    <2> HIDE DEF row
    <2> QED BY <1>3, <2>1, <2>2, <2>3, <2>4
<1>6. ASSUME NEW private \in BOOLEAN, SetPackageVisibility(p, k, private) PROVE Sound(store', ops')
    <2> DEFINE row == [store.package[k] EXCEPT !.private = private]
    <2>1. row \in PackageRow /\ row.life = store.package[k].life /\ row.ws = store.package[k].ws
        BY <1>4 DEF PackageRow
    <2>2. store' = [store EXCEPT !.package = [store.package EXCEPT ![k] = row], !.links = store.links]
          /\ ops' = ops
        BY <1>0, <1>6 DEF SetPackageVisibility, Commit, Store
    <2>3. k \in Live(store.package) /\ store.package[k].life = "live"
        BY <1>6 DEF SetPackageVisibility, SeesPackage, Live
    <2> HIDE DEF row
    <2> QED BY <1>1, <1>3, <2>1, <2>2, <2>3
<1>7. ASSUME DeletePackage(p, k) PROVE Sound(store', ops')
    <2> DEFINE row == [store.package[k] EXCEPT !.life = "deleted"]
               links == {l \in store.links : l[1] # k}
    <2>1. row \in PackageRow /\ row.life = "deleted"
        BY <1>4 DEF PackageRow, Life
    <2>2. store' = [store EXCEPT !.package = [store.package EXCEPT ![k] = row], !.links = links]
          /\ ops' = ops
        BY <1>0, <1>7 DEF DeletePackage, DeletePackageRows, Commit, Store
    <2>3. links \in SUBSET store.links /\ \A l \in links : l[1] # k
        OBVIOUS
    <2> HIDE DEF row, links
    <2> QED BY <1>3, <2>1, <2>2, <2>3
<1>8. ASSUME NEW i \in Epic \cup Task, LinkItem(p, k, i) \/ UnlinkItem(p, k, i)
      PROVE  Sound(store', ops')
    <2>1. PICK links \in SUBSET (Package \X (Epic \cup Task)) :
              /\ store' = [store EXCEPT !.links = links] /\ ops' = ops
              /\ links \subseteq store.links \/ (MayLink(p, k, i) /\ links = store.links \cup {<<k, i>>})
        <3> DEFINE more == store.links \cup {<<k, i>>}
                   fewer == store.links \ {<<k, i>>}
        <3>0. more \in SUBSET (Package \X (Epic \cup Task)) /\ fewer \in SUBSET (Package \X (Epic \cup Task))
              /\ fewer \subseteq store.links
            BY <1>0, Rows
        <3>1. CASE LinkItem(p, k, i)
            <4>1. store' = [store EXCEPT !.links = more] /\ ops' = ops /\ MayLink(p, k, i)
                BY <3>1 DEF LinkItem, Commit
            <4> QED BY <3>0, <4>1
        <3>2. CASE UnlinkItem(p, k, i)
            <4>1. store' = [store EXCEPT !.links = fewer] /\ ops' = ops
                BY <3>2 DEF UnlinkItem, Commit
            <4> HIDE DEF fewer
            <4> QED BY <3>0, <4>1
        <3> QED BY <1>8, <3>1, <3>2
    <2> DEFINE r == [store EXCEPT !.links = links]
    <2>2. /\ r \in Store /\ People(r) = People(store) /\ r.epic = store.epic /\ r.task = store.task
          /\ r.follows = store.follows /\ r.unseen = store.unseen
          /\ r.epicClaim = store.epicClaim /\ r.taskClaim = store.taskClaim
          /\ r.package = store.package /\ r.links = links /\ store' = r
        BY <1>0, <2>1 DEF Store, People
    <2> HIDE DEF r
    <2>3. MayLink(p, k, i) => /\ k \in Live(store.package)
                              /\ i \in Live(store.epic) \cup Live(store.task)
                              /\ ItemWorkspaces(store, i) \subseteq {store.package[k].ws}
        BY DEF MayLink, SeesPackage, SeesItem, SeesEpic, SeesTask
    <2>4. \A l \in links : /\ l[1] \in Live(store.package)
                           /\ l[2] \in Live(store.epic) \cup Live(store.task)
                           /\ l[2] \in LinkedItems(ops) =>
                                  ItemWorkspaces(store, l[2]) \subseteq {store.package[l[1]].ws}
        <3> SUFFICES ASSUME NEW l \in links
                     PROVE  /\ l[1] \in Live(store.package)
                            /\ l[2] \in Live(store.epic) \cup Live(store.task)
                            /\ l[2] \in LinkedItems(ops) =>
                                   ItemWorkspaces(store, l[2]) \subseteq {store.package[l[1]].ws}
            OBVIOUS
        <3>1. CASE l \in store.links
            BY <1>1, <3>1
        <3>2. CASE l \notin store.links
            <4>1. MayLink(p, k, i) /\ l[1] = k /\ l[2] = i
                BY <2>1, <3>2
            <4> QED BY <2>3, <4>1
        <3> QED BY <3>1, <3>2
    <2> QED BY <1>1, <2>1, <2>2, <2>4, PackagesChange
<1> QED BY <1>2, <1>5, <1>6, <1>7, <1>8

----------------------------------------------------------------------------
(* Epics *)

LEMMA WorkspacesOfItems ==
    ASSUME NEW s, NEW i \in Epic \cup Task
    PROVE  ItemWorkspaces(s, i) = IF i \in Epic THEN {s.epic[i].ws}
                                  ELSE IF s.task[i].epic = Root THEN {}
                                  ELSE {s.epic[s.task[i].epic].ws}
BY DEF ItemWorkspaces

(* Epics that stay in their workspace.                                     *)
LEMMA EpicsKeepTheirPlace ==
    ASSUME NEW s, NEW o, Sound(s, o), NEW r \in Store,
           People(r) = People(s), Held(r) = Held(s), r.task = s.task, r.package = s.package,
           \A x \in Epic : /\ r.epic[x].life = s.epic[x].life /\ r.epic[x].ws = s.epic[x].ws
                           /\ s.epicClaim[x] = Nobody => r.epicClaim[x] = Nobody,
           \A t \in Task : s.taskClaim[t] = Nobody => r.taskClaim[t] = Nobody
    PROVE  /\ Live(r.epic) = Live(s.epic)
           /\ RowsAreWhole(r) /\ TasksAreFiled(r) /\ FreshRowsAreBare(r) /\ NothingIsStranded(r)
           /\ FollowsStayInside(r) /\ UnseenMarksStayInside(r)
           /\ LinksAreBetweenRows(r) /\ LinkedItemsShareThePackagesWorkspace(r, LinkedItems(o))
           /\ "board" \notin o => NoUserBoards(r)
<1>0. /\ s \in Store /\ Live(s.epic) \subseteq Epic /\ Live(s.task) \subseteq Task
      /\ s.epic \in [Epic -> EpicRow] /\ r.epic \in [Epic -> EpicRow]
      /\ \A t \in Task : s.task[t].epic \in Epic \cup {Root}
      /\ \A l \in s.links : l[2] \in Epic \cup Task
      /\ \A f \in s.follows : f[2] \in Epic
    BY Rows DEF Sound, RowsAreWhole, Live, TaskRow
<1>1. /\ r.ws = s.ws /\ r.role = s.role /\ r.follows = s.follows /\ r.unseen = s.unseen
      /\ r.links = s.links
    BY DEF People, Held
<1>2. Live(r.epic) = Live(s.epic)
    BY <1>0 DEF Live
<1>3. RowsAreWhole(r) /\ ("board" \notin o => NoUserBoards(r))
    BY Frame
<1>4. TasksAreFiled(r)
    BY <1>2 DEF Sound, TasksAreFiled
<1>5. FreshRowsAreBare(r)
    BY <1>0, <1>1 DEF Sound, FreshRowsAreBare, Fresh
<1>6. NothingIsStranded(r)
    BY <1>0, <1>1, <1>2 DEF Sound, NothingIsStranded, Open
<1>7. FollowsStayInside(r)
    BY <1>0, <1>1, <1>2 DEF Sound, FollowsStayInside, Member
<1>8. UnseenMarksStayInside(r)
    BY <1>0, <1>1 DEF Sound, UnseenMarksStayInside, Member
<1>9. LinksAreBetweenRows(r)
    BY <1>1, <1>2 DEF Sound, LinksAreBetweenRows
<1>10. LinkedItemsShareThePackagesWorkspace(r, LinkedItems(o))
    <2>1. \A i \in Epic \cup Task : ItemWorkspaces(r, i) = ItemWorkspaces(s, i)
        <3> SUFFICES ASSUME NEW i \in Epic \cup Task PROVE ItemWorkspaces(r, i) = ItemWorkspaces(s, i)
            OBVIOUS
        <3>1. CASE i \in Epic
            BY <3>1, WorkspacesOfItems
        <3>2. CASE i \notin Epic /\ s.task[i].epic = Root
            BY <3>2, WorkspacesOfItems
        <3>3. CASE i \notin Epic /\ s.task[i].epic # Root
            <4>1. s.task[i].epic \in Epic
                BY <1>0, <3>3
            <4>2. r.epic[s.task[i].epic].ws = s.epic[s.task[i].epic].ws
                BY <4>1
            <4>3. r.task[i].epic = s.task[i].epic
                OBVIOUS
            <4>4. /\ ItemWorkspaces(s, i) = {s.epic[s.task[i].epic].ws}
                  /\ ItemWorkspaces(r, i) = {r.epic[r.task[i].epic].ws}
                BY <3>3, <4>3, WorkspacesOfItems
            <4> QED BY <4>2, <4>3, <4>4
        <3> QED BY <3>1, <3>2, <3>3
    <2> QED BY <1>0, <1>1, <2>1 DEF Sound, LinkedItemsShareThePackagesWorkspace
<1> QED BY <1>2, <1>3, <1>4, <1>5, <1>6, <1>7, <1>8, <1>9, <1>10

LEMMA CommandsStaySound ==
    ASSUME Sound(store, ops), NEW p \in Person, NEW e \in Epic,
           NEW setter \in {p, Nobody}, SetFeedCommand(p, e, setter)
    PROVE  Sound(store', ops')
<1>0. store \in Store /\ Live(store.epic) \subseteq Epic
    BY Rows DEF Sound, RowsAreWhole, Live
<1> DEFINE row == [store.epic[e] EXCEPT !.setter = setter]
           epic == [store.epic EXCEPT ![e] = row]
           m == [store EXCEPT !.epic = epic]
           lost == {e} \X (Person \ {p})
           r == ReleaseEpicClaims(m, lost)
<1>1. /\ row \in EpicRow /\ row.life = store.epic[e].life /\ row.parent = store.epic[e].parent
      /\ row.ws = store.epic[e].ws /\ row.private = store.epic[e].private
      /\ row.creator = store.epic[e].creator /\ row.setter = setter
    BY <1>0, EpicRows DEF EpicRow
<1>2. store' = r /\ ops' = ops
    <2>1. m = [store EXCEPT !.epic[e].setter = setter]
        BY <1>0 DEF Store
    <2> QED BY <2>1 DEF SetFeedCommand, CommandSet, Commit
<1> HIDE DEF row
<1>3. /\ epic \in [Epic -> EpicRow]
      /\ \A x \in Epic : epic[x] = IF x = e THEN row ELSE store.epic[x]
    BY <1>0, <1>1, Rows
<1> HIDE DEF epic
<1>4. /\ m \in Store /\ People(m) = People(store) /\ Held(m) = Held(store) /\ m.epic = epic
      /\ m.task = store.task /\ m.package = store.package
      /\ m.epicClaim = store.epicClaim /\ m.taskClaim = store.taskClaim
    BY <1>0, <1>3 DEF Store, People, Held
<1> HIDE DEF m
<1>5. /\ r \in Store /\ People(r) = People(m) /\ Trees(r) = Trees(m) /\ Held(r) = Held(m)
      /\ r.taskClaim = m.taskClaim
      /\ \A x \in Epic : r.epicClaim[x] = IF <<x, m.epicClaim[x]>> \in lost THEN Nobody
                                          ELSE m.epicClaim[x]
    BY <1>4, ReleasedEpicClaims
<1> HIDE DEF r
<1>6. /\ People(r) = People(store) /\ Held(r) = Held(store) /\ r.epic = epic
      /\ r.task = store.task /\ r.package = store.package /\ r.taskClaim = store.taskClaim
      /\ r.role = store.role /\ r.follows = store.follows
    BY <1>4, <1>5 DEF Trees, People, Held
<1>7. \A x \in Epic : r.epicClaim[x] = IF x = e /\ store.epicClaim[x] \in Person \ {p} THEN Nobody
                                       ELSE store.epicClaim[x]
    BY <1>4, <1>5
<1>8. \A x \in Epic : /\ r.epic[x].life = store.epic[x].life /\ r.epic[x].ws = store.epic[x].ws
                      /\ r.epic[x].parent = store.epic[x].parent
                      /\ r.epic[x].private = store.epic[x].private
                      /\ r.epic[x].creator = store.epic[x].creator
                      /\ x # e => r.epic[x].setter = store.epic[x].setter
    BY <1>1, <1>3, <1>6
<1>9. /\ Live(r.epic) = Live(store.epic)
      /\ RowsAreWhole(r) /\ TasksAreFiled(r) /\ FreshRowsAreBare(r) /\ NothingIsStranded(r)
      /\ FollowsStayInside(r) /\ UnseenMarksStayInside(r)
      /\ LinksAreBetweenRows(r) /\ LinkedItemsShareThePackagesWorkspace(r, LinkedItems(ops))
      /\ "board" \notin ops => NoUserBoards(r)
    <2>1. /\ \A x \in Epic : store.epicClaim[x] = Nobody => r.epicClaim[x] = Nobody
          /\ \A t \in Task : store.taskClaim[t] = Nobody => r.taskClaim[t] = Nobody
        BY <1>6, <1>7
    <2> QED BY <1>5, <1>6, <1>8, <2>1, EpicsKeepTheirPlace
<1>10. /\ \A x \in Epic : Line(r, x) = Line(store, x) /\ PrivateHolder(r, x) = PrivateHolder(store, x)
       /\ \A q \in Person, x \in Epic : SeesEpic(r, q, x) <=> SeesEpic(store, q, x)
    <2>1. SameTreesBut(store, r, {})
        BY <1>8 DEF SameTreesBut
    <2>2. \A x \in Epic : Line(r, x) = Line(store, x) /\ PrivateHolder(r, x) = PrivateHolder(store, x)
        BY <1>0, <1>5, <2>1, SameTrees
    <2> QED BY <1>6, <1>8, <1>9, <2>2 DEF SeesEpic, Member
<1>11. /\ \A x \in Epic : store.epicClaim[x] \in Person \cup {Nobody}
       /\ \A x \in Epic : store.epic[x].parent \in Epic \cup {Root} /\ Line(store, x) \subseteq Epic
       /\ \A t \in Task : store.taskClaim[t] \in Person \cup {Nobody}
                          /\ store.task[t].epic \in Epic \cup {Root}
       /\ Live(store.task) \subseteq Task
    BY <1>0, Rows, EpicRows, LineFacts DEF TaskRow, Live
<1>12. NoCycles(r) /\ SubEpicSharesItsParentsWorkspace(r)
    BY <1>0, <1>8, <1>9, <1>10, <1>11 DEF Sound, NoCycles, SubEpicSharesItsParentsWorkspace
<1>13. EpicClaimsFollowSight(r)
    BY <1>0, <1>7, <1>9, <1>10, <1>11 DEF Sound, EpicClaimsFollowSight
<1>14. CommandsRunOnTheirSettersHost(r)
    BY <1>0, <1>1, <1>3, <1>6, <1>7, <1>8, <1>9, <1>11 DEF Sound, CommandsRunOnTheirSettersHost
<1>15. ~TasksMove(ops) => TaskClaimsFollowSight(r)
    <2>1. \A q \in Person, t \in Task : SeesTask(store, q, t) => SeesTask(r, q, t)
        BY <1>6, <1>10, <1>11 DEF SeesTask
    <2> QED BY <1>6, <1>11, <2>1 DEF Sound, TaskClaimsFollowSight
<1>16. ~TreesChange(ops) => HoldersNest(r)
    BY <1>0, <1>8, <1>9, <1>10, <1>11 DEF Sound, HoldersNest
<1> QED BY <1>2, <1>9, <1>12, <1>13, <1>14, <1>15, <1>16 DEF Sound

(* An epic that is flipped or re-parented takes the claims below it along  *)
(* with the sight they rested on.                                          *)
LEMMA ReleasedTrees ==
    ASSUME NEW s, NEW o, Sound(s, o), TreesChange(o), NEW e \in Live(s.epic), NEW row \in EpicRow,
           row.life = s.epic[e].life, row.ws = s.epic[e].ws, row.creator = s.epic[e].creator,
           row.setter = s.epic[e].setter,
           row.parent # Root => /\ row.parent \in Live(s.epic)
                                /\ s.epic[row.parent].ws = s.epic[e].ws
                                /\ e \notin Line(s, row.parent)
    PROVE  LET r == ReleaseClaimsWithoutSight([s EXCEPT !.epic = [s.epic EXCEPT ![e] = row]], e)
           IN  /\ Sound(r, o) /\ ChangedAt(s, r, e) /\ r \in Store
               /\ r.task = s.task /\ r.role = s.role /\ r.super = s.super
               /\ r.epic = [s.epic EXCEPT ![e] = row]
<1>0. s \in Store /\ Live(s.epic) \subseteq Epic /\ e \in Epic
    BY Rows DEF Sound, RowsAreWhole, Live
<1> DEFINE epic == [s.epic EXCEPT ![e] = row]
           m == [s EXCEPT !.epic = epic]
           lost == WithoutSight(m, SubtreeIds(m, e))
           c == ReleaseEpicClaims(m, lost)
           r == ReleaseTaskClaims(c, lost)
<1>1. /\ epic \in [Epic -> EpicRow]
      /\ \A x \in Epic : epic[x] = IF x = e THEN row ELSE s.epic[x]
    BY <1>0, Rows
<1>2. ReleaseClaimsWithoutSight(m, e) = r
    BY DEF ReleaseClaimsWithoutSight
<1> HIDE DEF epic
<1>3. /\ m \in Store /\ People(m) = People(s) /\ Held(m) = Held(s) /\ m.epic = epic
      /\ m.task = s.task /\ m.package = s.package
      /\ m.epicClaim = s.epicClaim /\ m.taskClaim = s.taskClaim
    BY <1>0, <1>1 DEF Store, People, Held
<1> HIDE DEF m
<1>4. /\ c \in Store /\ People(c) = People(m) /\ Trees(c) = Trees(m) /\ Held(c) = Held(m)
      /\ c.taskClaim = m.taskClaim
      /\ \A x \in Epic : c.epicClaim[x] = IF <<x, m.epicClaim[x]>> \in lost THEN Nobody
                                          ELSE m.epicClaim[x]
    BY <1>3, ReleasedEpicClaims
<1> HIDE DEF c
<1>5. /\ r \in Store /\ People(r) = People(c) /\ Trees(r) = Trees(c) /\ Held(r) = Held(c)
      /\ r.epicClaim = c.epicClaim
      /\ \A t \in Task : r.taskClaim[t] = IF /\ t \in Live(c.task)
                                             /\ <<c.task[t].epic, c.taskClaim[t]>> \in lost
                                          THEN Nobody ELSE c.taskClaim[t]
    BY <1>4, ReleasedTaskClaims
<1> HIDE DEF r, lost
<1>6. /\ People(r) = People(s) /\ Held(r) = Held(s) /\ r.epic = epic /\ m.epic = epic
      /\ r.task = s.task /\ r.package = s.package /\ r.role = s.role /\ m.role = s.role
      /\ c.task = s.task /\ r.super = s.super
    BY <1>3, <1>4, <1>5 DEF Trees, People, Held
<1>7. /\ \A x \in Epic : r.epicClaim[x] = IF <<x, s.epicClaim[x]>> \in lost THEN Nobody
                                          ELSE s.epicClaim[x]
      /\ \A t \in Task : r.taskClaim[t] = IF t \in Live(s.task) /\ <<s.task[t].epic, s.taskClaim[t]>> \in lost
                                          THEN Nobody ELSE s.taskClaim[t]
    BY <1>3, <1>4, <1>5, <1>6
<1>8. \A x \in Epic : /\ r.epic[x].life = s.epic[x].life /\ r.epic[x].ws = s.epic[x].ws
                      /\ r.epic[x].creator = s.epic[x].creator /\ r.epic[x].setter = s.epic[x].setter
                      /\ x # e => r.epic[x] = s.epic[x]
    BY <1>1, <1>6
<1>9. /\ Live(r.epic) = Live(s.epic)
      /\ RowsAreWhole(r) /\ TasksAreFiled(r) /\ FreshRowsAreBare(r) /\ NothingIsStranded(r)
      /\ FollowsStayInside(r) /\ UnseenMarksStayInside(r)
      /\ LinksAreBetweenRows(r) /\ LinkedItemsShareThePackagesWorkspace(r, LinkedItems(o))
      /\ "board" \notin o => NoUserBoards(r)
    <2>1. /\ \A x \in Epic : s.epicClaim[x] = Nobody => r.epicClaim[x] = Nobody
          /\ \A t \in Task : s.taskClaim[t] = Nobody => r.taskClaim[t] = Nobody
        BY <1>7
    <2> QED BY <1>5, <1>6, <1>8, <2>1, EpicsKeepTheirPlace
<1>10. ChangedAt(s, r, e)
    <2>1. SameTreesBut(s, r, {e})
        BY <1>8 DEF SameTreesBut
    <2>2. s.epic[e].parent # Root => e \notin Line(s, s.epic[e].parent)
        BY DEF Sound, NoCycles
    <2>3. r.epic[e].parent = row.parent /\ row.parent \in Epic \cup {Root}
        BY <1>0, <1>1, <1>6 DEF EpicRow
    <2>4. row.parent # Root => Line(r, row.parent) = Line(s, row.parent)
        BY <1>0, <1>5, <2>1, <2>3, BesideTheChange
    <2> QED BY <2>1, <2>2, <2>3, <2>4 DEF ChangedAt
<1>11. NoCycles(r)
    BY <1>0, <1>5, <1>9, <1>10, ChangeMakesNoCycle DEF Sound
<1>12. SubEpicSharesItsParentsWorkspace(r)
    <2> SUFFICES ASSUME NEW x \in Live(r.epic), r.epic[x].parent # Root
                 PROVE  r.epic[x].parent \in Live(r.epic) /\ r.epic[r.epic[x].parent].ws = r.epic[x].ws
        BY DEF SubEpicSharesItsParentsWorkspace
    <2>1. x \in Epic /\ x \in Live(s.epic)
        BY <1>0, <1>9
    <2>2. CASE x = e
        <3>1. r.epic[x].parent = row.parent
            BY <1>1, <1>6, <2>1, <2>2
        <3>2. row.parent \in Live(s.epic) /\ row.parent \in Epic /\ s.epic[row.parent].ws = s.epic[e].ws
            BY <1>0, <3>1
        <3> QED BY <1>8, <1>9, <2>1, <2>2, <3>1, <3>2
    <2>3. CASE x # e
        <3>1. r.epic[x].parent = s.epic[x].parent
            BY <1>8, <2>1, <2>3
        <3>2. s.epic[x].parent \in Live(s.epic) /\ s.epic[x].parent \in Epic
              /\ s.epic[s.epic[x].parent].ws = s.epic[x].ws
            BY <1>0, <2>1, <3>1 DEF Sound, SubEpicSharesItsParentsWorkspace
        <3> QED BY <1>8, <1>9, <2>1, <3>1, <3>2
    <2> QED BY <2>2, <2>3
<1>13. ASSUME NEW q \in Person, NEW x \in Epic, SeesEpic(s, q, x), <<x, q>> \notin lost
       PROVE  SeesEpic(r, q, x)
    <2>1. x \in Live(s.epic) /\ x \in Live(m.epic) /\ r.epic = m.epic /\ r.role = m.role
        BY <1>6, <1>9, <1>13 DEF SeesEpic
    <2>2. SeesEpic(r, q, x) <=> SeesEpic(m, q, x)
        BY <1>3, <1>5, <2>1, SightAgrees
    <2>3. CASE e \in Line(m, x)
        <3>1. x \in SubtreeIds(m, e)
            BY <2>1, <2>3 DEF SubtreeIds
        <3> QED BY <1>13, <2>2, <3>1 DEF lost, WithoutSight
    <2>4. CASE e \notin Line(m, x)
        <3>1. SameTreesBut(m, s, {e})
            BY <1>6, <1>8 DEF SameTreesBut
        <3>2. PrivateHolder(s, x) = PrivateHolder(m, x)
            BY <1>0, <1>3, <2>4, <3>1, BesideTheChange
        <3> QED BY <1>6, <1>8, <1>13, <2>1, <2>2, <3>2 DEF SeesEpic, Member
    <2> QED BY <2>3, <2>4
<1>14. /\ \A x \in Epic : s.epicClaim[x] \in Person \cup {Nobody}
       /\ \A t \in Task : s.taskClaim[t] \in Person \cup {Nobody} /\ s.task[t].epic \in Epic \cup {Root}
       /\ Live(s.task) \subseteq Task
    BY <1>0, Rows DEF TaskRow, Live
<1>15. EpicClaimsFollowSight(r)
    <2> SUFFICES ASSUME NEW x \in Live(r.epic), r.epicClaim[x] # Nobody
                 PROVE  SeesEpic(r, r.epicClaim[x], x)
        BY DEF EpicClaimsFollowSight
    <2>1. x \in Epic /\ x \in Live(s.epic) /\ r.epicClaim[x] = s.epicClaim[x]
          /\ <<x, s.epicClaim[x]>> \notin lost
        BY <1>0, <1>7, <1>9
    <2>2. SeesEpic(s, s.epicClaim[x], x) /\ s.epicClaim[x] \in Person
        BY <1>14, <2>1 DEF Sound, EpicClaimsFollowSight
    <2> QED BY <1>13, <2>1, <2>2
<1>16. CommandsRunOnTheirSettersHost(r)
    BY <1>0, <1>7, <1>8, <1>9 DEF Sound, CommandsRunOnTheirSettersHost
<1>17. ~TasksMove(o) => TaskClaimsFollowSight(r)
    <2> SUFFICES ASSUME ~TasksMove(o), NEW t \in Live(s.task), r.taskClaim[t] # Nobody
                 PROVE  SeesTask(r, r.taskClaim[t], t)
        BY <1>6 DEF TaskClaimsFollowSight
    <2>1. t \in Task /\ r.taskClaim[t] = s.taskClaim[t] /\ s.taskClaim[t] \in Person
          /\ <<s.task[t].epic, s.taskClaim[t]>> \notin lost
        BY <1>7, <1>14
    <2>2. SeesTask(s, s.taskClaim[t], t)
        BY <2>1 DEF Sound, TaskClaimsFollowSight
    <2>3. s.task[t].epic # Root => SeesEpic(r, s.taskClaim[t], s.task[t].epic)
        BY <1>13, <1>14, <2>1, <2>2 DEF SeesTask
    <2> QED BY <1>6, <2>1, <2>2, <2>3 DEF SeesTask
<1>18. Sound(r, o)
    BY <1>9, <1>11, <1>12, <1>15, <1>16, <1>17 DEF Sound
<1> QED BY <1>2, <1>5, <1>6, <1>10, <1>18 DEF epic, m

(* Re-parenting and the flip are such changes.                             *)
LEMMA FlipsAndMoves ==
    ASSUME Sound(store, ops), TreesChange(ops), NEW p \in Person, NEW e \in Epic,
           \/ \E d \in Epic \cup {Root} : Reparent(p, e, d)
           \/ \E private \in BOOLEAN : SetEpicVisibility(p, e, private)
    PROVE  /\ Sound(store', ops') /\ ChangedAt(store, store', e)
           /\ store'.task = store.task /\ store'.role = store.role /\ store'.super = store.super
           /\ Live(store'.epic) = Live(store.epic)
           /\ SeesEpic(store, p, e)
<1>0. store \in Store /\ SeesEpic(store, p, e) /\ e \in Live(store.epic) /\ Live(store.epic) \subseteq Epic
      /\ store.epic[e] \in EpicRow
    BY Rows, EpicRows
       DEF Sound, RowsAreWhole, Reparent, MayMoveUnder, SetEpicVisibility, MayFlip, SeesEpic, Live
<1>1. ASSUME NEW row \in EpicRow, row.life = store.epic[e].life, row.ws = store.epic[e].ws,
             row.creator = store.epic[e].creator, row.setter = store.epic[e].setter,
             row.parent # Root => /\ row.parent \in Live(store.epic)
                                  /\ store.epic[row.parent].ws = store.epic[e].ws
                                  /\ e \notin Line(store, row.parent),
             store' = ReleaseClaimsWithoutSight([store EXCEPT !.epic = [store.epic EXCEPT ![e] = row]], e),
             ops' = ops
      PROVE  /\ Sound(store', ops') /\ ChangedAt(store, store', e)
             /\ store'.task = store.task /\ store'.role = store.role /\ store'.super = store.super
             /\ Live(store'.epic) = Live(store.epic)
    <2>1. /\ Sound(store', ops') /\ ChangedAt(store, store', e)
          /\ store'.task = store.task /\ store'.role = store.role /\ store'.super = store.super
          /\ store'.epic = [store.epic EXCEPT ![e] = row]
        BY <1>0, <1>1, ReleasedTrees
    <2>2. Live(store'.epic) = Live(store.epic)
        BY <1>0, <1>1, <2>1, Rows DEF Live
    <2> QED BY <2>1, <2>2
<1>2. ASSUME NEW d \in Epic \cup {Root}, Reparent(p, e, d)
      PROVE  /\ Sound(store', ops') /\ ChangedAt(store, store', e)
             /\ store'.task = store.task /\ store'.role = store.role /\ store'.super = store.super
             /\ Live(store'.epic) = Live(store.epic)
    <2> DEFINE row == [store.epic[e] EXCEPT !.parent = d]
    <2>1. /\ row \in EpicRow /\ row.life = store.epic[e].life /\ row.ws = store.epic[e].ws
          /\ row.creator = store.epic[e].creator /\ row.setter = store.epic[e].setter /\ row.parent = d
        BY <1>0 DEF EpicRow
    <2>2. d # Root => d \in Live(store.epic) /\ store.epic[d].ws = store.epic[e].ws
                      /\ e \notin Line(store, d)
        BY <1>2 DEF Reparent, MayMoveUnder, SeesEpic
    <2>3. /\ store' = ReleaseClaimsWithoutSight([store EXCEPT !.epic = [store.epic EXCEPT ![e] = row]], e)
          /\ ops' = ops
        <3>1. [store EXCEPT !.epic[e].parent = d] = [store EXCEPT !.epic = [store.epic EXCEPT ![e] = row]]
            BY <1>0 DEF Store
        <3> HIDE DEF row
        <3> QED BY <1>2, <3>1 DEF Reparent, Commit
    <2> HIDE DEF row
    <2> QED BY <1>1, <2>1, <2>2, <2>3
<1>3. ASSUME NEW private \in BOOLEAN, SetEpicVisibility(p, e, private)
      PROVE  /\ Sound(store', ops') /\ ChangedAt(store, store', e)
             /\ store'.task = store.task /\ store'.role = store.role /\ store'.super = store.super
             /\ Live(store'.epic) = Live(store.epic)
    <2> DEFINE row == [store.epic[e] EXCEPT !.private = private]
    <2>1. /\ row \in EpicRow /\ row.life = store.epic[e].life /\ row.ws = store.epic[e].ws
          /\ row.creator = store.epic[e].creator /\ row.setter = store.epic[e].setter
          /\ row.parent = store.epic[e].parent
        BY <1>0 DEF EpicRow
    <2>2. store.epic[e].parent # Root =>
              /\ store.epic[e].parent \in Live(store.epic)
              /\ store.epic[store.epic[e].parent].ws = store.epic[e].ws
              /\ e \notin Line(store, store.epic[e].parent)
        BY <1>0 DEF Sound, SubEpicSharesItsParentsWorkspace, NoCycles
    <2>3. /\ store' = ReleaseClaimsWithoutSight([store EXCEPT !.epic = [store.epic EXCEPT ![e] = row]], e)
          /\ ops' = ops
        <3>1. [store EXCEPT !.epic[e].private = private] = [store EXCEPT !.epic = [store.epic EXCEPT ![e] = row]]
            BY <1>0 DEF Store
        <3> HIDE DEF row
        <3> QED BY <1>3, <3>1 DEF SetEpicVisibility, Commit
    <2> HIDE DEF row
    <2> QED BY <1>1, <2>1, <2>2, <2>3
<1> QED BY <1>0, <1>2, <1>3

(* A new epic is above nothing that is there.                              *)
LEMMA NewEpics ==
    ASSUME Sound(store, ops), NEW p \in Person, NEW e \in Epic, NEW d \in Epic \cup {Root},
           NEW w \in Workspace, NEW private \in BOOLEAN, CreateEpic(p, e, d, w, private)
    PROVE  /\ Sound(store', ops')
           /\ store'.task = store.task /\ store'.super = store.super
           /\ Live(store.epic) \subseteq Live(store'.epic)
           /\ \A x \in Live(store.epic) : PrivateHolder(store', x) = PrivateHolder(store, x)
<1>0. /\ store \in Store /\ Live(store.epic) \subseteq Epic /\ Fresh(store.epic, e)
      /\ e \notin Live(store.epic)
    BY Rows DEF Sound, RowsAreWhole, Live, CreateEpic, Fresh
<1> DEFINE row == [life |-> "live", parent |-> d, ws |-> w, private |-> private,
                   creator |-> p, setter |-> Nobody]
           epic == [store.epic EXCEPT ![e] = row]
           r == [store EXCEPT !.epic = epic]
<1>1. /\ row \in EpicRow /\ row.life = "live" /\ row.parent = d /\ row.ws = w
      /\ row.private = private /\ row.creator = p
    BY DEF EpicRow, Life
<1>2. store' = r /\ ops' = ops
    <2>1. r = [store EXCEPT !.epic[e] = row]
        BY <1>0 DEF Store
    <2> QED BY <2>1 DEF CreateEpic, Commit
<1> HIDE DEF row
<1>3. /\ epic \in [Epic -> EpicRow]
      /\ \A x \in Epic : epic[x] = IF x = e THEN row ELSE store.epic[x]
    BY <1>0, <1>1, Rows
<1> HIDE DEF epic
<1>4. /\ r \in Store /\ People(r) = People(store) /\ Held(r) = Held(store) /\ r.epic = epic
      /\ r.task = store.task /\ r.package = store.package
      /\ r.epicClaim = store.epicClaim /\ r.taskClaim = store.taskClaim
    BY <1>0, <1>3 DEF Store, People, Held
<1> HIDE DEF r
<1>5. /\ r.ws = store.ws /\ r.role = store.role /\ r.super = store.super
      /\ r.follows = store.follows /\ r.unseen = store.unseen /\ r.links = store.links
    BY <1>4 DEF People, Held
<1>6. /\ \A x \in Epic : x # e => r.epic[x] = store.epic[x]
      /\ r.epic[e] = row
      /\ Live(r.epic) = Live(store.epic) \cup {e}
    <2>1. \A x \in Epic : r.epic[x] = IF x = e THEN row ELSE store.epic[x]
        BY <1>3, <1>4
    <2>2. \A x \in Epic : x \in Live(r.epic) <=> r.epic[x].life = "live"
        BY <1>4, EpicRows
    <2>3. \A x \in Epic : x \in Live(store.epic) <=> store.epic[x].life = "live"
        BY <1>0, EpicRows
    <2>4. Live(r.epic) \subseteq Epic
        BY <1>4, Rows DEF Live
    <2> QED BY <1>0, <1>1, <2>1, <2>2, <2>3, <2>4
<1>7. SameTreesBut(store, r, {e})
    BY <1>6 DEF SameTreesBut
<1>8. \A x \in Live(store.epic) : /\ \A y \in Line(store, x) : y \in Live(store.epic) /\ y # e
                                  /\ Line(r, x) = Line(store, x)
                                  /\ PrivateHolder(r, x) = PrivateHolder(store, x)
    <2> TAKE x \in Live(store.epic)
    <2>1. x \in Epic /\ \A y \in Line(store, x) : y \in Live(store.epic)
        BY <1>0, LineIsWhole DEF Sound
    <2>2. e \notin Line(store, x)
        BY <1>0, <2>1
    <2>3. Line(r, x) = Line(store, x) /\ PrivateHolder(r, x) = PrivateHolder(store, x)
        BY <1>0, <1>4, <1>7, <2>1, <2>2, BesideTheChange
    <2> QED BY <2>1, <2>2, <2>3
<1>9. \A q \in Person, x \in Live(store.epic) : SeesEpic(r, q, x) <=> SeesEpic(store, q, x)
    BY <1>0, <1>5, <1>6, <1>8 DEF SeesEpic, Member
<1>10. /\ d # Root => /\ d \in Live(store.epic) /\ w = store.epic[d].ws
                      /\ PrivateHolder(store, d) \in {Nobody, p}
       /\ w \in Open(store)
    BY DEF CreateEpic, SeesEpic, Sound, NothingIsStranded
<1>11. \A x \in Live(store.epic) : store.epic[x].parent # Root =>
           /\ store.epic[x].parent \in Live(store.epic)
           /\ store.epic[store.epic[x].parent].ws = store.epic[x].ws
    BY DEF Sound, SubEpicSharesItsParentsWorkspace
<1>12. NoCycles(r)
    <2> SUFFICES ASSUME NEW x \in Live(r.epic), r.epic[x].parent # Root
                 PROVE  x \notin Line(r, r.epic[x].parent)
        BY DEF NoCycles
    <2>1. CASE x = e
        BY <1>0, <1>1, <1>6, <1>8, <1>10, <2>1
    <2>2. CASE x # e
        <3>1. x \in Live(store.epic) /\ x \in Epic /\ r.epic[x].parent = store.epic[x].parent
            BY <1>0, <1>6, <2>2
        <3>2. x \notin Line(store, store.epic[x].parent)
            BY <3>1 DEF Sound, NoCycles
        <3> QED BY <1>8, <1>11, <3>1, <3>2
    <2> QED BY <2>1, <2>2
<1>13. SubEpicSharesItsParentsWorkspace(r)
    <2> SUFFICES ASSUME NEW x \in Live(r.epic), r.epic[x].parent # Root
                 PROVE  r.epic[x].parent \in Live(r.epic) /\ r.epic[r.epic[x].parent].ws = r.epic[x].ws
        BY DEF SubEpicSharesItsParentsWorkspace
    <2>1. CASE x = e
        <3>1. r.epic[x].parent = d /\ r.epic[x].ws = w /\ d \in Live(store.epic) /\ w = store.epic[d].ws
            BY <1>1, <1>6, <1>10, <2>1
        <3>2. d # e /\ d \in Epic /\ r.epic[d] = store.epic[d]
            BY <1>0, <1>6, <3>1
        <3> QED BY <1>6, <3>1, <3>2
    <2>2. CASE x # e
        <3>1. x \in Live(store.epic) /\ x \in Epic /\ r.epic[x] = store.epic[x]
            BY <1>0, <1>6, <2>2
        <3>2. store.epic[x].parent \in Live(store.epic) /\ store.epic[x].parent # e
              /\ r.epic[store.epic[x].parent] = store.epic[store.epic[x].parent]
            BY <1>0, <1>6, <1>11, <3>1
        <3> QED BY <1>6, <1>11, <3>1, <3>2
    <2> QED BY <2>1, <2>2
<1>14. /\ \A x \in Epic : store.epicClaim[x] \in Person \cup {Nobody}
       /\ store.epicClaim[e] = Nobody
       /\ \A t \in Task : store.taskClaim[t] \in Person \cup {Nobody} /\ store.task[t].epic \in Epic \cup {Root}
       /\ Live(store.task) \subseteq Task
       /\ \A t \in Live(store.task) : store.task[t].epic \in Live(store.epic) \cup {Root}
       /\ \A f \in store.follows : f[2] \in Epic /\ f[2] # e
       /\ \A l \in store.links : l[2] \in Live(store.epic) \cup Live(store.task)
    BY <1>0, Rows DEF TaskRow, Live, Sound, FreshRowsAreBare, TasksAreFiled, LinksAreBetweenRows
<1>15. TasksAreFiled(r) /\ RowsAreWhole(r) /\ ("board" \notin ops => NoUserBoards(r))
    BY <1>4, <1>6, <1>14, Frame DEF TasksAreFiled
<1>16. FreshRowsAreBare(r)
    BY <1>4, <1>5, <1>6, <1>14 DEF Sound, FreshRowsAreBare, Fresh
<1>17. NothingIsStranded(r)
    BY <1>0, <1>1, <1>4, <1>5, <1>6, <1>10 DEF Sound, NothingIsStranded, Open
<1>18. EpicClaimsFollowSight(r) /\ CommandsRunOnTheirSettersHost(r)
    BY <1>0, <1>4, <1>6, <1>9, <1>14 DEF Sound, EpicClaimsFollowSight, CommandsRunOnTheirSettersHost
<1>19. FollowsStayInside(r)
    BY <1>5, <1>6, <1>14 DEF Sound, FollowsStayInside, Member
<1>20. UnseenMarksStayInside(r)
    <2> SUFFICES ASSUME NEW m \in r.unseen
                 PROVE  /\ m[2] \in Live(r.task) /\ r.task[m[2]].epic # Root
                        /\ Member(r, m[1], r.epic[r.task[m[2]].epic].ws)
        BY DEF UnseenMarksStayInside
    <2>1. /\ m[2] \in Live(store.task) /\ store.task[m[2]].epic # Root
          /\ Member(store, m[1], store.epic[store.task[m[2]].epic].ws)
        BY <1>5 DEF Sound, UnseenMarksStayInside
    <2>2. store.task[m[2]].epic \in Live(store.epic)
        BY <1>14, <2>1
    <2>3. r.epic[store.task[m[2]].epic] = store.epic[store.task[m[2]].epic]
        BY <1>0, <1>6, <2>2
    <2> QED BY <1>4, <1>5, <2>1, <2>3 DEF Member
<1>21. LinksAreBetweenRows(r)
    BY <1>4, <1>5, <1>6 DEF Sound, LinksAreBetweenRows
<1>22. LinkedItemsShareThePackagesWorkspace(r, LinkedItems(ops))
    <2> SUFFICES ASSUME NEW l \in store.links, l[2] \in LinkedItems(ops)
                 PROVE  ItemWorkspaces(r, l[2]) \subseteq {store.package[l[1]].ws}
        BY <1>4, <1>5 DEF LinkedItemsShareThePackagesWorkspace
    <2>1. ItemWorkspaces(store, l[2]) \subseteq {store.package[l[1]].ws}
        BY DEF Sound, LinkedItemsShareThePackagesWorkspace
    <2>2. CASE l[2] \in Epic
        <3>1. l[2] \in Live(store.epic) /\ r.epic[l[2]] = store.epic[l[2]]
            BY <1>0, <1>6, <1>14, <2>2, WorkspacesAssumption
        <3> QED BY <2>1, <2>2, <3>1 DEF ItemWorkspaces
    <2>3. CASE l[2] \notin Epic
        <3>1. l[2] \in Live(store.task) /\ l[2] \in Task
            BY <1>0, <1>14, <2>3
        <3>2. store.task[l[2]].epic # Root => r.epic[store.task[l[2]].epic] = store.epic[store.task[l[2]].epic]
            BY <1>0, <1>6, <1>14, <3>1
        <3> QED BY <1>4, <2>1, <2>3, <3>1, <3>2, WorkspacesOfItems
    <2> QED BY <2>2, <2>3
<1>23. ~TasksMove(ops) => TaskClaimsFollowSight(r)
    <2>1. \A q \in Person, t \in Live(store.task) : SeesTask(store, q, t) => SeesTask(r, q, t)
        BY <1>4, <1>9, <1>14 DEF SeesTask
    <2> QED BY <1>4, <1>14, <2>1 DEF Sound, TaskClaimsFollowSight
<1>24. ~TreesChange(ops) => HoldersNest(r)
    <2> SUFFICES ASSUME ~TreesChange(ops), NEW x \in Live(r.epic), r.epic[x].private, r.epic[x].parent # Root
                 PROVE  PrivateHolder(r, r.epic[x].parent) \in {Nobody, r.epic[x].creator}
        BY DEF HoldersNest
    <2>1. CASE x = e
        BY <1>1, <1>6, <1>8, <1>10, <2>1
    <2>2. CASE x # e
        <3>1. x \in Live(store.epic) /\ x \in Epic /\ r.epic[x] = store.epic[x]
            BY <1>0, <1>6, <2>2
        <3>2. PrivateHolder(store, store.epic[x].parent) \in {Nobody, store.epic[x].creator}
            BY <3>1 DEF Sound, HoldersNest
        <3> QED BY <1>8, <1>11, <3>1, <3>2
    <2> QED BY <2>1, <2>2
<1>26. Sound(r, ops)
    BY <1>12, <1>13, <1>15, <1>16, <1>17, <1>18, <1>19, <1>20, <1>21, <1>22, <1>23, <1>24 DEF Sound
<1> QED BY <1>2, <1>4, <1>5, <1>6, <1>8, <1>26

(* An epic and its parent are in the same subtrees, but for the root.      *)
LEMMA SubtreesAreWhole ==
    ASSUME NEW s \in Store, SubEpicSharesItsParentsWorkspace(s), NEW e \in Epic, NEW x \in Live(s.epic),
           s.epic[x].parent # Root
    PROVE  /\ s.epic[x].parent \in SubtreeIds(s, e) => x \in SubtreeIds(s, e)
           /\ x \in SubtreeIds(s, e) /\ x # e => s.epic[x].parent \in SubtreeIds(s, e)
<1>1. x \in Epic /\ s.epic[x].parent \in Live(s.epic) /\ s.epic[x].parent \in Epic
    BY Rows, EpicRows DEF Live, SubEpicSharesItsParentsWorkspace
<1>2. Line(s, x) = {x} \cup Line(s, s.epic[x].parent)
    BY <1>1, LineByParent
<1> QED BY <1>1, <1>2 DEF SubtreeIds

(* A tree that moves to another workspace leaves behind whoever is not a   *)
(* member there.                                                           *)
LEMMA MovesBetweenWorkspaces ==
    ASSUME Sound(store, ops), NEW p \in Person, NEW e \in Epic, NEW w \in Workspace,
           MoveEpicToWorkspace(p, e, w)
    PROVE  /\ Sound(store', ops')
           /\ store'.task = store.task /\ store'.super = store.super
           /\ Live(store'.epic) = Live(store.epic)
           /\ \A x \in Epic : PrivateHolder(store', x) = PrivateHolder(store, x)
<1>0. /\ store \in Store /\ Live(store.epic) \subseteq Epic
      /\ e \in Live(store.epic) /\ store.epic[e].parent = Root /\ w \in Open(store)
    BY Rows DEF Sound, RowsAreWhole, Live, MoveEpicToWorkspace
<1> DEFINE es == SubtreeIds(store, e)
           out == {q \in Person : ~Member(store, q, w)}
           epic == [x \in Epic |-> IF x \in es THEN [store.epic[x] EXCEPT !.ws = w] ELSE store.epic[x]]
           m == [store EXCEPT !.epic = epic]
           items == es \cup TasksIn(m, es)
           c == DropLinksTo(m, items)
           r == EndHolds(c, es, out)
<1>1. store' = r /\ ops' = ops
    <2>1. TreeMovedTo(store, e, w) = m
        BY <1>0 DEF TreeMovedTo, Store
    <2>2. TasksIn(store, es) = TasksIn(m, es)
        BY <1>0 DEF TasksIn, Store
    <2> HIDE DEF es, m
    <2>3. MovedTo(store, e, w) = r
        BY <2>1, <2>2 DEF MovedTo, es
    <2> QED BY <2>3 DEF MoveEpicToWorkspace, Commit
<1>2. es \subseteq Live(store.epic) /\ es \subseteq Epic
    BY <1>0 DEF SubtreeIds
<1> HIDE DEF es, out
<1>3. /\ epic \in [Epic -> EpicRow]
      /\ \A x \in Epic : /\ epic[x].life = store.epic[x].life /\ epic[x].parent = store.epic[x].parent
                         /\ epic[x].private = store.epic[x].private
                         /\ epic[x].creator = store.epic[x].creator
                         /\ epic[x].setter = store.epic[x].setter
                         /\ epic[x].ws = IF x \in es THEN w ELSE store.epic[x].ws
    <2>1. \A x \in Epic : /\ epic[x] = IF x \in es THEN [store.epic[x] EXCEPT !.ws = w] ELSE store.epic[x]
                          /\ store.epic[x] \in EpicRow
        BY <1>0, EpicRows
    <2> HIDE DEF epic
    <2>2. \A x \in Epic : /\ epic[x].life = store.epic[x].life /\ epic[x].parent = store.epic[x].parent
                          /\ epic[x].private = store.epic[x].private
                          /\ epic[x].creator = store.epic[x].creator
                          /\ epic[x].setter = store.epic[x].setter
                          /\ epic[x].ws = IF x \in es THEN w ELSE store.epic[x].ws
                          /\ epic[x] \in EpicRow
        BY <2>1 DEF EpicRow
    <2>3. epic = [x \in Epic |-> epic[x]]
        BY DEF epic
    <2> QED BY <2>2, <2>3
<1> HIDE DEF epic
<1>4. /\ m \in Store /\ People(m) = People(store) /\ Held(m) = Held(store) /\ m.epic = epic
      /\ m.task = store.task /\ m.package = store.package
      /\ m.epicClaim = store.epicClaim /\ m.taskClaim = store.taskClaim
    BY <1>0, <1>3 DEF Store, People, Held
<1> HIDE DEF m
<1>5. /\ c \in Store /\ People(c) = People(m) /\ Trees(c) = Trees(m)
      /\ c.follows = m.follows /\ c.unseen = m.unseen
      /\ c.links = {l \in m.links : l[2] \notin items}
      /\ c.epicClaim = m.epicClaim /\ c.taskClaim = m.taskClaim
    BY <1>4, DroppedLinks
<1> HIDE DEF c
<1>6. /\ r \in Store /\ People(r) = People(c) /\ Trees(r) = Trees(c) /\ r.links = c.links
      /\ r.follows = c.follows \ (out \X es)
      /\ r.unseen = c.unseen \ (out \X TasksIn(c, es))
      /\ \A x \in Epic : r.epicClaim[x] = IF x \in es /\ c.epicClaim[x] \in out
                                          THEN Nobody ELSE c.epicClaim[x]
      /\ \A t \in Task : r.taskClaim[t] = IF t \in TasksIn(c, es) /\ c.taskClaim[t] \in out
                                          THEN Nobody ELSE c.taskClaim[t]
    BY <1>5, EndedHolds
<1> HIDE DEF r
<1>7. /\ r.ws = store.ws /\ r.role = store.role /\ r.super = store.super
      /\ r.epic = epic /\ r.task = store.task /\ r.package = store.package
      /\ c.task = store.task /\ m.task = store.task
      /\ m.links = store.links /\ m.follows = store.follows /\ m.unseen = store.unseen
    BY <1>4, <1>5, <1>6 DEF People, Trees, Held
<1>8. \A t \in Task : /\ t \in TasksIn(c, es) <=> t \in Live(store.task) /\ store.task[t].epic \in es
                      /\ t \in TasksIn(m, es) <=> t \in Live(store.task) /\ store.task[t].epic \in es
    BY <1>7 DEF TasksIn
<1>9. /\ \A x \in Epic : r.epicClaim[x] = IF x \in es /\ store.epicClaim[x] \in out
                                          THEN Nobody ELSE store.epicClaim[x]
      /\ \A t \in Task : r.taskClaim[t] = IF /\ t \in Live(store.task) /\ store.task[t].epic \in es
                                             /\ store.taskClaim[t] \in out
                                          THEN Nobody ELSE store.taskClaim[t]
    BY <1>4, <1>5, <1>6, <1>8
<1>10. /\ Live(r.epic) = Live(store.epic)
       /\ \A x \in Epic : /\ r.epic[x].parent = store.epic[x].parent
                          /\ r.epic[x].private = store.epic[x].private
                          /\ r.epic[x].creator = store.epic[x].creator
                          /\ r.epic[x].setter = store.epic[x].setter
                          /\ r.epic[x].life = store.epic[x].life
                          /\ r.epic[x].ws = IF x \in es THEN w ELSE store.epic[x].ws
    BY <1>0, <1>3, <1>7, Rows DEF Live
<1>11. \A x \in Epic : Line(r, x) = Line(store, x) /\ PrivateHolder(r, x) = PrivateHolder(store, x)
    <2>1. SameTreesBut(store, r, {})
        BY <1>10 DEF SameTreesBut
    <2> QED BY <1>0, <1>6, <2>1, SameTrees
<1>12. /\ \A x \in Epic : store.epicClaim[x] \in Person \cup {Nobody}
       /\ \A x \in Epic : store.epic[x].parent \in Epic \cup {Root} /\ Line(store, x) \subseteq Epic
       /\ \A t \in Task : store.taskClaim[t] \in Person \cup {Nobody} /\ store.task[t].epic \in Epic \cup {Root}
       /\ Live(store.task) \subseteq Task
       /\ \A t \in Live(store.task) : store.task[t].epic \in Live(store.epic) \cup {Root}
       /\ \A f \in store.follows : f[1] \in Person /\ f[2] \in Epic /\ f = <<f[1], f[2]>>
       /\ \A n \in store.unseen : n[1] \in Person /\ n[2] \in Task /\ n = <<n[1], n[2]>>
       /\ \A l \in store.links : l[2] \in Live(store.epic) \cup Live(store.task)
    BY <1>0, Rows, EpicRows, LineFacts DEF TaskRow, Live, Sound, TasksAreFiled, LinksAreBetweenRows
<1>13. \A q \in Person, x \in Epic : SeesEpic(store, q, x) /\ (x \notin es \/ q \notin out) => SeesEpic(r, q, x)
    BY <1>7, <1>10, <1>11 DEF SeesEpic, Member, out
<1>14. NoCycles(r)
    BY <1>0, <1>10, <1>11, <1>12 DEF Sound, NoCycles
<1>15. SubEpicSharesItsParentsWorkspace(r)
    <2> SUFFICES ASSUME NEW x \in Live(store.epic), store.epic[x].parent # Root
                 PROVE  LET up == store.epic[x].parent
                        IN  up \in Live(store.epic) /\ r.epic[up].ws = r.epic[x].ws
        BY <1>0, <1>10 DEF SubEpicSharesItsParentsWorkspace
    <2>1. /\ x \in Epic /\ store.epic[x].parent \in Epic
          /\ store.epic[x].parent \in Live(store.epic)
          /\ store.epic[store.epic[x].parent].ws = store.epic[x].ws
        BY <1>0 DEF Sound, SubEpicSharesItsParentsWorkspace
    <2>2. x \in es <=> store.epic[x].parent \in es
        BY <1>0, <2>1, SubtreesAreWhole DEF Sound, es
    <2> QED BY <1>10, <2>1, <2>2
<1>16. /\ RowsAreWhole(r) /\ ("board" \notin ops => NoUserBoards(r))
       /\ TasksAreFiled(r)
    BY <1>6, <1>7, <1>10, <1>12, Frame DEF TasksAreFiled
<1>17. FreshRowsAreBare(r)
    BY <1>6, <1>4, <1>5, <1>7, <1>9, <1>10, <1>12 DEF Sound, FreshRowsAreBare, Fresh
<1>18. NothingIsStranded(r)
    BY <1>0, <1>7, <1>10 DEF Sound, NothingIsStranded, Open
<1>19. EpicClaimsFollowSight(r)
    <2> SUFFICES ASSUME NEW x \in Live(store.epic), r.epicClaim[x] # Nobody
                 PROVE  SeesEpic(r, r.epicClaim[x], x)
        BY <1>10 DEF EpicClaimsFollowSight
    <2>1. r.epicClaim[x] = store.epicClaim[x] /\ store.epicClaim[x] \in Person /\ x \in Epic
          /\ (x \notin es \/ store.epicClaim[x] \notin out)
        BY <1>0, <1>9, <1>12
    <2> QED BY <1>13, <2>1 DEF Sound, EpicClaimsFollowSight
<1>20. CommandsRunOnTheirSettersHost(r)
    BY <1>0, <1>9, <1>10 DEF Sound, CommandsRunOnTheirSettersHost
<1>21. FollowsStayInside(r)
    <2> SUFFICES ASSUME NEW f \in r.follows, f[2] \in Live(store.epic)
                 PROVE  Member(store, f[1], r.epic[f[2]].ws)
        BY <1>7, <1>10 DEF FollowsStayInside, Member
    <2>1. f \in store.follows /\ ~(f[1] \in out /\ f[2] \in es) /\ f[1] \in Person /\ f[2] \in Epic
        BY <1>5, <1>6, <1>7, <1>12
    <2>2. Member(store, f[1], store.epic[f[2]].ws)
        BY <2>1 DEF Sound, FollowsStayInside
    <2> QED BY <1>10, <2>1, <2>2 DEF out
<1>22. UnseenMarksStayInside(r)
    <2> SUFFICES ASSUME NEW n \in r.unseen
                 PROVE  /\ n[2] \in Live(store.task) /\ store.task[n[2]].epic # Root
                        /\ Member(store, n[1], r.epic[store.task[n[2]].epic].ws)
        BY <1>7 DEF UnseenMarksStayInside, Member
    <2>1. n \in store.unseen /\ ~(n[1] \in out /\ n[2] \in TasksIn(c, es)) /\ n[1] \in Person /\ n[2] \in Task
        BY <1>5, <1>6, <1>7, <1>12
    <2>2. /\ n[2] \in Live(store.task) /\ store.task[n[2]].epic # Root
          /\ Member(store, n[1], store.epic[store.task[n[2]].epic].ws)
        BY <2>1 DEF Sound, UnseenMarksStayInside
    <2>3. store.task[n[2]].epic \in Epic
        BY <1>12, <2>1, <2>2
    <2> QED BY <1>8, <1>10, <2>1, <2>2, <2>3 DEF out
<1>23. r.links = {l \in store.links : l[2] \notin items}
    BY <1>5, <1>6, <1>7
<1>24. LinksAreBetweenRows(r)
    BY <1>7, <1>10, <1>23 DEF Sound, LinksAreBetweenRows
<1>25. LinkedItemsShareThePackagesWorkspace(r, LinkedItems(ops))
    <2> SUFFICES ASSUME NEW l \in store.links, l[2] \notin items, l[2] \in LinkedItems(ops)
                 PROVE  ItemWorkspaces(r, l[2]) \subseteq {store.package[l[1]].ws}
        BY <1>7, <1>23 DEF LinkedItemsShareThePackagesWorkspace
    <2>1. ItemWorkspaces(store, l[2]) \subseteq {store.package[l[1]].ws}
        BY DEF Sound, LinkedItemsShareThePackagesWorkspace
    <2>2. CASE l[2] \in Epic
        <3>1. r.epic[l[2]].ws = store.epic[l[2]].ws
            BY <1>10, <2>2
        <3> QED BY <2>1, <2>2, <3>1 DEF ItemWorkspaces
    <2>3. CASE l[2] \notin Epic
        <3>1. l[2] \in Live(store.task) /\ l[2] \in Task
            BY <1>0, <1>12, <2>3
        <3>2. store.task[l[2]].epic \notin es /\ store.task[l[2]].epic \in Epic \cup {Root}
            BY <1>8, <1>12, <3>1
        <3>3. store.task[l[2]].epic # Root => r.epic[store.task[l[2]].epic].ws = store.epic[store.task[l[2]].epic].ws
            BY <1>10, <3>2
        <3> DEFINE d == store.task[l[2]].epic
        <3>4. /\ ItemWorkspaces(r, l[2]) = IF d = Root THEN {} ELSE {r.epic[d].ws}
              /\ ItemWorkspaces(store, l[2]) = IF d = Root THEN {} ELSE {store.epic[d].ws}
            <4>1. /\ ItemWorkspaces(r, l[2]) = IF r.task[l[2]].epic = Root THEN {}
                                              ELSE {r.epic[r.task[l[2]].epic].ws}
                  /\ ItemWorkspaces(store, l[2]) = IF d = Root THEN {} ELSE {store.epic[d].ws}
                BY <2>3, <3>1, WorkspacesOfItems
            <4>2. r.task[l[2]].epic = d
                BY <1>7
            <4> QED BY <4>1, <4>2
        <3> QED BY <2>1, <3>3, <3>4
    <2> QED BY <2>2, <2>3
<1>26. ~TasksMove(ops) => TaskClaimsFollowSight(r)
    <2> SUFFICES ASSUME ~TasksMove(ops), NEW t \in Live(store.task), r.taskClaim[t] # Nobody
                 PROVE  SeesTask(r, r.taskClaim[t], t)
        BY <1>7 DEF TaskClaimsFollowSight
    <2>1. t \in Task /\ r.taskClaim[t] = store.taskClaim[t] /\ store.taskClaim[t] \in Person
          /\ (store.task[t].epic \notin es \/ store.taskClaim[t] \notin out)
        BY <1>9, <1>12
    <2>2. SeesTask(store, store.taskClaim[t], t)
        BY <2>1 DEF Sound, TaskClaimsFollowSight
    <2>3. store.task[t].epic # Root => SeesEpic(r, store.taskClaim[t], store.task[t].epic)
        BY <1>12, <1>13, <2>1, <2>2 DEF SeesTask
    <2> QED BY <1>7, <2>1, <2>2, <2>3 DEF SeesTask
<1>27. ~TreesChange(ops) => HoldersNest(r)
    BY <1>0, <1>10, <1>11, <1>12 DEF Sound, HoldersNest
<1>29. Sound(r, ops)
    BY <1>14, <1>15, <1>16, <1>17, <1>18, <1>19, <1>20, <1>21, <1>22, <1>24, <1>25, <1>26, <1>27 DEF Sound
<1> QED BY <1>1, <1>7, <1>10, <1>11, <1>29

(* The subtree goes, with its tasks, and nothing that stays hung on it.    *)
LEMMA DeletedTrees ==
    ASSUME NEW s, NEW o, Sound(s, o), NEW e \in Epic
    PROVE  LET r == DeleteEpicSubtree(s, e)
           IN  /\ Sound(r, o) /\ r \in Store
               /\ \A x \in Epic : PrivateHolder(r, x) = PrivateHolder(s, x)
               /\ Live(r.epic) = Live(s.epic) \ SubtreeIds(s, e)
               /\ \A x \in Epic : r.epic[x].life = "deleted" /\ s.epic[x].life = "live" =>
                                      x \in SubtreeIds(s, e)
               /\ \A t \in Live(r.task) : r.task[t] = s.task[t]
               /\ r.super = s.super
<1>0. s \in Store /\ Live(s.epic) \subseteq Epic /\ Live(s.task) \subseteq Task
    BY Rows DEF Sound, RowsAreWhole, Live
<1> DEFINE es == SubtreeIds(s, e)
           ts == TasksIn(s, es)
           c == DropMarks(s, Person \X ts)
           d == DropLinksTo(c, es \cup ts)
           epic == [x \in Epic |-> IF x \in es THEN [d.epic[x] EXCEPT !.life = "deleted"] ELSE d.epic[x]]
           task == [t \in Task |-> IF t \in ts THEN [d.task[t] EXCEPT !.life = "deleted"] ELSE d.task[t]]
           r == [d EXCEPT !.epic = epic, !.task = task]
<1>1. DeleteEpicSubtree(s, e) = r
    BY DEF DeleteEpicSubtree
<1>2. \A x : x \in es <=> x \in Live(s.epic) /\ e \in Line(s, x)
    BY DEF SubtreeIds
<1>3. \A t : t \in ts <=> t \in Live(s.task) /\ s.task[t].epic \in es
    BY DEF TasksIn
<1> HIDE DEF es, ts
<1>4. /\ c \in Store /\ People(c) = People(s) /\ Trees(c) = Trees(s)
      /\ c.follows = s.follows /\ c.links = s.links
      /\ c.unseen = s.unseen \ (Person \X ts) /\ c.bookmarks = s.bookmarks \ (Person \X ts)
      /\ c.epicClaim = s.epicClaim /\ c.taskClaim = s.taskClaim
    BY <1>0, DroppedMarks
<1> HIDE DEF c
<1>5. /\ d \in Store /\ People(d) = People(c) /\ Trees(d) = Trees(c)
      /\ d.follows = c.follows /\ d.unseen = c.unseen /\ d.bookmarks = c.bookmarks
      /\ d.links = {l \in c.links : l[2] \notin es \cup ts}
      /\ d.epicClaim = c.epicClaim /\ d.taskClaim = c.taskClaim
    BY <1>4, DroppedLinks
<1> HIDE DEF d
<1>6. d.epic = s.epic /\ d.task = s.task /\ d.package = s.package
    BY <1>4, <1>5 DEF Trees
<1>7. /\ epic \in [Epic -> EpicRow]
      /\ \A x \in Epic : /\ epic[x].life = IF x \in es THEN "deleted" ELSE s.epic[x].life
                         /\ epic[x].parent = s.epic[x].parent /\ epic[x].ws = s.epic[x].ws
                         /\ epic[x].private = s.epic[x].private
                         /\ epic[x].creator = s.epic[x].creator /\ epic[x].setter = s.epic[x].setter
    <2>1. \A x \in Epic : /\ epic[x] = IF x \in es THEN [s.epic[x] EXCEPT !.life = "deleted"] ELSE s.epic[x]
                          /\ s.epic[x] \in EpicRow
        BY <1>0, <1>6, EpicRows
    <2>2. epic = [x \in Epic |-> epic[x]]
        OBVIOUS
    <2> HIDE DEF epic
    <2>3. \A x \in Epic : /\ epic[x].life = IF x \in es THEN "deleted" ELSE s.epic[x].life
                          /\ epic[x].parent = s.epic[x].parent /\ epic[x].ws = s.epic[x].ws
                          /\ epic[x].private = s.epic[x].private
                          /\ epic[x].creator = s.epic[x].creator /\ epic[x].setter = s.epic[x].setter
                          /\ epic[x] \in EpicRow
        BY <2>1 DEF EpicRow, Life
    <2> QED BY <2>2, <2>3
<1> HIDE DEF epic
<1>8. /\ task \in [Task -> TaskRow]
      /\ \A t \in Task : /\ t \notin ts => task[t] = s.task[t]
                         /\ t \in ts => task[t].life = "deleted"
    <2>1. \A t \in Task : /\ task[t] = IF t \in ts THEN [s.task[t] EXCEPT !.life = "deleted"] ELSE s.task[t]
                          /\ s.task[t] \in TaskRow
        BY <1>0, <1>6, Rows
    <2>2. task = [t \in Task |-> task[t]]
        OBVIOUS
    <2> HIDE DEF task
    <2>3. \A t \in Task : /\ t \notin ts => task[t] = s.task[t]
                          /\ t \in ts => task[t].life = "deleted"
                          /\ task[t] \in TaskRow
        BY <2>1 DEF TaskRow, Life
    <2> QED BY <2>2, <2>3
<1> HIDE DEF task
<1>9. /\ r \in Store /\ People(r) = People(d) /\ r.epic = epic /\ r.task = task /\ r.package = d.package
      /\ r.follows = d.follows /\ r.unseen = d.unseen /\ r.links = d.links
      /\ r.epicClaim = d.epicClaim /\ r.taskClaim = d.taskClaim
    BY <1>5, <1>7, <1>8 DEF Store, People
<1> HIDE DEF r
<1>10. /\ r.ws = s.ws /\ r.role = s.role /\ r.super = s.super
       /\ r.package = s.package /\ r.follows = s.follows /\ r.unseen = s.unseen \ (Person \X ts)
       /\ r.links = {l \in s.links : l[2] \notin es \cup ts}
       /\ r.epicClaim = s.epicClaim /\ r.taskClaim = s.taskClaim
    BY <1>4, <1>5, <1>6, <1>9 DEF People
<1>11. /\ \A x \in Epic : /\ r.epic[x].life = IF x \in es THEN "deleted" ELSE s.epic[x].life
                          /\ r.epic[x].parent = s.epic[x].parent /\ r.epic[x].ws = s.epic[x].ws
                          /\ r.epic[x].private = s.epic[x].private
                          /\ r.epic[x].creator = s.epic[x].creator /\ r.epic[x].setter = s.epic[x].setter
       /\ Live(r.epic) = Live(s.epic) \ es
    <2>1. \A x \in Epic : (x \in Live(r.epic) <=> r.epic[x].life = "live")
                          /\ (x \in Live(s.epic) <=> s.epic[x].life = "live")
        BY <1>0, <1>9, EpicRows
    <2>2. Live(r.epic) \subseteq Epic
        BY <1>9, Rows DEF Live
    <2> QED BY <1>0, <1>7, <1>9, <2>1, <2>2
<1>12. /\ Live(r.task) = Live(s.task) \ ts
       /\ \A t \in Task : t \notin ts => r.task[t] = s.task[t]
       /\ \A t \in ts : r.task[t].life = "deleted"
    <2>1. \A t \in Task : (t \in Live(r.task) <=> r.task[t].life = "live")
                          /\ (t \in Live(s.task) <=> s.task[t].life = "live")
        BY <1>0, <1>9, Rows DEF Live
    <2>2. Live(r.task) \subseteq Task
        BY <1>9, Rows DEF Live
    <2> QED BY <1>0, <1>3, <1>8, <1>9, <2>1, <2>2
<1>13. \A x \in Epic : Line(r, x) = Line(s, x) /\ PrivateHolder(r, x) = PrivateHolder(s, x)
    <2>1. SameTreesBut(s, r, {})
        BY <1>11 DEF SameTreesBut
    <2> QED BY <1>0, <1>9, <2>1, SameTrees
<1>14. \A q \in Person, x \in Live(r.epic) : SeesEpic(r, q, x) <=> SeesEpic(s, q, x)
    BY <1>0, <1>10, <1>11, <1>13 DEF SeesEpic, Member
<1>15. /\ \A x \in Epic : s.epicClaim[x] \in Person \cup {Nobody}
       /\ \A x \in Epic : s.epic[x].parent \in Epic \cup {Root} /\ Line(s, x) \subseteq Epic
       /\ \A t \in Task : s.taskClaim[t] \in Person \cup {Nobody} /\ s.task[t].epic \in Epic \cup {Root}
       /\ \A f \in s.follows : f[2] \in Epic
       /\ \A m \in s.unseen : m[1] \in Person /\ m[2] \in Task /\ m = <<m[1], m[2]>>
       /\ \A l \in s.links : l[2] \in Live(s.epic) \cup Live(s.task)
    BY <1>0, Rows, EpicRows, LineFacts DEF TaskRow, Sound, LinksAreBetweenRows
<1>16. \A t \in Live(r.task) : /\ t \in Task /\ t \in Live(s.task) /\ r.task[t] = s.task[t]
                               /\ s.task[t].epic \in Live(r.epic) \cup {Root}
    BY <1>0, <1>3, <1>11, <1>12 DEF Sound, TasksAreFiled
<1>17. NoCycles(r)
    BY <1>0, <1>11, <1>13, <1>15 DEF Sound, NoCycles
<1>18. SubEpicSharesItsParentsWorkspace(r)
    <2> SUFFICES ASSUME NEW x \in Live(r.epic), r.epic[x].parent # Root
                 PROVE  r.epic[x].parent \in Live(r.epic) /\ r.epic[r.epic[x].parent].ws = r.epic[x].ws
        BY DEF SubEpicSharesItsParentsWorkspace
    <2>1. /\ x \in Epic /\ x \in Live(s.epic) /\ x \notin es /\ r.epic[x].parent = s.epic[x].parent
        BY <1>0, <1>11
    <2>2. /\ s.epic[x].parent \in Live(s.epic) /\ s.epic[x].parent \in Epic
          /\ s.epic[s.epic[x].parent].ws = s.epic[x].ws
        BY <1>0, <2>1 DEF Sound, SubEpicSharesItsParentsWorkspace
    <2>3. s.epic[x].parent \notin es
        BY <1>0, <2>1, SubtreesAreWhole DEF Sound, es
    <2> QED BY <1>11, <2>1, <2>2, <2>3
<1>19. RowsAreWhole(r) /\ TasksAreFiled(r) /\ ("board" \notin o => NoUserBoards(r))
    BY <1>9, <1>16 DEF Sound, RowsAreWhole, TasksAreFiled, NoUserBoards
<1>20. FreshRowsAreBare(r)
    <2>1. \A x \in Epic : Fresh(r.epic, x) => Fresh(s.epic, x)
        BY <1>11 DEF Fresh
    <2>2. \A t \in Task : Fresh(r.task, t) => Fresh(s.task, t)
        <3>1. \A t \in Task : r.task[t].life = "unborn" => t \notin ts
            BY <1>12
        <3> QED BY <1>12, <3>1 DEF Fresh
    <2> QED BY <1>10, <1>15, <2>1, <2>2 DEF Sound, FreshRowsAreBare
<1>21. NothingIsStranded(r)
    BY <1>0, <1>10, <1>11 DEF Sound, NothingIsStranded, Open
<1>22. EpicClaimsFollowSight(r) /\ CommandsRunOnTheirSettersHost(r)
    BY <1>0, <1>10, <1>11, <1>14, <1>15 DEF Sound, EpicClaimsFollowSight, CommandsRunOnTheirSettersHost
<1>23. FollowsStayInside(r)
    BY <1>10, <1>11, <1>15 DEF Sound, FollowsStayInside, Member
<1>24. UnseenMarksStayInside(r)
    <2> SUFFICES ASSUME NEW m \in r.unseen
                 PROVE  /\ m[2] \in Live(r.task) /\ r.task[m[2]].epic # Root
                        /\ Member(s, m[1], r.epic[r.task[m[2]].epic].ws)
        BY <1>10 DEF UnseenMarksStayInside, Member
    <2>1. m \in s.unseen /\ m[2] \notin ts /\ m[2] \in Task
        BY <1>10, <1>15
    <2>2. /\ m[2] \in Live(s.task) /\ s.task[m[2]].epic # Root
          /\ Member(s, m[1], s.epic[s.task[m[2]].epic].ws)
        BY <2>1 DEF Sound, UnseenMarksStayInside
    <2>3. r.epic[s.task[m[2]].epic].ws = s.epic[s.task[m[2]].epic].ws
        BY <1>11, <1>15, <2>1, <2>2
    <2> QED BY <1>12, <2>1, <2>2, <2>3
<1>25. LinksAreBetweenRows(r)
    BY <1>10, <1>11, <1>12 DEF Sound, LinksAreBetweenRows
<1>26. LinkedItemsShareThePackagesWorkspace(r, LinkedItems(o))
    <2> SUFFICES ASSUME NEW l \in s.links, l[2] \notin es \cup ts, l[2] \in LinkedItems(o)
                 PROVE  ItemWorkspaces(r, l[2]) \subseteq {s.package[l[1]].ws}
        BY <1>10 DEF LinkedItemsShareThePackagesWorkspace
    <2>1. ItemWorkspaces(s, l[2]) \subseteq {s.package[l[1]].ws}
        BY DEF Sound, LinkedItemsShareThePackagesWorkspace
    <2>2. CASE l[2] \in Epic
        <3>1. r.epic[l[2]].ws = s.epic[l[2]].ws
            BY <1>11, <2>2
        <3> QED BY <2>1, <2>2, <3>1 DEF ItemWorkspaces
    <2>3. CASE l[2] \notin Epic
        <3> DEFINE up == s.task[l[2]].epic
        <3>1. l[2] \in Task /\ r.task[l[2]].epic = up /\ up \in Epic \cup {Root}
            BY <1>0, <1>12, <1>15, <2>3
        <3>2. up # Root => r.epic[up].ws = s.epic[up].ws
            BY <1>11, <3>1
        <3>3. /\ ItemWorkspaces(r, l[2]) = IF r.task[l[2]].epic = Root THEN {}
                                           ELSE {r.epic[r.task[l[2]].epic].ws}
              /\ ItemWorkspaces(s, l[2]) = IF up = Root THEN {} ELSE {s.epic[up].ws}
            BY <2>3, <3>1, WorkspacesOfItems
        <3> QED BY <2>1, <3>1, <3>2, <3>3
    <2> QED BY <2>2, <2>3
<1>27. ~TasksMove(o) => TaskClaimsFollowSight(r)
    <2> SUFFICES ASSUME ~TasksMove(o), NEW t \in Live(r.task), s.taskClaim[t] # Nobody
                 PROVE  SeesTask(r, s.taskClaim[t], t)
        BY <1>10 DEF TaskClaimsFollowSight
    <2>1. SeesTask(s, s.taskClaim[t], t) /\ s.taskClaim[t] \in Person
        BY <1>15, <1>16 DEF Sound, TaskClaimsFollowSight
    <2> QED BY <1>14, <1>16, <2>1 DEF SeesTask
<1>28. ~TreesChange(o) => HoldersNest(r)
    BY <1>0, <1>11, <1>13, <1>15 DEF Sound, HoldersNest
<1>30. Sound(r, o)
    BY <1>17, <1>18, <1>19, <1>20, <1>21, <1>22, <1>23, <1>24, <1>25, <1>26, <1>27, <1>28 DEF Sound
<1>31. \A x \in Epic : r.epic[x].life = "deleted" /\ s.epic[x].life = "live" => x \in es
    BY <1>11
<1> QED BY <1>1, <1>9, <1>10, <1>11, <1>13, <1>16, <1>30, <1>31 DEF es

LEMMA EpicsStaySound ==
    ASSUME Sound(store, ops), NEW p \in Person, EpicStep(p)
    PROVE  Sound(store', ops')
<1>1. PICK e \in Epic :
        \/ \E d \in Epic \cup {Root}, w \in Workspace, private \in BOOLEAN :
               "epics" \in ops /\ CreateEpic(p, e, d, w, private)
        \/ \E d \in Epic \cup {Root} : "reparent" \in ops /\ Reparent(p, e, d)
        \/ \E private \in BOOLEAN : "flip" \in ops /\ SetEpicVisibility(p, e, private)
        \/ \E w \in Workspace : "carry" \in ops /\ MoveEpicToWorkspace(p, e, w)
        \/ "delete" \in ops /\ DeleteEpic(p, e)
        \/ "hatch" \in ops /\ DeleteUnseenEpic(p, e)
        \/ "follow" \in ops /\ (SubscribeToEpic(p, e) \/ UnsubscribeFromEpic(p, e))
        \/ \E setter \in {p, Nobody} : "feed" \in ops /\ SetFeedCommand(p, e, setter)
        \/ "feed" \in ops /\ (ClaimEpicPoll(p, e) \/ OverrideEpicPoll(p, e))
    BY DEF EpicStep
<1>2. CASE \/ \E d \in Epic \cup {Root} : "reparent" \in ops /\ Reparent(p, e, d)
           \/ \E private \in BOOLEAN : "flip" \in ops /\ SetEpicVisibility(p, e, private)
    BY <1>2, FlipsAndMoves DEF TreesChange
<1>3. CASE DeleteEpic(p, e) \/ DeleteUnseenEpic(p, e)
    BY <1>3, DeletedTrees DEF DeleteEpic, DeleteUnseenEpic, Commit
<1> QED BY <1>1, <1>2, <1>3, NewEpics, MovesBetweenWorkspaces, FollowsStaySound, EndsOfFollowsStaySound,
           CommandsStaySound, ClaimsStaySound

----------------------------------------------------------------------------
(* The stores of every behaviour *)

SoundStore == Sound(store, ops) /\ taker \in Person \cup {Nobody}

LEMMA EveryCallCommits ==
    ASSUME NEW p \in Person, PeopleStep(p) \/ EpicStep(p) \/ TaskStep(p) \/ PackageStep(p)
    PROVE  /\ taker' = IF Taken(store, store') THEN p ELSE Nobody
           /\ ops' = ops
<1> DEFINE Made == /\ taker' = IF Taken(store, store') THEN p ELSE Nobody
                   /\ ops' = ops
<1>0. ASSUME NEW r, Commit(p, r) PROVE Made
    BY <1>0 DEF Commit
<1> SUFFICES Made
    OBVIOUS
<1> HIDE DEF Made
<1>1. CASE PeopleStep(p)
    BY <1>0, <1>1 DEF PeopleStep, ClaimSuperAdmin, GrantSuperAdmin, RevokeSuperAdmin,
                      CreateWorkspace, DeleteWorkspace, AddMember, SetMemberRole, RemoveMember
<1>2. CASE EpicStep(p)
    <2>1. PICK e \in Epic :
            \/ \E d \in Epic \cup {Root}, w \in Workspace, private \in BOOLEAN :
                   "epics" \in ops /\ CreateEpic(p, e, d, w, private)
            \/ \E d \in Epic \cup {Root} : "reparent" \in ops /\ Reparent(p, e, d)
            \/ \E private \in BOOLEAN : "flip" \in ops /\ SetEpicVisibility(p, e, private)
            \/ \E w \in Workspace : "carry" \in ops /\ MoveEpicToWorkspace(p, e, w)
            \/ "delete" \in ops /\ DeleteEpic(p, e)
            \/ "hatch" \in ops /\ DeleteUnseenEpic(p, e)
            \/ "follow" \in ops /\ (SubscribeToEpic(p, e) \/ UnsubscribeFromEpic(p, e))
            \/ \E setter \in {p, Nobody} : "feed" \in ops /\ SetFeedCommand(p, e, setter)
            \/ "feed" \in ops /\ (ClaimEpicPoll(p, e) \/ OverrideEpicPoll(p, e))
        BY <1>2 DEF EpicStep
    <2>2. CASE \E d \in Epic \cup {Root}, w \in Workspace, private \in BOOLEAN :
                   CreateEpic(p, e, d, w, private)
        BY <1>0, <2>2 DEF CreateEpic
    <2>3. CASE \/ \E d \in Epic \cup {Root} : Reparent(p, e, d)
               \/ \E private \in BOOLEAN : SetEpicVisibility(p, e, private)
               \/ \E w \in Workspace : MoveEpicToWorkspace(p, e, w)
        BY <1>0, <2>3 DEF Reparent, SetEpicVisibility, MoveEpicToWorkspace
    <2>4. CASE \/ DeleteEpic(p, e) \/ DeleteUnseenEpic(p, e) \/ SubscribeToEpic(p, e)
               \/ UnsubscribeFromEpic(p, e) \/ ClaimEpicPoll(p, e) \/ OverrideEpicPoll(p, e)
               \/ \E setter \in {p, Nobody} : SetFeedCommand(p, e, setter)
        BY <1>0, <2>4 DEF DeleteEpic, DeleteUnseenEpic, SubscribeToEpic, UnsubscribeFromEpic,
                          SetFeedCommand, ClaimEpicPoll, OverrideEpicPoll
    <2> QED BY <2>1, <2>2, <2>3, <2>4
<1>3. CASE TaskStep(p)
    <2>1. PICK t \in Task :
            \/ \E e \in Epic \cup {Root}, signal \in BOOLEAN : CreateTask(p, t, e, signal)
            \/ \E e \in Epic \cup {Root} : SetTaskEpic(p, t, e)
            \/ FinishTask(p, t) \/ DeleteTask(p, t) \/ ClaimTaskPoll(p, t) \/ OverrideTaskPoll(p, t)
            \/ MarkTaskSeen(p, t) \/ \E on \in BOOLEAN : SetBookmark(p, t, on)
        BY <1>3 DEF TaskStep
    <2>2. CASE \/ \E e \in Epic \cup {Root}, signal \in BOOLEAN : CreateTask(p, t, e, signal)
               \/ \E e \in Epic \cup {Root} : SetTaskEpic(p, t, e)
        BY <1>0, <2>2 DEF CreateTask, SetTaskEpic
    <2>3. CASE \/ FinishTask(p, t) \/ DeleteTask(p, t) \/ ClaimTaskPoll(p, t) \/ OverrideTaskPoll(p, t)
               \/ MarkTaskSeen(p, t) \/ \E on \in BOOLEAN : SetBookmark(p, t, on)
        BY <1>0, <2>3 DEF FinishTask, DeleteTask, ClaimTaskPoll, OverrideTaskPoll, MarkTaskSeen, SetBookmark
    <2> QED BY <2>1, <2>2, <2>3
<1>4. CASE PackageStep(p)
    <2>1. PICK k \in Package :
            \/ \E w \in Workspace, private \in BOOLEAN : CreatePackage(p, k, w, private)
            \/ \E private \in BOOLEAN : SetPackageVisibility(p, k, private)
            \/ DeletePackage(p, k)
            \/ \E i \in Epic \cup Task : LinkItem(p, k, i) \/ UnlinkItem(p, k, i)
        BY <1>4 DEF PackageStep
    <2> QED BY <1>0, <2>1 DEF CreatePackage, SetPackageVisibility, DeletePackage, LinkItem, UnlinkItem
<1> QED BY <1>1, <1>2, <1>3, <1>4

LEMMA CallsKeepTheStoreSound ==
    ASSUME SoundStore, [Next]_vars
    PROVE  SoundStore'
<1>1. CASE UNCHANGED vars
    BY <1>1 DEF SoundStore, vars
<1>2. CASE Next
    <2>1. PICK p \in Person : PeopleStep(p) \/ EpicStep(p) \/ TaskStep(p) \/ PackageStep(p)
        BY <1>2 DEF Next
    <2>2. Sound(store', ops')
        BY <2>1, PeopleStaySound, EpicsStaySound, TasksStaySound, PackagesStaySound DEF SoundStore
    <2>3. taker' \in Person \cup {Nobody}
        BY <2>1, EveryCallCommits
    <2> QED BY <2>2, <2>3 DEF SoundStore
<1> QED BY <1>1, <1>2

(* A store stays sound, whoever makes whichever of the calls, in any       *)
(* order: every part of Sound that its operations leave it.                *)
THEOREM StoresStaySound == Spec => []SoundStore
<1>1. Init => SoundStore
    BY StartsAssumption DEF Init, SoundStore
<1> QED BY <1>1, CallsKeepTheStoreSound, PTL DEF Spec

(* A host has the claim of an epic's poll only while its person sees the   *)
(* epic, whatever was listed when the claim was asked for, runs only the   *)
(* feeds that person set, and - where no task changes its epic - has the   *)
(* claims only of tasks in sight.                                          *)
THEOREM ClaimsFollow == Spec => []ClaimsFollowSight
<1>1. SoundStore => ClaimsFollowSight
    BY DEF SoundStore, Sound, ClaimsFollowSight
<1> QED BY <1>1, StoresStaySound, PTL

(* Sub-epics, follows, marks on new tasks and package links keep to the    *)
(* workspace of what they hang on, and every epic and package that is      *)
(* there is in a workspace that is there.                                  *)
THEOREM NothingCrosses == Spec => []NothingPointsAcross
<1>1. SoundStore => NothingPointsAcross
    BY DEF SoundStore, Sound, NothingPointsAcross, TypeOK
<1> QED BY <1>1, StoresStaySound, PTL

(* Nothing but an empty store is asked of a start: no epic, task or        *)
(* package was made yet, and nobody holds anything.                        *)
THEOREM EmptyStoresAreSound ==
    ASSUME NEW s \in Store, NEW o,
           \A e \in Epic : Fresh(s.epic, e) /\ s.epicClaim[e] = Nobody,
           \A t \in Task : Fresh(s.task, t) /\ s.taskClaim[t] = Nobody,
           \A k \in Package : Fresh(s.package, k),
           s.follows = {}, s.unseen = {}, s.links = {}
    PROVE  Sound(s, o)
<1>1. Live(s.epic) = {} /\ Live(s.task) = {} /\ Live(s.package) = {}
    BY Rows DEF Live, Fresh
<1>2. RowsAreWhole(s) /\ NoCycles(s) /\ TasksAreFiled(s) /\ NoUserBoards(s) /\ FreshRowsAreBare(s)
    BY <1>1 DEF RowsAreWhole, NoCycles, TasksAreFiled, NoUserBoards, FreshRowsAreBare
<1>3. /\ SubEpicSharesItsParentsWorkspace(s) /\ NothingIsStranded(s) /\ EpicClaimsFollowSight(s)
      /\ CommandsRunOnTheirSettersHost(s) /\ FollowsStayInside(s) /\ UnseenMarksStayInside(s)
    BY <1>1 DEF SubEpicSharesItsParentsWorkspace, NothingIsStranded, EpicClaimsFollowSight,
                CommandsRunOnTheirSettersHost, FollowsStayInside, UnseenMarksStayInside
<1>4. /\ LinksAreBetweenRows(s) /\ LinkedItemsShareThePackagesWorkspace(s, LinkedItems(o))
      /\ TaskClaimsFollowSight(s) /\ HoldersNest(s)
    BY <1>1 DEF LinksAreBetweenRows, LinkedItemsShareThePackagesWorkspace, TaskClaimsFollowSight,
                HoldersNest
<1> QED BY <1>2, <1>3, <1>4 DEF Sound

----------------------------------------------------------------------------
(* Who may take private work from its holder *)

(* What a call of p leaves to everybody else: every epic and every task    *)
(* that stays has the holder it had, unless that was p; what is deleted    *)
(* was nobody else's, but for the deletes of what nobody sees.             *)
LeavesOthersWork(p) ==
    /\ \A x \in Live(store.epic) \cap Live(store'.epic) :
           PrivateHolder(store, x) \in {Nobody, p} \/ PrivateHolder(store', x) = PrivateHolder(store, x)
    /\ \A t \in Live(store.task) \cap Live(store'.task) :
           HolderOfTask(store, t) \in {Nobody, p} \/ HolderOfTask(store', t) = HolderOfTask(store, t)
    /\ \A x \in Live(store.epic) :
           \/ x \in Live(store'.epic)
           \/ PrivateHolder(store, x) \in {Nobody, p}
           \/ /\ "hatch" \in ops
              /\ ~TreesChange(ops) =>
                     ~Member(store, PrivateHolder(store, x), store.epic[x].ws)

(* Where no tree changes, holders are those of the task and its epics.     *)
LEMMA SameForest ==
    ASSUME Sound(store, ops), store' \in Store, NEW p \in Person,
           Live(store.epic) \subseteq Live(store'.epic),
           \A x \in Live(store.epic) : PrivateHolder(store', x) = PrivateHolder(store, x),
           \A t \in Live(store.task) \cap Live(store'.task) :
               \/ HolderOfTask(store, t) \in {Nobody, p}
               \/ /\ store'.task[t].epic = store.task[t].epic
                  /\ store'.task[t].owner = store.task[t].owner
    PROVE  LeavesOthersWork(p)
<1>1. \A t \in Live(store.task) : store.task[t].epic \in Live(store.epic) \cup {Root}
    BY DEF Sound, TasksAreFiled
<1> QED BY <1>1 DEF LeavesOthersWork, HolderOfTask, TaskHolder

LEMMA PeopleLeaveWork ==
    ASSUME Sound(store, ops), NEW p \in Person, PeopleStep(p)
    PROVE  LeavesOthersWork(p)
<1>0. store \in Store /\ store' \in Store
    BY PeopleStaySound DEF Sound, RowsAreWhole
<1>1. ASSUME NEW w \in Workspace, NEW q \in Person, RemoveMember(p, w, q)
      PROVE  Trees(store') = Trees(store)
    <2> DEFINE roles == [store.role EXCEPT ![w][q] = "none"]
               s == [store EXCEPT !.role = roles]
               es == {e \in Live(s.epic) : s.epic[e].ws = w}
    <2>1. s = [store EXCEPT !.role[w][q] = "none"]
        BY <1>0 DEF Store
    <2>2. store' = EndHolds(s, es, {q})
        BY <1>1, <2>1 DEF RemoveMember, Removed, Commit
    <2>3. roles \in [Workspace -> [Person -> Role]]
        BY <1>0, Rows DEF Role
    <2> HIDE DEF roles
    <2>4. s \in Store /\ Trees(s) = Trees(store)
        BY <1>0, <2>3 DEF Store, Trees
    <2> HIDE DEF s, es
    <2> QED BY <2>2, <2>4, EndedHolds
<1>2. ASSUME NEW w \in Workspace, NEW q \in Person, NEW role,
             AddMember(p, w, q, role) \/ SetMemberRole(p, w, q, role)
      PROVE  Trees(store') = Trees(store)
    BY <1>0, <1>2 DEF AddMember, SetMemberRole, Commit, Store, Trees
<1>3. ASSUME NEW w \in Workspace, CreateWorkspace(p, w) \/ DeleteWorkspace(p, w)
      PROVE  Trees(store') = Trees(store)
    BY <1>0, <1>3 DEF CreateWorkspace, DeleteWorkspace, Commit, Store, Trees
<1>4. ASSUME NEW q \in Person, ClaimSuperAdmin(p) \/ GrantSuperAdmin(p, q) \/ RevokeSuperAdmin(p, q)
      PROVE  Trees(store') = Trees(store)
    BY <1>0, <1>4 DEF ClaimSuperAdmin, GrantSuperAdmin, RevokeSuperAdmin, Commit, Store, Trees
<1>5. Trees(store') = Trees(store)
    BY <1>1, <1>2, <1>3, <1>4 DEF PeopleStep
<1>6. store'.epic = store.epic /\ store'.task = store.task
    BY <1>5 DEF Trees
<1>7. SameTreesBut(store, store', {})
    BY <1>6 DEF SameTreesBut
<1>8. \A x \in Live(store.epic) : PrivateHolder(store', x) = PrivateHolder(store, x)
    BY <1>0, <1>7, Rows, SameTrees DEF Live
<1> QED BY <1>0, <1>6, <1>8, SameForest

LEMMA PackagesLeaveWork ==
    ASSUME Sound(store, ops), NEW p \in Person, PackageStep(p)
    PROVE  LeavesOthersWork(p)
<1>0. store \in Store /\ store' \in Store
    BY PackagesStaySound DEF Sound, RowsAreWhole
<1>1. PICK k \in Package :
        \/ \E w \in Workspace, private \in BOOLEAN : CreatePackage(p, k, w, private)
        \/ \E private \in BOOLEAN : SetPackageVisibility(p, k, private)
        \/ DeletePackage(p, k)
        \/ \E i \in Epic \cup Task : LinkItem(p, k, i) \/ UnlinkItem(p, k, i)
    BY DEF PackageStep
<1>2. CASE \/ \E w \in Workspace, private \in BOOLEAN : CreatePackage(p, k, w, private)
           \/ \E private \in BOOLEAN : SetPackageVisibility(p, k, private)
           \/ DeletePackage(p, k)
    <2>1. store'.epic = store.epic /\ store'.task = store.task
        BY <1>0, <1>2 DEF CreatePackage, SetPackageVisibility, DeletePackage, DeletePackageRows, Commit, Store
    <2>2. SameTreesBut(store, store', {})
        BY <2>1 DEF SameTreesBut
    <2>3. \A x \in Live(store.epic) : PrivateHolder(store', x) = PrivateHolder(store, x)
        BY <1>0, <2>2, Rows, SameTrees DEF Live
    <2> QED BY <1>0, <2>1, <2>3, SameForest
<1>3. CASE \E i \in Epic \cup Task : LinkItem(p, k, i) \/ UnlinkItem(p, k, i)
    <2>1. store'.epic = store.epic /\ store'.task = store.task
        BY <1>0, <1>3 DEF LinkItem, UnlinkItem, Commit, Store
    <2>2. SameTreesBut(store, store', {})
        BY <2>1 DEF SameTreesBut
    <2>3. \A x \in Live(store.epic) : PrivateHolder(store', x) = PrivateHolder(store, x)
        BY <1>0, <2>2, Rows, SameTrees DEF Live
    <2> QED BY <1>0, <2>1, <2>3, SameForest
<1> QED BY <1>1, <1>2, <1>3

LEMMA TasksLeaveWork ==
    ASSUME Sound(store, ops), NEW p \in Person, TaskStep(p)
    PROVE  LeavesOthersWork(p)
<1>0. store \in Store /\ store' \in Store /\ Live(store.task) \subseteq Task
    BY TasksStaySound, Rows DEF Sound, RowsAreWhole, Live
<1>1. PICK t \in Task :
        \/ \E e \in Epic \cup {Root}, signal \in BOOLEAN : CreateTask(p, t, e, signal)
        \/ \E e \in Epic \cup {Root} : SetTaskEpic(p, t, e)
        \/ FinishTask(p, t) \/ DeleteTask(p, t) \/ ClaimTaskPoll(p, t) \/ OverrideTaskPoll(p, t)
        \/ MarkTaskSeen(p, t) \/ \E on \in BOOLEAN : SetBookmark(p, t, on)
    BY DEF TaskStep
<1>2. ASSUME store'.epic = store.epic,
             \A u \in Live(store.task) \cap Live(store'.task) :
                 \/ HolderOfTask(store, u) \in {Nobody, p}
                 \/ /\ store'.task[u].epic = store.task[u].epic
                    /\ store'.task[u].owner = store.task[u].owner
      PROVE  LeavesOthersWork(p)
    <2>1. SameTreesBut(store, store', {})
        BY <1>2 DEF SameTreesBut
    <2>2. \A x \in Live(store.epic) : PrivateHolder(store', x) = PrivateHolder(store, x)
        BY <1>0, <2>1, Rows, SameTrees DEF Live
    <2> QED BY <1>0, <1>2, <2>2, SameForest
<1>3. ASSUME NEW e \in Epic \cup {Root}, NEW signal \in BOOLEAN, CreateTask(p, t, e, signal)
      PROVE  LeavesOthersWork(p)
    <2>1. t \notin Live(store.task)
        BY <1>3 DEF CreateTask, Fresh, Live
    <2>2. store'.epic = store.epic /\ \A u \in Task \ {t} : store'.task[u] = store.task[u]
        BY <1>0, <1>3, Rows DEF CreateTask, Commit, Store
    <2> QED BY <1>0, <1>2, <2>1, <2>2
<1>4. ASSUME NEW e \in Epic \cup {Root}, SetTaskEpic(p, t, e)
      PROVE  LeavesOthersWork(p)
    <2>1. HolderOfTask(store, t) \in {Nobody, p}
        BY <1>4 DEF SetTaskEpic, SeesTask, SeesEpic, HolderOfTask, TaskHolder
    <2>2. store'.epic = store.epic /\ \A u \in Task \ {t} : store'.task[u] = store.task[u]
        <3> DEFINE was == store.task[t].epic
                   owner == IF e = Root THEN p ELSE Nobody
                   links == IF Root \notin {was, e} /\ store.epic[was].ws # store.epic[e].ws
                            THEN DropLinksTo(store, {t}).links ELSE store.links
        <3>1. store' = [store EXCEPT !.task[t].epic = e, !.task[t].owner = owner,
                                     !.unseen = {m \in @ : m[2] # t}, !.links = links]
            BY <1>4 DEF SetTaskEpic, MovedTask, Commit
        <3> HIDE DEF owner, links
        <3>2. store'.epic = store.epic /\ store'.task = [store.task EXCEPT ![t].epic = e, ![t].owner = owner]
            BY <1>0, <3>1 DEF Store
        <3> QED BY <1>0, <3>2, Rows
    <2> QED BY <1>0, <1>2, <2>1, <2>2
<1>5. CASE FinishTask(p, t)
    <2> DEFINE c == ClearMarks(store, t)
    <2>1. c \in Store /\ Trees(c) = Trees(store)
        BY <1>0, DroppedMarks DEF ClearMarks
    <2>2. store' = [c EXCEPT !.task[t].done = TRUE]
        BY <1>5 DEF FinishTask, Commit
    <2> HIDE DEF c
    <2>3. c.epic = store.epic /\ c.task = store.task
        BY <2>1 DEF Trees
    <2>4. store'.epic = store.epic /\ store'.task = [store.task EXCEPT ![t].done = TRUE]
        BY <2>1, <2>2, <2>3 DEF Store
    <2>5. \A u \in Task : store'.task[u].epic = store.task[u].epic /\ store'.task[u].owner = store.task[u].owner
        BY <1>0, <2>4, Rows DEF TaskRow
    <2> QED BY <1>0, <1>2, <2>4, <2>5
<1>6. CASE DeleteTask(p, t)
    <2> DEFINE c == ClearMarks(store, t)
               d == DropLinksTo(c, {t})
    <2>1. c \in Store /\ Trees(c) = Trees(store)
        BY <1>0, DroppedMarks DEF ClearMarks
    <2>2. store' = [d EXCEPT !.task[t].life = "deleted"]
        BY <1>6 DEF DeleteTask, DeleteTaskRow, Commit
    <2> HIDE DEF c
    <2>3. d \in Store /\ Trees(d) = Trees(c)
        BY <2>1, DroppedLinks
    <2> HIDE DEF d
    <2>4. d.epic = store.epic /\ d.task = store.task
        BY <2>1, <2>3 DEF Trees
    <2>5. store'.epic = store.epic /\ store'.task = [store.task EXCEPT ![t].life = "deleted"]
        BY <2>2, <2>3, <2>4 DEF Store
    <2>6. \A u \in Task : store'.task[u].epic = store.task[u].epic /\ store'.task[u].owner = store.task[u].owner
        BY <1>0, <2>5, Rows DEF TaskRow
    <2> QED BY <1>0, <1>2, <2>5, <2>6
<1>7. CASE \/ ClaimTaskPoll(p, t) \/ OverrideTaskPoll(p, t)
           \/ MarkTaskSeen(p, t) \/ \E on \in BOOLEAN : SetBookmark(p, t, on)
    <2>1. store'.epic = store.epic /\ store'.task = store.task
        BY <1>0, <1>7 DEF ClaimTaskPoll, OverrideTaskPoll, MarkTaskSeen, SetBookmark, Commit, Store
    <2> QED BY <1>2, <2>1
<1> QED BY <1>1, <1>3, <1>4, <1>5, <1>6, <1>7

(* Below an epic that is private to somebody everything is, until an epic  *)
(* is flipped or moved.                                                    *)
LEMMA HolderOfTheSubtree ==
    ASSUME NEW s \in Store, NoCycles(s), SubEpicSharesItsParentsWorkspace(s), HoldersNest(s),
           NEW x \in Live(s.epic), NEW e \in Line(s, x), PrivateHolder(s, e) # Nobody
    PROVE  PrivateHolder(s, x) = PrivateHolder(s, e)
<1> DEFINE es == {y \in Live(s.epic) : PrivateHolder(s, y) # Nobody =>
                                           PrivateHolder(s, y) = PrivateHolder(s, x)}
<1>0. Live(s.epic) \subseteq Epic /\ x \in Epic
    BY Rows DEF Live
<1>1. ASSUME NEW y \in es, s.epic[y].parent # Root PROVE s.epic[y].parent \in es
    <2> DEFINE up == s.epic[y].parent
    <2>1. y \in Epic /\ y \in Live(s.epic) /\ up \in Live(s.epic) /\ s.epic[y].creator \in Person
        BY <1>0, <1>1, EpicRows DEF SubEpicSharesItsParentsWorkspace
    <2>2. CASE s.epic[y].private
        <3>1. PrivateHolder(s, y) = s.epic[y].creator
            BY <2>1, <2>2, HolderOfAPrivateEpic
        <3>2. PrivateHolder(s, up) \in {Nobody, s.epic[y].creator}
            BY <1>1, <2>1, <2>2 DEF HoldersNest
        <3> QED BY <1>1, <2>1, <3>1, <3>2
    <2>3. CASE ~s.epic[y].private
        <3>1. PrivateHolder(s, y) = PrivateHolder(s, up)
            BY <1>1, <2>1, <2>3, HolderOfAPublicEpic
        <3> QED BY <1>1, <2>1, <3>1
    <2> QED BY <2>2, <2>3
<1>2. es \in SUBSET Epic /\ x \in es /\ UpClosed(s, es)
    BY <1>0, <1>1 DEF UpClosed
<1> HIDE DEF es
<1>3. Line(s, x) \subseteq es
    BY <1>0, <1>2, LineFacts
<1> QED BY <1>3 DEF es

LEMMA DeletesLeaveWork ==
    ASSUME Sound(store, ops), NEW p \in Person, NEW e \in Epic,
           DeleteEpic(p, e) \/ ("hatch" \in ops /\ DeleteUnseenEpic(p, e))
    PROVE  LeavesOthersWork(p) /\ store'.super = store.super
<1>0. store \in Store /\ Live(store.epic) \subseteq Epic /\ Live(store.task) \subseteq Task
    BY Rows DEF Sound, RowsAreWhole, Live
<1>1. store' = DeleteEpicSubtree(store, e)
    BY DEF DeleteEpic, DeleteUnseenEpic, Commit
<1>2. /\ \A x \in Epic : PrivateHolder(store', x) = PrivateHolder(store, x)
      /\ Live(store'.epic) = Live(store.epic) \ SubtreeIds(store, e)
      /\ \A t \in Live(store'.task) : store'.task[t] = store.task[t]
      /\ store'.super = store.super
    <2> DEFINE r == DeleteEpicSubtree(store, e)
    <2>1. /\ \A x \in Epic : PrivateHolder(r, x) = PrivateHolder(store, x)
          /\ Live(r.epic) = Live(store.epic) \ SubtreeIds(store, e)
          /\ \A t \in Live(r.task) : r.task[t] = store.task[t]
          /\ r.super = store.super
        BY DeletedTrees
    <2> HIDE DEF r
    <2>2. store' = r
        BY <1>1 DEF r
    <2> QED BY <2>1, <2>2
<1>3. ASSUME NEW x \in SubtreeIds(store, e)
      PROVE  \/ PrivateHolder(store, x) \in {Nobody, p}
             \/ /\ "hatch" \in ops
                /\ ~TreesChange(ops) =>
                       ~Member(store, PrivateHolder(store, x), store.epic[x].ws)
    <2>1. CASE DeleteEpic(p, e)
        BY <1>3, <2>1 DEF DeleteEpic, SeesEpic
    <2>2. CASE "hatch" \in ops /\ DeleteUnseenEpic(p, e)
        <3> SUFFICES ASSUME ~TreesChange(ops)
                     PROVE  ~Member(store, PrivateHolder(store, x), store.epic[x].ws)
            BY <2>2
        <3>1. /\ PrivateHolder(store, e) # Nobody /\ e \in Live(store.epic)
              /\ ~Member(store, PrivateHolder(store, e), store.epic[e].ws)
            BY <2>2 DEF DeleteUnseenEpic, EpicIsUnseen
        <3>2. x \in Live(store.epic) /\ e \in Line(store, x)
            BY <1>3 DEF SubtreeIds
        <3>3. PrivateHolder(store, x) = PrivateHolder(store, e)
            BY <1>0, <3>1, <3>2, HolderOfTheSubtree DEF Sound
        <3>4. store.epic[e].ws = store.epic[x].ws
            BY <1>0, <3>2, LineIsWhole DEF Sound
        <3> QED BY <3>1, <3>3, <3>4
    <2> QED BY <2>1, <2>2
<1>4. \A t \in Live(store.task) : store.task[t].epic \in Live(store.epic) \cup {Root}
    BY DEF Sound, TasksAreFiled
<1>5. \A t \in Live(store.task) \cap Live(store'.task) : HolderOfTask(store', t) = HolderOfTask(store, t)
    BY <1>0, <1>2, <1>4 DEF HolderOfTask, TaskHolder
<1>6. \A x \in Live(store.epic) :
          \/ x \in Live(store'.epic)
          \/ PrivateHolder(store, x) \in {Nobody, p}
          \/ /\ "hatch" \in ops
             /\ ~TreesChange(ops) =>
                    ~Member(store, PrivateHolder(store, x), store.epic[x].ws)
    BY <1>2, <1>3
<1> QED BY <1>0, <1>2, <1>5, <1>6 DEF LeavesOthersWork

LEMMA EpicsLeaveWork ==
    ASSUME Sound(store, ops), NEW p \in Person, EpicStep(p)
    PROVE  LeavesOthersWork(p) /\ store'.super = store.super
<1>0. store \in Store /\ store' \in Store /\ Live(store.epic) \subseteq Epic /\ Live(store.task) \subseteq Task
    BY EpicsStaySound, Rows DEF Sound, RowsAreWhole, Live
<1>1. PICK e \in Epic :
        \/ \E d \in Epic \cup {Root}, w \in Workspace, private \in BOOLEAN :
               "epics" \in ops /\ CreateEpic(p, e, d, w, private)
        \/ \E d \in Epic \cup {Root} : "reparent" \in ops /\ Reparent(p, e, d)
        \/ \E private \in BOOLEAN : "flip" \in ops /\ SetEpicVisibility(p, e, private)
        \/ \E w \in Workspace : "carry" \in ops /\ MoveEpicToWorkspace(p, e, w)
        \/ "delete" \in ops /\ DeleteEpic(p, e)
        \/ "hatch" \in ops /\ DeleteUnseenEpic(p, e)
        \/ "follow" \in ops /\ (SubscribeToEpic(p, e) \/ UnsubscribeFromEpic(p, e))
        \/ \E setter \in {p, Nobody} : "feed" \in ops /\ SetFeedCommand(p, e, setter)
        \/ "feed" \in ops /\ (ClaimEpicPoll(p, e) \/ OverrideEpicPoll(p, e))
    BY DEF EpicStep
<1>2. CASE \E d \in Epic \cup {Root}, w \in Workspace, private \in BOOLEAN : CreateEpic(p, e, d, w, private)
    BY <1>0, <1>2, NewEpics, SameForest
<1>3. CASE \/ \E d \in Epic \cup {Root} : "reparent" \in ops /\ Reparent(p, e, d)
           \/ \E private \in BOOLEAN : "flip" \in ops /\ SetEpicVisibility(p, e, private)
    <2>1. /\ ChangedAt(store, store', e)
          /\ store'.task = store.task /\ store'.super = store.super
          /\ Live(store'.epic) = Live(store.epic) /\ SeesEpic(store, p, e)
        BY <1>3, FlipsAndMoves DEF TreesChange
    <2>2. \A x \in Epic : \/ PrivateHolder(store, x) \in {Nobody, p}
                          \/ PrivateHolder(store', x) = PrivateHolder(store, x)
        <3> TAKE x \in Epic
        <3>1. CASE e \in Line(store, x)
            BY <1>0, <2>1, <3>1, HolderBelowTheChange DEF SeesEpic
        <3>2. CASE e \notin Line(store, x)
            BY <1>0, <2>1, <3>2, BesideTheChange DEF ChangedAt
        <3> QED BY <3>1, <3>2
    <2>3. \A t \in Live(store.task) : store.task[t].epic \in Live(store.epic) \cup {Root}
        BY DEF Sound, TasksAreFiled
    <2>4. \A t \in Live(store.task) : \/ HolderOfTask(store, t) \in {Nobody, p}
                                      \/ HolderOfTask(store', t) = HolderOfTask(store, t)
        BY <1>0, <2>1, <2>2, <2>3 DEF HolderOfTask, TaskHolder
    <2> QED BY <1>0, <2>1, <2>2, <2>4 DEF LeavesOthersWork
<1>4. CASE \E w \in Workspace : MoveEpicToWorkspace(p, e, w)
    BY <1>0, <1>4, MovesBetweenWorkspaces, SameForest
<1>5. CASE DeleteEpic(p, e) \/ ("hatch" \in ops /\ DeleteUnseenEpic(p, e))
    BY <1>5, DeletesLeaveWork
<1>6. ASSUME People(store') = People(store), store'.task = store.task,
             \A x \in Epic : /\ store'.epic[x].parent = store.epic[x].parent
                             /\ store'.epic[x].private = store.epic[x].private
                             /\ store'.epic[x].creator = store.epic[x].creator
                             /\ store'.epic[x].life = store.epic[x].life
      PROVE  LeavesOthersWork(p) /\ store'.super = store.super
    <2>1. SameTreesBut(store, store', {})
        BY <1>6 DEF SameTreesBut
    <2>2. \A x \in Epic : PrivateHolder(store', x) = PrivateHolder(store, x)
        BY <1>0, <2>1, SameTrees
    <2>3. Live(store.epic) \subseteq Live(store'.epic)
        BY <1>0, <1>6, EpicRows
    <2> QED BY <1>0, <1>6, <2>2, <2>3, SameForest DEF People
<1>7. CASE SubscribeToEpic(p, e) \/ ClaimEpicPoll(p, e) \/ OverrideEpicPoll(p, e)
    <2>1. People(store') = People(store) /\ Trees(store') = Trees(store)
        BY <1>0, <1>7 DEF SubscribeToEpic, ClaimEpicPoll, OverrideEpicPoll, Commit, Store, People, Trees
    <2> QED BY <1>6, <2>1 DEF Trees
<1>8. CASE UnsubscribeFromEpic(p, e)
    <2> DEFINE rest == [store EXCEPT !.follows = @ \ {<<p, e>>}]
               lost == {x \in SubtreeIds(store, e) : \A y \in Line(store, x) : <<p, y>> \notin rest.follows}
    <2>1. store' = ReleaseEpicClaims(rest, lost \X {p})
        BY <1>8 DEF UnsubscribeFromEpic, Unfollowed, Commit
    <2>2. rest \in Store /\ People(rest) = People(store) /\ Trees(rest) = Trees(store)
        BY <1>0 DEF Store, People, Trees
    <2> HIDE DEF rest
    <2>3. People(store') = People(store) /\ Trees(store') = Trees(store)
        BY <2>1, <2>2, ReleasedEpicClaims
    <2> QED BY <1>6, <2>3 DEF Trees
<1>9. CASE \E setter \in {p, Nobody} : SetFeedCommand(p, e, setter)
    <2>0. PICK setter \in {p, Nobody} : SetFeedCommand(p, e, setter)
        BY <1>9
    <2> DEFINE row == [store.epic[e] EXCEPT !.setter = setter]
               m == [store EXCEPT !.epic = [store.epic EXCEPT ![e] = row]]
               lost == {e} \X (Person \ {p})
    <2>1. m = [store EXCEPT !.epic[e].setter = setter]
        BY <1>0 DEF Store
    <2>2. store' = ReleaseEpicClaims(m, lost)
        BY <2>0, <2>1 DEF SetFeedCommand, CommandSet, Commit
    <2>3. /\ row \in EpicRow /\ row.life = store.epic[e].life /\ row.parent = store.epic[e].parent
          /\ row.private = store.epic[e].private /\ row.creator = store.epic[e].creator
        BY <1>0, EpicRows DEF EpicRow
    <2> HIDE DEF row
    <2>4. /\ m \in Store /\ People(m) = People(store) /\ m.task = store.task
          /\ m.epic = [store.epic EXCEPT ![e] = row]
        BY <1>0, <2>3 DEF Store, People
    <2> HIDE DEF m
    <2>5. People(store') = People(m) /\ Trees(store') = Trees(m)
        BY <2>2, <2>4, ReleasedEpicClaims
    <2>6. \A x \in Epic : store'.epic[x] = IF x = e THEN row ELSE store.epic[x]
        BY <1>0, <2>4, <2>5, Rows DEF Trees
    <2> QED BY <1>6, <2>3, <2>4, <2>5, <2>6 DEF Trees
<1> QED BY <1>1, <1>2, <1>3, <1>4, <1>5, <1>7, <1>8, <1>9

(* The last super admin stays, whoever revokes.                            *)
LEMMA AdminsRemain ==
    ASSUME Sound(store, ops), NEW p \in Person,
           PeopleStep(p) \/ EpicStep(p) \/ TaskStep(p) \/ PackageStep(p)
    PROVE  KeepsASuperAdmin
<1>0. store \in Store
    BY DEF Sound, RowsAreWhole
<1>1. CASE PeopleStep(p)
    <2>1. ASSUME NEW q \in Person, RevokeSuperAdmin(p, q) PROVE KeepsASuperAdmin
        <3>1. store'.super = store.super \ {q}
            BY <1>0, <2>1 DEF RevokeSuperAdmin, Commit, Store
        <3>2. store.super # {q}
            <4>1. Cardinality({q}) = 1
                BY FS_Singleton
            <4>2. Cardinality(store.super) > 1
                BY <2>1 DEF RevokeSuperAdmin
            <4> QED BY <4>1, <4>2
        <3>3. q \in store.super
            BY <2>1 DEF RevokeSuperAdmin
        <3> QED BY <3>1, <3>2, <3>3 DEF KeepsASuperAdmin
    <2>2. ASSUME NEW q \in Person, ClaimSuperAdmin(p) \/ GrantSuperAdmin(p, q) PROVE KeepsASuperAdmin
        <3>1. store'.super = {p} \/ store'.super = store.super \cup {q}
            BY <1>0, <2>2 DEF ClaimSuperAdmin, GrantSuperAdmin, Commit, Store
        <3> QED BY <3>1 DEF KeepsASuperAdmin
    <2>3. ASSUME NEW w \in Workspace, NEW q \in Person, RemoveMember(p, w, q) PROVE KeepsASuperAdmin
        <3> DEFINE roles == [store.role EXCEPT ![w][q] = "none"]
                   s == [store EXCEPT !.role = roles]
                   es == {e \in Live(s.epic) : s.epic[e].ws = w}
        <3>1. s = [store EXCEPT !.role[w][q] = "none"]
            BY <1>0 DEF Store
        <3>2. store' = EndHolds(s, es, {q})
            BY <2>3, <3>1 DEF RemoveMember, Removed, Commit
        <3>3. roles \in [Workspace -> [Person -> Role]]
            BY <1>0, Rows DEF Role
        <3> HIDE DEF roles
        <3>4. s \in Store /\ s.super = store.super
            BY <1>0, <3>3 DEF Store
        <3> HIDE DEF s, es
        <3>5. People(store') = People(s)
            BY <3>2, <3>4, EndedHolds
        <3> QED BY <3>4, <3>5 DEF KeepsASuperAdmin, People
    <2>4. ASSUME NEW w \in Workspace, NEW q \in Person, NEW role,
                 \/ CreateWorkspace(p, w) \/ DeleteWorkspace(p, w)
                 \/ AddMember(p, w, q, role) \/ SetMemberRole(p, w, q, role)
          PROVE  KeepsASuperAdmin
        <3>1. store'.super = store.super
            BY <1>0, <2>4 DEF CreateWorkspace, DeleteWorkspace, AddMember, SetMemberRole, Commit, Store
        <3> QED BY <3>1 DEF KeepsASuperAdmin
    <2> QED BY <1>1, <2>1, <2>2, <2>3, <2>4 DEF PeopleStep
<1>2. CASE EpicStep(p)
    BY <1>2, EpicsLeaveWork DEF KeepsASuperAdmin
<1>3. CASE TaskStep(p)
    <2>1. PICK t \in Task :
            \/ \E e \in Epic \cup {Root}, signal \in BOOLEAN : CreateTask(p, t, e, signal)
            \/ \E e \in Epic \cup {Root} : SetTaskEpic(p, t, e)
            \/ FinishTask(p, t) \/ DeleteTask(p, t) \/ ClaimTaskPoll(p, t) \/ OverrideTaskPoll(p, t)
            \/ MarkTaskSeen(p, t) \/ \E on \in BOOLEAN : SetBookmark(p, t, on)
        BY <1>3 DEF TaskStep
    <2>2. ASSUME NEW e \in Epic \cup {Root}, NEW signal \in BOOLEAN,
                 CreateTask(p, t, e, signal) \/ SetTaskEpic(p, t, e)
          PROVE  store'.super = store.super
        BY <1>0, <2>2 DEF CreateTask, SetTaskEpic, MovedTask, Commit, Store
    <2>3. ASSUME FinishTask(p, t) \/ DeleteTask(p, t) PROVE store'.super = store.super
        BY <1>0, <2>3 DEF FinishTask, DeleteTask, DeleteTaskRow, ClearMarks, DropMarks, DropLinksTo, Commit, Store
    <2>4. ASSUME \/ ClaimTaskPoll(p, t) \/ OverrideTaskPoll(p, t)
                 \/ MarkTaskSeen(p, t) \/ \E on \in BOOLEAN : SetBookmark(p, t, on)
          PROVE  store'.super = store.super
        BY <1>0, <2>4 DEF ClaimTaskPoll, OverrideTaskPoll, MarkTaskSeen, SetBookmark, Commit, Store
    <2>5. store'.super = store.super
        BY <2>1, <2>2, <2>3, <2>4
    <2> QED BY <2>5 DEF KeepsASuperAdmin
<1>4. CASE PackageStep(p)
    <2>1. PICK k \in Package :
            \/ \E w \in Workspace, private \in BOOLEAN : CreatePackage(p, k, w, private)
            \/ \E private \in BOOLEAN : SetPackageVisibility(p, k, private)
            \/ DeletePackage(p, k)
            \/ \E i \in Epic \cup Task : LinkItem(p, k, i) \/ UnlinkItem(p, k, i)
        BY <1>4 DEF PackageStep
    <2>2. store'.super = store.super
        BY <1>0, <2>1 DEF CreatePackage, SetPackageVisibility, DeletePackage, DeletePackageRows,
                          LinkItem, UnlinkItem, Commit, Store
    <2> QED BY <2>2 DEF KeepsASuperAdmin
<1> QED BY <1>1, <1>2, <1>3, <1>4

(* Private work stops being a person's own - becomes public, or somebody   *)
(* else's - and is deleted with what is above it only by a call of theirs, *)
(* whoever administers the workspace and whatever is done to the epics     *)
(* above it; and the last super admin stays.                               *)
THEOREM HoldersDecideAlone == Spec => HoldersDecide
<1> DEFINE Decided == /\ KeepsASuperAdmin
                      /\ ExposesOnlyTheTakersWork
                      /\ "hatch" \notin ops \/ ~TreesChange(ops) => DeletesOnlyTheTakersWork
<1>1. ASSUME SoundStore, [Next]_vars PROVE Decided \/ UNCHANGED vars
    <2>1. CASE UNCHANGED vars
        BY <2>1
    <2>2. CASE Next
        <3>0. /\ store \in Store /\ store' \in Store
              /\ Live(store.epic) \subseteq Epic /\ Live(store'.epic) \subseteq Epic
            BY <1>1, CallsKeepTheStoreSound, Rows DEF SoundStore, Sound, RowsAreWhole, Live
        <3>1. PICK p \in Person : PeopleStep(p) \/ EpicStep(p) \/ TaskStep(p) \/ PackageStep(p)
            BY <2>2 DEF Next
        <3>2. LeavesOthersWork(p) /\ KeepsASuperAdmin
            BY <1>1, <3>1, PeopleLeaveWork, EpicsLeaveWork, TasksLeaveWork, PackagesLeaveWork, AdminsRemain
               DEF SoundStore
        <3>3. taker' = IF Taken(store, store') THEN p ELSE Nobody
            BY <3>1, EveryCallCommits
        <3>4. ExposesOnlyTheTakersWork
            <4>1. ASSUME NEW x \in Live(store.epic) \cap Live(store'.epic), ~KeepsEpic(store, store', x)
                  PROVE  taker' = PrivateHolder(store, x)
                <5>1. taker' = p
                    BY <3>3, <4>1 DEF Taken
                <5>2. PrivateHolder(store, x) \in {Nobody, p} \/ PrivateHolder(store', x) = PrivateHolder(store, x)
                    BY <3>2 DEF LeavesOthersWork
                <5> QED BY <4>1, <5>1, <5>2 DEF KeepsEpic, HoldsEpic
            <4>2. ASSUME NEW t \in Live(store.task) \cap Live(store'.task), ~KeepsTask(store, store', t)
                  PROVE  taker' = HolderOfTask(store, t)
                <5>1. taker' = p
                    BY <3>3, <4>2 DEF Taken
                <5>2. HolderOfTask(store, t) \in {Nobody, p} \/ HolderOfTask(store', t) = HolderOfTask(store, t)
                    BY <3>2 DEF LeavesOthersWork
                <5> QED BY <4>2, <5>1, <5>2 DEF KeepsTask, HoldsTask
            <4> QED BY <4>1, <4>2 DEF ExposesOnlyTheTakersWork
        <3>5. ASSUME "hatch" \notin ops \/ ~TreesChange(ops) PROVE DeletesOnlyTheTakersWork
            <4> SUFFICES ASSUME NEW x \in Live(store.epic), store'.epic[x].life = "deleted"
                         PROVE  \/ PrivateHolder(store, x) \in {Nobody, taker'}
                                \/ ~Member(store, PrivateHolder(store, x), store.epic[x].ws)
                BY DEF DeletesOnlyTheTakersWork
            <4>1. x \notin Live(store'.epic)
                BY DEF Live
            <4>2. CASE PrivateHolder(store, x) = p /\ p # Nobody
                <5>1. ~KeepsEpic(store, store', x)
                    BY <4>1, <4>2 DEF KeepsEpic, HoldsEpic
                <5>2. taker' = p
                    BY <3>3, <5>1 DEF Taken
                <5> QED BY <4>2, <5>2
            <4> QED BY <3>2, <3>5, <4>1, <4>2 DEF LeavesOthersWork
        <3> QED BY <3>2, <3>4, <3>5
    <2> QED BY <1>1, <2>1, <2>2
<1>2. SoundStore /\ [Next]_vars => [Decided]_vars
    BY <1>1
<1> HIDE DEF Decided
<1>3. Spec => [][Decided]_vars
    BY <1>2, StoresStaySound, PTL DEF Spec
<1> QED BY <1>3 DEF HoldersDecide, Decided
=============================================================================
