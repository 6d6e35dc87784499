--------------------------- MODULE EpicTree_proofs ---------------------------
(***************************************************************************)
(* Proofs about the tree of epics, for every setting of it: any number of  *)
(* rows and of repositories, any bound of the walks, any set of calls.     *)
(*                                                                         *)
(* A reducer is one transaction, so the invariant need only hold between   *)
(* transactions; what has to be shown is that it holds again at the end of *)
(* one, whatever it was in the middle.  A store on the way of a reducer    *)
(* therefore carries a list of debts, the epics that may disagree with     *)
(* their children (Follows): every write of rows puts the epics it touched *)
(* on the list, every chain of recalculations takes off the one it starts  *)
(* at and that one's parent, and a reducer is right when its list is empty *)
(* at the end.  Chains get as far as the root because a walk up a forest   *)
(* meets no epic twice.  The functions the reducers share have a lemma     *)
(* each; the reducers compose them.                                        *)
(***************************************************************************)
EXTENDS EpicTree, FiniteSetTheorems, WellFoundedInduction, TLAPS

(* Of numbers, one is the least.                                           *)
LEMMA Least ==
    ASSUME NEW T \in SUBSET Nat, T # {}
    PROVE  \E m \in T : \A k \in T : m <= k
<1> DEFINE Below == {ss \in Nat \X Nat : ss[1] < ss[2]}
<1>1. IsWellFoundedOn(Below, Nat)
    BY NatLessThanWellFounded DEF OpToRel
<1>2. PICK m \in T : \A k \in T : <<k, m>> \notin Below
    <2> HIDE DEF Below
    <2> QED BY <1>1, WFMin
<1>3. ASSUME NEW k \in T, k < m PROVE FALSE
    <2>1. <<k, m>> \in Nat \X Nat /\ <<k, m>>[1] < <<k, m>>[2]
        BY <1>3
    <2> QED BY <2>1, <1>2
<1> QED BY <1>2, <1>3

(* What holds of 0 and passes on from each number to the next.             *)
LEMMA Induction ==
    ASSUME NEW S, 0 \in S, \A n \in Nat : n \in S => n + 1 \in S
    PROVE  Nat \subseteq S
<1> DEFINE T == {n \in Nat : n \notin S}
<1>1. SUFFICES ASSUME T # {} PROVE FALSE
    OBVIOUS
<1>2. PICK m \in T : \A k \in T : m <= k
    BY <1>1, Least
<1>3. m # 0
    OBVIOUS
<1>4. m - 1 \in Nat /\ m - 1 \notin T
    BY <1>2, <1>3
<1>5. (m - 1) + 1 \in S
    BY <1>4
<1> QED BY <1>5, <1>2

(* A sequence in which each element gives the next.                        *)
Sequel(w, a, F) == w[0] = a /\ \A k \in Nat : w[k + 1] = F[k][w[k]]

(* There always is one.                                                    *)
LEMMA Recursion ==
    ASSUME NEW X, NEW a \in X, NEW F \in [Nat -> [X -> X]]
    PROVE  \E w \in [Nat -> X] : Sequel(w, a, F)
<1> DEFINE Good(n, g) == g[0] = a /\ \A k \in Nat : k < n => g[k + 1] = F[k][g[k]]
           S == {n \in Nat : \E g \in [Nat -> X] : Good(n, g)}
<1>1. 0 \in S
    <2>1. [k \in Nat |-> a] \in [Nat -> X] /\ Good(0, [k \in Nat |-> a])
        OBVIOUS
    <2> QED BY <2>1
<1>2. ASSUME NEW n \in Nat, n \in S PROVE n + 1 \in S
    <2>1. PICK g \in [Nat -> X] : Good(n, g)
        BY <1>2
    <2> DEFINE h == [g EXCEPT ![n + 1] = F[n][g[n]]]
    <2>2. F[n][g[n]] \in X
        OBVIOUS
    <2>3. h \in [Nat -> X]
        BY <2>2
    <2>4. h[n + 1] = F[n][g[n]] /\ \A k \in Nat : k # n + 1 => h[k] = g[k]
        BY <2>1, <2>2
    <2>5. h[0] = a
        BY <2>1, <2>4
    <2>6. ASSUME NEW k \in Nat, k < n + 1 PROVE h[k + 1] = F[k][h[k]]
        <3>1. h[k] = g[k]
            BY <2>4, <2>6
        <3>2. CASE k = n
            BY <3>1, <3>2, <2>4
        <3>3. CASE k # n
            <4>1. k < n /\ k + 1 \in Nat /\ k + 1 # n + 1
                BY <2>6, <3>3
            <4>2. g[k + 1] = F[k][g[k]]
                BY <4>1, <2>1
            <4>3. h[k + 1] = g[k + 1]
                BY <4>1, <2>4
            <4> QED BY <4>2, <4>3, <3>1
        <3> QED BY <3>2, <3>3
    <2>7. Good(n + 1, h)
        BY <2>5, <2>6
    <2> HIDE DEF Good, h
    <2> QED BY <2>3, <2>7
<1>3. Nat \subseteq S
    <2> HIDE DEF S
    <2> QED BY <1>1, <1>2, Induction
<1> DEFINE G == [n \in Nat |-> CHOOSE g \in [Nat -> X] : Good(n, g)]
<1>4. \A n \in Nat : G[n] \in [Nat -> X] /\ Good(n, G[n])
    <2> TAKE n \in Nat
    <2>1. \E g \in [Nat -> X] : Good(n, g)
        BY <1>3
    <2> HIDE DEF Good
    <2> QED BY <2>1
<1>5. \A n \in Nat : \A m \in Nat : n <= m => \A k \in 0..n : G[n][k] = G[m][k]
    <2> TAKE n \in Nat
    <2> TAKE m \in Nat
    <2> HAVE n <= m
    <2> DEFINE Q == {k \in Nat : k <= n => G[n][k] = G[m][k]}
    <2> HIDE DEF G
    <2>1. 0 \in Q
        BY <1>4
    <2>2. ASSUME NEW k \in Nat, k \in Q PROVE k + 1 \in Q
        <3> SUFFICES ASSUME k + 1 <= n PROVE G[n][k + 1] = G[m][k + 1]
            OBVIOUS
        <3>1. G[n][k] = G[m][k]
            BY <2>2
        <3>2. G[n][k + 1] = F[k][G[n][k]]
            BY <1>4
        <3>3. G[m][k + 1] = F[k][G[m][k]]
            BY <1>4
        <3> QED BY <3>1, <3>2, <3>3
    <2>3. Nat \subseteq Q
        <3> HIDE DEF Q
        <3> QED BY <2>1, <2>2, Induction
    <2> QED BY <2>3
<1> DEFINE w == [n \in Nat |-> G[n][n]]
<1>6. w \in [Nat -> X]
    <2> HIDE DEF G
    <2> QED BY <1>4
<1>7. w[0] = a
    <2> HIDE DEF G
    <2> QED BY <1>4
<1>8. ASSUME NEW k \in Nat PROVE w[k + 1] = F[k][w[k]]
    <2>1. G[k + 1][k + 1] = F[k][G[k + 1][k]]
        <3> HIDE DEF G
        <3> QED BY <1>4
    <2>2. G[k][k] = G[k + 1][k]
        <3> HIDE DEF G
        <3> QED BY <1>5
    <2> HIDE DEF G
    <2> QED BY <2>1, <2>2
<1> HIDE DEF w
<1> QED BY <1>6, <1>7, <1>8 DEF Sequel

----------------------------------------------------------------------------
(* Stores *)

Tables(rows) == UNION {[ids -> rows] : ids \in SUBSET Nat}

Stores == {s \in [epic : Tables(EpicRows), task : Tables(TaskRows), epics : Nat, tasks : Nat] :
               Epics(s) \subseteq 1..s.epics /\ Tasks(s) \subseteq 1..s.tasks}

(* What every store is made of.                                            *)
LEMMA StoreFacts ==
    ASSUME NEW s \in Stores
    PROVE  /\ s = [epic |-> s.epic, task |-> s.task, epics |-> s.epics, tasks |-> s.tasks]
           /\ s.epic \in [Epics(s) -> EpicRows] /\ s.task \in [Tasks(s) -> TaskRows]
           /\ s.epics \in Nat /\ s.tasks \in Nat
           /\ Epics(s) \subseteq 1..s.epics /\ Tasks(s) \subseteq 1..s.tasks
           /\ Epics(s) \subseteq Nat /\ Tasks(s) \subseteq Nat
           /\ Root \notin Epics(s)
<1>1. /\ s \in [epic : Tables(EpicRows), task : Tables(TaskRows), epics : Nat, tasks : Nat]
      /\ Epics(s) \subseteq 1..s.epics /\ Tasks(s) \subseteq 1..s.tasks
    BY DEF Stores
<1>2. s.epic \in [Epics(s) -> EpicRows] /\ s.task \in [Tasks(s) -> TaskRows]
    <2>1. s.epic \in Tables(EpicRows) /\ s.task \in Tables(TaskRows)
        BY <1>1
    <2> QED BY <2>1 DEF Tables, Epics, Tasks
<1>3. Root \notin Epics(s)
    BY <1>1 DEF Root
<1> QED BY <1>1, <1>2, <1>3

(* A store from its parts.                                                 *)
LEMMA StoreOf ==
    ASSUME NEW f, NEW g, NEW E, NEW T, NEW n \in Nat, NEW m \in Nat,
           E \subseteq 1..n, T \subseteq 1..m, f \in [E -> EpicRows], g \in [T -> TaskRows]
    PROVE  LET r == [epic |-> f, task |-> g, epics |-> n, tasks |-> m]
           IN  r \in Stores /\ Epics(r) = E /\ Tasks(r) = T
<1> DEFINE r == [epic |-> f, task |-> g, epics |-> n, tasks |-> m]
<1>1. E \in SUBSET Nat /\ T \in SUBSET Nat
    OBVIOUS
<1>2. f \in Tables(EpicRows) /\ g \in Tables(TaskRows)
    BY <1>1 DEF Tables
<1>3. Epics(r) = E /\ Tasks(r) = T
    BY DEF Epics, Tasks
<1> QED BY <1>2, <1>3 DEF Stores

(* A store is known by its parts.                                          *)
LEMMA StoreIs ==
    ASSUME NEW r, r = [epic |-> r.epic, task |-> r.task, epics |-> r.epics, tasks |-> r.tasks],
           r.epic \in [Epics(r) -> EpicRows], r.task \in [Tasks(r) -> TaskRows],
           r.epics \in Nat, r.tasks \in Nat, Epics(r) \subseteq 1..r.epics, Tasks(r) \subseteq 1..r.tasks
    PROVE  r \in Stores
<1>1. Epics(r) \in SUBSET Nat /\ Tasks(r) \in SUBSET Nat
    OBVIOUS
<1>2. r.epic \in Tables(EpicRows) /\ r.task \in Tables(TaskRows)
    BY <1>1 DEF Tables
<1> QED BY <1>2 DEF Stores

(* A table is replaced as a whole, and the rest stays.                     *)
LEMMA NewTables ==
    ASSUME NEW s \in Stores, NEW f, NEW g
    PROVE  /\ [s EXCEPT !.epic = f] = [epic |-> f, task |-> s.task, epics |-> s.epics, tasks |-> s.tasks]
           /\ [s EXCEPT !.task = f] = [epic |-> s.epic, task |-> f, epics |-> s.epics, tasks |-> s.tasks]
<1>1. s = [epic |-> s.epic, task |-> s.task, epics |-> s.epics, tasks |-> s.tasks]
    BY StoreFacts
<1> QED BY <1>1

(* What a roll-up leaves as it was: all but the statuses of epics.         *)
SameShape(s, r) ==
    /\ Epics(r) = Epics(s) /\ r.task = s.task /\ r.epics = s.epics /\ r.tasks = s.tasks
    /\ \A e \in Epics(s) : /\ r.epic[e].parent = s.epic[e].parent
                           /\ r.epic[e].group = s.epic[e].group
                           /\ r.epic[e].grouped = s.epic[e].grouped

(* Statuses do not make a forest.                                          *)
LEMMA ShapeKeepsForest ==
    ASSUME NEW s, NEW r, SameShape(s, r), Forest(s)
    PROVE  Forest(r)
BY DEF SameShape, Forest, Tasks

(* Nor do they change whose child anything is.                             *)
LEMMA ShapeKeepsChildren ==
    ASSUME NEW s, NEW r, SameShape(s, r)
    PROVE  \A e : SubEpics(r, e) = SubEpics(s, e) /\ TasksOf(r, e) = TasksOf(s, e)
BY DEF SameShape, SubEpics, TasksOf, Tasks

(* The same children, each in the status it had.                           *)
LEMMA SameChildStatuses ==
    ASSUME NEW s, NEW r, NEW e,
           SubEpics(r, e) = SubEpics(s, e), TasksOf(r, e) = TasksOf(s, e),
           \A c \in SubEpics(s, e) : r.epic[c].status = s.epic[c].status,
           \A t \in TasksOf(s, e) : r.task[t].status = s.task[t].status
    PROVE  ChildStatuses(r, e) = ChildStatuses(s, e)
BY DEF ChildStatuses

(* In a forest no epic is its own parent.                                  *)
LEMMA NotItsOwnParent ==
    ASSUME NEW s, Forest(s), NEW e \in Epics(s)
    PROVE  s.epic[e].parent # e
<1>1. {e} \in SUBSET Epics(s) /\ {e} # {}
    OBVIOUS
<1> QED BY <1>1 DEF Forest

(* What is derived from statuses is a status.                              *)
LEMMA DerivedIsStatus ==
    ASSUME NEW s \in Stores, NEW x \in Status, NEW e
    PROVE  DeriveEpicStatus(x, ChildStatuses(s, e)) \in Status
BY DEF DeriveEpicStatus, Status

(* Epics recalculated at once, none of them the parent of another.         *)
LEMMA Settles ==
    ASSUME NEW s \in Stores, NEW r \in Stores, SameShape(s, r), NEW es \in SUBSET Epics(s),
           \A x \in Epics(s) \ es : r.epic[x].status = s.epic[x].status,
           \A x \in es : r.epic[x].status = DeriveEpicStatus(s.epic[x].status, ChildStatuses(s, x)),
           \A x \in es : s.epic[x].parent \notin es
    PROVE  Stale(r) \subseteq (Stale(s) \ es) \cup {s.epic[x].parent : x \in es}
<1> SUFFICES ASSUME NEW y \in Stale(r), y \notin {s.epic[x].parent : x \in es}
             PROVE  y \in Stale(s) \ es
    OBVIOUS
<1>1. y \in Epics(r) /\ y \in Epics(s)
    BY DEF Stale, SameShape
<1>2. ChildStatuses(r, y) = ChildStatuses(s, y)
    <2>1. SubEpics(r, y) = SubEpics(s, y) /\ TasksOf(r, y) = TasksOf(s, y)
        BY ShapeKeepsChildren
    <2>2. \A c \in SubEpics(s, y) : c \in Epics(s) \ es
        BY DEF SubEpics
    <2>3. \A c \in SubEpics(s, y) : r.epic[c].status = s.epic[c].status
        BY <2>2
    <2>4. \A t \in TasksOf(s, y) : r.task[t].status = s.task[t].status
        BY DEF SameShape
    <2> QED BY <2>1, <2>3, <2>4, SameChildStatuses
<1>3. y \notin es
    <2> SUFFICES ASSUME y \in es PROVE FALSE
        OBVIOUS
    <2>1. r.epic[y].status = DeriveEpicStatus(s.epic[y].status, ChildStatuses(r, y))
        BY <1>2
    <2>2. (r.epic[y].status = "done") # (ChildStatuses(r, y) = {"done"}) /\ ChildStatuses(r, y) # {}
        BY DEF Stale
    <2> QED BY <2>1, <2>2 DEF DeriveEpicStatus
<1>4. r.epic[y].status = s.epic[y].status
    BY <1>1, <1>3
<1>5. ChildStatuses(r, y) # {} /\ ~(r.epic[y].status = "done" <=> ChildStatuses(r, y) = {"done"})
    BY DEF Stale
<1> QED BY <1>1, <1>2, <1>3, <1>4, <1>5 DEF Stale

(* Recalculating one epic settles it, and may make only its parent stale.  *)
LEMMA OneRolledUp ==
    ASSUME NEW s \in Stores, NEW e \in Epics(s)
    PROVE  LET r == RecalculateOne(s, e)
           IN  /\ r \in Stores /\ SameShape(s, r)
               /\ Forest(s) => Stale(r) \subseteq (Stale(s) \ {e}) \cup {s.epic[e].parent}
<1> DEFINE r == RecalculateOne(s, e)
           f == [s.epic EXCEPT ![e].status = DeriveEpicStatus(@, ChildStatuses(s, e))]
<1>1. s.epic \in [Epics(s) -> EpicRows] /\ s.task \in [Tasks(s) -> TaskRows]
    BY StoreFacts
<1>2. DeriveEpicStatus(s.epic[e].status, ChildStatuses(s, e)) \in Status
    BY <1>1, DerivedIsStatus DEF EpicRows
<1>3. f \in [Epics(s) -> EpicRows]
    BY <1>1, <1>2 DEF EpicRows
<1>4. r = [epic |-> f, task |-> s.task, epics |-> s.epics, tasks |-> s.tasks]
    <2>1. s = [epic |-> s.epic, task |-> s.task, epics |-> s.epics, tasks |-> s.tasks]
        BY StoreFacts
    <2> QED BY <2>1 DEF RecalculateOne
<1>5. r \in Stores /\ Epics(r) = Epics(s)
    <2> HIDE DEF f, r
    <2> QED BY <1>1, <1>3, <1>4, StoreFacts, StoreOf
<1>6. /\ \A x \in Epics(s) \ {e} : r.epic[x] = s.epic[x]
      /\ r.epic[e].status = DeriveEpicStatus(s.epic[e].status, ChildStatuses(s, e))
      /\ r.epic[e].parent = s.epic[e].parent /\ r.epic[e].group = s.epic[e].group
      /\ r.epic[e].grouped = s.epic[e].grouped
    <2>1. r.epic = f
        BY <1>4
    <2> HIDE DEF r
    <2> QED BY <2>1, <1>1 DEF EpicRows
<1>7. SameShape(s, r)
    <2>1. r.task = s.task /\ r.epics = s.epics /\ r.tasks = s.tasks
        BY <1>4
    <2> HIDE DEF r, f
    <2> QED BY <2>1, <1>5, <1>6 DEF SameShape
<1>8. ASSUME Forest(s) PROVE Stale(r) \subseteq (Stale(s) \ {e}) \cup {s.epic[e].parent}
    <2>1. s.epic[e].parent # e
        BY <1>8, NotItsOwnParent
    <2> DEFINE es == {e}
    <2>2. Stale(r) \subseteq (Stale(s) \ es) \cup {s.epic[x].parent : x \in es}
        <3> HIDE DEF r, f
        <3>1. /\ es \in SUBSET Epics(s)
              /\ \A x \in Epics(s) \ es : r.epic[x].status = s.epic[x].status
              /\ \A x \in es : r.epic[x].status = DeriveEpicStatus(s.epic[x].status, ChildStatuses(s, x))
              /\ \A x \in es : s.epic[x].parent \notin es
            BY <2>1, <1>6
        <3> HIDE DEF es
        <3> QED BY <3>1, <1>5, <1>7, Settles
    <2> QED BY <2>2
<1> QED BY <1>5, <1>7, <1>8

----------------------------------------------------------------------------
(* The chain of recalculations *)

Climbs == [at : Nat, store : Stores]

(* One hop of the walk: the epic is recalculated and its parent is next.   *)
LEMMA RolledUpFacts ==
    ASSUME NEW w \in Climbs
    PROVE  /\ RolledUp(w) \in Climbs
           /\ SameShape(w.store, RolledUp(w).store)
           /\ w.at \notin Epics(w.store) => RolledUp(w) = w
           /\ w.at \in Epics(w.store) =>
                  /\ RolledUp(w).at = w.store.epic[w.at].parent
                  /\ RolledUp(w).store = RecalculateOne(w.store, w.at)
<1>1. CASE w.at \notin Epics(w.store)
    BY <1>1 DEF RolledUp, SameShape
<1>2. CASE w.at \in Epics(w.store)
    <2>1. w.store \in Stores
        BY DEF Climbs
    <2>2. RecalculateOne(w.store, w.at) \in Stores /\ SameShape(w.store, RecalculateOne(w.store, w.at))
        BY <2>1, <1>2, OneRolledUp
    <2>3. w.store.epic[w.at].parent \in Nat
        BY <2>1, <1>2, StoreFacts DEF EpicRows
    <2>4. RolledUp(w) = [at |-> w.store.epic[w.at].parent, store |-> RecalculateOne(w.store, w.at)]
        BY <1>2 DEF RolledUp
    <2> QED BY <1>2, <2>2, <2>3, <2>4 DEF Climbs
<1> QED BY <1>1, <1>2

(* Keeping the shape goes on from store to store.                          *)
LEMMA ShapeIsKept ==
    ASSUME NEW s, NEW r, NEW u, SameShape(s, r), SameShape(r, u)
    PROVE  SameShape(s, u)
BY DEF SameShape

(* The walk of a chain, hop by hop.                                        *)
Walk(w, s, e) ==
    /\ w \in [Nat -> Climbs] /\ w[0] = [at |-> e, store |-> s]
    /\ \A k \in Nat : w[k + 1] = RolledUp(w[k]) /\ SameShape(s, w[k].store)
    /\ RecalculateEpicChain(s, e) = w[MaxEpicDepth].store

(* RecalculateEpicChain is such a walk.                                    *)
LEMMA ChainWalks ==
    ASSUME NEW s \in Stores, NEW e \in Nat
    PROVE  \E w : Walk(w, s, e)
<1> DEFINE a == [at |-> e, store |-> s]
           F == [k \in Nat |-> [x \in Climbs |-> RolledUp(x)]]
           step == CHOOSE g : g = [k \in Nat |-> IF k = 0 THEN a ELSE RolledUp(g[k - 1])]
<1>1. a \in Climbs
    BY DEF Climbs
<1>2. F \in [Nat -> [Climbs -> Climbs]]
    BY RolledUpFacts
<1>3. PICK w \in [Nat -> Climbs] : Sequel(w, a, F)
    <2> HIDE DEF F, a
    <2> QED BY <1>1, <1>2, Recursion
<1>4. w[0] = a /\ \A k \in Nat : w[k + 1] = RolledUp(w[k])
    BY <1>3 DEF Sequel
<1>5. w = [k \in Nat |-> IF k = 0 THEN a ELSE RolledUp(w[k - 1])]
    <2> HIDE DEF F, a
    <2>1. \A k \in Nat : w[k] = IF k = 0 THEN a ELSE RolledUp(w[k - 1])
        <3> TAKE k \in Nat
        <3>1. CASE k = 0
            BY <3>1, <1>4
        <3>2. CASE k # 0
            <4>1. k - 1 \in Nat /\ (k - 1) + 1 = k
                BY <3>2
            <4> QED BY <4>1, <1>4, <3>2
        <3> QED BY <3>1, <3>2
    <2> QED BY <2>1
<1>6. step = [k \in Nat |-> IF k = 0 THEN a ELSE RolledUp(step[k - 1])]
    <2> HIDE DEF F, a
    <2> QED BY <1>5
<1>7. step[0] = a /\ \A k \in Nat : step[k + 1] = RolledUp(step[k])
    <2> HIDE DEF step, a
    <2>1. step[0] = a
        BY <1>6
    <2>2. ASSUME NEW k \in Nat PROVE step[k + 1] = RolledUp(step[k])
        <3>1. k + 1 \in Nat /\ k + 1 # 0 /\ (k + 1) - 1 = k
            OBVIOUS
        <3>2. step[k + 1] = RolledUp(step[(k + 1) - 1])
            BY <3>1, <1>6
        <3> QED BY <3>1, <3>2
    <2> QED BY <2>1, <2>2
<1>8. RecalculateEpicChain(s, e) = step[MaxEpicDepth].store
    BY DEF RecalculateEpicChain
<1> DEFINE Good == {k \in Nat : step[k] \in Climbs /\ SameShape(s, step[k].store)}
<1>9. Nat \subseteq Good
    <2> HIDE DEF step
    <2>1. 0 \in Good
        BY <1>1, <1>7 DEF SameShape
    <2>2. ASSUME NEW k \in Nat, k \in Good PROVE k + 1 \in Good
        <3>1. RolledUp(step[k]) \in Climbs /\ SameShape(step[k].store, RolledUp(step[k]).store)
            BY <2>2, RolledUpFacts
        <3> QED BY <3>1, <2>2, <1>7, ShapeIsKept
    <2> HIDE DEF Good
    <2> QED BY <2>1, <2>2, Induction
<1>10. step \in [Nat -> Climbs]
    <2> HIDE DEF step
    <2>1. step = [k \in Nat |-> step[k]]
        BY <1>6
    <2> QED BY <2>1, <1>9
<1> HIDE DEF step
<1> QED BY <1>7, <1>8, <1>9, <1>10 DEF Walk

(* A chain changes statuses only.                                          *)
LEMMA ChainKeepsShape ==
    ASSUME NEW s \in Stores, NEW e \in Nat, MaxEpicDepth \in Nat
    PROVE  RecalculateEpicChain(s, e) \in Stores /\ SameShape(s, RecalculateEpicChain(s, e))
<1>1. PICK w : Walk(w, s, e)
    BY ChainWalks
<1> QED BY <1>1 DEF Walk, Climbs

(* Hops stay in the tree until they meet the root, and there they stay.    *)
LEMMA HopsClimb ==
    ASSUME NEW s \in Stores, Forest(s), NEW e \in Epics(s), NEW w, Walk(w, s, e)
    PROVE  \A k \in Nat : /\ w[k].at \in Epics(s) \cup {Root}
                          /\ w[k].at \in Epics(s) => w[k + 1].at = s.epic[w[k].at].parent
                          /\ w[k].at = Root => w[k + 1] = w[k]
<1>1. ASSUME NEW k \in Nat
      PROVE  /\ w[k].at \in Epics(s) => w[k + 1].at = s.epic[w[k].at].parent
             /\ w[k].at \notin Epics(s) => w[k + 1] = w[k]
    <2>1. w[k] \in Climbs /\ w[k + 1] = RolledUp(w[k]) /\ SameShape(s, w[k].store)
        BY DEF Walk
    <2> QED BY <2>1, RolledUpFacts DEF SameShape
<1> DEFINE Good == {k \in Nat : w[k].at \in Epics(s) \cup {Root}}
<1>2. 0 \in Good
    BY DEF Walk
<1>3. ASSUME NEW k \in Nat, k \in Good PROVE k + 1 \in Good
    BY <1>1, <1>3 DEF Forest
<1>4. Nat \subseteq Good
    <2> HIDE DEF Good
    <2> QED BY <1>2, <1>3, Induction
<1> QED BY <1>1, <1>4, StoreFacts

(* Among the epics of a forest no chain is longer than there are epics.    *)
LEMMA WalkEnds ==
    ASSUME NEW s \in Stores, Forest(s), NEW e \in Epics(s), NEW w, Walk(w, s, e),
           NEW M \in Nat, s.epics <= M
    PROVE  w[M].at = Root
<1>1. SUFFICES ASSUME w[M].at # Root PROVE FALSE
    OBVIOUS
<1>2. \A k \in Nat : /\ w[k].at \in Epics(s) \cup {Root}
                     /\ w[k].at \in Epics(s) => w[k + 1].at = s.epic[w[k].at].parent
                     /\ w[k].at = Root => w[k + 1] = w[k]
    BY HopsClimb
<1>3. \A k \in Nat : k <= M => w[k].at \in Epics(s)
    <2> SUFFICES ASSUME NEW k \in Nat, k <= M, w[k].at = Root PROVE FALSE
        BY <1>2
    <2> DEFINE Ends == {i \in Nat : i >= k => w[i].at = Root}
    <2>1. 0 \in Ends
        OBVIOUS
    <2>2. ASSUME NEW i \in Nat, i \in Ends PROVE i + 1 \in Ends
        <3>1. CASE i + 1 = k
            BY <3>1
        <3>2. CASE i + 1 > k
            <4>1. i >= k
                BY <3>2
            <4> QED BY <4>1, <2>2, <1>2
        <3> QED BY <3>1, <3>2
    <2>3. Nat \subseteq Ends
        <3> HIDE DEF Ends
        <3> QED BY <2>1, <2>2, Induction
    <2> QED BY <2>3, <1>1
<1> DEFINE Seen(k) == {w[i].at : i \in 0..k}
           Long == {k \in Nat : k <= M => IsFiniteSet(Seen(k)) /\ Cardinality(Seen(k)) = k + 1}
<1>4. ASSUME NEW k \in Nat, k < M PROVE w[k + 1].at \notin Seen(k)
    <2> SUFFICES ASSUME NEW j \in 0..k, w[k + 1].at = w[j].at PROVE FALSE
        OBVIOUS
    <2> DEFINE Loop == {w[i].at : i \in j..k}
    <2>0. k <= M /\ j \in Nat
        BY <1>4
    <2>1. Loop \in SUBSET Epics(s)
        <3> SUFFICES ASSUME NEW i \in j..k PROVE w[i].at \in Epics(s)
            OBVIOUS
        <3>1. i \in Nat /\ i <= k
            BY <2>0
        <3> QED BY <3>1, <2>0, <1>3
    <2>2. w[j].at \in Loop
        OBVIOUS
    <2>3. ASSUME NEW x \in Loop PROVE s.epic[x].parent \in Loop
        <3>1. PICK i \in j..k : x = w[i].at
            OBVIOUS
        <3>2. i \in Nat /\ i <= M
            BY <2>0
        <3>3. s.epic[x].parent = w[i + 1].at
            BY <3>1, <3>2, <1>2, <1>3
        <3>4. CASE i = k
            BY <3>3, <3>4, <2>2
        <3>5. CASE i # k
            <4>1. i + 1 \in j..k
                BY <3>5
            <4> QED BY <4>1, <3>3
        <3> QED BY <3>4, <3>5
    <2> HIDE DEF Loop
    <2> QED BY <2>1, <2>2, <2>3 DEF Forest
<1>5. 0 \in Long
    <2>1. Seen(0) = {w[0].at}
        OBVIOUS
    <2>2. IsFiniteSet({w[0].at}) /\ Cardinality({w[0].at}) = 1
        BY FS_Singleton
    <2> HIDE DEF Seen
    <2> QED BY <2>1, <2>2
<1>6. ASSUME NEW k \in Nat, k \in Long PROVE k + 1 \in Long
    <2> SUFFICES ASSUME k + 1 <= M
                 PROVE  IsFiniteSet(Seen(k + 1)) /\ Cardinality(Seen(k + 1)) = (k + 1) + 1
        OBVIOUS
    <2>1. IsFiniteSet(Seen(k)) /\ Cardinality(Seen(k)) = k + 1
        BY <1>6
    <2>2. Seen(k + 1) = Seen(k) \cup {w[k + 1].at}
        <3>1. 0..(k + 1) = (0..k) \cup {k + 1}
            OBVIOUS
        <3> QED BY <3>1
    <2>3. w[k + 1].at \notin Seen(k)
        BY <1>4
    <2> HIDE DEF Seen
    <2> DEFINE S == Seen(k)
               x == w[k + 1].at
    <2>4. IsFiniteSet(S \cup {x}) /\ Cardinality(S \cup {x}) = Cardinality(S) + 1
        <3>1. IsFiniteSet(S) /\ x \notin S
            BY <2>1, <2>3
        <3> HIDE DEF S, x
        <3> QED BY <3>1, FS_AddElement
    <2> QED BY <2>1, <2>2, <2>4
<1>7. M \in Long
    <2> HIDE DEF Long
    <2> QED BY <1>5, <1>6, Induction
<1>8. Seen(M) \subseteq 1..s.epics
    <2>1. \A i \in 0..M : w[i].at \in Epics(s)
        BY <1>3
    <2> QED BY <2>1, StoreFacts
<1>9. IsFiniteSet(1..s.epics) /\ Cardinality(1..s.epics) = s.epics
    <2> DEFINE n == s.epics
    <2>1. n \in Nat
        BY StoreFacts
    <2>2. IsFiniteSet(1..n) /\ Cardinality(1..n) = IF 1 > n THEN 0 ELSE n - 1 + 1
        <3> HIDE DEF n
        <3> QED BY <2>1, FS_Interval
    <2> HIDE DEF n
    <2>3. Cardinality(1..n) = n
        BY <2>1, <2>2
    <2> QED BY <2>2, <2>3 DEF n
<1>10. Cardinality(Seen(M)) <= s.epics
    <2> HIDE DEF Seen
    <2> QED BY <1>8, <1>9, FS_Subset
<1>11. Cardinality(Seen(M)) = M + 1
    <2> HIDE DEF Seen
    <2> QED BY <1>7
<1> HIDE DEF Seen
<1> QED BY <1>10, <1>11, StoreFacts

(* A chain settles the epic it starts at and that epic's parent, and makes *)
(* none stale: what a step makes stale is where the next one is.           *)
LEMMA ChainSettles ==
    ASSUME NEW s \in Stores, Forest(s), NEW e \in Nat, MaxEpicDepth \in Nat,
           s.epics <= MaxEpicDepth
    PROVE  LET r == RecalculateEpicChain(s, e)
           IN  /\ Stale(r) \subseteq Stale(s) \ {e}
               /\ e \in Epics(s) => s.epic[e].parent \notin Stale(r)
<1> DEFINE M == MaxEpicDepth
           r == RecalculateEpicChain(s, e)
<1>1. PICK w : Walk(w, s, e)
    BY ChainWalks
<1>2. r = w[M].store /\ w[0] = [at |-> e, store |-> s]
    BY <1>1 DEF Walk
<1>3. CASE e \notin Epics(s)
    <2> DEFINE Rests == {k \in Nat : w[k] = [at |-> e, store |-> s]}
    <2>1. 0 \in Rests
        BY <1>2
    <2>2. ASSUME NEW k \in Nat, k \in Rests PROVE k + 1 \in Rests
        <3>1. w[k + 1] = RolledUp(w[k]) /\ w[k] \in Climbs
            BY <1>1 DEF Walk
        <3> QED BY <3>1, <2>2, <1>3, RolledUpFacts
    <2>3. M \in Rests
        <3> HIDE DEF Rests
        <3> QED BY <2>1, <2>2, Induction
    <2>4. r = s
        BY <2>3, <1>2
    <2> QED BY <2>4, <1>3 DEF Stale
<1>4. CASE e \in Epics(s)
    <2>1. \A k \in Nat : /\ w[k].at \in Epics(s) \cup {Root}
                         /\ w[k].at \in Epics(s) => w[k + 1].at = s.epic[w[k].at].parent
                         /\ w[k].at = Root => w[k + 1] = w[k]
        BY <1>1, <1>4, HopsClimb
    <2>2. w[M].at = Root
        BY <1>1, <1>4, WalkEnds
    <2> DEFINE Seen(k) == {w[i].at : i \in 0..(k - 1)}
               Good == {k \in Nat : Stale(w[k].store) \subseteq (Stale(s) \ Seen(k)) \cup {w[k].at}}
    <2>3. 0 \in Good
        <3>1. Seen(0) = {}
            OBVIOUS
        <3> QED BY <3>1, <1>2
    <2>4. ASSUME NEW k \in Nat, k \in Good PROVE k + 1 \in Good
        <3>1. Seen(k + 1) = Seen(k) \cup {w[k].at}
            <4>1. 0..((k + 1) - 1) = (0..(k - 1)) \cup {k}
                OBVIOUS
            <4> QED BY <4>1
        <3>2. Stale(w[k].store) \subseteq (Stale(s) \ Seen(k)) \cup {w[k].at}
            BY <2>4
        <3>3. w[k] \in Climbs /\ w[k].store \in Stores /\ SameShape(s, w[k].store)
              /\ w[k + 1] = RolledUp(w[k])
            BY <1>1 DEF Walk, Climbs
        <3>4. CASE w[k].at = Root
            <4>1. Root \notin Stale(w[k].store) /\ Root \notin Stale(s)
                BY <3>3, StoreFacts DEF Stale
            <4>2. w[k + 1] = w[k]
                BY <3>4, <2>1
            <4> HIDE DEF Seen
            <4> QED BY <3>1, <3>2, <3>4, <4>1, <4>2
        <3>5. CASE w[k].at # Root
            <4>1. w[k].at \in Epics(s) /\ w[k].at \in Epics(w[k].store)
                BY <3>5, <3>3, <2>1 DEF SameShape
            <4>2. Forest(w[k].store)
                BY <3>3, ShapeKeepsForest
            <4>3. w[k + 1].store = RecalculateOne(w[k].store, w[k].at)
                BY <3>3, <4>1, RolledUpFacts
            <4>4. Stale(w[k + 1].store) \subseteq (Stale(w[k].store) \ {w[k].at})
                      \cup {w[k].store.epic[w[k].at].parent}
                BY <3>3, <4>1, <4>2, <4>3, OneRolledUp
            <4>5. w[k].store.epic[w[k].at].parent = w[k + 1].at
                BY <3>3, <4>1, <2>1 DEF SameShape
            <4> HIDE DEF Seen
            <4> QED BY <3>1, <3>2, <4>4, <4>5
        <3> QED BY <3>4, <3>5
    <2>5. M \in Good
        <3> HIDE DEF Good
        <3> QED BY <2>3, <2>4, Induction
    <2>6. Stale(r) \subseteq Stale(s) \ Seen(M)
        <3>1. Root \notin Stale(r)
            <4>1. r \in Stores
                BY ChainKeepsShape
            <4> QED BY <4>1, StoreFacts DEF Stale
        <3> HIDE DEF Seen
        <3> QED BY <3>1, <2>5, <2>2, <1>2
    <2>7. e \in Seen(M)
        <3>1. M # 0
            BY <2>2, <1>2, <1>4, StoreFacts
        <3> QED BY <3>1, <1>2
    <2>8. s.epic[e].parent \notin Stale(r)
        <3>1. w[1].at = s.epic[e].parent
            <4>1. w[0 + 1].at = s.epic[e].parent
                BY <2>1, <1>2, <1>4
            <4> QED BY <4>1
        <3>2. CASE s.epic[e].parent = Root
            <4>1. r \in Stores
                BY ChainKeepsShape
            <4> QED BY <4>1, <3>2, StoreFacts DEF Stale
        <3>3. CASE s.epic[e].parent # Root
            <4>1. M > 1
                BY <2>2, <2>7, <3>1, <3>3
            <4>2. s.epic[e].parent \in Seen(M)
                BY <4>1, <3>1
            <4> HIDE DEF Seen
            <4> QED BY <4>2, <2>6
        <3> QED BY <3>2, <3>3
    <2> HIDE DEF Seen
    <2> QED BY <2>6, <2>7, <2>8
<1> QED BY <1>3, <1>4

(* No epic is done before its children are.                                *)
NoneTooEarly(s) ==
    \A x \in Epics(s) : s.epic[x].status = "done" => ChildStatuses(s, x) \subseteq {"done"}

(* An epic that is not done stays as it is until it is.                    *)
Raises(s, r) == \A x \in Epics(s) : r.epic[x].status \in {s.epic[x].status, "done"}

(* Only done epics change.                                                 *)
Lowers(s, r) ==
    \A x \in Epics(s) : \/ r.epic[x].status = s.epic[x].status
                        \/ s.epic[x].status = "done" /\ r.epic[x].status = "backlog"

(* Recalculated, the epic is not done.                                     *)
Open(s, e) ==
    e \in Epics(s) => \/ ~(ChildStatuses(s, e) \subseteq {"done"})
                      \/ ChildStatuses(s, e) = {} /\ s.epic[e].status # "done"

(* What recalculating one epic does to the statuses.                       *)
LEMMA RowsRolledUp ==
    ASSUME NEW s \in Stores, NEW e \in Epics(s)
    PROVE  LET r == RecalculateOne(s, e)
           IN  /\ r \in Stores /\ SameShape(s, r)
               /\ \A x \in Epics(s) \ {e} : r.epic[x].status = s.epic[x].status
               /\ r.epic[e].status = DeriveEpicStatus(s.epic[e].status, ChildStatuses(s, e))
<1> DEFINE r == RecalculateOne(s, e)
           f == [s.epic EXCEPT ![e].status = DeriveEpicStatus(@, ChildStatuses(s, e))]
<1>1. r \in Stores /\ SameShape(s, r)
    BY OneRolledUp
<1>2. s.epic \in [Epics(s) -> EpicRows]
    BY StoreFacts
<1>3. r.epic = f
    <2>1. s = [epic |-> s.epic, task |-> s.task, epics |-> s.epics, tasks |-> s.tasks]
        BY StoreFacts
    <2>2. r = [epic |-> f, task |-> s.task, epics |-> s.epics, tasks |-> s.tasks]
        BY <2>1 DEF RecalculateOne
    <2> HIDE DEF r, f
    <2> QED BY <2>2
<1> HIDE DEF r
<1>4. /\ \A x \in Epics(s) \ {e} : r.epic[x] = s.epic[x]
      /\ r.epic[e].status = DeriveEpicStatus(s.epic[e].status, ChildStatuses(s, e))
    BY <1>2, <1>3 DEF EpicRows
<1> QED BY <1>1, <1>4 DEF r

(* Where none is done too early, recalculating one epic raises it or       *)
(* leaves it.                                                              *)
LEMMA OneRaises ==
    ASSUME NEW s \in Stores, NoneTooEarly(s), NEW e \in Epics(s)
    PROVE  LET r == RecalculateOne(s, e)
           IN  NoneTooEarly(r) /\ Raises(s, r)
<1> DEFINE r == RecalculateOne(s, e)
           below == ChildStatuses(s, e)
<1>1. /\ SameShape(s, r)
      /\ \A x \in Epics(s) \ {e} : r.epic[x].status = s.epic[x].status
      /\ r.epic[e].status = DeriveEpicStatus(s.epic[e].status, below)
    BY RowsRolledUp
<1> HIDE DEF r
<1>2. s.epic[e].status = "done" => below \subseteq {"done"}
    BY DEF NoneTooEarly
<1> HIDE DEF below
<1>3. r.epic[e].status \in {s.epic[e].status, "done"}
    BY <1>1, <1>2 DEF DeriveEpicStatus
<1>4. r.epic[e].status = "done" => below \subseteq {"done"}
    BY <1>1, <1>2 DEF DeriveEpicStatus
<1>5. Raises(s, r)
    BY <1>1, <1>3 DEF Raises
<1>6. \A x \in Epics(s) : ChildStatuses(r, x) \subseteq ChildStatuses(s, x) \cup {"done"}
    <2> TAKE x \in Epics(s)
    <2>1. SubEpics(r, x) = SubEpics(s, x) /\ TasksOf(r, x) = TasksOf(s, x)
        BY <1>1, ShapeKeepsChildren
    <2>2. r.task = s.task
        BY <1>1 DEF SameShape
    <2>3. \A c \in SubEpics(s, x) : r.epic[c].status \in {s.epic[c].status, "done"}
        BY <1>5 DEF Raises, SubEpics
    <2> QED BY <2>1, <2>2, <2>3 DEF ChildStatuses
<1>7. ASSUME NEW x \in Epics(r), r.epic[x].status = "done"
      PROVE  ChildStatuses(r, x) \subseteq {"done"}
    <2>1. x \in Epics(s)
        BY <1>1 DEF SameShape
    <2>2. ChildStatuses(s, x) \subseteq {"done"}
        <3>1. CASE x = e
            BY <3>1, <1>4, <1>7 DEF below
        <3>2. CASE x # e
            BY <3>2, <2>1, <1>1, <1>7 DEF NoneTooEarly
        <3> QED BY <3>1, <3>2
    <2> QED BY <2>1, <2>2, <1>6
<1>8. NoneTooEarly(r)
    BY <1>7 DEF NoneTooEarly
<1> QED BY <1>5, <1>8 DEF r

(* Raising goes on from store to store.                                    *)
LEMMA RaisedOn ==
    ASSUME NEW s, NEW r, NEW u, Epics(r) = Epics(s), Raises(s, r), Raises(r, u)
    PROVE  Raises(s, u)
<1> SUFFICES ASSUME NEW x \in Epics(s) PROVE u.epic[x].status \in {s.epic[x].status, "done"}
    BY DEF Raises
<1>1. r.epic[x].status \in {s.epic[x].status, "done"} /\ u.epic[x].status \in {r.epic[x].status, "done"}
    BY DEF Raises
<1> QED BY <1>1

(* A chain raises epics where none is done too early.                      *)
LEMMA ChainRaises ==
    ASSUME NEW s \in Stores, NEW e \in Nat, MaxEpicDepth \in Nat, NoneTooEarly(s)
    PROVE  LET r == RecalculateEpicChain(s, e)
           IN  NoneTooEarly(r) /\ Raises(s, r)
<1>1. PICK w : Walk(w, s, e)
    BY ChainWalks
<1>2. RecalculateEpicChain(s, e) = w[MaxEpicDepth].store /\ w[0] = [at |-> e, store |-> s]
    BY <1>1 DEF Walk
<1> DEFINE Good == {k \in Nat : NoneTooEarly(w[k].store) /\ Raises(s, w[k].store)}
<1>3. 0 \in Good
    BY <1>2 DEF Raises
<1>4. ASSUME NEW k \in Nat, k \in Good PROVE k + 1 \in Good
    <2>1. /\ w[k] \in Climbs /\ w[k].store \in Stores /\ SameShape(s, w[k].store)
          /\ w[k + 1] = RolledUp(w[k]) /\ NoneTooEarly(w[k].store) /\ Raises(s, w[k].store)
          /\ Epics(w[k].store) = Epics(s)
        BY <1>1, <1>4 DEF Walk, Climbs, SameShape
    <2>2. CASE w[k].at \notin Epics(w[k].store)
        BY <2>1, <2>2, RolledUpFacts
    <2>3. CASE w[k].at \in Epics(w[k].store)
        <3>1. w[k + 1].store = RecalculateOne(w[k].store, w[k].at)
            BY <2>1, <2>3, RolledUpFacts
        <3>2. NoneTooEarly(w[k + 1].store) /\ Raises(w[k].store, w[k + 1].store)
            BY <3>1, <2>1, <2>3, OneRaises
        <3>3. Raises(s, w[k + 1].store)
            BY <3>2, <2>1, RaisedOn
        <3> QED BY <3>2, <3>3
    <2> QED BY <2>2, <2>3
<1>5. MaxEpicDepth \in Good
    <2> HIDE DEF Good
    <2> QED BY <1>3, <1>4, Induction
<1> QED BY <1>2, <1>5

(* Recalculating an epic that is open lowers it, and then its parent is    *)
(* open.                                                                   *)
LEMMA OneLowers ==
    ASSUME NEW s \in Stores, NEW e \in Epics(s), Open(s, e)
    PROVE  LET r == RecalculateOne(s, e)
           IN  Lowers(s, r) /\ Open(r, s.epic[e].parent)
<1> DEFINE r == RecalculateOne(s, e)
           p == s.epic[e].parent
<1>1. /\ SameShape(s, r)
      /\ \A x \in Epics(s) \ {e} : r.epic[x].status = s.epic[x].status
      /\ r.epic[e].status = DeriveEpicStatus(s.epic[e].status, ChildStatuses(s, e))
    BY RowsRolledUp
<1> HIDE DEF r
<1>2. /\ r.epic[e].status # "done"
      /\ \/ r.epic[e].status = s.epic[e].status
         \/ s.epic[e].status = "done" /\ r.epic[e].status = "backlog"
    <2> DEFINE below == ChildStatuses(s, e)
    <2>1. ~(below \subseteq {"done"}) \/ (below = {} /\ s.epic[e].status # "done")
        BY DEF Open
    <2> HIDE DEF below
    <2>2. r.epic[e].status = DeriveEpicStatus(s.epic[e].status, below)
        BY <1>1 DEF below
    <2> QED BY <2>1, <2>2 DEF DeriveEpicStatus
<1>3. Lowers(s, r)
    BY <1>1, <1>2 DEF Lowers
<1>4. Open(r, p)
    <2>1. e \in SubEpics(r, p)
        BY <1>1 DEF SubEpics, SameShape
    <2>2. r.epic[e].status \in ChildStatuses(r, p)
        BY <2>1 DEF ChildStatuses
    <2> QED BY <2>2, <1>2 DEF Open
<1> QED BY <1>3, <1>4 DEF r

(* A chain lowers epics when the first it recalculates is not done.        *)
LEMMA ChainLowers ==
    ASSUME NEW s \in Stores, NEW e \in Nat, MaxEpicDepth \in Nat, Open(s, e)
    PROVE  Lowers(s, RecalculateEpicChain(s, e))
<1>1. PICK w : Walk(w, s, e)
    BY ChainWalks
<1>2. RecalculateEpicChain(s, e) = w[MaxEpicDepth].store /\ w[0] = [at |-> e, store |-> s]
    BY <1>1 DEF Walk
<1> DEFINE Good == {k \in Nat : Lowers(s, w[k].store) /\ Open(w[k].store, w[k].at)}
<1>3. 0 \in Good
    BY <1>2 DEF Lowers
<1>4. ASSUME NEW k \in Nat, k \in Good PROVE k + 1 \in Good
    <2>1. /\ w[k] \in Climbs /\ w[k].store \in Stores /\ SameShape(s, w[k].store)
          /\ w[k + 1] = RolledUp(w[k]) /\ Lowers(s, w[k].store) /\ Open(w[k].store, w[k].at)
        BY <1>1, <1>4 DEF Walk, Climbs
    <2>2. CASE w[k].at \notin Epics(w[k].store)
        BY <2>1, <2>2, RolledUpFacts
    <2>3. CASE w[k].at \in Epics(w[k].store)
        <3>1. /\ w[k + 1].store = RecalculateOne(w[k].store, w[k].at)
              /\ w[k + 1].at = w[k].store.epic[w[k].at].parent
            BY <2>1, <2>3, RolledUpFacts
        <3>2. Lowers(w[k].store, w[k + 1].store) /\ Open(w[k + 1].store, w[k + 1].at)
            BY <3>1, <2>1, <2>3, OneLowers
        <3> QED BY <3>2, <2>1 DEF Lowers, SameShape
    <2> QED BY <2>2, <2>3
<1>5. MaxEpicDepth \in Good
    <2> HIDE DEF Good
    <2> QED BY <1>3, <1>4, Induction
<1> QED BY <1>2, <1>5

(* A chain may as well start from where its first step leads.              *)
LEMMA ChainBegins ==
    ASSUME NEW s \in Stores, Forest(s), NEW e \in Epics(s), MaxEpicDepth \in Nat, MaxEpicDepth > 0
    PROVE  RecalculateEpicChain(s, e) = RecalculateEpicChain(RecalculateOne(s, e), e)
<1> DEFINE r == RecalculateOne(s, e)
<1>1. /\ r \in Stores /\ SameShape(s, r) /\ e \in Nat
      /\ \A x \in Epics(s) \ {e} : r.epic[x].status = s.epic[x].status
      /\ r.epic[e].status = DeriveEpicStatus(s.epic[e].status, ChildStatuses(s, e))
    BY RowsRolledUp, StoreFacts
<1>2. PICK w : Walk(w, s, e)
    BY <1>1, ChainWalks
<1> HIDE DEF r
<1>3. PICK v : Walk(v, r, e)
    BY <1>1, ChainWalks
<1>4. RecalculateOne(r, e) = r
    <2>1. ChildStatuses(r, e) = ChildStatuses(s, e)
        <3>1. SubEpics(r, e) = SubEpics(s, e) /\ TasksOf(r, e) = TasksOf(s, e)
            BY <1>1, ShapeKeepsChildren
        <3>2. \A c \in SubEpics(s, e) : c \in Epics(s) /\ c # e
            BY NotItsOwnParent DEF SubEpics
        <3>3. \A c \in SubEpics(s, e) : r.epic[c].status = s.epic[c].status
            BY <3>2, <1>1
        <3>4. \A t \in TasksOf(s, e) : r.task[t].status = s.task[t].status
            BY <1>1 DEF SameShape
        <3> QED BY <3>1, <3>3, <3>4, SameChildStatuses
    <2> DEFINE below == ChildStatuses(r, e)
    <2>2. DeriveEpicStatus(r.epic[e].status, below) = r.epic[e].status
        <3>1. r.epic[e].status = DeriveEpicStatus(s.epic[e].status, below)
            BY <2>1, <1>1
        <3> HIDE DEF below
        <3> QED BY <3>1 DEF DeriveEpicStatus
    <2> HIDE DEF below
    <2>3. r.epic \in [Epics(r) -> EpicRows] /\ e \in Epics(r)
        BY <1>1, StoreFacts DEF SameShape
    <2>4. [r.epic[e] EXCEPT !.status = r.epic[e].status] = r.epic[e]
        BY <2>3 DEF EpicRows
    <2> DEFINE f == [r.epic EXCEPT ![e].status = DeriveEpicStatus(@, below)]
    <2>5. f = r.epic
        BY <2>2, <2>3, <2>4
    <2>6. r = [epic |-> r.epic, task |-> r.task, epics |-> r.epics, tasks |-> r.tasks]
        BY <1>1, StoreFacts
    <2>7. RecalculateOne(r, e) = [epic |-> f, task |-> r.task, epics |-> r.epics, tasks |-> r.tasks]
        BY <2>6 DEF RecalculateOne, below
    <2> HIDE DEF f
    <2> QED BY <2>5, <2>6, <2>7
<1>5. v[0 + 1] = w[0 + 1]
    <2>1. w[0 + 1] = RolledUp(w[0]) /\ w[0] = [at |-> e, store |-> s]
        BY <1>2 DEF Walk
    <2>2. v[0 + 1] = RolledUp(v[0]) /\ v[0] = [at |-> e, store |-> r]
        BY <1>3 DEF Walk
    <2>3. w[0 + 1] = [at |-> s.epic[e].parent, store |-> r]
        BY <2>1 DEF RolledUp, r
    <2>4. v[0 + 1] = [at |-> r.epic[e].parent, store |-> r]
        BY <2>2, <1>1, <1>4 DEF RolledUp, SameShape
    <2> QED BY <2>3, <2>4, <1>1 DEF SameShape
<1> DEFINE Good == {k \in Nat : v[k + 1] = w[k + 1]}
<1>6. 0 \in Good
    BY <1>5
<1>7. ASSUME NEW k \in Nat, k \in Good PROVE k + 1 \in Good
    <2>1. k + 1 \in Nat
        OBVIOUS
    <2>2. v[(k + 1) + 1] = RolledUp(v[k + 1]) /\ w[(k + 1) + 1] = RolledUp(w[k + 1])
        BY <2>1, <1>2, <1>3 DEF Walk
    <2> QED BY <2>2, <1>7
<1>8. MaxEpicDepth - 1 \in Good
    <2> HIDE DEF Good
    <2> QED BY <1>6, <1>7, Induction
<1>9. v[MaxEpicDepth] = w[MaxEpicDepth]
    <2>1. (MaxEpicDepth - 1) + 1 = MaxEpicDepth
        OBVIOUS
    <2> QED BY <2>1, <1>8
<1> QED BY <1>9, <1>2, <1>3 DEF Walk, r

----------------------------------------------------------------------------
(* What the writes of rows do to the shape and to the statuses *)

Sound(s) == s \in Stores /\ Forest(s)

(* Epics are added below epics that were there, or at the root.            *)
LEMMA EpicsAdded ==
    ASSUME NEW s \in Stores, Forest(s), NEW r \in Stores, r.task = s.task,
           Epics(s) \subseteq Epics(r), \A x \in Epics(s) : r.epic[x] = s.epic[x],
           \A x \in Epics(r) \ Epics(s) : r.epic[x].parent \in Epics(s) \cup {Root}
    PROVE  /\ Sound(r)
           /\ Stale(r) \subseteq Stale(s) \cup {r.epic[x].parent : x \in Epics(r) \ Epics(s)}
<1>1. ASSUME NEW some \in SUBSET Epics(r), some # {}
      PROVE  \E x \in some : r.epic[x].parent \notin some
    <2> DEFINE old == some \cap Epics(s)
    <2>1. Root \notin Epics(r)
        BY StoreFacts
    <2>2. CASE old = {}
        <3>1. PICK x \in some : TRUE
            BY <1>1
        <3>2. x \in Epics(r) \ Epics(s)
            BY <2>2
        <3>3. r.epic[x].parent \in Epics(s) \cup {Root}
            BY <3>2
        <3> QED BY <3>3, <2>1, <2>2
    <2>3. CASE old # {}
        <3>1. PICK x \in old : s.epic[x].parent \notin old
            <4>1. old \in SUBSET Epics(s)
                OBVIOUS
            <4> QED BY <4>1, <2>3 DEF Forest
        <3>2. s.epic[x].parent \in Epics(s) \cup {Root} /\ r.epic[x].parent = s.epic[x].parent
            BY DEF Forest
        <3> QED BY <3>1, <3>2, <2>1
    <2> QED BY <2>2, <2>3
<1>2. \A x \in Epics(r) : r.epic[x].parent \in Epics(r) \cup {Root}
    BY DEF Forest
<1>3. \A t \in Tasks(r) : r.task[t].epic \in Epics(r) \cup {Root}
    BY DEF Forest, Tasks
<1>4. Forest(r)
    BY <1>1, <1>2, <1>3 DEF Forest
<1>5. ASSUME NEW y \in Stale(r), y \notin {r.epic[x].parent : x \in Epics(r) \ Epics(s)}
      PROVE  y \in Stale(s)
    <2>1. y \in Epics(r)
        BY DEF Stale
    <2>2. SubEpics(r, y) = SubEpics(s, y)
        BY <1>5 DEF SubEpics
    <2>3. TasksOf(r, y) = TasksOf(s, y) /\ \A t \in TasksOf(s, y) : r.task[t].status = s.task[t].status
        BY DEF TasksOf, Tasks
    <2>4. \A c \in SubEpics(s, y) : r.epic[c].status = s.epic[c].status
        BY DEF SubEpics
    <2>5. ChildStatuses(r, y) = ChildStatuses(s, y)
        BY <2>2, <2>3, <2>4, SameChildStatuses
    <2>6. y \in Epics(s)
        <3>1. SubEpics(s, y) # {} \/ TasksOf(s, y) # {}
            BY <2>5 DEF Stale, ChildStatuses
        <3>2. y \in Epics(s) \cup {Root}
            BY <3>1 DEF SubEpics, TasksOf, Forest
        <3> QED BY <3>2, <2>1, StoreFacts
    <2> QED BY <2>5, <2>6 DEF Stale
<1> QED BY <1>4, <1>5 DEF Sound

(* Tasks change in the epics `es` only.                                    *)
LEMMA TasksChanged ==
    ASSUME NEW s \in Stores, Forest(s), NEW r \in Stores, r.epic = s.epic, NEW es,
           \A t \in Tasks(r) : r.task[t].epic \in Epics(s) \cup {Root},
           \A t \in Tasks(s) : s.task[t].epic \notin es =>
               /\ t \in Tasks(r) /\ r.task[t].epic = s.task[t].epic
               /\ r.task[t].status = s.task[t].status,
           \A t \in Tasks(r) : r.task[t].epic \notin es =>
               t \in Tasks(s) /\ s.task[t].epic = r.task[t].epic
    PROVE  Sound(r) /\ Stale(r) \subseteq Stale(s) \cup es
<1>1. Epics(r) = Epics(s)
    BY DEF Epics
<1>2. Forest(r)
    BY <1>1 DEF Forest
<1>3. ASSUME NEW y \in Stale(r), y \notin es PROVE y \in Stale(s)
    <2>1. SubEpics(r, y) = SubEpics(s, y)
        BY <1>1 DEF SubEpics
    <2>2. TasksOf(r, y) = TasksOf(s, y)
        BY <1>3 DEF TasksOf
    <2>3. \A t \in TasksOf(s, y) : r.task[t].status = s.task[t].status
        BY <1>3 DEF TasksOf
    <2>4. ChildStatuses(r, y) = ChildStatuses(s, y)
        BY <2>1, <2>2, <2>3, SameChildStatuses
    <2> QED BY <1>1, <2>4 DEF Stale
<1> QED BY <1>2, <1>3 DEF Sound

(* One epic's row changes.                                                 *)
LEMMA EpicChanged ==
    ASSUME NEW s \in Stores, NEW r \in Stores, r.task = s.task, NEW e \in Epics(s),
           Epics(r) = Epics(s), \A x \in Epics(s) \ {e} : r.epic[x] = s.epic[x]
    PROVE  Stale(r) \subseteq Stale(s) \cup {e, s.epic[e].parent, r.epic[e].parent}
<1> SUFFICES ASSUME NEW y \in Stale(r), y \notin {e, s.epic[e].parent, r.epic[e].parent}
             PROVE  y \in Stale(s)
    OBVIOUS
<1>1. y \in Epics(s) /\ r.epic[y] = s.epic[y]
    BY DEF Stale
<1>2. SubEpics(r, y) = SubEpics(s, y) /\ \A c \in SubEpics(s, y) : c # e /\ c \in Epics(s)
    BY DEF SubEpics
<1>3. TasksOf(r, y) = TasksOf(s, y) /\ \A t \in TasksOf(s, y) : r.task[t].status = s.task[t].status
    BY DEF TasksOf, Tasks
<1>4. \A c \in SubEpics(s, y) : r.epic[c].status = s.epic[c].status
    BY <1>2
<1>5. ChildStatuses(r, y) = ChildStatuses(s, y)
    BY <1>2, <1>3, <1>4, SameChildStatuses
<1> QED BY <1>1, <1>5 DEF Stale

(* What may be deleted: a set of epics with all that is below them.        *)
Closed(s, es) == es \subseteq Epics(s) /\ \A x \in es : SubEpics(s, x) \subseteq es

(* What is left of such a delete is a forest, in which only the parents of *)
(* what went may be stale.                                                 *)
LEMMA EpicsDeleted ==
    ASSUME NEW s \in Stores, Forest(s), NEW es, Closed(s, es)
    PROVE  LET r == WithoutEpics(s, es)
           IN  /\ Sound(r) /\ Epics(r) = Epics(s) \ es
               /\ \A x \in Epics(r) : r.epic[x] = s.epic[x]
               /\ Tasks(r) = {t \in Tasks(s) : s.task[t].epic \notin es}
               /\ \A t \in Tasks(r) : r.task[t] = s.task[t]
               /\ r.epics = s.epics /\ r.tasks = s.tasks
               /\ Stale(r) \subseteq Stale(s) \cup {s.epic[x].parent : x \in es}
<1> DEFINE r == WithoutEpics(s, es)
           f == [x \in Epics(s) \ es |-> s.epic[x]]
           lost == {t \in Tasks(s) : s.task[t].epic \in es}
           g == [t \in Tasks(s) \ lost |-> s.task[t]]
<1>1. s = [epic |-> s.epic, task |-> s.task, epics |-> s.epics, tasks |-> s.tasks]
    BY StoreFacts
<1>2. r = [epic |-> f, task |-> g, epics |-> s.epics, tasks |-> s.tasks]
    <2>1. WithoutTasks(s, lost) = [epic |-> s.epic, task |-> g, epics |-> s.epics, tasks |-> s.tasks]
        <3> HIDE DEF lost
        <3> QED BY <1>1 DEF WithoutTasks
    <2>2. r = [WithoutTasks(s, lost) EXCEPT !.epic = f]
        BY DEF WithoutEpics
    <2> HIDE DEF lost, f, g, r
    <2> QED BY <2>1, <2>2
<1>3. r \in Stores /\ Epics(r) = Epics(s) \ es /\ Tasks(r) = Tasks(s) \ lost
    <2>1. f \in [Epics(s) \ es -> EpicRows] /\ g \in [Tasks(s) \ lost -> TaskRows]
        BY StoreFacts
    <2>2. Epics(s) \ es \subseteq 1..s.epics /\ Tasks(s) \ lost \subseteq 1..s.tasks
        BY StoreFacts
    <2> HIDE DEF f, g, r, lost
    <2> QED BY <2>1, <2>2, <1>2, StoreFacts, StoreOf
<1>4. \A x \in Epics(r) : r.epic[x] = s.epic[x]
    <2>1. r.epic = f
        BY <1>2
    <2> HIDE DEF r
    <2> QED BY <2>1, <1>3
<1>5. \A t \in Tasks(r) : r.task[t] = s.task[t]
    <2>1. r.task = g
        BY <1>2
    <2> HIDE DEF r, lost
    <2> QED BY <2>1, <1>3
<1>6. r.epics = s.epics /\ r.tasks = s.tasks
    BY <1>2
<1> HIDE DEF r, f, g
<1>7. Forest(r)
    <2>1. \A x \in Epics(r) : r.epic[x].parent \in Epics(r) \cup {Root}
        <3> TAKE x \in Epics(r)
        <3>1. x \in Epics(s) /\ x \notin es /\ s.epic[x].parent \in Epics(s) \cup {Root}
            BY <1>3 DEF Forest
        <3>2. s.epic[x].parent \notin es
            BY <3>1 DEF Closed, SubEpics
        <3> QED BY <3>1, <3>2, <1>3, <1>4
    <2>2. \A t \in Tasks(r) : r.task[t].epic \in Epics(r) \cup {Root}
        BY <1>3, <1>5 DEF Forest
    <2>3. \A some \in SUBSET Epics(r) : some # {} => \E x \in some : r.epic[x].parent \notin some
        <3> TAKE some \in SUBSET Epics(r)
        <3>1. some \in SUBSET Epics(s)
            BY <1>3
        <3> QED BY <3>1, <1>4 DEF Forest
    <2> QED BY <2>1, <2>2, <2>3 DEF Forest
<1>8. ASSUME NEW y \in Stale(r), y \notin {s.epic[x].parent : x \in es} PROVE y \in Stale(s)
    <2>1. y \in Epics(s) /\ y \notin es /\ r.epic[y] = s.epic[y]
        BY <1>3, <1>4 DEF Stale
    <2>2. SubEpics(r, y) = SubEpics(s, y)
        BY <1>3, <1>4, <1>8 DEF SubEpics
    <2>3. TasksOf(r, y) = TasksOf(s, y)
        BY <1>3, <1>5, <2>1 DEF TasksOf
    <2>4. \A t \in TasksOf(s, y) : r.task[t].status = s.task[t].status
        BY <2>3, <1>5 DEF TasksOf
    <2>5. \A c \in SubEpics(s, y) : r.epic[c].status = s.epic[c].status
        BY <2>2, <1>4 DEF SubEpics
    <2>6. ChildStatuses(r, y) = ChildStatuses(s, y)
        BY <2>2, <2>3, <2>4, <2>5, SameChildStatuses
    <2> QED BY <2>1, <2>6 DEF Stale
<1>9. Tasks(r) = {t \in Tasks(s) : s.task[t].epic \notin es}
    BY <1>3
<1> QED BY <1>3, <1>4, <1>5, <1>6, <1>7, <1>8, <1>9 DEF Sound, r

(* The levels below an epic, one after another.                            *)
Level(s) == [at : SUBSET Epics(s), seen : SUBSET Epics(s)]

Descends(l, s, e) ==
    /\ l \in [Nat -> Level(s)] /\ l[0] = [at |-> {e}, seen |-> {e}]
    /\ \A k \in Nat : l[k + 1] = OneLevelDown(s, l[k])
    /\ \A depth \in Nat : LevelsBelow(s, e, depth) = l[depth]

(* LevelsBelow is such a descent.                                          *)
LEMMA LevelsDescend ==
    ASSUME NEW s \in Stores, NEW e \in Epics(s)
    PROVE  \E l : Descends(l, s, e)
<1> DEFINE X == Level(s)
           a == [at |-> {e}, seen |-> {e}]
           F == [k \in Nat |-> [x \in X |-> OneLevelDown(s, x)]]
           level == CHOOSE g : g = [k \in Nat |-> IF k = 0 THEN [at |-> {e}, seen |-> {e}]
                                                           ELSE OneLevelDown(s, g[k - 1])]
<1>1. a \in X
    BY DEF Level
<1>2. \A x \in X : OneLevelDown(s, x) \in X
    BY DEF OneLevelDown, Level, SubEpics
<1>3. F \in [Nat -> [X -> X]]
    <2> HIDE DEF X
    <2> QED BY <1>2
<1>4. PICK w \in [Nat -> X] : Sequel(w, a, F)
    <2> HIDE DEF F, a, X
    <2> QED BY <1>1, <1>3, Recursion
<1>5. w[0] = a /\ \A k \in Nat : w[k + 1] = OneLevelDown(s, w[k])
    <2> HIDE DEF X
    <2> QED BY <1>4 DEF Sequel
<1>6. w = [k \in Nat |-> IF k = 0 THEN a ELSE OneLevelDown(s, w[k - 1])]
    <2> HIDE DEF a, X
    <2>1. \A k \in Nat : w[k] = IF k = 0 THEN a ELSE OneLevelDown(s, w[k - 1])
        <3> TAKE k \in Nat
        <3>1. CASE k = 0
            BY <3>1, <1>5
        <3>2. CASE k # 0
            <4>1. k - 1 \in Nat /\ (k - 1) + 1 = k
                BY <3>2
            <4> QED BY <4>1, <1>5, <3>2
        <3> QED BY <3>1, <3>2
    <2> QED BY <2>1
<1>7. level = [k \in Nat |-> IF k = 0 THEN a ELSE OneLevelDown(s, level[k - 1])]
    BY <1>6
<1>8. level[0] = a /\ \A k \in Nat : level[k + 1] = OneLevelDown(s, level[k])
    <2> HIDE DEF level, a
    <2>1. level[0] = a
        BY <1>7
    <2>2. ASSUME NEW k \in Nat PROVE level[k + 1] = OneLevelDown(s, level[k])
        <3>1. k + 1 \in Nat /\ k + 1 # 0 /\ (k + 1) - 1 = k
            OBVIOUS
        <3>2. level[k + 1] = OneLevelDown(s, level[(k + 1) - 1])
            BY <3>1, <1>7
        <3> QED BY <3>1, <3>2
    <2> QED BY <2>1, <2>2
<1>9. \A depth \in Nat : LevelsBelow(s, e, depth) = level[depth]
    BY DEF LevelsBelow
<1> DEFINE Good == {k \in Nat : level[k] \in X}
<1>10. Nat \subseteq Good
    <2> HIDE DEF level, X, a
    <2>1. 0 \in Good
        BY <1>1, <1>8
    <2>2. ASSUME NEW k \in Nat, k \in Good PROVE k + 1 \in Good
        BY <2>2, <1>2, <1>8
    <2> HIDE DEF Good
    <2> QED BY <2>1, <2>2, Induction
<1>11. level \in [Nat -> X]
    <2> HIDE DEF level, X, a
    <2>1. level = [k \in Nat |-> level[k]]
        BY <1>7
    <2> QED BY <2>1, <1>10
<1> HIDE DEF level
<1> QED BY <1>8, <1>9, <1>11 DEF Descends

(* What a walk down has seen when a level is empty is closed.              *)
LEMMA LevelsFacts ==
    ASSUME NEW s \in Stores, NEW e \in Epics(s), NEW l, Descends(l, s, e)
    PROVE  \A k \in Nat :
               /\ l[k].at \subseteq l[k].seen /\ l[k].seen \subseteq Epics(s) /\ e \in l[k].seen
               /\ \A x \in l[k].seen \ l[k].at : SubEpics(s, x) \subseteq l[k].seen
               /\ \A x \in l[k].seen : x = e \/ s.epic[x].parent \in l[k].seen
               /\ SubEpics(s, e) = {} => l[k].seen = {e}
<1> DEFINE Good(w) ==
               /\ w.at \subseteq w.seen /\ w.seen \subseteq Epics(s) /\ e \in w.seen
               /\ \A x \in w.seen \ w.at : SubEpics(s, x) \subseteq w.seen
               /\ \A x \in w.seen : x = e \/ s.epic[x].parent \in w.seen
               /\ SubEpics(s, e) = {} => w.seen = {e}
           All == {k \in Nat : Good(l[k])}
<1>1. 0 \in All
    BY DEF Descends
<1>2. ASSUME NEW k \in Nat, k \in All PROVE k + 1 \in All
    <2> DEFINE w == l[k]
               next == {c \in Epics(s) : s.epic[c].parent \in w.at} \ w.seen
    <2>1. l[k + 1] = [at |-> next, seen |-> w.seen \cup next]
        BY DEF Descends, OneLevelDown
    <2>2. Good(w)
        BY <1>2
    <2>3. \A x \in next : x \in Epics(s) /\ s.epic[x].parent \in w.at
        BY DEF SubEpics
    <2>4. \A x \in w.at : SubEpics(s, x) \subseteq w.seen \cup next
        BY DEF SubEpics
    <2>5. SubEpics(s, e) = {} => next = {}
        BY <2>2 DEF SubEpics
    <2> DEFINE v == [at |-> next, seen |-> w.seen \cup next]
    <2> HIDE DEF next, w
    <2>6. Good(v)
        BY <2>2, <2>3, <2>4, <2>5
    <2> HIDE DEF v, Good
    <2> QED BY <2>1, <2>6 DEF v
<1>3. Nat \subseteq All
    <2> HIDE DEF All
    <2> QED BY <1>1, <1>2, Induction
<1> HIDE DEF Good
<1>4. \A k \in Nat : Good(l[k])
    BY <1>3
<1> QED BY <1>4 DEF Good

(* A delete that is allowed reaches all that is below the epic.            *)
LEMMA DoomedFacts ==
    ASSUME NEW s \in Stores, NEW e \in Epics(s), MaxEpicDepth \in Nat,
           ~SubtreeExceedsDepth(s, e) \/ SubEpics(s, e) = {}
    PROVE  /\ Closed(s, Doomed(s, e)) /\ e \in Doomed(s, e)
           /\ \A x \in Doomed(s, e) : x = e \/ s.epic[x].parent \in Doomed(s, e)
           /\ SubEpics(s, e) = {} => Doomed(s, e) = {e}
<1> DEFINE M == MaxEpicDepth
<1>1. PICK l : Descends(l, s, e)
    BY LevelsDescend
<1>2. Doomed(s, e) = l[M].seen
    BY <1>1 DEF Descends, Doomed
<1>3. /\ l[M].at \subseteq l[M].seen /\ l[M].seen \subseteq Epics(s) /\ e \in l[M].seen
      /\ \A x \in l[M].seen \ l[M].at : SubEpics(s, x) \subseteq l[M].seen
      /\ \A x \in l[M].seen : x = e \/ s.epic[x].parent \in l[M].seen
      /\ SubEpics(s, e) = {} => l[M].seen = {e}
    BY <1>1, LevelsFacts
<1>4. \A x \in l[M].at : SubEpics(s, x) \subseteq l[M].seen
    <2>1. CASE SubEpics(s, e) = {}
        BY <2>1, <1>3
    <2>2. CASE ~SubtreeExceedsDepth(s, e)
        <3>1. l[M + 1].at = {}
            BY <2>2, <1>1 DEF SubtreeExceedsDepth, Descends
        <3>2. l[M + 1] = OneLevelDown(s, l[M])
            BY <1>1 DEF Descends
        <3>3. {c \in Epics(s) : s.epic[c].parent \in l[M].at} \ l[M].seen = {}
            BY <3>1, <3>2 DEF OneLevelDown
        <3> QED BY <3>3 DEF SubEpics
    <2> QED BY <2>1, <2>2
<1> QED BY <1>2, <1>3, <1>4 DEF Closed

(* The parent a valid hop walk accepts closes no loop.                     *)
LEMMA ValidParentKeepsForest ==
    ASSUME NEW s \in Stores, Forest(s), NEW r \in Stores, r.task = s.task,
           NEW e \in Epics(s), NEW p \in Epics(s) \cup {Root},
           p # Root => ValidEpicParent(s, e, p), MaxAncestorWalk \in Nat,
           Epics(r) = Epics(s), r.epic[e].parent = p,
           \A x \in Epics(s) \ {e} : r.epic[x].parent = s.epic[x].parent
    PROVE  Forest(r)
<1>1. ASSUME NEW some \in SUBSET Epics(s), some # {},
             \A x \in some : r.epic[x].parent \in some
      PROVE  FALSE
    <2>1. Root \notin some
        BY StoreFacts
    <2>2. e \in some
        <3> SUFFICES ASSUME e \notin some PROVE FALSE
            OBVIOUS
        <3>1. \A x \in some : s.epic[x].parent \in some
            BY <1>1
        <3> QED BY <3>1, <1>1 DEF Forest
    <2>3. p \in some /\ p # Root
        BY <2>1, <2>2, <1>1
    <2> DEFINE up == CHOOSE g : g = [k \in Nat |-> IF k = 0 THEN p ELSE Hop(s, e, g[k - 1])]
               F == [k \in Nat |-> [x \in some |-> Hop(s, e, x)]]
    <2>4. \A x \in some : Hop(s, e, x) \in some
        BY <1>1, <2>1, <2>2 DEF Hop
    <2>5. F \in [Nat -> [some -> some]]
        BY <2>4
    <2>6. PICK w \in [Nat -> some] : Sequel(w, p, F)
        <3> HIDE DEF F
        <3> QED BY <2>3, <2>5, Recursion
    <2>7. w[0] = p /\ \A k \in Nat : w[k + 1] = Hop(s, e, w[k])
        BY <2>6 DEF Sequel
    <2>8. w = [k \in Nat |-> IF k = 0 THEN p ELSE Hop(s, e, w[k - 1])]
        <3>1. \A k \in Nat : w[k] = IF k = 0 THEN p ELSE Hop(s, e, w[k - 1])
            <4> TAKE k \in Nat
            <4>1. CASE k = 0
                BY <4>1, <2>7
            <4>2. CASE k # 0
                <5>1. k - 1 \in Nat /\ (k - 1) + 1 = k
                    BY <4>2
                <5> QED BY <5>1, <2>7, <4>2
            <4> QED BY <4>1, <4>2
        <3> QED BY <3>1
    <2>9. up = [k \in Nat |-> IF k = 0 THEN p ELSE Hop(s, e, up[k - 1])]
        BY <2>8
    <2>10. up[MaxAncestorWalk] = Root
        BY <2>3 DEF ValidEpicParent
    <2> DEFINE In == {k \in Nat : up[k] \in some}
    <2>11. 0 \in In
        <3> HIDE DEF up
        <3> QED BY <2>9, <2>3
    <2>12. ASSUME NEW k \in Nat, k \in In PROVE k + 1 \in In
        <3> HIDE DEF up
        <3>1. k + 1 \in Nat /\ k + 1 # 0 /\ (k + 1) - 1 = k
            OBVIOUS
        <3>2. up[k + 1] = Hop(s, e, up[(k + 1) - 1])
            BY <3>1, <2>9
        <3> QED BY <3>1, <3>2, <2>12, <2>4
    <2>13. MaxAncestorWalk \in In
        <3> HIDE DEF In
        <3> QED BY <2>11, <2>12, Induction
    <2> HIDE DEF up
    <2> QED BY <2>10, <2>13, <2>1
<1>2. \A x \in Epics(r) : r.epic[x].parent \in Epics(r) \cup {Root}
    <2> TAKE x \in Epics(r)
    <2>1. CASE x = e
        BY <2>1
    <2>2. CASE x # e
        BY <2>2 DEF Forest
    <2> QED BY <2>1, <2>2
<1>3. \A t \in Tasks(r) : r.task[t].epic \in Epics(r) \cup {Root}
    BY DEF Forest, Tasks
<1>4. \A some \in SUBSET Epics(r) : some # {} => \E x \in some : r.epic[x].parent \notin some
    BY <1>1
<1> QED BY <1>2, <1>3, <1>4 DEF Forest

----------------------------------------------------------------------------
(* A store a reducer has reached on its way.  No task is a phoenix where   *)
(* none is made; and what may be stale by then is in `es`, as long as the  *)
(* roll-up reaches.                                                        *)
Fine(s) ==
    /\ Sound(s)
    /\ "phoenix" \notin Calls => \A t \in Tasks(s) : ~s.task[t].phoenix

Follows(s, r, es) ==
    /\ Fine(r) /\ s.epics <= r.epics /\ Tasks(s) \subseteq Tasks(r)
    /\ r.epics <= MaxEpicDepth /\ "phoenix" \notin Calls => Stale(r) \subseteq Stale(s) \cup es

(* The numbers of a setting.                                               *)
LEMMA SettingFacts ==
    ASSUME treeSetting \in TreeSettings
    PROVE  MaxEpicDepth \in Nat /\ MaxEpicDepth > 0 /\ MaxAncestorWalk \in Nat /\ NoRepo \notin Repos
BY EpicTreeAssumption DEF MaxEpicDepth, Repos

(* A store owes nothing to itself.                                         *)
LEMMA FollowsItself ==
    ASSUME NEW s, Fine(s)
    PROVE  Follows(s, s, {})
BY StoreFacts DEF Follows, Fine, Sound

(* One step of a reducer after another: the lists add up.                  *)
LEMMA FollowsOn ==
    ASSUME treeSetting \in TreeSettings,
           NEW s \in Stores, NEW r, NEW u, NEW es, NEW fs, Follows(s, r, es), Follows(r, u, fs)
    PROVE  Follows(s, u, es \cup fs)
<1>1. s.epics \in Nat /\ r.epics \in Nat /\ u.epics \in Nat /\ MaxEpicDepth \in Nat
    BY StoreFacts, SettingFacts DEF Follows, Fine, Sound
<1>2. s.epics <= u.epics /\ Tasks(s) \subseteq Tasks(u) /\ Fine(u)
    BY <1>1 DEF Follows
<1>3. ASSUME u.epics <= MaxEpicDepth, "phoenix" \notin Calls
      PROVE  Stale(u) \subseteq Stale(s) \cup (es \cup fs)
    <2>1. r.epics <= MaxEpicDepth
        BY <1>1, <1>3 DEF Follows
    <2>2. Stale(r) \subseteq Stale(s) \cup es /\ Stale(u) \subseteq Stale(r) \cup fs
        BY <2>1, <1>3 DEF Follows
    <2> QED BY <2>2
<1> QED BY <1>2, <1>3 DEF Follows

(* What is gone, or never was an epic, is not stale.                       *)
LEMMA FollowsLess ==
    ASSUME NEW s, NEW r, NEW es, NEW fs, Follows(s, r, es), es \cap Epics(r) \subseteq fs
    PROVE  Follows(s, r, fs)
<1>1. Stale(r) \subseteq Epics(r)
    BY DEF Stale
<1> QED BY <1>1 DEF Follows

(* A chain takes off the list the epic it starts at and that one's parent. *)
LEMMA ThenChain ==
    ASSUME treeSetting \in TreeSettings,
           NEW s \in Stores, NEW r, NEW es, NEW fs, NEW e \in Nat, Follows(s, r, es),
           es \subseteq fs \cup {e} \/ (e \in Epics(r) /\ es \subseteq fs \cup {e, r.epic[e].parent})
    PROVE  LET u == RecalculateEpicChain(r, e)
           IN  Follows(s, u, fs) /\ SameShape(r, u)
<1> DEFINE u == RecalculateEpicChain(r, e)
<1>1. r \in Stores /\ Forest(r) /\ MaxEpicDepth \in Nat
    BY SettingFacts DEF Follows, Fine, Sound
<1>2. u \in Stores /\ SameShape(r, u)
    BY <1>1, ChainKeepsShape
<1>3. Fine(u)
    <2>1. Forest(u)
        BY <1>1, <1>2, ShapeKeepsForest
    <2> QED BY <1>2, <2>1 DEF Fine, Sound, Follows, SameShape, Tasks
<1>4. s.epics <= u.epics /\ Tasks(s) \subseteq Tasks(u) /\ u.epics = r.epics
    BY <1>2 DEF Follows, SameShape, Tasks
<1>5. ASSUME u.epics <= MaxEpicDepth, "phoenix" \notin Calls
      PROVE  Stale(u) \subseteq Stale(s) \cup fs
    <2>1. Stale(u) \subseteq Stale(r) \ {e} /\ (e \in Epics(r) => r.epic[e].parent \notin Stale(u))
        BY <1>1, <1>4, <1>5, ChainSettles
    <2>2. Stale(r) \subseteq Stale(s) \cup es
        BY <1>4, <1>5 DEF Follows
    <2> QED BY <2>1, <2>2
<1> HIDE DEF u
<1> QED BY <1>2, <1>3, <1>4, <1>5 DEF Follows, u

(* A new epic owes its parent.                                             *)
LEMMA EpicInserted ==
    ASSUME NEW s, Fine(s), NEW row \in EpicRows, row.parent \in Epics(s) \cup {Root}
    PROVE  LET r == InsertEpic(s, row)
               new == s.epics + 1
           IN  /\ Follows(s, r, {row.parent})
               /\ new \in Nat /\ new \notin Epics(s) /\ Epics(r) = Epics(s) \cup {new}
               /\ r.epic[new] = row /\ \A x \in Epics(s) : r.epic[x] = s.epic[x]
               /\ r.task = s.task /\ r.tasks = s.tasks /\ r.epics = new
<1> DEFINE r == InsertEpic(s, row)
           new == s.epics + 1
           f == Rows(s.epic, new, row)
<1>1. s \in Stores /\ Forest(s)
    BY DEF Fine, Sound
<1>2. /\ s.epic \in [Epics(s) -> EpicRows] /\ s.task \in [Tasks(s) -> TaskRows]
      /\ s.epics \in Nat /\ s.tasks \in Nat /\ Epics(s) \subseteq 1..s.epics
      /\ Tasks(s) \subseteq 1..s.tasks
    BY <1>1, StoreFacts
<1>3. new \in Nat /\ new \notin Epics(s) /\ Epics(s) \cup {new} \subseteq 1..new
    BY <1>2
<1>4. f \in [Epics(s) \cup {new} -> EpicRows] /\ f[new] = row /\ \A x \in Epics(s) : f[x] = s.epic[x]
    <2>1. f = [i \in Epics(s) \cup {new} |-> IF i = new THEN row ELSE s.epic[i]]
        BY DEF Rows, Epics
    <2> HIDE DEF new, f
    <2> QED BY <2>1, <1>2, <1>3
<1>5. r = [epic |-> f, task |-> s.task, epics |-> new, tasks |-> s.tasks]
    <2>1. s = [epic |-> s.epic, task |-> s.task, epics |-> s.epics, tasks |-> s.tasks]
        BY <1>1, StoreFacts
    <2>2. r = [s EXCEPT !.epic = f, !.epics = new]
        BY DEF InsertEpic
    <2> HIDE DEF f, r, new
    <2> QED BY <2>1, <2>2
<1>6. r \in Stores /\ Epics(r) = Epics(s) \cup {new}
    <2> HIDE DEF f, new, r
    <2> QED BY <1>2, <1>3, <1>4, <1>5, StoreOf
<1>7. r.epic[new] = row /\ \A x \in Epics(s) : r.epic[x] = s.epic[x]
    BY <1>4, <1>5
<1>8. r.task = s.task /\ r.tasks = s.tasks /\ r.epics = new
    BY <1>5
<1> HIDE DEF r, f
<1>9. Sound(r) /\ Stale(r) \subseteq Stale(s) \cup {row.parent}
    <2>1. /\ Sound(r)
          /\ Stale(r) \subseteq Stale(s) \cup {r.epic[x].parent : x \in Epics(r) \ Epics(s)}
        BY <1>1, <1>3, <1>6, <1>7, <1>8, EpicsAdded
    <2> QED BY <2>1, <1>3, <1>6, <1>7
<1>10. Fine(r)
    BY <1>8, <1>9 DEF Fine, Tasks
<1>11. Follows(s, r, {row.parent})
    <2>1. s.epics <= r.epics
        BY <1>2, <1>8
    <2> QED BY <2>1, <1>8, <1>9, <1>10 DEF Follows, Tasks
<1> QED BY <1>3, <1>6, <1>7, <1>8, <1>11 DEF r

(* A new task owes the epic it is filed in.                                *)
LEMMA TaskInserted ==
    ASSUME NEW s, Fine(s), NEW row \in TaskRows, row.epic \in Epics(s) \cup {Root},
           row.phoenix => "phoenix" \in Calls
    PROVE  LET r == InsertTask(s, row)
           IN  /\ Follows(s, r, {row.epic})
               /\ r.epic = s.epic /\ r.epics = s.epics /\ r.tasks = s.tasks + 1
               /\ s.tasks + 1 \in Tasks(r) /\ r.task[s.tasks + 1] = row
<1> DEFINE r == InsertTask(s, row)
           new == s.tasks + 1
           g == Rows(s.task, new, row)
<1>1. s \in Stores /\ Forest(s)
    BY DEF Fine, Sound
<1>2. /\ s.epic \in [Epics(s) -> EpicRows] /\ s.task \in [Tasks(s) -> TaskRows]
      /\ s.epics \in Nat /\ s.tasks \in Nat /\ Epics(s) \subseteq 1..s.epics
      /\ Tasks(s) \subseteq 1..s.tasks
    BY <1>1, StoreFacts
<1>3. new \in Nat /\ new \notin Tasks(s) /\ Tasks(s) \cup {new} \subseteq 1..new
    BY <1>2
<1>4. g \in [Tasks(s) \cup {new} -> TaskRows] /\ g[new] = row /\ \A x \in Tasks(s) : g[x] = s.task[x]
    <2>1. g = [i \in Tasks(s) \cup {new} |-> IF i = new THEN row ELSE s.task[i]]
        BY DEF Rows, Tasks
    <2> HIDE DEF new, g
    <2> QED BY <2>1, <1>2, <1>3
<1>5. r = [epic |-> s.epic, task |-> g, epics |-> s.epics, tasks |-> new]
    <2>1. s = [epic |-> s.epic, task |-> s.task, epics |-> s.epics, tasks |-> s.tasks]
        BY <1>1, StoreFacts
    <2>2. r = [s EXCEPT !.task = g, !.tasks = new]
        BY DEF InsertTask
    <2> HIDE DEF g, r, new
    <2> QED BY <2>1, <2>2
<1>6. r \in Stores /\ Tasks(r) = Tasks(s) \cup {new} /\ Epics(r) = Epics(s)
    <2> HIDE DEF g, new, r
    <2> QED BY <1>2, <1>3, <1>4, <1>5, StoreOf
<1>7. r.task[new] = row /\ \A x \in Tasks(s) : r.task[x] = s.task[x]
    BY <1>4, <1>5
<1>8. r.epic = s.epic /\ r.tasks = new /\ r.epics = s.epics
    BY <1>5
<1> HIDE DEF r, g, new
<1>9. Sound(r) /\ Stale(r) \subseteq Stale(s) \cup {row.epic}
    <2>1. \A t \in Tasks(r) : r.task[t].epic \in Epics(s) \cup {Root}
        BY <1>1, <1>6, <1>7 DEF Forest
    <2> QED BY <2>1, <1>1, <1>3, <1>6, <1>7, <1>8, TasksChanged
<1>10. Fine(r)
    BY <1>6, <1>7, <1>9 DEF Fine
<1>11. Follows(s, r, {row.epic})
    BY <1>2, <1>6, <1>8, <1>9, <1>10 DEF Follows
<1> QED BY <1>6, <1>7, <1>8, <1>11 DEF r, new

(* Rows of tasks are written in place.                                     *)
LEMMA TasksWritten ==
    ASSUME NEW s, Fine(s), NEW g \in [Tasks(s) -> TaskRows], NEW es,
           \A t \in Tasks(s) : /\ g[t].epic \in Epics(s) \cup {Root}
                               /\ g[t].phoenix => s.task[t].phoenix
                               /\ \/ s.task[t].epic \in es /\ g[t].epic \in es
                                  \/ g[t].epic = s.task[t].epic /\ g[t].status = s.task[t].status
    PROVE  LET r == [s EXCEPT !.task = g]
           IN  /\ Follows(s, r, es) /\ r.epic = s.epic /\ r.task = g
               /\ r.epics = s.epics /\ r.tasks = s.tasks
<1> DEFINE r == [s EXCEPT !.task = g]
<1>1. s \in Stores /\ Forest(s)
    BY DEF Fine, Sound
<1>2. /\ s.epic \in [Epics(s) -> EpicRows]
      /\ s.epics \in Nat /\ s.tasks \in Nat /\ Epics(s) \subseteq 1..s.epics
      /\ Tasks(s) \subseteq 1..s.tasks
    BY <1>1, StoreFacts
<1>3. r = [epic |-> s.epic, task |-> g, epics |-> s.epics, tasks |-> s.tasks]
    BY <1>1, NewTables
<1>4. r \in Stores /\ Tasks(r) = Tasks(s) /\ Epics(r) = Epics(s)
    <2> HIDE DEF r
    <2> QED BY <1>2, <1>3, StoreOf
<1>5. r.epic = s.epic /\ r.task = g /\ r.epics = s.epics /\ r.tasks = s.tasks
    BY <1>3
<1> HIDE DEF r
<1>6. Sound(r) /\ Stale(r) \subseteq Stale(s) \cup es
    <2>1. \A t \in Tasks(r) : r.task[t].epic \in Epics(s) \cup {Root}
        BY <1>4, <1>5
    <2>2. \A t \in Tasks(s) : s.task[t].epic \notin es =>
               /\ t \in Tasks(r) /\ r.task[t].epic = s.task[t].epic
               /\ r.task[t].status = s.task[t].status
        BY <1>4, <1>5
    <2>3. \A t \in Tasks(r) : r.task[t].epic \notin es =>
               t \in Tasks(s) /\ s.task[t].epic = r.task[t].epic
        BY <1>4, <1>5
    <2> QED BY <2>1, <2>2, <2>3, <1>1, <1>4, <1>5, TasksChanged
<1>7. Fine(r)
    BY <1>4, <1>5, <1>6 DEF Fine
<1>8. Follows(s, r, es)
    BY <1>2, <1>4, <1>5, <1>6, <1>7 DEF Follows
<1> QED BY <1>5, <1>8 DEF r

(* Tasks filed elsewhere owe the epics they left and those they joined.    *)
LEMMA Relinked ==
    ASSUME NEW s, Fine(s), NEW ts \in SUBSET Tasks(s), NEW home \in [ts -> Epics(s) \cup {Root}],
           NEW es, \A t \in ts : s.task[t].epic \in es /\ home[t] \in es
    PROVE  LET r == Relink(s, home)
           IN  /\ Follows(s, r, es)
               /\ r.epic = s.epic /\ r.epics = s.epics /\ r.tasks = s.tasks
               /\ Tasks(r) = Tasks(s)
               /\ \A t \in Tasks(s) \ ts : r.task[t] = s.task[t]
               /\ \A t \in ts : /\ r.task[t].epic = home[t]
                                /\ r.task[t].status = s.task[t].status
                                /\ r.task[t].repo = s.task[t].repo
                                /\ r.task[t].phoenix = s.task[t].phoenix
<1> DEFINE g == [t \in Tasks(s) |-> IF t \in ts THEN [s.task[t] EXCEPT !.epic = home[t]]
                                    ELSE s.task[t]]
           r == Relink(s, home)
<1>1. s \in Stores /\ Forest(s) /\ s.task \in [Tasks(s) -> TaskRows] /\ Epics(s) \subseteq Nat
    BY StoreFacts DEF Fine, Sound
<1>2. DOMAIN home = ts
    OBVIOUS
<1>3. r = [s EXCEPT !.task = g]
    BY <1>2 DEF Relink
<1>4. \A t \in ts : /\ g[t].epic = home[t] /\ g[t].status = s.task[t].status
                    /\ g[t].repo = s.task[t].repo /\ g[t].phoenix = s.task[t].phoenix
                    /\ g[t] \in TaskRows
    <2> TAKE t \in ts
    <2>1. s.task[t] \in TaskRows /\ home[t] \in Nat
        BY <1>1 DEF Root
    <2>2. g[t] = [s.task[t] EXCEPT !.epic = home[t]]
        OBVIOUS
    <2> HIDE DEF g
    <2> QED BY <2>1, <2>2 DEF TaskRows
<1>5. \A t \in Tasks(s) \ ts : g[t] = s.task[t]
    OBVIOUS
<1>6. g \in [Tasks(s) -> TaskRows]
    <2>1. \A t \in Tasks(s) : g[t] \in TaskRows
        BY <1>1, <1>4, <1>5
    <2>2. g = [t \in Tasks(s) |-> g[t]]
        OBVIOUS
    <2> HIDE DEF g
    <2> QED BY <2>1, <2>2
<1>7. ASSUME NEW t \in Tasks(s)
      PROVE  /\ g[t].epic \in Epics(s) \cup {Root}
             /\ g[t].phoenix => s.task[t].phoenix
             /\ \/ s.task[t].epic \in es /\ g[t].epic \in es
                \/ g[t].epic = s.task[t].epic /\ g[t].status = s.task[t].status
    <2>1. CASE t \in ts
        BY <2>1, <1>4
    <2>2. CASE t \notin ts
        BY <2>2, <1>1, <1>5 DEF Forest
    <2> QED BY <2>1, <2>2
<1>8. /\ Follows(s, r, es) /\ r.epic = s.epic /\ r.task = g
      /\ r.epics = s.epics /\ r.tasks = s.tasks
    <2> HIDE DEF g, r
    <2> QED BY <1>3, <1>6, <1>7, TasksWritten
<1>9. Tasks(r) = Tasks(s)
    BY <1>8 DEF Tasks
<1> HIDE DEF g, r
<1> QED BY <1>4, <1>5, <1>8, <1>9 DEF r

(* One task filed elsewhere.                                               *)
LEMMA TaskRelinked ==
    ASSUME NEW s, Fine(s), NEW t \in Tasks(s), NEW e \in Epics(s) \cup {Root}
    PROVE  LET r == RelinkTask(s, t, e)
           IN  /\ Follows(s, r, {s.task[t].epic, e})
               /\ r.epic = s.epic /\ r.epics = s.epics /\ r.tasks = s.tasks
               /\ Tasks(r) = Tasks(s)
               /\ \A x \in Tasks(s) \ {t} : r.task[x] = s.task[x]
               /\ /\ r.task[t].epic = e
                  /\ r.task[t].status = s.task[t].status
                  /\ r.task[t].repo = s.task[t].repo
                  /\ r.task[t].phoenix = s.task[t].phoenix
<1> DEFINE ts == {t}
           home == [x \in {t} |-> e]
           r == RelinkTask(s, t, e)
<1>1. r = Relink(s, home)
    BY DEF RelinkTask
<1>2. /\ ts \in SUBSET Tasks(s) /\ home \in [ts -> Epics(s) \cup {Root}]
      /\ \A x \in ts : s.task[x].epic \in {s.task[t].epic, e} /\ home[x] \in {s.task[t].epic, e}
    OBVIOUS
<1>3. /\ Follows(s, r, {s.task[t].epic, e})
      /\ r.epic = s.epic /\ r.epics = s.epics /\ r.tasks = s.tasks
      /\ Tasks(r) = Tasks(s)
      /\ \A x \in Tasks(s) \ ts : r.task[x] = s.task[x]
      /\ \A x \in ts : /\ r.task[x].epic = home[x]
                       /\ r.task[x].status = s.task[x].status
                       /\ r.task[x].repo = s.task[x].repo
                       /\ r.task[x].phoenix = s.task[x].phoenix
    <2> HIDE DEF ts, home, r
    <2> QED BY <1>1, <1>2, Relinked
<1> HIDE DEF r
<1> QED BY <1>3 DEF r

(* The least of some ids is one of them.                                   *)
LEMMA MinFacts ==
    ASSUME NEW S \in SUBSET Nat, S # {}
    PROVE  Min(S) \in S
<1>1. \E m \in S : \A k \in S : m <= k
    BY Least
<1> QED BY <1>1 DEF Min

(* A routed task lands in the epic it is filed in, or in a sub-epic of it. *)
LandsIn(s, e, at, u) ==
    /\ Follows(s, u, {e})
    /\ u.task = s.task /\ u.tasks = s.tasks
    /\ Epics(s) \subseteq Epics(u) /\ \A x \in Epics(s) : u.epic[x] = s.epic[x]
    /\ at \in Epics(u) \cup {Root} /\ at \in Nat
    /\ \/ at = e /\ ~AutoGroups(s, e) /\ u = s
       \/ AutoGroups(s, e) /\ at \in Epics(u) /\ u.epic[at].parent = e

(* RouteToRepoGroup lands there, creating the sub-epic if it has to.       *)
LEMMA Routed ==
    ASSUME treeSetting \in TreeSettings,
           NEW s, Fine(s), NEW e \in Epics(s) \cup {Root}, NEW repo \in Repos
    PROVE  LET route == RouteToRepoGroup(s, e, repo)
           IN  LandsIn(s, e, route.epic, route.store)
<1> DEFINE route == RouteToRepoGroup(s, e, repo)
           u == route.store
<1>1. s \in Stores /\ Epics(s) \subseteq Nat /\ Root \notin Epics(s)
    BY StoreFacts DEF Fine, Sound
<1>2. Follows(s, s, {e})
    BY FollowsItself, FollowsLess
<1>3. CASE ~AutoGroups(s, e)
    <2>1. route = [epic |-> e, store |-> s]
        BY <1>3 DEF RouteToRepoGroup
    <2> QED BY <2>1, <1>1, <1>2, <1>3 DEF Root, LandsIn
<1>4. CASE AutoGroups(s, e) /\ RepoGroups(s, e, repo) # {}
    <2> DEFINE m == Min(RepoGroups(s, e, repo))
    <2>1. route = [epic |-> m, store |-> s]
        BY <1>4 DEF RouteToRepoGroup
    <2>2. RepoGroups(s, e, repo) \in SUBSET Nat
        BY <1>1 DEF RepoGroups, SubEpics
    <2>3. m \in RepoGroups(s, e, repo)
        BY <2>2, <1>4, MinFacts
    <2>4. m \in Epics(s) /\ s.epic[m].parent = e
        <3> HIDE DEF m
        <3> QED BY <2>3 DEF RepoGroups, SubEpics
    <2> HIDE DEF m
    <2> QED BY <2>1, <2>4, <1>1, <1>2, <1>4 DEF LandsIn
<1>5. CASE AutoGroups(s, e) /\ RepoGroups(s, e, repo) = {}
    <2> DEFINE row == RepoGroup(e, repo)
               new == s.epics + 1
               r == InsertEpic(s, row)
    <2>1. route = [epic |-> new, store |-> r]
        BY <1>5 DEF RouteToRepoGroup
    <2>2. row \in EpicRows /\ row.parent = e
        <3>1. e \in Nat
            BY <1>1 DEF Root
        <3> QED BY <3>1 DEF RepoGroup, NewEpic, EpicRows, Status
    <2> HIDE DEF row, new
    <2>3. /\ Follows(s, r, {row.parent})
          /\ new \in Nat /\ new \notin Epics(s) /\ Epics(r) = Epics(s) \cup {new}
          /\ r.epic[new] = row /\ \A x \in Epics(s) : r.epic[x] = s.epic[x]
          /\ r.task = s.task /\ r.tasks = s.tasks
        BY <2>2, EpicInserted DEF new
    <2> HIDE DEF r
    <2> QED BY <2>1, <2>2, <2>3, <1>5 DEF LandsIn
<1> QED BY <1>3, <1>4, <1>5

(* A repo group left empty goes, and any other is recalculated.            *)
CleansUp(s, r, e, fs, u) ==
    /\ Follows(s, u, fs)
    /\ Epics(u) \subseteq Epics(r) /\ Epics(r) \ {e} \subseteq Epics(u)
    /\ \A x \in Epics(u) : /\ u.epic[x].parent = r.epic[x].parent
                           /\ u.epic[x].group = r.epic[x].group
                           /\ u.epic[x].grouped = r.epic[x].grouped
    /\ Tasks(u) = Tasks(r) /\ \A t \in Tasks(r) : u.task[t] = r.task[t]
    /\ u.epics = r.epics /\ u.tasks = r.tasks

(* DeleteIfEmptyRepoGroup does so, and the epic left owes nothing more.    *)
LEMMA GroupCleanedUp ==
    ASSUME treeSetting \in TreeSettings,
           NEW s \in Stores, NEW r, NEW es, NEW fs, Follows(s, r, es),
           NEW e \in Epics(r), r.epic[e].group # NoRepo,
           es \subseteq fs \cup {e}, r.epic[e].parent \in fs
    PROVE  CleansUp(s, r, e, fs, DeleteIfEmptyRepoGroup(r, e))
<1>1. r \in Stores /\ Forest(r) /\ e \in Nat /\ MaxEpicDepth \in Nat
    BY StoreFacts, SettingFacts DEF Follows, Fine, Sound
<1>2. CASE TasksOf(r, e) # {} \/ SubEpics(r, e) # {}
    <2> DEFINE u == RecalculateEpicChain(r, e)
    <2>1. DeleteIfEmptyRepoGroup(r, e) = u
        BY <1>2 DEF DeleteIfEmptyRepoGroup
    <2>2. Follows(s, u, fs) /\ SameShape(r, u)
        BY <1>1, ThenChain
    <2> HIDE DEF u
    <2> QED BY <2>1, <2>2 DEF SameShape, Tasks, CleansUp
<1>3. CASE TasksOf(r, e) = {} /\ SubEpics(r, e) = {}
    <2> DEFINE u == WithoutEpics(r, {e})
    <2>1. Doomed(r, e) = {e} /\ Closed(r, {e})
        BY <1>1, <1>3, DoomedFacts
    <2>2. DeleteIfEmptyRepoGroup(r, e) = u
        BY <2>1, <1>3 DEF DeleteIfEmptyRepoGroup, DeleteEpicSubtree
    <2>3. /\ Sound(u) /\ Epics(u) = Epics(r) \ {e}
          /\ \A x \in Epics(u) : u.epic[x] = r.epic[x]
          /\ Tasks(u) = {t \in Tasks(r) : r.task[t].epic \notin {e}}
          /\ \A t \in Tasks(u) : u.task[t] = r.task[t]
          /\ u.epics = r.epics /\ u.tasks = r.tasks
          /\ Stale(u) \subseteq Stale(r) \cup {r.epic[x].parent : x \in {e}}
        BY <2>1, <1>1, EpicsDeleted
    <2> HIDE DEF u
    <2>4. Tasks(u) = Tasks(r)
        BY <2>3, <1>3 DEF TasksOf
    <2>5. Fine(u)
        BY <2>3, <2>4 DEF Fine, Follows
    <2>6. Stale(u) \subseteq (Stale(r) \cup {r.epic[e].parent}) \ {e}
        BY <2>3 DEF Stale
    <2>7. Follows(s, u, fs)
        BY <2>3, <2>4, <2>5, <2>6 DEF Follows
    <2> QED BY <2>2, <2>3, <2>4, <2>7 DEF CleansUp
<1> QED BY <1>2, <1>3

(* A change of repository leaves no epic stale.                            *)
LEMMA Rerouted ==
    ASSUME treeSetting \in TreeSettings, NEW s, Fine(s), NEW t \in Tasks(s)
    PROVE  Follows(s, RerouteOnRepoChange(s, t), {})
<1> DEFINE current == s.task[t].epic
           repo == s.task[t].repo
           base == GroupingRootOf(s, current)
           route == RouteToRepoGroup(s, base, repo)
           moved == RelinkTask(route.store, t, route.epic)
           left == IF current # base THEN DeleteIfEmptyRepoGroup(moved, current) ELSE moved
<1>1. s \in Stores /\ Forest(s) /\ Root \notin Epics(s)
    BY StoreFacts DEF Fine, Sound
<1>2. s.task[t] \in TaskRows /\ repo \in Repos /\ current \in Epics(s) \cup {Root}
    BY <1>1, StoreFacts DEF TaskRows, Forest
<1>3. Follows(s, s, {})
    BY FollowsItself
<1>4. RerouteOnRepoChange(s, t) =
          IF base = Root \/ route.epic = current THEN s ELSE RecalculateEpicChain(left, route.epic)
    BY DEF RerouteOnRepoChange
<1> SUFFICES ASSUME base # Root, route.epic # current
             PROVE  Follows(s, RecalculateEpicChain(left, route.epic), {})
    BY <1>3, <1>4
<1>5. /\ base \in Epics(s) /\ AutoGroups(s, base)
      /\ \/ base = current
         \/ current \in Epics(s) /\ s.epic[current].group # NoRepo /\ s.epic[current].parent = base
    BY DEF GroupingRootOf, AutoGroups
<1> HIDE DEF base
<1>6. /\ Follows(s, route.store, {base}) /\ route.store.task = s.task
      /\ Epics(s) \subseteq Epics(route.store)
      /\ \A x \in Epics(s) : route.store.epic[x] = s.epic[x]
      /\ route.epic \in Epics(route.store) /\ route.epic \in Nat
      /\ route.store.epic[route.epic].parent = base
    <2>1. base \in Epics(s) \cup {Root} /\ repo \in Repos
        BY <1>2, <1>5
    <2> HIDE DEF repo
    <2>2. LandsIn(s, base, route.epic, route.store)
        BY <2>1, Routed
    <2> HIDE DEF route
    <2> QED BY <2>2, <1>5 DEF LandsIn
<1> HIDE DEF route
<1>7. /\ Follows(route.store, moved, {current, route.epic}) /\ moved.epic = route.store.epic
    <2>1. Fine(route.store) /\ t \in Tasks(route.store) /\ route.store.task[t].epic = current
        BY <1>6 DEF Follows, Tasks
    <2>2. route.epic \in Epics(route.store) \cup {Root}
        BY <1>6
    <2> HIDE DEF current
    <2> QED BY <2>1, <2>2, TaskRelinked
<1> HIDE DEF moved
<1>8. Follows(s, moved, {base} \cup {current, route.epic}) /\ Epics(moved) = Epics(route.store)
    BY <1>1, <1>6, <1>7, FollowsOn DEF Epics
<1>9. /\ Follows(s, left, {base, route.epic})
      /\ route.epic \in Epics(left) /\ left.epic[route.epic].parent = base
    <2>1. CASE base = current
        <3>1. left = moved
            BY <2>1
        <3>2. {base} \cup {current, route.epic} = {base, route.epic}
            BY <2>1
        <3> HIDE DEF left, current
        <3> QED BY <3>1, <3>2, <1>6, <1>7, <1>8
    <2>2. CASE base # current
        <3>1. left = DeleteIfEmptyRepoGroup(moved, current)
            BY <2>2
        <3> HIDE DEF left, current
        <3>2. /\ current \in Epics(moved) /\ moved.epic[current].group # NoRepo
              /\ moved.epic[current].parent = base
            BY <2>2, <1>5, <1>6, <1>7, <1>8
        <3> DEFINE fs == {base, route.epic}
                   es == {base} \cup {current, route.epic}
        <3>3. es \subseteq fs \cup {current} /\ base \in fs /\ Follows(s, moved, es)
            BY <1>8
        <3> HIDE DEF fs, es
        <3> DEFINE u == DeleteIfEmptyRepoGroup(moved, current)
        <3>4. CleansUp(s, moved, current, fs, u)
            BY <3>2, <3>3, <1>1, GroupCleanedUp
        <3>5. left = u
            BY <3>1
        <3> HIDE DEF u
        <3> QED BY <3>5, <3>4, <1>6, <1>7, <1>8 DEF fs, CleansUp
    <2> QED BY <2>1, <2>2
<1> HIDE DEF left
<1>10. {base, route.epic} \subseteq {} \cup {route.epic, left.epic[route.epic].parent}
    BY <1>9
<1> QED BY <1>1, <1>6, <1>9, <1>10, ThenChain

(* Nor does a move, to whichever sub-epic it is routed.                    *)
LEMMA Moved ==
    ASSUME treeSetting \in TreeSettings, NEW s, Fine(s), NEW t \in Tasks(s),
           NEW e \in Epics(s) \cup {Root}
    PROVE  /\ Follows(s, MoveTask(s, t, e), {})
           /\ MoveTask(s, t, e).task[t].phoenix = s.task[t].phoenix
<1> DEFINE was == s.task[t].epic
           repo == s.task[t].repo
           route == RouteToRepoGroup(s, e, repo)
           moved == RelinkTask(route.store, t, route.epic)
           once == RecalculateEpicChain(moved, was)
           twice == RecalculateEpicChain(once, route.epic)
<1>1. s \in Stores /\ Forest(s) /\ Root \notin Epics(s)
    BY StoreFacts DEF Fine, Sound
<1>2. s.task[t] \in TaskRows /\ repo \in Repos /\ was \in Epics(s) \cup {Root} /\ was \in Nat
    BY <1>1, StoreFacts DEF TaskRows, Forest
<1>3. Follows(s, s, {})
    BY FollowsItself
<1>4. MoveTask(s, t, e) = IF route.epic = was THEN s ELSE twice
    BY DEF MoveTask
<1>5. /\ Follows(s, route.store, {e}) /\ route.store.task = s.task
      /\ route.epic \in Epics(route.store) \cup {Root} /\ route.epic \in Nat
      /\ \/ route.epic = e
         \/ route.epic \in Epics(route.store) /\ route.store.epic[route.epic].parent = e
    <2>1. repo \in Repos
        BY <1>2
    <2> HIDE DEF repo
    <2>2. LandsIn(s, e, route.epic, route.store)
        BY <2>1, Routed
    <2> HIDE DEF route
    <2> QED BY <2>2 DEF LandsIn
<1> HIDE DEF route
<1>6. /\ Follows(route.store, moved, {was, route.epic}) /\ moved.epic = route.store.epic
      /\ moved.task[t].phoenix = s.task[t].phoenix
    <2>1. /\ Fine(route.store) /\ t \in Tasks(route.store) /\ route.store.task[t].epic = was
          /\ route.store.task[t] = s.task[t]
        BY <1>5 DEF Follows, Tasks
    <2> HIDE DEF was
    <2> QED BY <2>1, <1>5, TaskRelinked
<1> HIDE DEF moved, was
<1>7. Follows(s, moved, {e} \cup {was, route.epic}) /\ Epics(moved) = Epics(route.store)
    BY <1>1, <1>5, <1>6, FollowsOn DEF Epics
<1>8. Follows(s, once, {e, route.epic}) /\ SameShape(moved, once)
    <2>1. {e} \cup {was, route.epic} \subseteq {e, route.epic} \cup {was}
        OBVIOUS
    <2> QED BY <2>1, <1>1, <1>2, <1>7, ThenChain
<1> HIDE DEF once
<1>9. \/ {e, route.epic} \subseteq {} \cup {route.epic}
      \/ route.epic \in Epics(once) /\ {e, route.epic} \subseteq {} \cup {route.epic, once.epic[route.epic].parent}
    BY <1>5, <1>6, <1>7, <1>8 DEF SameShape
<1>10. Follows(s, twice, {}) /\ SameShape(once, twice)
    <2> DEFINE es == {e, route.epic}
    <2>1. \/ es \subseteq {} \cup {route.epic}
          \/ route.epic \in Epics(once) /\ es \subseteq {} \cup {route.epic, once.epic[route.epic].parent}
        BY <1>9
    <2>2. Follows(s, once, es)
        BY <1>8
    <2> HIDE DEF es
    <2> QED BY <2>1, <2>2, <1>1, <1>5, ThenChain
<1>11. twice.task = moved.task
    BY <1>8, <1>10 DEF SameShape
<1> HIDE DEF twice
<1> QED BY <1>3, <1>4, <1>6, <1>10, <1>11

(* The successor of a closed phoenix is filed in an epic that exists.      *)
LEMMA Reborn ==
    ASSUME treeSetting \in TreeSettings, NEW s, Fine(s), NEW t \in Tasks(s), "phoenix" \in Calls
    PROVE  Follows(s, Respawn(s, t), {}) /\ Epics(s) \subseteq Epics(Respawn(s, t))
<1> DEFINE home == s.task[t].epic
           repo == s.task[t].repo
           route == RouteToRepoGroup(s, home, repo)
           u == route.store
           g == [u.task EXCEPT ![t] = [@ EXCEPT !.phoenix = FALSE]]
           burnt == [u EXCEPT !.task = g]
           row == NewTask(route.epic, repo, TRUE)
           v == InsertTask(burnt, row)
<1>1. s \in Stores /\ Forest(s)
    BY DEF Fine, Sound
<1>2. repo \in Repos /\ home \in Epics(s) \cup {Root}
    BY <1>1, StoreFacts DEF TaskRows, Forest
<1>3. LandsIn(s, home, route.epic, u)
    <2> HIDE DEF home, repo
    <2> QED BY <1>2, Routed
<1>4. Respawn(s, t) = v
    BY DEF Respawn
<1> HIDE DEF u
<1>5. Fine(u) /\ u \in Stores /\ Forest(u) /\ t \in Tasks(u) /\ Follows(s, u, {home})
    BY <1>3 DEF LandsIn, Follows, Tasks, Fine, Sound
<1>6. route.epic \in Epics(u) \cup {Root} /\ route.epic \in Nat
    BY <1>3 DEF LandsIn
<1> HIDE DEF home, route
<1>7. /\ Follows(u, burnt, {}) /\ burnt.epic = u.epic
    <2>1. u.task \in [Tasks(u) -> TaskRows]
        BY <1>5, StoreFacts
    <2>2. g \in [Tasks(u) -> TaskRows]
        BY <2>1, <1>5 DEF TaskRows
    <2>3. \A x \in Tasks(u) : /\ g[x].epic = u.task[x].epic /\ g[x].status = u.task[x].status
                              /\ g[x].phoenix => u.task[x].phoenix
        BY <2>1, <1>5 DEF TaskRows
    <2> HIDE DEF g
    <2>4. \A x \in Tasks(u) : g[x].epic \in Epics(u) \cup {Root}
        BY <2>3, <1>5 DEF Forest
    <2> QED BY <2>2, <2>3, <2>4, <1>5, TasksWritten
<1> HIDE DEF burnt
<1>8. row \in TaskRows /\ row.epic = route.epic
    BY <1>2, <1>6 DEF NewTask, TaskRows, Status
<1> HIDE DEF row
<1>9. Follows(burnt, v, {row.epic}) /\ v.epic = burnt.epic
    <2>1. Fine(burnt) /\ row.epic \in Epics(burnt) \cup {Root}
        BY <1>6, <1>7, <1>8 DEF Follows, Epics
    <2> QED BY <2>1, <1>8, TaskInserted
<1> HIDE DEF v
<1>10. Fine(v) /\ s.epics <= v.epics /\ Tasks(s) \subseteq Tasks(v)
    <2>1. Follows(u, v, {} \cup {row.epic})
        BY <1>5, <1>7, <1>9, FollowsOn
    <2>2. Follows(s, v, {home} \cup ({} \cup {row.epic}))
        BY <2>1, <1>1, <1>5, FollowsOn
    <2> QED BY <2>2 DEF Follows
<1>11. Epics(s) \subseteq Epics(v)
    BY <1>3, <1>7, <1>9 DEF LandsIn, Epics
<1> QED BY <1>4, <1>10, <1>11 DEF Follows

(* A patch of a task, with all it drags along, leaves no epic stale.       *)
LEMMA TaskPatched ==
    ASSUME treeSetting \in TreeSettings, NEW s, Fine(s), NEW t \in Tasks(s),
           NEW status \in Status, NEW repo \in Repos
    PROVE  LET r == PatchTask(s, t, status, repo)
           IN  Follows(s, r, {}) /\ (repo = s.task[t].repo => Epics(s) \subseteq Epics(r))
<1> DEFINE prior == s.task[t]
           home == prior.epic
           g == [s.task EXCEPT ![t] = [@ EXCEPT !.status = status, !.repo = repo]]
           patched == [s EXCEPT !.task = g]
           born == IF Respawns(s, t, status) THEN Respawn(patched, t) ELSE patched
           rolled == IF status # prior.status THEN RecalculateEpicChain(born, home) ELSE born
<1>1. s \in Stores /\ Forest(s) /\ s.task \in [Tasks(s) -> TaskRows]
    BY StoreFacts DEF Fine, Sound
<1>2. prior \in TaskRows /\ home \in Epics(s) \cup {Root} /\ home \in Nat
    BY <1>1 DEF TaskRows, Forest
<1>3. PatchTask(s, t, status, repo) =
          IF repo # prior.repo THEN RerouteOnRepoChange(rolled, t) ELSE rolled
    <2>1. [s EXCEPT !.task[t].status = status, !.task[t].repo = repo] = patched
        BY <1>1, StoreFacts
    <2> HIDE DEF patched
    <2> QED BY <2>1 DEF PatchTask
<1> DEFINE es == IF status # prior.status THEN {home} ELSE {}
<1>4. Follows(s, patched, es) /\ patched.epic = s.epic /\ patched.task = g
    <2>1. g \in [Tasks(s) -> TaskRows]
        BY <1>1 DEF TaskRows
    <2>2. \A x \in Tasks(s) : /\ g[x].epic = s.task[x].epic
                              /\ g[x].phoenix => s.task[x].phoenix
                              /\ \/ x = t
                                 \/ g[x].status = s.task[x].status
        BY <1>1 DEF TaskRows
    <2>3. g[t].status = status
        BY <1>1 DEF TaskRows
    <2> HIDE DEF g
    <2>4. \A x \in Tasks(s) : /\ g[x].epic \in Epics(s) \cup {Root}
                              /\ \/ s.task[x].epic \in es /\ g[x].epic \in es
                                 \/ g[x].epic = s.task[x].epic /\ g[x].status = s.task[x].status
        BY <2>2, <2>3, <1>1 DEF Forest
    <2> HIDE DEF es
    <2> QED BY <2>1, <2>2, <2>4, TasksWritten
<1> HIDE DEF patched
<1>5. Fine(patched) /\ t \in Tasks(patched)
    BY <1>4 DEF Follows
<1>6. Follows(patched, born, {}) /\ Epics(s) \subseteq Epics(born)
    <2>1. CASE Respawns(s, t, status)
        <3>1. "phoenix" \in Calls
            BY <2>1 DEF Respawns, Fine
        <3> QED BY <2>1, <3>1, <1>4, <1>5, Reborn DEF Epics
    <2>2. CASE ~Respawns(s, t, status)
        BY <2>2, <1>4, <1>5, FollowsItself DEF Epics
    <2> QED BY <2>1, <2>2
<1> HIDE DEF born
<1>7. Follows(s, born, es)
    <2>1. Follows(s, born, es \cup {})
        <3> HIDE DEF es
        <3> QED BY <1>1, <1>4, <1>6, FollowsOn
    <2>2. es \cup {} = es
        OBVIOUS
    <2> HIDE DEF es
    <2> QED BY <2>1, <2>2
<1> HIDE DEF home
<1>8. Follows(s, rolled, {}) /\ Epics(s) \subseteq Epics(rolled)
    <2>1. CASE status # prior.status
        <3>1. Follows(s, born, {home}) /\ {home} \subseteq {} \cup {home}
            BY <2>1, <1>7
        <3>2. /\ Follows(s, RecalculateEpicChain(born, home), {})
              /\ SameShape(born, RecalculateEpicChain(born, home))
            BY <3>1, <1>1, <1>2, ThenChain
        <3> QED BY <2>1, <3>2, <1>6 DEF SameShape
    <2>2. CASE status = prior.status
        BY <2>2, <1>6, <1>7
    <2> QED BY <2>1, <2>2
<1> HIDE DEF rolled
<1>9. CASE repo # prior.repo
    <2>1. Follows(rolled, RerouteOnRepoChange(rolled, t), {})
        <3>1. Fine(rolled) /\ t \in Tasks(rolled)
            BY <1>8 DEF Follows
        <3> QED BY <3>1, Rerouted
    <2>2. Follows(s, RerouteOnRepoChange(rolled, t), {} \cup {})
        BY <2>1, <1>1, <1>8, FollowsOn
    <2>3. {} \cup {} = {}
        OBVIOUS
    <2> QED BY <2>2, <2>3, <1>3, <1>9
<1>10. CASE repo = prior.repo
    BY <1>3, <1>8, <1>10
<1> QED BY <1>9, <1>10

(* So does an update, whether it moves the task first or last.             *)
LEMMA TaskUpdated ==
    ASSUME treeSetting \in TreeSettings, NEW s, Fine(s), NEW t \in Tasks(s),
           NEW e \in Epics(s) \cup {Root}, NEW status \in Status, NEW repo \in Repos,
           NEW names \in BOOLEAN, repo # s.task[t].repo => names
    PROVE  Follows(s, UpdateTask(s, t, e, status, repo, names), {})
<1>1. s \in Stores
    BY DEF Fine, Sound
<1>2. {} \cup {} = {}
    OBVIOUS
<1>3. CASE names
    <2> DEFINE r == MoveTask(s, t, e)
               u == PatchTask(r, t, status, repo)
    <2>1. Follows(s, r, {})
        BY Moved
    <2> HIDE DEF r
    <2>2. Fine(r) /\ t \in Tasks(r)
        BY <2>1 DEF Follows
    <2>3. Follows(r, u, {})
        BY <2>2, TaskPatched
    <2>4. UpdateTask(s, t, e, status, repo, names) = u
        BY <1>3 DEF UpdateTask, r
    <2> HIDE DEF u
    <2>5. Follows(s, u, {} \cup {})
        BY <2>1, <2>3, <1>1, FollowsOn
    <2> QED BY <2>4, <2>5, <1>2
<1>4. CASE ~names
    <2> DEFINE r == PatchTask(s, t, status, repo)
               u == MoveTask(r, t, e)
    <2>1. Follows(s, r, {}) /\ Epics(s) \subseteq Epics(r)
        BY <1>4, TaskPatched
    <2> HIDE DEF r
    <2>2. Fine(r) /\ t \in Tasks(r) /\ e \in Epics(r) \cup {Root}
        BY <2>1 DEF Follows
    <2>3. Follows(r, u, {})
        BY <2>2, Moved
    <2>4. UpdateTask(s, t, e, status, repo, names) = u
        BY <1>4 DEF UpdateTask, r
    <2> HIDE DEF u
    <2>5. Follows(s, u, {} \cup {})
        BY <2>1, <2>3, <1>1, FollowsOn
    <2> QED BY <2>4, <2>5, <1>2
<1> QED BY <1>3, <1>4

----------------------------------------------------------------------------
(* The reducers *)

(* A transaction that leaves no epic stale that was not.                   *)
Mends(s, r) ==
    /\ Fine(r)
    /\ r.epics <= MaxEpicDepth /\ "phoenix" \notin Calls => Stale(r) \subseteq Stale(s)

(* A reducer with an empty list at its end is one.                         *)
LEMMA FollowsMends ==
    ASSUME NEW s, NEW r, Follows(s, r, {})
    PROVE  Mends(s, r)
BY DEF Follows, Mends

(* Creating an epic.                                                       *)
LEMMA EpicMade ==
    ASSUME treeSetting \in TreeSettings, NEW s, Fine(s), NEW parent \in Epics(s) \cup {Root}
    PROVE  Follows(s, RecalculateEpicChain(InsertEpic(s, NewEpic(parent)), parent), {})
<1> DEFINE row == NewEpic(parent)
           r == InsertEpic(s, row)
<1>1. s \in Stores /\ parent \in Nat
    BY StoreFacts DEF Fine, Sound, Root
<1>2. row \in EpicRows /\ row.parent = parent
    BY <1>1 DEF NewEpic, EpicRows, Status
<1> HIDE DEF row
<1>3. Follows(s, r, {parent})
    BY <1>2, EpicInserted
<1> HIDE DEF r
<1>4. {parent} \subseteq {} \cup {parent}
    OBVIOUS
<1>5. Follows(s, RecalculateEpicChain(r, parent), {})
    BY <1>1, <1>3, <1>4, ThenChain
<1> QED BY <1>5 DEF r, row

(* Creating a task, wherever it is routed.                                 *)
LEMMA TaskMade ==
    ASSUME treeSetting \in TreeSettings, NEW s, Fine(s), NEW e \in Epics(s) \cup {Root},
           NEW repo \in Repos, NEW phoenix \in BOOLEAN, phoenix => "phoenix" \in Calls
    PROVE  LET route == RouteToRepoGroup(s, e, repo)
           IN  Follows(s, RecalculateEpicChain(
                   InsertTask(route.store, NewTask(route.epic, repo, phoenix)), route.epic), {})
<1> DEFINE route == RouteToRepoGroup(s, e, repo)
           u == route.store
           at == route.epic
           row == NewTask(at, repo, phoenix)
           r == InsertTask(u, row)
<1>1. s \in Stores
    BY DEF Fine, Sound
<1>2. LandsIn(s, e, at, u)
    BY Routed
<1> HIDE DEF route, u, at
<1>3. Fine(u) /\ Follows(s, u, {e}) /\ at \in Epics(u) \cup {Root} /\ at \in Nat
    BY <1>2 DEF LandsIn, Follows
<1>4. row \in TaskRows /\ row.epic = at /\ row.phoenix = phoenix
    BY <1>3 DEF NewTask, TaskRows, Status
<1> HIDE DEF row
<1>5. Follows(u, r, {at}) /\ r.epic = u.epic
    BY <1>3, <1>4, TaskInserted
<1> HIDE DEF r
<1>6. Follows(s, r, {e} \cup {at})
    BY <1>1, <1>3, <1>5, FollowsOn
<1>7. \/ {e} \cup {at} \subseteq {} \cup {at}
      \/ at \in Epics(r) /\ {e} \cup {at} \subseteq {} \cup {at, r.epic[at].parent}
    BY <1>2, <1>5 DEF LandsIn, Epics
<1>8. Follows(s, RecalculateEpicChain(r, at), {})
    <2> DEFINE es == {e} \cup {at}
    <2>1. \/ es \subseteq {} \cup {at}
          \/ at \in Epics(r) /\ es \subseteq {} \cup {at, r.epic[at].parent}
        BY <1>7
    <2>2. Follows(s, r, es)
        BY <1>6
    <2> HIDE DEF es
    <2> QED BY <2>1, <2>2, <1>1, <1>3, ThenChain
<1> QED BY <1>8 DEF r, row, u, at, route

(* A change of an epic's row, once its chain and that of the parent it had *)
(* have been recalculated.                                                 *)
Patches(s, r, e, row) ==
    /\ r \in Stores /\ Forest(r) /\ Epics(r) = Epics(s) /\ r.task = s.task /\ r.epics = s.epics
    /\ r.epic[e] = row /\ \A x \in Epics(s) \ {e} : r.epic[x] = s.epic[x]
    /\ LET old == s.epic[e].parent
           once == RecalculateEpicChain(r, e)
       IN  /\ PatchedEpic(s, e, row) = RecalculateEpicChain(once, old)
           /\ old \in Nat /\ Follows(s, once, {old})

(* The row is written, and then the chains owe only the parent it had.     *)
LEMMA RowPatched ==
    ASSUME treeSetting \in TreeSettings, NEW s, Fine(s), NEW e \in Epics(s), NEW row \in EpicRows,
           \/ row.parent \in {Root, s.epic[e].parent}
           \/ row.parent \in Epics(s) /\ ValidEpicParent(s, e, row.parent)
    PROVE  \E r : Patches(s, r, e, row)
<1> DEFINE f == [s.epic EXCEPT ![e] = row]
           r == [s EXCEPT !.epic = f]
           old == s.epic[e].parent
           once == RecalculateEpicChain(r, e)
           twice == RecalculateEpicChain(once, old)
<1>1. s \in Stores /\ Forest(s)
    BY DEF Fine, Sound
<1>2. /\ s.epic \in [Epics(s) -> EpicRows] /\ s.task \in [Tasks(s) -> TaskRows]
      /\ s.epics \in Nat /\ s.tasks \in Nat /\ Epics(s) \subseteq 1..s.epics
      /\ Tasks(s) \subseteq 1..s.tasks /\ Epics(s) \subseteq Nat
    BY <1>1, StoreFacts
<1>3. f \in [Epics(s) -> EpicRows] /\ f[e] = row /\ \A x \in Epics(s) \ {e} : f[x] = s.epic[x]
    BY <1>2
<1>4. PatchedEpic(s, e, row) = twice
    <2>1. [s EXCEPT !.epic[e] = row] = r
        BY <1>1, StoreFacts
    <2> HIDE DEF r
    <2> QED BY <2>1 DEF PatchedEpic
<1> HIDE DEF f
<1>5. r = [epic |-> f, task |-> s.task, epics |-> s.epics, tasks |-> s.tasks]
    BY <1>1, NewTables
<1>6. r \in Stores /\ Epics(r) = Epics(s) /\ Tasks(r) = Tasks(s)
    <2> HIDE DEF r
    <2> QED BY <1>2, <1>3, <1>5, StoreOf
<1>7. /\ r.epic[e] = row /\ \A x \in Epics(s) \ {e} : r.epic[x] = s.epic[x]
      /\ r.task = s.task /\ r.epics = s.epics
    BY <1>3, <1>5
<1> HIDE DEF r
<1>8. Forest(r)
    <2>1. CASE row.parent \in {Root, old}
        BY <2>1, <1>1, <1>6, <1>7, <1>2 DEF Forest
    <2>2. CASE row.parent \in Epics(s) /\ ValidEpicParent(s, e, row.parent)
        BY <2>2, <1>1, <1>6, <1>7, SettingFacts, ValidParentKeepsForest
    <2> QED BY <2>1, <2>2
<1>9. old \in Nat /\ e \in Nat
    BY <1>1, <1>2 DEF Forest, Root
<1>10. Follows(s, r, {e, old, row.parent})
    <2>1. Fine(r)
        BY <1>6, <1>7, <1>8 DEF Fine, Sound, Tasks
    <2>2. Stale(r) \subseteq Stale(s) \cup {e, old, row.parent}
        BY <1>1, <1>6, <1>7, EpicChanged
    <2> QED BY <2>1, <2>2, <1>2, <1>6, <1>7 DEF Follows
<1> HIDE DEF old
<1>11. Follows(s, once, {old})
    <2> DEFINE es == {e, old, row.parent}
               fs == {old}
    <2>1. e \in Epics(r) /\ es \subseteq fs \cup {e, r.epic[e].parent}
        BY <1>6, <1>7
    <2>2. Follows(s, r, es)
        BY <1>10
    <2> HIDE DEF es, fs
    <2> QED BY <2>1, <2>2, <1>1, <1>9, ThenChain DEF fs
<1> HIDE DEF once
<1> DEFINE u == twice
<1>12. PatchedEpic(s, e, row) = u
    BY <1>4
<1> HIDE DEF u
<1>13. Patches(s, r, e, row)
    BY <1>6, <1>7, <1>8, <1>9, <1>11, <1>12 DEF Patches, old, once, u
<1> QED BY <1>13

(* A patch of an epic leaves none stale.                                   *)
LEMMA EpicPatched ==
    ASSUME treeSetting \in TreeSettings, NEW s, Fine(s), NEW e \in Epics(s), NEW row \in EpicRows,
           \/ row.parent \in {Root, s.epic[e].parent}
           \/ row.parent \in Epics(s) /\ ValidEpicParent(s, e, row.parent)
    PROVE  Follows(s, PatchedEpic(s, e, row), {})
<1>1. PICK r : Patches(s, r, e, row)
    BY RowPatched
<1> DEFINE old == s.epic[e].parent
           once == RecalculateEpicChain(r, e)
<1>2. /\ PatchedEpic(s, e, row) = RecalculateEpicChain(once, old)
      /\ old \in Nat /\ Follows(s, once, {old}) /\ s \in Stores
    BY <1>1 DEF Patches, Fine, Sound
<1> HIDE DEF old, once
<1>3. {old} \subseteq {} \cup {old}
    OBVIOUS
<1> QED BY <1>2, <1>3, ThenChain

(* The rows of a store are finitely many.                                  *)
LEMMA Finite ==
    ASSUME NEW s \in Stores
    PROVE  IsFiniteSet(Epics(s)) /\ IsFiniteSet(Tasks(s))
<1>1. /\ s.epics \in Int /\ s.tasks \in Int
      /\ Epics(s) \in SUBSET (1..s.epics) /\ Tasks(s) \in SUBSET (1..s.tasks)
    BY StoreFacts
<1>2. IsFiniteSet(1..s.epics) /\ IsFiniteSet(1..s.tasks)
    BY <1>1, FS_Interval
<1> QED BY <1>1, <1>2, FS_Subset

(* A function of finitely many values has finitely many.                   *)
LEMMA FiniteImage ==
    ASSUME NEW S, NEW f, IsFiniteSet(DOMAIN f), f = [x \in DOMAIN f |-> f[x]],
           NEW T \in SUBSET {f[x] : x \in DOMAIN f}
    PROVE  IsFiniteSet(T) /\ Cardinality(T) \in Nat
<1> DEFINE R == {f[x] : x \in DOMAIN f}
           D == DOMAIN f
<1>1. f \in [D -> R] /\ \A y \in R : \E x \in D : f[x] = y
    OBVIOUS
<1>2. f \in Surjection(D, R)
    BY <1>1 DEF Surjection
<1>3. IsFiniteSet(R)
    <2> HIDE DEF R
    <2> QED BY <1>2, FS_Surjection
<1>4. IsFiniteSet(T)
    BY <1>3, FS_Subset
<1> QED BY <1>4, FS_CardinalityType

(* The repositories to be grouped are finitely many.                       *)
LEMMA UngroupedFinite ==
    ASSUME NEW s \in Stores, NEW e
    PROVE  /\ Cardinality(Ungrouped(s, e)) \in Nat
           /\ Ungrouped(s, e) \subseteq Repos
<1> DEFINE f == [t \in TasksOf(s, e) |-> s.task[t].repo]
<1>1. DOMAIN f = TasksOf(s, e) /\ f = [x \in DOMAIN f |-> f[x]]
    OBVIOUS
<1>2. TasksOf(s, e) \in SUBSET Tasks(s)
    BY DEF TasksOf
<1>3. IsFiniteSet(DOMAIN f)
    BY <1>1, <1>2, Finite, FS_Subset
<1>4. Ungrouped(s, e) \in SUBSET {f[x] : x \in DOMAIN f}
    BY DEF Ungrouped
<1>5. Cardinality(Ungrouped(s, e)) \in Nat
    <2> HIDE DEF f
    <2> QED BY <1>1, <1>3, <1>4, FiniteImage
<1>6. Ungrouped(s, e) \subseteq Repos
    <2>1. \A t \in Tasks(s) : s.task[t].repo \in Repos
        BY StoreFacts DEF TaskRows
    <2> QED BY <2>1, <1>2 DEF Ungrouped
<1> QED BY <1>5, <1>6

(* A sub-epic for each repository that had none.                           *)
Grows(s, e, new, r) ==
    /\ Follows(s, r, {e}) /\ r.task = s.task
    /\ Epics(r) = Epics(s) \cup new
    /\ \A x \in Epics(s) : r.epic[x] = s.epic[x]
    /\ \A x \in new : x \notin Epics(s) /\ r.epic[x].parent = e

(* WithGroups adds them below the epic, and nothing else.                  *)
LEMMA GroupsAdded ==
    ASSUME NEW s, Fine(s), NEW e \in Epics(s), NEW drawn \in Drawn(s, e)
    PROVE  Grows(s, e, Range(drawn), WithGroups(s, e, drawn))
<1> DEFINE r == WithGroups(s, e, drawn)
           U == Ungrouped(s, e)
           count == Cardinality(U)
           ids == Epics(s) \cup Range(drawn)
           of(x) == CHOOSE u \in DOMAIN drawn : drawn[u] = x
           f == [x \in ids |-> IF x \in Epics(s) THEN s.epic[x] ELSE RepoGroup(e, of(x))]
<1>1. s \in Stores /\ Forest(s)
    BY DEF Fine, Sound
<1>2. /\ s.epic \in [Epics(s) -> EpicRows] /\ s.task \in [Tasks(s) -> TaskRows]
      /\ s.epics \in Nat /\ s.tasks \in Nat /\ Epics(s) \subseteq 1..s.epics
      /\ Tasks(s) \subseteq 1..s.tasks /\ Epics(s) \subseteq Nat
    BY <1>1, StoreFacts
<1>3. count \in Nat /\ U \subseteq Repos
    BY <1>1, UngroupedFinite
<1> HIDE DEF U, count
<1>4. drawn \in [U -> s.epics + 1 .. s.epics + count]
    BY DEF Drawn, Bijection, Injection, U, count
<1>5. Range(drawn) \subseteq s.epics + 1 .. s.epics + count /\ DOMAIN drawn = U
    BY <1>4 DEF Range
<1>6. ids \subseteq 1..(s.epics + count) /\ s.epics + count \in Nat /\ \A x \in Range(drawn) : x \notin Epics(s)
    <2>1. \A x \in Range(drawn) : x \in Int /\ x > s.epics /\ x <= s.epics + count
        BY <1>2, <1>3, <1>5
    <2>2. \A x \in Epics(s) : x \in Int /\ x >= 1 /\ x <= s.epics
        BY <1>2
    <2> QED BY <2>1, <2>2, <1>2, <1>3
<1>7. \A x \in Range(drawn) : of(x) \in Repos
    <2> TAKE x \in Range(drawn)
    <2>1. \E u \in DOMAIN drawn : drawn[u] = x
        BY DEF Range
    <2> QED BY <2>1, <1>3, <1>5
<1> HIDE DEF of
<1>8. \A x \in Range(drawn) : f[x] = RepoGroup(e, of(x)) /\ f[x] \in EpicRows /\ f[x].parent = e
    <2> TAKE x \in Range(drawn)
    <2>1. f[x] = RepoGroup(e, of(x))
        BY <1>6
    <2> HIDE DEF f
    <2> QED BY <2>1, <1>2, <1>7 DEF RepoGroup, NewEpic, EpicRows, Status
<1>9. \A x \in Epics(s) : f[x] = s.epic[x]
    OBVIOUS
<1>10. f \in [ids -> EpicRows]
    <2>1. \A x \in ids : f[x] \in EpicRows
        BY <1>2, <1>8, <1>9
    <2>2. f = [x \in ids |-> f[x]]
        OBVIOUS
    <2> HIDE DEF f, ids
    <2> QED BY <2>1, <2>2
<1>11. r = [epic |-> f, task |-> s.task, epics |-> s.epics + count, tasks |-> s.tasks]
    <2>1. s = [epic |-> s.epic, task |-> s.task, epics |-> s.epics, tasks |-> s.tasks]
        BY <1>1, StoreFacts
    <2>2. r = [s EXCEPT !.epics = s.epics + count, !.epic = f]
        BY <1>5 DEF WithGroups, of, count
    <2> HIDE DEF f, r
    <2> QED BY <2>1, <2>2
<1>12. /\ r.epic = f /\ r.task = s.task /\ r.epics = s.epics + count /\ r.tasks = s.tasks
       /\ r = [epic |-> r.epic, task |-> r.task, epics |-> r.epics, tasks |-> r.tasks]
    BY <1>11
<1> HIDE DEF f, r
<1>13. r \in Stores /\ Epics(r) = ids
    <2> HIDE DEF ids
    <2>1. Epics(r) = ids /\ Tasks(r) = Tasks(s)
        BY <1>10, <1>12 DEF Epics, Tasks
    <2> QED BY <2>1, <1>2, <1>6, <1>10, <1>12, StoreIs
<1>14. Follows(s, r, {e}) /\ Sound(r)
    <2>1. /\ Sound(r)
          /\ Stale(r) \subseteq Stale(s) \cup {r.epic[x].parent : x \in Epics(r) \ Epics(s)}
        BY <1>1, <1>8, <1>9, <1>12, <1>13, EpicsAdded
    <2>2. {r.epic[x].parent : x \in Epics(r) \ Epics(s)} \subseteq {e}
        BY <1>8, <1>12, <1>13
    <2>3. Fine(r)
        BY <2>1, <1>12 DEF Fine, Tasks
    <2> QED BY <2>1, <2>2, <2>3, <1>2, <1>3, <1>12 DEF Follows, Tasks
<1> QED BY <1>6, <1>8, <1>9, <1>12, <1>13, <1>14 DEF r, Grows

(* A regrouping files every task below the epic and leaves none stale.     *)
LEMMA TasksRegrouped ==
    ASSUME treeSetting \in TreeSettings, NEW s, Fine(s), NEW e \in Epics(s), NEW drawn \in Drawn(s, e)
    PROVE  Follows(s, Regrouped(s, e, drawn), {})
<1> DEFINE group(r) == IF r \in DOMAIN drawn THEN drawn[r] ELSE Min(RepoGroups(s, e, r))
           ts == TasksOf(s, e)
           home == [t \in ts |-> group(s.task[t].repo)]
           joined == Range(home)
           g == WithGroups(s, e, drawn)
           moved == Relink(g, home)
           f == [x \in Epics(moved) |-> IF x \in joined THEN RecalculateOne(moved, x).epic[x]
                                        ELSE moved.epic[x]]
           rolled == [moved EXCEPT !.epic = f]
<1>1. s \in Stores /\ Forest(s) /\ e \in Nat /\ Epics(s) \subseteq Nat /\ ts \subseteq Tasks(s)
    BY StoreFacts DEF Fine, Sound, TasksOf
<1>2. /\ Follows(s, g, {e}) /\ g.task = s.task
      /\ Epics(g) = Epics(s) \cup Range(drawn)
      /\ \A x \in Epics(s) : g.epic[x] = s.epic[x]
      /\ \A x \in Range(drawn) : x \notin Epics(s) /\ g.epic[x].parent = e
    <2>1. Grows(s, e, Range(drawn), g)
        BY GroupsAdded
    <2> HIDE DEF g
    <2> QED BY <2>1 DEF Grows
<1>3. Regrouped(s, e, drawn) = RecalculateEpicChain(rolled, e)
    BY DEF Regrouped
<1> HIDE DEF g
<1>4. Fine(g) /\ g \in Stores /\ Forest(g) /\ Tasks(g) = Tasks(s)
    BY <1>2 DEF Follows, Fine, Sound, Tasks
<1>5. DOMAIN drawn = Ungrouped(s, e)
    BY DEF Drawn, Bijection, Injection
<1>6. \A t \in ts : home[t] \in Epics(g) /\ g.epic[home[t]].parent = e
    <2> TAKE t \in ts
    <2> DEFINE r == s.task[t].repo
    <2>1. home[t] = group(r)
        OBVIOUS
    <2>2. CASE r \in DOMAIN drawn
        <3>1. group(r) = drawn[r] /\ drawn[r] \in Range(drawn)
            BY <2>2 DEF Range
        <3> HIDE DEF home, group, r
        <3> QED BY <2>1, <3>1, <1>2
    <2>3. CASE r \notin DOMAIN drawn
        <3> DEFINE all == RepoGroups(s, e, r)
                   m == Min(all)
        <3>1. all # {}
            BY <2>3, <1>5 DEF Ungrouped
        <3>2. all \in SUBSET Nat
            BY <1>1 DEF RepoGroups, SubEpics
        <3>3. m \in all
            <4> HIDE DEF all
            <4> QED BY <3>1, <3>2, MinFacts
        <3>4. home[t] = m
            BY <2>1, <2>3
        <3> HIDE DEF home, group, m
        <3>5. m \in Epics(s) /\ s.epic[m].parent = e
            BY <3>3 DEF RepoGroups, SubEpics
        <3> QED BY <3>4, <3>5, <1>2
    <2> QED BY <2>2, <2>3
<1>7. DOMAIN home = ts /\ home = [t \in ts |-> home[t]]
    OBVIOUS
<1> HIDE DEF home, group
<1>8. joined \subseteq Epics(g) /\ \A x \in joined : g.epic[x].parent = e
    BY <1>6, <1>7 DEF Range
<1>9. \A t \in ts : home[t] \in joined
    BY <1>7 DEF Range
<1> HIDE DEF joined
<1>10. Follows(s, moved, {e} \cup joined) /\ moved.epic = g.epic
    <2> DEFINE es == {e} \cup joined
    <2>1. \A t \in ts : g.task[t].epic \in es /\ home[t] \in es
        BY <1>2, <1>9 DEF TasksOf
    <2>2. home \in [ts -> Epics(g) \cup {Root}] /\ ts \in SUBSET Tasks(g)
        BY <1>1, <1>4, <1>6, <1>7
    <2> HIDE DEF es, ts
    <2>3. Follows(g, moved, es) /\ moved.epic = g.epic
        BY <2>1, <2>2, <1>4, Relinked
    <2> HIDE DEF moved
    <2>4. Follows(s, moved, {e} \cup es)
        BY <2>3, <1>1, <1>2, FollowsOn
    <2>5. {e} \cup es = {e} \cup joined
        BY DEF es
    <2> QED BY <2>3, <2>4, <2>5
<1> HIDE DEF moved, ts
<1>11. /\ moved \in Stores /\ Forest(moved) /\ Epics(moved) = Epics(g)
       /\ joined \in SUBSET Epics(moved) /\ \A x \in joined : moved.epic[x].parent = e
    BY <1>8, <1>10 DEF Follows, Fine, Sound, Epics
<1>12. e \notin joined
    <2>1. e \in Epics(moved)
        BY <1>2, <1>11
    <2>2. moved.epic[e].parent # e
        BY <2>1, <1>11, NotItsOwnParent
    <2> QED BY <2>2, <1>11
<1>13. /\ moved.epic \in [Epics(moved) -> EpicRows] /\ moved.task \in [Tasks(moved) -> TaskRows]
       /\ moved.epics \in Nat /\ moved.tasks \in Nat
       /\ Epics(moved) \subseteq 1..moved.epics /\ Tasks(moved) \subseteq 1..moved.tasks
    BY <1>11, StoreFacts
<1>14. ASSUME NEW x \in joined
       PROVE  /\ f[x] \in EpicRows /\ f[x].parent = moved.epic[x].parent
              /\ f[x].group = moved.epic[x].group /\ f[x].grouped = moved.epic[x].grouped
              /\ f[x].status = DeriveEpicStatus(moved.epic[x].status, ChildStatuses(moved, x))
    <2> DEFINE one == RecalculateOne(moved, x)
    <2>1. x \in Epics(moved) /\ f[x] = one.epic[x]
        BY <1>11
    <2>2. one \in Stores /\ SameShape(moved, one)
        BY <2>1, <1>11, OneRolledUp
    <2>3. one.epic[x].status = DeriveEpicStatus(moved.epic[x].status, ChildStatuses(moved, x))
        BY <2>1, <1>11, <1>13, StoreFacts DEF RecalculateOne, EpicRows
    <2> HIDE DEF one, f
    <2>4. one.epic[x] \in EpicRows
        BY <2>1, <2>2, StoreFacts DEF SameShape
    <2> QED BY <2>1, <2>2, <2>3, <2>4 DEF SameShape
<1>15. \A x \in Epics(moved) \ joined : f[x] = moved.epic[x]
    OBVIOUS
<1>16. f = [x \in Epics(moved) |-> f[x]]
    OBVIOUS
<1>17. rolled = [epic |-> f, task |-> moved.task, epics |-> moved.epics, tasks |-> moved.tasks]
    <2> HIDE DEF f
    <2> QED BY <1>11, NewTables
<1> HIDE DEF f
<1>18. /\ rolled.epic = f /\ rolled.task = moved.task /\ rolled.epics = moved.epics
       /\ rolled.tasks = moved.tasks
       /\ rolled = [epic |-> rolled.epic, task |-> rolled.task, epics |-> rolled.epics, tasks |-> rolled.tasks]
    BY <1>17
<1> HIDE DEF rolled
<1>19. rolled \in Stores /\ SameShape(moved, rolled)
    <2>1. \A x \in Epics(moved) : f[x] \in EpicRows
        BY <1>13, <1>14, <1>15
    <2>2. f \in [Epics(moved) -> EpicRows]
        BY <2>1, <1>16
    <2>3. Epics(rolled) = Epics(moved) /\ Tasks(rolled) = Tasks(moved)
        BY <1>16, <1>18 DEF Epics, Tasks
    <2>4. rolled \in Stores
        BY <2>2, <2>3, <1>13, <1>18, StoreIs
    <2> QED BY <2>3, <2>4, <1>14, <1>15, <1>18 DEF SameShape
<1>20. Stale(rolled) \subseteq (Stale(moved) \ joined) \cup {e}
    <2>1. Stale(rolled) \subseteq (Stale(moved) \ joined) \cup {moved.epic[x].parent : x \in joined}
        BY <1>11, <1>12, <1>14, <1>15, <1>18, <1>19, Settles
    <2> QED BY <2>1, <1>11
<1>21. Follows(s, rolled, {e})
    <2>1. Forest(rolled)
        BY <1>11, <1>19, ShapeKeepsForest
    <2>2. Fine(rolled)
        BY <2>1, <1>10, <1>18, <1>19 DEF Fine, Sound, Follows, Tasks
    <2> QED BY <2>2, <1>10, <1>18, <1>20 DEF Follows, Tasks
<1>22. {e} \subseteq {} \cup {e}
    OBVIOUS
<1>23. Follows(s, RecalculateEpicChain(rolled, e), {})
    BY <1>1, <1>21, <1>22, ThenChain
<1> QED BY <1>3, <1>23

(* A flattening under way: only sub-epics have gone.                       *)
Flattens(s, e, r) ==
    /\ Follows(s, r, {e}) /\ e \in Epics(r) /\ Epics(r) \subseteq Epics(s)
    /\ \A x \in Epics(r) : r.epic[x].parent = s.epic[x].parent /\ r.epic[x].group = s.epic[x].group

(* One more sub-epic is flattened.                                         *)
LEMMA GroupFlattened ==
    ASSUME treeSetting \in TreeSettings, NEW s, Fine(s), NEW e \in Epics(s),
           NEW sub \in RepoGroupsOf(s, e), NEW r, Flattens(s, e, r)
    PROVE  Flattens(s, e, FlattenOne(r, e, sub))
<1> DEFINE ts == TasksOf(r, sub)
           home == [t \in ts |-> e]
           moved == Relink(r, home)
           u == DeleteIfEmptyRepoGroup(moved, sub)
<1>1. s \in Stores /\ Forest(s) /\ r \in Stores /\ Forest(r) /\ Fine(r) /\ Follows(s, r, {e})
    BY DEF Fine, Sound, Flattens, Follows
<1>2. /\ sub \in Epics(s) /\ s.epic[sub].parent = e /\ s.epic[sub].group # NoRepo
      /\ e \in Epics(r) /\ e # sub /\ sub # Root
    <2>1. sub \in Epics(s) /\ s.epic[sub].parent = e /\ s.epic[sub].group # NoRepo
        BY DEF RepoGroupsOf, SubEpics
    <2> QED BY <2>1, <1>1, NotItsOwnParent, StoreFacts DEF Flattens
<1>3. FlattenOne(r, e, sub) = u
    BY DEF FlattenOne
<1>4. ts \in SUBSET Tasks(r) /\ home \in [ts -> Epics(r) \cup {Root}] /\ \A t \in ts : home[t] = e
    BY <1>2 DEF TasksOf
<1>5. \A t \in ts : r.task[t].epic = sub
    BY DEF TasksOf
<1> HIDE DEF home
<1>6. CASE sub \in Epics(r)
    <2> DEFINE es == {sub, e}
    <2>1. Follows(r, moved, es) /\ moved.epic = r.epic
        <3>1. \A t \in ts : r.task[t].epic \in es /\ home[t] \in es
            BY <1>4, <1>5
        <3> HIDE DEF es, ts
        <3> QED BY <3>1, <1>1, <1>4, Relinked
    <2> HIDE DEF moved, es
    <2>2. Follows(s, moved, {e} \cup es)
        BY <2>1, <1>1, FollowsOn
    <2> DEFINE fs == {e}
               all == {e} \cup es
    <2>3. all \subseteq fs \cup {sub} /\ Follows(s, moved, all)
        BY <2>2 DEF es
    <2>4. /\ sub \in Epics(moved) /\ moved.epic[sub].group # NoRepo
          /\ moved.epic[sub].parent \in fs
        BY <2>1, <1>2, <1>6 DEF Epics, Flattens
    <2> HIDE DEF all, fs
    <2>5. CleansUp(s, moved, sub, fs, u)
        BY <2>3, <2>4, <1>1, GroupCleanedUp
    <2> HIDE DEF u
    <2> QED BY <2>1, <2>5, <1>2, <1>3 DEF CleansUp, Flattens, Epics, fs
<1>7. CASE sub \notin Epics(r)
    <2>1. ts = {}
        BY <1>1, <1>2, <1>7 DEF TasksOf, Forest
    <2> DEFINE es == {}
    <2>2. Follows(r, moved, es) /\ moved.epic = r.epic
        <3>1. \A t \in ts : r.task[t].epic \in es /\ home[t] \in es
            BY <2>1
        <3> HIDE DEF es, ts
        <3> QED BY <3>1, <1>1, <1>4, Relinked
    <2>3. u = moved
        BY <2>2, <1>7 DEF DeleteIfEmptyRepoGroup, Epics
    <2> HIDE DEF moved, u
    <2>4. Follows(s, moved, {e} \cup {})
        BY <2>2, <1>1, FollowsOn
    <2>5. {e} \cup {} = {e}
        OBVIOUS
    <2> QED BY <2>2, <2>3, <2>4, <2>5, <1>3 DEF Flattens, Epics
<1> QED BY <1>6, <1>7

(* How often a reducer that takes the members of a set goes round.         *)
LEMMA OrderFacts ==
    ASSUME NEW S, IsFiniteSet(S), NEW order \in Orders(S)
    PROVE  LET n == Cardinality(DOMAIN order)
           IN  n \in Nat /\ DOMAIN order = 1..n /\ order \in [1..n -> S]
               /\ \A x \in S : \E k \in 1..n : order[k] = x
<1> DEFINE n == Cardinality(S)
<1>1. n \in Nat
    BY FS_CardinalityType
<1>2. order \in [1..n -> S] /\ \A x \in S : \E k \in 1..n : order[k] = x
    <2> HIDE DEF n
    <2> QED BY DEF Orders, Bijection, Injection, Surjection, n
<1>3. DOMAIN order = 1..n
    BY <1>2
<1>4. Cardinality(1..n) = n
    <2> HIDE DEF n
    <2> QED BY <1>1, FS_Interval
<1> QED BY <1>1, <1>2, <1>3, <1>4

(* A loop that keeps its state in a set.                                   *)
Loop(w, a, n, F) == w = [k \in 0..n |-> IF k = 0 THEN a ELSE F[k - 1][w[k - 1]]]

(* There always is such a loop.                                            *)
LEMMA Rounds ==
    ASSUME NEW X, NEW a \in X, NEW n \in Nat, NEW F \in [Nat -> [X -> X]]
    PROVE  \E w \in [0..n -> X] : Loop(w, a, n, F)
<1>1. PICK v \in [Nat -> X] : Sequel(v, a, F)
    BY Recursion
<1>2. v[0] = a /\ \A k \in Nat : v[k + 1] = F[k][v[k]]
    BY <1>1 DEF Sequel
<1> DEFINE w == [k \in 0..n |-> v[k]]
<1>3. w \in [0..n -> X] /\ \A k \in 0..n : w[k] = v[k]
    OBVIOUS
<1>4. \A k \in 0..n : w[k] = IF k = 0 THEN a ELSE F[k - 1][w[k - 1]]
    <2> TAKE k \in 0..n
    <2> HIDE DEF w
    <2>1. CASE k = 0
        BY <2>1, <1>2, <1>3
    <2>2. CASE k # 0
        <3>1. k - 1 \in Nat /\ k - 1 \in 0..n /\ (k - 1) + 1 = k
            BY <2>2
        <3>2. v[k] = F[k - 1][v[k - 1]]
            BY <3>1, <1>2
        <3> QED BY <2>2, <3>1, <3>2, <1>3
    <2> QED BY <2>1, <2>2
<1>5. w = [k \in 0..n |-> w[k]]
    OBVIOUS
<1> HIDE DEF w
<1>6. w = [k \in 0..n |-> IF k = 0 THEN a ELSE F[k - 1][w[k - 1]]]
    BY <1>4, <1>5
<1> QED BY <1>3, <1>6 DEF Loop

(* Nor does a flattening, in whichever order it takes the sub-epics.       *)
LEMMA TasksFlattened ==
    ASSUME treeSetting \in TreeSettings, NEW s, Fine(s), NEW e \in Epics(s),
           NEW order \in Orders(RepoGroupsOf(s, e))
    PROVE  Follows(s, FlattenedTree(s, e, order), {})
<1> DEFINE n == Cardinality(DOMAIN order)
           run == CHOOSE g : g = [k \in 0..n |-> IF k = 0 THEN s ELSE FlattenOne(g[k - 1], e, order[k])]
           X == {x \in Stores : Flattens(s, e, x)}
           F == [k \in Nat |-> [x \in X |-> IF k + 1 \in 1..n THEN FlattenOne(x, e, order[k + 1]) ELSE x]]
<1>1. s \in Stores /\ e \in Nat
    BY StoreFacts DEF Fine, Sound
<1>2. n \in Nat /\ order \in [1..n -> RepoGroupsOf(s, e)]
    <2>1. RepoGroupsOf(s, e) \in SUBSET Epics(s)
        BY DEF RepoGroupsOf, SubEpics
    <2>2. IsFiniteSet(RepoGroupsOf(s, e))
        BY <2>1, <1>1, Finite, FS_Subset
    <2> QED BY <2>2, OrderFacts
<1>3. FlattenedTree(s, e, order) = RecalculateEpicChain(run[n], e)
    BY DEF FlattenedTree
<1> HIDE DEF n
<1>4. s \in X
    <2>1. Follows(s, s, {e})
        BY FollowsItself, FollowsLess
    <2> QED BY <2>1, <1>1 DEF Flattens
<1>5. ASSUME NEW x \in X, NEW k \in 1..n PROVE FlattenOne(x, e, order[k]) \in X
    <2>1. order[k] \in RepoGroupsOf(s, e) /\ Flattens(s, e, x)
        BY <1>2
    <2>2. Flattens(s, e, FlattenOne(x, e, order[k]))
        BY <2>1, GroupFlattened
    <2> QED BY <2>2 DEF Flattens, Follows, Fine, Sound
<1> HIDE DEF X
<1>6. F \in [Nat -> [X -> X]]
    BY <1>5
<1>7. \A k \in Nat : \A x \in X : k + 1 \in 1..n => F[k][x] = FlattenOne(x, e, order[k + 1])
    OBVIOUS
<1> HIDE DEF F
<1>8. PICK w \in [0..n -> X] : w = [k \in 0..n |-> IF k = 0 THEN s ELSE F[k - 1][w[k - 1]]]
    <2>1. \E w \in [0..n -> X] : Loop(w, s, n, F)
        BY <1>2, <1>4, <1>6, Rounds
    <2> QED BY <2>1 DEF Loop
<1>9. w = [k \in 0..n |-> IF k = 0 THEN s ELSE FlattenOne(w[k - 1], e, order[k])]
    <2>1. \A k \in 0..n : w[k] = IF k = 0 THEN s ELSE FlattenOne(w[k - 1], e, order[k])
        <3> TAKE k \in 0..n
        <3>1. CASE k = 0
            BY <3>1, <1>8
        <3>2. CASE k # 0
            <4>1. k - 1 \in Nat /\ k - 1 \in 0..n /\ (k - 1) + 1 = k /\ k \in 1..n
                BY <3>2, <1>2
            <4>2. w[k] = F[k - 1][w[k - 1]] /\ w[k - 1] \in X
                BY <3>2, <4>1, <1>8
            <4> QED BY <3>2, <4>1, <4>2, <1>7
        <3> QED BY <3>1, <3>2
    <2>2. w = [k \in 0..n |-> w[k]]
        OBVIOUS
    <2> QED BY <2>1, <2>2
<1>10. run = [k \in 0..n |-> IF k = 0 THEN s ELSE FlattenOne(run[k - 1], e, order[k])]
    BY <1>9
<1> HIDE DEF run
<1>11. run[n] \in X
    <2> DEFINE In == {k \in Nat : k \in 0..n => run[k] \in X}
    <2>1. 0 \in In
        BY <1>2, <1>4, <1>10
    <2>2. ASSUME NEW k \in Nat, k \in In PROVE k + 1 \in In
        <3> SUFFICES ASSUME k + 1 \in 0..n PROVE run[k + 1] \in X
            OBVIOUS
        <3>1. k \in 0..n /\ k + 1 \in 1..n /\ (k + 1) - 1 = k /\ k + 1 # 0
            BY <1>2
        <3>2. run[k + 1] = FlattenOne(run[k], e, order[k + 1]) /\ run[k] \in X
            BY <3>1, <2>2, <1>10
        <3> QED BY <3>1, <3>2, <1>5
    <2>3. n \in In
        <3> HIDE DEF In
        <3> QED BY <2>1, <2>2, <1>2, Induction
    <2> QED BY <2>3, <1>2
<1>12. Follows(s, run[n], {e}) /\ {e} \subseteq {} \cup {e}
    BY <1>11 DEF X, Flattens
<1>13. Follows(s, RecalculateEpicChain(run[n], e), {})
    BY <1>1, <1>12, ThenChain
<1> QED BY <1>3, <1>13

(* Chains from all of a set, in whichever order, leave none of it stale.   *)
Chained(s, done, r) ==
    /\ r \in Stores /\ SameShape(s, r)
    /\ s.epics <= MaxEpicDepth => Stale(r) \subseteq Stale(s) \ done
    /\ NoneTooEarly(s) => NoneTooEarly(r) /\ Raises(s, r)

(* RecalculateAll, by its rounds.                                          *)
LEMMA AllRecalculated ==
    ASSUME treeSetting \in TreeSettings, NEW s, Sound(s), NEW es \in SUBSET Nat, IsFiniteSet(es),
           NEW order \in Orders(es)
    PROVE  Chained(s, es, RecalculateAll(s, order))
<1> DEFINE n == Cardinality(DOMAIN order)
           run == CHOOSE g : g = [k \in 0..n |-> IF k = 0 THEN s
                                                 ELSE RecalculateEpicChain(g[k - 1], order[k])]
           X == {x \in Stores : Forest(x) /\ SameShape(s, x)}
           F == [k \in Nat |-> [x \in X |-> IF k + 1 \in 1..n THEN RecalculateEpicChain(x, order[k + 1])
                                            ELSE x]]
           first(k) == {order[i] : i \in 1..k}
<1>1. s \in Stores /\ Forest(s) /\ MaxEpicDepth \in Nat
    BY SettingFacts DEF Sound
<1>2. n \in Nat /\ order \in [1..n -> es] /\ \A x \in es : \E k \in 1..n : order[k] = x
    BY OrderFacts
<1>3. RecalculateAll(s, order) = run[n]
    BY DEF RecalculateAll
<1> HIDE DEF n
<1>4. s \in X
    BY <1>1 DEF SameShape
<1>5. ASSUME NEW x \in X, NEW k \in 1..n
      PROVE  LET u == RecalculateEpicChain(x, order[k])
             IN  /\ u \in X
                 /\ s.epics <= MaxEpicDepth => Stale(u) \subseteq Stale(x) \ {order[k]}
                 /\ NoneTooEarly(x) => NoneTooEarly(u) /\ Raises(x, u)
    <2> DEFINE u == RecalculateEpicChain(x, order[k])
    <2>1. order[k] \in Nat /\ x \in Stores /\ Forest(x) /\ SameShape(s, x) /\ x.epics = s.epics
        BY <1>2 DEF SameShape
    <2>2. u \in Stores /\ SameShape(x, u)
        BY <2>1, <1>1, ChainKeepsShape
    <2>3. s.epics <= MaxEpicDepth => Stale(u) \subseteq Stale(x) \ {order[k]}
        BY <2>1, <1>1, ChainSettles
    <2>6. NoneTooEarly(x) => NoneTooEarly(u) /\ Raises(x, u)
        BY <2>1, <1>1, ChainRaises
    <2> HIDE DEF u
    <2>4. Forest(u)
        BY <2>1, <2>2, ShapeKeepsForest
    <2>5. SameShape(s, u)
        BY <2>1, <2>2 DEF SameShape
    <2> QED BY <2>2, <2>3, <2>4, <2>5, <2>6 DEF u
<1>5a. \A x \in X : Epics(x) = Epics(s)
    BY DEF SameShape
<1> HIDE DEF X
<1>6. F \in [Nat -> [X -> X]]
    BY <1>5
<1>7. \A k \in Nat : \A x \in X : k + 1 \in 1..n => F[k][x] = RecalculateEpicChain(x, order[k + 1])
    OBVIOUS
<1> HIDE DEF F
<1>8. PICK w \in [0..n -> X] : w = [k \in 0..n |-> IF k = 0 THEN s ELSE F[k - 1][w[k - 1]]]
    <2>1. \E w \in [0..n -> X] : Loop(w, s, n, F)
        BY <1>2, <1>4, <1>6, Rounds
    <2> QED BY <2>1 DEF Loop
<1>9. w = [k \in 0..n |-> IF k = 0 THEN s ELSE RecalculateEpicChain(w[k - 1], order[k])]
    <2>1. \A k \in 0..n : w[k] = IF k = 0 THEN s ELSE RecalculateEpicChain(w[k - 1], order[k])
        <3> TAKE k \in 0..n
        <3>1. CASE k = 0
            BY <3>1, <1>8
        <3>2. CASE k # 0
            <4>1. k - 1 \in Nat /\ k - 1 \in 0..n /\ (k - 1) + 1 = k /\ k \in 1..n
                BY <3>2, <1>2
            <4>2. w[k] = F[k - 1][w[k - 1]] /\ w[k - 1] \in X
                BY <3>2, <4>1, <1>8
            <4> QED BY <3>2, <4>1, <4>2, <1>7
        <3> QED BY <3>1, <3>2
    <2>2. w = [k \in 0..n |-> w[k]]
        OBVIOUS
    <2> QED BY <2>1, <2>2
<1>10. run = [k \in 0..n |-> IF k = 0 THEN s ELSE RecalculateEpicChain(run[k - 1], order[k])]
    BY <1>9
<1> HIDE DEF run
<1> DEFINE Ok(k) == /\ run[k] \in X
                    /\ s.epics <= MaxEpicDepth => Stale(run[k]) \subseteq Stale(s) \ first(k)
                    /\ NoneTooEarly(s) => NoneTooEarly(run[k]) /\ Raises(s, run[k])
<1>11. Ok(n)
    <2> DEFINE In == {k \in Nat : k \in 0..n => Ok(k)}
    <2>1. 0 \in In
        <3>1. run[0] = s /\ first(0) = {}
            BY <1>2, <1>10
        <3>2. Raises(s, s)
            BY DEF Raises
        <3> QED BY <3>1, <3>2, <1>4
    <2>2. ASSUME NEW k \in Nat, k \in In PROVE k + 1 \in In
        <3> SUFFICES ASSUME k + 1 \in 0..n PROVE Ok(k + 1)
            OBVIOUS
        <3>1. k \in 0..n /\ k + 1 \in 1..n /\ (k + 1) - 1 = k /\ k + 1 # 0
            BY <1>2
        <3>2. run[k + 1] = RecalculateEpicChain(run[k], order[k + 1]) /\ Ok(k)
            BY <3>1, <2>2, <1>10
        <3>3. first(k + 1) \subseteq first(k) \cup {order[k + 1]}
            <4> SUFFICES ASSUME NEW i \in 1..(k + 1) PROVE i \in 1..k \/ i = k + 1
                OBVIOUS
            <4> QED OBVIOUS
        <3> HIDE DEF first
        <3>4. /\ run[k + 1] \in X
              /\ s.epics <= MaxEpicDepth => Stale(run[k + 1]) \subseteq Stale(run[k]) \ {order[k + 1]}
              /\ NoneTooEarly(run[k]) => NoneTooEarly(run[k + 1]) /\ Raises(run[k], run[k + 1])
            <4> DEFINE x == run[k]
                       j == k + 1
            <4>1. x \in X /\ j \in 1..n /\ run[j] = RecalculateEpicChain(x, order[j])
                BY <3>1, <3>2
            <4> HIDE DEF x, j
            <4>2. /\ run[j] \in X
                  /\ s.epics <= MaxEpicDepth => Stale(run[j]) \subseteq Stale(x) \ {order[j]}
                  /\ NoneTooEarly(x) => NoneTooEarly(run[j]) /\ Raises(x, run[j])
                BY <4>1, <1>5
            <4> QED BY <4>2 DEF x, j
        <3>5. NoneTooEarly(s) => NoneTooEarly(run[k + 1]) /\ Raises(s, run[k + 1])
            BY <3>2, <3>4, <1>5a, RaisedOn
        <3> QED BY <3>2, <3>3, <3>4, <3>5
    <2>3. n \in In
        <3> HIDE DEF In
        <3> QED BY <2>1, <2>2, <1>2, Induction
    <2> QED BY <2>3, <1>2
<1>12. es \subseteq first(n)
    BY <1>2
<1> HIDE DEF first
<1> QED BY <1>3, <1>11, <1>12 DEF X, Chained

(* All that a delete reaches has been judged: the walk that judges ends    *)
(* below the last of the epics, for no level is empty before it.           *)
LEMMA DoomedIsJudged ==
    ASSUME NEW s \in Stores, NEW e \in Epics(s), MaxEpicDepth \in Nat
    PROVE  Doomed(s, e) \subseteq SubtreeIds(s, e)
<1> DEFINE size == Cardinality(Epics(s))
<1>1. PICK l : Descends(l, s, e)
    BY LevelsDescend
<1>2. size \in Nat /\ IsFiniteSet(Epics(s))
    BY Finite, FS_CardinalityType
<1> HIDE DEF size
<1>3. Doomed(s, e) = l[MaxEpicDepth].seen /\ SubtreeIds(s, e) = l[size].seen
    BY <1>1, <1>2 DEF Descends, Doomed, SubtreeIds, size
<1>4. \A k \in Nat : /\ l[k].at \subseteq l[k].seen /\ l[k].seen \subseteq Epics(s) /\ e \in l[k].seen
                     /\ \A x \in l[k].seen \ l[k].at : SubEpics(s, x) \subseteq l[k].seen
    BY <1>1, LevelsFacts
<1> DEFINE next(k) == {c \in Epics(s) : s.epic[c].parent \in l[k].at} \ l[k].seen
<1>5. ASSUME NEW k \in Nat PROVE l[k + 1].at = next(k) /\ l[k + 1].seen = l[k].seen \cup next(k)
    <2>1. l[k + 1] = OneLevelDown(s, l[k])
        BY <1>1 DEF Descends
    <2> QED BY <2>1 DEF OneLevelDown
<1>6. l[0] = [at |-> {e}, seen |-> {e}]
    BY <1>1 DEF Descends
<1>7. \A k \in Nat : IsFiniteSet(l[k].seen) /\ Cardinality(l[k].seen) \in Nat /\ Cardinality(l[k].seen) <= size
    <2> TAKE k \in Nat
    <2>1. l[k].seen \in SUBSET Epics(s)
        BY <1>4
    <2> QED BY <2>1, <1>2, FS_Subset, FS_CardinalityType DEF size
<1>8. l[size].at = {}
    <2> DEFINE In == {k \in Nat : l[k].at = {} \/ Cardinality(l[k].seen) >= k + 1}
    <2>1. 0 \in In
        BY <1>6, FS_Singleton
    <2>2. ASSUME NEW k \in Nat, k \in In PROVE k + 1 \in In
        <3>0. l[k + 1].at = next(k) /\ l[k + 1].seen = l[k].seen \cup next(k)
            BY <1>5
        <3> SUFFICES ASSUME next(k) # {} PROVE Cardinality(l[k + 1].seen) >= (k + 1) + 1
            <4> HIDE DEF next
            <4> QED BY <3>0
        <3>1. PICK c \in next(k) : TRUE
            OBVIOUS
        <3>2. c \notin l[k].seen /\ l[k].at # {} /\ l[k].seen \cup {c} \subseteq l[k + 1].seen
            BY <3>1, <3>0
        <3>3. Cardinality(l[k].seen) >= k + 1
            BY <3>2, <2>2
        <3>4. Cardinality(l[k].seen \cup {c}) = Cardinality(l[k].seen) + 1
            BY <3>2, <1>7, FS_AddElement
        <3>5. Cardinality(l[k].seen \cup {c}) <= Cardinality(l[k + 1].seen)
            <4>1. k + 1 \in Nat
                OBVIOUS
            <4>2. IsFiniteSet(l[k + 1].seen)
                BY <4>1, <1>7
            <4> QED BY <4>2, <3>2, FS_Subset
        <3>6. Cardinality(l[k].seen) \in Nat /\ Cardinality(l[k + 1].seen) \in Nat
            BY <1>7
        <3> HIDE DEF next
        <3> QED BY <3>3, <3>4, <3>5, <3>6
    <2>3. size \in In
        <3> HIDE DEF In
        <3> QED BY <2>1, <2>2, <1>2, Induction
    <2> QED BY <2>3, <1>2, <1>7
<1>9. \A x \in l[size].seen : SubEpics(s, x) \subseteq l[size].seen
    BY <1>2, <1>4, <1>8
<1>10. l[MaxEpicDepth].seen \subseteq l[size].seen
    <2> DEFINE In == {k \in Nat : l[k].seen \subseteq l[size].seen}
    <2>1. 0 \in In
        BY <1>2, <1>4, <1>6
    <2>2. ASSUME NEW k \in Nat, k \in In PROVE k + 1 \in In
        BY <2>2, <1>4, <1>5, <1>9 DEF SubEpics
    <2>3. MaxEpicDepth \in In
        <3> HIDE DEF In
        <3> QED BY <2>1, <2>2, Induction
    <2> QED BY <2>3
<1> QED BY <1>3, <1>10

(* Rows are deleted: what is left is sound, and owes a recalculation to    *)
(* `es`.                                                                   *)
Owes(s, r, es) ==
    /\ Fine(r) /\ r.epics = s.epics /\ r.tasks = s.tasks
    /\ Stale(r) \subseteq Stale(s) \cup es

(* Tasks are deleted alone.                                                *)
LEMMA TasksDeleted ==
    ASSUME NEW s, Fine(s), NEW ts, NEW es, \A t \in Tasks(s) \cap ts : s.task[t].epic \in es
    PROVE  LET r == WithoutTasks(s, ts)
           IN  /\ Owes(s, r, es) /\ r.epic = s.epic /\ Tasks(r) = Tasks(s) \ ts
               /\ \A t \in Tasks(r) : r.task[t] = s.task[t]
<1> DEFINE r == WithoutTasks(s, ts)
           g == [t \in Tasks(s) \ ts |-> s.task[t]]
<1>1. s \in Stores /\ Forest(s)
    BY DEF Fine, Sound
<1>2. /\ s.epic \in [Epics(s) -> EpicRows] /\ s.task \in [Tasks(s) -> TaskRows]
      /\ s.epics \in Nat /\ s.tasks \in Nat /\ Epics(s) \subseteq 1..s.epics
      /\ Tasks(s) \subseteq 1..s.tasks
    BY <1>1, StoreFacts
<1>3. g \in [Tasks(s) \ ts -> TaskRows] /\ \A t \in Tasks(s) \ ts : g[t] = s.task[t]
    BY <1>2
<1>4. r = [epic |-> s.epic, task |-> g, epics |-> s.epics, tasks |-> s.tasks]
    <2>1. r = [s EXCEPT !.task = g]
        BY DEF WithoutTasks
    <2> HIDE DEF g, r
    <2> QED BY <2>1, <1>1, NewTables
<1> HIDE DEF g
<1>5. /\ r.epic = s.epic /\ r.task = g /\ r.epics = s.epics /\ r.tasks = s.tasks
      /\ r = [epic |-> r.epic, task |-> r.task, epics |-> r.epics, tasks |-> r.tasks]
    BY <1>4
<1> HIDE DEF r
<1>6. Epics(r) = Epics(s) /\ Tasks(r) = Tasks(s) \ ts
    BY <1>3, <1>5 DEF Epics, Tasks
<1>7. r \in Stores
    BY <1>2, <1>3, <1>5, <1>6, StoreIs
<1>8. Sound(r) /\ Stale(r) \subseteq Stale(s) \cup es
    <2>1. \A t \in Tasks(r) : r.task[t].epic \in Epics(s) \cup {Root}
        BY <1>1, <1>3, <1>5, <1>6 DEF Forest
    <2>2. \A t \in Tasks(s) : s.task[t].epic \notin es =>
               /\ t \in Tasks(r) /\ r.task[t].epic = s.task[t].epic
               /\ r.task[t].status = s.task[t].status
        BY <1>3, <1>5, <1>6
    <2>3. \A t \in Tasks(r) : r.task[t].epic \notin es =>
               t \in Tasks(s) /\ s.task[t].epic = r.task[t].epic
        BY <1>3, <1>5, <1>6
    <2> QED BY <2>1, <2>2, <2>3, <1>1, <1>5, <1>7, TasksChanged
<1>9. Fine(r)
    BY <1>3, <1>5, <1>6, <1>8 DEF Fine
<1> QED BY <1>3, <1>5, <1>6, <1>8, <1>9 DEF Owes, r

(* Only finished tasks are gone.                                           *)
Spares(s, r) == \A t \in Tasks(s) : t \notin Tasks(r) => s.task[t].status = "done"

(* A chain pays what is owed to the epic it starts at.                     *)
LEMMA ChainPays ==
    ASSUME treeSetting \in TreeSettings, NEW s, NEW r, NEW e \in Nat, Owes(s, r, {e})
    PROVE  LET u == RecalculateEpicChain(r, e)
           IN  Mends(s, u) /\ Tasks(u) = Tasks(r)
<1> DEFINE u == RecalculateEpicChain(r, e)
<1>1. r \in Stores /\ Forest(r) /\ MaxEpicDepth \in Nat
    BY SettingFacts DEF Owes, Fine, Sound
<1>2. u \in Stores /\ SameShape(r, u)
    BY <1>1, ChainKeepsShape
<1>3. r.epics <= MaxEpicDepth => Stale(u) \subseteq Stale(r) \ {e}
    BY <1>1, ChainSettles
<1> HIDE DEF u
<1>4. Forest(u)
    BY <1>1, <1>2, ShapeKeepsForest
<1>5. Fine(u)
    BY <1>2, <1>4 DEF Fine, Sound, Owes, SameShape, Tasks
<1>6. Mends(s, u)
    BY <1>2, <1>3, <1>5 DEF Mends, Owes, SameShape
<1> QED BY <1>2, <1>6 DEF u, SameShape, Tasks

(* Deleting a finished task.                                               *)
LEMMA TaskRemoved ==
    ASSUME treeSetting \in TreeSettings, NEW s, Fine(s), NEW t \in Tasks(s),
           s.task[t].status = "done"
    PROVE  LET u == RecalculateEpicChain(WithoutTasks(s, {t}), s.task[t].epic)
           IN  Mends(s, u) /\ Spares(s, u)
<1> DEFINE r == WithoutTasks(s, {t})
           home == s.task[t].epic
           es == {home}
           ts == {t}
<1>1. home \in Nat
    <2>1. s \in Stores
        BY DEF Fine, Sound
    <2> QED BY <2>1, StoreFacts DEF TaskRows
<1>2. Owes(s, r, es) /\ Tasks(r) = Tasks(s) \ {t}
    <2>1. \A x \in Tasks(s) \cap ts : s.task[x].epic \in es
        OBVIOUS
    <2> HIDE DEF es, ts
    <2>2. Owes(s, WithoutTasks(s, ts), es) /\ Tasks(WithoutTasks(s, ts)) = Tasks(s) \ ts
        BY <2>1, TasksDeleted
    <2> QED BY <2>2 DEF ts
<1> HIDE DEF home, r
<1> DEFINE u == RecalculateEpicChain(r, home)
<1>3. Mends(s, u) /\ Tasks(u) = Tasks(r)
    BY <1>1, <1>2, ChainPays
<1>4. Spares(s, u)
    BY <1>2, <1>3 DEF Spares
<1> QED BY <1>3, <1>4 DEF home, r

(* Epics go with all that is below them.  The epics they hung from, of     *)
(* `fs`, owe a recalculation.                                              *)
LEMMA SubtreesDeleted ==
    ASSUME NEW s, Fine(s), NEW es, Closed(s, es), NEW fs,
           \A x \in es : s.epic[x].parent \in es \cup fs
    PROVE  LET r == WithoutEpics(s, es)
           IN  /\ Owes(s, r, fs)
               /\ Epics(r) = Epics(s) \ es /\ \A x \in Epics(r) : r.epic[x] = s.epic[x]
               /\ Tasks(r) = {t \in Tasks(s) : s.task[t].epic \notin es}
               /\ \A t \in Tasks(r) : r.task[t] = s.task[t]
<1> DEFINE r == WithoutEpics(s, es)
<1>1. s \in Stores /\ Forest(s)
    BY DEF Fine, Sound
<1>2. /\ Sound(r) /\ Epics(r) = Epics(s) \ es
      /\ \A x \in Epics(r) : r.epic[x] = s.epic[x]
      /\ Tasks(r) = {t \in Tasks(s) : s.task[t].epic \notin es}
      /\ \A t \in Tasks(r) : r.task[t] = s.task[t]
      /\ r.epics = s.epics /\ r.tasks = s.tasks
      /\ Stale(r) \subseteq Stale(s) \cup {s.epic[x].parent : x \in es}
    BY <1>1, EpicsDeleted
<1> HIDE DEF r
<1>3. Fine(r)
    BY <1>2 DEF Fine
<1>4. Stale(r) \subseteq Epics(r)
    BY DEF Stale
<1>5. Stale(r) \subseteq Stale(s) \cup fs
    BY <1>2, <1>4
<1> QED BY <1>2, <1>3, <1>5 DEF Owes, r

(* Deleting an epic whose delete is allowed.                               *)
LEMMA EpicRemoved ==
    ASSUME treeSetting \in TreeSettings, NEW s, Fine(s), NEW e \in Epics(s), EpicDeletable(s, e)
    PROVE  LET u == RecalculateEpicChain(DeleteEpicSubtree(s, e), s.epic[e].parent)
           IN  Mends(s, u) /\ Spares(s, u)
<1> DEFINE doomed == Doomed(s, e)
           over == s.epic[e].parent
           fs == {over}
           r == DeleteEpicSubtree(s, e)
<1>1. s \in Stores /\ over \in Nat /\ MaxEpicDepth \in Nat /\ ~SubtreeExceedsDepth(s, e)
    <2>1. s \in Stores /\ ~SubtreeExceedsDepth(s, e)
        BY DEF Fine, Sound, EpicDeletable
    <2> QED BY <2>1, StoreFacts, SettingFacts DEF EpicRows
<1>2. Closed(s, doomed) /\ \A x \in doomed : x = e \/ s.epic[x].parent \in doomed
    BY <1>1, DoomedFacts
<1>3. r = WithoutEpics(s, doomed)
    BY DEF DeleteEpicSubtree
<1>3a. \A t \in Tasks(s) : s.task[t].epic \in doomed => s.task[t].status = "done"
    BY <1>1, DoomedIsJudged DEF EpicDeletable
<1> HIDE DEF doomed, r
<1>4. \A x \in doomed : s.epic[x].parent \in doomed \cup fs
    BY <1>2
<1> HIDE DEF fs
<1>5. Owes(s, r, fs) /\ Tasks(r) = {t \in Tasks(s) : s.task[t].epic \notin doomed}
    BY <1>2, <1>3, <1>4, SubtreesDeleted
<1> HIDE DEF over
<1> DEFINE u == RecalculateEpicChain(r, over)
<1>6. Mends(s, u) /\ Tasks(u) = Tasks(r)
    BY <1>1, <1>5, ChainPays DEF fs
<1>7. Spares(s, u)
    BY <1>3a, <1>5, <1>6 DEF Spares
<1> QED BY <1>6, <1>7 DEF over, r

(* A batch is deleted as a whole, and all it touched is recalculated.      *)
LEMMA BatchDeleted ==
    ASSUME treeSetting \in TreeSettings, Fine(store),
           NEW ts \in SUBSET Tasks(store), NEW es \in SUBSET Epics(store),
           \A e \in es : EpicDeletable(store, e), \A t \in ts : store.task[t].status = "done"
    PROVE  LET doomed == UNION {Doomed(store, e) : e \in es}
               left == {t \in ts : store.task[t].epic \notin doomed}
               gone == WithoutTasks(WithoutEpics(store, doomed), left)
               touched == {store.epic[e].parent : e \in es} \cup {store.task[t].epic : t \in left}
           IN  \A order \in Orders(touched) : /\ Mends(store, RecalculateAll(gone, order))
                                              /\ Spares(store, RecalculateAll(gone, order))
<1> DEFINE doomed == UNION {Doomed(store, e) : e \in es}
           left == {t \in ts : store.task[t].epic \notin doomed}
           without == WithoutEpics(store, doomed)
           gone == WithoutTasks(without, left)
           touched == {store.epic[e].parent : e \in es} \cup {store.task[t].epic : t \in left}
<1>1. /\ store \in Stores /\ Forest(store) /\ MaxEpicDepth \in Nat
      /\ \A e \in Epics(store) : store.epic[e] \in EpicRows
      /\ \A t \in Tasks(store) : store.task[t] \in TaskRows
    <2>1. store \in Stores /\ Forest(store)
        BY DEF Fine, Sound
    <2> QED BY <2>1, StoreFacts, SettingFacts
<1>2. ASSUME NEW e \in es
      PROVE  /\ Closed(store, Doomed(store, e)) /\ e \in Doomed(store, e)
             /\ \A x \in Doomed(store, e) : x = e \/ store.epic[x].parent \in Doomed(store, e)
             /\ Doomed(store, e) \subseteq SubtreeIds(store, e)
    <2>1. e \in Epics(store) /\ ~SubtreeExceedsDepth(store, e)
        BY DEF EpicDeletable
    <2> QED BY <2>1, <1>1, DoomedFacts, DoomedIsJudged
<1>3. Closed(store, doomed)
    BY <1>2 DEF Closed
<1>4. \A x \in doomed : store.epic[x].parent \in doomed \cup touched
    BY <1>2
<1>5. \A t \in left : store.task[t].epic \in touched
    OBVIOUS
<1>6. touched \in SUBSET Nat /\ IsFiniteSet(touched)
    <2>1. touched \subseteq Epics(store) \cup {Root}
        BY <1>1 DEF Forest
    <2>2. IsFiniteSet(Epics(store)) /\ Epics(store) \subseteq 1..store.epics /\ store.epics \in Nat
        BY <1>1, Finite, StoreFacts
    <2>3. touched \in SUBSET (0..store.epics)
        <3> HIDE DEF touched
        <3> QED BY <2>1, <2>2 DEF Root
    <2> HIDE DEF touched
    <2>4. IsFiniteSet(0..store.epics)
        BY <2>2, FS_Interval
    <2>5. IsFiniteSet(touched)
        BY <2>3, <2>4, FS_Subset
    <2> QED BY <2>2, <2>3, <2>5
<1>6a. \A t \in Tasks(store) : store.task[t].epic \in doomed => store.task[t].status = "done"
    BY <1>2 DEF EpicDeletable
<1> HIDE DEF doomed, touched
<1>7. /\ Owes(store, without, touched)
      /\ Tasks(without) = {t \in Tasks(store) : store.task[t].epic \notin doomed}
      /\ \A t \in Tasks(without) : without.task[t] = store.task[t]
    BY <1>3, <1>4, SubtreesDeleted
<1>7a. \A t \in left : store.task[t].status = "done"
    OBVIOUS
<1>8. \A t \in Tasks(without) \cap left : without.task[t].epic \in touched
    BY <1>5, <1>7
<1> HIDE DEF without, left
<1>9. Fine(without)
    BY <1>7 DEF Owes
<1>10. Owes(without, gone, touched) /\ Tasks(gone) = Tasks(without) \ left
    BY <1>8, <1>9, TasksDeleted
<1> HIDE DEF gone
<1>11. Sound(gone) /\ Fine(gone)
    BY <1>10 DEF Owes, Fine
<1>12. ASSUME NEW order \in Orders(touched)
       PROVE  /\ Mends(store, RecalculateAll(gone, order))
              /\ Spares(store, RecalculateAll(gone, order))
    <2> DEFINE u == RecalculateAll(gone, order)
    <2>1. Chained(gone, touched, u)
        BY <1>6, <1>11, AllRecalculated
    <2> HIDE DEF u
    <2>2. u \in Stores /\ SameShape(gone, u) /\ u.epics = gone.epics
        BY <2>1 DEF Chained, SameShape
    <2>3. Fine(u)
        <3>1. Forest(u)
            BY <2>2, <1>11, ShapeKeepsForest DEF Sound
        <3> QED BY <2>2, <3>1, <1>11 DEF Fine, Sound, SameShape, Tasks
    <2>4. u.epics <= MaxEpicDepth => Stale(u) \subseteq Stale(store)
        BY <2>1, <2>2, <1>7, <1>10 DEF Chained, Owes
    <2>5. Spares(store, u)
        <3>1. Tasks(u) = Tasks(gone)
            BY <2>2 DEF SameShape, Tasks
        <3> QED BY <3>1, <1>6a, <1>7, <1>7a, <1>10 DEF Spares
    <2> QED BY <2>3, <2>4, <2>5 DEF Mends, u
<1> QED BY <1>12 DEF gone, without, left, touched, doomed

----------------------------------------------------------------------------
(* The tree stays whole *)

(* What a transaction leaves: the rows are sound and within the setting's  *)
(* bounds, and where the roll-up reaches no epic is stale.                 *)
Whole ==
    /\ treeSetting \in TreeSettings /\ Fine(store)
    /\ store.epics <= treeSetting.epics /\ store.tasks <= treeSetting.tasks
    /\ RollUpReaches => Stale(store) = {}

(* An empty store is whole.                                                *)
LEMMA WholeAtFirst ==
    ASSUME TreeInit
    PROVE  Whole
<1>1. /\ treeSetting \in TreeSettings /\ treeSetting.epics \in Nat /\ treeSetting.tasks \in Nat
      /\ store = [epic |-> <<>>, task |-> <<>>, epics |-> 0, tasks |-> 0]
    BY EpicTreeAssumption DEF TreeInit
<1>2. DOMAIN store.epic = {} /\ DOMAIN store.task = {}
    BY <1>1
<1>3. store.epic = [x \in {} |-> store.epic[x]] /\ store.task = [x \in {} |-> store.task[x]]
    BY <1>1
<1>4. Epics(store) = {} /\ Tasks(store) = {}
    BY <1>2 DEF Epics, Tasks
<1>5. store \in Stores
    BY <1>1, <1>3, <1>4, StoreIs
<1>6. Forest(store) /\ Stale(store) = {}
    BY <1>4 DEF Forest, Stale
<1> QED BY <1>1, <1>4, <1>5, <1>6 DEF Whole, Fine, Sound

(* So is the store a transaction leaves that mends what it touched.        *)
LEMMA LeavesWhole ==
    ASSUME Whole, NEW r, Mends(store, r), Leaves(r)
    PROVE  Whole'
<1>1. store' = r /\ treeSetting' = treeSetting
    BY DEF Leaves
<1>2. r.epics <= treeSetting.epics /\ r.tasks <= treeSetting.tasks /\ Fine(r) /\ r \in Stores
    BY DEF Leaves, Mends, Fine, Sound
<1>3. RollUpReaches => Stale(r) = {}
    <2> SUFFICES ASSUME RollUpReaches PROVE Stale(r) = {}
        OBVIOUS
    <2>1. r.epics \in Nat /\ treeSetting.epics \in Nat /\ MaxEpicDepth \in Nat
        BY <1>2, StoreFacts, SettingFacts, EpicTreeAssumption DEF Whole
    <2>2. r.epics <= MaxEpicDepth /\ "phoenix" \notin Calls
        BY <2>1, <1>2 DEF RollUpReaches
    <2> QED BY <2>2 DEF Mends, Whole
<1>4. Calls' = Calls /\ Repos' = Repos /\ RollUpReaches' = RollUpReaches
    BY <1>1 DEF Calls, Repos, RollUpReaches, MaxEpicDepth
<1>5. Stores' = Stores
    <2>1. EpicRows' = EpicRows /\ TaskRows' = TaskRows
        BY <1>4 DEF EpicRows, TaskRows
    <2> QED BY <2>1 DEF Stores, Tables, Epics, Tasks
<1>6. Fine(store)'
    <2>1. r \in Stores /\ Forest(r) /\ ("phoenix" \notin Calls => \A t \in Tasks(r) : ~r.task[t].phoenix)
        BY <1>2 DEF Fine, Sound
    <2>2. Forest(store') /\ store' \in Stores'
        BY <2>1, <1>1, <1>5
    <2> QED BY <2>1, <2>2, <1>1, <1>4 DEF Fine, Sound, Tasks
<1>7. Stale(store') = Stale(r)
    BY <1>1
<1> QED BY <1>1, <1>2, <1>3, <1>4, <1>6, <1>7 DEF Whole

(* What every transaction keeps.                                           *)
Kept == Whole' /\ DeletesOnlyFinishedWork

(* And the transaction lost no work if it spared the unfinished.           *)
LEMMA SparesWork ==
    ASSUME Whole, NEW r, Mends(store, r), Spares(store, r), Leaves(r)
    PROVE  Kept
<1>1. store' = r
    BY DEF Leaves
<1>2. DeletesOnlyFinishedWork
    BY <1>1 DEF DeletesOnlyFinishedWork, Spares, Tasks
<1> QED BY <1>2, LeavesWhole DEF Kept

(* Every transaction does both, whatever the calls.                        *)
LEMMA WholeStays ==
    ASSUME Whole, [TreeNext]_treeVars
    PROVE  Kept
<1>1. /\ treeSetting \in TreeSettings /\ Fine(store) /\ store \in Stores /\ Forest(store)
      /\ Epics(store) \subseteq Nat
      /\ \A e \in Epics(store) : store.epic[e] \in EpicRows
      /\ \A t \in Tasks(store) : store.task[t] \in TaskRows
    <2>1. treeSetting \in TreeSettings /\ Fine(store) /\ store \in Stores /\ Forest(store)
        BY DEF Whole, Fine, Sound
    <2> QED BY <2>1, StoreFacts
<1>2. ASSUME NEW r, Follows(store, r, {}), Leaves(r) PROVE Kept
    <2>1. Mends(store, r) /\ Spares(store, r)
        BY <1>2, FollowsMends DEF Follows, Spares
    <2> QED BY <2>1, <1>2, SparesWork
<1>3. ASSUME NEW p \in Epics(store) \cup {Root}, CreateEpic(p) PROVE Kept
    <2> DEFINE r == RecalculateEpicChain(InsertEpic(store, NewEpic(p)), p)
    <2>1. Follows(store, r, {})
        BY <1>1, EpicMade
    <2>2. Leaves(r)
        BY <1>3 DEF CreateEpic
    <2> HIDE DEF r
    <2> QED BY <2>1, <2>2, <1>2
<1>4. ASSUME NEW e \in Epics(store) \cup {Root}, NEW repo \in Repos, NEW phoenix \in BOOLEAN,
             phoenix => "phoenix" \in Calls, CreateTask(e, repo, phoenix)
      PROVE  Kept
    <2> DEFINE route == RouteToRepoGroup(store, e, repo)
               r == RecalculateEpicChain(
                        InsertTask(route.store, NewTask(route.epic, repo, phoenix)), route.epic)
    <2>1. Follows(store, r, {})
        BY <1>1, <1>4, TaskMade
    <2>2. Leaves(r)
        BY <1>4 DEF CreateTask
    <2> HIDE DEF r
    <2> QED BY <2>1, <2>2, <1>2
<1>5. ASSUME NEW e \in Epics(store), NEW row \in EpicRows,
             \/ row.parent \in {Root, store.epic[e].parent}
             \/ row.parent \in Epics(store) /\ ValidEpicParent(store, e, row.parent),
             Leaves(PatchedEpic(store, e, row))
      PROVE  Kept
    <2>1. Follows(store, PatchedEpic(store, e, row), {})
        BY <1>1, <1>5, EpicPatched
    <2> QED BY <2>1, <1>2, <1>5
<1>6. ASSUME NEW e \in Epics(store), NEW status \in Status, SetEpicStatus(e, status) PROVE Kept
    <2> DEFINE row == [store.epic[e] EXCEPT !.status = status]
    <2>1. row \in EpicRows /\ row.parent = store.epic[e].parent
        BY <1>1 DEF EpicRows
    <2>2. Leaves(PatchedEpic(store, e, row))
        BY <1>6 DEF SetEpicStatus
    <2> HIDE DEF row
    <2> QED BY <2>1, <2>2, <1>5
<1>7. ASSUME NEW e \in Epics(store), NEW p \in Epics(store) \cup {Root}, SetEpicParent(e, p)
      PROVE  Kept
    <2> DEFINE row == [store.epic[e] EXCEPT !.parent = p]
    <2>1. row \in EpicRows /\ row.parent = p
        BY <1>1 DEF EpicRows, Root
    <2>2. Leaves(PatchedEpic(store, e, row)) /\ (p # Root => ValidEpicParent(store, e, p))
        BY <1>7 DEF SetEpicParent
    <2> HIDE DEF row
    <2> QED BY <2>1, <2>2, <1>5
<1>8. ASSUME NEW e \in Epics(store), NEW on \in BOOLEAN, SetGroupByRepo(e, on) PROVE Kept
    <2> DEFINE row == [store.epic[e] EXCEPT !.grouped = on]
    <2>1. row \in EpicRows /\ row.parent = store.epic[e].parent
        BY <1>1 DEF EpicRows
    <2>2. Leaves(PatchedEpic(store, e, row))
        BY <1>8 DEF SetGroupByRepo
    <2> HIDE DEF row
    <2> QED BY <2>1, <2>2, <1>5
<1>9. ASSUME NEW e \in Epics(store), Regroup(e) PROVE Kept
    <2>1. CASE AutoGroups(store, e)
        <3>1. PICK drawn \in Drawn(store, e) : Leaves(Regrouped(store, e, drawn))
            BY <1>9, <2>1 DEF Regroup
        <3>2. Follows(store, Regrouped(store, e, drawn), {})
            BY <1>1, TasksRegrouped
        <3> QED BY <3>1, <3>2, <1>2
    <2>2. CASE ~AutoGroups(store, e)
        <3> DEFINE es == {}
                   r == RecalculateEpicChain(store, e)
        <3>1. Follows(store, store, es) /\ es \subseteq es \cup {e} /\ e \in Nat
            BY <1>1, FollowsItself
        <3> HIDE DEF es
        <3>2. Follows(store, r, es)
            BY <3>1, <1>1, ThenChain
        <3>3. Leaves(r)
            BY <1>9, <2>2 DEF Regroup
        <3> HIDE DEF r
        <3> QED BY <3>2, <3>3, <1>2 DEF es
    <2> QED BY <2>1, <2>2
<1>10. ASSUME NEW e \in Epics(store), Flatten(e) PROVE Kept
    <2>1. PICK order \in Orders(RepoGroupsOf(store, e)) : Leaves(FlattenedTree(store, e, order))
        BY <1>10 DEF Flatten
    <2>2. Follows(store, FlattenedTree(store, e, order), {})
        BY <1>1, TasksFlattened
    <2> QED BY <2>1, <2>2, <1>2
<1>11. ASSUME NEW t \in Tasks(store), NEW e \in Epics(store) \cup {Root}, RefileTask(t, e)
       PROVE  Kept
    <2>1. Follows(store, MoveTask(store, t, e), {})
        BY <1>1, Moved
    <2> QED BY <2>1, <1>2, <1>11 DEF RefileTask
<1>12. ASSUME NEW t \in Tasks(store), NEW status \in Status, NEW repo \in Repos,
              PatchTaskRow(t, status, repo)
       PROVE  Kept
    <2>1. Follows(store, PatchTask(store, t, status, repo), {})
        BY <1>1, TaskPatched
    <2> QED BY <2>1, <1>2, <1>12 DEF PatchTaskRow
<1>13. ASSUME NEW t \in Tasks(store), NEW e \in Epics(store) \cup {Root}, NEW status \in Status,
              NEW repo \in Repos, NEW names \in BOOLEAN, UpdateTaskRow(t, e, status, repo, names)
       PROVE  Kept
    <2>1. /\ repo # store.task[t].repo => names
          /\ Leaves(UpdateTask(store, t, e, status, repo, names))
        BY <1>13 DEF UpdateTaskRow
    <2>2. Follows(store, UpdateTask(store, t, e, status, repo, names), {})
        BY <2>1, <1>1, TaskUpdated
    <2> QED BY <2>1, <2>2, <1>2
<1>14. ASSUME NEW t \in Tasks(store), RemoveTask(t) PROVE Kept
    <2> DEFINE r == RecalculateEpicChain(WithoutTasks(store, {t}), store.task[t].epic)
    <2>1. Mends(store, r) /\ Spares(store, r)
        BY <1>1, <1>14, TaskRemoved DEF RemoveTask
    <2>2. Leaves(r)
        BY <1>14 DEF RemoveTask
    <2> HIDE DEF r
    <2> QED BY <2>1, <2>2, SparesWork
<1>15. ASSUME NEW e \in Epics(store), RemoveEpic(e) PROVE Kept
    <2> DEFINE r == RecalculateEpicChain(DeleteEpicSubtree(store, e), store.epic[e].parent)
    <2>1. EpicDeletable(store, e) /\ Leaves(r)
        BY <1>15 DEF RemoveEpic
    <2>2. Mends(store, r) /\ Spares(store, r)
        BY <2>1, <1>1, EpicRemoved
    <2> HIDE DEF r
    <2> QED BY <2>1, <2>2, SparesWork
<1>16. ASSUME NEW ts \in SUBSET Tasks(store), NEW es \in SUBSET Epics(store), BatchDelete(ts, es)
       PROVE  Kept
    <2> DEFINE doomed == UNION {Doomed(store, e) : e \in es}
               left == {t \in ts : store.task[t].epic \notin doomed}
               gone == WithoutTasks(WithoutEpics(store, doomed), left)
               touched == {store.epic[e].parent : e \in es} \cup {store.task[t].epic : t \in left}
    <2>1. /\ \A e \in es : EpicDeletable(store, e)
          /\ \A t \in ts : store.task[t].status = "done"
        BY <1>16 DEF BatchDelete
    <2>2. PICK order \in Orders(touched) : Leaves(RecalculateAll(gone, order))
        BY <1>16 DEF BatchDelete
    <2>3. \A o \in Orders(touched) : /\ Mends(store, RecalculateAll(gone, o))
                                     /\ Spares(store, RecalculateAll(gone, o))
        BY <2>1, <1>1, BatchDeleted
    <2> HIDE DEF touched, gone
    <2>4. Mends(store, RecalculateAll(gone, order)) /\ Spares(store, RecalculateAll(gone, order))
        BY <2>3
    <2> QED BY <2>2, <2>4, SparesWork
<1>17. CASE UNCHANGED treeVars
    <2>1. store' = store /\ treeSetting' = treeSetting
        BY <1>17 DEF treeVars
    <2>2. Leaves(store) /\ Mends(store, store) /\ Spares(store, store)
        BY <2>1, <1>1 DEF Whole, Leaves, Mends, Spares
    <2> QED BY <2>2, SparesWork
<1>18. CASE TreeNext
    <2>1. \A t \in Tasks(store) : store.task[t].repo \in Repos /\ store.task[t].status \in Status
        BY <1>1 DEF TaskRows
    <2> QED BY <2>1, <1>18, <1>3, <1>4, <1>6, <1>7, <1>8, <1>9, <1>10, <1>11, <1>12, <1>13,
               <1>14, <1>15, <1>16 DEF TreeNext
<1> QED BY <1>17, <1>18

(* The invariant is as strong as the property.                             *)
LEMMA WholeIsWhole ==
    Whole => TreesStayWhole
<1> SUFFICES ASSUME Whole PROVE TreesStayWhole
    OBVIOUS
<1>1. store \in Stores /\ Forest(store)
    BY DEF Whole, Fine, Sound
<1>2. TreeTypeOK
    BY <1>1, StoreFacts, EpicTreeAssumption DEF Whole, TreeTypeOK
<1> QED BY <1>1, <1>2 DEF Whole, TreesStayWhole

(* Whatever the sequence of transactions, the epics are a forest in which  *)
(* every task has its place, and where the roll-up reaches an epic with    *)
(* children is done exactly when all of them are.                          *)
THEOREM TreesAreWhole == TreeSpec => []TreesStayWhole
<1>1. Whole /\ [TreeNext]_treeVars => Whole'
    BY WholeStays DEF Kept
<1>2. TreeInit => Whole
    BY WholeAtFirst
<1>3. Whole => TreesStayWhole
    BY WholeIsWhole
<1> QED BY <1>1, <1>2, <1>3, PTL DEF TreeSpec

----------------------------------------------------------------------------
(* Placements stay *)

(* The epics of two stores, but for the named, are in the same status.     *)
Alike(s, r, named) ==
    \A x \in (Epics(s) \cap Epics(r)) \ named : r.epic[x].status = s.epic[x].status

(* Those that are not done keep their status until they are.               *)
Steady(s, r, named) ==
    \A x \in (Epics(s) \cap Epics(r)) \ named :
        s.epic[x].status # "done" => r.epic[x].status \in {s.epic[x].status, "done"}

(* Lowering done epics and then raising others is steady: an epic that was *)
(* not done before the one is not touched by it.                           *)
LEMMA SteadyThrough ==
    ASSUME NEW s, NEW r, NEW m, NEW u, NEW named, Alike(s, r, named),
           Epics(m) = Epics(r), Epics(u) = Epics(r), Lowers(r, m), Raises(m, u)
    PROVE  Steady(s, u, named)
<1> SUFFICES ASSUME NEW x \in (Epics(s) \cap Epics(u)) \ named, s.epic[x].status # "done"
             PROVE  u.epic[x].status \in {s.epic[x].status, "done"}
    BY DEF Steady
<1>1. r.epic[x].status = s.epic[x].status
    BY DEF Alike
<1>2. m.epic[x].status = r.epic[x].status
    BY <1>1 DEF Lowers
<1> QED BY <1>1, <1>2 DEF Raises

(* Where no epic is stale but some that are not done, none is done early.  *)
LEMMA NotTooEarly ==
    ASSUME NEW s, NEW es, Stale(s) \subseteq es,
           \A x \in es \cap Epics(s) : s.epic[x].status # "done"
    PROVE  NoneTooEarly(s)
BY DEF NoneTooEarly, Stale

(* Nor where rows are deleted, or done, or moved when they are done.       *)
LEMMA MoreIsDone ==
    ASSUME NEW s, NEW r, NoneTooEarly(s), Epics(r) \subseteq Epics(s), Tasks(r) \subseteq Tasks(s),
           \A x \in Epics(r) :
               \/ r.epic[x].status = s.epic[x].status
               \/ r.epic[x].status = "done" /\ ChildStatuses(r, x) \subseteq {"done"},
           \A x \in Epics(r) : r.epic[x].parent = s.epic[x].parent \/ r.epic[x].status = "done",
           \A t \in Tasks(r) : /\ r.task[t].epic = s.task[t].epic
                               /\ r.task[t].status \in {s.task[t].status, "done"}
    PROVE  NoneTooEarly(r)
<1> SUFFICES ASSUME NEW x \in Epics(r), r.epic[x].status = "done"
             PROVE  ChildStatuses(r, x) \subseteq {"done"}
    BY DEF NoneTooEarly
<1>1. CASE r.epic[x].status = s.epic[x].status
    <2>1. ChildStatuses(s, x) \subseteq {"done"}
        BY <1>1 DEF NoneTooEarly
    <2>2. ASSUME NEW t \in TasksOf(r, x) PROVE r.task[t].status = "done"
        <3>1. t \in TasksOf(s, x) /\ r.task[t].status \in {s.task[t].status, "done"}
            BY DEF TasksOf
        <3> QED BY <3>1, <2>1 DEF ChildStatuses
    <2>3. ASSUME NEW c \in SubEpics(r, x), r.epic[c].status # "done" PROVE FALSE
        <3>1. /\ c \in Epics(r) /\ r.epic[c].parent = x /\ s.epic[c].parent = x
              /\ r.epic[c].status = s.epic[c].status
            BY <2>3 DEF SubEpics
        <3>2. c \in SubEpics(s, x)
            BY <3>1 DEF SubEpics
        <3> QED BY <3>1, <3>2, <2>1, <2>3 DEF ChildStatuses
    <2> QED BY <2>2, <2>3 DEF ChildStatuses
<1> QED BY <1>1

(* A chain is steady from an epic that is open, and where none is done too *)
(* early.                                                                  *)
LEMMA ChainIsSteady ==
    ASSUME treeSetting \in TreeSettings, NEW s, NEW r \in Stores, NEW e \in Nat, NEW named,
           Alike(s, r, named), Open(r, e) \/ NoneTooEarly(r)
    PROVE  Steady(s, RecalculateEpicChain(r, e), named)
<1> DEFINE u == RecalculateEpicChain(r, e)
<1>1. Epics(u) = Epics(r) /\ MaxEpicDepth \in Nat
    BY SettingFacts, ChainKeepsShape DEF SameShape
<1>2. Lowers(r, r) /\ Raises(u, u)
    BY DEF Lowers, Raises
<1>3. Lowers(r, u) \/ Raises(r, u)
    BY <1>1, ChainLowers, ChainRaises
<1> HIDE DEF u
<1>4. Steady(s, u, named)
    BY <1>1, <1>2, <1>3, SteadyThrough
<1> QED BY <1>4 DEF u

(* Creating an epic is steady: its parent has a child to do.               *)
LEMMA EpicMadeSteadily ==
    ASSUME treeSetting \in TreeSettings, NEW s, Fine(s), NEW parent \in Epics(s) \cup {Root}
    PROVE  Steady(s, RecalculateEpicChain(InsertEpic(s, NewEpic(parent)), parent), {})
<1> DEFINE row == NewEpic(parent)
           r == InsertEpic(s, row)
           named == {}
<1>1. s \in Stores /\ parent \in Nat
    BY StoreFacts DEF Fine, Sound, Root
<1>2. row \in EpicRows /\ row.parent = parent /\ row.status = "backlog"
    BY <1>1 DEF NewEpic, EpicRows, Status
<1> HIDE DEF row
<1>3. /\ Follows(s, r, {parent})
      /\ s.epics + 1 \in Epics(r) /\ r.epic[s.epics + 1] = row
      /\ \A x \in Epics(s) : r.epic[x] = s.epic[x]
    BY <1>2, EpicInserted
<1> HIDE DEF r
<1>4. Open(r, parent)
    <2>1. s.epics + 1 \in SubEpics(r, parent)
        BY <1>2, <1>3 DEF SubEpics
    <2>2. "backlog" \in ChildStatuses(r, parent)
        BY <2>1, <1>2, <1>3 DEF ChildStatuses
    <2> QED BY <2>2 DEF Open
<1>5. Alike(s, r, named)
    BY <1>3 DEF Alike
<1>6. r \in Stores
    BY <1>3 DEF Follows, Fine, Sound
<1> HIDE DEF named
<1>7. Steady(s, RecalculateEpicChain(r, parent), named)
    BY <1>1, <1>4, <1>5, <1>6, ChainIsSteady
<1> QED BY <1>7 DEF r, row, named

(* So is creating a task, wherever it is routed.                           *)
LEMMA TaskMadeSteadily ==
    ASSUME treeSetting \in TreeSettings, NEW s, Fine(s), NEW e \in Epics(s) \cup {Root},
           NEW repo \in Repos, NEW phoenix \in BOOLEAN, phoenix => "phoenix" \in Calls
    PROVE  LET route == RouteToRepoGroup(s, e, repo)
           IN  Steady(s, RecalculateEpicChain(
                   InsertTask(route.store, NewTask(route.epic, repo, phoenix)), route.epic), {})
<1> DEFINE route == RouteToRepoGroup(s, e, repo)
           u == route.store
           at == route.epic
           row == NewTask(at, repo, phoenix)
           r == InsertTask(u, row)
           named == {}
<1>2. LandsIn(s, e, at, u)
    BY Routed
<1> HIDE DEF route, u, at
<1>3. Fine(u) /\ at \in Epics(u) \cup {Root} /\ at \in Nat /\ \A x \in Epics(s) : u.epic[x] = s.epic[x]
    BY <1>2 DEF LandsIn, Follows
<1>4. row \in TaskRows /\ row.epic = at /\ row.phoenix = phoenix /\ row.status = "backlog"
    BY <1>3 DEF NewTask, TaskRows, Status
<1> HIDE DEF row
<1>5. /\ Follows(u, r, {at}) /\ r.epic = u.epic
      /\ u.tasks + 1 \in Tasks(r) /\ r.task[u.tasks + 1] = row
    BY <1>3, <1>4, TaskInserted
<1> HIDE DEF r
<1>6. Open(r, at)
    <2>1. u.tasks + 1 \in TasksOf(r, at)
        BY <1>4, <1>5 DEF TasksOf
    <2>2. "backlog" \in ChildStatuses(r, at)
        BY <2>1, <1>4, <1>5 DEF ChildStatuses
    <2> QED BY <2>2 DEF Open
<1>7. Alike(s, r, named)
    BY <1>3, <1>5 DEF Alike
<1>8. r \in Stores
    BY <1>5 DEF Follows, Fine, Sound
<1> HIDE DEF named
<1>9. Steady(s, RecalculateEpicChain(r, at), named)
    BY <1>3, <1>6, <1>7, <1>8, ChainIsSteady
<1> QED BY <1>9 DEF r, row, u, at, route, named

(* A patch of an epic that leaves it open lowers its chain; the one it     *)
(* left is then raised, for it had something to do before.                 *)
LEMMA OpenIsSteady ==
    ASSUME treeSetting \in TreeSettings, NEW s, Fine(s), Stale(s) = {}, s.epics <= MaxEpicDepth,
           "phoenix" \notin Calls, NEW e \in Epics(s), NEW row \in EpicRows, NEW r,
           Patches(s, r, e, row), NEW named, Alike(s, r, named), Open(r, e),
           row.parent = s.epic[e].parent \/ s.epic[e].status # "done"
    PROVE  Steady(s, PatchedEpic(s, e, row), named)
<1> DEFINE old == s.epic[e].parent
           once == RecalculateEpicChain(r, e)
           u == RecalculateEpicChain(once, old)
<1>1. /\ r \in Stores /\ Forest(r) /\ Epics(r) = Epics(s) /\ r.epics = s.epics
      /\ r.epic[e] = row /\ \A x \in Epics(s) \ {e} : r.epic[x] = s.epic[x]
      /\ PatchedEpic(s, e, row) = u /\ old \in Nat /\ Follows(s, once, {old})
    BY DEF Patches
<1>2. s \in Stores /\ Forest(s) /\ e \in Nat /\ MaxEpicDepth \in Nat
    <2>1. s \in Stores /\ Forest(s)
        BY DEF Fine, Sound
    <2> QED BY <2>1, StoreFacts, SettingFacts
<1>3. once \in Stores /\ SameShape(r, once) /\ Epics(once) = Epics(r) /\ once.epics = s.epics
    BY <1>1, <1>2, ChainKeepsShape DEF SameShape
<1>4. Lowers(r, once)
    BY <1>1, <1>2, ChainLowers
<1>5. row.parent \notin Stale(once)
    BY <1>1, <1>2, ChainSettles
<1> HIDE DEF old, once
<1>6. Stale(once) \subseteq {old}
    BY <1>1, <1>3 DEF Follows
<1>7. NoneTooEarly(once)
    <2>1. CASE row.parent = old
        <3> DEFINE es == {}
        <3>1. Stale(once) \subseteq es /\ \A x \in es \cap Epics(once) : once.epic[x].status # "done"
            BY <2>1, <1>5, <1>6
        <3> HIDE DEF es
        <3> QED BY <3>1, NotTooEarly
    <2>2. CASE row.parent # old
        <3> DEFINE es == {old}
        <3>1. s.epic[e].status # "done"
            BY <2>2 DEF old
        <3>2. ASSUME old \in Epics(s) PROVE s.epic[old].status # "done"
            <4>1. e \in SubEpics(s, old)
                BY DEF SubEpics, old
            <4>2. s.epic[e].status \in ChildStatuses(s, old)
                BY <4>1 DEF ChildStatuses
            <4> QED BY <3>1, <3>2, <4>2 DEF Stale
        <3>3. old # e
            BY <1>2, NotItsOwnParent DEF old
        <3>4. \A x \in es \cap Epics(once) : once.epic[x].status # "done"
            BY <3>2, <3>3, <1>1, <1>3, <1>4 DEF Lowers
        <3>5. Stale(once) \subseteq es
            BY <1>6
        <3> HIDE DEF es
        <3> QED BY <3>4, <3>5, NotTooEarly
    <2> QED BY <2>1, <2>2
<1>8. Raises(once, u) /\ Epics(u) = Epics(r)
    BY <1>1, <1>2, <1>3, <1>7, ChainRaises, ChainKeepsShape DEF SameShape
<1> HIDE DEF u
<1>9. Steady(s, u, named)
    BY <1>3, <1>4, <1>8, SteadyThrough
<1> QED BY <1>1, <1>9

(* One that leaves none done too early raises both chains, be it that the  *)
(* epic itself has to be recalculated first.                               *)
LEMMA RaisedIsSteady ==
    ASSUME treeSetting \in TreeSettings, NEW s, Fine(s), NEW e \in Epics(s), NEW row \in EpicRows,
           NEW r, Patches(s, r, e, row), NEW first, first = r \/ first = RecalculateOne(r, e),
           NEW named, Alike(s, first, named), NoneTooEarly(first)
    PROVE  Steady(s, PatchedEpic(s, e, row), named)
<1> DEFINE old == s.epic[e].parent
           once == RecalculateEpicChain(r, e)
           u == RecalculateEpicChain(once, old)
<1>1. /\ r \in Stores /\ Forest(r) /\ Epics(r) = Epics(s)
      /\ PatchedEpic(s, e, row) = u /\ old \in Nat
    BY DEF Patches
<1>2. e \in Nat /\ MaxEpicDepth \in Nat /\ MaxEpicDepth > 0
    <2>1. s \in Stores
        BY DEF Fine, Sound
    <2> QED BY <2>1, StoreFacts, SettingFacts
<1>3. first \in Stores /\ Epics(first) = Epics(r) /\ once = RecalculateEpicChain(first, e)
    <2>1. CASE first = r
        BY <2>1, <1>1
    <2>2. CASE first = RecalculateOne(r, e)
        <3>1. first \in Stores /\ Epics(first) = Epics(r)
            BY <2>2, <1>1, RowsRolledUp DEF SameShape
        <3>2. once = RecalculateEpicChain(first, e)
            BY <2>2, <1>1, <1>2, ChainBegins
        <3> QED BY <3>1, <3>2
    <2> QED BY <2>1, <2>2
<1> HIDE DEF once, old
<1>4. once \in Stores /\ Epics(once) = Epics(first) /\ NoneTooEarly(once) /\ Raises(first, once)
    BY <1>2, <1>3, ChainRaises, ChainKeepsShape DEF SameShape
<1>5. Epics(u) = Epics(once) /\ Raises(once, u)
    BY <1>1, <1>2, <1>4, ChainRaises, ChainKeepsShape DEF SameShape
<1> HIDE DEF u
<1>6. Raises(first, u) /\ Lowers(first, first)
    BY <1>4, <1>5, RaisedOn DEF Lowers
<1>7. Steady(s, u, named)
    BY <1>4, <1>5, <1>6, SteadyThrough
<1> QED BY <1>1, <1>7

(* A status set by hand may put only that epic out of its place.           *)
LEMMA StatusSetSteadily ==
    ASSUME treeSetting \in TreeSettings, NEW s, Fine(s), Stale(s) = {}, s.epics <= MaxEpicDepth,
           "phoenix" \notin Calls, NEW e \in Epics(s), NEW status \in Status
    PROVE  Steady(s, PatchedEpic(s, e, [s.epic[e] EXCEPT !.status = status]), {e})
<1> DEFINE row == [s.epic[e] EXCEPT !.status = status]
           named == {e}
<1>1. s \in Stores /\ Forest(s) /\ s.epic[e] \in EpicRows
    <2>1. s \in Stores /\ Forest(s)
        BY DEF Fine, Sound
    <2> QED BY <2>1, StoreFacts
<1>2. row \in EpicRows /\ row.parent = s.epic[e].parent /\ row.status = status
    BY <1>1 DEF EpicRows
<1> HIDE DEF row
<1>3. PICK r : Patches(s, r, e, row)
    BY <1>2, RowPatched
<1>4. /\ r \in Stores /\ Forest(r) /\ Epics(r) = Epics(s) /\ r.task = s.task
      /\ r.epic[e] = row /\ \A x \in Epics(s) \ {e} : r.epic[x] = s.epic[x]
    BY <1>3 DEF Patches
<1>5. Alike(s, r, named)
    BY <1>4 DEF Alike
<1>6. CASE Open(r, e)
    <2> HIDE DEF named
    <2>1. Steady(s, PatchedEpic(s, e, row), named)
        BY <1>2, <1>3, <1>5, <1>6, OpenIsSteady
    <2> QED BY <2>1 DEF row, named
<1>7. CASE ~Open(r, e)
    <2> DEFINE first == RecalculateOne(r, e)
    <2>1. /\ SameShape(r, first)
          /\ \A x \in Epics(r) \ {e} : first.epic[x].status = r.epic[x].status
          /\ first.epic[e].status = DeriveEpicStatus(r.epic[e].status, ChildStatuses(r, e))
        BY <1>4, RowsRolledUp
    <2> HIDE DEF first
    <2>2. ChildStatuses(first, e) = ChildStatuses(r, e)
        <3>1. SubEpics(first, e) = SubEpics(r, e) /\ TasksOf(first, e) = TasksOf(r, e)
            BY <2>1, ShapeKeepsChildren
        <3>2. \A c \in SubEpics(r, e) : c \in Epics(r) \ {e}
            BY <1>4, NotItsOwnParent DEF SubEpics
        <3>3. \A c \in SubEpics(r, e) : first.epic[c].status = r.epic[c].status
            BY <3>2, <2>1
        <3>4. \A t \in TasksOf(r, e) : first.task[t].status = r.task[t].status
            BY <2>1 DEF SameShape
        <3> QED BY <3>1, <3>3, <3>4, SameChildStatuses
    <2>3. first.epic[e].status = "done" /\ ChildStatuses(first, e) \subseteq {"done"}
        <3> DEFINE below == ChildStatuses(r, e)
        <3>1. /\ below \subseteq {"done"} /\ (below # {} \/ r.epic[e].status = "done")
              /\ ChildStatuses(first, e) = below
              /\ first.epic[e].status = DeriveEpicStatus(r.epic[e].status, below)
            BY <1>4, <1>7, <2>1, <2>2 DEF Open
        <3> HIDE DEF below
        <3> QED BY <3>1 DEF DeriveEpicStatus
    <2>4. NoneTooEarly(s)
        BY DEF NoneTooEarly, Stale
    <2>5. /\ Epics(first) = Epics(s) /\ first.task = s.task
          /\ \A x \in Epics(s) : first.epic[x].parent = s.epic[x].parent
          /\ \A x \in Epics(s) \ {e} : first.epic[x].status = s.epic[x].status
        BY <1>2, <1>4, <2>1 DEF SameShape
    <2>6. NoneTooEarly(first)
        BY <2>3, <2>4, <2>5, MoreIsDone DEF Tasks
    <2>7. Alike(s, first, named)
        BY <2>5 DEF Alike
    <2> HIDE DEF named
    <2>8. Steady(s, PatchedEpic(s, e, row), named)
        BY <1>2, <1>3, <2>6, <2>7, RaisedIsSteady DEF first
    <2> QED BY <2>8 DEF row, named
<1> QED BY <1>6, <1>7

(* An epic that moves puts none out of its place.                          *)
LEMMA ParentSetSteadily ==
    ASSUME treeSetting \in TreeSettings, NEW s, Fine(s), Stale(s) = {}, s.epics <= MaxEpicDepth,
           "phoenix" \notin Calls, NEW e \in Epics(s), NEW p \in Epics(s) \cup {Root},
           p # Root => ValidEpicParent(s, e, p)
    PROVE  Steady(s, PatchedEpic(s, e, [s.epic[e] EXCEPT !.parent = p]), {})
<1> DEFINE row == [s.epic[e] EXCEPT !.parent = p]
           named == {}
<1>1. s \in Stores /\ Forest(s) /\ s.epic[e] \in EpicRows /\ p \in Nat
    <2>1. s \in Stores /\ Forest(s)
        BY DEF Fine, Sound
    <2> QED BY <2>1, StoreFacts DEF Root
<1>2. row \in EpicRows /\ row.parent = p /\ row.status = s.epic[e].status
    BY <1>1 DEF EpicRows
<1> HIDE DEF row
<1>3. PICK r : Patches(s, r, e, row)
    BY <1>2, RowPatched
<1>4. /\ r \in Stores /\ Forest(r) /\ Epics(r) = Epics(s) /\ r.task = s.task
      /\ r.epic[e] = row /\ \A x \in Epics(s) \ {e} : r.epic[x] = s.epic[x]
    BY <1>3 DEF Patches
<1>5. Alike(s, r, named)
    BY <1>2, <1>4 DEF Alike
<1> HIDE DEF named
<1>6. CASE s.epic[e].status = "done"
    <2>1. NoneTooEarly(s)
        BY DEF NoneTooEarly, Stale
    <2>2. NoneTooEarly(r)
        BY <2>1, <1>2, <1>4, <1>6, MoreIsDone DEF Tasks
    <2>3. Steady(s, PatchedEpic(s, e, row), named)
        BY <2>2, <1>2, <1>3, <1>5, RaisedIsSteady
    <2> QED BY <2>3 DEF row, named
<1>7. CASE s.epic[e].status # "done"
    <2>1. ChildStatuses(r, e) = ChildStatuses(s, e)
        <3>1. e \notin SubEpics(r, e) /\ e \notin SubEpics(s, e)
            BY <1>1, <1>4, NotItsOwnParent DEF SubEpics
        <3>2. SubEpics(r, e) = SubEpics(s, e)
            BY <3>1, <1>4 DEF SubEpics
        <3>3. TasksOf(r, e) = TasksOf(s, e)
            BY <1>4 DEF TasksOf, Tasks
        <3>4. \A c \in SubEpics(s, e) : r.epic[c].status = s.epic[c].status
            BY <3>1, <1>4 DEF SubEpics
        <3>5. \A t \in TasksOf(s, e) : r.task[t].status = s.task[t].status
            BY <1>4
        <3> QED BY <3>2, <3>3, <3>4, <3>5, SameChildStatuses
    <2>2. Open(r, e)
        <3> DEFINE below == ChildStatuses(s, e)
        <3>1. below = {} \/ below # {"done"}
            BY <1>7 DEF Stale
        <3>2. r.epic[e].status # "done" /\ ChildStatuses(r, e) = below
            BY <2>1, <1>2, <1>4, <1>7
        <3> HIDE DEF below
        <3> QED BY <3>1, <3>2 DEF Open
    <2>3. Steady(s, PatchedEpic(s, e, row), named)
        BY <2>2, <1>2, <1>3, <1>5, <1>7, OpenIsSteady
    <2> QED BY <2>3 DEF row, named
<1> QED BY <1>6, <1>7

(* A patch of a task's status: its epic is open, unless the task is done.  *)
LEMMA TaskPatchedSteadily ==
    ASSUME treeSetting \in TreeSettings, NEW s, Fine(s), NoneTooEarly(s), "phoenix" \notin Calls,
           NEW t \in Tasks(s), NEW status \in Status
    PROVE  Steady(s, PatchTask(s, t, status, s.task[t].repo), {})
<1> DEFINE prior == s.task[t]
           home == prior.epic
           g == [s.task EXCEPT ![t] = [@ EXCEPT !.status = status]]
           patched == [s EXCEPT !.task = g]
           rolled == IF status # prior.status THEN RecalculateEpicChain(patched, home) ELSE patched
           named == {}
<1>1. s \in Stores /\ Forest(s) /\ s.task \in [Tasks(s) -> TaskRows]
    BY StoreFacts DEF Fine, Sound
<1>2. prior \in TaskRows /\ home \in Epics(s) \cup {Root} /\ home \in Nat
    BY <1>1 DEF TaskRows, Forest, Root
<1>3. PatchTask(s, t, status, s.task[t].repo) = rolled
    <2>1. [s EXCEPT !.task[t].status = status, !.task[t].repo = prior.repo] = patched
        <3>1. [s.task[t] EXCEPT !.status = status, !.repo = prior.repo] = [s.task[t] EXCEPT !.status = status]
            BY <1>2 DEF TaskRows
        <3>2. s = [epic |-> s.epic, task |-> s.task, epics |-> s.epics, tasks |-> s.tasks]
            BY <1>1, StoreFacts
        <3>3. [s EXCEPT !.task[t].status = status, !.task[t].repo = prior.repo] =
                  [s EXCEPT !.task = [s.task EXCEPT ![t] = [s.task[t] EXCEPT !.status = status, !.repo = prior.repo]]]
            BY <3>2, <1>1
        <3> QED BY <3>1, <3>3
    <2>2. ~Respawns(s, t, status)
        BY DEF Respawns, Fine
    <2> HIDE DEF patched
    <2> QED BY <2>1, <2>2 DEF PatchTask
<1>4. /\ g \in [Tasks(s) -> TaskRows] /\ g[t].status = status /\ g[t].epic = home
      /\ \A x \in Tasks(s) : /\ g[x].epic = s.task[x].epic
                             /\ g[x].phoenix = s.task[x].phoenix
                             /\ x # t => g[x].status = s.task[x].status
    BY <1>1 DEF TaskRows
<1> HIDE DEF g
<1>5. Follows(s, patched, {home}) /\ patched.epic = s.epic /\ patched.task = g
    <2> DEFINE es == {home}
    <2>1. \A x \in Tasks(s) : /\ g[x].epic \in Epics(s) \cup {Root}
                              /\ g[x].phoenix => s.task[x].phoenix
                              /\ \/ s.task[x].epic \in es /\ g[x].epic \in es
                                 \/ g[x].epic = s.task[x].epic /\ g[x].status = s.task[x].status
        BY <1>1, <1>4 DEF Forest
    <2> HIDE DEF es
    <2>2. Follows(s, patched, es) /\ patched.epic = s.epic /\ patched.task = g
        BY <2>1, <1>4, TasksWritten
    <2> QED BY <2>2 DEF es
<1> HIDE DEF patched
<1>6. patched \in Stores /\ Epics(patched) = Epics(s) /\ Tasks(patched) = Tasks(s)
    BY <1>4, <1>5 DEF Follows, Fine, Sound, Epics, Tasks
<1>7. Alike(s, patched, named)
    BY <1>5 DEF Alike
<1>8. CASE status = prior.status
    BY <1>3, <1>7, <1>8 DEF Steady, Alike
<1>9. CASE status # prior.status
    <2>1. ASSUME status = "done" PROVE NoneTooEarly(patched)
        <3>1. \A x \in Tasks(patched) : /\ patched.task[x].epic = s.task[x].epic
                                        /\ patched.task[x].status \in {s.task[x].status, "done"}
            BY <2>1, <1>4, <1>5, <1>6
        <3> QED BY <3>1, <1>5, <1>6, MoreIsDone
    <2>2. ASSUME status # "done" PROVE Open(patched, home)
        <3>1. t \in TasksOf(patched, home) /\ patched.task[t].status = status
            BY <1>4, <1>5, <1>6 DEF TasksOf
        <3>2. status \in ChildStatuses(patched, home)
            BY <3>1 DEF ChildStatuses
        <3> QED BY <3>2, <2>2 DEF Open
    <2>3. Open(patched, home) \/ NoneTooEarly(patched)
        BY <2>1, <2>2
    <2> HIDE DEF home, named
    <2>4. Steady(s, RecalculateEpicChain(patched, home), named)
        BY <2>3, <1>2, <1>6, <1>7, ChainIsSteady
    <2> QED BY <2>4, <1>3, <1>9 DEF named
<1> QED BY <1>8, <1>9

(* What deletes leave has none done too early.                             *)
LEMMA LessIsNotTooEarly ==
    ASSUME NEW s, NEW r, NoneTooEarly(s), Epics(r) \subseteq Epics(s), Tasks(r) \subseteq Tasks(s),
           \A x \in Epics(r) : r.epic[x] = s.epic[x], \A t \in Tasks(r) : r.task[t] = s.task[t]
    PROVE  NoneTooEarly(r) /\ \A named : Alike(s, r, named)
<1>1. NoneTooEarly(r)
    BY MoreIsDone
<1> QED BY <1>1 DEF Alike

(* Deleting a task, of which only the ancestors may get done.              *)
LEMMA TaskRemovedSteadily ==
    ASSUME treeSetting \in TreeSettings, NEW s, Fine(s), NoneTooEarly(s), NEW t \in Tasks(s)
    PROVE  Steady(s, RecalculateEpicChain(WithoutTasks(s, {t}), s.task[t].epic), {})
<1> DEFINE r == WithoutTasks(s, {t})
           home == s.task[t].epic
           es == {home}
           ts == {t}
           named == {}
<1>1. home \in Nat
    <2>1. s \in Stores
        BY DEF Fine, Sound
    <2> QED BY <2>1, StoreFacts DEF TaskRows
<1>2. /\ Owes(s, r, es) /\ r.epic = s.epic /\ Tasks(r) = Tasks(s) \ {t}
      /\ \A x \in Tasks(r) : r.task[x] = s.task[x]
    <2>1. \A x \in Tasks(s) \cap ts : s.task[x].epic \in es
        OBVIOUS
    <2> HIDE DEF es, ts
    <2> DEFINE w == WithoutTasks(s, ts)
    <2>2. /\ Owes(s, w, es) /\ w.epic = s.epic /\ Tasks(w) = Tasks(s) \ ts
          /\ \A x \in Tasks(w) : w.task[x] = s.task[x]
        BY <2>1, TasksDeleted
    <2> QED BY <2>2 DEF ts
<1> HIDE DEF home, r, es, named
<1>3. NoneTooEarly(r) /\ Alike(s, r, named) /\ r \in Stores
    BY <1>2, LessIsNotTooEarly DEF Epics, Owes, Fine, Sound
<1>4. Steady(s, RecalculateEpicChain(r, home), named)
    BY <1>1, <1>3, ChainIsSteady
<1> QED BY <1>4 DEF home, r, named

(* Deleting an epic.                                                       *)
LEMMA EpicRemovedSteadily ==
    ASSUME treeSetting \in TreeSettings, NEW s, Fine(s), NoneTooEarly(s), NEW e \in Epics(s),
           EpicDeletable(s, e)
    PROVE  Steady(s, RecalculateEpicChain(DeleteEpicSubtree(s, e), s.epic[e].parent), {})
<1> DEFINE doomed == Doomed(s, e)
           over == s.epic[e].parent
           fs == {over}
           r == DeleteEpicSubtree(s, e)
           named == {}
<1>1. s \in Stores /\ over \in Nat /\ MaxEpicDepth \in Nat /\ ~SubtreeExceedsDepth(s, e)
    <2>1. s \in Stores /\ ~SubtreeExceedsDepth(s, e)
        BY DEF Fine, Sound, EpicDeletable
    <2> QED BY <2>1, StoreFacts, SettingFacts DEF EpicRows
<1>2. Closed(s, doomed) /\ \A x \in doomed : x = e \/ s.epic[x].parent \in doomed
    BY <1>1, DoomedFacts
<1>3. r = WithoutEpics(s, doomed)
    BY DEF DeleteEpicSubtree
<1> HIDE DEF doomed, r
<1>4. \A x \in doomed : s.epic[x].parent \in doomed \cup fs
    BY <1>2
<1> HIDE DEF fs, named
<1>5. /\ Owes(s, r, fs)
      /\ Epics(r) = Epics(s) \ doomed /\ \A x \in Epics(r) : r.epic[x] = s.epic[x]
      /\ Tasks(r) = {t \in Tasks(s) : s.task[t].epic \notin doomed}
      /\ \A t \in Tasks(r) : r.task[t] = s.task[t]
    BY <1>2, <1>3, <1>4, SubtreesDeleted
<1>6. NoneTooEarly(r) /\ Alike(s, r, named) /\ r \in Stores
    BY <1>5, LessIsNotTooEarly DEF Owes, Fine, Sound
<1> HIDE DEF over
<1>7. Steady(s, RecalculateEpicChain(r, over), named)
    BY <1>1, <1>6, ChainIsSteady
<1> QED BY <1>7 DEF over, r, named

(* Deleting a batch, in whichever order it recalculates.                   *)
LEMMA BatchDeletedSteadily ==
    ASSUME treeSetting \in TreeSettings, Fine(store), NoneTooEarly(store),
           NEW ts \in SUBSET Tasks(store), NEW es \in SUBSET Epics(store),
           \A e \in es : EpicDeletable(store, e)
    PROVE  LET doomed == UNION {Doomed(store, e) : e \in es}
               left == {t \in ts : store.task[t].epic \notin doomed}
               gone == WithoutTasks(WithoutEpics(store, doomed), left)
               touched == {store.epic[e].parent : e \in es} \cup {store.task[t].epic : t \in left}
           IN  \A order \in Orders(touched) : Steady(store, RecalculateAll(gone, order), {})
<1> DEFINE doomed == UNION {Doomed(store, e) : e \in es}
           left == {t \in ts : store.task[t].epic \notin doomed}
           without == WithoutEpics(store, doomed)
           gone == WithoutTasks(without, left)
           touched == {store.epic[e].parent : e \in es} \cup {store.task[t].epic : t \in left}
           named == {}
<1>1. Closed(store, doomed) /\ \A x \in doomed : store.epic[x].parent \in doomed \cup touched
    <2>1. ASSUME NEW e \in es
          PROVE  /\ Closed(store, Doomed(store, e))
                 /\ \A x \in Doomed(store, e) : x = e \/ store.epic[x].parent \in Doomed(store, e)
        <3>1. /\ e \in Epics(store) /\ ~SubtreeExceedsDepth(store, e) /\ store \in Stores
              /\ MaxEpicDepth \in Nat
            BY SettingFacts DEF EpicDeletable, Fine, Sound
        <3> QED BY <3>1, DoomedFacts
    <2> QED BY <2>1 DEF Closed
<1>2. touched \in SUBSET Nat /\ IsFiniteSet(touched)
    <2>1. store \in Stores /\ Forest(store)
        BY DEF Fine, Sound
    <2>2. touched \subseteq Epics(store) \cup {Root}
        BY <2>1 DEF Forest
    <2>3. Epics(store) \subseteq 1..store.epics /\ store.epics \in Nat
        BY <2>1, StoreFacts
    <2>4. touched \in SUBSET (0..store.epics)
        <3> HIDE DEF touched
        <3> QED BY <2>2, <2>3 DEF Root
    <2> HIDE DEF touched
    <2>5. IsFiniteSet(0..store.epics)
        BY <2>3, FS_Interval
    <2>6. IsFiniteSet(touched)
        BY <2>4, <2>5, FS_Subset
    <2> QED BY <2>3, <2>4, <2>6
<1>3. \A t \in left : store.task[t].epic \in touched
    OBVIOUS
<1> HIDE DEF doomed, touched, named
<1>4. /\ Owes(store, without, touched)
      /\ Epics(without) = Epics(store) \ doomed
      /\ \A x \in Epics(without) : without.epic[x] = store.epic[x]
      /\ Tasks(without) = {t \in Tasks(store) : store.task[t].epic \notin doomed}
      /\ \A t \in Tasks(without) : without.task[t] = store.task[t]
    BY <1>1, SubtreesDeleted
<1>5. \A t \in Tasks(without) \cap left : without.task[t].epic \in touched
    BY <1>3, <1>4
<1> HIDE DEF without, left
<1>6. Fine(without)
    BY <1>4 DEF Owes
<1>7. /\ Owes(without, gone, touched) /\ gone.epic = without.epic
      /\ Tasks(gone) = Tasks(without) \ left
      /\ \A t \in Tasks(gone) : gone.task[t] = without.task[t]
    BY <1>5, <1>6, TasksDeleted
<1> HIDE DEF gone
<1>8. NoneTooEarly(gone) /\ Alike(store, gone, named) /\ Sound(gone)
    <2>1. Epics(gone) \subseteq Epics(store) /\ Tasks(gone) \subseteq Tasks(store)
        BY <1>4, <1>7 DEF Epics
    <2>2. /\ \A x \in Epics(gone) : gone.epic[x] = store.epic[x]
          /\ \A t \in Tasks(gone) : gone.task[t] = store.task[t]
        BY <1>4, <1>7 DEF Epics
    <2> QED BY <2>1, <2>2, <1>7, LessIsNotTooEarly DEF Owes, Fine
<1>9. ASSUME NEW order \in Orders(touched)
      PROVE  Steady(store, RecalculateAll(gone, order), named)
    <2> DEFINE u == RecalculateAll(gone, order)
    <2>1. Chained(gone, touched, u)
        BY <1>2, <1>8, AllRecalculated
    <2> HIDE DEF u
    <2>2. Epics(u) = Epics(gone) /\ Raises(gone, u) /\ Lowers(gone, gone)
        BY <2>1, <1>8 DEF Chained, SameShape, Lowers
    <2>3. Steady(store, u, named)
        BY <2>2, <1>8, SteadyThrough
    <2> QED BY <2>3 DEF u
<1> QED BY <1>9 DEF gone, without, left, touched, doomed, named

(* Between two stores in which no epic is stale, a transaction that is     *)
(* steady but for epics whose status it sets by hand preserves placements. *)
LEMMA SteadyPlaces ==
    ASSUME Whole, Whole', RollUpReaches, NEW r, Leaves(r), NEW named, Steady(store, r, named),
           \A x \in named : \E status \in Status : SetEpicStatus(x, status)
    PROVE  PreservesPlacements
<1>1. store' = r /\ RollUpReaches'
    BY DEF Leaves, RollUpReaches, MaxEpicDepth, Calls
<1>2. Stale(store) = {} /\ Stale(r) = {}
    <2>1. Stale(store)' = {}
        BY <1>1 DEF Whole
    <2>2. Stale(store) = {}
        BY DEF Whole
    <2>3. Stale(store') = Stale(r)
        BY <1>1
    <2> QED BY <2>1, <2>2, <2>3
<1>3. ASSUME NEW e \in Epics(store) \cap Epics(r), r.epic[e].status # store.epic[e].status,
             e \notin named
      PROVE  ChildStatuses(store, e) \subseteq {"done"} \/ ChildStatuses(r, e) \subseteq {"done"}
    <2>1. store.epic[e].status = "done" \/ r.epic[e].status = "done"
        BY <1>3 DEF Steady
    <2>2. CASE store.epic[e].status = "done"
        BY <2>2, <1>2 DEF Stale
    <2>3. CASE r.epic[e].status = "done"
        BY <2>3, <1>2 DEF Stale
    <2> QED BY <2>1, <2>2, <2>3
<1> QED BY <1>1, <1>3 DEF PreservesPlacements

(* Every transaction of tasks that stay put does.                          *)
LEMMA PlacementsPreserved ==
    ASSUME Whole, Whole', [TreeNext]_treeVars, RollUpReaches, TasksStayPut
    PROVE  PreservesPlacements
<1>1. /\ treeSetting \in TreeSettings /\ Fine(store) /\ store \in Stores
      /\ Stale(store) = {} /\ NoneTooEarly(store)
      /\ "phoenix" \notin Calls /\ "group" \notin Calls /\ "move" \notin Calls
      /\ "repo" \notin Calls /\ "update" \notin Calls
    BY DEF Whole, Fine, Sound, RollUpReaches, TasksStayPut, NoneTooEarly, Stale
<1>2. store.epics <= MaxEpicDepth
    <2>1. /\ store.epics <= treeSetting.epics /\ treeSetting.epics <= MaxEpicDepth
          /\ store.epics \in Nat /\ treeSetting.epics \in Nat /\ MaxEpicDepth \in Nat
        BY <1>1, StoreFacts, SettingFacts, EpicTreeAssumption DEF Whole, RollUpReaches
    <2> QED BY <2>1
<1>3. ASSUME NEW r, Leaves(r), Steady(store, r, {}) PROVE PreservesPlacements
    <2> DEFINE named == {}
    <2>1. Steady(store, r, named) /\ \A x \in named : \E status \in Status : SetEpicStatus(x, status)
        BY <1>3
    <2> HIDE DEF named
    <2> QED BY <2>1, <1>3, SteadyPlaces
<1>4. ASSUME NEW p \in Epics(store) \cup {Root}, CreateEpic(p) PROVE PreservesPlacements
    <2> DEFINE r == RecalculateEpicChain(InsertEpic(store, NewEpic(p)), p)
    <2>1. Steady(store, r, {})
        BY <1>1, EpicMadeSteadily
    <2>2. Leaves(r)
        BY <1>4 DEF CreateEpic
    <2> HIDE DEF r
    <2> QED BY <2>1, <2>2, <1>3
<1>5. ASSUME NEW e \in Epics(store) \cup {Root}, NEW repo \in Repos, NEW phoenix \in BOOLEAN,
             phoenix => "phoenix" \in Calls, CreateTask(e, repo, phoenix)
      PROVE  PreservesPlacements
    <2> DEFINE route == RouteToRepoGroup(store, e, repo)
               r == RecalculateEpicChain(
                        InsertTask(route.store, NewTask(route.epic, repo, phoenix)), route.epic)
    <2>1. Steady(store, r, {})
        BY <1>1, <1>5, TaskMadeSteadily
    <2>2. Leaves(r)
        BY <1>5 DEF CreateTask
    <2> HIDE DEF r
    <2> QED BY <2>1, <2>2, <1>3
<1>6. ASSUME NEW e \in Epics(store), NEW status \in Status, SetEpicStatus(e, status)
      PROVE  PreservesPlacements
    <2> DEFINE r == PatchedEpic(store, e, [store.epic[e] EXCEPT !.status = status])
               named == {e}
    <2>1. Steady(store, r, named)
        BY <1>1, <1>2, StatusSetSteadily
    <2>2. Leaves(r)
        BY <1>6 DEF SetEpicStatus
    <2>3. \A x \in named : \E st \in Status : SetEpicStatus(x, st)
        BY <1>6
    <2> HIDE DEF r, named
    <2> QED BY <2>1, <2>2, <2>3, SteadyPlaces
<1>7. ASSUME NEW e \in Epics(store), NEW p \in Epics(store) \cup {Root}, SetEpicParent(e, p)
      PROVE  PreservesPlacements
    <2> DEFINE r == PatchedEpic(store, e, [store.epic[e] EXCEPT !.parent = p])
    <2>1. Leaves(r) /\ (p # Root => ValidEpicParent(store, e, p))
        BY <1>7 DEF SetEpicParent
    <2>2. Steady(store, r, {})
        BY <2>1, <1>1, <1>2, ParentSetSteadily
    <2> HIDE DEF r
    <2> QED BY <2>1, <2>2, <1>3
<1>8. ASSUME NEW t \in Tasks(store), NEW status \in Status,
             PatchTaskRow(t, status, store.task[t].repo)
      PROVE  PreservesPlacements
    <2> DEFINE r == PatchTask(store, t, status, store.task[t].repo)
    <2>1. Steady(store, r, {})
        BY <1>1, TaskPatchedSteadily
    <2>2. Leaves(r)
        BY <1>8 DEF PatchTaskRow
    <2> HIDE DEF r
    <2> QED BY <2>1, <2>2, <1>3
<1>9. ASSUME NEW t \in Tasks(store), RemoveTask(t) PROVE PreservesPlacements
    <2> DEFINE r == RecalculateEpicChain(WithoutTasks(store, {t}), store.task[t].epic)
    <2>1. Steady(store, r, {})
        BY <1>1, TaskRemovedSteadily
    <2>2. Leaves(r)
        BY <1>9 DEF RemoveTask
    <2> HIDE DEF r
    <2> QED BY <2>1, <2>2, <1>3
<1>10. ASSUME NEW e \in Epics(store), RemoveEpic(e) PROVE PreservesPlacements
    <2> DEFINE r == RecalculateEpicChain(DeleteEpicSubtree(store, e), store.epic[e].parent)
    <2>1. EpicDeletable(store, e) /\ Leaves(r)
        BY <1>10 DEF RemoveEpic
    <2>2. Steady(store, r, {})
        BY <2>1, <1>1, EpicRemovedSteadily
    <2> HIDE DEF r
    <2> QED BY <2>1, <2>2, <1>3
<1>11. ASSUME NEW ts \in SUBSET Tasks(store), NEW es \in SUBSET Epics(store), BatchDelete(ts, es)
       PROVE  PreservesPlacements
    <2> DEFINE doomed == UNION {Doomed(store, e) : e \in es}
               left == {t \in ts : store.task[t].epic \notin doomed}
               gone == WithoutTasks(WithoutEpics(store, doomed), left)
               touched == {store.epic[e].parent : e \in es} \cup {store.task[t].epic : t \in left}
    <2>1. \A e \in es : EpicDeletable(store, e)
        BY <1>11 DEF BatchDelete
    <2>2. PICK order \in Orders(touched) : Leaves(RecalculateAll(gone, order))
        BY <1>11 DEF BatchDelete
    <2>3. \A o \in Orders(touched) : Steady(store, RecalculateAll(gone, o), {})
        BY <2>1, <1>1, BatchDeletedSteadily
    <2> HIDE DEF touched, gone
    <2>4. Steady(store, RecalculateAll(gone, order), {})
        BY <2>3
    <2> QED BY <2>2, <2>4, <1>3
<1>12. CASE UNCHANGED treeVars
    BY <1>12 DEF treeVars, PreservesPlacements
<1>13. CASE TreeNext
    BY <1>1, <1>13, <1>4, <1>5, <1>6, <1>7, <1>8, <1>9, <1>10, <1>11 DEF TreeNext
<1> QED BY <1>12, <1>13

(* Finished work is all that a transaction takes, and where the roll-up    *)
(* reaches and tasks stay in the epic they were made in, a status written  *)
(* by hand stays until the epic's children all finish.                     *)
THEOREM WorkIsKept == TreeSpec => TreesKeepWork
<1> DEFINE Does == DeletesOnlyFinishedWork /\ (RollUpReaches /\ TasksStayPut => PreservesPlacements)
<1>1. Whole /\ [TreeNext]_treeVars => Whole'
    BY WholeStays DEF Kept
<1>2. TreeInit => Whole
    BY WholeAtFirst
<1>3. Whole /\ [TreeNext]_treeVars => [Does]_treeVars
    BY WholeStays, PlacementsPreserved DEF Kept
<1> QED BY <1>1, <1>2, <1>3, PTL DEF TreeSpec, TreesKeepWork
=============================================================================
