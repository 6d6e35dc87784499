SPECIFICATION Spec
CONSTANTS
    Nobody = Nobody
    Root = Root
    ann = ann
    bob = bob
    w1 = w1
    w2 = w2
    e1 = e1
    e2 = e2
    t1 = t1
    k1 = k1
    Person = {ann, bob}
    Workspace = {w1, w2}
    Epic = {e1, e2}
    Task = {t1}
    Package = {k1}
    Starts <- ChosenStarts
    Chosen = {"people", "sight", "follows", "tasks", "feeds", "links", "marks", "holders", "hatch"}
INVARIANTS
    ClaimsFollowSight
    NothingPointsAcross
PROPERTIES
    HoldersDecide
CHECK_DEADLOCK FALSE
