SPECIFICATION Spec
CONSTANTS
    None = None
    t1 = t1
    t2 = t2
    e1 = e1
    e2 = e2
    Task = {t1}
    Host = {h1, h2}
    User = {u1, u2}
    Epic = {e1}
    Worktree = {w1}
    Window = {win1}
    EpicOf <- InFirstEpic
    Parent <- FlatEpic
    MaxRequests = 2
    Deadline = 1
    Grace = 1
    Retention = 1
    Origins = {"user"}
    Patches <- AllPatches
SYMMETRY HostSymmetry
INVARIANTS
    TypeOK
    RequestRowsAgree
    OpenLaunchOwnsTheAgent
PROPERTIES
    NoClaimIsStranded
    FailuresTakeOnlyTheClaim
    LeaseIsRespected
CHECK_DEADLOCK FALSE
