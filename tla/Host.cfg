SPECIFICATION MCSpec
CONSTANTS
    None = None
    t1 = t1
    h1 = h1
    h2 = h2
    u1 = u1
    u2 = u2
    w1 = w1
    win1 = win1
    Task = {t1}
    Host = {h1, h2}
    User = {u1, u2}
    Epic = {}
    Worktree = {w1}
    Window = {win1}
    EpicOf <- OnUserBoard
    Parent <- FlatEpic
    OwnerOf <- OwnBoards
    PathOf <- OnePath
    WindowOf <- OneName
    MaxRequests = 2
    Deadline = 1
    Grace = 1
    Retention = 1
    Origins = {"user"}
    Patches <- Reopen
    Settings <- Surroundings
INVARIANTS
    OnlyTheClaimedRequestProvisions
    FailuresLeaveNoTrace
    RestartedBoardsServeTheirClaims
PROPERTIES
    AttemptsEnd
CHECK_DEADLOCK FALSE
