SPECIFICATION SessionSpec
CONSTANTS
    None = None
    t1 = t1
    t2 = t2
    e1 = e1
    e2 = e2
    Task = {t1}
    Host = {h1}
    User = {u1}
    Epic = {e1}
    Worktree = {w1}
    Window = {win1}
    EpicOf <- InFirstEpic
    Parent <- FlatEpic
    MaxRequests = 2
    Deadline = 1
    Grace = 1
    Retention = 1
    Origins = {"user"}
    Patches <- MovesAndResume
    MaxSessions = 3
    WrapUpDeadline = 1
    TeardownDeadline = 1
    SessionGrace = 1
    AutoDispatch = {e1}
    Actions = {"rebase"}
    Created <- Plain
INVARIANTS
    SessionTypeOK
    SessionRowsAgree
PROPERTIES
    TokensAreNeverRevived
    TokensEndByARule
CHECK_DEADLOCK FALSE
