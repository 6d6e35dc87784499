SPECIFICATION MCFairSpec
CONSTANTS
    Nobody = Nobody
    NoMachine = NoMachine
    b1 = b1
    b2 = b2
    p1 = p1
    p2 = p2
    s1 = s1
    s2 = s2
    Settings <- AllActivities
    Threshold = 1
    BoardSettings <- AllBoards
    PrSettings <- AllPullRequests
    ViewSettings <- AllViews
    Chosen = {"ordered", "notes", "resume", "followed", "unreadable", "merged", "alone"}
PROPERTIES
    TurnsAreShown
    WindowLossIsNoticed
    PullRequestsAreFollowed
    TheBoardCatchesUp
CHECK_DEADLOCK FALSE
