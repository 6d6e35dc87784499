SPECIFICATION MCSpec
CONSTANTS
    Manual = Manual
    i1 = i1
    i2 = i2
    Item <- MCItem
    Repo <- MCRepo
    UrlRepo <- MCUrlRepo
    PathRepo <- MCPathRepo
    IngestSettings <- MCIngestSettings
    MaxAncestorWalk = 3
    TreeSettings <- MCTreeSettings
    Chosen = {"shape", "rollUp", "groups", "updates", "reborn", "reviews", "grouping", "flat", "grouped"}
INVARIANTS
    TreesStayWhole
    OneTaskPerItem
PROPERTIES
    TreesKeepWork
    MirrorsTheFeed
    FeedRowsStay
CHECK_DEADLOCK FALSE
