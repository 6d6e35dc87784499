SPECIFICATION MCSpec
CONSTANTS
    NoHost = NoHost
    Person = Person
    Nobody = Nobody
    h1 = h1
    h2 = h2
    b1 = b1
    b2 = b2
    i1 = i1
    i2 = i2
    t1 = t1
    t2 = t2
    c1 = c1
    c2 = c2
    c3 = c3
    Host = {h1, h2}
    Board = {b1, b2}
    Item = {i1, i2}
    FeedSettings <- ChosenFeeds
    Task = {t1, t2}
    Push = {c1}
    Events = {"deadline", "pull fails", "check out between"}
    Conn = {c1, c2, c3}
    MaxFaults = 6
    Ops = {"connect fails", "identity unreadable", "local write fails", "subscribe fails", "socket dies"}
    Prompt = TRUE
    Chosen = {"cycles", "degraded", "handover", "answers", "races", "teardowns", "reconnect"}
SYMMETRY Alike
INVARIANTS
    LeftoversAreOwed
    WrapUpsAreClean
    ConnectionsAreHonest
PROPERTIES
    OpenItemsStay
CHECK_DEADLOCK FALSE
