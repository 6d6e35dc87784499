SPECIFICATION Spec
CONSTANTS
    Conn = {c1, c2, c3}
    MaxFaults = 2
    Prompt = TRUE
    Ops = {"identity unreadable", "socket dies"}
PROPERTY
    DropsAreItsOwn
CHECK_DEADLOCK FALSE
