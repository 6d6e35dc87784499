SPECIFICATION Spec
CONSTANTS
    Task = {t1}
    MaxSessions = 2
    MaxFaults = 0
    Ops = {"deadline"}
PROPERTIES
    WorkIsKept
CHECK_DEADLOCK FALSE
