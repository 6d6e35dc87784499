SPECIFICATION FinishSpec
CONSTANTS
    Person = Person
    Nobody = Nobody
    Task = {t1}
    Push = {c1}
    Events = {"check out"}
INVARIANTS
    ReportedMeansLanded
CHECK_DEADLOCK FALSE
