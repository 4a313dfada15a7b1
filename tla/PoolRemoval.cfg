SPECIFICATION FairSpec
CONSTANTS
    Callers = {c1}
    Main = main
    Workers = {w1}
    Tasks = {x1, x2, x3}
    Size = 1
    GrowAt = 1
    PressureAt = 2
    Policies = {"Wait"}
PROPERTY AcceptedRuns
CHECK_DEADLOCK FALSE
