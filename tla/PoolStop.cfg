SPECIFICATION FairSpec
CONSTANTS
    Callers = {c1}
    Main = main
    Workers = {w1, w2}
    Tasks = {x1, x2}
    Size = 1
    GrowAt = 1
    PressureAt = 2
    Policies = {"Discard"}
CHECK_DEADLOCK FALSE
PROPERTY StopReturns
