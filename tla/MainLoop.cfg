SPECIFICATION FairSpec
CONSTANTS
    Callers = {c1, c2}
    Timers = {d1}
    Size = 1
    MaxCalls = 3
INVARIANTS
    NoLostWakeup
PROPERTIES
    Served
    CyclesFollow
CHECK_DEADLOCK FALSE
