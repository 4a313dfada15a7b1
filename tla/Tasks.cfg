SPECIFICATION TasksSpec
CONSTANTS
    Producers = {p1, p2}
    Consumers = {c}
    Values = {a, b}
    NoValue = NoValue
    Size = 2
    MaxTickets = 3
    Users = {u1, u2}
    Shapes = {"launch", "deferred", "cyclic", "co"}
    MaxRuns = 2
    MaxOps = 3
INVARIANTS
    NoSlotRace
    Accounted
    NoValueRace
PROPERTIES
    ImplementsQueue
    NobodyLeftWaiting
CHECK_DEADLOCK FALSE
