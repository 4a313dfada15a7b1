SPECIFICATION ProgramSpec
CONSTANTS
    None = None
    MaxStrokes = 3
    MaxSteps = 3
    Field = "field"
    Home = "root"
    Strokes <- MCStrokes
    Elements <- MCElements
    Roots <- MCRoots
    Planted <- MCPlanted
    Containers <- MCContainers
    Sinks <- MCSinks
    Inputs <- MCInputs
    Delegate <- MCDelegate
    Names <- MCNames
    Values <- MCValues
    First <- MCFirst
    Does <- MCDoes
    Renewed <- MCRenewed
    Specifiers = {"s"}
    Events = {"x", "y"}
    Dispatches = {"d"}
    Signatures = {"a", "b"}
    Owners = {"o1", "o2"}
    Listeners = {"g1", "g2"}
    Threads = {"p"}
    MaxStorages = 3
    MaxStates = 2
    MaxSigCalls = 4
    Registry <- MCRegistry
    Sizes <- MCSizes
    Bases <- MCBases
    Views <- MCViews
    MaxFrames = 3
    Loggers = {"l1", "l2"}
    Pagers = {"p1"}
    Sinkers = {"s1", "s2"}
    RingSize = 1
    MaxLogs = 2
    MaxPages = 1
INVARIANTS
    InputWhole
    PointersKnown
    KeynavVisits
    BindsActive
    KeysOnce
    ArgumentsMatch
    OwnersRegistered
    ScreenShown
    LogsWhole
CHECK_DEADLOCK FALSE
