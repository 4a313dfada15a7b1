SPECIFICATION FairSpec
CONSTANTS
    key = key
    t1 = t1
    t2 = t2
    Triggers = {t1, t2}
    Handles = {h}
    Keys <- MCKeys
    Generic = Generic
    Dispatch <- MCDispatch
    Specifiers <- MCSpecifiers
    FlagSets <- MCFlagSets
    MainOnly <- MCMainOnly
    Capacity = 2
    MaxTriggers = 3
INVARIANTS
    InOrder
PROPERTIES
    StatesObeyed
    EventuallyDrained
CHECK_DEADLOCK FALSE
