SPECIFICATION Spec
CONSTANTS
    key = key
    t1 = t1
    t2 = t2
    Triggers = {t1, t2}
    Handles = {h}
    Keys <- MCKeys
    Generic = Generic
    Dispatch <- MCDispatch
    Specifiers <- MCSpecifiers
    FlagSets <- EvictingFlagSets
    MainOnly <- NoFlagSets
    Capacity = 2
    MaxTriggers = 3
INVARIANTS
    OneConsumer
CHECK_DEADLOCK FALSE
