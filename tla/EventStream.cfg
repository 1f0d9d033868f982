CONSTANTS
    Kinds = {"update", "notification", "stats"}
    MaxEvents = 4
    Poison = {1, 3}
    Limit = 2
    MinIdle = 2
    Faults <- MCAllFaults
    MaxFaults = 3
SPECIFICATION FairSpec
INVARIANTS
    NothingForgotten
    RepeatedByFaultOnly
PROPERTY
    EventuallyHandled
