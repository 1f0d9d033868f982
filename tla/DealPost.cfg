CONSTANTS
    Workers = {w1}
    ListingTypes = {"lessor", "lessee"}
    Hour = 2
    Duration = 2
    MaxPostedAt = 1
    MaxEarlier = 1
    MaxTime = 8
    MaxDrift = 1
    MaxMessages = 4
    Faults <- MCBenignFaults
    MaxFaults = 2
SPECIFICATION FairSpec
CHECK_DEADLOCK FALSE
INVARIANTS
    PostedOnce
    VerdictTrue
PROPERTIES
    Judged
