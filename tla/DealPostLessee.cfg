CONSTANTS
    Workers = {w1}
    ListingTypes = {"lessor", "lessee"}
    Hour = 2
    Duration = 2
    MaxPostedAt = 1
    MaxEarlier = 0
    MaxTime = 6
    MaxDrift = 0
    MaxMessages = 1
    Faults = {}
    MaxFaults = 0
SPECIFICATION FairSpec
CHECK_DEADLOCK FALSE
PROPERTY
    FundedIsPosted
