CONSTANTS
    Workers = {w1, w2}
    ListingTypes = {"lessor", "lessee"}
    Hour = 1
    Duration = 2
    MaxPostedAt = 0
    MaxEarlier = 0
    MaxTime = 3
    MaxDrift = 1
    MaxMessages = 2
    Faults <- MCAllFaults
    MaxFaults = 1
SPECIFICATION Spec
SYMMETRY MCSymmetry
CHECK_DEADLOCK FALSE
INVARIANTS
    RowMatchesDeal
    PassedWithinHour
PROPERTY
    RowKept
