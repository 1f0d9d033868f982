CONSTANTS
    Workers = {w1}
    MaxSeqNo = 3
    Faults <- MCAllFaults
    MaxFaults = 1
SPECIFICATION FairSpec
INVARIANTS
    RecordedIsSent
    RepeatedBySplitOnly
PROPERTY
    EventuallyScanned
CHECK_DEADLOCK FALSE
