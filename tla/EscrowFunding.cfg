CONSTANTS
    Workers = {w1}
    EscrowAmount = 2
    Capacity = 1
    MaxWallets = 4
    MaxDeposits = 3
    Faults <- MCAllFaults
    MaxFaults = 3
SPECIFICATION FairSpec
CHECK_DEADLOCK FALSE
INVARIANTS
    KeyMatchesAddress
    ConfirmedIsFunded
    ExpiredIsOverdue
PROPERTIES
    ImplementsLifecycle
    WaitingEnds
