CONSTANTS
    Workers = {w1}
    Faults <- MCBenignFaults
    MaxFaults = 3
    MaxFunds = 2
SPECIFICATION FairSpec
CHECK_DEADLOCK FALSE
INVARIANTS
    TypeOK
    PaidOnce
PROPERTIES
    ImplementsLifecycle
    Settled
