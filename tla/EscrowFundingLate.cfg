CONSTANTS
    Workers = {w1}
    EscrowAmount = 2
    Capacity = 2
    MaxWallets = 1
    MaxDeposits = 2
    Faults = {}
    MaxFaults = 0
SPECIFICATION FairSpec
CHECK_DEADLOCK FALSE
PROPERTIES
    DepositHonoured
