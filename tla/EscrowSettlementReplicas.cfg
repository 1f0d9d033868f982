CONSTANTS
    Workers = {w1, w2}
    Faults <- MCAllFaults
    MaxFaults = 1
    MaxFunds = 2
SPECIFICATION Spec
CHECK_DEADLOCK FALSE
SYMMETRY MCSymmetry
INVARIANTS
    PaidByVerdict
