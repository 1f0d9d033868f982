CONSTANTS
    Users = {lessor, lessee}
    Lessor = lessor
    Lessee = lessee
    Options <- MCOptions
    Decimal <- MCDecimal
    Details = {text, blank}
    BlankDetails = {blank}
    UserId <- MCUserId
    Addresses <- MCAddresses
    None = None
    Requests = {r1, r2}
    MaxRequests = 7
SPECIFICATION Spec
SYMMETRY MCSymmetry
CHECK_DEADLOCK FALSE
INVARIANTS
    TypeOK
    ApprovedOnSameTerms
    ApprovedIsExecutable
PROPERTY
    ClosedDealFrozen
