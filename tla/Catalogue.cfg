CONSTANTS
    Users = {u1, u2}
    Founder = u1
    Refreshes = {r1, r2}
    Requests = {q1, q2}
    None = None
    Cooldown = 2
    MaxClock = 3
    MaxVersion = 2
    MaxChanges = 1
    Scenes <- MCScenes
    Faults <- MCAllFaults
    MaxFaults = 1
    Prices <- MCPrices
    PartsPerNanoton = 2
    Gas = 20
    Num = 21
    Den = 20
SPECIFICATION FairSpec
INVARIANTS
    CooldownKept
    ListedByAdmin
    DealAsOffered
    PayoutIsPrice
PROPERTIES
    StatisticsKept
    ChannelSynced
    RefreshServed
    OwnerAndChannelKept
CHECK_DEADLOCK FALSE
