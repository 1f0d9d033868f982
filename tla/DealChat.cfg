CONSTANTS
    Requests = {r1, r2}
    MaxCopies = 2
    Faults <- MCAllFaults
    MaxFaults = 2
SPECIFICATION FairSpec
INVARIANTS
    OneConversation
    RowHasTopics
    NoStrayTopic
    MirroredToPartner
PROPERTY
    ChatClosed
CHECK_DEADLOCK FALSE
