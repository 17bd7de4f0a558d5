SPECIFICATION FairSpec
CONSTANTS
    Kinds <- Everything
    FenceKinds <- OneFlag
    SyncAtOnce = 1
    Window = 1
    MaxOutstanding = 1
    QueueSize = 1
    Socket = 3
    MaxSends = 4
INVARIANTS TypeOK SyncAgainstUpdate StreamsInOrder
PROPERTIES FencesKept 
CHECK_DEADLOCK FALSE
