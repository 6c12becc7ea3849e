CONSTANTS
    Senders = {1, 2}
    MaxNonce = 2
    Limit <- MCLimit
    MaxSlots = 2
    PriceBump = 10
    BlobPriceBump = 100
    Worlds <- MCWorlds
    MaxUpdateDepth = 1
    MaxReload = 1
    QueueSize = 1
SPECIFICATION Spec
CHECK_DEADLOCK FALSE
INVARIANT PendingPays
