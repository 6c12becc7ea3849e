SPECIFICATION Spec
CONSTANTS
    Peers = {p1, p2}
    MaxOutbound = 1
    MaxDials = 1
    MaxInbound = 1
    MaxBackoff = 0
    PendingLimit = {}
    TrustedOnly = FALSE
    MaxLoss = 2
    MaxStimuli = 3
INVARIANT SlotsOccupied
CHECK_DEADLOCK FALSE
