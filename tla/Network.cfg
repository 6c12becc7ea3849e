SPECIFICATION FairSpec
CONSTANTS
    Peers = {p1, p2}
    MaxOutbound = 1
    MaxDials = 1
    MaxInbound = 1
    MaxBackoff = 0
    PendingLimit = {}
    TrustedOnly = FALSE
    MaxLoss = 1
    MaxStimuli = 3
INVARIANTS SlotsCovered ConnectedHasSession PassingIsBacked
PROPERTIES DisconnectingEnds LosesSightOnlyOnDial
CHECK_DEADLOCK FALSE
