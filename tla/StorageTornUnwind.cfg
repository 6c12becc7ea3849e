CONSTANTS
    Blocks <- MCBlocks
    Base <- MCBase
    MaxTip = 2
    MaxSaves = 2
    MaxRemoves = 0
    MaxCrashes = 2
    TornUnwind = TRUE
SPECIFICATION Spec
INVARIANT UnwindRecovered
