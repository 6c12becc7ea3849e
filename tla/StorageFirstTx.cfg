CONSTANTS
    Blocks <- MCBlocks
    Base <- MCEmptyBase
    MaxTip = 2
    MaxSaves = 2
    MaxRemoves = 0
    MaxCrashes = 1
    TornUnwind = FALSE
SPECIFICATION Spec
INVARIANT ExtraRowsPruned
