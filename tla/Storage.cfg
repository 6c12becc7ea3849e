CONSTANTS
    Blocks <- MCBlocks
    Base <- MCBase
    MaxTip = 3
    MaxSaves = 3
    MaxRemoves = 1
    MaxCrashes = 2
    TornUnwind = FALSE
SPECIFICATION Spec
INVARIANTS
    StoresAgree
    ReaderSeesRows
    TrieRecorded
PROPERTIES
    LaunchRepairs
    Recovers
