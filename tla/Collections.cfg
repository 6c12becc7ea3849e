SPECIFICATION MCSpec
CONSTANTS
  None = None
  Block <- MCBlock
  Genesis = 0
  number <- MCNumber
  chain <- MCChain
  MaxBlocks = 4
INVARIANTS
  IndexesAgree
  WalksAsSpecified
  CollectionsAgree
PROPERTIES
  ConnectedOut
