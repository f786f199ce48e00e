SPECIFICATION FairSpec
CONSTANTS
  Nodes = {"miner", "other"}
  Authorities = {"miner", "other"}
  Blocks <- MCBlocks
  Header <- MCHeader
  Idle = Idle
  BLOCK_TIME = 4
  DIFFICULTY_ADJUST_WINDOW = 2
  CLAMP_FACTOR = 2
  DIFFICULTY_DAMP_FACTOR = 2
  MAX_DIFFICULTY = 10
  MinimumPeriod = 1
  GenesisDifficulties = {0, 4}
INVARIANTS
  TotalsAreWorkOfChains
  SameBlocksSameBest
PROPERTIES
  EachNodeChoosesForks
  NodesConverge
CHECK_DEADLOCK FALSE
