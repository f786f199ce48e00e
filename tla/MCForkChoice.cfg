SPECIFICATION Spec
CONSTANTS
  Blocks <- MCBlocks
  Lanes = {"queue", "miner"}
  Difficulties = {0, 1, 2}
  Idle = Idle
INVARIANTS
  TypeOK
  HeaviestUnlessRaced
  GenesisIsOutweighed
PROPERTY HeaviestNewcomerWins
CHECK_DEADLOCK FALSE
