SPECIFICATION ChainSpec
CONSTANTS
  BLOCK_TIME = 4
  DIFFICULTY_ADJUST_WINDOW = 3
  CLAMP_FACTOR = 2
  DIFFICULTY_DAMP_FACTOR = 3
  MAX_DIFFICULTY = 40
  U256_MAX = 580
  MinimumPeriod = 1
  GenesisDifficulties <- MCGenesis
  Timestamps <- MCTimestamps
  None = None
INVARIANTS
  TypeOK
  MovesTowardTarget
  StepBounded
  NotStuckAtMinimum
  LaterIsNoHarder
  OnlyFirstRetargetCanOverflow
PROPERTY ImplementsRetarget
CONSTRAINT ZeroBound
CHECK_DEADLOCK FALSE
