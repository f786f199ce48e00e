SPECIFICATION Spec
CONSTANTS
  BLOCK_TIME <- CrainTargetBlockTime
  DIFFICULTY_ADJUST_WINDOW <- CRAIN_DIFFICULTY_ADJUST_WINDOW
  CLAMP_FACTOR <- CRAIN_CLAMP_FACTOR
  DIFFICULTY_DAMP_FACTOR <- CRAIN_DIFFICULTY_DAMP_FACTOR
  MAX_DIFFICULTY <- SmallMaximum
  U256_MAX <- LargeEnough
  MinimumPeriod <- CrainMinimumPeriod
  GenesisDifficulties <- SmallGenesis
  Timestamps <- OnTargetTimestamps
  None = None
INVARIANT TargetCadenceKeepsDifficulty
CHECK_DEADLOCK FALSE
