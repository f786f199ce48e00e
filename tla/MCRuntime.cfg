SPECIFICATION Spec
CONSTANTS
  N = 2
  endowed_accounts = {2}
  Endowment = 24
  ExistentialDeposit = 2
  TransactionLength = 1
  BlockHashCount = 5
  MAXIMUM_BLOCK_WEIGHT = 12
  NORMAL_DISPATCH_RATIO = 75
  AVERAGE_ON_INITIALIZE_RATIO = 10
  BlockExecutionWeight = 1
  ExtrinsicBaseWeight = 1
  InitWeights = {0, 1}
  Calls <- MCCalls
  Values = {1, 3}
  Bob = 2
  BenchmarkNonces = {0, 1}
  LastBlock = 8
INVARIANTS
  TypeOK
  IssuanceIsHeld
  
  BlockWithinLimits
  BenchmarkLivesItsPeriod
CHECK_DEADLOCK FALSE
