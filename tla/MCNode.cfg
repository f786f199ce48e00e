SPECIFICATION NodeFairSpec
CONSTANTS
  Accounts <- MCAccounts
  Keys <- MCKeys
  Foreign = "foreign"
  Invalid = "invalid"
  None = "none"
  MaxBlocks = 2
INVARIANTS
  NodeTypeOK
  GeneratedKeysKept
  MinesForItsOperator
PROPERTY AuthorityMines
