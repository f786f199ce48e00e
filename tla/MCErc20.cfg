SPECIFICATION Spec
CONSTANTS
  N = 3
  BALANCE_MAX = 2
  Amounts <- MCAmounts
  Supplies = {2}
  Owner = 1
  Spender = 2
INVARIANTS
  TypeOK
  SupplyConserved
  TransfersNeverTrap
  WithdrawnWithinGrant
  EventsTellBalances
CHECK_DEADLOCK FALSE
