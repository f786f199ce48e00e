SPECIFICATION Spec
CONSTANTS
  AccountId <- MCAccounts
  SIZE = 3
  Amounts <- MCAmounts
  Values <- MCValues
  Endowments = {1}
  Wallet = 4
  BALANCE_MAX = 11
  ExistentialDeposit = 1
  Words <- MCWords
  None = None
INVARIANT AllFundsToWinner
CHECK_DEADLOCK FALSE
