SPECIFICATION Spec
CONSTANTS
  AccountId <- MCAccounts
  SIZE = 3
  Amounts <- MCAmounts
  Values <- MCValues
  Endowments = {1, 4}
  Wallet = 4
  BALANCE_MAX = 11
  ExistentialDeposit = 1
  Words <- MCWords
  None = None
PROPERTY NextBidNotBelowHighest
CHECK_DEADLOCK FALSE
