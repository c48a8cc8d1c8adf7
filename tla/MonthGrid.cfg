SPECIFICATION Spec
CONSTANTS
  Movements <- MCMovements
  Accounts <- MCAccounts
  Amount = {1, 2}
  Categories = 2
  MaxExpenseRows = 2
  MaxBalanceRows = 2
  None = None
INVARIANTS
  TypeOK
  RefreshIsAsCreated
  SumsTellTheData
