SPECIFICATION Spec
CONSTANTS
  b1 = b1
  b2 = b2
  m1 = m1
  m2 = m2
  v1 = v1
  Bank = {b1, b2}
  BankOrder <- MCOrder
  Movement = {m1, m2}
  BankOf <- MCBankOf
  MonthOf <- MCMonthOf
  LastMonth = 2
  Balance = {v1}
  MaxFaults = 1
  NoBalance = NoBalance
  Category = {}
  DressCalls <- MCDress
  MaxExpenseRows = 2
  Status <- MCStatus
  Absent = Absent
  NoPanel = NoPanel
  NoJob = NoJob
INVARIANTS
  RowsStayInTheirMonth
PROPERTIES
  RunEnds
  SettledMovementsAreShown
  ErasingNeedsAnAnswer
