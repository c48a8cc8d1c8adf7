SPECIFICATION Spec
CONSTANTS
  b1 = b1
  b2 = b2
  m1 = m1
  m2 = m2
  v1 = v1
  Bank = {b1, b2}
  BankOrder <- MCOrder
  Movement = {m1, m2}
  BankOf <- MCBankOf
  MonthOf <- MCMonthOf1
  LastMonth = 1
  Balance = {v1}
  MaxFaults = 2
  NoBalance = NoBalance
  Category = {c1}
  DressCalls <- MCDress
  MaxExpenseRows = 1
  Status <- MCStatus
  Absent = Absent
  NoPanel = NoPanel
  NoJob = NoJob
INVARIANTS
  TypeOK
  BoardMatchesRun
  ExitZeroIsComplete
  MailAgreesWithExit
PROPERTIES
  LayoutFollowsRaw
