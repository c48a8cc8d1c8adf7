SPECIFICATION Spec
CONSTANTS
  Tab = {t1}
  r1 = r1
  r2 = r2
  r3 = r3
  b1 = b1
  b2 = b2
  v1 = v1
  v2 = v2
  Bank = {b1, b2}
  Batch <- MCBatch
  Panel <- MCPanel
  Status <- MCStatus
  DressCalls <- MCDress
  Category = {c1}
  MaxExpenseRows = 2
  NoBalance = NoBalance
  Absent = Absent
  NoPanel = NoPanel
  NoJob = NoJob
INVARIANTS
  DoneIsWhole
