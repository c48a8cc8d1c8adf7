SPECIFICATION Spec
CONSTANTS
  Tab = {t1, t2}
  r1 = r1
  r2 = r2
  r3 = r3
  Batch <- MCBatch
  Status <- MCStatus
  Absent = Absent
  NoJob = NoJob
INVARIANTS
  TypeOK
  WrittenIsExact
  NeverAMixture
PROPERTIES
  KeepsItsPromise
