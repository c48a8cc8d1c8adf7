SPECIFICATION Spec
CONSTANTS
  Tab = {t1}
  Movement = {m1, m2}
  MaxDispatches = 2
  MaxLocal = 1
  MaxFaults = 2
  Status <- MCStatus
  Absent = Absent
  NoJob = NoJob
INVARIANTS
  TypeOK
PROPERTIES
  LoneRunIsExact
  BookedIsShown
