SPECIFICATION Spec
CONSTANTS
  p1 = p1
  p2 = p2
  p3 = p3
  k1 = k1
  k2 = k2
  Process = {p1, p2, p3}
  MasterOf <- MCMasterOf
  Master = {k1, k2}
  NoMaster = NoMaster
  Name = {n1, n2}
  Text = {x, y}
  Plain = Plain
  Comment = {c1}
  Overlap = FALSE
  MaxFaults = 1
  Absent = Absent
  NoText = NoText
INVARIANTS
  TypeOK
  WrittenIsKept
PROPERTIES
  GetTellsTheTruth
