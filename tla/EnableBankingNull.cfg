SPECIFICATION Spec
CONSTANTS
  e1 = e1
  e2 = e2
  e3 = e3
  e4 = e4
  n1 = n1
  k1 = k1
  k2 = k2
  Entry = {e1, n1}
  Key = {k1, k2}
  KeyOf <- MCKeyOf
  InRange <- MCInRange
  Form <- MCForm
  MaxPages = 2
  Preference <- MCPreference
  Payloads <- MCPayloads
  Code <- MCCode
INVARIANTS
  BadRecordsAreSkipped
