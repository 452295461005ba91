SPECIFICATION Spec
CONSTANTS
  p1 = p1
  p2 = p2
  kyc = kyc
  reception = reception
  s1 = s1
  i1 = i1
  i2 = i2
  o1 = o1
  o2 = o2
  u1 = u1
  u2 = u2
  None = None
  Seeders = {p1, p2}
  Categories = {kyc}
  Depts = {reception}
  Staff = {s1}
  DeptOf <- OneDeptOf
  MaxRuns = 3
  Ids = {i1, i2}
  Docs = {o1, o2}
  Uploads = {u1, u2}
  Kyc = kyc
  Year = 365
  TenantDays = 30
  MaxFaults = 1
SYMMETRY Interchangeable
INVARIANTS
  StoredAndRecorded
  CopiesOnlyByOverlap
  FinishedIsComplete
CHECK_DEADLOCK FALSE
