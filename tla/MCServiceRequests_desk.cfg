SPECIFICATION Spec
CONSTANTS
  p1 = p1
  p2 = p2
  d1 = d1
  u1 = u1
  x1 = x1
  t1 = t1
  t2 = t2
  g1 = g1
  q1 = q1
  None = None
  People = {p1, p2}
  Seeded = {p1}
  Depts = {d1}
  DeptOf <- OneDept
  NewUnits = {u1}
  Foreign = x1
  Tabs = {t1, t2}
  MaxFaults = 1
  Guests = {g1}
  Requests = {q1}
  Asked = {d1}
SYMMETRY Interchangeable
INVARIANTS
  StaffInDirectory
PROPERTIES
  PlacedDuringStay
CHECK_DEADLOCK FALSE
