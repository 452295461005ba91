SPECIFICATION FairSpec
CONSTANTS
  c1 = c1
  c2 = c2
  g1 = g1
  s1 = s1
  s2 = s2
  t1 = t1
  t2 = t2
  d1 = d1
  d2 = d2
  None = None
  Calls = {c1, c2}
  Guests = {g1}
  GuestSockets = {s1, s2}
  StaffSockets = {t1, t2}
  Depts = {d1, d2}
  PageOf <- TwoPages
  GuestOf <- TwoPagesGuest
  DeptOf <- TwoPagesDept
  StaffDept <- TwoDeptStaff
  MaxCalls = 1
  MaxWindows = 1
  MaxCrashes = 0
  ApiCanFail = TRUE
INVARIANTS
  CallRateBounded
PROPERTIES
  ImplementsRateWindow
  InitiateSettles
CHECK_DEADLOCK FALSE
