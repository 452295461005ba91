SPECIFICATION Spec
CONSTANTS
  c1 = c1
  c2 = c2
  g1 = g1
  s1 = s1
  s2 = s2
  t1 = t1
  t2 = t2
  d1 = d1
  d2 = d2
  None = None
  Calls = {c1}
  Guests = {g1}
  GuestSockets = {s1, s2}
  StaffSockets = {t1, t2}
  Depts = {d1}
  PageOf <- OnePage
  GuestOf <- OnePageGuest
  DeptOf <- OnePageDept
  StaffDept <- OneDeptStaff
  MaxCalls = 2
  MaxWindows = 0
  MaxCrashes = 1
  ApiCanFail = FALSE
SYMMETRY Interchangeable
INVARIANTS
  PresenceMatchesSockets
  CalleeWasRung
  AnsweredByCallee
  LogBalance
PROPERTIES
  CompletionLoggedOnce
CHECK_DEADLOCK FALSE
