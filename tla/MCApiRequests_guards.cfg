SPECIFICATION FairSpec
CONSTANTS
  r1 = r1
  r2 = r2
  c1 = c1
  None = None
  Requests = {r1, r2}
  Calls = {c1}
  MaxLoads = 2
  MaxFaults = 1
INVARIANTS
  HandlersAreGuarded
  CallsListedOnce
  TableShowsLastLoad
PROPERTIES
  SeededTenantIsAdmitted
CHECK_DEADLOCK FALSE
