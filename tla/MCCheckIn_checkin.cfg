SPECIFICATION FairCheckInSpec
CONSTANTS
  Nil = Nil
  i1 = i1
  b1 = b1
  r1 = r1
  r2 = r2
  Ids = {i1}
  Reviews = {r1, r2}
  Bookings = {b1}
  MaxGrants = 2
INVARIANTS
  DecidedOnce
PROPERTIES
  ApprovedPageAdvances
  CheckoutLeavesDashboard
CHECK_DEADLOCK FALSE
