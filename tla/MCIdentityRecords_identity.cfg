SPECIFICATION Spec
CONSTANTS
  Ids = {i1, i2}
  Refs = {r1}
  Names = {n1}
  Forms <- NamedForms
  Handlers = {h1, h2}
  MaxGrants = 1
  MaxFaults = 1
  None = None
SYMMETRY Interchangeable
INVARIANTS
  HashIsCurrent
  UniqueBooking
  AuditExplainsStatus
  ApprovedIsGranted
CHECK_DEADLOCK FALSE
