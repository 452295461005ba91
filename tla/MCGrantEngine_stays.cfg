SPECIFICATION Spec
CONSTANTS
  guest = guest
  None = None
  a = a
  b = b
  h1 = h1
  h2 = h2
  j1 = j1
  j2 = j2
  k1 = k1
  k2 = k2
  k3 = k3
  Subjects = {guest}
  Grants = {a, b}
  Tokens = {k1, k2}
  Handlers = {h1}
  Jobs = {j1}
  SubjectOf <- OneSubjectOf
  OwnerOf <- OneOwnerOf
  MaxFaults = 1
SYMMETRY Interchangeable
INVARIANTS
  CheckoutEndsWhatExisted
  RotatedTokenIsDead
  RevocationAudited
  NeverExpiredEarly
PROPERTIES
  RevokedForever
CHECK_DEADLOCK FALSE
