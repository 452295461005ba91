SPECIFICATION Spec
CONSTANTS
  Mobiles = {m1}
  Codes = {c1, c2, c3}
  Handlers = {h1, h2}
  MaxAttempts = 2
  MaxWindows = 1
  MaxRefusals = 1
  MaxGuests = 2
  MaxFaults = 1
  None = None
SYMMETRY Interchangeable
INVARIANTS
  SendRateBounded
  NoDanglingCode
  UsedCodeIsGone
  SecondGuestOnlyByOverlap
PROPERTIES
  ImplementsRateWindow
CHECK_DEADLOCK FALSE
