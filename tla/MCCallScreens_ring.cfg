SPECIFICATION Spec
CONSTANTS
  g1 = g1
  g2 = g2
  p1 = p1
  None = None
  Guests = {g1, g2}
  Staff = {p1}
  MaxSockets <- Connections
  MaxClicks = 2
INVARIANTS
  RungPageCanAnswer
CHECK_DEADLOCK FALSE
