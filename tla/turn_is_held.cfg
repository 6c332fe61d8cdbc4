\* README.md:76, one request at a time.
CONSTANTS
  p1 = p1
  p2 = p2
  p3 = p3
  r1 = r1
  NoPlayer = NoPlayer
  Players = {p1, p2, p3}
  Requests = {r1}
  ForeignKeys = TRUE
  Failures = FALSE
  HostOrders = "full"
  MaxList = 0
  MaxTurns = 2
SPECIFICATION Spec
INVARIANT
  TurnIsHeld
CHECK_DEADLOCK FALSE
