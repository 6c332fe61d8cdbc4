\* One request at a time, none of which dies, references enforced.
CONSTANTS
  p1 = p1
  p2 = p2
  p3 = p3
  p4 = p4
  r1 = r1
  NoPlayer = NoPlayer
  Players = {p1, p2, p3, p4}
  Requests = {r1}
  ForeignKeys = TRUE
  Failures = FALSE
  HostOrders = "full"
  MaxList = 0
  MaxTurns = 3
SPECIFICATION Spec
INVARIANTS
  SeatsDense
  ActiveHasTwo
PROPERTIES
  UploadTellsHolder
  ImplementsTurnGame
CHECK_DEADLOCK FALSE
