\* Two requests at a time, any of which may die, foreign keys enforced.
CONSTANTS
  p1 = p1
  p2 = p2
  p3 = p3
  r1 = r1
  r2 = r2
  NoPlayer = NoPlayer
  Players = {p1, p2, p3}
  Requests = {r1, r2}
  ForeignKeys = TRUE
  Failures = TRUE
  HostOrders = "any"
  MaxList = 2
  MaxTurns = 1
SPECIFICATION Spec
INVARIANTS
  TypeOK
  NoDivideByZero
  TurnsDownloadable
  SeatsInRange
  StoreInv
SYMMETRY Symmetry
CHECK_DEADLOCK FALSE
