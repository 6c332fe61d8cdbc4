\* Four players, who leave, lose their connections, are not told and fail to download at any time.
CONSTANTS
  a = a
  b = b
  c = c
  d = d
  Players = {a, b, c, d}
  AuthorsStay = FALSE
  Drops = TRUE
  Fails = TRUE
  Dies = TRUE
SPECIFICATION FairSystemSpec
INVARIANTS
  TurnInRow
  SystemInv
PROPERTIES
  TurnStays
  PassesToNext
  GoesOn
  MissedForCause
CHECK_DEADLOCK FALSE
