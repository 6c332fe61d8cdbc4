\* Two instances; the turn passes once.
CONSTANTS
  i1 = i1
  i2 = i2
  h1 = h1
  c1 = c1
  Instances = {i1, i2}
  Handlers = {h1}
  Conns = {c1}
  None = None
  Redis = TRUE
  Kinds = {"turn"}
  Stalls = FALSE
SPECIFICATION FairSpec
CHECK_DEADLOCK FALSE
PROPERTIES
  YourTurnArrives
