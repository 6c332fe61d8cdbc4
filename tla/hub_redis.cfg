\* Two instances, a broadcast of either kind, and the writes that meet.
CONSTANTS
  i1 = i1
  i2 = i2
  h1 = h1
  c1 = c1
  c2 = c2
  Instances = {i1, i2}
  Handlers = {h1}
  Conns = {c1, c2}
  None = None
  Redis = TRUE
  Kinds = {"turn", "game"}
  Stalls = FALSE
SPECIFICATION FairSpec
CHECK_DEADLOCK FALSE
INVARIANTS
  TypeOK
  NoWriteAfterClose
  HubInv
  TwiceAtHome
PROPERTIES
  LetIn
  BroadcastEnds
  ReachesWhoStays
