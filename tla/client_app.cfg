\* Two games, a call of any kind, a refresh, a message and a crash.
CONSTANTS
  g1 = g1
  g2 = g2
  u1 = u1
  Games = {g1, g2}
  None = None
  Torn = Torn
  Calls = {u1}
  MaxLosses = 0
  MaxCrashes = 1
  MaxNews = 1
  r1 = r1
  Refreshes = {r1}
SPECIFICATION FairSpec
CHECK_DEADLOCK FALSE

  
PROPERTIES
  StateSettles
  SocketFollows
