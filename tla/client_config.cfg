\* Two games, three calls of the UI of any kind at any time, an answer lost or a save that fails, and a crash.
CONSTANTS
  g1 = g1
  g2 = g2
  u1 = u1
  u2 = u2
  u3 = u3
  Games = {g1, g2}
  None = None
  Torn = Torn
  Calls = {u1, u2, u3}
  MaxLosses = 1
  MaxCrashes = 1
SPECIFICATION Spec
SYMMETRY Interchangeable
CHECK_DEADLOCK FALSE
INVARIANTS
  ConfigInv
  InStep
