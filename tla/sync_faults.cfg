\* The configuration is saved again, the connection breaks and calls are lost at any moment.
CONSTANTS
  s1 = s1
  s2 = s2
  t1 = t1
  t2 = t2
  here = here
  there = there
  Saves = {s1, s2}
  Theirs = {t1, t2}
  None = None
  Dirs = {here, there}
  Patient = FALSE
  Reconfigures = TRUE
  Drops = TRUE
  Losses = {"fetch", "request", "response", "download"}
  MaxLosses = 1
SPECIFICATION Spec
SYMMETRY Interchangeable
CHECK_DEADLOCK FALSE
INVARIANTS
  TypeOK
  TakenOnce
  LabelsTrue
  EngineInv
PROPERTIES
  NoLateEcho
