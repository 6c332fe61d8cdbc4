\* Nothing is lost, and still a downloaded file is uploaded.
CONSTANTS
  s1 = s1
  t1 = t1
  here = here
  Saves = {s1}
  Theirs = {t1}
  None = None
  Dirs = {here}
  Patient = TRUE
  Reconfigures = FALSE
  Drops = FALSE
  Losses = {}
  MaxLosses = 1
SPECIFICATION FairSpec
CHECK_DEADLOCK FALSE
INVARIANT
  NoEcho
