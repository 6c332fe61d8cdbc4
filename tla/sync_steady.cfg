\* Two saves of the player, two of others, a connection that breaks, and no more calls lost than there are attempts to spare.
CONSTANTS
  s1 = s1
  s2 = s2
  t1 = t1
  t2 = t2
  here = here
  Saves = {s1, s2}
  Theirs = {t1, t2}
  None = None
  Dirs = {here}
  Patient = FALSE
  Reconfigures = FALSE
  Drops = TRUE
  Losses = {"request", "download"}
  MaxLosses = 3
SPECIFICATION FairSpec
CHECK_DEADLOCK FALSE
PROPERTIES
  SaveGoesUp
  ToldIsDownloaded
