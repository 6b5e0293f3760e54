SPECIFICATION LockSpec
CONSTANTS
  Procs = {p1, p2, p3}
  Mortal = {p3}
  Waits = TRUE
  NoFile = NoFile
INVARIANT MutualExclusion
