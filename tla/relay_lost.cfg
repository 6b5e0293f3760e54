\* A Subscribe that is still attaching while the connection is replaced.
CONSTANTS
  Subs = {s1}
  MaxConns = 2
  Buffer = 1
  None = None
SPECIFICATION Spec
INVARIANT ForwardsFromCurrent
CHECK_DEADLOCK FALSE
