\* The lock with two of three processes that may stop; a subscription, two reconnections,
\* cancellation and closing at any moment; what the operators of the start may have set
\* up is in MCBuzzIdentity.
CONSTANTS
  Procs = {p1, p2, p3}
  Mortal = {p2, p3}
  Waits = FALSE
  NoFile = NoFile
  Subs = {s1}
  MaxConns = 3
  Buffer = 1
  None = None
  b1 = b1
  b2 = b2
  Bots = {b1, b2}
  NoBot = NoBot
  Setups <- StartSetups
  MaxEdits = 2
  MaxStartFaults = 1
  MaxBoots = 1
SPECIFICATION IdentitySpec
CHECK_DEADLOCK FALSE
INVARIANTS AttachedToCurrent NoConnectionLeft IdentityIsOwn
PROPERTIES IsMutex StaleLockIsRemoved ClosingEnds
