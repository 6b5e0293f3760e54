CONSTANTS
  None = None
  Undefined = Undefined
  Items = {i1, i2}
  Starts = {{}}
  t1 = t1
  t2 = t2
  k1 = k1
  k2 = k2
  d1 = d1
  d2 = d2
  r1 = r1
  r2 = r2
  MaxClicks = 3
  MaxChanges = 1
  MaxRequests = 2
SPECIFICATION PageSpec
INVARIANT FormIsOfItem
PROPERTIES PageCatchesUp WaitingEnds
