SPECIFICATION Spec
CONSTANTS
  Direct = {d1}
  Proxies = {p1}
  Forwards = {f1}
  Jumpers = {d1}
  MaxDials = 2
  MaxDrops = 1
INVARIANTS RefCountsHolders   OrphanNeedsOverRelease
CHECK_DEADLOCK FALSE
