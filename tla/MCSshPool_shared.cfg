SPECIFICATION Spec
CONSTANTS
  Direct = {}
  Proxies = {p1, p2}
  Forwards = {}
  Jumpers = {}
  MaxDials = 1
  MaxDrops = 0
INVARIANT HeldIsOpen
CHECK_DEADLOCK FALSE
