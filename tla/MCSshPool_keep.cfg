SPECIFICATION FairSpec
CONSTANTS
  Direct = {d1, d2}
  Proxies = {}
  Forwards = {}
  Jumpers = {d1}
  MaxDials = 2
  MaxDrops = 1
PROPERTIES  KeepersEnd
CHECK_DEADLOCK FALSE
