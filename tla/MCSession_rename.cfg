SPECIFICATION Spec
CONSTANTS
  DefaultIns = d
  Clients = {d, c, e}
  MaxPools = 2
  Requests = {r1, r2, r3}
  none = none
  MaxFails = 1
INVARIANTS PoolIsShared LostNeedsDisorder  EndlessNeedsCause
SYMMETRY Symmetry
CHECK_DEADLOCK FALSE
CONSTRAINT PoolsFirst
