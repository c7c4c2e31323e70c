SPECIFICATION CallSpec
CONSTANTS
  Static = {s1}
  Consul = {a, b}
  Callers = {c1, c2}
  MaxFails = 1
  Doers = {c1}
  Retry = 3
  Addresses <- MCAddresses
INVARIANTS AstrayNeedsSwap LocksAreReleased  SuccessWasExecuted
PROPERTIES DialsOnce DoReturns
CHECK_DEADLOCK FALSE
