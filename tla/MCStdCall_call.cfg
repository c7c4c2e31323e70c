CONSTANTS
  s1 = s1
  s2 = s2
  c1 = c1
  w1 = w1
  Servers = {s1, s2}
  Callers = {c1}
  Closers = {w1}
  Users = {c1, w1}
  Home = s1
  Torn = torn
  Stable = {s2}
  MaxTrouble = 1
SPECIFICATION Spec
INVARIANTS ActsOnce ContextFollowsResponse ResolverFollows
PROPERTIES GoneIsForgotten AttemptsEnd
CHECK_DEADLOCK FALSE
CONSTRAINT Apart
