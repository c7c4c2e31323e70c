SPECIFICATION Spec
CONSTANTS
  Routed = {r1}
  Plain = {p1}
  Calls = {g1}
  Concurrence = 1
INVARIANTS OnlineCounts ConcurrenceLimit  
CHECK_DEADLOCK FALSE
