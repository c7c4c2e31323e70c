SPECIFICATION DrainingSpec
CONSTANTS
  Requests = {}
  Calls = {c1}
  Jobs = {}
  Http = {}
  Grpc = {g}
  Console = {k}
  Disconnects = FALSE
  Timers = FALSE
  LateWork = FALSE
CHECK_DEADLOCK FALSE
PROPERTIES IsADrain DrainEnds
