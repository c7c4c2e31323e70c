SPECIFICATION Spec
CONSTANTS
  Requests = {q1}
  Calls = {}
  Jobs = {j1}
  Http = {h}
  Grpc = {}
  Console = {}
  Disconnects = TRUE
  Timers = FALSE
  LateWork = FALSE
CHECK_DEADLOCK FALSE
INVARIANT DoneMeansDrained
