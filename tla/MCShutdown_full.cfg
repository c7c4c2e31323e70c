SPECIFICATION FairSpec
CONSTANTS
  Requests = {q1}
  Calls = {}
  Jobs = {j1}
  Http = {h}
  Grpc = {}
  Console = {}
  Disconnects = TRUE
  Timers = TRUE
  LateWork = TRUE
CHECK_DEADLOCK FALSE
PROPERTIES ShutdownedAnswers SignalIsPassedOn
INVARIANTS WgAccount PanicNeedsCause DrainedAtDone NobodyWaitsInVain
