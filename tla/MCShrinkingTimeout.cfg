SPECIFICATION Spec
CONSTANTS
  Requests = {r1}
  Timeouts <- MCShrinking
  MaxEdits = 1
  MaxSignals = 1
  ShutdownTimeout = 3
INVARIANT InFlightKept
CHECK_DEADLOCK FALSE
