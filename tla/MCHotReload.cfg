SPECIFICATION FairSpec
CONSTANTS
  Requests = {r1}
  Timeouts <- MCTimeouts
  MaxEdits = 1
  MaxSignals = 2
  ShutdownTimeout = 1
INVARIANTS
  TypeOK
  InFlightKept
  OneInCharge
  NoReloadLost
PROPERTIES
  SignalServed
  RetiredCloses
  ShutdownEnds
CHECK_DEADLOCK FALSE
