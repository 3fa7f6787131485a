SPECIFICATION Spec
SYMMETRY Symmetry
CONSTANTS
  Members = {m1, m2}
  Weights = {1, 2}
  Calls = {c1, c2}
  Timeout = 1
  Window = 1
  FailThreshold = 1
  Cooldown = 1
  Nobody = Nobody
INVARIANTS
  TypeOK
  FailsOnlyIfAllFail
  
  RecoveredIsAsked
  NobodyWaitsInVain
PROPERTIES
  FailingIsHeldBack
CHECK_DEADLOCK FALSE
