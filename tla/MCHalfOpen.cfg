SPECIFICATION Spec
SYMMETRY Symmetry
CONSTANTS
  Members = {m1, m2}
  Weights = {1}
  Calls = {c1, c2, c3}
  Timeout = 1
  Window = 1
  FailThreshold = 1
  Cooldown = 1
  Nobody = Nobody
INVARIANT OneTrialAtATime
CHECK_DEADLOCK FALSE
