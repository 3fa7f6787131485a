SPECIFICATION Spec
SYMMETRY Symmetry
CONSTANTS
  Keys = {k1, k2, k3, k4}
  None = None
  Policies = {"fifo", "lru", "lfu"}
  Messages <- MCMessages
  MaxBytes = 3
  FixedTTLs = {0, 2}
  StaleMaxAge = 1
  MinTTL = 1
  MaxTTL = 1
  ServfailTTL = 1
  MaxFreq = 3
  MaxSeq = 4
INVARIANTS
  TypeOK
  Bookkeeping
PROPERTIES
  VictimsByPolicy
  EvictsWhatItMust
  
CHECK_DEADLOCK FALSE
