SPECIFICATION FairSpec
CONSTANTS
  Keys = {k1}
  Calls = {c1, c2, c3}
  TTLs = {0, 1}
  StaleMaxAge = 1
  None = None
INVARIANTS
  TypeOK
  OneQueryPerKey
  NothingSharedIsChanged
PROPERTIES
  EntryNeverOlder
  EveryCallReturns
  
CHECK_DEADLOCK FALSE
