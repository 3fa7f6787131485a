SPECIFICATION ServingSpec
CONSTANTS
  Calls = {c1, c2}
  Names = {n1}
  Subnets = {s1, s2}
  Fixed = s1
  Modes = {"off", "pass", "override"}
  Requests <- MCRequests
  Leftovers <- MCLeftovers
  Keys <- MCKeys
  TTLs = {0, 1}
  StaleMaxAge = 1
  None = None
PROPERTIES
  PromiseSpec
CHECK_DEADLOCK FALSE
