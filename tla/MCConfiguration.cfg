SPECIFICATION Spec
CONSTANTS
  Files <- MCFiles
  HostNames <- MCHostNames
  Width = 16777216
  None = None
  Bad = Bad
INVARIANTS
  DurationIsExact
  
  
  TargetsCover
CHECK_DEADLOCK FALSE
