SPECIFICATION Spec
CONSTANTS
  pinned = pinned
  moving = moving
  a4 = a4
  a6 = a6
  Hosts = {pinned, moving}
  Addrs = {a4, a6}
  FamilyOf <- MCFamilyOf
  Static <- MCStatic
  Networks = {"ip"}
  Lookups = {l1}
  Targets = {pinned, moving}
  TTL = 2
  Timeout = 1
  None = None
INVARIANT TypeOK
PROPERTIES
  WithdrawnIsForgotten
  DeadFamilyIsLeft
CHECK_DEADLOCK FALSE
