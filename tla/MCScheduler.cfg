SPECIFICATION Spec
CONSTANTS
  A = A
  B = B
  a1 = a1
  a2 = a2
  b1 = b1
  Providers <- MCProviders
  Keys <- MCKeys
  ProviderOf <- MCProviderOf
  Ids = {i1, i2, i3, i4}
  None = None
  Requests = {r1, r2}
  ProbeTimeout = 1
  Delays <- MCDelays
SYMMETRY Symmetry
INVARIANTS
  TypeOK
  NoUseAfterClose
  OneOwnerPerLine
  PublishedIsSelected
PROPERTIES
  HotLineKept
  PoolSpec
