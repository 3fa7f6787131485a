SPECIFICATION FairSpec
CONSTANTS
  A = A
  B = B
  a1 = a1
  a2 = a2
  b1 = b1
  Providers <- MCProviders
  Keys <- MCFewKeys
  ProviderOf <- MCFewProviderOf
  Ids = {i1, i2, i3}
  None = None
  Requests = {r1}
  ProbeTimeout = 1
  Delays <- MCDelays
PROPERTIES
  AllLinesClosed
  DroppedLineCloses
