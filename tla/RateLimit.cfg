SPECIFICATION Spec
CONSTANTS
  Slots = {s1, s2, s3}
  Clients <- MCClients
  Proxies <- MCProxies
  Headers <- MCHeaders
  Burst = 1
  Period = 2
  TTL = 3
  MaxEntries = 2
  MaxDelay = 1
  MaxRequests = 4
  MaxClock = 5
SYMMETRY SlotSymmetry
INVARIANTS
  TypeOK
  CallerDoesNotChooseKey
  BucketKeepsRate
  LoneDenialsAreFree
PROPERTY PruneForgetsNothing
CHECK_DEADLOCK FALSE
