\* Three requests of one address with two API keys.
SPECIFICATION Spec
CONSTANTS
  r1 = r1
  r2 = r2
  r3 = r3
  home = home
  k1 = k1
  k2 = k2
  Address <- AtHome
  ApiKey <- TwoKeys
  Requests <- ThreeRequests
  Window = 2
  Ttl = 2
  MaxRequests = 1
  MaxClock = 3
  MaxFaults = 0
INVARIANT PerKey
CHECK_DEADLOCK FALSE
