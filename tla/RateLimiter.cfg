\* Three requests of one address, one failing call, deaths of their process.
SPECIFICATION Spec
CONSTANTS
  r1 = r1
  r2 = r2
  r3 = r3
  home = home
  k1 = k1
  k2 = k2
  Address <- AtHome
  ApiKey <- OneKey
  Requests <- ThreeRequests
  Window = 3
  Ttl = 3
  MaxRequests = 1
  MaxClock = 5
  MaxFaults = 1
SYMMETRY AlikeRequests
INVARIANTS
  TypeOK
  WindowLimit
  RefusedForRecent
  QuietSetExpires
CHECK_DEADLOCK FALSE
