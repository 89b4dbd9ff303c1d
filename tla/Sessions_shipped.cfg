\* As shipped: nothing creates the container of a session.
SPECIFICATION FairSpec
CONSTANTS
  a = a
  b = b
  c1 = c1
  c2 = c2
  None = None
  Sessions <- OneSession
  Provisioned <- Unprovided
  Cycles <- OneCycle
  MaxFaults = 0
PROPERTIES
  ReadyShortly
CHECK_DEADLOCK FALSE
