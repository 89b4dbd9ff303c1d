\* A timeout leaves the container behind.
SPECIFICATION Spec
CONSTANTS
  c1 = c1
  c2 = c2
  Calls <- OneCall
  MaxOutput = 2
INVARIANTS
  RemovedAfterTimeout
CHECK_DEADLOCK FALSE
