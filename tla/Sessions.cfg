\* Two sessions, one with a container; two overlapping cycles, two faults.
SPECIFICATION FairSpec
CONSTANTS
  a = a
  b = b
  c1 = c1
  c2 = c2
  None = None
  Sessions <- TwoSessions
  Provisioned <- OneSession
  Cycles <- TwoCycles
  MaxFaults = 2
INVARIANTS
  TypeOK
  NoOrphan
  OnlyDeleteStrands
  RefusedAfterDelete
PROPERTIES
  ExpiredIsReaped
CHECK_DEADLOCK FALSE
