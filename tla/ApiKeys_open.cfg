\* A route without the middleware, and one that does not insist on a key.
SPECIFICATION Spec
CONSTANTS
  k1 = k1
  v1 = v1
  v2 = v2
  n1 = n1
  n2 = n2
  Keys <- OneKey
  Revocations <- TwoRevocations
  Entries <- TwoEntries
  KeyOf <- AllOfIt
  MaxFaults = 2
SYMMETRY Alike
INVARIANTS
  KeyRequired
CHECK_DEADLOCK FALSE
