\* One key, two revocations, two entries, two failing calls or crashes.
SPECIFICATION Spec
CONSTANTS
  k1 = k1
  v1 = v1
  v2 = v2
  n1 = n1
  n2 = n2
  Keys <- OneKey
  Revocations <- TwoRevocations
  Entries <- TwoEntries
  KeyOf <- AllOfIt
  MaxFaults = 2
SYMMETRY Alike
INVARIANTS
  TypeOK
  NoEntryAfterRevocation
  RefusedMeansRevoked
  CopiesAgree
CHECK_DEADLOCK FALSE
