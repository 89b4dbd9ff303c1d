\* Two concurrent calls, each program writing up to two chunks.
SPECIFICATION FairSpec
CONSTANTS
  c1 = c1
  c2 = c2
  Calls <- TwoCalls
  MaxOutput = 2
INVARIANTS
  TypeOK
  SuccessIsFinal
  OnlyGapIsLost
  ImageReady
  FilesWhileAwaited
PROPERTIES
  CallReturns
CHECK_DEADLOCK FALSE
