\* Two submissions compete for the slot of a worker that is lost once; a call fails.
SPECIFICATION FairSpec
CONSTANTS
  e1 = e1
  e2 = e2
  s1 = s1
  s2 = s2
  w1 = w1
  w2 = w2
  None = None
  Executions <- TwoExecutions
  Slots <- OneSlot
  Workers <- OneWorker
  Host <- SingleHost
  TestCases <- PlainAndBatch
  Attempts = 2
  MaxStalled = 1
  MaxFaults = 1
  MaxOutages = 1
INVARIANTS
  EventBacked
  OutcomeVisible
PROPERTIES
  AcceptedFinishes
CHECK_DEADLOCK FALSE
