\* A batch of two on two workers: three failing calls, two outages.
SPECIFICATION Spec
CONSTANTS
  e1 = e1
  e2 = e2
  s1 = s1
  s2 = s2
  w1 = w1
  w2 = w2
  None = None
  Executions <- OneExecution
  Slots <- TwoSlots
  Workers <- TwoWorkers
  Host <- OwnWorker
  TestCases <- Batch
  Attempts = 2
  MaxStalled = 1
  MaxFaults = 3
  MaxOutages = 2
INVARIANTS
  TypeOK
  ResultKept
  EventBacked
  AllCasesRecorded
  JobHasRow
  OutcomeVisible
  FailureVisible
  OverlapNeedsStall
  InvocationBound
PROPERTIES
  SettledForever
  KeepsPromise
CHECK_DEADLOCK FALSE
