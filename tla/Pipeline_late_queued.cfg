\* A worker may finish before the request handler writes QUEUED.
SPECIFICATION Spec
CONSTANTS
  e1 = e1
  e2 = e2
  s1 = s1
  s2 = s2
  w1 = w1
  w2 = w2
  None = None
  Executions <- OneExecution
  Slots <- TwoSlots
  Workers <- TwoWorkers
  Host <- OwnWorker
  TestCases <- Plain
  Attempts = 2
  MaxStalled = 1
  MaxFaults = 0
  MaxOutages = 0
INVARIANTS
  DoneIsNotQueued
CHECK_DEADLOCK FALSE
