\* Two workers, so that a retry may publish over the other connection; two
\* failing calls, or a broken connection, or an outage (Budget).
SPECIFICATION StreamSpec
CONSTANTS
  e1 = e1
  s1 = s1
  s2 = s2
  w1 = w1
  w2 = w2
  u = u
  None = None
  Executions <- OneExecution
  Slots <- TwoSlots
  Workers <- TwoWorkers
  Host <- OwnHosts
  TestCases <- Plain
  Clients <- OneClient
  Watched <- Watches
  Wanted <- ByExecution
  InSession <- NoSession
  Attempts = 2
  MaxStalled = 1
  MaxFaults = 2
  MaxOutages = 1
  MaxDrops = 1
SYMMETRY Twins
CONSTRAINT Budget
INVARIANTS
  StreamTypeOK
  LearnsOutcome
  CompletedIsLast
CHECK_DEADLOCK FALSE
