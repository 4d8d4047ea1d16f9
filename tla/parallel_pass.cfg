\* Two deliveries of one job served at once, without faults.
CONSTANTS
  Documents = {d1}
  NoDocument = NoDocument
  Handlers = {h1}
  Workers = {w1, w2}
  MaxJobs = 1
  MaxAttempts = 3
  MaxBudgetRetries = 1
  AutoResumeMaxRetries = 1
  MaxFaults = 0
  ApprovalJobs = {}
SPECIFICATION Spec
INVARIANTS
  NoParallelPass
CHECK_DEADLOCK FALSE
