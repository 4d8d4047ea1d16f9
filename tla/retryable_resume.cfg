\* A job whose agent runs out of budget, redelivered three times, without faults.
CONSTANTS
  Documents = {d1}
  NoDocument = NoDocument
  Handlers = {h1}
  Workers = {w1}
  MaxJobs = 1
  MaxAttempts = 3
  MaxBudgetRetries = 1
  AutoResumeMaxRetries = 1
  MaxFaults = 0
  ApprovalJobs = {}
SPECIFICATION FairSpec
PROPERTIES
  RetryableIsResumed
CHECK_DEADLOCK FALSE
