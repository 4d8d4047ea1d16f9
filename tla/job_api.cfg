\* Racing API calls: two handlers, two jobs of one document, one delivery
\* of each, and a fault anywhere.
CONSTANTS
  Documents = {d1}
  NoDocument = NoDocument
  Handlers = {h1, h2}
  Workers = {w1}
  MaxJobs = 2
  MaxAttempts = 1
  MaxBudgetRetries = 1
  AutoResumeMaxRetries = 1
  MaxFaults = 1
  ApprovalJobs = {}
SPECIFICATION Spec
SYMMETRY HandlersAndWorkersAlike
INVARIANTS
  TypeOK
  OverlapNeedsStaleCheck
  AutoResumeIsCounted
PROPERTIES
  RowKeepsContract
CHECK_DEADLOCK FALSE
