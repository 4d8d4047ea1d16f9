\* Racing deliveries: one job whose task is delivered three times to two workers,
\* with two faults anywhere and a reviewer who may reject it.
CONSTANTS
  Documents = {d1}
  NoDocument = NoDocument
  Handlers = {h1}
  Workers = {w1, w2}
  MaxJobs = 1
  MaxAttempts = 3
  MaxBudgetRetries = 1
  AutoResumeMaxRetries = 1
  MaxFaults = 2
  ApprovalJobs = {1}
SPECIFICATION FairSpec
INVARIANTS
  InFlightHasOwner
  StaleCountNeedsOverlap
  MirrorEndIsReal
  MirrorAgrees
PROPERTIES
  EverySubmissionSettles
CHECK_DEADLOCK FALSE
