\* One pass with a fault and a capability that cannot be read; two passes of one job with a
\* fault; or one pass of each of two jobs.
CONSTANTS
  j1 = j1
  j2 = j2
  a = a
  b = b
  Jobs = {j1, j2}
  NoJob = NoJob
  JobOf <- MCJobOf
  Briefing = {j1}
  Media = {j2}
  LocalIds = {a, b}
  NoItem = NoItem
  Batches <- MCBatches
  MaxLLMCalls <- MCMaxLLMCalls
  MaxItemCreations = 3
  repeatThreshold = 1
  Allowances <- MCAllowances
SPECIFICATION FairSpec
INVARIANTS
  TypeOK
  ModelCallsWithinLimit
  ItemsWithinCap
  NudgeFollowsOwnStreak
  PromptIsOwn
  AnswersAreOwn
  SavedIsStored
  ItemsOnce
  OneRoot
  PlacedUnderParent
PROPERTIES
  FirstAnswerStands
  PassEnds
CHECK_DEADLOCK FALSE
