\* Two events, each sent at most twice; one fault; credit that covers some of it.
CONSTANTS
  e1 = e1
  e2 = e2
  Events = {e1, e2}
  MaxAttempts = 2
  InputTokens <- MCInputTokens
  OutputTokens <- MCOutputTokens
  InputRate = 1
  OutputRate = 1
  PerRate = 2
  Starts = {s1}
  InitialGrants = {1, 2}
  GrantSizes = {1}
  Limits = {0, 1}
  MaxBalance = 2
  MaxFaults = 1
SPECIFICATION Spec
INVARIANTS
  TypeOK
  OverspendIsFlagged
  OverdraftNeedsOverlap
  LedgerMatchesEvents
  DoubleChargeNeedsRetry
  MeteredWithinUse
  RollupDiffersByRetries
PROPERTIES
  StoredEventsStay
CHECK_DEADLOCK FALSE
