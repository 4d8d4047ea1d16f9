\* One event that costs more than the budget, then a start; no fault.
CONSTANTS
  e1 = e1
  e2 = e2
  Events = {e1}
  MaxAttempts = 2
  InputTokens <- MCOneInput
  OutputTokens <- MCOneOutput
  InputRate = 1
  OutputRate = 1
  PerRate = 2
  Starts = {s1}
  InitialGrants = {2}
  GrantSizes = {}
  Limits = {1}
  MaxBalance = 2
  MaxFaults = 0
SPECIFICATION Spec
PROPERTY ExceededAccountIsGated
CHECK_DEADLOCK FALSE
