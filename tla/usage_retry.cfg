\* One event, whose cost the credit covers exactly; its first answer is lost.
CONSTANTS
  e1 = e1
  e2 = e2
  Events = {e1}
  MaxAttempts = 2
  InputTokens <- MCOneInput
  OutputTokens <- MCOneOutput
  InputRate = 1
  OutputRate = 1
  PerRate = 2
  Starts = {}
  InitialGrants = {2}
  GrantSizes = {}
  Limits = {0}
  MaxBalance = 2
  MaxFaults = 1
SPECIFICATION Spec
INVARIANT CreditIsNeverMetered
CHECK_DEADLOCK FALSE
