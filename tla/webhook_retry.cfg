\* Three events, one fault, no reconciliation.
CONSTANTS
  i1 = i1
  c1 = c1
  c2 = c2
  Invoices = {i1}
  Cards = {c1}
  NoCard = NoCard
  MaxEvents = 3
  MaxReconciles = 0
  MaxFaults = 1
SPECIFICATION Spec
INVARIANTS
  FailedIsRetried
CHECK_DEADLOCK FALSE
