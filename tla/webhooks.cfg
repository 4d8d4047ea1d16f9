\* Two events, one invoice, two cards, one fault, one reconciliation; a customer who is
\* new, about to subscribe, subscribed, or subscribed again with an invoice of before
\* still open.
CONSTANTS
  i1 = i1
  c1 = c1
  c2 = c2
  Invoices = {i1}
  Cards = {c1, c2}
  NoCard = NoCard
  MaxEvents = 2
  MaxReconciles = 1
  MaxFaults = 1
SPECIFICATION Spec
SYMMETRY CardsAlike
INVARIANTS
  TypeOK
  AccountFollowsStripe
  InvoicesFollowStripe
  CardsFollowStripe
  OneDefaultCard
  AppliedOnceOrOnRecord
CHECK_DEADLOCK FALSE
