--------------------------- MODULE UsageAccounting ---------------------------
(***************************************************************************)
(* What an LLM call costs one account.  The worker reports the tokens of a *)
(* call to the API, up to MaxAttempts times with the same event id; the    *)
(* API prices them, draws the account's credit down, stores the event with *)
(* the split it chose, and reports the rest to the Stripe meter.  A budget *)
(* flag is raised when the stored costs pass the account's limit, and read *)
(* before a document is processed.                                         *)
(*                                                                         *)
(* An action is one statement, one transaction or one request.  The calls  *)
(* of one event may overlap: a lost connection ends the worker's attempt   *)
(* and not necessarily the handler that serves it.                         *)
(***************************************************************************)
EXTENDS Integers, FiniteSetsExt

CONSTANTS
  Events,        \* usage events of the account, one for each LLM call
  MaxAttempts,   \* recordUsageMaxAttempts
  InputTokens,   \* tokens of each event
  OutputTokens,
  InputRate,     \* model_pricing: minor units for PerRate tokens
  OutputRate,
  PerRate,       \* 1_000_000 in the code
  Starts,        \* calls that start to process a document
  InitialGrants, \* credits the account may begin with
  GrantSizes,    \* credits an admin may add
  Limits,        \* budget limits, 0 for none
  MaxBalance,    \* bound: no credit is added beyond it
  MaxFaults      \* bound: failed statements, crashes and lost answers

ASSUME TokensAssumption ==
  /\ InputTokens \in [Events -> Nat]
  /\ OutputTokens \in [Events -> Nat]
ASSUME PricingAssumption ==
  /\ InputRate \in Nat
  /\ OutputRate \in Nat
  /\ PerRate \in Nat \ {0}
ASSUME BoundsAssumption ==
  /\ MaxAttempts \in Nat \ {0}
  /\ InitialGrants \subseteq Nat
  /\ GrantSizes \subseteq Nat
  /\ Limits \subseteq Nat
  /\ MaxBalance \in Nat
  /\ MaxFaults \in Nat

VARIABLES
  report,       \* the worker's side of each event
  call,         \* the handlers serving each attempt
  balance,      \* the sum of account_credits
  deduction,    \* its "deduct-<event>" rows, 0 where there is none
  usage_events, \* the stored events
  daily,        \* what each event has added to account_usage_daily
  meter,        \* the tokens Stripe has accepted for each event
  plan,         \* accounts.plan
  linked,       \* whether accounts.stripe_customer_id is set
  budget,       \* budget_limit_minor and budget_exceeded
  start,        \* the documents' starts
  faults,       \* faults so far
  undeducted,   \* history: events whose deduction failed
  overlap,      \* history: a credit was drawn from a balance that had fallen
  relimited     \* history: no event has been stored since the limit was last set

account == <<plan, linked, budget>>
history == <<undeducted, overlap, relimited>>
vars == <<report, call, balance, deduction, usage_events, daily, meter, account,
          start, faults, history>>

-----------------------------------------------------------------------------

Attempts == 1..MaxAttempts

NoEvent == [paid_via |-> "none", cost |-> 0, credit |-> 0, stripe |-> 0]

Idle == [pc |-> "idle", cost |-> 0, balance |-> 0, credit |-> 0, stripe |-> 0,
         paid_via |-> "stripe"]

PaidVia == {"credit", "stripe", "mixed"}

UsageEvent == [paid_via : PaidVia \cup {"none"}, cost : Nat, credit : Nat, stripe : Nat]

Call == [pc : {"idle", "price", "balance", "account", "deduct", "record",
               "customer", "meterIn", "meterOut", "respond", "done"},
         cost : Nat, balance : Int, credit : Nat, stripe : Nat, paid_via : PaidVia]

TypeOK ==
  /\ report \in [Events -> [status : {"none", "calling", "backoff", "done", "dropped"},
                            attempt : 0..MaxAttempts]]
  /\ call \in [Events \X Attempts -> Call]
  /\ balance \in Int
  /\ deduction \in [Events -> Nat]
  /\ usage_events \in [Events -> UsageEvent]
  /\ daily \in [Events -> Nat]
  /\ meter \in [Events -> [in : Nat, out : Nat]]
  /\ plan \in {"free", "usage_based"}
  /\ linked \in BOOLEAN
  /\ budget \in [limit : Nat, exceeded : BOOLEAN]
  /\ start \in [Starts -> {"none", "refused", "started"}]
  /\ faults \in 0..MaxFaults
  /\ undeducted \in SUBSET Events
  /\ overlap \in BOOLEAN
  /\ relimited \in BOOLEAN

Init ==
  /\ report = [e \in Events |-> [status |-> "none", attempt |-> 0]]
  /\ call = [c \in Events \X Attempts |-> Idle]
  /\ balance \in InitialGrants
  /\ deduction = [e \in Events |-> 0]
  /\ usage_events = [e \in Events |-> NoEvent]
  /\ daily = [e \in Events |-> 0]
  /\ meter = [e \in Events |-> [in |-> 0, out |-> 0]]
  /\ plan \in {"free", "usage_based"}
  /\ linked \in BOOLEAN
  /\ budget \in [limit : Limits, exceeded : {FALSE}]
  /\ start = [s \in Starts |-> "none"]
  /\ faults = 0
  /\ undeducted = {}
  /\ overlap = FALSE
  /\ relimited = TRUE

-----------------------------------------------------------------------------
(* The worker.                                                             *)

\* One fault more, of those the instance allows.
Fault == faults < MaxFaults /\ faults' = faults + 1

\* The next attempt reaches the API.
Send(e, n) ==
  /\ report' = [report EXCEPT ![e] = [status |-> "calling", attempt |-> n]]
  /\ call' = [call EXCEPT ![<<e, n>>].pc = "price"]

\* An LLM call has answered and its tokens are reported; no tokens, no report.
reportUsage(e) ==
  /\ report[e].status = "none"
  /\ InputTokens[e] + OutputTokens[e] > 0
  /\ Send(e, 1)
  /\ UNCHANGED <<balance, deduction, usage_events, daily, meter, account, start,
                 faults, history>>

\* What the worker does when an attempt fails with a code that may pass.
AfterTransientError(r) ==
  IF r.attempt < MaxAttempts THEN [r EXCEPT !.status = "backoff"]
                             ELSE [r EXCEPT !.status = "dropped"]

\* The backoff is over.
RetryReport(e) ==
  /\ report[e].status = "backoff"
  /\ Send(e, report[e].attempt + 1)
  /\ UNCHANGED <<balance, deduction, usage_events, daily, meter, account, start,
                 faults, history>>

\* The connection breaks: the worker takes it for unavailability, and the handler
\* goes on.
LoseAnswer(e) ==
  /\ report[e].status = "calling"
  /\ Fault
  /\ report' = [report EXCEPT ![e] = AfterTransientError(@)]
  /\ UNCHANGED <<call, balance, deduction, usage_events, daily, meter, account,
                 start, history>>

\* The job's context ends while the worker waits.
CancelReport(e) ==
  /\ report[e].status \in {"calling", "backoff"}
  /\ Fault
  /\ report' = [report EXCEPT ![e].status = "dropped"]
  /\ UNCHANGED <<call, balance, deduction, usage_events, daily, meter, account,
                 start, history>>

-----------------------------------------------------------------------------
(* The API: pricing and the split.                                         *)

\* The handler of attempt c takes the step from one statement to another.
At(c, pc) == call[c].pc = pc

Goto(c, pc) == call' = [call EXCEPT ![c].pc = pc]

\* The handler's locals go with it.
Finish(c) == call' = [call EXCEPT ![c] = [Idle EXCEPT !.pc = "done"]]

ComputeCostMinor(e) ==
  (InputTokens[e] * InputRate) \div PerRate + (OutputTokens[e] * OutputRate) \div PerRate

\* An event that costs nothing, or whose price could not be looked up, is stored
\* without drawing credit.
GetModelPricing(c) ==
  /\ At(c, "price")
  /\ \/ /\ LET cost == ComputeCostMinor(c[1])
           IN call' = [call EXCEPT ![c].cost = cost,
                                   ![c].pc = IF cost > 0 THEN "balance" ELSE "record"]
        /\ UNCHANGED faults
     \/ /\ Fault
        /\ Goto(c, "record")
  /\ UNCHANGED <<report, balance, deduction, usage_events, daily, meter, account,
                 start, history>>

\* A balance that cannot be read counts as none.
GetCreditBalance(c) ==
  /\ At(c, "balance")
  /\ \/ /\ call' = [call EXCEPT ![c].balance = balance, ![c].pc = "account"]
        /\ UNCHANGED faults
     \/ /\ Fault
        /\ Goto(c, "account")
  /\ UNCHANGED <<report, balance, deduction, usage_events, daily, meter, account,
                 start, history>>

\* Broken variant: what the balance does not cover is drawn from it all the same.
SplitOverdrawn(cost, available, isFree) ==
  IF available >= cost THEN [credit |-> cost, stripe |-> 0, paid_via |-> "credit"]
  ELSE IF available > 0 THEN [credit |-> cost, stripe |-> cost - available,
                              paid_via |-> "mixed"]
  ELSE IF isFree THEN [credit |-> 0, stripe |-> 0, paid_via |-> "credit"]
  ELSE [credit |-> 0, stripe |-> cost, paid_via |-> "stripe"]

\* Broken variant: credit that covers the cost does not lower what the meter gets.
SplitDouble(cost, available, isFree) ==
  IF available >= cost THEN [credit |-> cost, stripe |-> cost, paid_via |-> "credit"]
  ELSE IF available > 0 THEN [credit |-> available, stripe |-> cost - available,
                              paid_via |-> "mixed"]
  ELSE IF isFree THEN [credit |-> 0, stripe |-> 0, paid_via |-> "credit"]
  ELSE [credit |-> 0, stripe |-> cost, paid_via |-> "stripe"]

\* Broken variant: the part that credit covers is never capped at the cost.
SplitNegative(cost, available, isFree) ==
  IF available > 0 THEN [credit |-> available, stripe |-> cost - available, paid_via |-> "mixed"]
  ELSE IF isFree THEN [credit |-> 0, stripe |-> 0, paid_via |-> "credit"]
  ELSE [credit |-> 0, stripe |-> cost, paid_via |-> "stripe"]

\* How a cost is shared between the credit and Stripe.
Split(cost, available, isFree) ==
  IF available >= cost THEN [credit |-> cost, stripe |-> 0, paid_via |-> "credit"]
  ELSE IF available > 0 THEN [credit |-> available, stripe |-> cost - available,
                              paid_via |-> "mixed"]
  ELSE IF isFree THEN [credit |-> 0, stripe |-> 0, paid_via |-> "credit"]
  ELSE [credit |-> 0, stripe |-> cost, paid_via |-> "stripe"]

\* The plan is read, and the split made.  An account that cannot be read is not free.
SplitCost(c, isFree) ==
  LET split == Split(call[c].cost, call[c].balance, isFree)
  IN call' = [call EXCEPT ![c].credit = split.credit, ![c].stripe = split.stripe,
                          ![c].paid_via = split.paid_via,
                          ![c].pc = IF split.credit > 0 THEN "deduct" ELSE "record"]

GetAccountPlan(c) ==
  /\ At(c, "account")
  /\ \/ SplitCost(c, plan = "free") /\ UNCHANGED faults
     \/ SplitCost(c, FALSE) /\ Fault
  /\ UNCHANGED <<report, balance, deduction, usage_events, daily, meter, account,
                 start, history>>

-----------------------------------------------------------------------------
(* The API: deducting, storing, metering.                                  *)

\* The deduction's id is "deduct-<event>": a second one is refused by the primary
\* key.  A deduction that fails is logged, and the event is stored as if it had not.
DeductCredit(c) ==
  LET e == c[1]
  IN /\ At(c, "deduct")
     /\ call' = [call EXCEPT ![c].pc = "record", ![c].balance = 0]
     /\ \/ /\ deduction[e] = 0
           /\ deduction' = [deduction EXCEPT ![e] = call[c].credit]
           /\ balance' = balance - call[c].credit
           /\ overlap' = (overlap \/ balance < call[c].balance)
           /\ UNCHANGED <<faults, undeducted>>
        \/ /\ deduction[e] # 0
           /\ UNCHANGED <<balance, deduction, faults, undeducted, overlap>>
        \/ /\ Fault
           /\ undeducted' = undeducted \cup {e}
           /\ UNCHANGED <<balance, deduction, overlap>>
     /\ UNCHANGED <<report, usage_events, daily, meter, account, start, relimited>>

\* Broken variant: a repeated event replaces the one that is there.
InsertOverwriting(e, event) ==
  [usage_events EXCEPT ![e] = event]

\* INSERT ... ON CONFLICT (event_id) DO NOTHING
InsertUsageEvent(e, event) ==
  IF usage_events[e] = NoEvent THEN [usage_events EXCEPT ![e] = event]
                               ELSE usage_events

SumUsageCost(events) == MapThenSumSet(LAMBDA e : events[e].cost, Events)

\* Broken variant: the rollup is left alone.
UpsertNothing(e, cost) == daily

\* The rollup adds, whether or not the event was there.
UpsertAccountUsageDaily(e, cost) == [daily EXCEPT ![e] = @ + cost]

\* Broken variant: the costs are summed up without the new event.
ExceedsBefore(events) ==
  budget.limit > 0 /\ SumUsageCost(usage_events) > budget.limit

\* The costs stored with this transaction pass the limit.
Exceeds(events) ==
  budget.limit > 0 /\ SumUsageCost(events) > budget.limit

\* Broken variant: the split is left out of the row.
RowWithoutSplit(k) == [paid_via |-> "stripe", cost |-> k.cost, credit |-> 0, stripe |-> k.stripe]

\* The row a handler stores.
UsageEventRow(k) ==
  [paid_via |-> k.paid_via, cost |-> k.cost, credit |-> k.credit, stripe |-> k.stripe]

\* RecordUsageAccounting is one transaction, and it locks the account's row before it
\* sums up: those of one account run one after the other.  When it fails the handler answers with
\* an internal error, which the worker does not retry.
RecordUsageAccounting(c) ==
  LET e == c[1]
      k == call[c]
      stored == InsertUsageEvent(e, UsageEventRow(k))
  IN /\ At(c, "record")
     /\ usage_events' = stored
     /\ daily' = UpsertAccountUsageDaily(e, k.cost)
     /\ budget' = [budget EXCEPT !.exceeded = @ \/ Exceeds(stored)]
     /\ relimited' = FALSE
     /\ call' = [call EXCEPT ![c] = [Idle EXCEPT !.cost = k.cost, !.stripe = k.stripe,
                   !.pc = IF k.stripe > 0 THEN "customer" ELSE "respond"]]
     /\ UNCHANGED <<report, balance, deduction, meter, plan, linked, start, faults,
                    undeducted, overlap>>

\* The worker takes the answer of the attempt it waits for.
Answer(c, status) ==
  report' = [report EXCEPT ![c[1]] =
    IF @.status = "calling" /\ @.attempt = c[2] THEN [@ EXCEPT !.status = status] ELSE @]

RecordUsageAccountingFails(c) ==
  /\ At(c, "record")
  /\ Fault
  /\ Answer(c, "dropped")
  /\ Finish(c)
  /\ UNCHANGED <<balance, deduction, usage_events, daily, meter, account, start,
                 history>>

\* The account is read again for its customer; without one nothing is reported.
GetAccountCustomer(c) ==
  /\ At(c, "customer")
  /\ \/ Goto(c, IF linked THEN "meterIn" ELSE "respond") /\ UNCHANGED faults
     \/ Goto(c, "respond") /\ Fault
  /\ UNCHANGED <<report, balance, deduction, usage_events, daily, meter, account,
                 start, history>>

\* Broken variant: the tokens are scaled up, and nothing caps them.
ProratedUncapped(c) ==
  LET k == call[c]
      in == InputTokens[c[1]]
      out == OutputTokens[c[1]]
  IN [in |-> (in * k.cost + k.stripe - 1) \div k.stripe,
      out |-> (out * k.cost) \div k.stripe]

\* The share of the tokens that Stripe's share of the cost stands for: the input is
\* rounded up, the output down.
ProratedTokens(c) ==
  LET k == call[c]
      in == InputTokens[c[1]]
      out == OutputTokens[c[1]]
  IN IF k.cost <= 0 \/ k.stripe >= k.cost THEN [in |-> in, out |-> out]
     ELSE [in |-> Min({in, (in * k.stripe + k.cost - 1) \div k.cost}),
           out |-> Min({out, (out * k.stripe) \div k.cost})]

\* Stripe keeps the first report of an identifier, and is not sent a zero.
Metered(reported, tokens) == IF reported = 0 THEN tokens ELSE reported

ReportInputTokens(c) ==
  LET e == c[1]
  IN /\ At(c, "meterIn")
     /\ \/ /\ meter' = [meter EXCEPT ![e].in = Metered(@, ProratedTokens(c).in)]
           /\ Goto(c, "meterOut")
           /\ UNCHANGED faults
        \/ /\ Fault
           /\ Goto(c, "respond")
           /\ UNCHANGED meter
     /\ UNCHANGED <<report, balance, deduction, usage_events, daily, account, start,
                    history>>

\* Whether this report succeeds or not, the handler answers that all went well.
ReportOutputTokens(c) ==
  LET e == c[1]
  IN /\ At(c, "meterOut")
     /\ \/ /\ meter' = [meter EXCEPT ![e].out = Metered(@, ProratedTokens(c).out)]
           /\ UNCHANGED faults
        \/ /\ Fault
           /\ UNCHANGED meter
     /\ Goto(c, "respond")
     /\ UNCHANGED <<report, balance, deduction, usage_events, daily, account, start,
                    history>>

\* The answer says whether the budget is exceeded; the worker looks at its error only.
Respond(c) ==
  /\ At(c, "respond")
  /\ Answer(c, "done")
  /\ Finish(c)
  /\ UNCHANGED <<balance, deduction, usage_events, daily, meter, account, start,
                 faults, history>>

\* The API's process dies; to the worker it has become unavailable.
HandlerCrash(c) ==
  /\ call[c].pc \notin {"idle", "done"}
  /\ Fault
  /\ Finish(c)
  /\ report' = [report EXCEPT ![c[1]] =
       IF @.status = "calling" /\ @.attempt = c[2] THEN AfterTransientError(@) ELSE @]
  /\ UNCHANGED <<balance, deduction, usage_events, daily, meter, account, start,
                 history>>

-----------------------------------------------------------------------------
(* The account's other writers, and the gate.                              *)

\* An admin adds credit.
GrantCredit(amount) ==
  /\ amount > 0
  /\ balance + amount <= MaxBalance
  /\ balance' = balance + amount
  /\ UNCHANGED <<report, call, deduction, usage_events, daily, meter, account, start,
                 faults, history>>

\* A new limit clears the flag, whatever has been spent.
UpdateBudget(limit) ==
  /\ budget' = [limit |-> limit, exceeded |-> FALSE]
  /\ relimited' = TRUE
  /\ UNCHANGED <<report, call, balance, deduction, usage_events, daily, meter, plan,
                 linked, start, faults, undeducted, overlap>>

\* A webhook or a reconciliation moves the account to another plan.
ApplyBillingEvent(p) ==
  /\ plan' = p
  /\ UNCHANGED <<report, call, balance, deduction, usage_events, daily, meter, linked,
                 budget, start, faults, history>>

\* A checkout gives the account its Stripe customer.
SetAccountStripeCustomerID ==
  /\ linked' = TRUE
  /\ UNCHANGED <<report, call, balance, deduction, usage_events, daily, meter, plan,
                 budget, start, faults, history>>

\* The row as GetAccount returns it: its SELECT lists no budget columns, so the flag
\* keeps the zero value of its field.
AccountRead == [plan |-> plan, linked |-> linked, budget_exceeded |-> FALSE]

\* The gate before a document is processed; an account that cannot be read passes.
ensureBudgetAvailable(s) ==
  /\ start[s] = "none"
  /\ \/ /\ start' = [start EXCEPT ![s] =
                    IF AccountRead.budget_exceeded THEN "refused" ELSE "started"]
        /\ UNCHANGED faults
     \/ /\ Fault
        /\ start' = [start EXCEPT ![s] = "started"]
  /\ UNCHANGED <<report, call, balance, deduction, usage_events, daily, meter, account,
                 history>>

-----------------------------------------------------------------------------

Worker(e) ==
  \/ reportUsage(e)
  \/ RetryReport(e)
  \/ LoseAnswer(e)
  \/ CancelReport(e)

\* The steps of a handler that is not interrupted.
Handle(c) ==
  \/ GetModelPricing(c)
  \/ GetCreditBalance(c)
  \/ GetAccountPlan(c)
  \/ DeductCredit(c)
  \/ RecordUsageAccounting(c)
  \/ RecordUsageAccountingFails(c)
  \/ GetAccountCustomer(c)
  \/ ReportInputTokens(c)
  \/ ReportOutputTokens(c)
  \/ Respond(c)

Account ==
  \/ \E amount \in GrantSizes : GrantCredit(amount)
  \/ \E limit \in Limits : UpdateBudget(limit)
  \/ \E p \in {"free", "usage_based"} : ApplyBillingEvent(p)
  \/ SetAccountStripeCustomerID
  \/ \E s \in Starts : ensureBudgetAvailable(s)

Next ==
  \/ \E e \in Events : Worker(e)
  \/ \E c \in Events \X Attempts : Handle(c) \/ HandlerCrash(c)
  \/ Account

Spec == Init /\ [][Next]_vars

-----------------------------------------------------------------------------
(* Properties.                                                             *)

\* Once the stored costs have passed the limit the flag is up, unless the limit was
\* set again since: however many handlers store at once, none of them is the one
\* that crosses the limit unseen (RecordUsageAccounting sums up in its transaction).
OverspendIsFlagged ==
  budget.limit > 0 /\ SumUsageCost(usage_events) > budget.limit
    => budget.exceeded \/ relimited

\* The balance and the deduction are two statements: the credit is overdrawn only
\* when a handler deducts from a balance that another has lowered in between.
OverdraftNeedsOverlap == balance < 0 => overlap

\* An event that was sent once is drawn from the credit exactly as its row says,
\* unless the deduction itself failed: a crash before the row, or an answer lost
\* after it, leaves no other difference between the ledger and the events.
LedgerMatchesEvents ==
  \A e \in Events :
    usage_events[e] # NoEvent /\ report[e].attempt = 1 /\ e \notin undeducted
      => deduction[e] = usage_events[e].credit

\* An event whose cost the credit covers is metered as well only when the report was
\* sent again: the second handler splits by the balance that the first has lowered.
DoubleChargeNeedsRetry ==
  \A e \in Events :
    usage_events[e].paid_via = "credit" /\ meter[e] # [in |-> 0, out |-> 0]
      => report[e].attempt > 1

\* However often an event is sent, Stripe is never told of more tokens than it had.
MeteredWithinUse ==
  \A e \in Events :
    meter[e].in <= InputTokens[e] /\ meter[e].out <= OutputTokens[e]

\* The daily rollup and the events disagree about an event only if it was sent again.
RollupDiffersByRetries ==
  \A e \in Events :
    daily[e] # usage_events[e].cost => report[e].attempt > 1

\* A repeated report never rewrites what the first one stored (ON CONFLICT DO NOTHING).
StoredEventsStay ==
  [][\A e \in Events : usage_events[e] # NoEvent => usage_events'[e] = usage_events[e]]_vars

\* Said of the code: an event that is paid by credit is never sent to the meter.
CreditIsNeverMetered ==
  \A e \in Events :
    usage_events[e].paid_via = "credit" => meter[e] = [in |-> 0, out |-> 0]

\* Said of the code: an account whose budget is exceeded starts no processing, unless
\* it could not be read.
ExceededAccountIsGated ==
  [][\A s \in Starts :
       start'[s] # start[s] /\ start'[s] = "started" /\ budget.exceeded
         => faults' # faults]_vars

=============================================================================
