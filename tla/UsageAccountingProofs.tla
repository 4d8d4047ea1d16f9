------------------------ MODULE UsageAccountingProofs ------------------------
(***************************************************************************)
(* Proofs about UsageAccounting, for every set of events, every number of  *)
(* attempts and of faults, and every choice of tokens, rates, credits and  *)
(* limits: the types; that an overspend is flagged; that an overdraft      *)
(* needs two handlers to overlap; that the ledger, the rollup and the      *)
(* meter agree with the row of an event that was sent once; that the meter *)
(* is never told too much; and that a stored row stays.                    *)
(*                                                                         *)
(* The sum of the stored costs is never opened: the transaction compares   *)
(* the sum it leaves behind, whatever that sum is.                         *)
(***************************************************************************)
EXTENDS UsageAccounting, TLAPS

Handlers == Events \X Attempts

\* The handler of an event's first attempt.
First(e) == <<e, 1>>

\* An attempt is counted from the first one that is sent, another one follows
\* only while there are some left, and a handler that runs serves an attempt that
\* was sent.
Sent ==
  /\ \A e \in Events : report[e].status = "none" <=> report[e].attempt = 0
  /\ \A e \in Events : report[e].status = "backoff" => report[e].attempt < MaxAttempts
  /\ \A c \in Handlers : call[c].pc # "idle" => c[2] <= report[c[1]].attempt

\* A handler's locals: before the split there is nothing to deduct or to meter; no
\* more is deducted than the balance that was read; and what is paid by credit
\* alone leaves nothing for Stripe.
Sound(k) ==
  /\ k.pc \in {"idle", "price", "balance", "account"} => k.credit = 0 /\ k.paid_via = "stripe"
  /\ k.pc = "deduct" => k.credit <= k.balance
  /\ k.paid_via = "credit" => k.stripe = 0

HandlersSound == \A c \in Handlers : Sound(call[c])

\* The stages of a handler before its row, and before its deduction, is stored.
BeforeRow == {"idle", "price", "balance", "account", "deduct", "record"}

BeforeDeduction == BeforeRow \ {"record"}

Metering == {"customer", "meterIn", "meterOut"}

Unmetered == [in |-> 0, out |-> 0]

\* Of an event that was sent at most once: nothing is stored of it before its only
\* handler stores it, that handler knows what the deduction did and what the row
\* says, and the ledger, the rollup and the meter agree with the row.
OnceSound(e) ==
  /\ call[First(e)].pc \in BeforeRow => usage_events[e] = NoEvent /\ meter[e] = Unmetered
  /\ call[First(e)].pc \in BeforeDeduction => deduction[e] = 0
  /\ call[First(e)].pc = "record" => e \in undeducted \/ deduction[e] = call[First(e)].credit
  /\ call[First(e)].pc \in Metering => usage_events[e].paid_via # "credit"
  /\ usage_events[e] # NoEvent /\ e \notin undeducted => deduction[e] = usage_events[e].credit
  /\ usage_events[e].paid_via = "credit" => meter[e] = Unmetered
  /\ daily[e] = usage_events[e].cost

SentOnce == \A e \in Events : report[e].attempt =< 1 => OnceSound(e)

Inv ==
  /\ TypeOK
  /\ Sent
  /\ HandlersSound
  /\ SentOnce
  /\ OverspendIsFlagged
  /\ OverdraftNeedsOverlap
  /\ MeteredWithinUse

-----------------------------------------------------------------------------
(* The arithmetic.                                                         *)

\* The product of two naturals is one.
LEMMA ProductInNat ==
  ASSUME NEW m \in Nat, NEW n \in Nat
  PROVE m * n \in Nat
  OBVIOUS

\* A natural divided by a positive one is a natural.
LEMMA QuotientInNat ==
  ASSUME NEW m \in Nat, NEW n \in Nat, n > 0
  PROVE m \div n \in Nat
  OBVIOUS

\* The smaller of two integers.
LEMMA MinOfTwo ==
  ASSUME NEW m \in Int, NEW n \in Int
  PROVE Min({m, n}) = IF m =< n THEN m ELSE n
<1>1. CASE m =< n
  <2>1. m \in {m, n} /\ \A y \in {m, n} : m =< y
    BY <1>1
  <2>2. \A x \in {m, n} : (\A y \in {m, n} : x =< y) => x = m
    BY <1>1
  <2> QED
    BY <1>1, <2>1, <2>2 DEF Min
<1>2. CASE ~(m =< n)
  <2>1. n \in {m, n} /\ \A y \in {m, n} : n =< y
    BY <1>2
  <2>2. \A x \in {m, n} : (\A y \in {m, n} : x =< y) => x = n
    BY <1>2
  <2> QED
    BY <1>2, <2>1, <2>2 DEF Min
<1> QED
  BY <1>1, <1>2

\* A cost is a natural number.
LEMMA CostInNat ==
  ASSUME NEW e \in Events
  PROVE ComputeCostMinor(e) \in Nat
<1>1. /\ InputTokens[e] \in Nat /\ OutputTokens[e] \in Nat
      /\ InputRate \in Nat /\ OutputRate \in Nat /\ PerRate \in Nat /\ PerRate > 0
  BY TokensAssumption, PricingAssumption
<1>2. InputTokens[e] * InputRate \in Nat /\ OutputTokens[e] * OutputRate \in Nat
  BY <1>1, ProductInNat
<1>3. /\ (InputTokens[e] * InputRate) \div PerRate \in Nat
      /\ (OutputTokens[e] * OutputRate) \div PerRate \in Nat
  BY <1>1, <1>2, QuotientInNat
<1> QED
  BY <1>3 DEF ComputeCostMinor

\* The split of a cost: both parts are naturals, the credit is never more than what
\* is available, and what is paid by credit alone leaves nothing for Stripe.
LEMMA SplitLemma ==
  ASSUME NEW cost \in Nat, NEW available \in Int, NEW isFree \in BOOLEAN,
         NEW split, split = Split(cost, available, isFree)
  PROVE /\ split.credit \in Nat /\ split.stripe \in Nat /\ split.paid_via \in PaidVia
        /\ split.credit > 0 => split.credit <= available
        /\ split.paid_via = "credit" => split.stripe = 0
  BY DEF Split, PaidVia

\* The share that is metered is within the tokens of the event.
LEMMA ProratedLemma ==
  ASSUME TypeOK, NEW c \in Handlers
  PROVE /\ ProratedTokens(c).in \in Nat /\ ProratedTokens(c).in <= InputTokens[c[1]]
        /\ ProratedTokens(c).out \in Nat /\ ProratedTokens(c).out <= OutputTokens[c[1]]
<1> DEFINE in == InputTokens[c[1]]
           out == OutputTokens[c[1]]
           cost == call[c].cost
           stripe == call[c].stripe
<1>1. in \in Nat /\ out \in Nat
  BY TokensAssumption DEF Handlers
<1>2. cost \in Nat /\ stripe \in Nat
  BY DEF TypeOK, Call, Handlers
<1>3. CASE cost <= 0 \/ stripe >= cost
  BY <1>1, <1>3 DEF ProratedTokens
<1>4. CASE ~(cost <= 0 \/ stripe >= cost)
  <2> DEFINE i == (in * stripe + cost - 1) \div cost
             o == (out * stripe) \div cost
  <2>1. in * stripe \in Nat /\ out * stripe \in Nat
    BY <1>1, <1>2, ProductInNat
  <2>2. cost > 0
    BY <1>2, <1>4
  <2> HIDE DEF in, out, cost, stripe
  <2>3. in * stripe + cost - 1 \in Nat
    BY <1>2, <2>1, <2>2
  <2>4. i \in Nat /\ o \in Nat
    BY <1>2, <2>1, <2>2, <2>3, QuotientInNat
  <2> HIDE DEF i, o
  <2>5. /\ Min({in, i}) \in Nat /\ Min({in, i}) <= in
        /\ Min({out, o}) \in Nat /\ Min({out, o}) <= out
    BY <1>1, <2>4, MinOfTwo
  <2>6. ProratedTokens(c) = [in |-> Min({in, i}), out |-> Min({out, o})]
    BY <1>4 DEF ProratedTokens, in, out, cost, stripe, i, o
  <2> QED
    BY <2>5, <2>6 DEF in, out
<1> QED
  BY <1>3, <1>4

-----------------------------------------------------------------------------
(* The types.                                                              *)

Reports == [status : {"none", "calling", "backoff", "done", "dropped"},
            attempt : 0..MaxAttempts]

Stages == {"idle", "price", "balance", "account", "deduct", "record",
           "customer", "meterIn", "meterOut", "respond", "done"}

\* One fault more is still within the bound.
LEMMA FaultType ==
  ASSUME TypeOK, Fault \/ UNCHANGED faults
  PROVE faults' \in 0..MaxFaults
  BY BoundsAssumption DEF TypeOK, Fault

\* The answer of a handler keeps the worker's report well typed.
LEMMA AnswerType ==
  ASSUME TypeOK, NEW c \in Handlers, NEW s \in {"done", "dropped"}, Answer(c, s)
  PROVE report' \in [Events -> Reports]
<1> DEFINE e == c[1]
           r == IF report[e].status = "calling" /\ report[e].attempt = c[2]
                THEN [report[e] EXCEPT !.status = s] ELSE report[e]
<1>1. e \in Events
  BY DEF Handlers
<1>2. report[e] \in Reports
  BY <1>1 DEF TypeOK, Reports
<1>3. r \in Reports
  BY <1>2 DEF Reports
<1>4. report' = [report EXCEPT ![e] = r]
  BY DEF Answer
<1> HIDE DEF e, r
<1> QED
  BY <1>1, <1>3, <1>4 DEF TypeOK, Reports

\* An attempt that failed leaves a well typed report.
LEMMA TransientType ==
  ASSUME TypeOK, NEW e \in Events
  PROVE AfterTransientError(report[e]) \in Reports
  BY DEF TypeOK, AfterTransientError, Reports

\* A handler at rest, or done, is well typed.
LEMMA IdleType == Idle \in Call /\ [Idle EXCEPT !.pc = "done"] \in Call
  BY DEF Idle, Call, PaidVia

\* Replacing one handler by a well typed one keeps the types.
LEMMA HandlerType ==
  ASSUME TypeOK, NEW c \in Handlers, NEW k \in Call, call' = [call EXCEPT ![c] = k]
  PROVE call' \in [Events \X Attempts -> Call]
  BY DEF TypeOK, Handlers

\* Moving on to another stage keeps the types.
LEMMA GotoType ==
  ASSUME TypeOK, NEW c \in Handlers, NEW pc \in Stages, Goto(c, pc)
  PROVE call' \in [Events \X Attempts -> Call]
<1> DEFINE k == [call[c] EXCEPT !.pc = pc]
<1>1. call[c] \in Call
  BY DEF TypeOK, Handlers
<1>2. k \in Call
  BY <1>1 DEF Call, Stages
<1>3. call' = [call EXCEPT ![c] = k]
  BY DEF Goto
<1> QED
  BY <1>2, <1>3, HandlerType

\* So does ending.
LEMMA FinishType ==
  ASSUME TypeOK, NEW c \in Handlers, Finish(c)
  PROVE call' \in [Events \X Attempts -> Call]
  BY IdleType, HandlerType DEF Finish

\* The types hold initially and after every step.
LEMMA TypeInit == Init => TypeOK
<1> SUFFICES ASSUME Init PROVE TypeOK
  OBVIOUS
<1>1. call \in [Events \X Attempts -> Call]
  BY IdleType DEF Init
<1>2. usage_events \in [Events -> UsageEvent]
  BY DEF Init, NoEvent, UsageEvent
<1>3. MaxAttempts \in Nat /\ MaxFaults \in Nat /\ InitialGrants \subseteq Nat /\ Limits \subseteq Nat
  BY BoundsAssumption
<1>4. budget \in [limit : Nat, exceeded : BOOLEAN]
  BY <1>3 DEF Init
<1>5. /\ report \in [Events -> Reports]
      /\ faults \in 0..MaxFaults
      /\ balance \in Int
  BY <1>3 DEF Init, Reports
<1>6. /\ deduction \in [Events -> Nat]
      /\ daily \in [Events -> Nat]
      /\ meter \in [Events -> [in : Nat, out : Nat]]
      /\ start \in [Starts -> {"none", "refused", "started"}]
  BY DEF Init
<1>7. /\ plan \in {"free", "usage_based"} /\ linked \in BOOLEAN
      /\ undeducted \in SUBSET Events /\ overlap \in BOOLEAN /\ relimited \in BOOLEAN
  BY DEF Init
<1> QED
  BY <1>1, <1>2, <1>4, <1>5, <1>6, <1>7 DEF TypeOK, Reports

\* Every step keeps the types.
LEMMA TypeStep == TypeOK /\ Sent /\ [Next]_vars => TypeOK'
<1> SUFFICES ASSUME TypeOK, Sent, [Next]_vars PROVE TypeOK'
  OBVIOUS
<1>1. ASSUME NEW e \in Events, Worker(e) PROVE TypeOK'
  <2>1. ASSUME NEW n \in Attempts, Send(e, n)
        PROVE report' \in [Events -> Reports] /\ call' \in [Events \X Attempts -> Call]
    <3>1. report' \in [Events -> Reports]
      BY <2>1, BoundsAssumption DEF TypeOK, Send, Reports, Attempts
    <3>2. <<e, n>> \in Handlers /\ Goto(<<e, n>>, "price")
      BY <2>1 DEF Send, Goto, Handlers
    <3> QED
      BY <3>1, <3>2, GotoType DEF Stages
  <2>2. CASE reportUsage(e)
    <3>1. 1 \in Attempts
      BY BoundsAssumption DEF Attempts
    <3> QED
      BY <2>1, <2>2, <3>1 DEF reportUsage, account, history, TypeOK, Reports
  <2>3. CASE RetryReport(e)
    <3>1. CASE report[e].attempt + 1 \in Attempts
      BY <2>1, <2>3, <3>1 DEF RetryReport, account, history, TypeOK, Reports
    <3>2. report[e].attempt < MaxAttempts
      BY <2>3 DEF RetryReport, Sent
    <3> QED
      BY <3>1, <3>2, BoundsAssumption DEF Attempts, TypeOK
  <2>4. CASE LoseAnswer(e)
    <3>1. report' \in [Events -> Reports]
      BY <2>4, TransientType DEF LoseAnswer, TypeOK, Reports
    <3>2. faults' \in 0..MaxFaults
      BY <2>4, FaultType DEF LoseAnswer
    <3> QED
      BY <2>4, <3>1, <3>2 DEF LoseAnswer, account, history, TypeOK, Reports
  <2>5. CASE CancelReport(e)
    <3>1. report' \in [Events -> Reports]
      BY <2>5 DEF CancelReport, TypeOK, Reports
    <3>2. faults' \in 0..MaxFaults
      BY <2>5, FaultType DEF CancelReport
    <3> QED
      BY <2>5, <3>1, <3>2 DEF CancelReport, account, history, TypeOK, Reports
  <2> QED
    BY <1>1, <2>2, <2>3, <2>4, <2>5 DEF Worker
<1>2. ASSUME NEW c \in Handlers, Handle(c) PROVE TypeOK'
  <2> USE DEF account, history
  <2>0. call[c] \in Call /\ c[1] \in Events
    BY DEF TypeOK, Handlers
  <2>1. CASE GetModelPricing(c)
    <3> DEFINE cost == ComputeCostMinor(c[1])
               k == [call[c] EXCEPT !.cost = cost,
                                    !.pc = IF cost > 0 THEN "balance" ELSE "record"]
    <3>1. cost \in Nat
      BY <2>0, CostInNat
    <3> HIDE DEF cost
    <3>2. k \in Call
      BY <2>0, <3>1 DEF Call
    <3>3. call' = [call EXCEPT ![c] = k] \/ Goto(c, "record")
      BY <2>1 DEF GetModelPricing, cost
    <3>4. call' \in [Events \X Attempts -> Call]
      BY <3>2, <3>3, HandlerType, GotoType DEF Stages
    <3>5. faults' \in 0..MaxFaults
      BY <2>1, FaultType DEF GetModelPricing
    <3> QED
      BY <2>1, <3>4, <3>5 DEF GetModelPricing, TypeOK
  <2>2. CASE GetCreditBalance(c)
    <3> DEFINE k == [call[c] EXCEPT !.balance = balance, !.pc = "account"]
    <3>1. k \in Call
      BY <2>0 DEF Call, TypeOK
    <3>2. call' = [call EXCEPT ![c] = k] \/ Goto(c, "account")
      BY <2>2 DEF GetCreditBalance
    <3>3. call' \in [Events \X Attempts -> Call]
      BY <3>1, <3>2, HandlerType, GotoType DEF Stages
    <3>4. faults' \in 0..MaxFaults
      BY <2>2, FaultType DEF GetCreditBalance
    <3> QED
      BY <2>2, <3>3, <3>4 DEF GetCreditBalance, TypeOK
  <2>3. CASE GetAccountPlan(c)
    <3>1. call[c].cost \in Nat /\ call[c].balance \in Int
      BY <2>0 DEF Call
    <3>2. ASSUME NEW isFree \in BOOLEAN, SplitCost(c, isFree)
          PROVE call' \in [Events \X Attempts -> Call]
      <4> DEFINE split == Split(call[c].cost, call[c].balance, isFree)
                 k == [call[c] EXCEPT !.credit = split.credit, !.stripe = split.stripe,
                                      !.paid_via = split.paid_via,
                                      !.pc = IF split.credit > 0 THEN "deduct" ELSE "record"]
      <4>1. split.credit \in Nat /\ split.stripe \in Nat /\ split.paid_via \in PaidVia
        BY <3>1, SplitLemma
      <4>2. call' = [call EXCEPT ![c] = k]
        BY <3>2 DEF SplitCost
      <4> HIDE DEF split
      <4>3. k \in Call
        BY <2>0, <4>1 DEF Call
      <4> QED
        BY <4>2, <4>3, HandlerType
    <3>3. (plan = "free") \in BOOLEAN
      OBVIOUS
    <3>4. call' \in [Events \X Attempts -> Call]
      BY <2>3, <3>2, <3>3 DEF GetAccountPlan
    <3>5. faults' \in 0..MaxFaults
      BY <2>3, FaultType DEF GetAccountPlan
    <3> QED
      BY <2>3, <3>4, <3>5 DEF GetAccountPlan, TypeOK
  <2>4. CASE DeductCredit(c)
    <3> DEFINE k == [call[c] EXCEPT !.pc = "record", !.balance = 0]
    <3>1. k \in Call
      BY <2>0, 0 \in Int DEF Call
    <3>2. call' = [call EXCEPT ![c] = k]
      BY <2>4 DEF DeductCredit
    <3>3. call' \in [Events \X Attempts -> Call]
      BY <3>1, <3>2, HandlerType
    <3>4. call[c].credit \in Nat /\ call[c].balance \in Int
      BY <2>0 DEF Call
    <3>5. faults' \in 0..MaxFaults
      BY <2>4, FaultType DEF DeductCredit
    <3>6. deduction' \in [Events -> Nat] /\ balance' \in Int
      BY <2>0, <2>4, <3>4 DEF DeductCredit, TypeOK
    <3>8. overlap' \in BOOLEAN
      BY <2>4 DEF DeductCredit, TypeOK
    <3>7. undeducted' \in SUBSET Events
      BY <2>0, <2>4 DEF DeductCredit, TypeOK
    <3> QED
      BY <2>4, <3>3, <3>5, <3>6, <3>7, <3>8 DEF DeductCredit, TypeOK
  <2>5. CASE RecordUsageAccounting(c)
    <3> DEFINE k == [Idle EXCEPT !.cost = call[c].cost, !.stripe = call[c].stripe,
                       !.pc = IF call[c].stripe > 0 THEN "customer" ELSE "respond"]
    <3>1. UsageEventRow(call[c]) \in UsageEvent
      BY <2>0 DEF Call, UsageEventRow, UsageEvent
    <3>2. usage_events' \in [Events -> UsageEvent]
      BY <2>0, <2>5, <3>1 DEF RecordUsageAccounting, InsertUsageEvent, TypeOK
    <3>3. daily' \in [Events -> Nat]
      BY <2>0, <2>5 DEF RecordUsageAccounting, UpsertAccountUsageDaily, Call, TypeOK
    <3>4. budget' = [limit |-> budget.limit,
                     exceeded |-> budget.exceeded \/ Exceeds(usage_events')]
      BY <2>5 DEF RecordUsageAccounting, TypeOK
    <3>5. Exceeds(usage_events') \in BOOLEAN
      BY DEF Exceeds
    <3>6. budget' \in [limit : Nat, exceeded : BOOLEAN]
      BY <3>4, <3>5 DEF TypeOK
    <3>7. k \in Call
      BY <2>0, IdleType DEF Call, Idle
    <3>8. call' \in [Events \X Attempts -> Call]
      BY <2>5, <3>7, HandlerType DEF RecordUsageAccounting
    <3> QED
      BY <2>5, <3>2, <3>3, <3>6, <3>8 DEF RecordUsageAccounting, TypeOK
  <2>6. CASE RecordUsageAccountingFails(c)
    <3>1. report' \in [Events -> Reports] /\ call' \in [Events \X Attempts -> Call]
      BY <2>6, AnswerType, FinishType DEF RecordUsageAccountingFails
    <3>2. faults' \in 0..MaxFaults
      BY <2>6, FaultType DEF RecordUsageAccountingFails
    <3> QED
      BY <2>6, <3>1, <3>2 DEF RecordUsageAccountingFails, TypeOK, Reports
  <2>7. CASE GetAccountCustomer(c)
    <3>1. call' \in [Events \X Attempts -> Call]
      BY <2>7, GotoType DEF GetAccountCustomer, Stages
    <3>2. faults' \in 0..MaxFaults
      BY <2>7, FaultType DEF GetAccountCustomer
    <3> QED
      BY <2>7, <3>1, <3>2 DEF GetAccountCustomer, TypeOK
  <2>8. CASE ReportInputTokens(c)
    <3>1. ProratedTokens(c).in \in Nat
      BY ProratedLemma
    <3>2. meter' \in [Events -> [in : Nat, out : Nat]]
      <4> DEFINE v == Metered(meter[c[1]].in, ProratedTokens(c).in)
      <4>1. v \in Nat
        BY <2>0, <3>1 DEF Metered, TypeOK
      <4>2. meter' = meter \/ meter' = [meter EXCEPT ![c[1]].in = v]
        BY <2>8 DEF ReportInputTokens
      <4> HIDE DEF v
      <4> QED
        BY <2>0, <4>1, <4>2 DEF TypeOK
    <3>3. call' \in [Events \X Attempts -> Call]
      BY <2>8, GotoType DEF ReportInputTokens, Stages
    <3>4. faults' \in 0..MaxFaults
      BY <2>8, FaultType DEF ReportInputTokens
    <3> QED
      BY <2>8, <3>2, <3>3, <3>4 DEF ReportInputTokens, TypeOK
  <2>9. CASE ReportOutputTokens(c)
    <3>1. ProratedTokens(c).out \in Nat
      BY ProratedLemma
    <3>2. meter' \in [Events -> [in : Nat, out : Nat]]
      <4> DEFINE v == Metered(meter[c[1]].out, ProratedTokens(c).out)
      <4>1. v \in Nat
        BY <2>0, <3>1 DEF Metered, TypeOK
      <4>2. meter' = meter \/ meter' = [meter EXCEPT ![c[1]].out = v]
        BY <2>9 DEF ReportOutputTokens
      <4> HIDE DEF v
      <4> QED
        BY <2>0, <4>1, <4>2 DEF TypeOK
    <3>3. call' \in [Events \X Attempts -> Call]
      BY <2>9, GotoType DEF ReportOutputTokens, Stages
    <3>4. faults' \in 0..MaxFaults
      BY <2>9, FaultType DEF ReportOutputTokens
    <3> QED
      BY <2>9, <3>2, <3>3, <3>4 DEF ReportOutputTokens, TypeOK
  <2>10. CASE Respond(c)
    <3>1. report' \in [Events -> Reports] /\ call' \in [Events \X Attempts -> Call]
      BY <2>10, AnswerType, FinishType DEF Respond
    <3> QED
      BY <2>10, <3>1 DEF Respond, TypeOK, Reports
  <2> QED
    BY <1>2, <2>1, <2>2, <2>3, <2>4, <2>5, <2>6, <2>7, <2>8, <2>9, <2>10 DEF Handle
<1>3. ASSUME NEW c \in Handlers, HandlerCrash(c) PROVE TypeOK'
  <2>1. c[1] \in Events
    BY DEF Handlers
  <2>2. report' \in [Events -> Reports]
    BY <1>3, <2>1, TransientType DEF HandlerCrash, TypeOK, Reports
  <2>3. call' \in [Events \X Attempts -> Call]
    BY <1>3, FinishType DEF HandlerCrash
  <2>4. faults' \in 0..MaxFaults
    BY <1>3, FaultType DEF HandlerCrash
  <2> QED
    BY <1>3, <2>2, <2>3, <2>4 DEF HandlerCrash, account, history, TypeOK, Reports
<1>4. CASE Account
  <2> USE DEF account, history
  <2>1. ASSUME NEW amount \in GrantSizes, GrantCredit(amount) PROVE TypeOK'
    BY <2>1, BoundsAssumption DEF GrantCredit, TypeOK
  <2>2. ASSUME NEW limit \in Limits, UpdateBudget(limit) PROVE TypeOK'
    BY <2>2, BoundsAssumption DEF UpdateBudget, TypeOK
  <2>3. ASSUME NEW p \in {"free", "usage_based"}, ApplyBillingEvent(p) PROVE TypeOK'
    BY <2>3 DEF ApplyBillingEvent, TypeOK
  <2>4. CASE SetAccountStripeCustomerID
    BY <2>4 DEF SetAccountStripeCustomerID, TypeOK
  <2>5. ASSUME NEW s \in Starts, ensureBudgetAvailable(s) PROVE TypeOK'
    <3>1. faults' \in 0..MaxFaults
      BY <2>5, FaultType DEF ensureBudgetAvailable
    <3>2. start' \in [Starts -> {"none", "refused", "started"}]
      BY <2>5 DEF ensureBudgetAvailable, TypeOK
    <3> QED
      BY <2>5, <3>1, <3>2 DEF ensureBudgetAvailable, TypeOK
  <2> QED
    BY <1>4, <2>1, <2>2, <2>3, <2>4, <2>5 DEF Account
<1>5. CASE UNCHANGED vars
  BY <1>5 DEF vars, account, history, TypeOK
<1> QED
  BY <1>1, <1>2, <1>3, <1>4, <1>5 DEF Next, Handlers

-----------------------------------------------------------------------------
(* The worker's report and the handlers' locals.                           *)

\* The report of an event is changed by its own handlers only, and they change its
\* status only, from "calling".
ReportStep(e) ==
  /\ report'[e].attempt = report[e].attempt
  /\ \/ report'[e].status = report[e].status
     \/ report[e].status = "calling" /\ report'[e].status \in {"done", "dropped"}
     \/ /\ report[e].status = "calling" /\ report'[e].status = "backoff"
        /\ report[e].attempt < MaxAttempts

\* What a lost attempt and an answer do to a report.
LEMMA TransientStep ==
  ASSUME TypeOK, NEW e \in Events, report[e].status = "calling",
         report' = [report EXCEPT ![e] = AfterTransientError(@)]
  PROVE \A d \in Events : ReportStep(d)
  BY DEF TypeOK, AfterTransientError, ReportStep

\* The answer of a handler, as a step of the reports: it reports nothing.
LEMMA AnswerStep ==
  ASSUME TypeOK, NEW c \in Handlers, NEW s \in {"done", "dropped"}, Answer(c, s)
  PROVE \A d \in Events : ReportStep(d)
<1>1. c[1] \in Events
  BY DEF Handlers
<1> QED
  BY <1>1 DEF TypeOK, Answer, ReportStep

\* Every step of a handler is one for the reports.
LEMMA HandlerReports ==
  ASSUME TypeOK, NEW c \in Handlers, Handle(c) \/ HandlerCrash(c)
  PROVE \A d \in Events : ReportStep(d)
<1>1. CASE HandlerCrash(c)
  <2>1. c[1] \in Events
    BY DEF Handlers
  <2>2. CASE report[c[1]].status = "calling" /\ report[c[1]].attempt = c[2]
    <3>1. report' = [report EXCEPT ![c[1]] = AfterTransientError(@)]
      BY <1>1, <2>2 DEF HandlerCrash
    <3> QED
      BY <2>1, <2>2, <3>1, TransientStep
  <2>3. CASE ~(report[c[1]].status = "calling" /\ report[c[1]].attempt = c[2])
    <3>1. report' = [report EXCEPT ![c[1]] = report[c[1]]]
      BY <1>1, <2>3 DEF HandlerCrash
    <3>2. report' = report
      BY <3>1 DEF TypeOK
    <3> QED
      BY <3>2 DEF ReportStep
  <2> QED
    BY <2>2, <2>3
<1>2. CASE RecordUsageAccountingFails(c) \/ Respond(c)
  BY <1>2, AnswerStep DEF RecordUsageAccountingFails, Respond
<1>3. CASE UNCHANGED report
  BY <1>3 DEF ReportStep
<1> QED
  BY <1>1, <1>2, <1>3 DEF Handle, GetModelPricing, GetCreditBalance, GetAccountPlan, DeductCredit,
     RecordUsageAccounting, GetAccountCustomer, ReportInputTokens, ReportOutputTokens

\* A handler changes its own locals only, and does not go back to rest.
LEMMA OwnLocals ==
  ASSUME TypeOK, NEW c \in Handlers, Handle(c) \/ HandlerCrash(c)
  PROVE /\ call[c].pc # "idle"
        /\ \A d \in Handlers \ {c} : call'[d] = call[d]
<1>1. call[c].pc # "idle"
  BY DEF Handle, HandlerCrash, At, GetModelPricing, GetCreditBalance, GetAccountPlan, DeductCredit,
     RecordUsageAccounting, RecordUsageAccountingFails, GetAccountCustomer, ReportInputTokens,
     ReportOutputTokens, Respond
<1>2. \A d \in Handlers \ {c} : call'[d] = call[d]
  BY DEF Handle, HandlerCrash, Goto, Finish, SplitCost, GetModelPricing, GetCreditBalance,
     GetAccountPlan, DeductCredit, RecordUsageAccounting, RecordUsageAccountingFails,
     GetAccountCustomer, ReportInputTokens, ReportOutputTokens, Respond, TypeOK, Handlers
<1> QED
  BY <1>1, <1>2

\* Handlers serve attempts that were sent; the next attempt finds its handler at rest.
LEMMA SentStep == TypeOK /\ Sent /\ [Next]_vars => Sent'
<1> SUFFICES ASSUME TypeOK, Sent, [Next]_vars PROVE Sent'
  OBVIOUS
<1>1. ASSUME NEW e \in Events, reportUsage(e) \/ RetryReport(e) PROVE Sent'
  <2>1. PICK n \in Attempts : Send(e, n) /\ n = report[e].attempt + 1
    <3>1. CASE reportUsage(e)
      <4>1. 1 \in Attempts /\ report[e].attempt = 0
        BY <3>1, BoundsAssumption DEF reportUsage, Sent, Attempts
      <4> QED
        BY <3>1, <4>1 DEF reportUsage
    <3>2. CASE RetryReport(e)
      <4>1. report[e].attempt + 1 \in Attempts
        BY <3>2, BoundsAssumption DEF RetryReport, Sent, TypeOK, Attempts
      <4> QED
        BY <3>2, <4>1 DEF RetryReport
    <3> QED
      BY <1>1, <3>1, <3>2
  <2>2. n \in Nat /\ n # 0
    BY BoundsAssumption DEF Attempts
  <2>3. report' = [report EXCEPT ![e] = [status |-> "calling", attempt |-> n]]
    BY <2>1 DEF Send
  <2>4. \A c \in Handlers : call'[c].pc = IF c = <<e, n>> THEN "price" ELSE call[c].pc
    BY <2>1 DEF Send, TypeOK, Handlers, Call
  <2>5. ASSUME NEW c \in Handlers, call'[c].pc # "idle" PROVE c[2] <= report'[c[1]].attempt
    <3>1. c[1] \in Events /\ c[2] \in Int
      BY BoundsAssumption DEF Handlers, Attempts
    <3>2. CASE c = <<e, n>>
      BY <2>2, <2>3, <3>1, <3>2 DEF TypeOK
    <3>3. CASE c # <<e, n>>
      <4>1. c[2] <= report[c[1]].attempt
        BY <2>4, <2>5, <3>3 DEF Sent
      <4>2. report[c[1]].attempt <= report'[c[1]].attempt
        BY <2>1, <2>2, <2>3, <3>1 DEF TypeOK
      <4>3. report[c[1]].attempt \in Int /\ report'[c[1]].attempt \in Int
        BY <2>2, <2>3, <3>1, BoundsAssumption DEF TypeOK
      <4> QED
        BY <3>1, <4>1, <4>2, <4>3
    <3> QED
      BY <3>2, <3>3
  <2>6. /\ \A d \in Events : report'[d].status = "none" <=> report'[d].attempt = 0
        /\ \A d \in Events : report'[d].status = "backoff" => report'[d].attempt < MaxAttempts
    BY <2>2, <2>3 DEF Sent, TypeOK
  <2>7. \A c \in Handlers : call'[c].pc # "idle" => c[2] <= report'[c[1]].attempt
    BY <2>5
  <2> QED
    BY <2>6, <2>7 DEF Sent
<1>2. ASSUME \A d \in Events : ReportStep(d),
             \A c \in Handlers : call'[c].pc # "idle" => call[c].pc # "idle"
      PROVE Sent'
  <2>1. ASSUME NEW c \in Handlers, call'[c].pc # "idle" PROVE c[2] <= report'[c[1]].attempt
    <3>1. c[1] \in Events
      BY DEF Handlers
    <3> QED
      BY <1>2, <2>1, <3>1 DEF Sent, ReportStep
  <2>2. /\ \A d \in Events : report'[d].status = "none" <=> report'[d].attempt = 0
        /\ \A d \in Events : report'[d].status = "backoff" => report'[d].attempt < MaxAttempts
    BY <1>2 DEF Sent, ReportStep
  <2>3. \A c \in Handlers : call'[c].pc # "idle" => c[2] <= report'[c[1]].attempt
    BY <2>1
  <2> QED
    BY <2>2, <2>3 DEF Sent
<1>3. ASSUME NEW c \in Handlers, Handle(c) \/ HandlerCrash(c) PROVE Sent'
  <2>1. \A d \in Handlers : call'[d].pc # "idle" => call[d].pc # "idle"
    BY <1>3, OwnLocals
  <2> QED
    BY <1>2, <1>3, <2>1, HandlerReports
<1>4. ASSUME NEW e \in Events, LoseAnswer(e) PROVE Sent'
  BY <1>2, <1>4, TransientStep DEF LoseAnswer
<1>5. ASSUME NEW e \in Events, CancelReport(e) PROVE Sent'
  <2>1. report' = [report EXCEPT ![e].status = "dropped"] /\ UNCHANGED call
    BY <1>5 DEF CancelReport
  <2>2. report[e].status # "none"
    BY <1>5 DEF CancelReport
  <2>3. \A d \in Events : /\ report'[d].attempt = report[d].attempt
                         /\ report'[d].status = IF d = e THEN "dropped" ELSE report[d].status
    BY <2>1 DEF TypeOK
  <2>4. \A c \in Handlers : c[1] \in Events
    BY DEF Handlers
  <2> QED
    BY <2>1, <2>2, <2>3, <2>4 DEF Sent
<1>6. CASE Account \/ UNCHANGED vars
  <2>1. UNCHANGED <<report, call>>
    BY <1>6 DEF Account, GrantCredit, UpdateBudget, ApplyBillingEvent, SetAccountStripeCustomerID,
                ensureBudgetAvailable, vars
  <2> QED
    BY <2>1 DEF Sent
<1> QED
  BY <1>1, <1>3, <1>4, <1>5, <1>6 DEF Next, Worker, Handlers

\* A handler whose locals are replaced by sound ones.
LEMMA SoundHandler ==
  ASSUME TypeOK, HandlersSound, NEW c \in Handlers, NEW k, Sound(k),
         call' = [call EXCEPT ![c] = k]
  PROVE HandlersSound'
<1>1. \A d \in Handlers : call'[d] = IF d = c THEN k ELSE call[d]
  BY DEF TypeOK, Handlers
<1>2. \A d \in Handlers : Sound(call'[d])
  BY <1>1 DEF HandlersSound
<1> QED
  BY <1>2 DEF HandlersSound, Sound, Handlers

\* Every step keeps the handlers sound.
LEMMA SoundStep == TypeOK /\ Sent /\ HandlersSound /\ [Next]_vars => HandlersSound'
<1> SUFFICES ASSUME TypeOK, Sent, HandlersSound, [Next]_vars PROVE HandlersSound'
  OBVIOUS
<1>1. ASSUME NEW e \in Events, NEW n \in Attempts, Send(e, n), call[<<e, n>>].pc = "idle"
      PROVE HandlersSound'
  <2> DEFINE c == <<e, n>>
             k == [call[c] EXCEPT !.pc = "price"]
  <2>1. c \in Handlers /\ call[c] \in Call /\ call' = [call EXCEPT ![c] = k]
    BY <1>1 DEF Handlers, TypeOK, Send
  <2>2. Sound(k)
    BY <1>1, <2>1 DEF Sound, HandlersSound, Call
  <2> QED
    BY <2>1, <2>2, SoundHandler
<1>2. ASSUME NEW e \in Events, Worker(e) PROVE HandlersSound'
  <2>1. CASE reportUsage(e)
    <3>1. 1 \in Attempts /\ <<e, 1>> \in Handlers /\ report[e].attempt = 0
      BY <2>1, BoundsAssumption DEF Attempts, Handlers, reportUsage, Sent
    <3>2. call[<<e, 1>>].pc = "idle"
      BY <3>1 DEF Sent
    <3> QED
      BY <1>1, <2>1, <3>1, <3>2 DEF reportUsage
  <2>2. CASE RetryReport(e)
    <3> DEFINE n == report[e].attempt + 1
    <3>1. n \in Attempts /\ <<e, n>> \in Handlers
      BY <2>2, BoundsAssumption DEF Attempts, Handlers, RetryReport, Sent, TypeOK
    <3>2. ~(n <= report[e].attempt)
      BY DEF TypeOK
    <3>3. call[<<e, n>>].pc = "idle"
      BY <3>1, <3>2 DEF Sent
    <3> QED
      BY <1>1, <2>2, <3>1, <3>3 DEF RetryReport
  <2>3. CASE UNCHANGED call
    BY <2>3 DEF HandlersSound, Sound, Handlers
  <2> QED
    BY <1>2, <2>1, <2>2, <2>3 DEF Worker, LoseAnswer, CancelReport
<1>3. ASSUME NEW c \in Handlers, Handle(c) \/ HandlerCrash(c) PROVE HandlersSound'
  <2>0. call[c] \in Call /\ Sound(call[c])
    BY DEF TypeOK, Handlers, HandlersSound
  <2>1. \A pc \in Stages \ {"deduct"} : Sound([Idle EXCEPT !.pc = pc])
    BY DEF Sound, Idle, Stages
  <2>2. ASSUME Finish(c) PROVE HandlersSound'
    BY <2>1, <2>2, SoundHandler DEF Finish, Stages
  <2>3. ASSUME NEW pc \in Stages, Goto(c, pc), pc # "deduct",
               pc \in {"idle", "price", "balance", "account"} =>
                 call[c].pc \in {"idle", "price", "balance", "account"}
        PROVE HandlersSound'
    <3> DEFINE k == [call[c] EXCEPT !.pc = pc]
    <3>1. Sound(k)
      BY <2>0, <2>3 DEF Sound, Call
    <3>2. call' = [call EXCEPT ![c] = k]
      BY <2>3 DEF Goto
    <3> QED
      BY <3>1, <3>2, SoundHandler
  <2>4. CASE GetModelPricing(c)
    <3> DEFINE cost == ComputeCostMinor(c[1])
               k == [call[c] EXCEPT !.cost = cost,
                                    !.pc = IF cost > 0 THEN "balance" ELSE "record"]
    <3>1. call' = [call EXCEPT ![c] = k] \/ Goto(c, "record")
      BY <2>4 DEF GetModelPricing
    <3> HIDE DEF cost
    <3>2. Sound(k)
      BY <2>0, <2>4 DEF Sound, Call, GetModelPricing, At
    <3> QED
      BY <2>3, <3>1, <3>2, SoundHandler DEF Stages
  <2>5. CASE GetCreditBalance(c)
    <3> DEFINE k == [call[c] EXCEPT !.balance = balance, !.pc = "account"]
    <3>1. call' = [call EXCEPT ![c] = k] \/ Goto(c, "account")
      BY <2>5 DEF GetCreditBalance
    <3>2. Sound(k)
      BY <2>0, <2>5 DEF Sound, Call, GetCreditBalance, At
    <3>3. call[c].pc = "balance"
      BY <2>5 DEF GetCreditBalance, At
    <3> QED
      BY <2>3, <3>1, <3>2, <3>3, SoundHandler DEF Stages
  <2>6. CASE GetAccountPlan(c)
    <3>1. call[c].cost \in Nat /\ call[c].balance \in Int
      BY <2>0 DEF Call
    <3>2. PICK isFree \in BOOLEAN : SplitCost(c, isFree)
      BY <2>6 DEF GetAccountPlan
    <3> DEFINE split == Split(call[c].cost, call[c].balance, isFree)
               k == [call[c] EXCEPT !.credit = split.credit, !.stripe = split.stripe,
                                    !.paid_via = split.paid_via,
                                    !.pc = IF split.credit > 0 THEN "deduct" ELSE "record"]
    <3>3. /\ split.credit \in Nat /\ split.stripe \in Nat /\ split.paid_via \in PaidVia
          /\ split.credit > 0 => split.credit <= call[c].balance
          /\ split.paid_via = "credit" => split.stripe = 0
      BY <3>1, SplitLemma
    <3>4. call' = [call EXCEPT ![c] = k]
      BY <3>2 DEF SplitCost
    <3> HIDE DEF split
    <3>5. Sound(k)
      BY <2>0, <3>3 DEF Sound, Call
    <3> QED
      BY <3>4, <3>5, SoundHandler
  <2>7. CASE DeductCredit(c)
    <3> DEFINE k == [call[c] EXCEPT !.pc = "record", !.balance = 0]
    <3>1. call' = [call EXCEPT ![c] = k]
      BY <2>7 DEF DeductCredit
    <3>2. Sound(k)
      BY <2>0 DEF Sound, Call
    <3> QED
      BY <3>1, <3>2, SoundHandler
  <2>8. CASE RecordUsageAccounting(c)
    <3> DEFINE k == [Idle EXCEPT !.cost = call[c].cost, !.stripe = call[c].stripe,
                       !.pc = IF call[c].stripe > 0 THEN "customer" ELSE "respond"]
    <3>1. call' = [call EXCEPT ![c] = k]
      BY <2>8 DEF RecordUsageAccounting
    <3>2. Sound(k)
      BY <2>0 DEF Sound, Idle
    <3> QED
      BY <3>1, <3>2, SoundHandler
  <2>9. CASE GetAccountCustomer(c)
    BY <2>3, <2>9 DEF GetAccountCustomer, Stages
  <2>10. CASE ReportInputTokens(c)
    BY <2>3, <2>10 DEF ReportInputTokens, Stages
  <2>11. CASE ReportOutputTokens(c)
    BY <2>3, <2>11 DEF ReportOutputTokens, Stages
  <2>12. CASE RecordUsageAccountingFails(c) \/ Respond(c) \/ HandlerCrash(c)
    BY <2>2, <2>12 DEF RecordUsageAccountingFails, Respond, HandlerCrash
  <2> QED
    BY <1>3, <2>4, <2>5, <2>6, <2>7, <2>8, <2>9, <2>10, <2>11, <2>12 DEF Handle
<1>4. CASE Account \/ UNCHANGED vars
  <2>1. UNCHANGED call
    BY <1>4 DEF Account, GrantCredit, UpdateBudget, ApplyBillingEvent, SetAccountStripeCustomerID,
                ensureBudgetAvailable, vars
  <2> QED
    BY <2>1 DEF HandlersSound, Sound, Handlers
<1> QED
  BY <1>2, <1>3, <1>4 DEF Next, Handlers

-----------------------------------------------------------------------------
(* An event that is sent once.                                             *)

\* A handler that runs for an event sent at most once is that of its first attempt.
LEMMA OnlyHandler ==
  ASSUME TypeOK, Sent, NEW c \in Handlers, call[c].pc # "idle", report[c[1]].attempt =< 1
  PROVE c = First(c[1])
<1>1. c[1] \in Events /\ c[2] \in 1..MaxAttempts /\ c = <<c[1], c[2]>>
  BY DEF Handlers, Attempts
<1>2. c[2] =< report[c[1]].attempt
  BY DEF Sent
<1>3. report[c[1]].attempt \in Int
  BY <1>1, BoundsAssumption DEF TypeOK
<1>4. c[2] = 1
  BY <1>1, <1>2, <1>3, BoundsAssumption
<1> QED
  BY <1>1, <1>4 DEF First

\* What is known of an event stays while nothing of it changes.
Untouched(e) ==
  /\ call'[First(e)] = call[First(e)]
  /\ usage_events'[e] = usage_events[e]
  /\ daily'[e] = daily[e]
  /\ meter'[e] = meter[e]
  /\ deduction'[e] = deduction[e]
  /\ e \in undeducted' <=> e \in undeducted

\* An event nothing touched stays soundly handled.
LEMMA UntouchedIsSound ==
  ASSUME NEW e \in Events, OnceSound(e), Untouched(e)
  PROVE OnceSound(e)'
  BY DEF OnceSound, Untouched, First

\* The first handler of an event is a handler of that event.
LEMMA FirstHandler == \A e \in Events : First(e) \in Handlers /\ First(e)[1] = e
  BY BoundsAssumption DEF First, Handlers, Attempts

\* A handler touches its own event only.
LEMMA OtherEvents ==
  ASSUME TypeOK, NEW c \in Handlers, Handle(c) \/ HandlerCrash(c), NEW e \in Events, e # c[1]
  PROVE Untouched(e)
<1>1. c[1] \in Events /\ First(e) \in Handlers /\ First(e) # c
  BY FirstHandler DEF Handlers
<1>2. call'[First(e)] = call[First(e)]
  BY <1>1, OwnLocals
<1> USE <1>1, <1>2 DEF Untouched, TypeOK, history
<1>3. CASE DeductCredit(c)
  BY <1>3 DEF DeductCredit
<1>4. CASE RecordUsageAccounting(c)
  BY <1>4 DEF RecordUsageAccounting, InsertUsageEvent, UpsertAccountUsageDaily
<1>5. CASE ReportInputTokens(c)
  BY <1>5 DEF ReportInputTokens
<1>6. CASE ReportOutputTokens(c)
  BY <1>6 DEF ReportOutputTokens
<1>7. CASE UNCHANGED <<deduction, usage_events, daily, meter, undeducted>>
  BY <1>7
<1> QED
  BY <1>3, <1>4, <1>5, <1>6, <1>7 DEF Handle, HandlerCrash, GetModelPricing, GetCreditBalance,
     GetAccountPlan, RecordUsageAccountingFails, GetAccountCustomer, Respond

\* The only handler of an event keeps what is known of it.
LEMMA OwnEvent ==
  ASSUME TypeOK, HandlersSound, NEW e \in Events, OnceSound(e),
         Handle(First(e)) \/ HandlerCrash(First(e))
  PROVE OnceSound(e)'
<1> DEFINE c == First(e)
<1>1. c \in Handlers /\ c[1] = e /\ call[c] \in Call /\ Sound(call[c])
  BY FirstHandler DEF TypeOK, HandlersSound, Handlers
<1>2. /\ usage_events[e] \in UsageEvent /\ daily[e] \in Nat /\ deduction[e] \in Nat
      /\ meter[e] \in [in : Nat, out : Nat]
  BY DEF TypeOK
<1>3. call[c].pc # "idle"
  BY <1>1, OwnLocals
<1> DEFINE rows == <<usage_events, daily, meter, deduction, undeducted>>
<1>4. ASSUME UNCHANGED rows, NEW k, call' = [call EXCEPT ![c] = k],
             k.pc \in BeforeRow => call[c].pc \in BeforeRow,
             k.pc \in BeforeDeduction => call[c].pc \in BeforeDeduction,
             k.pc = "record" => call[c].pc \in BeforeDeduction /\ k.credit = 0,
             k.pc \in Metering => call[c].pc \in Metering
      PROVE OnceSound(e)'
  <2>1. call'[c] = k
    BY <1>1, <1>4 DEF TypeOK, Handlers
  <2> HIDE DEF c
  <2>2. c = First(e)
    BY DEF c
  <2> QED
    BY <1>4, <2>1, <2>2 DEF OnceSound
<1>5. CASE GetModelPricing(c)
  <2> DEFINE cost == ComputeCostMinor(c[1])
             k1 == [call[c] EXCEPT !.cost = cost,
                                   !.pc = IF cost > 0 THEN "balance" ELSE "record"]
             k2 == [call[c] EXCEPT !.pc = "record"]
  <2>1. call' = [call EXCEPT ![c] = k1] \/ call' = [call EXCEPT ![c] = k2]
    BY <1>5 DEF GetModelPricing, Goto
  <2>2. UNCHANGED rows
    BY <1>5 DEF GetModelPricing, history
  <2>3. call[c].pc = "price" /\ call[c].credit = 0
    BY <1>1, <1>5 DEF GetModelPricing, At, Sound
  <2> HIDE DEF cost
  <2>4. k1.pc \in {"balance", "record"} /\ k1.credit = 0 /\ k2.pc = "record" /\ k2.credit = 0
    BY <1>1, <2>3 DEF Call
  <2> HIDE DEF rows, c, k1, k2
  <2> QED
    BY <1>4, <2>1, <2>2, <2>3, <2>4 DEF BeforeRow, BeforeDeduction, Metering
<1>6. CASE GetCreditBalance(c)
  <2> DEFINE k1 == [call[c] EXCEPT !.balance = balance, !.pc = "account"]
             k2 == [call[c] EXCEPT !.pc = "account"]
  <2>1. call' = [call EXCEPT ![c] = k1] \/ call' = [call EXCEPT ![c] = k2]
    BY <1>6 DEF GetCreditBalance, Goto
  <2>2. UNCHANGED rows
    BY <1>6 DEF GetCreditBalance, history
  <2>3. call[c].pc = "balance"
    BY <1>6 DEF GetCreditBalance, At
  <2>4. k1.pc = "account" /\ k2.pc = "account"
    BY <1>1 DEF Call
  <2> HIDE DEF rows, c, k1, k2
  <2> QED
    BY <1>4, <2>1, <2>2, <2>3, <2>4 DEF BeforeRow, BeforeDeduction, Metering
<1>7. CASE GetAccountPlan(c)
  <2>1. PICK isFree \in BOOLEAN : SplitCost(c, isFree)
    BY <1>7 DEF GetAccountPlan
  <2> DEFINE split == Split(call[c].cost, call[c].balance, isFree)
             k == [call[c] EXCEPT !.credit = split.credit, !.stripe = split.stripe,
                                  !.paid_via = split.paid_via,
                                  !.pc = IF split.credit > 0 THEN "deduct" ELSE "record"]
  <2>2. split.credit \in Nat
    BY <1>1, SplitLemma DEF Call
  <2>3. call' = [call EXCEPT ![c] = k]
    BY <2>1 DEF SplitCost
  <2>4. UNCHANGED rows
    BY <1>7 DEF GetAccountPlan, history
  <2>5. call[c].pc = "account"
    BY <1>7 DEF GetAccountPlan, At
  <2> HIDE DEF split
  <2>6. k.pc = "deduct" \/ (k.pc = "record" /\ k.credit = 0)
    BY <1>1, <2>2 DEF Call
  <2> HIDE DEF rows, c, k
  <2> QED
    BY <1>4, <2>3, <2>4, <2>5, <2>6 DEF BeforeRow, BeforeDeduction, Metering
<1>8. CASE DeductCredit(c)
  <2>1. call'[c].pc = "record" /\ call'[c].credit = call[c].credit
    BY <1>1, <1>8 DEF DeductCredit, TypeOK, Call, Handlers
  <2>2. UNCHANGED <<usage_events, daily, meter>>
    BY <1>8 DEF DeductCredit
  <2>3. call[c].pc = "deduct"
    BY <1>8 DEF DeductCredit, At
  <2>4. deduction[e] = 0 /\ usage_events[e] = NoEvent /\ meter[e] = Unmetered
    BY <2>3 DEF OnceSound, BeforeRow, BeforeDeduction
  <2>5. deduction'[e] = call[c].credit \/ e \in undeducted'
    BY <1>1, <1>8, <2>4 DEF DeductCredit, TypeOK
  <2> QED
    BY <2>1, <2>2, <2>4, <2>5 DEF OnceSound, BeforeRow, BeforeDeduction, Metering
<1>9. CASE RecordUsageAccounting(c)
  <2>1. call[c].pc = "record"
    BY <1>9 DEF RecordUsageAccounting, At
  <2>2. /\ usage_events[e] = NoEvent /\ meter[e] = Unmetered /\ daily[e] = 0
        /\ e \in undeducted \/ deduction[e] = call[c].credit
    BY <2>1 DEF OnceSound, BeforeRow, NoEvent
  <2>3. usage_events'[e] = UsageEventRow(call[c])
    BY <1>1, <1>9, <2>2 DEF RecordUsageAccounting, InsertUsageEvent, TypeOK
  <2>4. daily'[e] = call[c].cost
    BY <1>1, <1>9, <2>2 DEF RecordUsageAccounting, UpsertAccountUsageDaily, TypeOK, Call
  <2>5. UNCHANGED <<deduction, meter, undeducted>>
    BY <1>9 DEF RecordUsageAccounting
  <2>6. call'[c].pc = IF call[c].stripe > 0 THEN "customer" ELSE "respond"
    BY <1>1, <1>9 DEF RecordUsageAccounting, TypeOK, Handlers, Idle
  <2>7. call[c].stripe > 0 => call[c].paid_via # "credit"
    BY <1>1 DEF Sound
  <2> QED
    BY <2>2, <2>3, <2>4, <2>5, <2>6, <2>7
       DEF OnceSound, UsageEventRow, BeforeRow, BeforeDeduction, Metering
<1>10. CASE ReportInputTokens(c) \/ ReportOutputTokens(c)
  <2>1. call[c].pc \in {"meterIn", "meterOut"}
    BY <1>10 DEF ReportInputTokens, ReportOutputTokens, At
  <2>2. usage_events[e].paid_via # "credit"
    BY <2>1 DEF OnceSound, Metering
  <2>3. call'[c].pc \in {"meterOut", "respond"}
    BY <1>1, <1>10 DEF ReportInputTokens, ReportOutputTokens, Goto, TypeOK, Handlers, Call
  <2>4. UNCHANGED <<usage_events, daily, deduction, undeducted>>
    BY <1>10 DEF ReportInputTokens, ReportOutputTokens, history
  <2> QED
    BY <2>2, <2>3, <2>4 DEF OnceSound, BeforeRow, BeforeDeduction, Metering
<1>11. CASE GetAccountCustomer(c)
  <2>1. call'[c].pc \in {"meterIn", "respond"} /\ call[c].pc = "customer"
    BY <1>1, <1>11 DEF GetAccountCustomer, Goto, At, TypeOK, Handlers, Call
  <2>2. UNCHANGED rows
    BY <1>11 DEF GetAccountCustomer, history
  <2> QED
    BY <2>1, <2>2 DEF OnceSound, BeforeRow, BeforeDeduction, Metering
<1>12. CASE RecordUsageAccountingFails(c) \/ Respond(c) \/ HandlerCrash(c)
  <2>1. call'[c].pc = "done"
    BY <1>1, <1>12 DEF RecordUsageAccountingFails, Respond, HandlerCrash, Finish, TypeOK, Handlers, Idle
  <2>2. UNCHANGED rows
    BY <1>12 DEF RecordUsageAccountingFails, Respond, HandlerCrash, history
  <2> QED
    BY <2>1, <2>2 DEF OnceSound, BeforeRow, BeforeDeduction, Metering
<1> QED
  BY <1>5, <1>6, <1>7, <1>8, <1>9, <1>10, <1>11, <1>12 DEF Handle

\* Every step keeps each event sent once.
LEMMA SentOnceStep == TypeOK /\ Sent /\ HandlersSound /\ SentOnce /\ [Next]_vars => SentOnce'
<1> SUFFICES ASSUME TypeOK, Sent, HandlersSound, SentOnce, [Next]_vars,
                    NEW e \in Events, report'[e].attempt =< 1
             PROVE OnceSound(e)'
  BY DEF SentOnce
<1> DEFINE rows == <<usage_events, daily, meter, deduction, undeducted>>
<1>1. ASSUME NEW c \in Handlers, Handle(c) \/ HandlerCrash(c) PROVE OnceSound(e)'
  <2>1. report'[e].attempt = report[e].attempt
    BY <1>1, HandlerReports DEF ReportStep
  <2>2. OnceSound(e)
    BY <2>1 DEF SentOnce
  <2>3. CASE e # c[1]
    BY <1>1, <2>2, <2>3, OtherEvents, UntouchedIsSound
  <2>4. CASE e = c[1]
    <3>1. c = First(e)
      BY <1>1, <2>1, <2>4, OwnLocals, OnlyHandler
    <3> QED
      BY <1>1, <2>2, <3>1, OwnEvent
  <2> QED
    BY <2>3, <2>4
<1>2. ASSUME NEW d \in Events, Worker(d) PROVE OnceSound(e)'
  <2>1. UNCHANGED rows
    BY <1>2 DEF Worker, reportUsage, RetryReport, LoseAnswer, CancelReport, history
  <2>2. /\ report[e].attempt =< 1
        /\ \/ call'[First(e)] = call[First(e)]
           \/ call[First(e)].pc = "idle" /\ call'[First(e)].pc = "price"
    <3>1. First(e) \in Handlers /\ First(e) = <<e, 1>>
      BY FirstHandler DEF First
    <3>2. CASE reportUsage(d)
      <4>1. 1 \in Attempts /\ <<d, 1>> \in Handlers /\ report[d].attempt = 0
        BY <3>2, BoundsAssumption DEF reportUsage, Attempts, Handlers, Sent
      <4>2. call[<<d, 1>>].pc = "idle"
        BY <4>1 DEF Sent
      <4>3. report' = [report EXCEPT ![d] = [status |-> "calling", attempt |-> 1]]
        BY <3>2 DEF reportUsage, Send
      <4>4. call' = [call EXCEPT ![<<d, 1>>].pc = "price"]
        BY <3>2 DEF reportUsage, Send
      <4>5. report[e].attempt =< 1
        BY <4>1, <4>3 DEF TypeOK
      <4>6. CASE e = d
        BY <3>1, <4>1, <4>2, <4>4, <4>5, <4>6 DEF TypeOK, Handlers, Call
      <4>7. CASE e # d
        <5>1. First(e) # <<d, 1>>
          BY <3>1, <4>7
        <5> QED
          BY <3>1, <4>4, <4>5, <5>1 DEF TypeOK, Handlers
      <4> QED
        BY <4>6, <4>7
    <3>3. CASE RetryReport(d)
      <4> DEFINE n == report[d].attempt + 1
      <4>1. report[d].attempt \in Nat /\ report[d].attempt # 0
        BY <3>3, BoundsAssumption DEF RetryReport, Sent, TypeOK
      <4>2. /\ report' = [report EXCEPT ![d] = [status |-> "calling", attempt |-> n]]
            /\ call' = [call EXCEPT ![<<d, n>>].pc = "price"]
        BY <3>3 DEF RetryReport, Send
      <4>3. n # 1 /\ ~(n =< 1)
        BY <4>1
      <4> HIDE DEF n
      <4>4. e # d
        BY <4>2, <4>3 DEF TypeOK
      <4>5. report'[e] = report[e]
        BY <4>2, <4>4 DEF TypeOK
      <4>6. First(e) # <<d, n>>
        BY <3>1, <4>4
      <4> QED
        BY <3>1, <4>2, <4>5, <4>6 DEF TypeOK, Handlers
    <3>4. CASE LoseAnswer(d) \/ CancelReport(d)
      <4>1. UNCHANGED call
        BY <3>4 DEF LoseAnswer, CancelReport
      <4>2. report'[e].attempt = report[e].attempt
        <5>1. CASE LoseAnswer(d)
          BY <5>1, TransientStep DEF LoseAnswer, ReportStep
        <5>2. CASE CancelReport(d)
          BY <5>2 DEF CancelReport, TypeOK
        <5> QED
          BY <3>4, <5>1, <5>2
      <4> QED
        BY <4>1, <4>2
    <3> QED
      BY <1>2, <3>2, <3>3, <3>4 DEF Worker
  <2>3. OnceSound(e)
    BY <2>2 DEF SentOnce
  <2> QED
    BY <2>1, <2>2, <2>3 DEF OnceSound, BeforeRow, BeforeDeduction, Metering
<1>3. CASE Account \/ UNCHANGED vars
  <2>1. UNCHANGED <<report, call, rows>>
    BY <1>3 DEF Account, GrantCredit, UpdateBudget, ApplyBillingEvent, SetAccountStripeCustomerID,
                ensureBudgetAvailable, vars, history
  <2>2. OnceSound(e)
    BY <2>1 DEF SentOnce
  <2> QED
    BY <2>1, <2>2 DEF OnceSound
<1> QED
  BY <1>1, <1>2, <1>3 DEF Next, Handlers

-----------------------------------------------------------------------------
(* The account: the flag, the balance and the meter.                       *)

\* Only the transaction that stores an event moves the sum of the costs, and it
\* raises the flag on the sum it leaves; only an update of the limit lowers it.
LEMMA FlagStep == TypeOK /\ OverspendIsFlagged /\ [Next]_vars => OverspendIsFlagged'
<1> SUFFICES ASSUME TypeOK, OverspendIsFlagged, [Next]_vars PROVE OverspendIsFlagged'
  OBVIOUS
<1>1. ASSUME NEW c \in Handlers, RecordUsageAccounting(c) PROVE OverspendIsFlagged'
  <2>1. budget' = [budget EXCEPT !.exceeded = @ \/ Exceeds(usage_events')]
    BY <1>1 DEF RecordUsageAccounting
  <2>2. /\ budget'.limit = budget.limit
        /\ budget'.exceeded = (budget.exceeded \/ Exceeds(usage_events'))
    BY <2>1 DEF TypeOK
  <2>3. SumUsageCost(usage_events)' = SumUsageCost(usage_events')
    BY DEF SumUsageCost, MapThenSumSet, MapThenFoldSet
  <2>4. ASSUME budget'.limit > 0, SumUsageCost(usage_events') > budget'.limit
        PROVE budget'.exceeded
    <3>1. Exceeds(usage_events')
      BY <2>2, <2>4 DEF Exceeds
    <3> QED
      BY <2>2, <3>1, Zenon
  <2>5. budget'.limit > 0 /\ SumUsageCost(usage_events)' > budget'.limit => budget'.exceeded
    BY <2>3, <2>4
  <2> QED
    BY <2>5, Zenon DEF OverspendIsFlagged
<1>2. ASSUME NEW limit \in Limits, UpdateBudget(limit) PROVE OverspendIsFlagged'
  <2>1. relimited' = TRUE
    BY <1>2 DEF UpdateBudget
  <2> QED
    BY <2>1 DEF OverspendIsFlagged
<1>3. CASE UNCHANGED <<usage_events, budget, relimited>>
  BY <1>3 DEF OverspendIsFlagged, SumUsageCost, MapThenSumSet, MapThenFoldSet
<1> QED
  BY <1>1, <1>2, <1>3, Zenon DEF Next, Handlers, Worker, Handle, Account, reportUsage, RetryReport,
     LoseAnswer, CancelReport, GetModelPricing, GetCreditBalance, GetAccountPlan, DeductCredit,
     RecordUsageAccountingFails, GetAccountCustomer, ReportInputTokens, ReportOutputTokens,
     Respond, HandlerCrash, GrantCredit, ApplyBillingEvent,
     SetAccountStripeCustomerID, ensureBudgetAvailable, vars, account, history

\* Only a deduction lowers the balance, by no more than the balance it has read.
LEMMA OverdraftStep ==
  TypeOK /\ HandlersSound /\ OverdraftNeedsOverlap /\ [Next]_vars => OverdraftNeedsOverlap'
<1> SUFFICES ASSUME TypeOK, HandlersSound, OverdraftNeedsOverlap, [Next]_vars
             PROVE OverdraftNeedsOverlap'
  OBVIOUS
<1>1. ASSUME NEW c \in Handlers, DeductCredit(c) PROVE OverdraftNeedsOverlap'
  <2>1. /\ call[c].credit \in Int /\ call[c].balance \in Int /\ balance \in Int
        /\ call[c].credit <= call[c].balance
    BY <1>1 DEF TypeOK, Handlers, Call, HandlersSound, Sound, DeductCredit, At
  <2>2. CASE balance' = balance - call[c].credit /\ overlap' = (overlap \/ balance < call[c].balance)
    <3>1. CASE overlap
      BY <2>2, <3>1, Zenon DEF OverdraftNeedsOverlap
    <3>2. CASE balance < call[c].balance
      BY <2>2, <3>2, Zenon DEF OverdraftNeedsOverlap
    <3>3. CASE ~overlap /\ ~(balance < call[c].balance)
      <4>1. ~(balance' < 0)
        BY <2>1, <2>2, <3>3
      <4> QED
        BY <4>1 DEF OverdraftNeedsOverlap
    <3> QED
      BY <3>1, <3>2, <3>3
  <2>3. CASE UNCHANGED <<balance, overlap>>
    BY <2>3 DEF OverdraftNeedsOverlap
  <2> QED
    BY <1>1, <2>2, <2>3 DEF DeductCredit
<1>2. ASSUME NEW amount \in GrantSizes, GrantCredit(amount) PROVE OverdraftNeedsOverlap'
  BY <1>2, BoundsAssumption DEF GrantCredit, OverdraftNeedsOverlap, TypeOK, history
<1>3. CASE UNCHANGED <<balance, overlap>>
  BY <1>3 DEF OverdraftNeedsOverlap
<1> QED
  BY <1>1, <1>2, <1>3 DEF Next, Handlers, Worker, Handle, Account, reportUsage, RetryReport,
     LoseAnswer, CancelReport, GetModelPricing, GetCreditBalance, GetAccountPlan,
     RecordUsageAccounting, RecordUsageAccountingFails, GetAccountCustomer, ReportInputTokens,
     ReportOutputTokens, Respond, HandlerCrash, UpdateBudget, ApplyBillingEvent,
     SetAccountStripeCustomerID, ensureBudgetAvailable, vars, account, history

\* Each report to the meter is within the tokens of its event, and the first one stays.
LEMMA MeterStep == TypeOK /\ MeteredWithinUse /\ [Next]_vars => MeteredWithinUse'
<1> SUFFICES ASSUME TypeOK, MeteredWithinUse, [Next]_vars PROVE MeteredWithinUse'
  OBVIOUS
<1>1. ASSUME NEW c \in Handlers, ReportInputTokens(c) PROVE MeteredWithinUse'
  <2> DEFINE v == Metered(meter[c[1]].in, ProratedTokens(c).in)
  <2>1. c[1] \in Events /\ v <= InputTokens[c[1]]
    BY ProratedLemma DEF Handlers, Metered, MeteredWithinUse
  <2>2. meter' = meter \/ meter' = [meter EXCEPT ![c[1]].in = v]
    BY <1>1 DEF ReportInputTokens
  <2> HIDE DEF v
  <2>3. \A e \in Events : meter'[e].out = meter[e].out
                          /\ (meter'[e].in = meter[e].in \/ (e = c[1] /\ meter'[e].in = v))
    BY <2>1, <2>2 DEF TypeOK
  <2> QED
    BY <2>1, <2>3 DEF MeteredWithinUse
<1>2. ASSUME NEW c \in Handlers, ReportOutputTokens(c) PROVE MeteredWithinUse'
  <2> DEFINE v == Metered(meter[c[1]].out, ProratedTokens(c).out)
  <2>1. c[1] \in Events /\ v <= OutputTokens[c[1]]
    BY ProratedLemma DEF Handlers, Metered, MeteredWithinUse
  <2>2. meter' = meter \/ meter' = [meter EXCEPT ![c[1]].out = v]
    BY <1>2 DEF ReportOutputTokens
  <2> HIDE DEF v
  <2>3. \A e \in Events : meter'[e].in = meter[e].in
                          /\ (meter'[e].out = meter[e].out \/ (e = c[1] /\ meter'[e].out = v))
    BY <2>1, <2>2 DEF TypeOK
  <2> QED
    BY <2>1, <2>3 DEF MeteredWithinUse
<1>3. CASE UNCHANGED meter
  BY <1>3 DEF MeteredWithinUse
<1> QED
  BY <1>1, <1>2, <1>3 DEF Next, Handlers, Worker, Handle, Account, reportUsage, RetryReport,
     LoseAnswer, CancelReport, GetModelPricing, GetCreditBalance, GetAccountPlan, DeductCredit,
     RecordUsageAccounting, RecordUsageAccountingFails, GetAccountCustomer, Respond,
     HandlerCrash, GrantCredit, UpdateBudget, ApplyBillingEvent, SetAccountStripeCustomerID,
     ensureBudgetAvailable, vars

-----------------------------------------------------------------------------
(* The theorems.                                                           *)

\* The invariant holds at first.
LEMMA InitInv == Init => Inv
<1> SUFFICES ASSUME Init PROVE Inv
  OBVIOUS
<1>1. TypeOK
  BY TypeInit
<1>2. \A c \in Handlers : call[c] = Idle
  BY DEF Init, Handlers
<1>3. Sent
  BY <1>2 DEF Init, Sent, Idle
<1>4. HandlersSound
  BY <1>2 DEF HandlersSound, Sound, Idle
<1>5. SentOnce
  <2>1. ASSUME NEW e \in Events PROVE OnceSound(e)
    <3>1. call[First(e)] = Idle
      BY <1>2, FirstHandler
    <3>2. /\ usage_events[e] = NoEvent /\ meter[e] = Unmetered
          /\ deduction[e] = 0 /\ daily[e] = 0
      BY DEF Init, Unmetered
    <3> QED
      BY <3>1, <3>2 DEF OnceSound, Idle, NoEvent, Metering
  <2> QED
    BY <2>1 DEF SentOnce
<1>6. OverspendIsFlagged
  BY DEF Init, OverspendIsFlagged
<1>7. OverdraftNeedsOverlap
  BY BoundsAssumption DEF Init, OverdraftNeedsOverlap
<1>8. MeteredWithinUse
  BY TokensAssumption DEF Init, MeteredWithinUse
<1> QED
  BY <1>1, <1>3, <1>4, <1>5, <1>6, <1>7, <1>8 DEF Inv

\* Every step keeps the invariant.
LEMMA InvStep == Inv /\ [Next]_vars => Inv'
  BY TypeStep, SentStep, SoundStep, SentOnceStep, FlagStep, OverdraftStep, MeterStep DEF Inv

\* A counted attempt is the first one or a later one.
LEMMA OnceOrAgain ==
  ASSUME TypeOK, NEW e \in Events
  PROVE report[e].attempt =< 1 \/ report[e].attempt > 1
  BY BoundsAssumption DEF TypeOK

\* Whatever holds of an event that was sent once, in the terms of the properties.
LEMMA OnceProperties ==
  Inv => LedgerMatchesEvents /\ DoubleChargeNeedsRetry /\ RollupDiffersByRetries
<1> SUFFICES ASSUME Inv
             PROVE LedgerMatchesEvents /\ DoubleChargeNeedsRetry /\ RollupDiffersByRetries
  OBVIOUS
<1>1. TypeOK /\ SentOnce
  BY DEF Inv
<1>2. LedgerMatchesEvents
  BY <1>1 DEF LedgerMatchesEvents, SentOnce, OnceSound
<1>3. DoubleChargeNeedsRetry
  BY <1>1, OnceOrAgain DEF DoubleChargeNeedsRetry, SentOnce, OnceSound, Unmetered
<1>4. RollupDiffersByRetries
  BY <1>1, OnceOrAgain DEF RollupDiffersByRetries, SentOnce, OnceSound
<1> QED
  BY <1>2, <1>3, <1>4

\* The inductive invariant holds in every reachable state.
THEOREM Invariant == Spec => []Inv
  BY InitInv, InvStep, PTL DEF Spec

\* Every variable keeps its type.
THEOREM TypeCorrect == Spec => []TypeOK
<1>1. Inv => TypeOK
  BY DEF Inv
<1> QED
  BY <1>1, Invariant, PTL

\* No overspend is missed, however many reports are stored at once: the transaction
\* that carries the costs over the limit is the one that raises the flag.
THEOREM OverspendFlagged == Spec => []OverspendIsFlagged
<1>1. Inv => OverspendIsFlagged
  BY DEF Inv
<1> QED
  BY <1>1, Invariant, PTL

\* The credit is overdrawn only by handlers that read one balance and both deduct.
THEOREM OverdraftOverlaps == Spec => []OverdraftNeedsOverlap
<1>1. Inv => OverdraftNeedsOverlap
  BY DEF Inv
<1> QED
  BY <1>1, Invariant, PTL

\* A report sent once deducts what its row says, whatever fails around it.
THEOREM LedgerMatches == Spec => []LedgerMatchesEvents
  BY OnceProperties, Invariant, PTL

\* Only a repeated report can charge the credit and the meter for the same event.
THEOREM ChargedTwiceIsRetried == Spec => []DoubleChargeNeedsRetry
  BY OnceProperties, Invariant, PTL

\* Only a repeated report makes the daily rollup differ from the rows it sums up.
THEOREM RollupDiffers == Spec => []RollupDiffersByRetries
  BY OnceProperties, Invariant, PTL

\* Stripe is never told of more tokens than the call used.
THEOREM MeterWithin == Spec => []MeteredWithinUse
<1>1. Inv => MeteredWithinUse
  BY DEF Inv
<1> QED
  BY <1>1, Invariant, PTL

\* A row that is stored stays as it is.
THEOREM RowsStay == Spec => StoredEventsStay
<1>1. TypeOK /\ [Next]_vars
        => [\A e \in Events : usage_events[e] # NoEvent => usage_events'[e] = usage_events[e]]_vars
  <2> SUFFICES ASSUME TypeOK, [Next]_vars,
                      NEW e \in Events, usage_events[e] # NoEvent, ~UNCHANGED vars
               PROVE usage_events'[e] = usage_events[e]
    OBVIOUS
  <2>1. CASE UNCHANGED usage_events
    BY <2>1
  <2>2. ASSUME NEW c \in Handlers, RecordUsageAccounting(c)
        PROVE usage_events'[e] = usage_events[e]
    <3>1. c[1] \in Events
      BY DEF Handlers
    <3> QED
      BY <2>2, <3>1 DEF RecordUsageAccounting, InsertUsageEvent, TypeOK
  <2> QED
    BY <2>1, <2>2 DEF Next, Handlers, Worker, Handle, Account, reportUsage, RetryReport,
       LoseAnswer, CancelReport, GetModelPricing, GetCreditBalance, GetAccountPlan, DeductCredit,
       RecordUsageAccountingFails, GetAccountCustomer, ReportInputTokens, ReportOutputTokens,
       Respond, HandlerCrash, GrantCredit, UpdateBudget, ApplyBillingEvent,
       SetAccountStripeCustomerID, ensureBudgetAvailable
<1> QED
  BY <1>1, TypeCorrect, PTL DEF Spec, StoredEventsStay
=============================================================================
