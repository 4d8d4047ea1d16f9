# Synthify in TLA+

Synthify turns uploaded documents into a knowledge tree. A Go API (Cloud Run,
CockroachDB) takes uploads and starts *processing jobs*; a task queue (Cloud
Tasks) delivers each job to a worker (Cloud Run), whose agent reads the document,
calls an LLM and persists items of the workspace's tree; Firestore mirrors the
job's status for the browser; Stripe drives plans and usage is metered and
charged against credits.

This directory holds models of its stateful parts, the configurations that
model-check them on small instances, and machine-checked proofs of what holds for
every instance. Paths below are relative to `src/`.

## Reading order

| file | what it is |
|---|---|
| `JobContract.tla` | abstract: what the row of one job promises to whoever reads it |
| `JobLifecycle.tla` | the API handlers, the queue, the worker passes, the mirror |
| `MCJobLifecycle.tla`, `job_api.cfg`, `job_delivery.cfg`, `retryable_resume.cfg`, `parallel_pass.cfg` | instances of it |
| `JobLifecycleProofs.tla` | its theorems |
| `UploadReservation.tla` | storage quota, reservations, uploaded objects |
| `MCUploadReservation.tla`, `upload.cfg`, `upload_mismatch.cfg` | instances of it |
| `UploadReservationProofs.tla` | its theorems |
| `UsageAccounting.tla` | what an LLM call costs: reports, credits, ledger, rollup, meter, budget flag |
| `MCUsageAccounting.tla`, `usage.cfg`, `usage_retry.cfg`, `budget_gate.cfg` | instances of it |
| `UsageAccountingProofs.tla` | its theorems |
| `BillingWebhooks.tla` | how the account follows Stripe: events, handlers, reconciliation |
| `MCBillingWebhooks.tla`, `webhooks.cfg`, `webhook_retry.cfg` | instances of it |
| `BillingWebhooksProofs.tla` | its theorems |
| `AgentRun.tla` | the agent of a worker instance: hooks, checkpoints, limits, the tree |
| `MCAgentRun.tla`, `agent.cfg` | an instance of it |
| `AgentRunProofs.tla` | theorems about its types, limits, checkpoints, prompts and repeat guard |
| `AgentTreeProofs.tla` | theorems about the tree its passes store |
| `TopologicalSortProofs.tla` | what its sort of a list of items returns |
| `SetInduction.tla` | induction over the naturals and over finite sets, for the proofs |
| `PROJECT.json` | components, runs, hazards, theorems, and the source lines of each definition |

A run: `tlc -workers 2 -config job_api.cfg MCJobLifecycle`. A proof:
`tlapm JobLifecycleProofs.tla`.

Operators whose comment starts with "Broken variant" are not part of a model:
each is a plausible bug of the definition that follows it, and replacing that
definition by it makes a named property fail (`mutants` in `PROJECT.json`).

## Inventory

| component | where | state it keeps | operations | talks to |
|---|---|---|---|---|
| Job lifecycle | `apps/api/internal/application/document.go`, `internal/platform/job/lifecycle`, `apps/worker/pkg/worker/worker.go`, `db/queries/documents.sql` | `document_processing_jobs` (status, retry_count, checkpoints) | start, force, resume, auto-resume, claim, complete, fail, requeue | queue, mirror, agent |
| Dispatch | `apps/api/internal/infrastructure/worker`, `apps/worker/pkg/worker/internal_dispatch.go` | named tasks in Cloud Tasks, a plan table | enqueue plan and execute tasks; serve a delivery | lifecycle |
| Status mirror | `internal/platform/job/status` | one Firestore document per job | queued, running, completed, failed, progress | browser |
| Approvals | `apps/api/internal/repository/postgres/document.go:600-725` | approval requests | request, approve, reject | worker pass |
| Uploads and quota | `apps/api/internal/repository/postgres/document.go:99-342`, `application/document.go` | `accounts.storage_used_bytes`, `upload_reservations`, bucket objects | reserve, upload, confirm, expire, delete | lifecycle (every start confirms), billing (plans) |
| Usage, credits, budget | `internal/platform/billing/usage`, `apps/worker/pkg/worker/metering`, `repository/postgres/billing.go` | usage events, credit ledger, daily rollup, budget flag | record, deduct, aggregate, stop | worker, Stripe |
| Billing webhooks | `apps/api/internal/application/billing.go`, `repository/postgres/workspace.go:168-340` | webhook events, the account's plan | record, apply, reconcile | Stripe, uploads (quota) |
| Workspaces and access | `application/workspace.go`, `handler/authz.go`, `repository/postgres/workspace.go:390-515` | members, roles, share links, deletion marks | invite, change, remove, share, delete | every API call |
| Agent run | `apps/worker/pkg/worker/agents` | one orchestrator per instance: current job, counters, guard; checkpoints in the job row | process, tool callbacks, checkpoint | LLM, tools, mirror |
| Tree persistence | `apps/worker/pkg/worker/tools/builtin/io/persistence.go` | items and edges of the workspace's tree | resolve the root, sort, create, rewrite references | database |
| Tree and item API | `application/tree.go`, `application/item.go` | items, aliases | read, create, decide an alias | database |
| LLM client | `apps/worker/pkg/worker/llm` | rate limiter, quotas | call with retry and backoff | provider |
| Dynamic tools, transforms | `agents/dynamic_tools.go`, `transform` | registry rows | create, run | agent |
| Document tools | `tools/builtin`, `document`, `sourceio` | none beyond the run | extract, chunk, merge, summarise | agent |
| Authentication, middleware, logs, utilities, evaluation, monitor, web | see `PROJECT.json` | none that the properties are about | | |

What is hard about it:

* **Concurrency without locks.** API replicas, auto-resume loops and redelivered
  tasks all read and write a job row by separate statements.
* **At-least-once delivery.** The queue repeats deliveries, may overlap them, and
  may take a task whose `CreateTask` call timed out.
* **Two stores.** A row and its Firestore mirror, a reservation and its bucket
  object, an event and its effect are written one after the other, and a process
  may die in between.
* **Clocks.** Reservations expire while they are being confirmed.
* **Money.** Usage, credits and webhooks must be applied once, in an order.

What would make each component correct: a job is run at most once at a time, is
never left in flight with nobody to finish it, never comes back once it is
settled, and its mirror does not lie (lifecycle, dispatch, mirror); room is
promised once, paid once, and a confirmed object is there (uploads); a usage
report counts once whatever is retried, and credits are not spent twice (usage);
a webhook takes effect once and the newest one wins (webhooks); a revoked member
does nothing more (access); a re-run repeats no recorded stage, and two jobs do
not share counters (agent); a workspace has one root and no item twice (tree).

## Plan

Most important first.

1. `JobContract`, `JobLifecycle`, `JobLifecycleProofs` (runs `job_api`,
   `job_delivery`, and the two disagreements `retryable_resume`, `parallel_pass`).
   **Done.**
2. `UploadReservation`, `UploadReservationProofs` (runs `upload`,
   `upload_mismatch`). **Done.**
3. `UsageAccounting`, `UsageAccountingProofs` (runs `usage`, and the two
   disagreements `usage_retry`, `budget_gate`). **Done.**
4. `BillingWebhooks`, `BillingWebhooksProofs` (runs `webhooks`, and the disagreement
   `webhook_retry`). **Done.**
5. `AgentRun` (run `agent`), with the persistence of the tree, which is the tool its
   hooks, limits and checkpoints are for; `AgentRunProofs`, `AgentTreeProofs`. **Done.**
6. The sums of `UploadReservation`, and the sort of `AgentRun`, by induction
   (`SetInduction`, `TopologicalSortProofs`). **Done.**
7. `WorkspaceAccess`: roles, removal and deletion racing with authorised calls.
8. `RetryingModel`, the backoff of the LLM client; the chunker's bounds.

How the modules compose. The plan webhook is the same transaction seen three times:
`BillingWebhooks.ApplyBillingEvent` says which plan the account gets and when, and
`UploadReservation.ApplyBillingEvent` and `UsageAccounting.ApplyBillingEvent` are what
that change means for the quota and for the split of a cost, at any time and to any
plan, which allows every order `BillingWebhooks` has. `JobLifecycle.ProcessDocument`
is one step with any outcome, and a pass of `AgentRun`, from `BeginJob` to its end, is
what happens in it; a `BudgetAbort` followed by another `BeginJob` is a requeue
that is delivered again (see the first finding for how far the code gets there).

## Job lifecycle

### State and actions

`job` is the table `document_processing_jobs`: document, status and retry count,
and four history fields (who created the row, whether that call could read the newest
job, and which job, in which status, it was). Identities count up in creation order, so the newest job
(`ORDER BY created_at DESC LIMIT 1`) is the greatest. `mirror` is the status field
in Firestore; `task` and `attempts` are the named `ExecuteApprovedPlan` task and
its deliveries; `rejected` are the jobs whose approval a reviewer has rejected;
`api` and `pass` hold, for each API call and each delivery being served, the next step
and the local variables it still needs; `faults` counts crashes and failed statements,
and `blame` remembers which job each one hit.

An action is one access to shared state: one SQL statement or transaction, one
Firestore write, one call to the queue. Everything the code does between two such
accesses belongs to the action before.

* `StartProcessing`, `ForceReprocess`, `ResumeProcessing`, `AutoResumeScan` and
  `AutoResumeRecheck` are the checks (`application/document.go:342-422, 477-497`):
  each reads the newest job and decides to hand it back or to make another
  (`CheckNewest`). A call that hands a job back changes nothing and is not a step; one
  whose read fails goes on as if there were no job, because only `err == nil` is
  looked at, and `check` remembers that in the row.
* `CreateProcessingJob`, `SetProcessingJobRetryCount`, `NotifyQueued`,
  `GenerateExecutionPlan`, `ExecuteApprovedPlan` follow `startProcessingJob`
  (497-540), `TryFail` and `TryFailNotify` are `handleDispatchFailure`.
* `Deliver` is the queue. `ReadJob`, `CheckApprovals`, `MarkRunning`,
  `MarkRunningNotify`, `ProcessDocument`, then `RequeueProcessingJobForRetry`,
  `CompleteProcessingJob` or `FailProcessingJob` and their notifications follow
  `Worker.Process` (`worker.go:137-266`) statement by statement, with its error paths.
* `HandlerCrash` and `WorkerCrash` may come between any two steps.

The INSERT, the claim, and the updates that settle a job are exactly as guarded as
their SQL: the claim has `WHERE status IN ('queued','running')`, the others have
no guard.

### What is checked

| run | instance | shows |
|---|---|---|
| `job_api` | 1 document, 2 calls, 2 jobs, 1 worker, 1 delivery each, 1 fault | `OverlapNeedsStaleCheck`: a newer job beside one in flight is explained by a forced call, a check older than that job, or a read that failed. `AutoResumeIsCounted`: no unbounded resuming, but by a failed read or stamp. `RowKeepsContract`: the refinement of `JobContract` |
| `job_delivery` | 1 job, 2 workers, 3 deliveries, 2 faults, a reviewer | `InFlightHasOwner`, `StaleCountNeedsOverlap`, `MirrorEndIsReal`, `MirrorAgrees`, and under fairness `EverySubmissionSettles` |
| `retryable_resume` | 1 job, 3 deliveries, no fault | a violation: see Findings |
| `parallel_pass` | 1 job, 2 overlapping deliveries, no fault | a violation: see Findings |

Bounds. Two calls and two jobs are the fewest that race, and the newest-job
check looks at one job only; two passes are the fewest that overlap; three deliveries
let one be lost, one overlap and one come late. One fault in `job_api` and two in
`job_delivery` cover a fault in the handling of a fault. `MaxBudgetRetries` and
`AutoResumeMaxRetries` are 1, so that the caps are reached. `job_delivery` uses no
symmetry, because it checks liveness. Deadlock is not checked: a system with
all jobs settled and the bounds used up stops.

The properties excuse only what `blame` records. `InFlightHasOwner` is not
excused by a lost mirror write, by a race of two passes or by a dispatch error,
and the dispatch error is the interesting case, where the task exists although the
API has failed the job. `EverySubmissionSettles` is likewise excused for the job
that was hit, and for no other. What a crash after a 200, a failed stamp or a final
4xx leaves behind is therefore not shown to be repaired: it is not, and the hazards of
`PROJECT.json` say so.

Fairness (`FairSpec`): a handler and a pass keep taking steps unless their process
dies, which is a step of its own and not assumed away; `ProcessDocument`
terminates because the agent runs under a deadline of its own, shorter than the
request timeout Cloud Run enforces (`apps/worker/pkg/worker/worker.go:203-213`); the queue is strongly fair, since Cloud Tasks retries a
task until it is answered or its attempts are used up
(`terraform/modules/cloud_tasks_queue/main.tf`). Nothing is assumed of clients, reviewers or
auto-resume scans.

### What is proved

`JobLifecycleProofs` proves, for any finite or infinite set of documents, calls and workers
and any bounds, from `DocumentsAssumption` and `BoundsAssumption` alone:
`TypesAreKept`, `NothingIsStranded` (`InFlightHasOwner`), `OverlapsAreExplained`,
`AutoResumesAreCounted`, `MirrorEndsAreReal`, `CountsAreCurrent` (`StaleCountNeedsOverlap`),
and `ImplementsJobContract`, the refinement.

None of these is inductive. The invariant `Inv` adds what holds in between:

* `Placed`: rows exist for the identities given out; a handler has a job exactly while it
  works on one, alone; a task exists only after its handler has stopped making the
  job; a pass has a task; a pass past the claim works on a row that was claimed.
* `ChecksWereTrue`: the job a waiting call found settled is still settled. It holds
  because a settled job never comes back, which is the contract, and it is what makes the
  overlap property go through: only a job created *after* the check escapes it, and
  a check that read nothing is an exception of its own.
* `CountsAreKept`: an auto-resume over a failure it could read carries a count, and the
  row has it before it gets a task.
* `EndsAreWritten`: the mirror is about to be told of an end only if the row has one.
* `QueuedHasOwner`, `RunningHasPass`: who owes the next step. A QUEUED job may be owed a
  delivery, but a RUNNING one is owed a *pass*: a delivery of a running job is
  skipped with a 200, so a delivery still owed is no help. This strengthening is
  where the hazard of a crashed pass shows.

`CountsAreCurrent` rests on `Placed` and on two more invariants. `CopiesAreCurrent`: the
copy of the retry count is the row's, before the claim as long as the row can be claimed,
after it as long as nobody else has claimed it. `OverlapsAreBlamed`: two passes that have
both claimed a job are remembered, which is what a requeue by the other one needs.

Each lemma treats the actions one by one. The refinement maps `status` and `retry` to
the row's columns; only six actions change them, and `PassesClaim` and
`MadeBeforeTask` supply the guards the contract asks for and the SQL does not have.

`MirrorFollowsRow` (`MirrorAgrees`) needs the order of all the writers of a job.
`MirrorIsKept` says it of a job that no crash, lost write, failed mirror or race has hit:
at rest, row and mirror agree; a handler that still has to enqueue the job has told the
mirror it is queued; a pass at work has told it that it runs; whoever is about to tell
it of an end has written that end to the row; and each of these writers is alone.
The last clause is what makes it inductive: a second claim is recorded as a race.

Only model-checked: `EverySubmissionSettles` (liveness is beyond the prover), and the
two findings.

## Upload reservations

### State and actions

One account with all its workspaces: `used`, `quota`, one row of
`upload_reservations` for each document, the `bucket`, confirmations in progress
(`call`), sweeps in progress (`sweep`), the `clock`, and two history variables:
`refused` (which documents a confirmation has refused, and why) and `excused`
(the quota property's exceptions, below).

* `CreateDocument` (`repository/postgres/document.go:99-176`) is one transaction under the account's row lock,
  with a clock read before the lock: `createdAt` is an earlier instant.
* `Upload` is the client, with any object at any time after the reservation. The emulator's URL (`bootstrap.go:215-234`)
  allows that; the signed URL of production fixes length and content type and
  expires, so it allows less.
* `GetObjectMetadata` reads the object before the transaction.
  `LockReservation` and `ChargeAccount` are the transaction of
  `ConfirmDocumentUpload`, in two steps: it holds the reservation's lock while it
  waits for the account's, and time passes. Holding the lock is `pc = "charge"`.
* `DeleteRefusedObject` comes after the transaction, and may fail.
* `ExpireUploadReservations` is one UPDATE, which waits for locked rows; the objects
  are deleted one at a time afterwards (`DeleteExpiredObject`).
* `CallEnds`, `SweepEnds`: the process dies or a statement fails.
* `ApplyBillingEvent`: a webhook replaces the quota at any time.

A reservation's `failed` status does not occur: the only statement that writes it is
rolled back (Findings).

### What is checked

| run | instance | shows |
|---|---|---|
| `upload` | 2 documents, 2 confirmations, 1 sweep, 3 instants, quotas of one and of two documents | `UsedIsConfirmed`, `RoomIsPromisedOnce`, `ConfirmedKeepsObject`, `SettledReservationsStay` |
| `upload_mismatch` | 1 document, 1 confirmation | a violation: see Findings |

Bounds. Two documents compete for the room of one; two confirmations are
enough to race on one document or on the account; a reservation of one tick and a clock
of three instants have a "before", an "at" and an "after" the expiry, and the wait of
one tick lets a creation be older than its lock. The declared sizes include zero and
one above `MaxFileSize`, both of which are refused. Deadlock is not checked: the clock is bounded.

`RoomIsPromisedOnce` has two exceptions, each recorded when it happens. The plan
may shrink. And a confirmation that began in time may be charged at or after the
reservation's expiry, when `CreateDocument` no longer counts it: at the very
instant of expiry the two disagree (`expires_at > now` and `not now.After(expires_at)`), and
while the charge waits for the account time moves on. Without these two the quota
is never over-promised; with them a later confirmation may be refused although
its room had been reserved.

`ConfirmedKeepsObject` excepts documents some confirmation has refused: a refusal
deletes the object after its transaction, and meanwhile another upload may have been
confirmed. The documents without a refusal are safe from sweeps and from each
other's confirmations.

No fairness: the sweep has no caller in the bootstrap (it may never run), and
deletions are best effort. What is checked is safety only.

### What is proved

For any sets of documents, calls and sweeps and any sizes, quotas and times, from
the named assumptions: all five properties. For `Types`, `ConfirmedKeepsItsObject` and
`SettledStaySettled` the inductive
invariant says that row locks are exclusive and held on reserved rows only
(`OneLock`, `LockedIsReserved`), that an object a confirmation has seen is still
there unless the document was refused or expired since (`SeenObjectStays`), that a call
about to delete has refused (`DeletedIsRefused`), and that sweeps delete objects of
expired rows (`SweptIsExpired`). The charge then turns a *reserved* row whose object was
seen into a confirmed one, and whatever could have deleted the object is excluded.

`UsedIsWhatIsConfirmed` and `RoomIsNotPromisedTwice` are about sums over the documents. Both
hold together or not at all (`MoneyInv`), with two facts: a confirmation that is about to
charge has the size its document reserved, and only finitely many documents have been made
so far, so that no assumption on `Documents` is needed. What adding or removing one
document does to a sum is proved from the recursive function behind `MapThenSumSet`, by
induction over the subsets of a finite set: `SetInduction` takes what is to be proved as a
*set* of subsets, since the library's induction theorems, whose parameter is an
operator, cannot be instantiated by the provers. A creation that read the clock
before it got the lock compares with the room as it was then, which is at least what is
promised now.

## Usage accounting

### State and actions

One account. `report` is the worker's side of each LLM call (`metering/reporter.go`),
`call` the handler that serves each attempt: its next statement and locals. `balance` is
the sum of `account_credits`, `deduction` the row `deduct-<event>`, `usage_events` the
stored events, `daily` what each has added to the rollup, `meter` what Stripe has
accepted for it; `plan`, `linked` and `budget` are columns of `accounts`.

* `reportUsage`, `RetryReport`, `CancelReport` are the reporter's loop. `LoseAnswer` ends
  the worker's attempt while the handler goes on, so two attempts of one event overlap.
* `GetModelPricing`, `GetCreditBalance`, `GetAccountPlan` (with `Split`), `DeductCredit`,
  `RecordUsageAccounting`, `GetAccountCustomer`, `ReportInputTokens`,
  `ReportOutputTokens` and `Respond` are `Recorder.Record` and its caller, one
  statement or request each, with what the code does when one fails: a price or a
  balance that cannot be read counts as none, an account that cannot be read is not
  free, a failed deduction is logged and the event stored all the same.
* `RecordUsageAccounting` is one transaction: the event (`ON CONFLICT DO NOTHING`), the
  rollup, the sum and the flag. The meter has an idempotency key for each side of an event.
* `HandlerCrash` may come between any two steps. Grants, limits, plan changes and a
  checkout may come at any time; `ensureBudgetAvailable` is the gate of every start.

### What is checked

| run | instance | shows |
|---|---|---|
| `usage` | 2 events, 2 attempts each, one fault, credit for some of it | `OverspendIsFlagged`, `OverdraftNeedsOverlap`, `LedgerMatchesEvents`, `DoubleChargeNeedsRetry`, `MeteredWithinUse`, `RollupDiffersByRetries`, `StoredEventsStay` |
| `usage_retry` | 1 event, its first answer lost | a violation: see Findings |
| `budget_gate` | 1 event over the limit, then a start | a violation: see Findings |

Bounds. Two events race for one balance and for one limit, and two attempts of each are the
fewest that repeat; the code's third adds another repetition. Rates are scaled so that a call
costs one or two units, loses a fraction in the division, and is covered by the credit
fully, partly or not at all. One fault is enough for each excuse below; what several
do is proved rather than run.

The properties say what the code keeps, and name its exceptions. The credit *can* be
overdrawn, since the balance is read and deducted by separate statements, but only if
another deduction came in between. An event *can* be charged to the credit and to
the meter, and counted twice in the rollup, but only if its report was sent again. The
overspend flag, whose sum is taken inside the transaction that stores the event, has
no exception except a limit that was set afterwards.

### What is proved

All of it, for any events, attempts, rates, tokens, credits, limits and number of faults
(`UsageAccountingProofs`), from `TokensAssumption`, `PricingAssumption` and
`BoundsAssumption`. The invariant adds to the properties: `Sent` (an attempt is counted from
the first that is sent, and a running handler serves one that was), `HandlersSound`
(what each step of a handler says of its locals: no more is deducted than the
balance read, credit alone leaves nothing for Stripe), and `SentOnce`, which is why
the three retry properties hold: as long as an event was sent once, *one* handler
writes its deduction, its row, its rollup and its meter in this order, and `OnceSound`
says what each place of that handler implies for the four. A second attempt
invalidates the premise, never the formula, so no case of overlapping attempts is
needed. The arithmetic of prices and proration is in lemmas on products, quotients
and minima. The sum over the stored events is never opened: the transaction
compares the very sum it leaves behind.

## Billing webhooks

### State and actions

`remote` is Stripe: the customer, the subscriptions, invoices and cards; `events` are the
events it has emitted, in order, each a payload that `ParseWebhook` turns into what the
API makes of it (`infrastructure/stripe/provider.go:376-507`). `handler[e]` is where the one
handler that recorded event `e` is; `billing_events`, `account`, `invoices`,
`payment_methods` are the tables; `reconcile` is a reconciliation under way.

* Stripe's actions are external: a checkout, a cancellation, invoices finalized, paid, failed and
  voided, cards attached, detached and made the default, with the events the parser expects.
* `RecordBillingWebhookEvent`, `ApplyEvent`, `applyWebhookSideEffects`,
  `MarkProcessed` follow `recordAndApplyWebhookEvent`; `ApplyEventFails`, `MarkFailed`,
  `SideEffectFails` and `HandlerCrash` are its error paths; `Duplicate` is every later delivery,
  answered 200 (one during the first handling does the same, and is taken after it). Handlers of different events interleave, so events are applied in any order.
* `CompleteCheckout` may give the customer a second subscription beside a living one:
  neither `CreateCheckoutSession` nor its idempotency key prevents it. The account has
  room for one; what it should say is what the newest says, the one `FetchBillingState`
  asks for.
* `ReadAccount`, `FetchBillingState`, `ListRemoteInvoices`, `backfillInvoice`,
  `ListRemoteCards`, `ReadDefault`, `backfillPaymentMethod`, `backfillDefault`,
  `reconcileAccount` are a reconciliation with apply, one request or statement each, so that
  webhooks are handled in between. It compares with the account as it was read first, and
  writes over what webhooks did meanwhile; what was listed is written as it was listed,
  and a customer that cannot be read counts as one without a default card. `ListingFails` and
  the failing branches of the backfill steps are skipped over, as in the code.
* History: which event changed each mirror last (`latest`), which mirrors an older event, read or
  list has overwritten (`late`), what never arrived (`lost`), which events are about a
  subscription that had ended by then or is not the newest (`stray`), whether one of these, or a
  reconciliation that finds the newest subscription ended, had the last word on the plan (`astray`),
  and whether the default card was last written by a backfill that could not read it (`cleared`).
* A customer is new, or has left a checkout unpaid, or has subscribed, or has subscribed again
  while invoices of the earlier subscription are still open, and it has ended or has not:
  these are the initial states.

### What is checked

| run | instance | shows |
|---|---|---|
| `webhooks` | 2 events, 1 invoice, 2 cards, one fault, one reconciliation | `AccountFollowsStripe`, `InvoicesFollowStripe`, `CardsFollowStripe`, `OneDefaultCard`, `AppliedOnceOrOnRecord` (no event is applied twice, and none that was lost on this side looks processed) |
| `webhook_retry` | 3 events, one fault, no reconciliation | a violation: see Findings |

Bounds. Two events are the fewest that can be swapped: the two of a checkout, those of
a card that is detached and was the default, an invoice and its payment. Since customers
at every stage are initial states, two events reach what would take eight or more from the
beginning, the end of one of two subscriptions included. Two cards are the fewest of which one
is the default; they are alike (`CardsAlike`, a symmetry, as the run has no liveness
property). The reconciliation has up to ten steps, and either event may be emitted, recorded
or applied between any two of them; reconciliations do not overlap. Three events with it
are too many for the time a run has; any number of events, cards, invoices and
reconciliations, one after the other, is what the proofs are for.

The three `FollowsStripe` properties speak of quiet states, when every event has been
handled or given up. Their exceptions are the recorded ones: a mirror that an event
overtook or that a backfill set back to an older list, one that an event never reached (until a
reconciliation makes it good), a plan on which a stray subscription had the last
word, and a default card cleared by a backfill that could not read it. They exclude everything
else: a combination of handlers, duplicates, faults and a reconciliation whose writes go
wrong for another reason.

No fairness: Stripe may give up, and no property is about time.

### What is proved

All six properties, for any cards, invoices, and numbers of events, reconciliations and faults
(`BillingWebhooksProofs`), from `CardsAssumption` (some card exists, and none is called
`NoCard`), `InvoicesAssumption` (an invoice is not called like another mirror) and
`BoundsAssumption`.

* `Base` is enough for `TypesAreKept`, `OneCardIsDefault` and `EventsApplyOnce`: `Placed` says of each
  event what its record, its count and its handler's place have to do with each other.
* The three `FollowsStripe` theorems have one argument, made three times. `Arrived`: an event
  whose handler is past a mirror has reached it or is lost. `Ready`: what reached
  a mirror did so in order, nothing is lost and nothing older is still to come. Then
  two invariants: *the last event about a mirror says what Stripe says* (`InvoiceSaid`,
  `CardSaid`, `AccountSaid`), and *a ready mirror shows it, if no event about it came after the
  newest that reached it* (`InvoiceShown`, `CardShown`, `AccountShown`). Once all is quiet
  there is no such event. Each step either leaves a mirror alone, writes it from one event, or
  refreshes it from an answer of Stripe (`KeptBy`, `WrittenBy`, `RefreshedBy`), and
  what that does to `Ready` is proved once for all of them.
* The cards need this for each card and for presence and default apart, because a backfill
  cannot remove a detached card and so leaves the table right about some cards only. A
  backfill under way holds a list, and a default, that were true when it asked: they are right as
  long as no newer event about them is out (`InvoiceListed`, `CardListed`). The account needs what a reconciliation has fetched
  (`FetchShown`), that a price goes with the paid plan (`Priced`), and that only events of the
  newest subscription decide (`Decides`).

No bound TLC can afford reaches all of this from a new customer: that the invoice of an ended
subscription can be paid after a new one has begun, for one, takes five events. The other
initial states bring it within reach.

## Agent run

### State and actions

One worker instance and jobs of one workspace. `pass` holds the agent run of each delivery,
and `JobOf` says of which job: nothing in the code keeps two passes of one job apart, as the run
`parallel_pass` shows, so they overlap here too. The orchestrator is one object for the
instance: `job` (the job context), `currentJobID`, `repeatGuard` and `memory` (whose
document map and whose brief are in every prompt) are shared by passes that overlap;
`counters` are kept by job, and set back when another pass of it begins. `checkpoints` are
the files `.checkpoints/<job>/<stage>.json`, `tree` the items of the workspace in
order of creation, `mutations` the log rows the capability's limit counts.

* `BeginJob`, `ProcessDocument`, `prepareDocumentMap` start a pass
  (`tools/core/base/base.go:66-83`, `agents/orchestrator.go:200-284`). Extracting an image, an
  audio or a video file is a model call, made outside any session and so counted for
  nobody (`Media`, `Transcriptions`).
* `CallTool`, `FinalResponse`, `AgentRunFails` are a model call, whose limit is compared
  first. What the model answers is arbitrary: any tool, any arguments, or an end.
* `Nudge`, `ResumeFromCheckpoint`, `EnterTool` are the hook before a tool, `AfterTool` the hook
  after it (`agents/callbacks.go`), which files the answer under the *current* job.
* `generate_brief` stands for the stage tools that write no item. `PersistNothing`,
  `PersistRefused`, `StartPersist`, `CountItems`, `CreateItem`, `LogItem`, `MergeItem`, `ItemRefused`,
  `StoringFails`, `RewriteLinks` are `persist_knowledge_tree` statement by statement
  (`tools/builtin/io/persistence.go`, `repository/postgres/item.go`), with
  `sortItemsTopologically` and `resolveRootNodeID` as functions. The count of a job's items, the
  insert and the log row are three statements. A list may name a local id twice: the sort
  keeps the last item of it, unless it is on a cycle of parents.
* `BudgetAbort` ends a pass where its context is looked at, `Crash` replaces the instance.
  Either is followed by another pass, which starts with the checkpoints and the tree.

### What is checked

| run | instance | shows |
|---|---|---|
| `agent` | one pass with a fault and an unreadable capability; two passes of one job, at once or one after the other, with a fault; one pass of each of two jobs | limits: `ModelCallsWithinLimit`, `ItemsWithinCap`, `PassEnds`. Shared state: `NudgeFollowsOwnStreak`, `PromptIsOwn`, `AnswersAreOwn`. Checkpoints: `SavedIsStored`, `ItemsOnce`, `FirstAnswerStands`. Tree: `OneRoot`, `PlacedUnderParent` |

Bounds. `Allowances` are the combinations of deliveries and faults: two overlapping passes are the
fewest that race, for a stage, the counters, the count of items or the root, and a re-run
after an interruption is the same two passes one after the other. Two jobs overlap without a
fault, which is where the time goes; with one, and for three passes, the proofs stand alone. The
first job has two model calls: enough for a call and its repetition with a nudge
(`repeatThreshold` is 1 here, 3 in the code), or for a brief and a persist call. Its list has a
child before its parent and a link; the second job's document is an image, and its list
merges into an item of the tree and names a local id twice, or is empty. `MaxItemCreations`
is 3, so two passes of two items reach the limit. `UpTo` stops counting where every comparison
would come out the same, in passes whose limits are unknown. The run has about 172 000 states.

Histories carry the exceptions:

* `mixed` are jobs whose hooks ran while another job was current: their answers, nudges and
  checkpoints may be the other's.
* `raced` are jobs two of whose passes were in one stage at the same time: both find no
  checkpoint, both run the tool, and the later answer replaces the earlier.
* `unsealed` are jobs that stored items without a checkpoint that says so, after which a re-run
  stores them again.
* `guardUsers` are the pass that made the repeat guard and those that used it: any second
  pass, of the same job too, replaces the guard of the first.
* `granted` is what a pass may call: the limit, once more for each pass of its job that begins
  beside it, since that sets the counters back, and one more for an uncounted transcription.
* `unlogged` and `crowd` are what the cap on items misses: rows not written or counted, and passes
  that stood between their count and their log row when another counted.
* `misrooted`: a root was looked for while any other pass was about to make one, or the
  tree could not be read.

`PromptIsOwn` has no such excuse for a pass that was alone: the working memory
is never reset, and still the pass prompts with its own map and brief, because it
overwrites what the job before left.

Fairness (`FairSpec`): a pass takes its own steps, since the runtime keeps
running its goroutine. Nothing makes the model stop, a budget run out or a job be
delivered; `PassEnds` follows from the limit on model calls alone, and only for a pass whose
capability was read.

### What is proved

Every property of the run except `PassEnds`, for any jobs and deliveries, any number of overlapping
passes, any lists, limits, threshold and allowances (`AgentRunProofs`, `AgentTreeProofs`), from
`NamesAssumption`, `BatchesAssumption` (a list is a sequence of items, repeated local ids and
cycles included) and `LimitsAssumption`.

All of it starts from `Base`: the types, `Named` (an instance with a pass has a job, and
a current job once a document has been processed) and `Shaped` (what a pass holds at each
place). To it each theorem adds what its property needs:

| theorem | inductive invariant |
|---|---|
| `CallsStayWithinLimit` | `CallsAreCounted`: what a pass has made and what the job's counter leaves are together at most what the pass was granted, whoever sets the counter back |
| `ItemsStayWithinCap` | `ItemsAreLogged`: the items of a job are at most its log rows, the unlogged ones and those still to be logged; with those counted and not yet made, at most the cap, the unlogged and the crowd |
| `LonePromptIsOwn` | `MemoryIsOfTheLone`: a pass that is alone runs alone, and what it put into the memory is there |
| `AnswersComeFromOwnCalls` | `AnswersOfStage`: every checkpoint of an unmixed job, read or not, answers that job and stage |
| `StageAnswersStand` | `StageOfOne`, `NamesItsDocument`, `AnswersSettled`: a stage that was not raced for has one pass in it; while its tool runs the stage has no answer, and what the hook then files is new, or what was there |
| `NudgedWhenStuck` | `GuardFollows`: the key and streak of a guard that one pass has used say what its own last calls say, `streak >= m` exactly when the last `m` are one call; its nudged keys are the calls the pass was stuck on |
| `TreeHasOneRoot` | `RootIsAlone`: one root and nobody about to make one, or no root and at most one |
| `SavedMeansStored` | `LeftOrStored`: what a pass has still to store and what it has stored is the last item of each local id of its list |
| `ItemsHangOffTheirParents` | `ParentsKnown`: of each item to come, the parent has an id by now or comes before it |
| `NoItemTwice` | `StageOfOne`, `NotRepeated`: the ids of a storing pass are those of all the job's items, none of them is still to come, and a job with items has a pass about to file them or a checkpoint that says so |

`ParentsKnown` and `LeftOrStored` rest on the sort. `TopologicalSortProofs` proves what
`sortItemsTopologically` returns for every list (`SortedParentsFirst`): items of the list, the last
of each local id among them; no local id twice, unless one that is repeated is on a
cycle; and an item after the parent that the list creates for it. The queue is a recursive
function; its values are built up and compared step by step, by induction over the naturals
taken from the library's well-foundedness of `<` (`SetInduction`). What makes it
go through is that a local id enters the queue with the last of its parents, after all the
others, and that a parent is at exactly one place in the queue.

What each action does to each part of a pass is stated once (`SameRun`, `SameCall`,
`SameTool` and the `...Does` lemmas), and the proofs of the invariants cite that.

Only model-checked: `PassEnds`, a liveness property.

## Findings

Each of these is a run that is expected to fail; `PROJECT.json` has the quotations.

* `retryable_resume`: a job put aside as RETRYABLE is never run again.
  `shouldSkipJobStatus` lets it through and the claim's WHERE clause refuses it, so
  every redelivery answers 500 until the queue gives up. `documents.sql:136` says that a
  redelivery re-runs it.
* `parallel_pass`: two overlapping deliveries can both claim a job, because the claim
  also matches a RUNNING row. `documents.sql:106` says the second would update 0 rows.
* `upload_mismatch`: a document refused for its size is not marked `failed`,
  because the mark is in a transaction that is rolled back.
* `usage_retry`: a report that is repeated after its answer was lost is split again, and an event
  that credit has paid for is sent to Stripe's meter too. The contract
  (`docs/contracts/billing-contract.md:326, 347`) and `reporter.go:18-23` call a resend safe.
* `budget_gate`: the flag of an exceeded budget stops nothing, because `GetAccount` does
  not select it. The tests of the gate use a mock store.
* `webhook_retry`: an event whose application failed is answered 500 for Stripe to retry, and
  the retry is taken for a duplicate. Nothing in production calls the reconciliation that
  would repair it.

Observed while modelling, without a run of their own:

* A read of the newest job that fails is taken for no job (`application/document.go:351, 485`): a
  second job is made beside one in flight, or an auto-resume starts its count anew.
* The last `invoice.paid` of a cancelled subscription, and a reconciliation after it
  (`FetchBillingState` lists `status=all`), put the paid plan back; paid after a new subscription
  has begun, it puts the old subscription's id into the account. `astray` records it.
* Two checkout sessions give a customer two subscriptions, and cancelling one sets the
  account to the free plan while the other lives and is charged for.
* A backfill sets an invoice that was paid since it was listed back to open, and puts a card
  detached since back; and when the customer cannot be read it clears every default card
  (`infrastructure/stripe/provider.go:328-332`).
* A reconciliation never removes a detached card, although
  `application/billing.go:370-372` says that it repairs what the best-effort mirror drops.
* Two overlapping passes of a job set each other's counters back and replace each other's repeat
  guard, may store every item twice and make two roots, and exceed the cap on items between the
  count and the log row (`repository/postgres/item.go:77-116`).
* The model call that transcribes an image, an audio or a video file before the agent starts is
  counted against no limit.
* Of two items with one local id `persist_knowledge_tree` stores the last, and reports success.
* `checkout.session.completed`, applied after the subscription's own event, leaves the
  account `checkout_pending` and without a price (`Pending`).
* The worker ignores `BudgetExceeded` in the answer to a report, which the contract makes
  its duty (`docs/contracts/billing-contract.md:327`).
* A document that cannot be extracted leaves the previous job's map in the prompt, where
  the comment at `agents/orchestrator.go:254-260` expects the agent to fall back to a tool.
* A nudge and a `Success: false` answer become a stage's checkpoint and are served by the
  next pass, and a brief served from its checkpoint does not enter the prompt.
* One refused persist call leaves the item count over its limit, and since every limit
  is compared whichever counter moved, the next model call fails the job.
* Two first sign-ins at once can create two accounts, each with the sign-up credit. A
  credit whose grant fails is never granted: the next sign-in finds the account and does not
  try, where `application/user.go:59-60` calls the sign-in idempotent and self-recovering.
* Two overlapping passes that both run out of their budget requeue a job once each, so its
  count can pass `maxBudgetRetries`, which `worker.go:268` calls a cap
  (`StaleCountNeedsOverlap` says that only an overlap does this).
* `ListWorkspacesByUser` (`repository/postgres/workspace.go:342`) returns the workspaces of
  the user's account only; the query of that name in `db/queries/workspaces.sql:43`, whose
  comment says that shared ones are listed too, is not the one that runs.

## Not modelled

Reads, formatting, authorisation before a call starts, logging and incident
reports, the plan and capability tables, the synchronous dispatcher of local
development, `UpdateStage` (no caller) and the stuck-job monitor (reads and reports); the
progress fields of the mirror (display only); texts, evidence, glossary and journal of
the agent, its dynamic tools and its per-item summaries; currencies, amounts and
periods of invoices. Each component's note in `PROJECT.json` says what its modules leave
out. The database is taken to be serializable per statement or transaction,
as CockroachDB is, and the queue to deliver only tasks it has taken.

The largest files of the repository are generated (`internal/gen`, two copies of `sqlcgen`) or
part of the web frontend: they hold no decisions of their own, and the queries behind
`sqlcgen` are modelled where they are called. Authentication, logs, monitor and evaluation have no
state the properties above depend on. Members and roles (plan item 7) check one role
and issue one statement; the LLM client and the chunker (8) are sequential. They are
left for later, behind the proofs, because each adds a single gap to the
hazards listed, where the agent and the money had many.
