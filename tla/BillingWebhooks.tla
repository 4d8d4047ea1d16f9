--------------------------- MODULE BillingWebhooks ---------------------------
(***************************************************************************)
(* How an account's billing state follows Stripe.  Stripe changes on its   *)
(* own (subscriptions, invoices, saved cards) and describes every change   *)
(* in an event; the events reach the API in any order, and each is sent    *)
(* until a delivery is answered with 200.  The API records the event's id, *)
(* applies what the event says to accounts, mirrors its invoice or card,   *)
(* and marks the event.  A reconciliation compares an account it has read  *)
(* with Stripe's answer and writes the difference, and on the way lists    *)
(* invoices and cards and writes them one by one, each request and each    *)
(* statement a step of its own.                                            *)
(*                                                                         *)
(* Stripe is external: its actions are what the parser expects of it.  A   *)
(* delivery of a recorded event changes nothing, so at most one handler of *)
(* an event gets past RecordBillingWebhookEvent; handler[e] is that one.   *)
(* An event's id is its place in the order Stripe emitted them in.         *)
(***************************************************************************)
EXTENDS Integers, Sequences, FiniteSets

CONSTANTS
  Invoices,      \* the invoices Stripe may issue
  Cards,         \* the cards the customer may save
  NoCard,        \* no default card
  MaxEvents,     \* bound: events emitted
  MaxReconciles, \* bound: reconciliations
  MaxFaults      \* bound: failed statements, crashes, abandoned events

ASSUME CardsAssumption == NoCard \notin Cards /\ Cards # {}
ASSUME InvoicesAssumption == Invoices \cap {"account", "cards"} = {}
ASSUME BoundsAssumption == MaxEvents \in Nat /\ MaxReconciles \in Nat /\ MaxFaults \in Nat

VARIABLES
  remote,          \* Stripe: the customer, its subscriptions, invoices, cards
  events,          \* the events Stripe has emitted
  stray,           \* history: the events about a subscription that had ended by
                   \* then, or was not the customer's newest
  acked,           \* the events a delivery of which was answered with 200
  handler,         \* where the handler that recorded each event is
  billing_events,  \* processing_status of each recorded event
  account,         \* the accounts row
  invoices,        \* the invoices table: a status, or "absent"
  payment_methods, \* the payment_methods table: "absent", "card" or "default"
  reconcile,       \* the reconciliation under way
  faults,
  applied,         \* history: how often each event has changed the account
  latest,          \* history: the newest event to have changed each mirror
  late,            \* history: the mirrors an older event or listing has overwritten
  lost,            \* history: <<e, m>> when event e never reached the mirror m
  astray,          \* history: a stray event, or the listing of an ended
                   \* subscription, had the last word on the account's plan
  cleared          \* history: the default flags were last written by a
                   \* reconciliation that could not read the default

stripe == <<remote, events, stray>>
history == <<applied, latest, late, lost, astray, cleared>>
vars == <<stripe, acked, handler, billing_events, account, invoices, payment_methods,
          reconcile, faults, history>>

EventIds == 1..MaxEvents

\* What is kept in step with Stripe: the account, the cards, each invoice.
Mirrors == {"account", "cards"} \cup Invoices

-----------------------------------------------------------------------------
(* Events, and what the API makes of them.                                 *)

EventTypes == {"customer.created", "checkout.session.completed", "customer.subscription.updated",
               "customer.subscription.deleted", "invoice.finalized", "invoice.paid",
               "invoice.payment_failed", "invoice.voided", "payment_method.attached",
               "payment_method.detached", "customer.updated"}

\* The payload: the subscription it names and its status, the invoice, the card.
Event == [type : EventTypes, sub : Nat, status : {"none", "active", "past_due"},
          invoice : SUBSET Invoices, card : SUBSET Cards]

MakeEvent(type) == [type |-> type, sub |-> 0, status |-> "none", invoice |-> {}, card |-> {}]

\* domain.ProviderWebhookEvent, as far as accounts and the two caches go.
Parsed == [plan |-> "", status |-> "", sub |-> 0, price |-> FALSE, invoice |-> {},
           method |-> {}, deleted |-> {}, setsDefault |-> FALSE, default |-> NoCard]

providerEventFromPrice(sub, status) ==
  [Parsed EXCEPT !.plan = "usage_based", !.status = status, !.sub = sub, !.price = TRUE]

InvoiceAs(ev, status) == {[id |-> i, status |-> status] : i \in ev.invoice}

DefaultOf(cards) == IF cards = {} THEN NoCard ELSE CHOOSE c \in cards : TRUE

ParseWebhook(ev) ==
  CASE ev.type = "checkout.session.completed" ->
         [Parsed EXCEPT !.status = "checkout_pending", !.sub = ev.sub]
    [] ev.type = "customer.subscription.updated" -> providerEventFromPrice(ev.sub, ev.status)
    [] ev.type = "customer.subscription.deleted" ->
         [Parsed EXCEPT !.plan = "free", !.status = "free"]
    [] ev.type = "invoice.paid" ->
         [providerEventFromPrice(ev.sub, "active") EXCEPT !.invoice = InvoiceAs(ev, "paid")]
    [] ev.type = "invoice.payment_failed" ->
         [providerEventFromPrice(ev.sub, "past_due") EXCEPT !.invoice = InvoiceAs(ev, "open")]
    [] ev.type = "invoice.finalized" -> [Parsed EXCEPT !.invoice = InvoiceAs(ev, "open")]
    [] ev.type = "invoice.voided" -> [Parsed EXCEPT !.invoice = InvoiceAs(ev, "void")]
    [] ev.type = "payment_method.attached" -> [Parsed EXCEPT !.method = ev.card]
    [] ev.type = "payment_method.detached" -> [Parsed EXCEPT !.deleted = ev.card]
    [] ev.type = "customer.updated" ->
         [Parsed EXCEPT !.setsDefault = TRUE, !.default = DefaultOf(ev.card)]
    [] OTHER -> Parsed

AppliesToAccount(ev) == ev.plan # "" \/ ev.status = "checkout_pending"

HasSideEffect(ev) ==
  ev.invoice # {} \/ ev.method # {} \/ ev.deleted # {} \/ ev.setsDefault

\* The mirrors an event is to change.
Targets(ev) == {m \in {"account"} : AppliesToAccount(ev)}
          \cup {i.id : i \in ev.invoice}
          \cup {m \in {"cards"} : HasSideEffect(ev) /\ ev.invoice = {}}

Msg(e) == ParseWebhook(events[e])

-----------------------------------------------------------------------------

Account == [linked : BOOLEAN, plan : {"free", "usage_based"},
            status : {"free", "checkout_pending", "active", "past_due", "canceled"},
            sub : Nat, price : BOOLEAN]

InvoiceStatus == {"absent", "open", "paid", "void"}

SubscriptionStatus == {"active", "past_due", "canceled"}

Remote == [customer : BOOLEAN, subs : Seq(SubscriptionStatus),
           invoices : [Invoices -> [status : InvoiceStatus, sub : Nat]],
           cards : SUBSET Cards, default : Cards \cup {NoCard}]

Listed == [id : Invoices, status : InvoiceStatus]

Reconcile == [pc : {"idle", "fetch", "listInvoices", "invoices", "listCards", "readDefault",
                    "cards", "setDefault", "compare"},
              count : 0..MaxReconciles, local : Account, fetched : Account, at : 0..MaxEvents,
              listedAt : 0..MaxEvents, invoices : SUBSET Listed,
              cards : SUBSET Cards, rest : SUBSET Cards,
              default : Cards \cup {NoCard}, defaultAt : 0..MaxEvents, unread : BOOLEAN]

TypeOK ==
  /\ remote \in Remote
  /\ events \in Seq(Event) /\ Len(events) <= MaxEvents
  /\ stray \subseteq EventIds
  /\ acked \subseteq EventIds
  /\ handler \in [EventIds -> {"none", "apply", "reject", "effects", "mark", "ignore", "done"}]
  /\ billing_events \in [EventIds -> {"absent", "received", "processed", "failed", "ignored"}]
  /\ account \in Account
  /\ invoices \in [Invoices -> InvoiceStatus]
  /\ payment_methods \in [Cards -> {"absent", "card", "default"}]
  /\ reconcile \in Reconcile
  /\ faults \in 0..MaxFaults
  /\ applied \in [EventIds -> Nat]
  /\ latest \in [Mirrors -> 0..MaxEvents]
  /\ late \subseteq Mirrors
  /\ lost \subseteq EventIds \X Mirrors
  /\ astray \in BOOLEAN
  /\ cleared \in BOOLEAN

FreeAccount(linked) ==
  [linked |-> linked, plan |-> "free", status |-> "free", sub |-> 0, price |-> FALSE]

NoReconcile(count) ==
  [pc |-> "idle", count |-> count, local |-> FreeAccount(FALSE), fetched |-> FreeAccount(FALSE),
   at |-> 0, listedAt |-> 0, invoices |-> {}, cards |-> {}, rest |-> {}, default |-> NoCard,
   defaultAt |-> 0, unread |-> FALSE]

NoInvoice == [status |-> "absent", sub |-> 0]

\* A customer who has just signed up, one who left a first checkout unpaid, one who
\* subscribed some time ago, and one who has subscribed again with the invoices of
\* the first subscription still open: after its end, or beside it.
NewCustomer == [customer |-> FALSE, subs |-> <<>>,
                invoices |-> [i \in Invoices |-> NoInvoice], cards |-> {}, default |-> NoCard]

Prospect == [NewCustomer EXCEPT !.customer = TRUE]

Subscriber(c) == [customer |-> TRUE, subs |-> <<"active">>,
                  invoices |-> [i \in Invoices |-> NoInvoice], cards |-> {c}, default |-> c]

Resubscriber(c, first) ==
  [Subscriber(c) EXCEPT !.subs = <<first, "active">>,
                        !.invoices = [i \in Invoices |-> [status |-> "open", sub |-> 1]]]

\* The newest subscription, the one FetchBillingState asks for, and its status.
Newest == Len(remote.subs)
NewestStatus == IF remote.subs = <<>> THEN "none" ELSE remote.subs[Newest]

\* What the account should say.
Expected ==
  IF NewestStatus \in {"none", "canceled"} THEN FreeAccount(account.linked)
  ELSE [linked |-> TRUE, plan |-> "usage_based", status |-> NewestStatus,
        sub |-> Newest, price |-> TRUE]

\* What the table of cards should say.
ExpectedCards == [c \in Cards |-> IF c \notin remote.cards THEN "absent"
                                  ELSE IF c = remote.default THEN "default" ELSE "card"]

Init ==
  /\ \/ remote = NewCustomer /\ account = FreeAccount(FALSE)
     \/ remote = Prospect /\ account = FreeAccount(TRUE)
     \/ \E c \in Cards :
          /\ remote \in {Subscriber(c), Resubscriber(c, "canceled"), Resubscriber(c, "active")}
          /\ account = [linked |-> TRUE, plan |-> "usage_based", status |-> "active",
                        sub |-> Newest, price |-> TRUE]
  /\ events = <<>>
  /\ stray = {}
  /\ acked = {}
  /\ handler = [e \in EventIds |-> "none"]
  /\ billing_events = [e \in EventIds |-> "absent"]
  /\ invoices = [i \in Invoices |-> remote.invoices[i].status]
  /\ payment_methods = ExpectedCards
  /\ reconcile = NoReconcile(0)
  /\ faults = 0
  /\ applied = [e \in EventIds |-> 0]
  /\ latest = [m \in Mirrors |-> 0]
  /\ late = {}
  /\ lost = {}
  /\ astray = FALSE
  /\ cleared = FALSE

Fault == faults < MaxFaults /\ faults' = faults + 1

-----------------------------------------------------------------------------
(* The customer's side: a checkout, and what happens at Stripe.            *)

\* Stripe emits events for one of its own changes.
Emit(evs) ==
  /\ Len(events) + Len(evs) <= MaxEvents
  /\ events' = events \o evs

local == <<acked, handler, billing_events, account, invoices, payment_methods,
           reconcile, faults, history>>

\* EnsureCustomer of a checkout: the idempotency key makes it one customer.
EnsureCustomer ==
  /\ ~remote.customer
  /\ remote' = [remote EXCEPT !.customer = TRUE]
  /\ Emit(<<MakeEvent("customer.created")>>)
  /\ UNCHANGED <<local, stray>>

\* The checkout goes on only after the customer's id is stored.
SetAccountStripeCustomerID ==
  /\ remote.customer /\ ~account.linked
  /\ account' = [account EXCEPT !.linked = TRUE]
  /\ UNCHANGED <<stripe, acked, handler, billing_events, invoices, payment_methods,
                 reconcile, faults, history>>

SubscriptionEvent(sub, status) ==
  [MakeEvent("customer.subscription.updated") EXCEPT !.sub = sub, !.status = status]

\* The customer pays: a new subscription, and the end of the session, reported
\* in either order.  Neither the API nor Stripe asks whether the customer has a
\* subscription already.
CompleteCheckout ==
  /\ account.linked
  /\ remote' = [remote EXCEPT !.subs = Append(@, "active")]
  /\ LET created == SubscriptionEvent(Newest + 1, "active")
         completed == [MakeEvent("checkout.session.completed") EXCEPT !.sub = Newest + 1]
     IN Emit(<<created, completed>>) \/ Emit(<<completed, created>>)
  /\ UNCHANGED <<local, stray>>

\* The k events being emitted concern subscription s.
Strays(s, k) ==
  stray' = IF s # Newest \/ remote.subs[s] = "canceled"
           THEN stray \cup (Len(events) + 1 .. Len(events) + k) ELSE stray

CancelSubscription(s) ==
  /\ s \in 1..Newest /\ remote.subs[s] # "canceled"
  /\ remote' = [remote EXCEPT !.subs[s] = "canceled"]
  /\ Emit(<<MakeEvent("customer.subscription.deleted")>>)
  /\ Strays(s, 1)
  /\ UNCHANGED local

InvoiceEvent(type, i, sub) == [MakeEvent(type) EXCEPT !.invoice = {i}, !.sub = sub]

\* An invoice of a subscription; the last one comes after it has ended.
FinalizeInvoice(i, s) ==
  /\ s \in 1..Newest
  /\ remote.invoices[i].status = "absent"
  /\ remote' = [remote EXCEPT !.invoices[i] = [status |-> "open", sub |-> s]]
  /\ Emit(<<InvoiceEvent("invoice.finalized", i, s)>>)
  /\ UNCHANGED <<local, stray>>

\* A payment makes a subscription that was behind active again.
PayInvoice(i) ==
  LET s == remote.invoices[i].sub
      revives == remote.subs[s] = "past_due" IN
  /\ remote.invoices[i].status = "open"
  /\ remote' = [remote EXCEPT !.invoices[i].status = "paid",
                              !.subs[s] = IF revives THEN "active" ELSE @]
  /\ Emit(<<InvoiceEvent("invoice.paid", i, s)>>
          \o (IF revives THEN <<SubscriptionEvent(s, "active")>> ELSE <<>>))
  /\ Strays(s, IF revives THEN 2 ELSE 1)
  /\ UNCHANGED local

\* A payment attempt fails: a subscription that was active is behind from then on.
FailInvoice(i) ==
  LET s == remote.invoices[i].sub
      delays == remote.subs[s] = "active" IN
  /\ remote.invoices[i].status = "open"
  /\ remote' = [remote EXCEPT !.subs[s] = IF delays THEN "past_due" ELSE @]
  /\ Emit(<<InvoiceEvent("invoice.payment_failed", i, s)>>
          \o (IF delays THEN <<SubscriptionEvent(s, "past_due")>> ELSE <<>>))
  /\ Strays(s, IF delays THEN 2 ELSE 1)
  /\ UNCHANGED local

VoidInvoice(i) ==
  /\ remote.invoices[i].status = "open"
  /\ remote' = [remote EXCEPT !.invoices[i].status = "void"]
  /\ Emit(<<InvoiceEvent("invoice.voided", i, remote.invoices[i].sub)>>)
  /\ UNCHANGED <<local, stray>>

CardEvent(type, cards) == [MakeEvent(type) EXCEPT !.card = cards]

AttachCard(c) ==
  /\ account.linked
  /\ c \notin remote.cards
  /\ remote' = [remote EXCEPT !.cards = @ \cup {c}]
  /\ Emit(<<CardEvent("payment_method.attached", {c})>>)
  /\ UNCHANGED <<local, stray>>

\* Detaching the default card leaves the customer without one.
DetachCard(c) ==
  /\ c \in remote.cards
  /\ remote' = [remote EXCEPT !.cards = @ \ {c}, !.default = IF @ = c THEN NoCard ELSE @]
  /\ Emit(<<CardEvent("payment_method.detached", {c})>>
          \o (IF remote.default = c THEN <<CardEvent("customer.updated", {})>> ELSE <<>>))
  /\ UNCHANGED <<local, stray>>

SetDefaultCard(c) ==
  /\ c \in remote.cards /\ remote.default # c
  /\ remote' = [remote EXCEPT !.default = c]
  /\ Emit(<<CardEvent("customer.updated", {c})>>)
  /\ UNCHANGED <<local, stray>>

-----------------------------------------------------------------------------
(* The webhook handler.                                                    *)

\* The event with index at has reached the mirrors ms.
Reached(at, ms) ==
  /\ latest' = [m \in Mirrors |-> IF m \in ms /\ at > latest[m] THEN at ELSE latest[m]]
  /\ late' = late \cup {m \in ms : at < latest[m]}

\* No delivery of the event has been recorded.
Recordable(e) == billing_events[e] = "absent" /\ handler[e] = "none"

\* The first delivery of an event that gets as far as the insert.
RecordBillingWebhookEvent(e) ==
  /\ e \in 1..Len(events)
  /\ Recordable(e)
  /\ billing_events' = [billing_events EXCEPT ![e] = "received"]
  /\ handler' = [handler EXCEPT ![e] = IF AppliesToAccount(Msg(e)) THEN "apply"
                                       ELSE IF HasSideEffect(Msg(e)) THEN "effects"
                                       ELSE "ignore"]
  /\ UNCHANGED <<stripe, acked, account, invoices, payment_methods, reconcile, faults, history>>

\* Another delivery, after an answer other than 200: the insert conflicts, and
\* this one is answered with 200.  Sent during the handling of the first, because
\* its time ran out, it does the same and the first ends no differently.
Duplicate(e) ==
  /\ billing_events[e] # "absent" /\ handler[e] = "done"
  /\ e \notin acked
  /\ acked' = acked \cup {e}
  /\ UNCHANGED <<stripe, handler, billing_events, account, invoices, payment_methods,
                 reconcile, faults, history>>

\* Broken variant: an event without a plan blanks the account's.
ApplyAnyPlan(ev) ==
  [account EXCEPT !.plan = ev.plan, !.status = ev.status, !.sub = ev.sub, !.price = ev.price]

\* Broken variant: the subscription id of the paid plan survives a cancellation.
ApplyKeepingSub(ev) ==
  [account EXCEPT !.plan = IF ev.plan = "" THEN @ ELSE ev.plan,
                  !.status = ev.status,
                  !.sub = IF ev.sub = 0 THEN @ ELSE ev.sub,
                  !.price = ev.price]

\* The accounts row after the UPDATE of ApplyBillingEvent.
ApplyBillingEvent(ev) ==
  [account EXCEPT !.plan = IF ev.plan = "" THEN @ ELSE ev.plan,
                  !.status = ev.status,
                  !.sub = IF ev.sub = 0 /\ ev.plan # "free" THEN @ ELSE ev.sub,
                  !.price = ev.price]

ApplyEvent(e) ==
  /\ handler[e] = "apply"
  /\ account' = ApplyBillingEvent(Msg(e))
  /\ handler' = [handler EXCEPT ![e] = IF HasSideEffect(Msg(e)) THEN "effects" ELSE "mark"]
  /\ applied' = [applied EXCEPT ![e] = @ + 1]
  /\ Reached(e, {"account"})
  /\ astray' = IF Msg(e).plan = "" THEN astray ELSE (e \in stray)
  /\ UNCHANGED <<stripe, acked, billing_events, invoices, payment_methods, reconcile,
                 faults, lost, cleared>>

Lose(e, ms) == lost' = lost \cup ({e} \X ms)

\* Broken variant: the error is logged only.
ApplyErrorLogged(e) ==
  /\ handler[e] = "apply"
  /\ Fault
  /\ handler' = [handler EXCEPT ![e] = "mark"]
  /\ Lose(e, Targets(Msg(e)))
  /\ UNCHANGED <<stripe, acked, billing_events, account, invoices, payment_methods,
                 reconcile, applied, latest, late, astray, cleared>>

\* The UPDATE fails: the event is to be marked failed and answered with 500.
ApplyEventFails(e) ==
  /\ handler[e] = "apply"
  /\ Fault
  /\ handler' = [handler EXCEPT ![e] = "reject"]
  /\ Lose(e, Targets(Msg(e)))
  /\ UNCHANGED <<stripe, acked, billing_events, account, invoices, payment_methods,
                 reconcile, applied, latest, late, astray, cleared>>

MarkFailed(e) ==
  /\ handler[e] = "reject"
  /\ billing_events' = [billing_events EXCEPT ![e] = "failed"]
  /\ handler' = [handler EXCEPT ![e] = "done"]
  /\ UNCHANGED <<stripe, acked, account, invoices, payment_methods, reconcile, faults, history>>

\* A stored card keeps its default flag; a new one has none.
UpsertPaymentMethod(table, cards) ==
  [c \in Cards |-> IF c \in cards /\ table[c] = "absent" THEN "card" ELSE table[c]]

\* Broken variant: the flag is set on the new default and left on the old one.
SetOnlyTheNew(table, default) ==
  [c \in Cards |-> IF table[c] # "absent" /\ c = default THEN "default" ELSE table[c]]

\* Every stored card's flag is recomputed.
SetDefaultPaymentMethod(table, default) ==
  [c \in Cards |-> IF table[c] = "absent" THEN "absent"
                   ELSE IF c = default THEN "default" ELSE "card"]

\* Broken variant: a detached card stays.
CardsKept(ev) ==
  LET upserted == UpsertPaymentMethod(payment_methods, ev.method)
  IN IF ev.setsDefault THEN SetDefaultPaymentMethod(upserted, ev.default) ELSE upserted

\* The cards after an event's side effects.
CardsAfter(ev) ==
  LET upserted == UpsertPaymentMethod(payment_methods, ev.method)
      deleted == [c \in Cards |-> IF c \in ev.deleted THEN "absent" ELSE upserted[c]]
  IN IF ev.setsDefault THEN SetDefaultPaymentMethod(deleted, ev.default) ELSE deleted

\* Broken variant: an invoice that is stored already keeps its status.
UpsertNewInvoice(table, found) ==
  [i \in Invoices |-> IF i \in {f.id : f \in found} /\ table[i] = "absent"
                      THEN (CHOOSE f \in found : f.id = i).status ELSE table[i]]

UpsertInvoice(table, found) ==
  [i \in Invoices |-> IF i \in {f.id : f \in found}
                      THEN (CHOOSE f \in found : f.id = i).status ELSE table[i]]

\* One statement: an event has one side effect.  Stripe has no invoice or card
\* of a customer whose id is not stored, so the statement matches the account.
applyWebhookSideEffects(e) ==
  /\ handler[e] = "effects"
  /\ invoices' = UpsertInvoice(invoices, Msg(e).invoice)
  /\ payment_methods' = CardsAfter(Msg(e))
  /\ handler' = [handler EXCEPT ![e] = "mark"]
  /\ Reached(e, Targets(Msg(e)) \ {"account"})
  /\ cleared' = (cleared /\ ~Msg(e).setsDefault)
  /\ UNCHANGED <<stripe, acked, billing_events, account, reconcile, faults, applied,
                 lost, astray>>

\* The statement fails: logged, and the event is processed all the same.
SideEffectFails(e) ==
  /\ handler[e] = "effects"
  /\ Fault
  /\ handler' = [handler EXCEPT ![e] = "mark"]
  /\ Lose(e, Targets(Msg(e)) \ {"account"})
  /\ UNCHANGED <<stripe, acked, billing_events, account, invoices, payment_methods,
                 reconcile, applied, latest, late, astray, cleared>>

\* MarkBillingWebhookEventProcessed, and 200.
MarkProcessed(e) ==
  /\ handler[e] \in {"mark", "ignore"}
  /\ billing_events' = [billing_events EXCEPT
                          ![e] = IF handler[e] = "mark" THEN "processed" ELSE "ignored"]
  /\ handler' = [handler EXCEPT ![e] = "done"]
  /\ acked' = acked \cup {e}
  /\ UNCHANGED <<stripe, account, invoices, payment_methods, reconcile, faults, history>>

\* The mark fails and the answer is 500; or the process dies here or earlier.
HandlerCrash(e) ==
  /\ handler[e] \notin {"none", "done"}
  /\ Fault
  /\ handler' = [handler EXCEPT ![e] = "done"]
  /\ Lose(e, CASE handler[e] \in {"apply", "reject"} -> Targets(Msg(e))
               [] handler[e] = "effects" -> Targets(Msg(e)) \ {"account"}
               [] OTHER -> {})
  /\ UNCHANGED <<stripe, acked, billing_events, account, invoices, payment_methods,
                 reconcile, applied, latest, late, astray, cleared>>

\* The API is out of reach for as long as Stripe tries.
StripeGivesUp(e) ==
  /\ e \in 1..Len(events)
  /\ billing_events[e] = "absent" /\ handler[e] = "none"
  /\ Fault
  /\ handler' = [handler EXCEPT ![e] = "done"]
  /\ Lose(e, Targets(Msg(e)))
  /\ UNCHANGED <<stripe, acked, billing_events, account, invoices, payment_methods,
                 reconcile, applied, latest, late, astray, cleared>>

-----------------------------------------------------------------------------
(* Reconciliation, with apply.                                             *)

web == <<stripe, acked, handler, billing_events, applied>>
tables == <<account, invoices, payment_methods>>
shown == <<latest, late, lost, astray, cleared>>

\* ListStripeLinkedAccounts or GetAccount: the account as compared later.
ReadAccount ==
  /\ reconcile.pc = "idle" /\ reconcile.count < MaxReconciles
  /\ account.linked
  /\ reconcile' = [reconcile EXCEPT !.pc = "fetch", !.count = @ + 1, !.local = account]
  /\ UNCHANGED <<web, tables, faults, shown>>

\* The newest subscription, whatever its status; without one, the free plan.
FetchedState ==
  IF NewestStatus = "none" THEN [Parsed EXCEPT !.plan = "free", !.status = "free"]
  ELSE providerEventFromPrice(Newest, NewestStatus)

FetchBillingState ==
  /\ reconcile.pc = "fetch"
  /\ reconcile' = [reconcile EXCEPT
       !.pc = "listInvoices", !.at = Len(events),
       !.fetched = [linked |-> TRUE, plan |-> FetchedState.plan, status |-> FetchedState.status,
                    sub |-> FetchedState.sub, price |-> FetchedState.price]]
  /\ UNCHANGED <<web, tables, faults, shown>>

\* A mirror written from what Stripe said when it had emitted the events up to at.
Refreshed(ms, at) ==
  /\ latest' = [m \in Mirrors |-> IF m \in ms /\ at > latest[m] THEN at ELSE latest[m]]
  /\ late' = {m \in late : m \notin ms} \cup {m \in ms : at < latest[m]}
  /\ lost' = {l \in lost : ~(l[2] \in ms /\ l[1] <= at)}

\* Where a loop over a list goes on.
Looping(rest, body, next) == IF rest = {} THEN next ELSE body

\* The first half of backfillInvoices: the list is fetched.
ListRemoteInvoices ==
  LET listed == {[id |-> i, status |-> remote.invoices[i].status] :
                   i \in {i \in Invoices : remote.invoices[i].status # "absent"}} IN
  /\ reconcile.pc = "listInvoices"
  /\ reconcile' = [reconcile EXCEPT !.pc = Looping(listed, "invoices", "listCards"),
                                    !.invoices = listed, !.listedAt = Len(events)]
  /\ UNCHANGED <<web, tables, faults, shown>>

\* The second: each listed invoice is written as it was listed, whatever a webhook
\* has made of it since; a failed statement is logged.
backfillInvoice(f) ==
  LET rest == reconcile.invoices \ {f} IN
  /\ reconcile.pc = "invoices" /\ f \in reconcile.invoices
  /\ \/ /\ invoices' = UpsertInvoice(invoices, {f})
        /\ Refreshed({f.id}, reconcile.listedAt)
        /\ UNCHANGED faults
     \/ Fault /\ UNCHANGED <<invoices, latest, late, lost>>
  /\ reconcile' = [reconcile EXCEPT !.pc = Looping(rest, "invoices", "listCards"),
                                    !.invoices = rest]
  /\ UNCHANGED <<web, account, payment_methods, astray, cleared>>

\* ListRemotePaymentMethods asks for the cards, and then for the customer.
ListRemoteCards ==
  /\ reconcile.pc = "listCards"
  /\ reconcile' = [reconcile EXCEPT !.pc = "readDefault", !.listedAt = Len(events),
                                    !.cards = remote.cards, !.rest = remote.cards]
  /\ UNCHANGED <<web, tables, faults, shown>>

\* When the customer cannot be read there is no error, and no default.
ReadDefault ==
  /\ reconcile.pc = "readDefault"
  /\ \E unread \in BOOLEAN :
       /\ IF unread THEN Fault ELSE UNCHANGED faults
       /\ reconcile' = [reconcile EXCEPT !.pc = Looping(reconcile.cards, "cards", "setDefault"),
                                         !.default = IF unread THEN NoCard ELSE remote.default,
                                         !.defaultAt = Len(events), !.unread = unread]
  /\ UNCHANGED <<web, tables, shown>>

\* Each listed card is written, or logged; one detached since is put back.
backfillPaymentMethod(c) ==
  LET rest == reconcile.rest \ {c} IN
  /\ reconcile.pc = "cards" /\ c \in reconcile.rest
  /\ \/ /\ payment_methods' = UpsertPaymentMethod(payment_methods, {c})
        /\ late' = IF payment_methods[c] = "absent" /\ reconcile.listedAt < latest["cards"]
                   THEN late \cup {"cards"} ELSE late
        /\ UNCHANGED faults
     \/ Fault /\ UNCHANGED <<payment_methods, late>>
  /\ reconcile' = [reconcile EXCEPT !.pc = Looping(rest, "cards", "setDefault"), !.rest = rest]
  /\ UNCHANGED <<web, account, invoices, latest, lost, astray, cleared>>

\* The table shows the cards that were listed, and no other: a detached card is not
\* removed by a backfill.
ShowsListed == reconcile.cards = {c \in Cards : payment_methods[c] # "absent"}

\* The default is written last, even the one that could not be read; a failed
\* statement is logged.
backfillDefault ==
  /\ reconcile.pc = "setDefault"
  /\ \/ /\ payment_methods' = SetDefaultPaymentMethod(payment_methods, reconcile.default)
        /\ cleared' = reconcile.unread
        /\ IF ShowsListed
           THEN Refreshed({"cards"}, reconcile.listedAt)
           ELSE /\ late' = IF reconcile.defaultAt < latest["cards"]
                           THEN late \cup {"cards"} ELSE late
                /\ UNCHANGED <<latest, lost>>
        /\ UNCHANGED faults
     \/ Fault /\ UNCHANGED <<payment_methods, cleared, latest, late, lost>>
  /\ reconcile' = [reconcile EXCEPT !.pc = "compare", !.cards = {}, !.listedAt = 0,
                                    !.default = NoCard, !.defaultAt = 0, !.unread = FALSE]
  /\ UNCHANGED <<web, account, invoices, astray>>

\* A listing fails and is skipped, with a warning in the log.
ListingFails ==
  /\ reconcile.pc \in {"listInvoices", "listCards"}
  /\ Fault
  /\ reconcile' = [reconcile EXCEPT !.pc = IF @ = "listInvoices" THEN "listCards" ELSE "compare",
                                    !.listedAt = 0]
  /\ UNCHANGED <<web, tables, shown>>

Differs == reconcile.local # reconcile.fetched

\* The comparison is with the account as it was read.
reconcileAccount ==
  /\ reconcile.pc = "compare"
  /\ IF Differs
     THEN /\ account' = ApplyBillingEvent(reconcile.fetched)
          /\ astray' = (reconcile.fetched.status = "canceled")
          /\ Refreshed({"account"}, reconcile.at)
     ELSE /\ IF account = reconcile.local
             THEN /\ astray' = (reconcile.fetched.status = "canceled")
                  /\ Refreshed({"account"}, reconcile.at)
             ELSE UNCHANGED <<latest, late, lost, astray>>
          /\ UNCHANGED account
  /\ reconcile' = NoReconcile(reconcile.count)
  /\ UNCHANGED <<web, invoices, payment_methods, faults, cleared>>

\* The fetch or the write fails, or the process dies.
ReconcileFails ==
  /\ reconcile.pc # "idle"
  /\ Fault
  /\ reconcile' = NoReconcile(reconcile.count)
  /\ UNCHANGED <<web, tables, shown>>

-----------------------------------------------------------------------------

Stripe ==
  \/ EnsureCustomer \/ SetAccountStripeCustomerID \/ CompleteCheckout
  \/ \E s \in 1..Newest : CancelSubscription(s) \/ \E i \in Invoices : FinalizeInvoice(i, s)
  \/ \E i \in Invoices : PayInvoice(i) \/ FailInvoice(i) \/ VoidInvoice(i)
  \/ \E c \in Cards : AttachCard(c) \/ DetachCard(c) \/ SetDefaultCard(c)

HandleWebhook(e) ==
  \/ RecordBillingWebhookEvent(e) \/ Duplicate(e) \/ ApplyEvent(e) \/ ApplyEventFails(e)
  \/ MarkFailed(e) \/ applyWebhookSideEffects(e) \/ SideEffectFails(e) \/ MarkProcessed(e)
  \/ HandlerCrash(e) \/ StripeGivesUp(e)

ReconcileStep ==
  \/ ReadAccount \/ FetchBillingState \/ ListRemoteInvoices
  \/ (\E f \in reconcile.invoices : backfillInvoice(f))
  \/ ListRemoteCards \/ ReadDefault \/ (\E c \in Cards : backfillPaymentMethod(c))
  \/ backfillDefault \/ ListingFails \/ reconcileAccount \/ ReconcileFails

Next == Stripe \/ (\E e \in EventIds : HandleWebhook(e)) \/ ReconcileStep

Spec == Init /\ [][Next]_vars

-----------------------------------------------------------------------------
(* Properties.                                                             *)

\* Nothing is under way: every event emitted so far has been dealt with.
Quiet == (\A e \in 1..Len(events) : handler[e] = "done") /\ reconcile.pc = "idle"

InStep(m) == m \notin late /\ \A l \in lost : l[2] # m

\* The end of a checkout session says nothing of its subscription: applied after
\* the subscription's own event it leaves the status pending and no price.
Pending(a) == [a EXCEPT !.status = "checkout_pending", !.price = FALSE]

\* Once everything is handled the account says what Stripe says of the newest
\* subscription, unless an event that concerns it was overtaken by a newer one or
\* lost, or the last word was a stray one: the event of a subscription that had
\* ended or is not the newest (with two subscriptions at once the end of one sets
\* the account to the free plan), or a reconciliation that found the newest one
\* ended.  A reconciliation that nothing disturbs makes good what was lost before.
AccountFollowsStripe ==
  Quiet /\ InStep("account") /\ ~astray => account \in {Expected, Pending(Expected)}

\* An invoice is shown with the status it has at Stripe, unless one of its
\* events was overtaken or lost, or a backfill overwrote a newer event with what
\* it had listed before; a backfill that is not late makes good what was lost.
InvoicesFollowStripe ==
  Quiet => \A i \in Invoices : InStep(i) => invoices[i] = remote.invoices[i].status

\* The cards shown are those the customer has, unless an event about cards was
\* overtaken or lost, or a backfill put back what it had listed before a newer
\* event; and so is the default, unless a backfill that could not read the
\* default has cleared it and no newer event has set it.
CardsFollowStripe ==
  Quiet /\ InStep("cards") =>
    \A c \in Cards :
      /\ payment_methods[c] = "absent" <=> ExpectedCards[c] = "absent"
      /\ ~cleared => payment_methods[c] = ExpectedCards[c]

\* However the events about cards arrive, one card at most is the default.
OneDefaultCard ==
  Cardinality({c \in Cards : payment_methods[c] = "default"}) <= 1

\* However often an event is delivered it changes the account once; and one that
\* was answered with 200 and should have changed it, but has not, is on record as
\* received or failed: nothing that is lost on this side looks processed.
AppliedOnceOrOnRecord ==
  \A e \in 1..Len(events) :
    /\ applied[e] <= 1
    /\ e \in acked /\ AppliesToAccount(Msg(e)) /\ applied[e] = 0
         => billing_events[e] \in {"received", "failed"}

\* An event whose application failed stays with Stripe: its 500 is to bring a
\* retry that applies it, as a test of the HTTP handler says, and not a 200.
FailedIsRetried == \A e \in EventIds : billing_events[e] = "failed" => e \notin acked

=============================================================================
