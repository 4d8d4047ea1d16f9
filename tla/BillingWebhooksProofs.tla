------------------------ MODULE BillingWebhooksProofs ------------------------
(***************************************************************************)
(* Proofs about BillingWebhooks, for every set of invoices and cards and   *)
(* any number of events, reconciliations and faults.  Base is what every   *)
(* other invariant rests on: the types, what Stripe's events look like,    *)
(* and where the handler of an event can be.  Delivery adds what has       *)
(* reached each mirror.  On that rest, for invoices, cards and the account,*)
(* two statements each: the last event about it says what Stripe says; and *)
(* a mirror that every event before the newest it has seen has reached     *)
(* shows it, unless a newer event is still to come.                        *)
(***************************************************************************)
EXTENDS BillingWebhooks, FiniteSetTheorems, SequenceTheorems, TLAPS

InvoiceTypes == {"invoice.finalized", "invoice.paid", "invoice.payment_failed", "invoice.voided"}

\* The types of the events about a subscription that is not over.
LivingTypes == {"checkout.session.completed", "customer.subscription.updated", "invoice.paid",
                "invoice.payment_failed"}

\* The invoice status that an event of a type carries.
StatusIn(type) ==
  IF type = "invoice.paid" THEN "paid" ELSE IF type = "invoice.voided" THEN "void" ELSE "open"

\* The events Stripe emits: an update names a living subscription, and the events of
\* invoices, no others, are about one invoice.
SoundEvent(ev) ==
  /\ ev \in Event
  /\ ev.type = "customer.subscription.updated" => ev.status # "none"
  /\ ev.type \in LivingTypes => ev.sub # 0
  /\ ev.type \in InvoiceTypes => \E i \in Invoices : ev.invoice = {i}
  /\ ev.type \notin InvoiceTypes => ev.invoice = {}

About(ev, i) == ev.type \in InvoiceTypes /\ ev.invoice = {i}

-----------------------------------------------------------------------------
(* What the API makes of an event.                                         *)

\* What a parsed event says of the account, by the type of the event: the plan,
LEMMA ParsedPlan ==
  ASSUME NEW ev, SoundEvent(ev)
  PROVE ParseWebhook(ev).plan =
          IF ev.type \in LivingTypes \ {"checkout.session.completed"} THEN "usage_based"
          ELSE IF ev.type = "customer.subscription.deleted" THEN "free" ELSE ""
<1> USE DEF LivingTypes
<1>1. ev.type \in EventTypes
  BY DEF SoundEvent, Event
<1>3. CASE ev.type \in {"customer.created", "checkout.session.completed",
                        "customer.subscription.updated", "customer.subscription.deleted"}
  BY <1>3 DEF ParseWebhook, Parsed, providerEventFromPrice
<1>4. CASE ev.type \in {"invoice.finalized", "invoice.paid", "invoice.payment_failed",
                        "invoice.voided"}
  BY <1>4 DEF ParseWebhook, Parsed, providerEventFromPrice
<1>5. CASE ev.type \in {"payment_method.attached", "payment_method.detached",
                        "customer.updated"}
  BY <1>5 DEF ParseWebhook, Parsed, providerEventFromPrice
<1> QED
  BY <1>1, <1>3, <1>4, <1>5 DEF EventTypes

\* the status,
LEMMA ParsedStatus ==
  ASSUME NEW ev, SoundEvent(ev)
  PROVE ParseWebhook(ev).status =
          CASE ev.type = "checkout.session.completed" -> "checkout_pending"
            [] ev.type = "customer.subscription.updated" -> ev.status
            [] ev.type = "customer.subscription.deleted" -> "free"
            [] ev.type = "invoice.paid" -> "active"
            [] ev.type = "invoice.payment_failed" -> "past_due"
            [] OTHER -> ""
<1> USE DEF LivingTypes
<1>1. ev.type \in EventTypes
  BY DEF SoundEvent, Event
<1>3. CASE ev.type \in {"customer.created", "checkout.session.completed",
                        "customer.subscription.updated", "customer.subscription.deleted"}
  BY <1>3 DEF ParseWebhook, Parsed, providerEventFromPrice
<1>4. CASE ev.type \in {"invoice.finalized", "invoice.paid", "invoice.payment_failed",
                        "invoice.voided"}
  BY <1>4 DEF ParseWebhook, Parsed, providerEventFromPrice
<1>5. CASE ev.type \in {"payment_method.attached", "payment_method.detached",
                        "customer.updated"}
  BY <1>5 DEF ParseWebhook, Parsed, providerEventFromPrice
<1> QED
  BY <1>1, <1>3, <1>4, <1>5 DEF EventTypes

\* the subscription,
LEMMA ParsedSub ==
  ASSUME NEW ev, SoundEvent(ev)
  PROVE ParseWebhook(ev).sub = IF ev.type \in LivingTypes THEN ev.sub ELSE 0
<1> USE DEF LivingTypes
<1>1. ev.type \in EventTypes
  BY DEF SoundEvent, Event
<1>3. CASE ev.type \in {"customer.created", "checkout.session.completed",
                        "customer.subscription.updated", "customer.subscription.deleted"}
  BY <1>3 DEF ParseWebhook, Parsed, providerEventFromPrice
<1>4. CASE ev.type \in {"invoice.finalized", "invoice.paid", "invoice.payment_failed",
                        "invoice.voided"}
  BY <1>4 DEF ParseWebhook, Parsed, providerEventFromPrice
<1>5. CASE ev.type \in {"payment_method.attached", "payment_method.detached",
                        "customer.updated"}
  BY <1>5 DEF ParseWebhook, Parsed, providerEventFromPrice
<1> QED
  BY <1>1, <1>3, <1>4, <1>5 DEF EventTypes

\* and the price, which the paid plan has and no other.
LEMMA ParsedPrice ==
  ASSUME NEW ev, SoundEvent(ev)
  PROVE ParseWebhook(ev).price = (ParseWebhook(ev).plan = "usage_based")
<1>1. ev.type \in EventTypes
  BY DEF SoundEvent, Event
<1>3. CASE ev.type \in {"customer.created", "checkout.session.completed",
                        "customer.subscription.updated", "customer.subscription.deleted"}
  BY <1>3 DEF ParseWebhook, Parsed, providerEventFromPrice
<1>4. CASE ev.type \in {"invoice.finalized", "invoice.paid", "invoice.payment_failed",
                        "invoice.voided"}
  BY <1>4 DEF ParseWebhook, Parsed, providerEventFromPrice
<1>5. CASE ev.type \in {"payment_method.attached", "payment_method.detached",
                        "customer.updated"}
  BY <1>5 DEF ParseWebhook, Parsed, providerEventFromPrice
<1> QED
  BY <1>1, <1>3, <1>4, <1>5 DEF EventTypes

\* The account's part of a parsed event is well typed.
LEMMA ParsedType ==
  ASSUME NEW ev, SoundEvent(ev)
  PROVE /\ ParseWebhook(ev).plan \in {"", "free", "usage_based"}
        /\ ParseWebhook(ev).sub \in Nat
        /\ AppliesToAccount(ParseWebhook(ev)) <=>
             ev.type \in LivingTypes \cup {"customer.subscription.deleted"}
        /\ AppliesToAccount(ParseWebhook(ev)) =>
             ParseWebhook(ev).status \in {"free", "checkout_pending", "active", "past_due"}
<1> DEFINE m == ParseWebhook(ev)
<1>1. ev.sub \in Nat /\ ev.status \in {"none", "active", "past_due"}
  BY DEF SoundEvent, Event
<1>2. ev.type = "customer.subscription.updated" => ev.status \in {"active", "past_due"}
  BY <1>1 DEF SoundEvent
<1>4. m.plan \in {"", "free", "usage_based"}
  BY ParsedPlan
<1>5. m.sub \in Nat
  BY <1>1, ParsedSub
<1>6. CASE ev.type \in LivingTypes \cup {"customer.subscription.deleted"}
  <2>1. m.plan # "" \/ ev.type = "checkout.session.completed"
    BY <1>6, ParsedPlan
  <2>2. m.status \in {"free", "checkout_pending", "active", "past_due"}
    BY <1>2, <1>6, ParsedStatus DEF LivingTypes
  <2>3. ev.type = "checkout.session.completed" => m.status = "checkout_pending"
    BY ParsedStatus
  <2>4. AppliesToAccount(m)
    BY <2>1, <2>3 DEF AppliesToAccount
  <2> QED
    BY <1>4, <1>5, <1>6, <2>2, <2>4, Zenon
<1>7. CASE ev.type \notin LivingTypes \cup {"customer.subscription.deleted"}
  <2>1. m.plan = ""
    BY <1>7, ParsedPlan
  <2>2. m.status = ""
    BY <1>7, ParsedStatus DEF LivingTypes
  <2>3. ~AppliesToAccount(m)
    BY <2>1, <2>2 DEF AppliesToAccount
  <2> QED
    BY <1>4, <1>5, <1>7, <2>3, Zenon
<1> QED
  BY <1>6, <1>7, Zenon

\* The invoice of a parsed event.
LEMMA ParsedInvoice ==
  ASSUME NEW ev, SoundEvent(ev)
  PROVE ParseWebhook(ev).invoice =
          IF ev.type \in InvoiceTypes THEN InvoiceAs(ev, StatusIn(ev.type)) ELSE {}
<1> USE DEF InvoiceTypes, StatusIn
<1>1. ev.type \in EventTypes
  BY DEF SoundEvent, Event
<1>3. CASE ev.type \in {"customer.created", "checkout.session.completed",
                        "customer.subscription.updated", "customer.subscription.deleted"}
  BY <1>3 DEF ParseWebhook, Parsed, providerEventFromPrice
<1>4. CASE ev.type \in {"invoice.finalized", "invoice.paid", "invoice.payment_failed",
                        "invoice.voided"}
  BY <1>4 DEF ParseWebhook, Parsed, providerEventFromPrice
<1>5. CASE ev.type \in {"payment_method.attached", "payment_method.detached",
                        "customer.updated"}
  BY <1>5 DEF ParseWebhook, Parsed, providerEventFromPrice
<1> QED
  BY <1>1, <1>3, <1>4, <1>5 DEF EventTypes

\* What a parsed event says of the cards.
LEMMA ParsedCards ==
  ASSUME NEW ev, SoundEvent(ev)
  PROVE /\ ParseWebhook(ev).method = IF ev.type = "payment_method.attached" THEN ev.card ELSE {}
        /\ ParseWebhook(ev).deleted = IF ev.type = "payment_method.detached" THEN ev.card ELSE {}
        /\ ParseWebhook(ev).setsDefault = (ev.type = "customer.updated")
        /\ ParseWebhook(ev).default =
             IF ev.type = "customer.updated" THEN DefaultOf(ev.card) ELSE NoCard
<1>1. ev.type \in EventTypes
  BY DEF SoundEvent, Event
<1>3. CASE ev.type \in {"customer.created", "checkout.session.completed",
                        "customer.subscription.updated", "customer.subscription.deleted"}
  BY <1>3 DEF ParseWebhook, Parsed, providerEventFromPrice
<1>4. CASE ev.type \in {"invoice.finalized", "invoice.paid", "invoice.payment_failed",
                        "invoice.voided"}
  BY <1>4 DEF ParseWebhook, Parsed, providerEventFromPrice
<1>5. CASE ev.type \in {"payment_method.attached", "payment_method.detached",
                        "customer.updated"}
  BY <1>5 DEF ParseWebhook, Parsed, providerEventFromPrice
<1> QED
  BY <1>1, <1>3, <1>4, <1>5 DEF EventTypes

\* An event about an invoice has that invoice and no other as its target and as
\* its side effect.
LEMMA ParsedAbout ==
  ASSUME NEW ev, SoundEvent(ev), NEW i \in Invoices
  PROVE /\ About(ev, i) => ParseWebhook(ev).invoice = {[id |-> i, status |-> StatusIn(ev.type)]}
        /\ i \in Targets(ParseWebhook(ev)) <=> About(ev, i)
<1>1. ParseWebhook(ev).invoice =
        IF ev.type \in InvoiceTypes THEN InvoiceAs(ev, StatusIn(ev.type)) ELSE {}
  BY ParsedInvoice
<1>2. i # "account" /\ i # "cards"
  BY InvoicesAssumption
<1>3. CASE ev.type \notin InvoiceTypes
  BY <1>1, <1>2, <1>3 DEF About, Targets
<1>4. CASE ev.type \in InvoiceTypes
  <2>1. PICK x \in Invoices : ev.invoice = {x}
    BY <1>4 DEF SoundEvent
  <2>2. ParseWebhook(ev).invoice = {[id |-> x, status |-> StatusIn(ev.type)]}
    BY <1>1, <1>4, <2>1 DEF InvoiceAs
  <2>4. {n.id : n \in ParseWebhook(ev).invoice} = {x}
    BY <2>2
  <2>5. i \in Targets(ParseWebhook(ev)) <=> i = x
    BY <1>2, <2>4 DEF Targets
  <2>6. About(ev, i) <=> i = x
    BY <1>4, <2>1 DEF About
  <2> QED
    BY <2>2, <2>5, <2>6
<1> QED
  BY <1>3, <1>4

\* The mirrors an event targets; with no side effect it targets the account at most.
LEMMA TargetsAre ==
  ASSUME NEW ev, SoundEvent(ev)
  PROVE /\ Targets(ParseWebhook(ev)) \subseteq Mirrors
        /\ "account" \in Targets(ParseWebhook(ev)) <=> AppliesToAccount(ParseWebhook(ev))
        /\ ~HasSideEffect(ParseWebhook(ev)) => Targets(ParseWebhook(ev)) \subseteq {"account"}
        /\ "cards" \in Targets(ParseWebhook(ev)) <=>
             HasSideEffect(ParseWebhook(ev)) /\ ParseWebhook(ev).invoice = {}
<1>1. "account" \notin Invoices /\ "cards" \notin Invoices
  BY InvoicesAssumption
<1>2. \/ ParseWebhook(ev).invoice = {}
      \/ \E x \in Invoices : \E s : ParseWebhook(ev).invoice = {[id |-> x, status |-> s]}
  <2>1. CASE ev.type \notin InvoiceTypes
    BY <2>1, ParsedInvoice
  <2>2. CASE ev.type \in InvoiceTypes
    <3>1. PICK x \in Invoices : ev.invoice = {x}
      BY <2>2 DEF SoundEvent
    <3>2. ParseWebhook(ev).invoice = {[id |-> x, status |-> StatusIn(ev.type)]}
      BY <2>2, <3>1, ParsedInvoice DEF InvoiceAs
    <3> QED
      BY <3>2
  <2> QED
    BY <2>1, <2>2
<1>3. \A y \in {n.id : n \in ParseWebhook(ev).invoice} : y \in Invoices
  BY <1>2
<1>4. ~HasSideEffect(ParseWebhook(ev)) => ParseWebhook(ev).invoice = {}
  BY DEF HasSideEffect
<1> QED
  BY <1>1, <1>3, <1>4 DEF Targets, Mirrors

-----------------------------------------------------------------------------
(* The invariant that the others rest on.                                  *)

\* An event is recorded by the handler that has it in hand, has changed the account
\* once if that is behind it, and is on record as received until it is marked.
Placed(e) ==
  /\ handler[e] # "none" => e \in 1..Len(events)
  /\ handler[e] = "none" => billing_events[e] = "absent"
  /\ billing_events[e] = "absent" => handler[e] \in {"none", "done"}
  /\ handler[e] \in {"apply", "reject", "effects", "mark", "ignore"} =>
       billing_events[e] = "received"
  /\ applied[e] \in {0, 1}
  /\ handler[e] \in {"none", "apply", "reject"} => applied[e] = 0
  /\ handler[e] = "apply" => AppliesToAccount(Msg(e))
  /\ handler[e] \in {"effects", "mark"} /\ AppliesToAccount(Msg(e)) => applied[e] = 1
  /\ handler[e] = "ignore" => ~AppliesToAccount(Msg(e)) /\ ~HasSideEffect(Msg(e))
  /\ billing_events[e] \in {"processed", "ignored"} /\ AppliesToAccount(Msg(e)) =>
       applied[e] = 1
  /\ e \in acked => billing_events[e] # "absent"

\* An open invoice is one of a subscription, and the default card is a saved one.
RemoteSound ==
  /\ \A i \in Invoices : remote.invoices[i].status = "open" => remote.invoices[i].sub \in 1..Newest
  /\ remote.default = NoCard \/ remote.default \in remote.cards

\* Two cards are not both the default.
SingleDefault ==
  \A c, d \in Cards : payment_methods[c] = "default" /\ payment_methods[d] = "default" => c = d

SoundEvents == \A k \in 1..Len(events) : SoundEvent(events[k])

Base ==
  /\ TypeOK
  /\ RemoteSound
  /\ SoundEvents
  /\ \A e \in EventIds : Placed(e)
  /\ SingleDefault

\* The newest subscription is the last one, and has a status of its own.
LEMMA NewestIs ==
  ASSUME remote \in Remote
  PROVE /\ Newest \in Nat /\ (Newest = 0 <=> NewestStatus = "none")
        /\ NewestStatus \in {"none"} \cup SubscriptionStatus
        /\ Newest # 0 => NewestStatus = remote.subs[Newest] /\ Newest \in 1..Newest
        /\ \A s \in 1..Newest : remote.subs[s] \in SubscriptionStatus
<1>1. remote.subs \in Seq(SubscriptionStatus)
  BY DEF Remote
<1>2. /\ Newest \in Nat /\ (remote.subs = <<>> <=> Newest = 0)
      /\ \A s \in 1..Newest : remote.subs[s] \in SubscriptionStatus
  BY <1>1, EmptySeq, LenProperties, ElementOfSeq DEF Newest
<1>3. "none" \notin SubscriptionStatus
  BY DEF SubscriptionStatus
<1>4. Newest # 0 => Newest \in 1..Newest
  BY <1>2
<1> QED
  BY <1>2, <1>3, <1>4 DEF NewestStatus

\* What the base says of the initial state.
LEMMA BaseInit == Init => Base
<1> SUFFICES ASSUME Init PROVE Base
  OBVIOUS
<1>2. FreeAccount(FALSE) \in Account /\ FreeAccount(TRUE) \in Account
  BY DEF FreeAccount, Account
<1>3. remote \in Remote /\ RemoteSound
  <2>1. [i \in Invoices |-> NoInvoice] \in [Invoices -> [status : InvoiceStatus, sub : Nat]]
    BY DEF NoInvoice, InvoiceStatus
  <2>2. [i \in Invoices |-> [status |-> "open", sub |-> 1]]
          \in [Invoices -> [status : InvoiceStatus, sub : Nat]]
    BY DEF InvoiceStatus
  <2>6. /\ <<>> \in Seq(SubscriptionStatus) /\ <<"active">> \in Seq(SubscriptionStatus)
        /\ <<"active", "active">> \in Seq(SubscriptionStatus)
        /\ <<"canceled", "active">> \in Seq(SubscriptionStatus)
    BY DEF SubscriptionStatus
  <2>3. CASE remote = NewCustomer
    BY <2>1, <2>3, <2>6 DEF NewCustomer, NoInvoice, Remote, RemoteSound
  <2>7. CASE remote = Prospect
    BY <2>1, <2>7, <2>6 DEF Prospect, NewCustomer, NoInvoice, Remote, RemoteSound
  <2>4. ASSUME NEW c \in Cards, remote = Subscriber(c) PROVE remote \in Remote /\ RemoteSound
    BY <2>1, <2>4, <2>6 DEF Subscriber, NoInvoice, Remote, RemoteSound
  <2>5. ASSUME NEW c \in Cards, NEW first \in {"canceled", "active"},
               remote = Resubscriber(c, first)
        PROVE remote \in Remote /\ RemoteSound
    <3>1. remote = [customer |-> TRUE, subs |-> <<first, "active">>,
                    invoices |-> [i \in Invoices |-> [status |-> "open", sub |-> 1]],
                    cards |-> {c}, default |-> c]
      BY <2>5 DEF Subscriber, Resubscriber
    <3>2. /\ Newest = 2 /\ remote.default = c /\ remote.cards = {c}
          /\ \A i \in Invoices : remote.invoices[i].sub = 1
      BY <3>1 DEF Newest
    <3>3. remote \in Remote
      BY <2>2, <2>6, <3>1 DEF Remote
    <3> QED
      BY <3>2, <3>3 DEF RemoteSound
  <2> QED
    BY <2>3, <2>7, <2>4, <2>5 DEF Init
<1>4. account \in Account
  <2>1. Newest \in Nat
    BY <1>3, NewestIs
  <2>2. [linked |-> TRUE, plan |-> "usage_based", status |-> "active", sub |-> Newest,
         price |-> TRUE] \in Account
    BY <2>1 DEF Account
  <2>3. \/ account = FreeAccount(FALSE) \/ account = FreeAccount(TRUE)
        \/ account = [linked |-> TRUE, plan |-> "usage_based", status |-> "active",
                      sub |-> Newest, price |-> TRUE]
    BY DEF Init
  <2> QED
    BY <1>2, <2>2, <2>3
<1>5. invoices \in [Invoices -> InvoiceStatus]
  BY <1>3 DEF Init, Remote
<1>6. payment_methods \in [Cards -> {"absent", "card", "default"}] /\ SingleDefault
  BY DEF Init, ExpectedCards, SingleDefault
<1>7. reconcile \in Reconcile
  <2>1. 0 \in 0..MaxEvents /\ 0 \in 0..MaxReconciles
    BY BoundsAssumption
  <2>2. reconcile = NoReconcile(0)
    BY DEF Init
  <2> QED
    BY <1>2, <2>1, <2>2 DEF NoReconcile, Reconcile
<1>8. /\ events \in Seq(Event) /\ Len(events) = 0 /\ SoundEvents
      /\ stray \subseteq EventIds /\ acked \subseteq EventIds
  BY DEF Init, SoundEvents
<1>9. \A e \in EventIds : Placed(e)
  BY DEF Init, Placed
<1>10. /\ handler \in [EventIds -> {"none", "apply", "reject", "effects", "mark", "ignore", "done"}]
       /\ billing_events \in [EventIds -> {"absent", "received", "processed", "failed", "ignored"}]
       /\ faults \in 0..MaxFaults /\ applied \in [EventIds -> Nat]
       /\ latest \in [Mirrors -> 0..MaxEvents]
  <2>1. 0 \in 0..MaxEvents /\ 0 \in 0..MaxFaults
    BY BoundsAssumption
  <2> QED
    BY <2>1 DEF Init
<1>12. late \subseteq Mirrors /\ lost \subseteq EventIds \X Mirrors /\ astray \in BOOLEAN
       /\ cleared \in BOOLEAN
  BY DEF Init
<1>11. TypeOK
  BY <1>3, <1>4, <1>5, <1>6, <1>7, <1>8, <1>10, <1>12, BoundsAssumption DEF TypeOK
<1> QED
  BY <1>3, <1>6, <1>8, <1>9, <1>11 DEF Base

-----------------------------------------------------------------------------
(* What each of Stripe's steps does.                                       *)

\* Events are added at the end, within the bound, each of them sound.
Grows ==
  /\ events' \in Seq(Event)
  /\ Len(events) <= Len(events') /\ Len(events') <= MaxEvents
  /\ \A k \in 1..Len(events) : events'[k] = events[k]
  /\ \A k \in Len(events) + 1 .. Len(events') : SoundEvent(events'[k])

One(a) == Grows /\ Len(events') = Len(events) + 1 /\ events'[Len(events) + 1] = a

Two(a, b) ==
  /\ Grows /\ Len(events') = Len(events) + 2
  /\ events'[Len(events) + 1] = a /\ events'[Len(events) + 2] = b

\* What emitting one sound event does,
LEMMA OneEvent ==
  ASSUME events \in Seq(Event), NEW a, SoundEvent(a), Emit(<<a>>)
  PROVE One(a)
<1>1. a \in Event
  BY DEF SoundEvent
<1>2. <<a>> \in Seq(Event) /\ Len(<<a>>) = 1 /\ <<a>>[1] = a
  BY <1>1
<1>3. events' = events \o <<a>> /\ Len(events) + 1 <= MaxEvents
  BY <1>2 DEF Emit
<1>4. /\ events' \in Seq(Event) /\ Len(events') = Len(events) + 1
      /\ \A k \in 1..Len(events) : events'[k] = events[k]
      /\ events'[Len(events) + 1] = a
  BY <1>2, <1>3, ConcatProperties
<1>5. Len(events) \in Nat
  BY LenProperties
<1> QED
  BY <1>3, <1>4, <1>5 DEF Grows, One

\* and two.
LEMMA TwoEvents ==
  ASSUME events \in Seq(Event), NEW a, SoundEvent(a), NEW b, SoundEvent(b), Emit(<<a, b>>)
  PROVE Two(a, b)
<1>1. a \in Event /\ b \in Event
  BY DEF SoundEvent
<1>2. <<a, b>> \in Seq(Event) /\ Len(<<a, b>>) = 2 /\ <<a, b>>[1] = a /\ <<a, b>>[2] = b
  BY <1>1
<1>3. events' = events \o <<a, b>> /\ Len(events) + 2 <= MaxEvents
  BY <1>2 DEF Emit
<1>5. Len(events) \in Nat
  BY LenProperties
<1>4. /\ events' \in Seq(Event) /\ Len(events') = Len(events) + 2
      /\ \A k \in 1..Len(events) : events'[k] = events[k]
      /\ events'[Len(events) + 1] = a /\ events'[Len(events) + 2] = b
  BY <1>2, <1>3, <1>5, ConcatProperties
<1> QED
  BY <1>3, <1>4, <1>5 DEF Grows, Two

\* An event with another after it only if a condition holds.
LEMMA MaybeTwo ==
  ASSUME NEW a, NEW b, NEW cond, Emit(<<a>> \o (IF cond THEN <<b>> ELSE <<>>))
  PROVE IF cond THEN Emit(<<a, b>>) ELSE Emit(<<a>>)
<1>1. <<a>> \o <<b>> = <<a, b>>
  <2>1. /\ <<a>> \in Seq({a, b}) /\ Len(<<a>>) = 1 /\ <<a>>[1] = a
        /\ <<b>> \in Seq({a, b}) /\ Len(<<b>>) = 1 /\ <<b>>[1] = b
        /\ <<a, b>> \in Seq({a, b}) /\ Len(<<a, b>>) = 2
        /\ <<a, b>>[1] = a /\ <<a, b>>[2] = b
    OBVIOUS
  <2>2. /\ <<a>> \o <<b>> \in Seq({a, b}) /\ Len(<<a>> \o <<b>>) = 2
        /\ (<<a>> \o <<b>>)[1] = a /\ (<<a>> \o <<b>>)[2] = b
    BY <2>1, ConcatProperties
  <2> DEFINE s == <<a>> \o <<b>>
             t == <<a, b>>
  <2>3. /\ s \in Seq({a, b}) /\ t \in Seq({a, b}) /\ Len(s) = 2 /\ Len(t) = 2
        /\ s[1] = t[1] /\ s[2] = t[2]
    BY <2>1, <2>2
  <2> HIDE DEF s, t
  <2>4. s = t
    BY <2>3, SeqEqual
  <2> QED
    BY <2>4 DEF s, t
<1>2. <<a>> \o <<>> = <<a>>
  OBVIOUS
<1>3. CASE cond
  BY <1>1, <1>3
<1>4. CASE ~cond
  BY <1>2, <1>4
<1> QED
  BY <1>3, <1>4

\* The events Stripe emits are sound.
LEMMA SoundUpdate ==
  ASSUME NEW n \in Nat \ {0}, NEW s \in {"active", "past_due"}
  PROVE SoundEvent(SubscriptionEvent(n, s))
  BY DEF SoundEvent, Event, MakeEvent, SubscriptionEvent, EventTypes, InvoiceTypes, LivingTypes

\* an invoice's,
LEMMA SoundInvoice ==
  ASSUME NEW type \in InvoiceTypes, NEW i \in Invoices, NEW n \in Nat \ {0}
  PROVE SoundEvent(InvoiceEvent(type, i, n))
<1>1. /\ InvoiceEvent(type, i, n) \in Event /\ InvoiceEvent(type, i, n).sub # 0
      /\ InvoiceEvent(type, i, n).type = type /\ InvoiceEvent(type, i, n).invoice = {i}
  BY DEF InvoiceEvent, MakeEvent, Event, EventTypes, InvoiceTypes
<1> QED
  BY <1>1 DEF SoundEvent, EventTypes, InvoiceTypes

CardTypes == {"payment_method.attached", "payment_method.detached", "customer.updated"}

\* a card's,
LEMMA SoundCard ==
  ASSUME NEW type \in CardTypes, NEW cards \in SUBSET Cards
  PROVE SoundEvent(CardEvent(type, cards))
  BY DEF SoundEvent, Event, MakeEvent, CardEvent, EventTypes, InvoiceTypes, LivingTypes, CardTypes

\* those that name nothing,
LEMMA SoundPlain ==
  ASSUME NEW type \in {"customer.created", "customer.subscription.deleted"}
  PROVE SoundEvent(MakeEvent(type))
  BY DEF SoundEvent, Event, MakeEvent, EventTypes, InvoiceTypes, LivingTypes

SessionEvent(n) == [MakeEvent("checkout.session.completed") EXCEPT !.sub = n]

\* and the end of a checkout session.
LEMMA SoundSession ==
  ASSUME NEW n \in Nat \ {0}
  PROVE SoundEvent(SessionEvent(n))
  BY DEF SoundEvent, Event, MakeEvent, SessionEvent, EventTypes, InvoiceTypes, LivingTypes

SameSubscription == remote'.subs = remote.subs
SameInvoices == remote'.invoices = remote.invoices
SameCards == remote'.cards = remote.cards /\ remote'.default = remote.default

\* What becomes of the newest subscription when none changes,
LEMMA SameNewest ==
  ASSUME SameSubscription
  PROVE Newest' = Newest /\ NewestStatus' = NewestStatus
  BY DEF SameSubscription, Newest, NewestStatus

\* and when one changes its status.
LEMMA ChangedNewest ==
  ASSUME remote \in Remote, NEW s \in 1..Newest, NEW status \in SubscriptionStatus,
         remote'.subs = [remote.subs EXCEPT ![s] = status]
  PROVE /\ remote'.subs \in Seq(SubscriptionStatus) /\ Newest' = Newest
        /\ NewestStatus' = IF s = Newest THEN status ELSE NewestStatus
<1>1. remote.subs \in Seq(SubscriptionStatus) /\ Newest \in Nat
  BY NewestIs DEF Remote
<1>2. /\ remote'.subs \in Seq(SubscriptionStatus) /\ Len(remote'.subs) = Len(remote.subs)
      /\ \A x \in 1..Newest : remote'.subs[x] = IF x = s THEN status ELSE remote.subs[x]
  BY <1>1, ExceptSeq DEF Newest
<1>3. Newest' = Newest /\ Newest \in 1..Newest
  BY <1>1, <1>2 DEF Newest
<1>4. remote.subs # <<>> /\ remote'.subs # <<>>
  BY <1>1, <1>2, <1>3, EmptySeq DEF Newest
<1>5. NewestStatus' = remote'.subs[Newest] /\ NewestStatus = remote.subs[Newest]
  BY <1>3, <1>4 DEF NewestStatus
<1> QED
  BY <1>2, <1>3, <1>5

\* Events about a subscription that has ended or is not the newest are stray.
LEMMA StraysIs ==
  ASSUME Base, Grows, NEW s \in 1..Newest, NEW k \in Nat, Strays(s, k),
         Len(events') = Len(events) + k
  PROVE /\ stray' \subseteq EventIds
        /\ s = Newest /\ NewestStatus # "canceled" => stray' = stray
        /\ s # Newest \/ NewestStatus = "canceled" =>
             stray' = stray \cup (Len(events) + 1 .. Len(events'))
<1>1. /\ remote \in Remote /\ stray \subseteq EventIds /\ Len(events) \in Nat
  BY LenProperties DEF Base, TypeOK
<1>2. Newest \in Nat /\ (s = Newest => NewestStatus = remote.subs[s])
  BY <1>1, NewestIs
<1>3. Len(events) + 1 .. Len(events') \subseteq EventIds
  BY <1>1, BoundsAssumption DEF Grows, EventIds
<1>4. /\ s = Newest /\ NewestStatus # "canceled" => stray' = stray
      /\ s # Newest \/ remote.subs[s] = "canceled" =>
             stray' = stray \cup (Len(events) + 1 .. Len(events'))
  BY <1>2 DEF Strays
<1> QED
  BY <1>1, <1>2, <1>3, <1>4

\* A first checkout makes the customer and emits that event.
LEMMA EnsureCustomerEffect ==
  ASSUME Base, EnsureCustomer
  PROVE /\ One(MakeEvent("customer.created")) /\ remote' \in Remote
        /\ SameSubscription /\ SameInvoices /\ SameCards
        /\ UNCHANGED <<stray, local>>
<1>1. remote \in Remote /\ events \in Seq(Event)
  BY DEF Base, TypeOK
<1>2. One(MakeEvent("customer.created"))
  BY <1>1, OneEvent, SoundPlain DEF EnsureCustomer
<1>3. remote' \in Remote /\ SameSubscription /\ SameInvoices /\ SameCards
  BY <1>1 DEF EnsureCustomer, Remote, SameSubscription, SameInvoices, SameCards
<1> QED
  BY <1>2, <1>3 DEF EnsureCustomer

\* A checkout begins the next subscription, and its two events come in either order.
LEMMA CheckoutEffect ==
  ASSUME Base, CompleteCheckout
  PROVE LET n == Newest + 1 IN
        /\ n \in Nat \ {0} /\ account.linked
        /\ \/ Two(SubscriptionEvent(n, "active"), SessionEvent(n))
           \/ Two(SessionEvent(n), SubscriptionEvent(n, "active"))
        /\ remote' \in Remote /\ Newest' = n /\ NewestStatus' = "active"
        /\ SameInvoices /\ SameCards
        /\ UNCHANGED <<stray, local>>
<1> DEFINE n == Newest + 1
           subs == Append(remote.subs, "active")
<1>1. remote \in Remote /\ events \in Seq(Event) /\ Newest \in Nat
  BY NewestIs DEF Base, TypeOK
<1>2. n \in Nat \ {0}
  BY <1>1
<1>3. Emit(<<SubscriptionEvent(n, "active"), SessionEvent(n)>>)
      \/ Emit(<<SessionEvent(n), SubscriptionEvent(n, "active")>>)
  BY DEF CompleteCheckout, SessionEvent
<1>4. remote' = [remote EXCEPT !.subs = subs]
  BY DEF CompleteCheckout
<1>5. account.linked /\ UNCHANGED <<stray, local>>
  BY DEF CompleteCheckout
<1>6. SoundEvent(SubscriptionEvent(n, "active")) /\ SoundEvent(SessionEvent(n))
  BY <1>2, SoundUpdate, SoundSession
<1>7. \/ Two(SubscriptionEvent(n, "active"), SessionEvent(n))
      \/ Two(SessionEvent(n), SubscriptionEvent(n, "active"))
  <2> HIDE DEF n
  <2> QED
    BY <1>1, <1>3, <1>6, TwoEvents
<1>8. subs \in Seq(SubscriptionStatus) /\ Len(subs) = n /\ subs[n] = "active"
  <2>1. remote.subs \in Seq(SubscriptionStatus) /\ "active" \in SubscriptionStatus
    BY <1>1 DEF Remote, SubscriptionStatus
  <2> QED
    BY <2>1, AppendProperties DEF Newest
<1> HIDE DEF n, subs
<1>9. remote' \in Remote /\ remote'.subs = subs /\ SameInvoices /\ SameCards
  BY <1>1, <1>4, <1>8 DEF Remote, SameInvoices, SameCards
<1>10. subs # <<>>
  BY <1>2, <1>8, EmptySeq
<1>11. Newest' = n /\ NewestStatus' = "active"
  BY <1>8, <1>9, <1>10 DEF Newest, NewestStatus
<1> QED
  BY <1>2, <1>5, <1>7, <1>9, <1>11 DEF n

\* A cancellation ends a subscription and emits that event.
LEMMA CancelEffect ==
  ASSUME Base, NEW s \in 1..Newest, CancelSubscription(s)
  PROVE /\ One(MakeEvent("customer.subscription.deleted"))
        /\ remote' \in Remote /\ Newest' = Newest
        /\ s = Newest => NewestStatus # "canceled"
        /\ NewestStatus' = IF s = Newest THEN "canceled" ELSE NewestStatus
        /\ SameInvoices /\ SameCards
        /\ Strays(s, 1) /\ UNCHANGED local
<1> DEFINE subs == [remote.subs EXCEPT ![s] = "canceled"]
<1>1. remote \in Remote /\ events \in Seq(Event) /\ "canceled" \in SubscriptionStatus
  BY DEF Base, TypeOK, SubscriptionStatus
<1>2. One(MakeEvent("customer.subscription.deleted"))
  BY <1>1, OneEvent, SoundPlain DEF CancelSubscription
<1>3. remote' = [remote EXCEPT !.subs = subs]
  BY <1>1 DEF CancelSubscription, Remote
<1>4. remote'.subs = subs
  <2> HIDE DEF subs
  <2> QED
    BY <1>1, <1>3 DEF Remote
<1>5. /\ subs \in Seq(SubscriptionStatus) /\ Newest' = Newest
      /\ NewestStatus' = IF s = Newest THEN "canceled" ELSE NewestStatus
  BY <1>1, <1>4, ChangedNewest
<1> HIDE DEF subs
<1>6. remote' \in Remote /\ SameInvoices /\ SameCards
  BY <1>1, <1>3, <1>5 DEF Remote, SameInvoices, SameCards
<1>7. s = Newest => NewestStatus # "canceled"
  BY <1>1, NewestIs DEF CancelSubscription
<1>8. Strays(s, 1) /\ UNCHANGED local
  BY DEF CancelSubscription
<1> QED
  BY <1>2, <1>5, <1>6, <1>7, <1>8

\* One invoice gets another status.
LEMMA InvoiceChange ==
  ASSUME remote \in Remote, NEW i \in Invoices, NEW r \in [status : InvoiceStatus, sub : Nat],
         remote' = [remote EXCEPT !.invoices = [remote.invoices EXCEPT ![i] = r]]
  PROVE /\ remote' \in Remote /\ SameSubscription /\ SameCards
        /\ remote'.invoices[i] = r
        /\ \A x \in Invoices \ {i} : remote'.invoices[x] = remote.invoices[x]
<1> DEFINE table == [remote.invoices EXCEPT ![i] = r]
<1>1. remote.invoices \in [Invoices -> [status : InvoiceStatus, sub : Nat]]
  BY DEF Remote
<1>2. /\ table \in [Invoices -> [status : InvoiceStatus, sub : Nat]] /\ table[i] = r
      /\ \A x \in Invoices \ {i} : table[x] = remote.invoices[x]
  BY <1>1
<1> HIDE DEF table
<1>3. remote' = [remote EXCEPT !.invoices = table]
  BY DEF table
<1>4. remote' \in Remote /\ SameSubscription /\ SameCards /\ remote'.invoices = table
  BY <1>2, <1>3 DEF Remote, SameSubscription, SameCards
<1> QED
  BY <1>2, <1>4

\* Issuing an invoice opens it and emits that event; nothing else is told.
LEMMA FinalizeEffect ==
  ASSUME Base, NEW i \in Invoices, NEW s \in 1..Newest, FinalizeInvoice(i, s)
  PROVE /\ One(InvoiceEvent("invoice.finalized", i, s)) /\ s \in Nat \ {0}
        /\ remote' \in Remote /\ SameSubscription /\ SameCards
        /\ remote'.invoices[i] = [status |-> "open", sub |-> s]
        /\ \A x \in Invoices \ {i} : remote'.invoices[x] = remote.invoices[x]
        /\ UNCHANGED <<stray, local>>
<1> DEFINE r == [status |-> "open", sub |-> s]
<1>1. remote \in Remote /\ events \in Seq(Event) /\ RemoteSound
  BY DEF Base, TypeOK
<1>2. s \in Nat \ {0}
  BY <1>1, NewestIs
<1>3. One(InvoiceEvent("invoice.finalized", i, s))
  BY <1>1, <1>2, OneEvent, SoundInvoice DEF FinalizeInvoice, InvoiceTypes
<1>4. r \in [status : InvoiceStatus, sub : Nat]
  BY <1>2 DEF InvoiceStatus
<1>5. remote' = [remote EXCEPT !.invoices = [remote.invoices EXCEPT ![i] = r]]
  BY DEF FinalizeInvoice
<1>6. UNCHANGED <<stray, local>>
  BY DEF FinalizeInvoice
<1> HIDE DEF r
<1>7. /\ remote' \in Remote /\ SameSubscription /\ SameCards /\ remote'.invoices[i] = r
      /\ \A x \in Invoices \ {i} : remote'.invoices[x] = remote.invoices[x]
  BY <1>1, <1>4, <1>5, InvoiceChange
<1> QED
  BY <1>2, <1>3, <1>6, <1>7 DEF r

\* Voiding an invoice emits that event and touches no subscription.
LEMMA VoidEffect ==
  ASSUME Base, NEW i \in Invoices, VoidInvoice(i)
  PROVE /\ One(InvoiceEvent("invoice.voided", i, remote.invoices[i].sub))
        /\ remote' \in Remote /\ SameSubscription /\ SameCards
        /\ remote'.invoices[i].status = "void"
        /\ \A x \in Invoices \ {i} : remote'.invoices[x] = remote.invoices[x]
        /\ UNCHANGED <<stray, local>>
<1> DEFINE r == [remote.invoices[i] EXCEPT !.status = "void"]
<1>1. remote \in Remote /\ events \in Seq(Event) /\ RemoteSound
  BY DEF Base, TypeOK
<1>2. remote.invoices[i].sub \in Nat \ {0}
  BY <1>1, NewestIs DEF VoidInvoice, RemoteSound, Remote
<1>3. One(InvoiceEvent("invoice.voided", i, remote.invoices[i].sub))
  BY <1>1, <1>2, OneEvent, SoundInvoice DEF VoidInvoice, InvoiceTypes
<1>4. r \in [status : InvoiceStatus, sub : Nat] /\ r.status = "void"
  BY <1>1 DEF InvoiceStatus, Remote
<1>5. remote' = [remote EXCEPT !.invoices = [remote.invoices EXCEPT ![i] = r]]
  BY <1>1 DEF VoidInvoice, Remote
<1>6. UNCHANGED <<stray, local>>
  BY DEF VoidInvoice
<1> HIDE DEF r
<1>7. /\ remote' \in Remote /\ SameSubscription /\ SameCards /\ remote'.invoices[i] = r
      /\ \A x \in Invoices \ {i} : remote'.invoices[x] = remote.invoices[x]
  BY <1>1, <1>4, <1>5, InvoiceChange
<1> QED
  BY <1>3, <1>4, <1>6, <1>7

\* An invoice's subscription has the status st.
BehindAs(i, st) == remote.subs[remote.invoices[i].sub] = st

\* A payment settles an invoice, and may bring the subscription back from past due.
LEMMA PayEffect ==
  ASSUME Base, NEW i \in Invoices, PayInvoice(i)
  PROVE LET s == remote.invoices[i].sub
            a == InvoiceEvent("invoice.paid", i, s)
            revives == BehindAs(i, "past_due") IN
        /\ s \in 1..Newest /\ s \in Nat \ {0}
        /\ IF revives THEN Two(a, SubscriptionEvent(s, "active")) ELSE One(a)
        /\ remote' \in Remote /\ Newest' = Newest
        /\ NewestStatus' = IF s = Newest /\ revives THEN "active" ELSE NewestStatus
        /\ SameCards
        /\ remote'.invoices[i].status = "paid"
        /\ \A x \in Invoices \ {i} : remote'.invoices[x] = remote.invoices[x]
        /\ Strays(s, IF revives THEN 2 ELSE 1)
        /\ UNCHANGED local
<1> DEFINE s == remote.invoices[i].sub
           revives == BehindAs(i, "past_due")
           a == InvoiceEvent("invoice.paid", i, s)
           b == SubscriptionEvent(s, "active")
           r == [remote.invoices[i] EXCEPT !.status = "paid"]
           table == [remote.invoices EXCEPT ![i] = r]
           status == IF revives THEN "active" ELSE remote.subs[s]
           subs == [remote.subs EXCEPT ![s] = status]
<1>1. remote \in Remote /\ events \in Seq(Event) /\ RemoteSound
  BY DEF Base, TypeOK
<1>2. s \in 1..Newest /\ s \in Nat \ {0}
  BY <1>1, NewestIs DEF PayInvoice, RemoteSound
<1>3. SoundEvent(a) /\ SoundEvent(b)
  BY <1>2, SoundInvoice, SoundUpdate DEF InvoiceTypes
<1>4. Emit(<<a>> \o (IF revives THEN <<b>> ELSE <<>>))
  BY DEF PayInvoice, BehindAs
<1>5. IF revives THEN Two(a, b) ELSE One(a)
  <2> HIDE DEF a, b, revives
  <2>1. IF revives THEN Emit(<<a, b>>) ELSE Emit(<<a>>)
    BY <1>4, MaybeTwo
  <2> QED
    BY <1>1, <1>3, <2>1, OneEvent, TwoEvents
<1>6. r \in [status : InvoiceStatus, sub : Nat] /\ r.status = "paid"
  BY <1>1 DEF InvoiceStatus, Remote
<1>7. /\ table \in [Invoices -> [status : InvoiceStatus, sub : Nat]] /\ table[i] = r
      /\ \A x \in Invoices \ {i} : table[x] = remote.invoices[x]
  <2> HIDE DEF r
  <2> QED
    BY <1>1, <1>6 DEF Remote
<1>8. remote' = [remote EXCEPT !.invoices = table, !.subs = subs]
  BY <1>1 DEF PayInvoice, BehindAs, Remote
<1>9. Strays(s, IF revives THEN 2 ELSE 1) /\ UNCHANGED local
  BY DEF PayInvoice, BehindAs
<1>10. status \in SubscriptionStatus
  BY <1>1, <1>2, NewestIs DEF SubscriptionStatus
<1>11. remote'.subs = subs
  <2> HIDE DEF table, subs
  <2> QED
    BY <1>1, <1>8 DEF Remote
<1>12. /\ subs \in Seq(SubscriptionStatus) /\ Newest' = Newest
       /\ NewestStatus' = IF s = Newest THEN status ELSE NewestStatus
  <2> HIDE DEF status, s
  <2> QED
    BY <1>1, <1>2, <1>10, <1>11, ChangedNewest
<1>13. NewestStatus' = IF s = Newest /\ revives THEN "active" ELSE NewestStatus
  BY <1>1, <1>2, <1>12, NewestIs
<1>14. remote' \in Remote /\ SameCards /\ remote'.invoices = table
  <2> HIDE DEF table, subs
  <2> QED
    BY <1>1, <1>7, <1>8, <1>12 DEF Remote, SameCards
<1>15. /\ remote'.invoices[i].status = "paid"
       /\ \A x \in Invoices \ {i} : remote'.invoices[x] = remote.invoices[x]
  <2> HIDE DEF table, r
  <2> QED
    BY <1>6, <1>7, <1>14
<1> QED
  BY <1>2, <1>5, <1>9, <1>12, <1>13, <1>14, <1>15

\* A failed payment leaves the invoice open and the subscription past due.
LEMMA FailEffect ==
  ASSUME Base, NEW i \in Invoices, FailInvoice(i)
  PROVE LET s == remote.invoices[i].sub
            a == InvoiceEvent("invoice.payment_failed", i, s)
            delays == BehindAs(i, "active") IN
        /\ s \in 1..Newest /\ s \in Nat \ {0} /\ remote.invoices[i].status = "open"
        /\ IF delays THEN Two(a, SubscriptionEvent(s, "past_due")) ELSE One(a)
        /\ remote' \in Remote /\ Newest' = Newest
        /\ NewestStatus' = IF s = Newest /\ delays THEN "past_due" ELSE NewestStatus
        /\ SameInvoices /\ SameCards
        /\ Strays(s, IF delays THEN 2 ELSE 1)
        /\ UNCHANGED local
<1> DEFINE s == remote.invoices[i].sub
           delays == BehindAs(i, "active")
           a == InvoiceEvent("invoice.payment_failed", i, s)
           b == SubscriptionEvent(s, "past_due")
           status == IF delays THEN "past_due" ELSE remote.subs[s]
           subs == [remote.subs EXCEPT ![s] = status]
<1>1. remote \in Remote /\ events \in Seq(Event) /\ RemoteSound
  BY DEF Base, TypeOK
<1>2. s \in 1..Newest /\ s \in Nat \ {0} /\ remote.invoices[i].status = "open"
  BY <1>1, NewestIs DEF FailInvoice, RemoteSound
<1>3. SoundEvent(a) /\ SoundEvent(b)
  BY <1>2, SoundInvoice, SoundUpdate DEF InvoiceTypes
<1>4. Emit(<<a>> \o (IF delays THEN <<b>> ELSE <<>>))
  BY DEF FailInvoice, BehindAs
<1>5. IF delays THEN Two(a, b) ELSE One(a)
  <2> HIDE DEF a, b, delays
  <2>1. IF delays THEN Emit(<<a, b>>) ELSE Emit(<<a>>)
    BY <1>4, MaybeTwo
  <2> QED
    BY <1>1, <1>3, <2>1, OneEvent, TwoEvents
<1>8. remote' = [remote EXCEPT !.subs = subs]
  BY <1>1 DEF FailInvoice, BehindAs, Remote
<1>9. Strays(s, IF delays THEN 2 ELSE 1) /\ UNCHANGED local
  BY DEF FailInvoice, BehindAs
<1>10. status \in SubscriptionStatus
  BY <1>1, <1>2, NewestIs DEF SubscriptionStatus
<1>11. remote'.subs = subs
  <2> HIDE DEF subs
  <2> QED
    BY <1>1, <1>8 DEF Remote
<1>12. /\ subs \in Seq(SubscriptionStatus) /\ Newest' = Newest
       /\ NewestStatus' = IF s = Newest THEN status ELSE NewestStatus
  <2> HIDE DEF status, s
  <2> QED
    BY <1>1, <1>2, <1>10, <1>11, ChangedNewest
<1>13. NewestStatus' = IF s = Newest /\ delays THEN "past_due" ELSE NewestStatus
  BY <1>1, <1>2, <1>12, NewestIs
<1>14. remote' \in Remote /\ SameInvoices /\ SameCards
  <2> HIDE DEF subs
  <2> QED
    BY <1>1, <1>8, <1>12 DEF Remote, SameInvoices, SameCards
<1> QED
  BY <1>2, <1>5, <1>9, <1>12, <1>13, <1>14

\* Saving a card emits that event.
LEMMA AttachEffect ==
  ASSUME Base, NEW c \in Cards, AttachCard(c)
  PROVE /\ One(CardEvent("payment_method.attached", {c})) /\ c \notin remote.cards
        /\ remote' \in Remote /\ SameSubscription /\ SameInvoices
        /\ remote'.cards = remote.cards \cup {c} /\ remote'.default = remote.default
        /\ UNCHANGED <<stray, local>>
<1>1. remote \in Remote /\ events \in Seq(Event)
  BY DEF Base, TypeOK
<1>2. One(CardEvent("payment_method.attached", {c}))
  BY <1>1, OneEvent, SoundCard DEF AttachCard, CardTypes
<1>3. /\ remote' \in Remote /\ SameSubscription /\ SameInvoices
      /\ remote'.cards = remote.cards \cup {c} /\ remote'.default = remote.default
  BY <1>1 DEF AttachCard, Remote, SameSubscription, SameInvoices
<1>4. c \notin remote.cards /\ UNCHANGED <<stray, local>>
  BY DEF AttachCard
<1> QED
  BY <1>2, <1>3, <1>4

\* Removing the default card also tells that there is none any more.
LEMMA DetachEffect ==
  ASSUME Base, NEW c \in Cards, DetachCard(c)
  PROVE LET a == CardEvent("payment_method.detached", {c})
            b == CardEvent("customer.updated", {}) IN
        /\ IF remote.default = c THEN Two(a, b) ELSE One(a)
        /\ remote' \in Remote /\ SameSubscription /\ SameInvoices
        /\ remote'.cards = remote.cards \ {c}
        /\ remote'.default = IF remote.default = c THEN NoCard ELSE remote.default
        /\ UNCHANGED <<stray, local>>
<1> DEFINE a == CardEvent("payment_method.detached", {c})
           b == CardEvent("customer.updated", {})
           default == IF remote.default = c THEN NoCard ELSE remote.default
<1>1. remote \in Remote /\ events \in Seq(Event)
  BY DEF Base, TypeOK
<1>2. SoundEvent(a) /\ SoundEvent(b)
  BY SoundCard DEF CardTypes
<1>3. Emit(<<a>> \o (IF remote.default = c THEN <<b>> ELSE <<>>))
  BY DEF DetachCard
<1>4. IF remote.default = c THEN Two(a, b) ELSE One(a)
  <2> HIDE DEF a, b
  <2>1. IF remote.default = c THEN Emit(<<a, b>>) ELSE Emit(<<a>>)
    BY <1>3, MaybeTwo
  <2> QED
    BY <1>1, <1>2, <2>1, OneEvent, TwoEvents
<1>5. remote' = [remote EXCEPT !.cards = remote.cards \ {c}, !.default = default]
  BY DEF DetachCard
<1>6. UNCHANGED <<stray, local>>
  BY DEF DetachCard
<1>7. default \in Cards \cup {NoCard}
  BY <1>1 DEF Remote
<1>8. /\ remote' \in Remote /\ SameSubscription /\ SameInvoices
      /\ remote'.cards = remote.cards \ {c} /\ remote'.default = default
  <2> HIDE DEF default
  <2> QED
    BY <1>1, <1>5, <1>7 DEF Remote, SameSubscription, SameInvoices
<1> QED
  BY <1>4, <1>6, <1>8

\* Choosing a default among the saved cards emits one event.
LEMMA SetDefaultEffect ==
  ASSUME Base, NEW c \in Cards, SetDefaultCard(c)
  PROVE /\ One(CardEvent("customer.updated", {c})) /\ c \in remote.cards
        /\ remote' \in Remote /\ SameSubscription /\ SameInvoices
        /\ remote'.cards = remote.cards /\ remote'.default = c
        /\ UNCHANGED <<stray, local>>
<1>1. remote \in Remote /\ events \in Seq(Event)
  BY DEF Base, TypeOK
<1>2. One(CardEvent("customer.updated", {c}))
  BY <1>1, OneEvent, SoundCard DEF SetDefaultCard, CardTypes
<1>3. /\ remote' \in Remote /\ SameSubscription /\ SameInvoices
      /\ remote'.cards = remote.cards /\ remote'.default = c
  BY <1>1 DEF SetDefaultCard, Remote, SameSubscription, SameInvoices
<1>4. c \in remote.cards /\ UNCHANGED <<stray, local>>
  BY DEF SetDefaultCard
<1> QED
  BY <1>2, <1>3, <1>4

\* Every step of Stripe's adds sound events and leaves the API's state alone.
LEMMA StripeStep ==
  ASSUME Base, Stripe
  PROVE \/ SetAccountStripeCustomerID
        \/ /\ Grows /\ remote' \in Remote /\ RemoteSound' /\ stray' \subseteq EventIds
           /\ UNCHANGED local
<1>1. /\ remote \in Remote /\ events \in Seq(Event) /\ RemoteSound
      /\ stray \subseteq EventIds /\ Len(events) \in Nat /\ Newest \in Nat
  BY LenProperties, NewestIs DEF Base, TypeOK
<1> DEFINE Goal == /\ Grows /\ remote' \in Remote /\ RemoteSound' /\ stray' \subseteq EventIds
                   /\ UNCHANGED local
<1>2. ASSUME Newest' \in Nat, Newest <= Newest', SameInvoices, SameCards PROVE RemoteSound'
  BY <1>1, <1>2 DEF RemoteSound, SameInvoices, SameCards
<1>3. CASE EnsureCustomer
  BY <1>1, <1>2, <1>3, EnsureCustomerEffect, SameNewest DEF One
<1>4. CASE CompleteCheckout
  <2>1. RemoteSound'
    BY <1>1, <1>2, <1>4, CheckoutEffect
  <2> QED
    BY <1>1, <1>4, <2>1, CheckoutEffect DEF Two
<1>5. ASSUME NEW s \in 1..Newest, CancelSubscription(s) PROVE Goal
  <2>1. RemoteSound'
    BY <1>1, <1>2, <1>5, CancelEffect
  <2>2. Grows /\ Len(events') = Len(events) + 1 /\ Strays(s, 1)
    BY <1>5, CancelEffect DEF One
  <2>3. stray' \subseteq EventIds
    BY <2>2, StraysIs
  <2> QED
    BY <1>1, <1>5, <2>1, <2>2, <2>3, CancelEffect
<1>6. ASSUME NEW s \in 1..Newest, NEW i \in Invoices, FinalizeInvoice(i, s) PROVE Goal
  <2>1. /\ One(InvoiceEvent("invoice.finalized", i, s))
        /\ remote' \in Remote /\ SameSubscription /\ SameCards
        /\ remote'.invoices[i].sub = s
        /\ \A x \in Invoices \ {i} : remote'.invoices[x] = remote.invoices[x]
        /\ UNCHANGED <<stray, local>>
    <3>1. FinalizeInvoice(i, s)
      BY <1>6
    <3>2. /\ One(InvoiceEvent("invoice.finalized", i, s)) /\ s \in Nat \ {0}
          /\ remote' \in Remote /\ SameSubscription /\ SameCards
          /\ remote'.invoices[i] = [status |-> "open", sub |-> s]
          /\ \A x \in Invoices \ {i} : remote'.invoices[x] = remote.invoices[x]
          /\ UNCHANGED <<stray, local>>
      BY <3>1, FinalizeEffect, Zenon
    <3>3. remote'.invoices[i].sub = s
      BY <3>2
    <3> QED
      BY <3>2, <3>3
  <2>2. RemoteSound'
    BY <1>1, <2>1, SameNewest DEF RemoteSound, SameCards
  <2> QED
    BY <1>1, <2>1, <2>2 DEF One
<1>7. ASSUME NEW i \in Invoices, PayInvoice(i) PROVE Goal
  <2> DEFINE s == remote.invoices[i].sub
             k == IF BehindAs(i, "past_due") THEN 2 ELSE 1
  <2>1. /\ Grows /\ Len(events') = Len(events) + k /\ s \in 1..Newest /\ Strays(s, k)
        /\ remote' \in Remote /\ Newest' = Newest
        /\ SameCards
        /\ remote'.invoices[i].status = "paid"
        /\ \A x \in Invoices \ {i} : remote'.invoices[x] = remote.invoices[x]
        /\ UNCHANGED local
    BY <1>1, <1>7, PayEffect DEF One, Two
  <2>2. RemoteSound'
    BY <1>1, <2>1 DEF RemoteSound, SameCards
  <2>3. k \in Nat
    OBVIOUS
  <2> HIDE DEF s, k
  <2>4. stray' \subseteq EventIds
    BY <2>1, <2>3, StraysIs
  <2> QED
    BY <1>1, <2>1, <2>2, <2>4
<1>8. ASSUME NEW i \in Invoices, FailInvoice(i) PROVE Goal
  <2> DEFINE s == remote.invoices[i].sub
             k == IF BehindAs(i, "active") THEN 2 ELSE 1
  <2>1. /\ Grows /\ Len(events') = Len(events) + k /\ s \in 1..Newest /\ Strays(s, k)
        /\ remote' \in Remote /\ Newest' = Newest
        /\ SameInvoices /\ SameCards
        /\ UNCHANGED local
    BY <1>1, <1>8, FailEffect DEF One, Two
  <2>2. RemoteSound'
    BY <1>1, <1>2, <2>1
  <2>3. k \in Nat
    OBVIOUS
  <2> HIDE DEF s, k
  <2>4. stray' \subseteq EventIds
    BY <2>1, <2>3, StraysIs
  <2> QED
    BY <1>1, <2>1, <2>2, <2>4
<1>9. ASSUME NEW i \in Invoices, VoidInvoice(i) PROVE Goal
  <2>1. RemoteSound'
    BY <1>1, <1>9, VoidEffect, SameNewest DEF RemoteSound, SameCards
  <2> QED
    BY <1>1, <1>9, <2>1, VoidEffect DEF One
<1>10. ASSUME NEW c \in Cards, AttachCard(c) \/ DetachCard(c) \/ SetDefaultCard(c) PROVE Goal
  <2>1. RemoteSound'
    BY <1>1, <1>10, AttachEffect, DetachEffect, SetDefaultEffect, SameNewest
       DEF RemoteSound, SameInvoices
  <2> QED
    BY <1>1, <1>10, <2>1, AttachEffect, DetachEffect, SetDefaultEffect DEF One, Two
<1> QED
  BY <1>3, <1>4, <1>5, <1>6, <1>7, <1>8, <1>9, <1>10 DEF Stripe

-----------------------------------------------------------------------------
(* What the tables become.                                                 *)

\* The history of what reached a mirror is well typed after an event,
LEMMA ReachedType ==
  ASSUME TypeOK, NEW at \in 0..MaxEvents, NEW ms \in SUBSET Mirrors, Reached(at, ms)
  PROVE latest' \in [Mirrors -> 0..MaxEvents] /\ late' \subseteq Mirrors
  BY DEF TypeOK, Reached

\* after a reconciliation,
LEMMA RefreshedType ==
  ASSUME TypeOK, NEW at \in 0..MaxEvents, NEW ms \in SUBSET Mirrors, Refreshed(ms, at)
  PROVE /\ latest' \in [Mirrors -> 0..MaxEvents] /\ late' \subseteq Mirrors
        /\ lost' \subseteq EventIds \X Mirrors
  BY DEF TypeOK, Refreshed

\* and after a loss.
LEMMA LoseType ==
  ASSUME TypeOK, NEW e \in EventIds, NEW ms \in SUBSET Mirrors, Lose(e, ms)
  PROVE lost' \subseteq EventIds \X Mirrors
  BY DEF TypeOK, Lose

\* A recorded event is one of those emitted, and is sound.
LEMMA Recorded ==
  ASSUME Base, NEW e \in EventIds, handler[e] # "none" \/ e \in 1..Len(events)
  PROVE /\ e \in 1..Len(events) /\ SoundEvent(events[e]) /\ Targets(Msg(e)) \subseteq Mirrors
<1>1. Placed(e) /\ SoundEvents
  BY DEF Base
<1>2. e \in 1..Len(events)
  BY <1>1 DEF Placed
<1>3. SoundEvent(events[e])
  BY <1>1, <1>2 DEF SoundEvents
<1>4. Targets(Msg(e)) \subseteq Mirrors
  BY <1>3, TargetsAre DEF Msg
<1> QED
  BY <1>2, <1>3, <1>4

\* The invoices found by a listing or in an event are written, the others kept.
LEMMA UpsertInvoiceIs ==
  ASSUME NEW table, NEW found, NEW i \in Invoices
  PROVE /\ i \notin {f.id : f \in found} => UpsertInvoice(table, found)[i] = table[i]
        /\ i \in {f.id : f \in found} =>
             \E f \in found : f.id = i /\ UpsertInvoice(table, found)[i] = f.status
<1>1. CASE i \notin {f.id : f \in found}
  BY <1>1 DEF UpsertInvoice
<1>2. CASE i \in {f.id : f \in found}
  <2> DEFINE g == CHOOSE f \in found : f.id = i
  <2>1. g \in found /\ g.id = i
    BY <1>2
  <2>2. UpsertInvoice(table, found)[i] = g.status
    BY <1>2 DEF UpsertInvoice
  <2> QED
    BY <1>2, <2>1, <2>2
<1> QED
  BY <1>1, <1>2

\* The table of invoices stays well typed.
LEMMA UpsertInvoiceType ==
  ASSUME NEW table \in [Invoices -> InvoiceStatus], NEW found,
         \A f \in found : f.status \in InvoiceStatus
  PROVE UpsertInvoice(table, found) \in [Invoices -> InvoiceStatus]
<1>1. \A i \in Invoices : UpsertInvoice(table, found)[i] \in InvoiceStatus
  BY UpsertInvoiceIs
<1>2. \E g : UpsertInvoice(table, found) = [i \in Invoices |-> g[i]]
  <2>1. UpsertInvoice(table, found) = [i \in Invoices |-> UpsertInvoice(table, found)[i]]
    BY DEF UpsertInvoice
  <2> QED
    BY <2>1
<1> QED
  BY <1>1, <1>2

CardStatus == {"absent", "card", "default"}

\* The statement that sets the default leaves one default at most; the upsert and
\* the deletion make none.
LEMMA CardStatements ==
  ASSUME NEW table \in [Cards -> CardStatus], NEW cards, NEW d
  PROVE /\ UpsertPaymentMethod(table, cards) \in [Cards -> CardStatus]
        /\ SetDefaultPaymentMethod(table, d) \in [Cards -> CardStatus]
        /\ \A c \in Cards : /\ UpsertPaymentMethod(table, cards)[c] = "default" <=> table[c] = "default"
                            /\ SetDefaultPaymentMethod(table, d)[c] = "default" => c = d
  BY DEF UpsertPaymentMethod, SetDefaultPaymentMethod, CardStatus

\* The table of cards stays well typed, with one default at most.
LEMMA CardsAfterType ==
  ASSUME payment_methods \in [Cards -> CardStatus], SingleDefault, NEW ev
  PROVE /\ CardsAfter(ev) \in [Cards -> CardStatus]
        /\ \A c, d \in Cards : CardsAfter(ev)[c] = "default" /\ CardsAfter(ev)[d] = "default" => c = d
<1> DEFINE upserted == UpsertPaymentMethod(payment_methods, ev.method)
           deleted == [c \in Cards |-> IF c \in ev.deleted THEN "absent" ELSE upserted[c]]
<1>1. /\ upserted \in [Cards -> CardStatus]
      /\ \A c \in Cards : upserted[c] = "default" <=> payment_methods[c] = "default"
  BY CardStatements
<1>2. /\ deleted \in [Cards -> CardStatus]
      /\ \A c \in Cards : deleted[c] = "default" => payment_methods[c] = "default"
  <2> HIDE DEF upserted
  <2> QED
    BY <1>1 DEF CardStatus
<1>3. CardsAfter(ev) = IF ev.setsDefault THEN SetDefaultPaymentMethod(deleted, ev.default)
                       ELSE deleted
  BY DEF CardsAfter
<1> HIDE DEF deleted
<1>4. CASE ev.setsDefault
  BY <1>2, <1>3, <1>4, CardStatements
<1>5. CASE ~ev.setsDefault
  BY <1>2, <1>3, <1>5 DEF SingleDefault
<1> QED
  BY <1>4, <1>5

\* The account after the UPDATE, column by column.
LEMMA ApplyFields ==
  ASSUME account \in Account, NEW ev
  PROVE /\ ApplyBillingEvent(ev).linked = account.linked
        /\ ApplyBillingEvent(ev).plan = IF ev.plan = "" THEN account.plan ELSE ev.plan
        /\ ApplyBillingEvent(ev).status = ev.status
        /\ ApplyBillingEvent(ev).sub = IF ev.sub = 0 /\ ev.plan # "free" THEN account.sub ELSE ev.sub
        /\ ApplyBillingEvent(ev).price = ev.price
  BY DEF ApplyBillingEvent, Account

-----------------------------------------------------------------------------
(* The steps of the webhook handler.                                       *)

\* What a handler's step leaves alone.
LEMMA HandlerLeaves ==
  ASSUME NEW e \in EventIds, HandleWebhook(e)
  PROVE UNCHANGED <<stripe, reconcile>>
  BY DEF HandleWebhook, RecordBillingWebhookEvent, Duplicate, ApplyEvent, ApplyEventFails, MarkFailed,
         applyWebhookSideEffects, SideEffectFails, MarkProcessed, HandlerCrash, StripeGivesUp

\* A handler's step moves its own event only.
LEMMA OthersStay ==
  ASSUME TypeOK, NEW e \in EventIds, HandleWebhook(e), NEW d \in EventIds \ {e}
  PROVE /\ handler'[d] = handler[d] /\ billing_events'[d] = billing_events[d]
        /\ applied'[d] = applied[d] /\ (d \in acked' <=> d \in acked)
  BY DEF TypeOK, HandleWebhook, RecordBillingWebhookEvent, Duplicate, ApplyEvent, ApplyEventFails,
         MarkFailed, applyWebhookSideEffects, SideEffectFails, MarkProcessed, HandlerCrash,
         StripeGivesUp, history

\* An event is where it was as long as its record, its handler and the events are.
LEMMA StaysPlaced ==
  ASSUME NEW d \in EventIds, Placed(d), Len(events) \in Nat, Len(events') \in Nat,
         Len(events) <= Len(events'), \A k \in 1..Len(events) : events'[k] = events[k],
         handler'[d] = handler[d], billing_events'[d] = billing_events[d],
         applied'[d] = applied[d], d \in acked' => d \in acked
  PROVE Placed(d)'
<1>1. CASE handler[d] = "none"
  BY <1>1 DEF Placed
<1>2. CASE handler[d] # "none"
  <2>1. d \in 1..Len(events) /\ d \in 1..Len(events')
    BY <1>2 DEF Placed
  <2>2. Msg(d)' = Msg(d)
    BY <2>1 DEF Msg
  <2> QED
    BY <2>1, <2>2 DEF Placed
<1> QED
  BY <1>1, <1>2

\* The event itself.
LEMMA HandledPlaced ==
  ASSUME Base, NEW e \in EventIds, HandleWebhook(e)
  PROVE Placed(e)'
<1>1. /\ Placed(e) /\ acked \subseteq EventIds
      /\ handler \in [EventIds -> {"none", "apply", "reject", "effects", "mark", "ignore", "done"}]
      /\ billing_events \in [EventIds -> {"absent", "received", "processed", "failed", "ignored"}]
      /\ applied \in [EventIds -> Nat]
  BY DEF Base, TypeOK
<1>2. UNCHANGED events
  BY HandlerLeaves DEF stripe
<1>3. Msg(e)' = Msg(e)
  BY <1>2 DEF Msg
<1>4. CASE RecordBillingWebhookEvent(e)
  BY <1>1, <1>2, <1>3, <1>4 DEF RecordBillingWebhookEvent, Recordable, Placed, history
<1>5. CASE Duplicate(e)
  BY <1>1, <1>2, <1>3, <1>5 DEF Duplicate, Placed, history
<1>6. CASE ApplyEvent(e)
  <2>1. /\ handler[e] = "apply" /\ handler'[e] \in {"effects", "mark"}
        /\ applied'[e] = applied[e] + 1 /\ UNCHANGED <<acked, billing_events>>
    BY <1>1, <1>6 DEF ApplyEvent
  <2> QED
    BY <1>1, <1>2, <1>3, <2>1 DEF Placed
<1>7. CASE ApplyEventFails(e)
  BY <1>1, <1>2, <1>3, <1>7 DEF ApplyEventFails, Placed
<1>8. CASE MarkFailed(e)
  BY <1>1, <1>2, <1>3, <1>8 DEF MarkFailed, Placed, history
<1>9. CASE applyWebhookSideEffects(e)
  BY <1>1, <1>2, <1>3, <1>9 DEF applyWebhookSideEffects, Placed
<1>10. CASE SideEffectFails(e)
  BY <1>1, <1>2, <1>3, <1>10 DEF SideEffectFails, Placed
<1>11. CASE MarkProcessed(e)
  BY <1>1, <1>2, <1>3, <1>11 DEF MarkProcessed, Placed, history
<1>12. CASE HandlerCrash(e)
  BY <1>1, <1>2, <1>3, <1>12 DEF HandlerCrash, Placed
<1>13. CASE StripeGivesUp(e)
  BY <1>1, <1>2, <1>3, <1>13 DEF StripeGivesUp, Placed
<1> QED
  BY <1>4, <1>5, <1>6, <1>7, <1>8, <1>9, <1>10, <1>11, <1>12, <1>13 DEF HandleWebhook

\* The account an event is applied to stays well typed.
LEMMA ApplyEventType ==
  ASSUME Base, NEW e \in EventIds, ApplyEvent(e)
  PROVE account' \in Account
<1>1. Placed(e) /\ account \in Account /\ handler[e] = "apply"
  BY DEF Base, TypeOK, ApplyEvent
<1>2. SoundEvent(events[e]) /\ AppliesToAccount(Msg(e))
  BY <1>1, Recorded DEF Placed
<1>3. /\ Msg(e).plan \in {"", "free", "usage_based"} /\ Msg(e).sub \in Nat
      /\ Msg(e).status \in {"free", "checkout_pending", "active", "past_due", "canceled"}
  BY <1>2, ParsedType DEF Msg
<1>4. Msg(e).price = (Msg(e).plan = "usage_based")
  BY <1>2, ParsedPrice DEF Msg
<1>5. ApplyBillingEvent(Msg(e)) \in Account
  <2> DEFINE m == Msg(e)
  <2>1. /\ m.plan \in {"", "free", "usage_based"} /\ m.sub \in Nat
        /\ m.status \in {"free", "checkout_pending", "active", "past_due", "canceled"}
    BY <1>3
  <2>2. m.price = TRUE \/ m.price = FALSE
    BY <1>4
  <2> HIDE DEF m
  <2>3. ApplyBillingEvent(m) \in Account
    BY <1>1, <2>1, <2>2 DEF ApplyBillingEvent, Account
  <2> QED
    BY <2>3 DEF m
<1> QED
  BY <1>5 DEF ApplyEvent

\* The tables a side effect is written to stay well typed, with one default at most.
LEMMA EffectsType ==
  ASSUME Base, NEW e \in EventIds, applyWebhookSideEffects(e)
  PROVE /\ invoices' \in [Invoices -> InvoiceStatus]
        /\ payment_methods' \in [Cards -> CardStatus] /\ SingleDefault'
<1>1. /\ handler[e] = "effects" /\ invoices \in [Invoices -> InvoiceStatus]
      /\ payment_methods \in [Cards -> CardStatus] /\ SingleDefault
  BY DEF Base, TypeOK, CardStatus, applyWebhookSideEffects
<1>2. SoundEvent(events[e])
  BY <1>1, Recorded
<1>3. Msg(e).invoice = IF events[e].type \in InvoiceTypes
                       THEN InvoiceAs(events[e], StatusIn(events[e].type)) ELSE {}
  BY <1>2, ParsedInvoice DEF Msg
<1>4. \A f \in Msg(e).invoice : f.status \in InvoiceStatus
  BY <1>3 DEF InvoiceAs, StatusIn, InvoiceStatus
<1>5. UpsertInvoice(invoices, Msg(e).invoice) \in [Invoices -> InvoiceStatus]
  BY <1>1, <1>4, UpsertInvoiceType
<1>6. /\ CardsAfter(Msg(e)) \in [Cards -> CardStatus]
      /\ \A c, d \in Cards : CardsAfter(Msg(e))[c] = "default" /\ CardsAfter(Msg(e))[d] = "default"
                               => c = d
  BY <1>1, CardsAfterType
<1>7. invoices' = UpsertInvoice(invoices, Msg(e).invoice) /\ payment_methods' = CardsAfter(Msg(e))
  BY DEF applyWebhookSideEffects
<1> QED
  BY <1>5, <1>6, <1>7 DEF SingleDefault

\* A handler's step keeps the base.
LEMMA HandlerBase ==
  ASSUME Base, NEW e \in EventIds, HandleWebhook(e)
  PROVE Base'
<1>1. TypeOK /\ RemoteSound /\ SoundEvents /\ SingleDefault
  BY DEF Base
<1>2. UNCHANGED <<remote, events, stray, reconcile>>
  BY HandlerLeaves DEF stripe
<1>3. Len(events) \in Nat /\ e \in 0..MaxEvents /\ e \in EventIds
  BY <1>1, LenProperties DEF TypeOK, EventIds
<1>4. \A d \in EventIds : Placed(d)'
  <2>1. Placed(e)'
    BY HandledPlaced
  <2>2. ASSUME NEW d \in EventIds \ {e} PROVE Placed(d)'
    BY <1>1, <1>2, <1>3, <2>2, OthersStay, StaysPlaced DEF Base
  <2> QED
    BY <2>1, <2>2
<1>5. RemoteSound' /\ SoundEvents'
  BY <1>1, <1>2 DEF RemoteSound, SoundEvents, Newest
<1> DEFINE Tables == /\ account' \in Account /\ invoices' \in [Invoices -> InvoiceStatus]
                     /\ payment_methods' \in [Cards -> CardStatus]
           Marks == /\ acked' \subseteq EventIds
                    /\ handler' \in [EventIds -> {"none", "apply", "reject", "effects", "mark",
                                                  "ignore", "done"}]
                    /\ billing_events' \in [EventIds -> {"absent", "received", "processed",
                                                         "failed", "ignored"}]
                    /\ applied' \in [EventIds -> Nat]
                    /\ faults' \in 0..MaxFaults
           Notes == /\ latest' \in [Mirrors -> 0..MaxEvents] /\ late' \subseteq Mirrors
                    /\ lost' \subseteq EventIds \X Mirrors
<1>6. Tables /\ SingleDefault'
  <2>1. CASE ApplyEvent(e)
    <3>1. account' \in Account
      BY <2>1, ApplyEventType
    <3>2. UNCHANGED <<invoices, payment_methods>>
      BY <2>1 DEF ApplyEvent
    <3> QED
      BY <1>1, <3>1, <3>2 DEF TypeOK, SingleDefault, CardStatus
  <2>2. CASE applyWebhookSideEffects(e)
    <3>1. UNCHANGED account
      BY <2>2 DEF applyWebhookSideEffects
    <3> QED
      BY <1>1, <2>2, <3>1, EffectsType DEF TypeOK
  <2>3. CASE ~ApplyEvent(e) /\ ~applyWebhookSideEffects(e)
    <3>1. UNCHANGED <<account, invoices, payment_methods>>
      BY <2>3 DEF HandleWebhook, RecordBillingWebhookEvent, Duplicate, ApplyEventFails, MarkFailed,
           SideEffectFails, MarkProcessed, HandlerCrash, StripeGivesUp
    <3> QED
      BY <1>1, <3>1 DEF TypeOK, SingleDefault, CardStatus
  <2> QED
    BY <2>1, <2>2, <2>3
<1>7. Marks
  <2>1. /\ acked \subseteq EventIds
        /\ handler \in [EventIds -> {"none", "apply", "reject", "effects", "mark", "ignore", "done"}]
        /\ billing_events \in [EventIds -> {"absent", "received", "processed", "failed", "ignored"}]
        /\ applied \in [EventIds -> Nat]
        /\ faults \in 0..MaxFaults
    BY <1>1 DEF TypeOK
  <2>0. /\ applied[e] + 1 \in Nat
        /\ Fault => faults' \in 0..MaxFaults
    BY <1>3, <2>1, BoundsAssumption DEF Fault
  <2> USE DEF HandleWebhook, RecordBillingWebhookEvent, Duplicate, ApplyEvent, ApplyEventFails,
              MarkFailed, applyWebhookSideEffects, SideEffectFails, MarkProcessed, HandlerCrash,
              StripeGivesUp, history
  <2>2. acked' \subseteq EventIds
    BY <1>3, <2>1
  <2>3. handler' \in [EventIds -> {"none", "apply", "reject", "effects", "mark", "ignore", "done"}]
    BY <1>3, <2>1
  <2>4. billing_events' \in [EventIds -> {"absent", "received", "processed", "failed", "ignored"}]
    BY <1>3, <2>1
  <2>5. applied' \in [EventIds -> Nat]
    <3>1. applied' = applied \/ applied' = [applied EXCEPT ![e] = applied[e] + 1]
      OBVIOUS
    <3> HIDE DEF HandleWebhook
    <3> QED
      BY <1>3, <2>0, <2>1, <3>1
  <2>6. faults' \in 0..MaxFaults
    <3>1. faults' = faults \/ Fault
      OBVIOUS
    <3> HIDE DEF HandleWebhook
    <3> QED
      BY <2>0, <2>1, <3>1
  <2> QED
    BY <2>2, <2>3, <2>4, <2>5, <2>6
<1>8. Notes
  <2>1. /\ latest \in [Mirrors -> 0..MaxEvents] /\ late \subseteq Mirrors
        /\ lost \subseteq EventIds \X Mirrors
    BY <1>1 DEF TypeOK
  <2>2. CASE ApplyEvent(e)
    <3>1. {"account"} \in SUBSET Mirrors
      BY DEF Mirrors
    <3> QED
      BY <1>1, <1>3, <2>1, <2>2, <3>1, ReachedType DEF ApplyEvent
  <2>3. CASE applyWebhookSideEffects(e)
    <3>1. Targets(Msg(e)) \ {"account"} \in SUBSET Mirrors
      BY <2>3, Recorded DEF applyWebhookSideEffects
    <3> QED
      BY <1>1, <1>3, <2>1, <2>3, <3>1, ReachedType DEF applyWebhookSideEffects
  <2>4. CASE ApplyEventFails(e) \/ SideEffectFails(e) \/ HandlerCrash(e) \/ StripeGivesUp(e)
    <3>1. Targets(Msg(e)) \in SUBSET Mirrors
      BY <2>4, Recorded DEF ApplyEventFails, SideEffectFails, HandlerCrash, StripeGivesUp
    <3>2. UNCHANGED <<latest, late>>
      BY <2>4 DEF ApplyEventFails, SideEffectFails, HandlerCrash, StripeGivesUp
    <3>3. Lose(e, Targets(Msg(e))) \/ Lose(e, Targets(Msg(e)) \ {"account"}) \/ Lose(e, {})
      BY <2>4 DEF ApplyEventFails, SideEffectFails, HandlerCrash, StripeGivesUp
    <3>4. Targets(Msg(e)) \ {"account"} \in SUBSET Mirrors /\ {} \in SUBSET Mirrors
      BY <3>1
    <3> QED
      BY <1>1, <2>1, <3>1, <3>2, <3>3, <3>4, LoseType
  <2>5. CASE \/ RecordBillingWebhookEvent(e) \/ Duplicate(e) \/ MarkFailed(e) \/ MarkProcessed(e)
    BY <2>1, <2>5 DEF RecordBillingWebhookEvent, Duplicate, MarkFailed, MarkProcessed, history
  <2> QED
    BY <2>2, <2>3, <2>4, <2>5 DEF HandleWebhook
<1>9. astray' \in BOOLEAN
  <2>1. astray \in BOOLEAN
    BY <1>1 DEF TypeOK
  <2>2. CASE ApplyEvent(e)
    <3>1. astray' = IF Msg(e).plan = "" THEN astray ELSE (e \in stray)
      BY <2>2 DEF ApplyEvent
    <3>2. (e \in stray) \in BOOLEAN
      OBVIOUS
    <3>3. astray' = astray \/ astray' = (e \in stray)
      BY <3>1, Zenon
    <3> QED
      BY <2>1, <3>2, <3>3, Zenon
  <2>3. CASE ~ApplyEvent(e)
    <3>1. UNCHANGED astray
      BY <2>3 DEF HandleWebhook, RecordBillingWebhookEvent, Duplicate, ApplyEventFails, MarkFailed,
           applyWebhookSideEffects, SideEffectFails, MarkProcessed, HandlerCrash, StripeGivesUp, history
    <3> QED
      BY <2>1, <3>1
  <2> QED
    BY <2>2, <2>3
<1>11. cleared' \in BOOLEAN
  <2>1. cleared \in BOOLEAN
    BY <1>1 DEF TypeOK
  <2>2. cleared' = cleared \/ cleared' = (cleared /\ ~Msg(e).setsDefault)
    BY DEF HandleWebhook, RecordBillingWebhookEvent, Duplicate, ApplyEvent, ApplyEventFails, MarkFailed,
           applyWebhookSideEffects, SideEffectFails, MarkProcessed, HandlerCrash, StripeGivesUp, history
  <2>3. (cleared /\ ~Msg(e).setsDefault) \in BOOLEAN
    OBVIOUS
  <2> QED
    BY <2>1, <2>2, <2>3, Zenon
<1>10. TypeOK'
  <2>1. /\ remote' \in Remote /\ events' \in Seq(Event) /\ Len(events') <= MaxEvents
        /\ stray' \subseteq EventIds /\ reconcile' \in Reconcile
    BY <1>1, <1>2 DEF TypeOK
  <2> QED
    BY <1>6, <1>7, <1>8, <1>9, <1>11, <2>1 DEF TypeOK, CardStatus
<1> QED
  BY <1>4, <1>5, <1>6, <1>10 DEF Base

-----------------------------------------------------------------------------
(* The steps of a reconciliation.                                          *)

\* Broadly, what a reconciliation leaves alone.
LEMMA ReconcileLeaves ==
  ASSUME ReconcileStep
  PROVE UNCHANGED web
  BY DEF ReconcileStep, ReadAccount, FetchBillingState, ListRemoteInvoices, backfillInvoice,
         ListRemoteCards, ReadDefault, backfillPaymentMethod, backfillDefault, ListingFails,
         reconcileAccount, ReconcileFails

\* What a reconciliation keeps in hand is well typed: with none under way,
LEMMA NoReconcileType ==
  ASSUME NEW n \in 0..MaxReconciles
  PROVE NoReconcile(n) \in Reconcile
<1>1. 0 \in 0..MaxEvents /\ FreeAccount(FALSE) \in Account
  BY BoundsAssumption DEF FreeAccount, Account
<1> QED
  BY <1>1 DEF NoReconcile, Reconcile

\* What a reconciliation has fetched is an account.
LEMMA FetchedType ==
  ASSUME Base
  PROVE [linked |-> TRUE, plan |-> FetchedState.plan, status |-> FetchedState.status,
         sub |-> FetchedState.sub, price |-> FetchedState.price] \in Account
<1>1. Newest \in Nat /\ NewestStatus \in {"none", "active", "past_due", "canceled"}
  BY NewestIs DEF Base, TypeOK, SubscriptionStatus
<1>2. CASE NewestStatus = "none"
  BY <1>2 DEF FetchedState, Parsed, Account
<1>3. CASE NewestStatus # "none"
  BY <1>1, <1>3 DEF FetchedState, Parsed, providerEventFromPrice, Account
<1> QED
  BY <1>2, <1>3

\* The invoices Stripe lists.
ListedNow == {[id |-> i, status |-> remote.invoices[i].status] :
                i \in {i \in Invoices : remote.invoices[i].status # "absent"}}

\* They are invoices.
LEMMA ListedType == ASSUME remote \in Remote PROVE ListedNow \in SUBSET Listed
  BY DEF ListedNow, Listed, Remote

\* A loop over a list goes on with its body or with what follows it.
LEMMA LoopingIs ==
  ASSUME NEW rest, NEW body, NEW next
  PROVE Looping(rest, body, next) \in {body, next}
  BY DEF Looping

\* and after each of its steps.
LEMMA ReconcileType ==
  ASSUME Base, ReconcileStep
  PROVE reconcile' \in Reconcile
<1>1. /\ reconcile \in Reconcile /\ account \in Account /\ Len(events) \in 0..MaxEvents
      /\ remote \in Remote /\ 0 \in 0..MaxEvents
  BY LenProperties, BoundsAssumption DEF Base, TypeOK
<1>2. reconcile.count \in 0..MaxReconciles
  BY <1>1 DEF Reconcile
<1>3. CASE ReadAccount
  <2>1. reconcile.count + 1 \in 0..MaxReconciles
    BY <1>2, <1>3, BoundsAssumption DEF ReadAccount
  <2>2. reconcile' = [reconcile EXCEPT !.pc = "fetch", !.count = reconcile.count + 1,
                                       !.local = account]
    BY <1>3 DEF ReadAccount
  <2> QED
    BY <1>1, <2>1, <2>2 DEF Reconcile
<1>4. CASE FetchBillingState
  <2> DEFINE f == [linked |-> TRUE, plan |-> FetchedState.plan, status |-> FetchedState.status,
                   sub |-> FetchedState.sub, price |-> FetchedState.price]
  <2>1. f \in Account
    BY FetchedType
  <2>2. reconcile' = [reconcile EXCEPT !.pc = "listInvoices", !.at = Len(events), !.fetched = f]
    BY <1>4 DEF FetchBillingState
  <2> HIDE DEF f
  <2> QED
    BY <1>1, <2>1, <2>2 DEF Reconcile
<1>5. CASE ListRemoteInvoices
  <2>1. PICK pc \in {"invoices", "listCards"} :
          reconcile' = [reconcile EXCEPT !.pc = pc, !.invoices = ListedNow, !.listedAt = Len(events)]
    <3>1. reconcile' = [reconcile EXCEPT !.pc = Looping(ListedNow, "invoices", "listCards"),
                                         !.invoices = ListedNow, !.listedAt = Len(events)]
      BY <1>5 DEF ListRemoteInvoices, ListedNow
    <3>2. Looping(ListedNow, "invoices", "listCards") \in {"invoices", "listCards"}
      BY LoopingIs
    <3> QED
      BY <3>1, <3>2
  <2>2. ListedNow \in SUBSET Listed
    BY <1>1, ListedType
  <2> QED
    BY <1>1, <2>1, <2>2 DEF Reconcile
<1>6. ASSUME NEW f \in reconcile.invoices, backfillInvoice(f) PROVE reconcile' \in Reconcile
  <2>1. PICK pc \in {"invoices", "listCards"} :
          reconcile' = [reconcile EXCEPT !.pc = pc, !.invoices = reconcile.invoices \ {f}]
    BY <1>6, LoopingIs DEF backfillInvoice
  <2> QED
    BY <1>1, <2>1 DEF Reconcile
<1>7. CASE ListRemoteCards
  <2>1. reconcile' = [reconcile EXCEPT !.pc = "readDefault", !.listedAt = Len(events),
                                       !.cards = remote.cards, !.rest = remote.cards]
    BY <1>7 DEF ListRemoteCards
  <2> QED
    BY <1>1, <2>1 DEF Reconcile, Remote
<1>8. CASE ReadDefault
  <2>1. PICK pc \in {"cards", "setDefault"}, unread \in BOOLEAN, d \in Cards \cup {NoCard} :
          reconcile' = [reconcile EXCEPT !.pc = pc, !.default = d, !.defaultAt = Len(events),
                                         !.unread = unread]
    <3>1. remote.default \in Cards \cup {NoCard} /\ NoCard \in Cards \cup {NoCard}
      BY <1>1 DEF Remote
    <3>2. PICK unread \in BOOLEAN :
            reconcile' = [reconcile EXCEPT
              !.pc = Looping(reconcile.cards, "cards", "setDefault"),
              !.default = IF unread THEN NoCard ELSE remote.default,
              !.defaultAt = Len(events), !.unread = unread]
      BY <1>8 DEF ReadDefault
    <3>3. Looping(reconcile.cards, "cards", "setDefault") \in {"cards", "setDefault"}
      BY LoopingIs
    <3>4. (IF unread THEN NoCard ELSE remote.default) \in Cards \cup {NoCard}
      BY <3>1
    <3> QED
      BY <3>2, <3>3, <3>4
  <2> QED
    BY <1>1, <2>1 DEF Reconcile
<1>9. ASSUME NEW c \in Cards, backfillPaymentMethod(c) PROVE reconcile' \in Reconcile
  <2>1. PICK pc \in {"cards", "setDefault"} :
          reconcile' = [reconcile EXCEPT !.pc = pc, !.rest = reconcile.rest \ {c}]
    BY <1>9, LoopingIs DEF backfillPaymentMethod
  <2> QED
    BY <1>1, <2>1 DEF Reconcile
<1>10. CASE backfillDefault
  <2>1. reconcile' = [reconcile EXCEPT !.pc = "compare", !.cards = {}, !.listedAt = 0,
                                       !.default = NoCard, !.defaultAt = 0, !.unread = FALSE]
    BY <1>10 DEF backfillDefault
  <2> QED
    BY <1>1, <2>1 DEF Reconcile
<1>11. CASE ListingFails
  <2>1. PICK pc \in {"listCards", "compare"} :
          reconcile' = [reconcile EXCEPT !.pc = pc, !.listedAt = 0]
    BY <1>11 DEF ListingFails
  <2> QED
    BY <1>1, <2>1 DEF Reconcile
<1>12. CASE reconcileAccount \/ ReconcileFails
  BY <1>2, <1>12, NoReconcileType DEF reconcileAccount, ReconcileFails
<1> QED
  BY <1>3, <1>4, <1>5, <1>6, <1>7, <1>8, <1>9, <1>10, <1>11, <1>12 DEF ReconcileStep

\* A reconciliation keeps the base.
LEMMA ReconcileBase ==
  ASSUME Base, ReconcileStep
  PROVE Base'
<1>1. TypeOK /\ RemoteSound /\ SoundEvents /\ SingleDefault
  BY DEF Base
<1>2. UNCHANGED <<remote, events, stray, acked, handler, billing_events, applied>>
  BY ReconcileLeaves DEF web, stripe
<1>3. Len(events) \in 0..MaxEvents
  BY <1>1, LenProperties DEF TypeOK
<1>13. reconcile \in Reconcile
  BY <1>1 DEF TypeOK
<1>4. \A d \in EventIds : Placed(d)'
  BY <1>2 DEF Base, Placed, Msg
<1>5. RemoteSound' /\ SoundEvents'
  BY <1>1, <1>2 DEF RemoteSound, SoundEvents, Newest
<1>6. account' \in Account
  <2>1. account \in Account /\ reconcile.fetched \in Account
    BY <1>1 DEF TypeOK, Reconcile
  <2>2. CASE account' = ApplyBillingEvent(reconcile.fetched)
    <3> DEFINE m == reconcile.fetched
    <3>1. m \in Account
      BY <2>1
    <3> HIDE DEF m
    <3>2. ApplyBillingEvent(m) \in Account
      BY <2>1, <3>1 DEF ApplyBillingEvent, Account
    <3> QED
      BY <2>2, <3>2 DEF m
  <2>3. account' = account \/ account' = ApplyBillingEvent(reconcile.fetched)
    BY DEF ReconcileStep, tables, ReadAccount, FetchBillingState, ListRemoteInvoices, backfillInvoice, ListRemoteCards, ReadDefault,
           backfillPaymentMethod, backfillDefault, ListingFails, reconcileAccount, ReconcileFails
  <2> QED
    BY <2>1, <2>2, <2>3
<1>7. invoices' \in [Invoices -> InvoiceStatus]
  <2>1. invoices \in [Invoices -> InvoiceStatus]
    BY <1>1 DEF TypeOK
  <2>2. ASSUME NEW f \in reconcile.invoices, invoices' = UpsertInvoice(invoices, {f})
        PROVE invoices' \in [Invoices -> InvoiceStatus]
    <3>1. f.status \in InvoiceStatus
      BY <1>13 DEF Reconcile, Listed
    <3> QED
      BY <2>1, <2>2, <3>1, UpsertInvoiceType
  <2>3. \/ UNCHANGED invoices
        \/ \E f \in reconcile.invoices : invoices' = UpsertInvoice(invoices, {f})
    BY DEF ReconcileStep, tables, ReadAccount, FetchBillingState, ListRemoteInvoices, backfillInvoice, ListRemoteCards, ReadDefault,
           backfillPaymentMethod, backfillDefault, ListingFails, reconcileAccount, ReconcileFails
  <2> QED
    BY <2>1, <2>2, <2>3
<1>8. payment_methods' \in [Cards -> CardStatus] /\ SingleDefault'
  <2>1. payment_methods \in [Cards -> CardStatus]
    BY <1>1 DEF TypeOK, CardStatus
  <2>2. ASSUME NEW c \in Cards, payment_methods' = UpsertPaymentMethod(payment_methods, {c})
        PROVE payment_methods' \in [Cards -> CardStatus] /\ SingleDefault'
    BY <1>1, <2>1, <2>2, CardStatements DEF SingleDefault
  <2>3. ASSUME payment_methods' = SetDefaultPaymentMethod(payment_methods, reconcile.default)
        PROVE payment_methods' \in [Cards -> CardStatus] /\ SingleDefault'
    BY <2>1, <2>3, CardStatements DEF SingleDefault
  <2>4. ASSUME UNCHANGED payment_methods
        PROVE payment_methods' \in [Cards -> CardStatus] /\ SingleDefault'
    BY <1>1, <2>1, <2>4 DEF SingleDefault
  <2>5. \/ UNCHANGED payment_methods
        \/ payment_methods' = SetDefaultPaymentMethod(payment_methods, reconcile.default)
        \/ \E c \in Cards : payment_methods' = UpsertPaymentMethod(payment_methods, {c})
    BY DEF ReconcileStep, tables, ReadAccount, FetchBillingState, ListRemoteInvoices, backfillInvoice, ListRemoteCards, ReadDefault,
           backfillPaymentMethod, backfillDefault, ListingFails, reconcileAccount, ReconcileFails
  <2> QED
    BY <2>2, <2>3, <2>4, <2>5
<1>9. faults' \in 0..MaxFaults
  <2>1. faults' = faults \/ Fault
    BY DEF ReconcileStep, ReadAccount, FetchBillingState, ListRemoteInvoices, backfillInvoice, ListRemoteCards, ReadDefault,
           backfillPaymentMethod, backfillDefault, ListingFails, reconcileAccount, ReconcileFails
  <2> QED
    BY <1>1, <2>1, BoundsAssumption DEF TypeOK, Fault
<1>10. /\ latest' \in [Mirrors -> 0..MaxEvents] /\ late' \subseteq Mirrors
       /\ lost' \subseteq EventIds \X Mirrors
  <2>1. \/ late' \subseteq late \cup {"cards"} /\ UNCHANGED <<latest, lost>>
        \/ \E f \in reconcile.invoices : Refreshed({f.id}, reconcile.listedAt)
        \/ Refreshed({"cards"}, reconcile.listedAt)
        \/ Refreshed({"account"}, reconcile.at)
    BY DEF ReconcileStep, shown, ReadAccount, FetchBillingState, ListRemoteInvoices, backfillInvoice, ListRemoteCards, ReadDefault,
           backfillPaymentMethod, backfillDefault, ListingFails, reconcileAccount, ReconcileFails
  <2>2. reconcile.at \in 0..MaxEvents /\ reconcile.listedAt \in 0..MaxEvents
    BY <1>13 DEF Reconcile
  <2>3. /\ {"cards"} \in SUBSET Mirrors /\ {"account"} \in SUBSET Mirrors
        /\ \A f \in reconcile.invoices : {f.id} \in SUBSET Mirrors
    BY <1>13 DEF Mirrors, Reconcile, Listed
  <2>4. CASE late' \subseteq late \cup {"cards"} /\ UNCHANGED <<latest, lost>>
    BY <1>1, <2>3, <2>4 DEF TypeOK
  <2> QED
    BY <1>1, <2>1, <2>2, <2>3, <2>4, RefreshedType
<1>11. astray' \in BOOLEAN /\ cleared' \in BOOLEAN
  <2>1. astray' = astray \/ astray' = (reconcile.fetched.status = "canceled")
    BY DEF ReconcileStep, shown, ReadAccount, FetchBillingState, ListRemoteInvoices, backfillInvoice, ListRemoteCards, ReadDefault,
           backfillPaymentMethod, backfillDefault, ListingFails, reconcileAccount, ReconcileFails
  <2>2. cleared' = cleared \/ cleared' = reconcile.unread
    BY DEF ReconcileStep, shown, ReadAccount, FetchBillingState, ListRemoteInvoices, backfillInvoice, ListRemoteCards, ReadDefault,
           backfillPaymentMethod, backfillDefault, ListingFails, reconcileAccount, ReconcileFails
  <2>3. reconcile.unread \in BOOLEAN /\ cleared \in BOOLEAN
    BY <1>1, <1>13 DEF TypeOK, Reconcile
  <2> QED
    BY <1>1, <2>1, <2>2, <2>3 DEF TypeOK
<1>12. TypeOK'
  <2>1. /\ remote' \in Remote /\ events' \in Seq(Event) /\ Len(events') <= MaxEvents
        /\ stray' \subseteq EventIds /\ acked' \subseteq EventIds
        /\ handler' \in [EventIds -> {"none", "apply", "reject", "effects", "mark", "ignore",
                                      "done"}]
        /\ billing_events' \in [EventIds -> {"absent", "received", "processed", "failed",
                                             "ignored"}]
        /\ applied' \in [EventIds -> Nat]
    BY <1>1, <1>2 DEF TypeOK
  <2>2. reconcile' \in Reconcile
    BY ReconcileType
  <2> QED
    BY <1>6, <1>7, <1>8, <1>9, <1>10, <1>11, <2>1, <2>2 DEF TypeOK, CardStatus
<1> QED
  BY <1>4, <1>5, <1>8, <1>12 DEF Base

\* Stripe's steps keep it.
LEMMA StripeBase ==
  ASSUME Base, Stripe
  PROVE Base'
<1>1. TypeOK /\ RemoteSound /\ SoundEvents /\ SingleDefault
  BY DEF Base
<1>2. Len(events) \in Nat
  BY <1>1, LenProperties DEF TypeOK
<1>3. CASE SetAccountStripeCustomerID
  <2>1. account' \in Account
    BY <1>1, <1>3 DEF SetAccountStripeCustomerID, TypeOK, Account
  <2>2. UNCHANGED <<remote, events, stray, acked, handler, billing_events, invoices,
                    payment_methods, reconcile, faults, applied, latest, late, lost, astray,
                    cleared>>
    BY <1>3 DEF SetAccountStripeCustomerID, stripe, history
  <2>3. TypeOK'
    BY <1>1, <2>1, <2>2 DEF TypeOK
  <2>4. RemoteSound' /\ SoundEvents' /\ SingleDefault'
    BY <1>1, <2>2 DEF RemoteSound, SoundEvents, SingleDefault, Newest
  <2>5. \A d \in EventIds : Placed(d)'
    BY <2>2 DEF Base, Placed, Msg
  <2> QED
    BY <2>3, <2>4, <2>5 DEF Base
<1>4. CASE ~SetAccountStripeCustomerID
  <2>1. Grows /\ remote' \in Remote /\ RemoteSound' /\ stray' \subseteq EventIds
    BY <1>4, StripeStep
  <2>2. UNCHANGED <<acked, handler, billing_events, account, invoices,
                    payment_methods, reconcile, faults, applied, latest, late, lost, astray,
                    cleared>>
    BY <1>4, StripeStep DEF local, history
  <2>3. TypeOK'
    BY <1>1, <2>1, <2>2 DEF TypeOK, Grows
  <2>4. Len(events') \in Nat
    BY <2>1, LenProperties DEF Grows
  <2>5. SoundEvents'
    BY <1>1, <1>2, <2>1, <2>4 DEF SoundEvents, Grows
  <2>6. \A d \in EventIds : Placed(d)'
    BY <1>2, <2>1, <2>2, <2>4, StaysPlaced DEF Base, Grows
  <2>7. SingleDefault'
    BY <1>1, <2>2 DEF SingleDefault
  <2> QED
    BY <2>1, <2>3, <2>5, <2>6, <2>7 DEF Base
<1> QED
  BY <1>3, <1>4

\* Every step keeps the base.
LEMMA BaseStep ==
  ASSUME Base, [Next]_vars
  PROVE Base'
<1>1. CASE Stripe
  BY <1>1, StripeBase
<1>2. ASSUME NEW e \in EventIds, HandleWebhook(e) PROVE Base'
  BY <1>2, HandlerBase
<1>3. CASE ReconcileStep
  BY <1>3, ReconcileBase
<1>4. CASE UNCHANGED vars
  <2>1. UNCHANGED <<remote, events, stray, acked, handler, billing_events, account, invoices,
                    payment_methods, reconcile, faults, applied, latest, late, lost, astray,
                    cleared>>
    BY <1>4 DEF vars, stripe, history
  <2>2. TypeOK' /\ RemoteSound' /\ SoundEvents' /\ SingleDefault'
    BY <2>1 DEF Base, TypeOK, RemoteSound, SoundEvents, SingleDefault, Newest
  <2>3. \A d \in EventIds : Placed(d)'
    BY <2>1 DEF Base, Placed, Msg
  <2> QED
    BY <2>2, <2>3 DEF Base
<1> QED
  BY <1>1, <1>2, <1>3, <1>4 DEF Next

\* The base holds in every reachable state.
LEMMA BaseHolds == Spec => []Base
<1>1. Base /\ [Next]_vars => Base'
  BY BaseStep
<1> QED
  BY BaseInit, <1>1, PTL DEF Spec

\* Every variable keeps its type, whatever Stripe, the deliveries and the faults do:
\* no event blanks the account's plan or writes a status it does not know.
THEOREM TypesAreKept == Spec => []TypeOK
<1>1. Base => TypeOK
  BY DEF Base
<1> QED
  BY BaseHolds, <1>1, PTL

\* One card at most is the default, in whatever order events about cards arrive.
THEOREM OneCardIsDefault == Spec => []OneDefaultCard
<1>1. ASSUME Base PROVE OneDefaultCard
  <2> DEFINE S == {c \in Cards : payment_methods[c] = "default"}
  <2>1. S = {} \/ \E c \in S : S = {c}
    BY <1>1 DEF Base, SingleDefault
  <2>2. CASE S = {}
    <3>1. Cardinality(S) = 0
      BY <2>2, FS_EmptySet
    <3> QED
      BY <3>1 DEF OneDefaultCard
  <2>3. CASE \E c \in S : S = {c}
    <3>1. Cardinality(S) = 1
      BY <2>3, FS_Singleton
    <3> QED
      BY <3>1 DEF OneDefaultCard
  <2> QED
    BY <2>1, <2>2, <2>3
<1> QED
  BY BaseHolds, <1>1, PTL

\* An event changes the account at most once, and one that was answered with 200
\* without having changed it is on record as received or failed.
THEOREM EventsApplyOnce == Spec => []AppliedOnceOrOnRecord
<1>1. ASSUME Base PROVE AppliedOnceOrOnRecord
  <2>1. Len(events) \in Nat /\ Len(events) <= MaxEvents
    BY <1>1, LenProperties DEF Base, TypeOK
  <2>2. ASSUME NEW e \in 1..Len(events)
        PROVE /\ applied[e] <= 1
              /\ e \in acked /\ AppliesToAccount(Msg(e)) /\ applied[e] = 0
                   => billing_events[e] \in {"received", "failed"}
    <3>1. e \in EventIds
      BY <2>1, BoundsAssumption DEF EventIds
    <3>2. /\ Placed(e)
          /\ billing_events[e] \in {"absent", "received", "processed", "failed", "ignored"}
      BY <1>1, <3>1 DEF Base, TypeOK
    <3> QED
      BY <3>2 DEF Placed
  <2> QED
    BY <2>2 DEF AppliedOnceOrOnRecord
<1> QED
  BY BaseHolds, <1>1, PTL

-----------------------------------------------------------------------------
(* What has reached a mirror.                                              *)

\* The handler of event e is past the statement that writes the mirror m.
Past(e, m) ==
  handler[e] \notin IF m = "account" THEN {"none", "apply"} ELSE {"none", "apply", "effects"}

\* An event that should have reached a mirror, and whose handler is past that, has
\* reached it or is lost, and what has reached a mirror has been emitted.
Arrived ==
  /\ \A e \in 1..Len(events), m \in Mirrors :
       m \in Targets(Msg(e)) /\ Past(e, m) => e <= latest[m] \/ <<e, m>> \in lost
  /\ \A m \in Mirrors : latest[m] <= Len(events)
  /\ reconcile.at <= Len(events)
  /\ reconcile.listedAt <= Len(events) /\ reconcile.defaultAt <= Len(events)

\* The events that reached the mirror did so in order, none is lost, and none older
\* than the newest is still to come.
Ready(m) ==
  /\ m \notin late
  /\ \A e \in EventIds : <<e, m>> \notin lost
  /\ \A e \in EventIds : e < latest[m] /\ m \in Targets(Msg(e)) => Past(e, m)

Delivery == Base /\ Arrived

\* The step leaves the mirror alone: an event that gets past it is lost to it.
KeptBy(m) ==
  /\ UNCHANGED events
  /\ latest'[m] = latest[m]
  /\ m \in late => m \in late'
  /\ \A d \in EventIds : <<d, m>> \in lost => <<d, m>> \in lost'
  /\ \A d \in EventIds : m \in Targets(Msg(d)) /\ Past(d, m)' => Past(d, m) \/ <<d, m>> \in lost'

\* The step writes the mirror from event e.
WrittenBy(m, e) ==
  /\ UNCHANGED events
  /\ m \in Targets(Msg(e)) /\ e \in 1..Len(events)
  /\ latest'[m] = IF e > latest[m] THEN e ELSE latest[m]
  /\ m \in late' <=> m \in late \/ e < latest[m]
  /\ UNCHANGED lost
  /\ \A d \in EventIds \ {e} : Past(d, m)' <=> Past(d, m)

\* The step writes the mirror from what Stripe said with the events up to at.
RefreshedBy(m, at) ==
  /\ UNCHANGED <<events, handler>>
  /\ at \in 0..Len(events)
  /\ latest'[m] = IF at > latest[m] THEN at ELSE latest[m]
  /\ m \in late' <=> at < latest[m]
  /\ \A d \in EventIds : <<d, m>> \in lost' <=> <<d, m>> \in lost /\ d > at

\* The step of a handler that writes a mirror from an event.
Writes(e, m) ==
  IF m = "account" THEN ApplyEvent(e)
  ELSE applyWebhookSideEffects(e) /\ m \in Targets(Msg(e))

\* A handler's step writes a mirror the event targets, or leaves the mirror alone.
LEMMA HandlerMirror ==
  ASSUME Base, NEW e \in EventIds, HandleWebhook(e), NEW m \in Mirrors
  PROVE IF Writes(e, m) THEN WrittenBy(m, e) ELSE KeptBy(m)
<1>1. TypeOK /\ Placed(e) /\ UNCHANGED events
  BY HandlerLeaves DEF Base, stripe
<1>2. \A d \in EventIds : Msg(d)' = Msg(d)
  BY <1>1 DEF Msg
<1>3. \A d \in EventIds \ {e} : handler'[d] = handler[d]
  BY <1>1, OthersStay
<1>4. \A d \in EventIds \ {e} : Past(d, m)' <=> Past(d, m)
  BY <1>3 DEF Past
<1>5. CASE ApplyEvent(e)
  <2>1. /\ handler[e] = "apply" /\ UNCHANGED lost /\ Reached(e, {"account"})
        /\ handler'[e] = IF HasSideEffect(Msg(e)) THEN "effects" ELSE "mark"
    BY <1>1, <1>5 DEF ApplyEvent, TypeOK
  <2>2. e \in 1..Len(events) /\ AppliesToAccount(Msg(e)) /\ SoundEvent(events[e])
    BY <1>1, <2>1, Recorded DEF Placed
  <2>3. CASE m = "account"
    <3>1. m \in Targets(Msg(e))
      BY <2>2, <2>3 DEF Targets
    <3>2. /\ latest'[m] = IF e > latest[m] THEN e ELSE latest[m]
          /\ m \in late' <=> m \in late \/ e < latest[m]
      BY <2>1, <2>3 DEF Reached
    <3> QED
      BY <1>1, <1>4, <1>5, <2>1, <2>2, <2>3, <3>1, <3>2 DEF Writes, WrittenBy
  <2>4. CASE m # "account"
    <3>1. latest'[m] = latest[m] /\ (m \in late => m \in late')
      BY <1>1, <2>1, <2>4 DEF Reached, TypeOK
    <3>2. m \in Targets(Msg(e)) /\ Past(e, m)' => FALSE
      BY <2>1, <2>2, <2>4, TargetsAre DEF Past, Msg
    <3>3. KeptBy(m)
      BY <1>1, <1>4, <2>1, <3>1, <3>2 DEF KeptBy
    <3>4. ~applyWebhookSideEffects(e)
      BY <2>1 DEF applyWebhookSideEffects
    <3> QED
      BY <2>4, <3>3, <3>4 DEF Writes
  <2> QED
    BY <2>3, <2>4
<1>6. CASE applyWebhookSideEffects(e)
  <2>1. /\ handler[e] = "effects" /\ UNCHANGED lost /\ handler'[e] = "mark"
        /\ Reached(e, Targets(Msg(e)) \ {"account"})
    BY <1>1, <1>6 DEF applyWebhookSideEffects, TypeOK
  <2>2. e \in 1..Len(events)
    BY <1>1, <2>1 DEF Placed
  <2>3. CASE m # "account" /\ m \in Targets(Msg(e))
    <3>1. /\ latest'[m] = IF e > latest[m] THEN e ELSE latest[m]
          /\ m \in late' <=> m \in late \/ e < latest[m]
      BY <2>1, <2>3 DEF Reached
    <3> QED
      BY <1>1, <1>4, <1>6, <2>1, <2>2, <2>3, <3>1 DEF Writes, WrittenBy
  <2>4. CASE m = "account" \/ m \notin Targets(Msg(e))
    <3>1. latest'[m] = latest[m] /\ (m \in late => m \in late')
      BY <1>1, <2>1, <2>4 DEF Reached, TypeOK
    <3>2. m \in Targets(Msg(e)) => Past(e, m)
      BY <2>1, <2>4 DEF Past
    <3>3. KeptBy(m)
      BY <1>1, <1>4, <2>1, <3>1, <3>2 DEF KeptBy
    <3>4. ~ApplyEvent(e)
      BY <2>1 DEF ApplyEvent
    <3> QED
      BY <2>4, <3>3, <3>4 DEF Writes
  <2> QED
    BY <2>3, <2>4
<1>7. CASE ~ApplyEvent(e) /\ ~applyWebhookSideEffects(e)
  <2>1. UNCHANGED <<latest, late>>
    BY <1>7 DEF HandleWebhook, RecordBillingWebhookEvent, Duplicate, ApplyEventFails, MarkFailed,
         SideEffectFails, MarkProcessed, HandlerCrash, StripeGivesUp, history
  <2>2. \A d \in EventIds : <<d, m>> \in lost => <<d, m>> \in lost'
    BY <1>7 DEF HandleWebhook, RecordBillingWebhookEvent, Duplicate, ApplyEventFails, MarkFailed,
         SideEffectFails, MarkProcessed, HandlerCrash, StripeGivesUp, history, Lose
  <2>3. m \in Targets(Msg(e)) /\ Past(e, m)' => Past(e, m) \/ <<e, m>> \in lost'
    <3>0. handler \in [EventIds -> {"none", "apply", "reject", "effects", "mark", "ignore", "done"}]
      BY <1>1 DEF TypeOK
    <3>1. CASE RecordBillingWebhookEvent(e)
      <4>1. SoundEvent(events[e])
        BY <3>1, Recorded DEF RecordBillingWebhookEvent
      <4>2. handler'[e] = IF AppliesToAccount(Msg(e)) THEN "apply"
                          ELSE IF HasSideEffect(Msg(e)) THEN "effects" ELSE "ignore"
        BY <3>0, <3>1 DEF RecordBillingWebhookEvent
      <4> QED
        BY <4>1, <4>2, TargetsAre DEF Past, Msg
    <3>2. CASE ApplyEventFails(e) \/ StripeGivesUp(e)
      <4>1. Lose(e, Targets(Msg(e)))
        BY <3>2 DEF ApplyEventFails, StripeGivesUp
      <4> QED
        BY <4>1 DEF Lose
    <3>3. CASE SideEffectFails(e)
      <4>1. Lose(e, Targets(Msg(e)) \ {"account"}) /\ handler[e] = "effects"
        BY <3>3 DEF SideEffectFails
      <4> QED
        BY <4>1 DEF Lose, Past
    <3>4. CASE HandlerCrash(e)
      <4>1. Lose(e, CASE handler[e] \in {"apply", "reject"} -> Targets(Msg(e))
                      [] handler[e] = "effects" -> Targets(Msg(e)) \ {"account"}
                      [] OTHER -> {})
        BY <3>4 DEF HandlerCrash
      <4>2. handler[e] # "none"
        BY <3>4 DEF HandlerCrash
      <4>3. CASE handler[e] = "apply"
        BY <4>1, <4>3 DEF Lose
      <4>4. CASE handler[e] = "effects"
        BY <4>1, <4>4 DEF Lose, Past
      <4>5. CASE handler[e] \notin {"none", "apply", "effects"}
        BY <4>5 DEF Past
      <4> QED
        BY <4>2, <4>3, <4>4, <4>5
    <3>5. CASE Duplicate(e) \/ MarkFailed(e) \/ MarkProcessed(e)
      BY <3>0, <3>5 DEF Duplicate, MarkFailed, MarkProcessed, Past
    <3> QED
      BY <1>7, <3>1, <3>2, <3>3, <3>4, <3>5 DEF HandleWebhook
  <2>4. KeptBy(m)
    BY <1>1, <1>4, <2>1, <2>2, <2>3 DEF KeptBy
  <2> QED
    BY <1>7, <2>4 DEF Writes
<1> QED
  BY <1>5, <1>6, <1>7

\* A statement of a backfill that succeeds.
WritesInvoice(f) == backfillInvoice(f) /\ UNCHANGED faults
WritesDefault == backfillDefault /\ UNCHANGED faults

\* What each of the two does,
LEMMA WritesInvoiceIs ==
  ASSUME Base, NEW f, WritesInvoice(f)
  PROVE /\ f \in reconcile.invoices /\ f \in Listed /\ invoices' = UpsertInvoice(invoices, {f})
        /\ Refreshed({f.id}, reconcile.listedAt)
<1>1. faults \in Nat /\ reconcile \in Reconcile
  BY BoundsAssumption DEF Base, TypeOK
<1>2. ~Fault
  BY <1>1 DEF WritesInvoice, Fault
<1> QED
  BY <1>1, <1>2 DEF WritesInvoice, backfillInvoice, Reconcile

\* and the other.
LEMMA WritesDefaultIs ==
  ASSUME Base, WritesDefault
  PROVE /\ reconcile.pc = "setDefault" /\ cleared' = reconcile.unread
        /\ payment_methods' = SetDefaultPaymentMethod(payment_methods, reconcile.default)
        /\ IF ShowsListed
           THEN Refreshed({"cards"}, reconcile.listedAt)
           ELSE /\ late' = IF reconcile.defaultAt < latest["cards"]
                           THEN late \cup {"cards"} ELSE late
                /\ UNCHANGED <<latest, lost>>
<1>1. faults \in Nat
  BY BoundsAssumption DEF Base, TypeOK
<1>2. ~Fault
  BY <1>1 DEF WritesDefault, Fault
<1> QED
  BY <1>2 DEF WritesDefault, backfillDefault

\* The mirrors a reconciliation's step writes, and as of which event.
Refreshes(m, at) ==
  \/ /\ \E f \in reconcile.invoices : WritesInvoice(f) /\ m = f.id
     /\ at = reconcile.listedAt
  \/ WritesDefault /\ ShowsListed /\ m = "cards" /\ at = reconcile.listedAt
  \/ /\ reconcileAccount /\ m = "account" /\ at = reconcile.at
     /\ Differs \/ account = reconcile.local

\* A reconciliation's step refreshes a mirror, or leaves it alone.
LEMMA ReconcileMirror ==
  ASSUME Delivery, ReconcileStep, NEW m \in Mirrors
  PROVE IF \E at \in 0..Len(events) : Refreshes(m, at)
        THEN \A at \in 0..Len(events) : Refreshes(m, at) => RefreshedBy(m, at)
        ELSE KeptBy(m)
<1>1. TypeOK /\ Base /\ UNCHANGED <<events, handler>> /\ reconcile \in Reconcile
  BY ReconcileLeaves DEF Delivery, Base, web, stripe, TypeOK
<1>2. /\ Len(events) \in Nat /\ reconcile.at \in 0..Len(events)
      /\ reconcile.listedAt \in 0..Len(events)
  BY <1>1, LenProperties DEF TypeOK, Reconcile, Delivery, Arrived
<1>4. ASSUME NEW ms, NEW at \in 0..Len(events), Refreshed(ms, at)
      PROVE IF m \in ms THEN RefreshedBy(m, at) ELSE KeptBy(m)
  <2>1. latest'[m] = IF m \in ms /\ at > latest[m] THEN at ELSE latest[m]
    BY <1>4 DEF Refreshed
  <2>2. /\ m \in ms => (m \in late' <=> at < latest[m])
        /\ m \notin ms => (m \in late' <=> m \in late)
    BY <1>1, <1>4 DEF Refreshed, TypeOK
  <2>3. \A d \in EventIds : <<d, m>> \in lost' <=> <<d, m>> \in lost /\ ~(m \in ms /\ d <= at)
    BY <1>4 DEF Refreshed
  <2>4. \A d \in EventIds : ~(d <= at) <=> d > at
    BY <1>2, BoundsAssumption DEF EventIds
  <2>5. \A d : Past(d, m)' <=> Past(d, m)
    BY <1>1 DEF Past
  <2>6. CASE m \in ms
    BY <1>1, <1>4, <2>1, <2>2, <2>3, <2>4, <2>6 DEF RefreshedBy
  <2>7. CASE m \notin ms
    BY <1>1, <2>1, <2>2, <2>3, <2>5, <2>7 DEF KeptBy
  <2> QED
    BY <2>6, <2>7
<1>5. ASSUME late \subseteq late', UNCHANGED <<latest, lost>> PROVE KeptBy(m)
  BY <1>1, <1>5 DEF KeptBy, Past
<1>6. ASSUME NEW at \in 0..Len(events), Refreshes(m, at) PROVE RefreshedBy(m, at)
  <2>1. ASSUME NEW f \in reconcile.invoices, WritesInvoice(f), m = f.id, at = reconcile.listedAt
        PROVE RefreshedBy(m, at)
    <3>1. Refreshed({f.id}, at) /\ m \in {f.id}
      BY <1>1, <2>1, WritesInvoiceIs
    <3> QED
      BY <1>4, <3>1
  <2>2. CASE WritesDefault /\ ShowsListed /\ m = "cards" /\ at = reconcile.listedAt
    <3>1. Refreshed({"cards"}, at) /\ m \in {"cards"}
      BY <1>1, <2>2, WritesDefaultIs
    <3> QED
      BY <1>4, <3>1
  <2>3. CASE /\ reconcileAccount /\ m = "account" /\ at = reconcile.at
             /\ Differs \/ account = reconcile.local
    <3>1. Refreshed({"account"}, at) /\ m \in {"account"}
      BY <2>3 DEF reconcileAccount
    <3> QED
      BY <1>4, <3>1
  <2> QED
    BY <1>6, <2>1, <2>2, <2>3 DEF Refreshes
<1>7. ASSUME \A at \in 0..Len(events) : ~Refreshes(m, at) PROVE KeptBy(m)
  <2>0. ~Refreshes(m, reconcile.listedAt) /\ ~Refreshes(m, reconcile.at)
    BY <1>2, <1>7
  <2>1. ASSUME NEW f \in reconcile.invoices, backfillInvoice(f) PROVE KeptBy(m)
    <3>1. CASE UNCHANGED faults
      <4>1. WritesInvoice(f)
        BY <2>1, <3>1 DEF WritesInvoice
      <4>2. m \notin {f.id}
        BY <2>0, <4>1 DEF Refreshes
      <4> QED
        BY <1>1, <1>2, <1>4, <4>1, <4>2, WritesInvoiceIs
    <3>2. CASE ~UNCHANGED faults
      BY <1>5, <2>1, <3>2 DEF backfillInvoice
    <3> QED
      BY <3>1, <3>2
  <2>2. CASE backfillDefault
    <3>1. CASE UNCHANGED faults
      <4>1. WritesDefault
        BY <2>2, <3>1 DEF WritesDefault
      <4>2. ShowsListed => m \notin {"cards"}
        BY <2>0, <4>1 DEF Refreshes
      <4>3. CASE ShowsListed
        BY <1>1, <1>2, <1>4, <4>1, <4>2, <4>3, WritesDefaultIs
      <4>4. CASE ~ShowsListed
        BY <1>1, <1>5, <4>1, <4>4, WritesDefaultIs
      <4> QED
        BY <4>3, <4>4
    <3>2. CASE ~UNCHANGED faults
      BY <1>5, <2>2, <3>2 DEF backfillDefault
    <3> QED
      BY <3>1, <3>2
  <2>3. CASE reconcileAccount
    <3> DEFINE written == Differs \/ account = reconcile.local
    <3>1. IF written THEN Refreshed({"account"}, reconcile.at) ELSE UNCHANGED <<latest, late, lost>>
      BY <2>3 DEF reconcileAccount
    <3>2. written => m \notin {"account"}
      BY <2>0, <2>3 DEF Refreshes
    <3> QED
      BY <1>2, <1>4, <1>5, <3>1, <3>2
  <2>4. ASSUME NEW c \in Cards, backfillPaymentMethod(c) PROVE KeptBy(m)
    BY <1>5, <2>4 DEF backfillPaymentMethod
  <2>5. CASE \/ ReadAccount \/ FetchBillingState \/ ListRemoteInvoices \/ ListRemoteCards
             \/ ReadDefault \/ ListingFails \/ ReconcileFails
    BY <1>5, <2>5 DEF ReadAccount, FetchBillingState, ListRemoteInvoices, ListRemoteCards,
                      ReadDefault, ListingFails, ReconcileFails, shown
  <2> QED
    BY <2>1, <2>2, <2>3, <2>4, <2>5 DEF ReconcileStep
<1> QED
  BY <1>6, <1>7

\* At first nothing has been emitted.
LEMMA DeliveryInit == Init => Delivery
<1> SUFFICES ASSUME Init PROVE Delivery
  OBVIOUS
<1>1. Base
  BY BaseInit
<1>2. /\ Len(events) = 0 /\ reconcile.at = 0 /\ \A m \in Mirrors : latest[m] = 0
      /\ reconcile.listedAt = 0 /\ reconcile.defaultAt = 0
  BY DEF Init, NoReconcile
<1>3. Arrived
  BY <1>2 DEF Arrived
<1> QED
  BY <1>1, <1>3 DEF Delivery

\* To the mirrors Stripe's steps are new events, at most two at a time.
LEMMA StripeMirror ==
  ASSUME Base, Stripe
  PROVE /\ Grows /\ Len(events') <= Len(events) + 2
        /\ UNCHANGED <<handler, reconcile, latest, late, lost>>
<1>1. events \in Seq(Event) /\ Len(events) <= MaxEvents /\ Len(events) \in Nat
  BY LenProperties DEF Base, TypeOK
<1>2. CASE SetAccountStripeCustomerID
  BY <1>1, <1>2 DEF SetAccountStripeCustomerID, stripe, history, Grows
<1>3. CASE ~SetAccountStripeCustomerID
  <2>1. Grows /\ UNCHANGED <<handler, reconcile, latest, late, lost>>
    BY <1>3, StripeStep DEF local, history
  <2>2. Len(events') <= Len(events) + 2
    <3>1. CASE EnsureCustomer \/ CompleteCheckout
      BY <1>1, <3>1, EnsureCustomerEffect, CheckoutEffect DEF One, Two
    <3>5. ASSUME NEW s \in 1..Newest, CancelSubscription(s)
          PROVE Len(events') <= Len(events) + 2
      BY <1>1, <3>5, CancelEffect DEF One
    <3>6. ASSUME NEW s \in 1..Newest, NEW i \in Invoices, FinalizeInvoice(i, s)
          PROVE Len(events') <= Len(events) + 2
      <4>1. One(InvoiceEvent("invoice.finalized", i, s))
        BY <3>6, FinalizeEffect, Zenon
      <4> QED
        BY <1>1, <4>1 DEF One
    <3>2. ASSUME NEW i \in Invoices, VoidInvoice(i)
          PROVE Len(events') <= Len(events) + 2
      BY <1>1, <3>2, VoidEffect DEF One
    <3>3. ASSUME NEW i \in Invoices, PayInvoice(i) \/ FailInvoice(i)
          PROVE Len(events') <= Len(events) + 2
      BY <1>1, <3>3, PayEffect, FailEffect DEF One, Two
    <3>4. ASSUME NEW c \in Cards, AttachCard(c) \/ DetachCard(c) \/ SetDefaultCard(c)
          PROVE Len(events') <= Len(events) + 2
      <4>1. \E a, b : One(a) \/ Two(a, b)
        BY <1>1, <3>4, AttachEffect, DetachEffect, SetDefaultEffect
      <4> QED
        BY <1>1, <4>1 DEF One, Two
    <3> QED
      BY <1>3, <3>1, <3>2, <3>3, <3>4, <3>5, <3>6 DEF Stripe
  <2> QED
    BY <2>1, <2>2
<1> QED
  BY <1>2, <1>3

\* The events emitted before are what they were.
LEMMA OldEvents ==
  ASSUME Base, Grows
  PROVE /\ Len(events) \in Nat /\ Len(events') \in Nat
        /\ \A k \in 1..Len(events) : k \in 1..Len(events') /\ Msg(k)' = Msg(k)
<1>1. Len(events) \in Nat /\ Len(events') \in Nat
  BY LenProperties DEF Base, TypeOK, Grows
<1> QED
  BY <1>1 DEF Grows, Msg

\* Every step keeps account of what has reached the mirrors.
LEMMA DeliveryStep ==
  ASSUME Delivery, [Next]_vars
  PROVE Delivery'
<1> DEFINE n == Len(events)
<1>1. /\ Base /\ Base' /\ Arrived /\ n \in Nat
      /\ latest \in [Mirrors -> 0..MaxEvents]
  BY BaseStep, LenProperties DEF Delivery, Base, TypeOK
<1>2. CASE Stripe
  <2>1. Grows /\ UNCHANGED <<handler, reconcile, latest, late, lost>>
    BY <1>1, <1>2, StripeMirror
  <2>2. \A k \in 1..n : Msg(k)' = Msg(k)
    BY <1>1, <2>1, OldEvents
  <2>3. n <= Len(events') /\ Len(events') \in Nat /\ reconcile.at \in Nat
        /\ reconcile.listedAt \in Nat /\ reconcile.defaultAt \in Nat
        /\ Len(events') <= MaxEvents
    BY <1>1, <2>1, OldEvents DEF Grows, Base, TypeOK, Reconcile
  <2>4. ASSUME NEW e \in 1..Len(events'), NEW m \in Mirrors, m \in Targets(Msg(e))', Past(e, m)'
        PROVE e <= latest'[m] \/ <<e, m>> \in lost'
    <3>1. handler[e] # "none"
      BY <2>1, <2>4 DEF Past
    <3>2. e \in EventIds
      BY <2>3, BoundsAssumption DEF EventIds
    <3>3. e \in 1..n
      BY <1>1, <3>1, <3>2 DEF Base, Placed
    <3>4. Past(e, m)
      BY <2>1, <2>4 DEF Past
    <3> QED
      BY <1>1, <2>1, <2>2, <2>4, <3>3, <3>4 DEF Arrived
  <2>5. Arrived'
    BY <1>1, <2>1, <2>3, <2>4 DEF Arrived
  <2> QED
    BY <1>1, <2>5 DEF Delivery
<1>3. ASSUME NEW m \in Mirrors,
             \/ KeptBy(m) \/ \E e \in EventIds : WrittenBy(m, e)
             \/ \E at \in 0..n : RefreshedBy(m, at)
      PROVE /\ latest'[m] <= Len(events')
            /\ \A d \in 1..Len(events') : m \in Targets(Msg(d))' /\ Past(d, m)' =>
                 d <= latest'[m] \/ <<d, m>> \in lost'
  <2>1. UNCHANGED events
    BY <1>3 DEF KeptBy, WrittenBy, RefreshedBy
  <2>2. \A d : Msg(d)' = Msg(d)
    BY <2>1 DEF Msg
  <2>3. latest[m] \in Nat /\ latest[m] <= n /\ \A d \in 1..n : d \in EventIds
    BY <1>1, BoundsAssumption DEF Arrived, EventIds, Base, TypeOK
  <2>4. \A d \in 1..n : m \in Targets(Msg(d)) /\ Past(d, m) => d <= latest[m] \/ <<d, m>> \in lost
    BY <1>1 DEF Arrived
  <2>5. CASE KeptBy(m)
    BY <2>1, <2>2, <2>3, <2>4, <2>5 DEF KeptBy
  <2>6. ASSUME NEW e \in EventIds, WrittenBy(m, e)
        PROVE /\ latest'[m] <= Len(events')
              /\ \A d \in 1..Len(events') : m \in Targets(Msg(d))' /\ Past(d, m)' =>
                   d <= latest'[m] \/ <<d, m>> \in lost'
    <3>1. latest[m] <= latest'[m] /\ e <= latest'[m] /\ latest'[m] <= n /\ latest'[m] \in Nat
      BY <1>1, <2>3, <2>6 DEF WrittenBy
    <3> QED
      BY <2>1, <2>2, <2>3, <2>4, <2>6, <3>1 DEF WrittenBy
  <2>7. ASSUME NEW at \in 0..n, RefreshedBy(m, at)
        PROVE /\ latest'[m] <= Len(events')
              /\ \A d \in 1..Len(events') : m \in Targets(Msg(d))' /\ Past(d, m)' =>
                   d <= latest'[m] \/ <<d, m>> \in lost'
    <3>1. latest[m] <= latest'[m] /\ at <= latest'[m] /\ latest'[m] <= n /\ latest'[m] \in Nat
      BY <1>1, <2>3, <2>7 DEF RefreshedBy
    <3>2. \A d : Past(d, m)' <=> Past(d, m)
      BY <2>7 DEF RefreshedBy, Past
    <3> QED
      BY <2>1, <2>2, <2>3, <2>4, <2>7, <3>1, <3>2 DEF RefreshedBy
  <2> QED
    BY <1>3, <2>5, <2>6, <2>7
<1>4. ASSUME UNCHANGED events, reconcile'.at <= n,
             reconcile'.listedAt <= n, reconcile'.defaultAt <= n,
             \A m \in Mirrors : \/ KeptBy(m) \/ \E e \in EventIds : WrittenBy(m, e)
                                \/ \E at \in 0..n : RefreshedBy(m, at)
      PROVE Delivery'
  <2>1. Arrived'
    BY <1>3, <1>4 DEF Arrived
  <2> QED
    BY <1>1, <2>1 DEF Delivery
<1>5. ASSUME NEW e \in EventIds, HandleWebhook(e) PROVE Delivery'
  <2>1. UNCHANGED <<events, reconcile>>
    BY <1>5, HandlerLeaves DEF stripe
  <2> QED
    BY <1>1, <1>4, <1>5, <2>1, HandlerMirror DEF Arrived
<1>6. CASE ReconcileStep
  <2>1. UNCHANGED events
    BY <1>6, ReconcileLeaves DEF web, stripe
  <2>2. reconcile'.at <= n /\ reconcile'.listedAt <= n /\ reconcile'.defaultAt <= n
    <3>1. /\ reconcile.at <= n /\ reconcile.listedAt <= n /\ reconcile.defaultAt <= n
          /\ reconcile \in Reconcile
      BY <1>1 DEF Arrived, Base, TypeOK
    <3>2. CASE FetchBillingState
      BY <1>1, <3>1, <3>2 DEF FetchBillingState, Reconcile
    <3>3. CASE reconcileAccount \/ ReconcileFails
      <4>1. reconcile' = NoReconcile(reconcile.count)
        BY <3>3 DEF reconcileAccount, ReconcileFails
      <4>2. reconcile'.at = 0 /\ reconcile'.listedAt = 0 /\ reconcile'.defaultAt = 0
        BY <4>1 DEF NoReconcile
      <4> QED
        BY <1>1, <4>2
    <3>4. CASE ListRemoteInvoices
      <4>1. PICK pc, listed :
              reconcile' = [reconcile EXCEPT !.pc = pc, !.invoices = listed, !.listedAt = n]
        BY <3>4 DEF ListRemoteInvoices
      <4> QED
        BY <1>1, <3>1, <4>1 DEF Reconcile
    <3>8. CASE ListRemoteCards
      BY <1>1, <3>1, <3>8 DEF ListRemoteCards, Reconcile
    <3>9. CASE ListingFails
      BY <1>1, <3>1, <3>9 DEF ListingFails, Reconcile
    <3>5. CASE ReadDefault
      BY <1>1, <3>1, <3>5 DEF ReadDefault, Reconcile
    <3>6. CASE backfillDefault
      BY <1>1, <3>1, <3>6 DEF backfillDefault, Reconcile
    <3>7. CASE ReadAccount \/ (\E f \in reconcile.invoices : backfillInvoice(f))
               \/ (\E c \in Cards : backfillPaymentMethod(c))
      BY <1>1, <3>1, <3>7 DEF ReadAccount, backfillInvoice, backfillPaymentMethod, Reconcile
    <3> QED
      BY <1>6, <3>2, <3>3, <3>4, <3>5, <3>6, <3>7, <3>8, <3>9 DEF ReconcileStep
  <2> QED
    BY <1>4, <1>6, <2>1, <2>2, ReconcileMirror
<1>7. CASE UNCHANGED vars
  <2>1. UNCHANGED <<events, handler, reconcile, latest, lost>>
    BY <1>7 DEF vars, stripe, history
  <2>2. \A d, m : Msg(d)' = Msg(d) /\ (Past(d, m)' <=> Past(d, m))
    BY <2>1 DEF Msg, Past
  <2>3. Arrived'
    BY <1>1, <2>1, <2>2 DEF Arrived
  <2> QED
    BY <1>1, <2>3 DEF Delivery
<1> QED
  BY <1>2, <1>5, <1>6, <1>7 DEF Next

\* When a mirror is ready after a step it was ready before it, and what the step wrote
\* was the newest to be written:
LEMMA ReadyKept ==
  ASSUME NEW m \in Mirrors, KeptBy(m), Ready(m)'
  PROVE Ready(m)
<1>1. \A d \in EventIds : Msg(d)' = Msg(d)
  BY DEF KeptBy, Msg
<1> QED
  BY <1>1 DEF KeptBy, Ready

\* no event between the newest before and an event written concerned the mirror,
LEMMA ReadyWritten ==
  ASSUME Delivery, NEW m \in Mirrors, NEW e \in EventIds, WrittenBy(m, e), Ready(m)'
  PROVE /\ Ready(m) /\ latest[m] \in 0..e /\ latest'[m] = e /\ e \in 1..Len(events)
        /\ \A d \in latest[m] + 1 .. e - 1 : m \notin Targets(Msg(d))
<1>1. \A d \in EventIds : Msg(d)' = Msg(d)
  BY DEF WrittenBy, Msg
<1>2. latest[m] \in Nat /\ e \in Nat /\ Len(events) \in Nat /\ Len(events) <= MaxEvents
  BY LenProperties, BoundsAssumption DEF Delivery, Base, TypeOK, EventIds
<1>3. m \notin late /\ latest[m] <= e /\ e \in 1..Len(events)
  BY <1>2 DEF WrittenBy, Ready
<1>4. latest'[m] = e
  BY <1>2, <1>3 DEF WrittenBy
<1>5. \A d \in EventIds : <<d, m>> \notin lost
  BY DEF WrittenBy, Ready
<1>6. Ready(m)
  <2>1. ASSUME NEW d \in EventIds, d < latest[m], m \in Targets(Msg(d)) PROVE Past(d, m)
    <3>1. d < e /\ d # e
      BY <1>2, <1>3, <2>1 DEF EventIds
    <3> QED
      BY <1>1, <1>4, <2>1, <3>1 DEF WrittenBy, Ready
  <2> QED
    BY <1>3, <1>5, <2>1 DEF Ready
<1>7. ASSUME NEW d \in latest[m] + 1 .. e - 1, m \in Targets(Msg(d)) PROVE FALSE
  <2>1. d \in EventIds /\ d \in 1..Len(events) /\ d # e /\ d < e /\ ~(d <= latest[m])
    BY <1>2, <1>3, BoundsAssumption DEF EventIds
  <2>2. Past(d, m)
    BY <1>1, <1>4, <1>7, <2>1 DEF WrittenBy, Ready
  <2> QED
    BY <1>5, <1>7, <2>1, <2>2 DEF Delivery, Arrived
<1> QED
  BY <1>2, <1>3, <1>4, <1>6, <1>7

\* and what was read from Stripe was as of the newest event that reached the mirror.
LEMMA ReadyRefreshed ==
  ASSUME Delivery, NEW m \in Mirrors, NEW at \in 0..Len(events), RefreshedBy(m, at), Ready(m)'
  PROVE latest'[m] = at
<1>1. latest[m] \in Nat /\ Len(events) \in Nat
  BY LenProperties DEF Delivery, Base, TypeOK
<1> QED
  BY <1>1 DEF RefreshedBy, Ready

\* Stripe's new events change nothing for a mirror that is ready.
LEMMA ReadyGrows ==
  ASSUME Delivery, NEW m \in Mirrors, Grows, UNCHANGED <<handler, latest, late, lost>>, Ready(m)'
  PROVE Ready(m) /\ latest'[m] = latest[m] /\ latest[m] \in 0..Len(events)
<1>1. latest[m] \in Nat /\ Len(events) \in Nat /\ latest[m] <= Len(events)
  BY LenProperties DEF Delivery, Base, TypeOK, Arrived
<1>2. ASSUME NEW d \in EventIds, d < latest[m], m \in Targets(Msg(d)) PROVE Past(d, m)
  <2>1. d \in 1..Len(events)
    BY <1>1, <1>2 DEF EventIds
  <2>2. Msg(d)' = Msg(d)
    BY <2>1, OldEvents DEF Delivery
  <2>3. Past(d, m)'
    BY <1>2, <2>2 DEF Ready
  <2> QED
    BY <2>3 DEF Past
<1> QED
  BY <1>1, <1>2 DEF Ready

\* Once everything is handled, a mirror that nothing was lost to and nothing older
\* has overwritten is ready, and no newer event concerns it.
LEMMA ReadyQuiet ==
  ASSUME Delivery, Quiet, NEW m \in Mirrors, InStep(m)
  PROVE /\ Ready(m) /\ latest[m] \in 0..Len(events)
        /\ \A d \in latest[m] + 1 .. Len(events) : m \notin Targets(Msg(d))
<1>1. latest[m] \in Nat /\ Len(events) \in Nat /\ latest[m] <= Len(events)
  BY LenProperties DEF Delivery, Base, TypeOK, Arrived
<1>2. \A d \in 1..Len(events) : Past(d, m)
  BY DEF Quiet, Past
<1>3. \A d \in EventIds : <<d, m>> \notin lost
  <2>1. \A d : <<d, m>>[2] = m
    OBVIOUS
  <2> QED
    BY <2>1 DEF InStep
<1>4. Ready(m)
  <2>1. ASSUME NEW d \in EventIds, d < latest[m] PROVE d \in 1..Len(events)
    BY <1>1, <2>1 DEF EventIds
  <2> QED
    BY <1>2, <1>3, <2>1 DEF Ready, InStep
<1>5. ASSUME NEW d \in latest[m] + 1 .. Len(events), m \in Targets(Msg(d)) PROVE FALSE
  <2>1. d \in 1..Len(events) /\ ~(d <= latest[m]) /\ d \in EventIds
    BY <1>1, BoundsAssumption DEF EventIds, Delivery, Base, TypeOK
  <2> QED
    BY <1>2, <1>3, <1>5, <2>1 DEF Delivery, Arrived
<1> QED
  BY <1>1, <1>4, <1>5

-----------------------------------------------------------------------------
(* The invoices.                                                           *)

\* The last event about an invoice says what Stripe says of it,
InvoiceSaid(i) ==
  \A k \in 1..Len(events) :
    About(events[k], i) /\ (\A d \in k + 1 .. Len(events) : ~About(events[d], i)) =>
      remote.invoices[i].status = StatusIn(events[k].type)

NoneAbout(k, i) == \A d \in k + 1 .. Len(events) : ~About(events[d], i)

\* a list that no event about it has followed says so too,
InvoiceListed(i) ==
  reconcile.pc = "invoices" /\ NoneAbout(reconcile.listedAt, i) =>
    \A f \in reconcile.invoices : f.id = i => f.status = remote.invoices[i].status

\* and if what has reached the table came in order, so does the table.
InvoiceShown(i) ==
  Ready(i) /\ NoneAbout(latest[i], i) => invoices[i] = remote.invoices[i].status

InvoicesTold ==
  Delivery /\ \A i \in Invoices : InvoiceSaid(i) /\ InvoiceListed(i) /\ InvoiceShown(i)

\* The table of invoices starts as Stripe has it.
LEMMA InvoicesInit == Init => InvoicesTold
<1> SUFFICES ASSUME Init PROVE InvoicesTold
  OBVIOUS
<1>1. Delivery /\ Len(events) = 0
  BY DeliveryInit DEF Init
<1>2. \A i \in Invoices : invoices[i] = remote.invoices[i].status
  BY DEF Init
<1>3. reconcile.pc # "invoices"
  BY DEF Init, NoReconcile
<1> QED
  BY <1>1, <1>2, <1>3 DEF InvoicesTold, InvoiceSaid, InvoiceListed, InvoiceShown

\* A new event about an invoice carries its new status; the first is about the invoice
\* that changes, and any other is about none.
LEMMA StripeInvoice ==
  ASSUME Base, Stripe, NEW i \in Invoices
  PROVE /\ \A k \in Len(events) + 1 .. Len(events') :
             About(events'[k], i) => remote'.invoices[i].status = StatusIn(events'[k].type)
        /\ \/ remote'.invoices[i].status = remote.invoices[i].status
           \/ Len(events) < Len(events') /\ About(events'[Len(events) + 1], i)
<1> DEFINE n == Len(events)
           Goal == /\ \A k \in n + 1 .. Len(events') :
                        About(events'[k], i) =>
                          remote'.invoices[i].status = StatusIn(events'[k].type)
                   /\ \/ remote'.invoices[i].status = remote.invoices[i].status
                      \/ n < Len(events') /\ About(events'[n + 1], i)
<1>1. n \in Nat
  BY LenProperties DEF Base, TypeOK
<1>2. ASSUME NEW a, One(a), a.type \notin InvoiceTypes, SameInvoices PROVE Goal
  BY <1>1, <1>2 DEF One, About, SameInvoices
<1>3. ASSUME NEW a, NEW b, Two(a, b), a.type \notin InvoiceTypes, b.type \notin InvoiceTypes,
             SameInvoices
      PROVE Goal
  BY <1>1, <1>3 DEF Two, About, SameInvoices
<1>4. ASSUME NEW x \in Invoices, NEW a, a.type \in InvoiceTypes, a.invoice = {x},
             NEW b, b.type \notin InvoiceTypes, One(a) \/ Two(a, b),
             remote'.invoices[x].status = StatusIn(a.type),
             \A y \in Invoices \ {x} : remote'.invoices[y] = remote.invoices[y]
      PROVE Goal
  <2>1. n + 1 <= Len(events') /\ events'[n + 1] = a
    BY <1>1, <1>4 DEF One, Two
  <2>2. \A k \in n + 1 .. Len(events') : k = n + 1 \/ events'[k] = b
    BY <1>1, <1>4 DEF One, Two
  <2>3. CASE i = x
    BY <1>1, <1>4, <2>1, <2>2, <2>3 DEF About
  <2>4. CASE i # x
    BY <1>1, <1>4, <2>1, <2>2, <2>4 DEF About
  <2> QED
    BY <2>3, <2>4
<1>5. \A num, s : /\ SubscriptionEvent(num, s).type \notin InvoiceTypes
                  /\ SessionEvent(num).type \notin InvoiceTypes
  BY DEF SubscriptionEvent, SessionEvent, MakeEvent, InvoiceTypes
<1>6. \A type \in {"customer.created", "customer.subscription.deleted"} :
        MakeEvent(type).type \notin InvoiceTypes
  BY DEF MakeEvent, InvoiceTypes
<1>7. \A type \in CardTypes : \A cards : CardEvent(type, cards).type \notin InvoiceTypes
  BY DEF CardEvent, MakeEvent, InvoiceTypes, CardTypes
<1>8. \A type \in InvoiceTypes : \A x, num : /\ InvoiceEvent(type, x, num).type = type
                                            /\ InvoiceEvent(type, x, num).invoice = {x}
  BY DEF InvoiceEvent, MakeEvent
<1>9. CASE SetAccountStripeCustomerID
  <2>1. UNCHANGED <<remote, events>>
    BY <1>9 DEF SetAccountStripeCustomerID, stripe
  <2> QED
    BY <1>1, <2>1
<1>10. CASE EnsureCustomer
  BY <1>2, <1>6, <1>10, EnsureCustomerEffect
<1>17. ASSUME NEW s \in 1..Newest, CancelSubscription(s) PROVE Goal
  BY <1>2, <1>6, <1>17, CancelEffect
<1>11. CASE CompleteCheckout
  BY <1>3, <1>5, <1>11, CheckoutEffect
<1>12. ASSUME NEW s \in 1..Newest, NEW x \in Invoices, FinalizeInvoice(x, s) PROVE Goal
  <2> DEFINE a == InvoiceEvent("invoice.finalized", x, s)
  <2>1. a.type = "invoice.finalized" /\ a.invoice = {x} /\ a.type \in InvoiceTypes
    BY <1>8 DEF InvoiceTypes
  <2>3. /\ One(a) /\ remote'.invoices[x] = [status |-> "open", sub |-> s]
        /\ \A y \in Invoices \ {x} : remote'.invoices[y] = remote.invoices[y]
    BY <1>12, FinalizeEffect, Zenon
  <2>2. /\ One(a) /\ remote'.invoices[x].status = "open"
        /\ \A y \in Invoices \ {x} : remote'.invoices[y] = remote.invoices[y]
    BY <2>3
  <2> QED
    BY <1>4, <1>5, <2>1, <2>2 DEF StatusIn
<1>13. ASSUME NEW x \in Invoices, VoidInvoice(x) PROVE Goal
  <2> DEFINE a == InvoiceEvent("invoice.voided", x, remote.invoices[x].sub)
  <2>1. a.type = "invoice.voided" /\ a.invoice = {x} /\ a.type \in InvoiceTypes
    BY <1>8 DEF InvoiceTypes
  <2>2. /\ One(a) /\ remote'.invoices[x].status = "void"
        /\ \A y \in Invoices \ {x} : remote'.invoices[y] = remote.invoices[y]
    BY <1>13, VoidEffect
  <2> QED
    BY <1>4, <1>5, <2>1, <2>2 DEF StatusIn
<1>14. ASSUME NEW x \in Invoices, PayInvoice(x) PROVE Goal
  <2> DEFINE a == InvoiceEvent("invoice.paid", x, remote.invoices[x].sub)
             b == SubscriptionEvent(remote.invoices[x].sub, "active")
  <2>1. a.type = "invoice.paid" /\ a.invoice = {x} /\ a.type \in InvoiceTypes
    BY <1>8 DEF InvoiceTypes
  <2>2. /\ One(a) \/ Two(a, b)
        /\ remote'.invoices[x].status = "paid"
        /\ \A y \in Invoices \ {x} : remote'.invoices[y] = remote.invoices[y]
    BY <1>14, PayEffect
  <2> QED
    BY <1>4, <1>5, <2>1, <2>2 DEF StatusIn
<1>15. ASSUME NEW x \in Invoices, FailInvoice(x) PROVE Goal
  <2> DEFINE a == InvoiceEvent("invoice.payment_failed", x, remote.invoices[x].sub)
             b == SubscriptionEvent(remote.invoices[x].sub, "past_due")
  <2>1. a.type = "invoice.payment_failed" /\ a.invoice = {x} /\ a.type \in InvoiceTypes
    BY <1>8 DEF InvoiceTypes
  <2>2. (One(a) \/ Two(a, b)) /\ remote.invoices[x].status = "open" /\ SameInvoices
    BY <1>15, FailEffect
  <2> QED
    BY <1>4, <1>5, <2>1, <2>2 DEF StatusIn, SameInvoices
<1>16. ASSUME NEW c \in Cards, AttachCard(c) \/ DetachCard(c) \/ SetDefaultCard(c) PROVE Goal
  <2>1. \E a, b : /\ One(a) \/ Two(a, b)
                  /\ a.type \notin InvoiceTypes /\ b.type \notin InvoiceTypes /\ SameInvoices
    BY <1>7, <1>16, AttachEffect, DetachEffect, SetDefaultEffect DEF CardTypes
  <2> QED
    BY <1>2, <1>3, <2>1
<1> QED
  BY <1>9, <1>10, <1>11, <1>12, <1>13, <1>14, <1>15, <1>16, <1>17 DEF Stripe

\* What becomes of the list in a reconciliation's step.
LEMMA ListStep ==
  ASSUME InvoicesTold, ReconcileStep, NEW i \in Invoices
  PROVE InvoiceListed(i)'
<1>1. reconcile \in Reconcile /\ InvoiceListed(i) /\ remote \in Remote
  BY DEF InvoicesTold, Delivery, Base, TypeOK
<1>2. UNCHANGED <<events, remote>>
  BY ReconcileLeaves DEF web, stripe
<1>3. CASE ListRemoteInvoices
  <2>1. PICK pc : reconcile' = [reconcile EXCEPT !.pc = pc, !.invoices = ListedNow,
                                                 !.listedAt = Len(events)]
    BY <1>3 DEF ListRemoteInvoices, ListedNow
  <2>2. reconcile'.invoices = ListedNow
    BY <1>1, <2>1 DEF Reconcile
  <2>3. \A f \in ListedNow : f.id = i => f.status = remote.invoices[i].status
    BY DEF ListedNow
  <2> QED
    BY <1>2, <2>2, <2>3 DEF InvoiceListed
<1>4. ASSUME NEW f \in reconcile.invoices, backfillInvoice(f) PROVE InvoiceListed(i)'
  <2>1. PICK pc : reconcile' = [reconcile EXCEPT !.pc = pc, !.invoices = reconcile.invoices \ {f}]
    BY <1>4 DEF backfillInvoice
  <2>2. /\ reconcile'.invoices \subseteq reconcile.invoices
        /\ reconcile'.listedAt = reconcile.listedAt /\ reconcile.pc = "invoices"
    BY <1>1, <1>4, <2>1 DEF Reconcile, backfillInvoice
  <2> QED
    BY <1>1, <1>2, <2>2 DEF InvoiceListed, NoneAbout
<1>5. ASSUME (reconcile.pc # "invoices")' PROVE InvoiceListed(i)'
  <2>1. (reconcile.pc)' # "invoices"
    BY <1>5
  <2> QED
    BY <2>1, Zenon DEF InvoiceListed
<1>6. CASE ReadAccount \/ FetchBillingState \/ ListRemoteCards \/ ListingFails \/ backfillDefault
  BY <1>1, <1>5, <1>6 DEF ReadAccount, FetchBillingState, ListRemoteCards, ListingFails,
                          backfillDefault, Reconcile
<1>7. CASE ReadDefault
  BY <1>1, <1>5, <1>7 DEF ReadDefault, Reconcile, Looping
<1>8. ASSUME NEW c \in Cards, backfillPaymentMethod(c) PROVE InvoiceListed(i)'
  BY <1>1, <1>5, <1>8 DEF backfillPaymentMethod, Reconcile, Looping
<1>9. CASE reconcileAccount \/ ReconcileFails
  <2>1. reconcile' = NoReconcile(reconcile.count)
    BY <1>9 DEF reconcileAccount, ReconcileFails
  <2>2. reconcile'.pc = "idle"
    BY <2>1 DEF NoReconcile
  <2> QED
    BY <1>5, <2>2
<1> QED
  BY <1>3, <1>4, <1>6, <1>7, <1>8, <1>9 DEF ReconcileStep

\* Every step keeps what is said, listed and shown of the invoices.
LEMMA InvoicesStep ==
  ASSUME InvoicesTold, [Next]_vars
  PROVE InvoicesTold'
<1> DEFINE n == Len(events)
<1>1. Delivery /\ Delivery' /\ Base /\ n \in Nat
  BY DeliveryStep, LenProperties DEF InvoicesTold, Delivery, Base, TypeOK
<1> SUFFICES ASSUME NEW i \in Invoices
             PROVE InvoiceSaid(i)' /\ InvoiceListed(i)' /\ InvoiceShown(i)'
  BY <1>1 DEF InvoicesTold
<1>2. InvoiceSaid(i) /\ InvoiceListed(i) /\ InvoiceShown(i)
  BY DEF InvoicesTold
<1>3. i \in Mirrors /\ i # "account" /\ i # "cards"
  BY InvoicesAssumption DEF Mirrors
<1>4. ASSUME UNCHANGED <<events, remote>>,
             \/ /\ Ready(i)' => Ready(i) /\ latest'[i] = latest[i]
                /\ invoices'[i] = invoices[i]
             \/ (Ready(i) /\ NoneAbout(latest[i], i))' => invoices'[i] = remote.invoices[i].status
             \/ \E e \in 1..n : /\ Ready(i)' => latest'[i] = e
                                /\ About(events[e], i) /\ invoices'[i] = StatusIn(events[e].type)
      PROVE InvoiceSaid(i)' /\ InvoiceShown(i)'
  BY <1>2, <1>4 DEF InvoiceSaid, InvoiceShown, NoneAbout
<1>9. ASSUME UNCHANGED <<events, remote, reconcile>> PROVE InvoiceListed(i)'
  BY <1>2, <1>9 DEF InvoiceListed, NoneAbout
<1>5. CASE Stripe
  <2> DEFINE N == Len(events')
  <2>1. Grows /\ UNCHANGED <<handler, latest, late, lost, reconcile>>
    BY <1>1, <1>5, StripeMirror
  <2>2. n <= N /\ N \in Nat /\ \A k \in 1..n : events'[k] = events[k]
    BY <1>1, <2>1, OldEvents DEF Grows
  <2>3. /\ \A k \in n + 1 .. N :
             About(events'[k], i) => remote'.invoices[i].status = StatusIn(events'[k].type)
        /\ \/ remote'.invoices[i].status = remote.invoices[i].status
           \/ n < N /\ About(events'[n + 1], i)
    BY <1>1, <1>5, StripeInvoice
  <2>4. ASSUME NEW k \in 0..n, \A d \in k + 1 .. N : ~About(events'[d], i)
        PROVE /\ \A d \in k + 1 .. n : ~About(events[d], i)
              /\ remote'.invoices[i].status = remote.invoices[i].status
    <3>1. \A d \in k + 1 .. n : d \in k + 1 .. N /\ events'[d] = events[d]
      BY <1>1, <2>2
    <3>2. n < N => n + 1 \in k + 1 .. N
      BY <1>1, <2>2
    <3> QED
      BY <2>3, <2>4, <3>1, <3>2
  <2>5. ASSUME NEW k \in 1..N, About(events'[k], i), \A d \in k + 1 .. N : ~About(events'[d], i)
        PROVE remote'.invoices[i].status = StatusIn(events'[k].type)
    <3>1. CASE k \in 1..n
      <4>1. k \in 0..n /\ events'[k] = events[k]
        BY <1>1, <2>2, <3>1
      <4> QED
        BY <1>2, <2>4, <2>5, <3>1, <4>1 DEF InvoiceSaid
    <3>2. CASE k \notin 1..n
      <4>1. k \in n + 1 .. N
        BY <1>1, <2>2, <3>2
      <4> QED
        BY <2>3, <2>5, <4>1
    <3> QED
      BY <3>1, <3>2
  <2>6. ASSUME Ready(i)', \A d \in latest'[i] + 1 .. N : ~About(events'[d], i)
        PROVE invoices'[i] = remote'.invoices[i].status
    <3>1. Ready(i) /\ latest'[i] = latest[i] /\ latest[i] \in 0..n
      BY <1>1, <1>3, <2>1, <2>6, ReadyGrows
    <3>2. UNCHANGED invoices
      BY <1>1, <1>5, StripeStep DEF SetAccountStripeCustomerID, local
    <3> QED
      BY <1>2, <2>4, <2>6, <3>1, <3>2 DEF InvoiceShown, NoneAbout
  <2>7. InvoiceListed(i)'
    <3>1. reconcile.listedAt \in 0..n
      BY <1>1 DEF Delivery, Arrived, Base, TypeOK, Reconcile
    <3>2. ASSUME NoneAbout(reconcile.listedAt, i)'
          PROVE /\ NoneAbout(reconcile.listedAt, i)
                /\ remote'.invoices[i].status = remote.invoices[i].status
      BY <2>1, <2>4, <3>1, <3>2 DEF NoneAbout
    <3> QED
      BY <1>2, <2>1, <3>2 DEF InvoiceListed
  <2> QED
    BY <2>5, <2>6, <2>7 DEF InvoiceSaid, InvoiceShown, NoneAbout
<1>6. ASSUME NEW e \in EventIds, HandleWebhook(e)
      PROVE InvoiceSaid(i)' /\ InvoiceListed(i)' /\ InvoiceShown(i)'
  <2>1. UNCHANGED <<events, remote>> /\ InvoiceListed(i)'
    BY <1>6, <1>9, HandlerLeaves DEF stripe
  <2>2. CASE Writes(e, i)
    <3>1. WrittenBy(i, e) /\ applyWebhookSideEffects(e) /\ i \in Targets(Msg(e))
      BY <1>1, <1>3, <1>6, <2>2, HandlerMirror DEF Writes
    <3>2. e \in 1..n
      BY <3>1 DEF WrittenBy
    <3>3. SoundEvent(events[e])
      BY <1>1, <3>2 DEF Base, SoundEvents
    <3>4. About(events[e], i)
      BY <3>1, <3>3, ParsedAbout DEF Msg
    <3>5. Msg(e).invoice = {[id |-> i, status |-> StatusIn(events[e].type)]}
      BY <3>3, <3>4, ParsedAbout DEF Msg
    <3>6. invoices'[i] = StatusIn(events[e].type)
      <4>1. invoices' = UpsertInvoice(invoices, Msg(e).invoice)
        BY <3>1 DEF applyWebhookSideEffects
      <4>2. /\ i \in {x.id : x \in Msg(e).invoice}
            /\ \A x \in Msg(e).invoice : x.status = StatusIn(events[e].type)
        BY <3>5
      <4> QED
        BY <4>1, <4>2, UpsertInvoiceIs
    <3>7. Ready(i)' => latest'[i] = e
      BY <1>1, <1>3, <3>1, ReadyWritten
    <3> QED
      BY <1>4, <2>1, <3>2, <3>4, <3>6, <3>7
  <2>3. CASE ~Writes(e, i)
    <3>1. KeptBy(i)
      BY <1>1, <1>3, <1>6, <2>3, HandlerMirror
    <3>2. invoices'[i] = invoices[i]
      <4>1. CASE applyWebhookSideEffects(e)
        <5>1. i \notin Targets(Msg(e)) /\ invoices' = UpsertInvoice(invoices, Msg(e).invoice)
          BY <1>3, <2>3, <4>1 DEF Writes, applyWebhookSideEffects
        <5>2. i \notin {x.id : x \in Msg(e).invoice}
          BY <5>1 DEF Targets
        <5> QED
          BY <5>1, <5>2, UpsertInvoiceIs
      <4>2. CASE ~applyWebhookSideEffects(e)
        BY <1>6, <4>2 DEF HandleWebhook, RecordBillingWebhookEvent, Duplicate, ApplyEvent,
           ApplyEventFails, MarkFailed, SideEffectFails, MarkProcessed, HandlerCrash, StripeGivesUp
      <4> QED
        BY <4>1, <4>2
    <3>3. Ready(i)' => Ready(i) /\ latest'[i] = latest[i]
      BY <1>3, <3>1, ReadyKept DEF KeptBy
    <3> QED
      BY <1>4, <2>1, <3>2, <3>3
  <2> QED
    BY <2>2, <2>3
<1>7. CASE ReconcileStep
  <2>1. UNCHANGED <<events, remote>>
    BY <1>7, ReconcileLeaves DEF web, stripe
  <2>4. InvoiceListed(i)'
    BY <1>7, ListStep
  <2> DEFINE at == reconcile.listedAt
  <2>5. at \in 0..n
    BY <1>1 DEF Delivery, Arrived, Base, TypeOK, Reconcile
  <2>2. CASE Refreshes(i, at)
    <3>1. PICK f \in reconcile.invoices : WritesInvoice(f) /\ i = f.id
      BY <1>3, <2>2 DEF Refreshes
    <3>2. /\ invoices' = UpsertInvoice(invoices, {f})
          /\ reconcile.pc = "invoices"
      BY <1>1, <3>1, WritesInvoiceIs DEF WritesInvoice, backfillInvoice
    <3>3. invoices'[i] = f.status
      <4>1. i \in {x.id : x \in {f}}
        BY <3>1
      <4> QED
        BY <3>2, <4>1, UpsertInvoiceIs
    <3>4. RefreshedBy(i, at)
      BY <1>1, <1>3, <1>7, <2>2, <2>5, ReconcileMirror
    <3>5. Ready(i)' => latest'[i] = at
      BY <1>1, <1>3, <2>5, <3>4, ReadyRefreshed
    <3>6. NoneAbout(at, i) => f.status = remote.invoices[i].status
      BY <1>2, <3>1, <3>2 DEF InvoiceListed
    <3>7. (Ready(i) /\ NoneAbout(latest[i], i))' => invoices'[i] = remote.invoices[i].status
      BY <2>1, <3>3, <3>5, <3>6 DEF NoneAbout
    <3> QED
      BY <1>4, <2>1, <2>4, <3>7
  <2>3. CASE ~Refreshes(i, at)
    <3>1. KeptBy(i)
      <4>1. \A k : Refreshes(i, k) => k = at
        BY <1>3 DEF Refreshes
      <4> QED
        BY <1>1, <1>3, <1>7, <2>3, <4>1, ReconcileMirror
    <3>2. invoices'[i] = invoices[i]
      <4>1. ASSUME NEW f \in reconcile.invoices, backfillInvoice(f)
            PROVE invoices'[i] = invoices[i]
        <5>1. CASE UNCHANGED faults
          <6>1. WritesInvoice(f)
            BY <4>1, <5>1 DEF WritesInvoice
          <6>2. i # f.id
            BY <2>3, <6>1 DEF Refreshes
          <6>3. i \notin {x.id : x \in {f}}
            BY <6>2
          <6>4. invoices' = UpsertInvoice(invoices, {f})
            BY <1>1, <6>1, WritesInvoiceIs
          <6> QED
            BY <6>3, <6>4, UpsertInvoiceIs
        <5>2. CASE ~UNCHANGED faults
          BY <4>1, <5>2 DEF backfillInvoice
        <5> QED
          BY <5>1, <5>2
      <4>2. CASE ~\E f \in reconcile.invoices : backfillInvoice(f)
        BY <1>7, <4>2 DEF ReconcileStep, tables, ReadAccount, FetchBillingState, ListRemoteInvoices,
           ListRemoteCards, ReadDefault, backfillPaymentMethod, backfillDefault, ListingFails,
           reconcileAccount, ReconcileFails
      <4> QED
        BY <4>1, <4>2
    <3>3. Ready(i)' => Ready(i) /\ latest'[i] = latest[i]
      BY <1>3, <3>1, ReadyKept DEF KeptBy
    <3> QED
      BY <1>4, <2>1, <2>4, <3>2, <3>3
  <2> QED
    BY <2>2, <2>3
<1>8. CASE UNCHANGED vars
  <2>1. UNCHANGED <<events, remote, handler, invoices, latest, late, lost, reconcile>>
    BY <1>8 DEF vars, stripe, history
  <2>2. Ready(i)' => Ready(i)
    BY <2>1 DEF Ready, Msg, Past
  <2> QED
    BY <1>4, <1>9, <2>1, <2>2
<1> QED
  BY <1>5, <1>6, <1>7, <1>8 DEF Next

\* An event about an invoice is one of those that change the table's row of it.
LEMMA AboutTargets ==
  ASSUME Base, NEW k \in 1..Len(events), NEW i \in Invoices
  PROVE About(events[k], i) <=> i \in Targets(Msg(k))
<1>1. SoundEvent(events[k])
  BY DEF Base, SoundEvents
<1> QED
  BY <1>1, ParsedAbout DEF Msg

\* Once everything is handled, every invoice none of whose events was lost or overtaken
\* is shown with the status it has at Stripe.
THEOREM InvoicesFollow == Spec => []InvoicesFollowStripe
<1>1. InvoicesTold /\ [Next]_vars => InvoicesTold'
  BY InvoicesStep
<1>2. ASSUME InvoicesTold PROVE InvoicesFollowStripe
  <2>1. ASSUME Quiet, NEW i \in Invoices, InStep(i)
        PROVE invoices[i] = remote.invoices[i].status
    <3>1. Delivery /\ Base /\ i \in Mirrors /\ Len(events) \in Nat
      BY <1>2, LenProperties DEF InvoicesTold, Mirrors, Delivery, Base, TypeOK
    <3>2. /\ Ready(i) /\ latest[i] \in 0..Len(events)
          /\ \A d \in latest[i] + 1 .. Len(events) : i \notin Targets(Msg(d))
      BY <2>1, <3>1, ReadyQuiet
    <3>3. \A d \in latest[i] + 1 .. Len(events) : ~About(events[d], i)
      <4>1. \A d \in latest[i] + 1 .. Len(events) : d \in 1..Len(events)
        BY <3>1, <3>2
      <4> QED
        BY <3>1, <3>2, <4>1, AboutTargets
    <3> QED
      BY <1>2, <3>2, <3>3 DEF InvoicesTold, InvoiceShown, NoneAbout
  <2> QED
    BY <2>1 DEF InvoicesFollowStripe
<1> QED
  BY InvoicesInit, <1>1, <1>2, PTL DEF Spec

-----------------------------------------------------------------------------
(* The cards.                                                              *)

Attaches(ev, c) == ev.type = "payment_method.attached" /\ c \in ev.card
Detaches(ev, c) == ev.type = "payment_method.detached" /\ c \in ev.card
SetsDefault(ev) == ev.type = "customer.updated"

\* No event after the k-th attaches or detaches the card, or touches its flag.
NoneMoves(k, c) ==
  \A d \in k + 1 .. Len(events) : ~Attaches(events[d], c) /\ ~Detaches(events[d], c)
NoneFlags(k, c) ==
  \A d \in k + 1 .. Len(events) : ~Detaches(events[d], c) /\ ~SetsDefault(events[d])

\* The last event about a card says whether the customer has it, and the last about
\* defaults, or about the card, whether it is the default,
CardSaid(c) ==
  \A k \in 1..Len(events) :
    /\ NoneMoves(k, c) => /\ Attaches(events[k], c) => c \in remote.cards
                          /\ Detaches(events[k], c) => c \notin remote.cards
    /\ NoneFlags(k, c) => /\ Attaches(events[k], c) => remote.default # c
                          /\ SetsDefault(events[k]) =>
                               (remote.default = c <=> DefaultOf(events[k].card) = c)

\* a list that no such event has followed says the same, and a default that could be read,
CardListed(c) ==
  /\ reconcile.pc \in {"readDefault", "cards", "setDefault"} /\ NoneMoves(reconcile.listedAt, c) =>
       (c \in reconcile.cards <=> c \in remote.cards)
  /\ /\ reconcile.pc \in {"cards", "setDefault"} /\ reconcile.unread = FALSE
     /\ NoneFlags(reconcile.defaultAt, c)
     => (reconcile.default = c <=> remote.default = c)

\* the default being read after the list, and only what is on the list being written,
ListedInOrder ==
  /\ reconcile.pc \in {"readDefault", "cards", "setDefault"} => reconcile.rest \subseteq reconcile.cards
  /\ reconcile.pc \in {"cards", "setDefault"} => reconcile.listedAt <= reconcile.defaultAt

\* and if what has reached the table came in order, so does the table, its default
\* unless a backfill has cleared it: a backfill that could not remove a detached card
\* may have run ahead of the events still to come.
CardShown(c) ==
  Ready("cards") =>
    /\ NoneMoves(latest["cards"], c) => (payment_methods[c] = "absent" <=> c \notin remote.cards)
    /\ cleared = FALSE /\ NoneFlags(latest["cards"], c) =>
         payment_methods[c] = "absent" \/ (payment_methods[c] = "default" <=> remote.default = c)

CardsTold ==
  /\ Delivery
  /\ ListedInOrder
  /\ \A c \in Cards : CardSaid(c) /\ CardListed(c) /\ CardShown(c)

\* The table of cards starts as Stripe has it.
LEMMA CardsInit == Init => CardsTold
<1> SUFFICES ASSUME Init PROVE CardsTold
  OBVIOUS
<1>1. Delivery /\ Len(events) = 0
  BY DeliveryInit DEF Init
<1>2. ASSUME NEW c \in Cards
      PROVE /\ payment_methods[c] = "absent" <=> c \notin remote.cards
            /\ payment_methods[c] = "absent" \/ (payment_methods[c] = "default" <=> remote.default = c)
  BY <1>2 DEF Init, ExpectedCards
<1>3. reconcile.pc = "idle"
  BY DEF Init, NoReconcile
<1> QED
  BY <1>1, <1>2, <1>3 DEF CardsTold, CardSaid, CardListed, ListedInOrder, CardShown

\* What a side effect makes of the row of one card, by the type of the event.
LEMMA CardsAfterIs ==
  ASSUME NEW ev, SoundEvent(ev), NEW c \in Cards
  PROVE CardsAfter(ParseWebhook(ev))[c] =
          IF Attaches(ev, c) /\ payment_methods[c] = "absent" THEN "card"
          ELSE IF Detaches(ev, c) THEN "absent"
          ELSE IF SetsDefault(ev) /\ payment_methods[c] # "absent"
               THEN IF c = DefaultOf(ev.card) THEN "default" ELSE "card"
          ELSE payment_methods[c]
<1> DEFINE m == ParseWebhook(ev)
<1>1. CASE ev.type = "payment_method.attached"
  <2>1. m.method = ev.card /\ m.deleted = {} /\ ~m.setsDefault
    BY <1>1, ParsedCards
  <2> HIDE DEF m
  <2>2. CardsAfter(m)[c] = IF c \in ev.card /\ payment_methods[c] = "absent" THEN "card"
                           ELSE payment_methods[c]
    BY <2>1 DEF CardsAfter, UpsertPaymentMethod
  <2> QED
    BY <1>1, <2>2 DEF m, Attaches, Detaches, SetsDefault
<1>2. CASE ev.type = "payment_method.detached"
  <2>1. m.method = {} /\ m.deleted = ev.card /\ ~m.setsDefault
    BY <1>2, ParsedCards
  <2> HIDE DEF m
  <2>2. CardsAfter(m)[c] = IF c \in ev.card THEN "absent" ELSE payment_methods[c]
    BY <2>1 DEF CardsAfter, UpsertPaymentMethod
  <2> QED
    BY <1>2, <2>2 DEF m, Attaches, Detaches, SetsDefault
<1>3. CASE ev.type = "customer.updated"
  <2>1. m.method = {} /\ m.deleted = {} /\ m.setsDefault /\ m.default = DefaultOf(ev.card)
    BY <1>3, ParsedCards
  <2> HIDE DEF m
  <2>2. CardsAfter(m)[c] = IF payment_methods[c] = "absent" THEN "absent"
                           ELSE IF c = DefaultOf(ev.card) THEN "default" ELSE "card"
    BY <2>1 DEF CardsAfter, UpsertPaymentMethod, SetDefaultPaymentMethod
  <2> QED
    BY <1>3, <2>2 DEF m, Attaches, Detaches, SetsDefault
<1>4. CASE ev.type \notin CardTypes
  <2>1. m.method = {} /\ m.deleted = {} /\ ~m.setsDefault
    BY <1>4, ParsedCards DEF CardTypes
  <2> HIDE DEF m
  <2>2. CardsAfter(m)[c] = payment_methods[c]
    BY <2>1 DEF CardsAfter, UpsertPaymentMethod
  <2> QED
    BY <1>4, <2>2 DEF m, Attaches, Detaches, SetsDefault, CardTypes
<1> QED
  BY <1>1, <1>2, <1>3, <1>4 DEF CardTypes

\* The events that do anything to a card have the cards as a target.
LEMMA CardsAreTargets ==
  ASSUME Base, NEW k \in 1..Len(events), NEW c \in Cards,
         Attaches(events[k], c) \/ Detaches(events[k], c) \/ SetsDefault(events[k])
  PROVE "cards" \in Targets(Msg(k))
<1> DEFINE ev == events[k]
<1>1. SoundEvent(ev)
  BY DEF Base, SoundEvents
<1>2. ev.type \notin InvoiceTypes
  BY DEF InvoiceTypes, Attaches, Detaches, SetsDefault
<1>3. ParseWebhook(ev).invoice = {}
  BY <1>1, <1>2, ParsedInvoice
<1>4. \/ ParseWebhook(ev).method # {} \/ ParseWebhook(ev).deleted # {}
      \/ ParseWebhook(ev).setsDefault
  <2>1. CASE Attaches(ev, c)
    <3>1. ParseWebhook(ev).method = ev.card
      BY <1>1, <2>1, ParsedCards DEF Attaches
    <3> QED
      BY <2>1, <3>1 DEF Attaches
  <2>2. CASE Detaches(ev, c)
    <3>1. ParseWebhook(ev).deleted = ev.card
      BY <1>1, <2>2, ParsedCards DEF Detaches
    <3> QED
      BY <2>2, <3>1 DEF Detaches
  <2>3. CASE SetsDefault(ev)
    BY <1>1, <2>3, ParsedCards DEF SetsDefault
  <2> QED
    BY <2>1, <2>2, <2>3
<1>5. HasSideEffect(ParseWebhook(ev))
  BY <1>4 DEF HasSideEffect
<1> QED
  BY <1>1, <1>3, <1>5, TargetsAre DEF Msg

\* An event the table of cards is not a target of leaves every row alone.
LEMMA NoCardsAfter ==
  ASSUME Base, NEW k \in 1..Len(events), "cards" \notin Targets(Msg(k)), NEW c \in Cards
  PROVE CardsAfter(Msg(k))[c] = payment_methods[c]
<1>1. SoundEvent(events[k])
  BY DEF Base, SoundEvents
<1>2. ~Attaches(events[k], c) /\ ~Detaches(events[k], c) /\ ~SetsDefault(events[k])
  BY CardsAreTargets
<1> QED
  BY <1>1, <1>2, CardsAfterIs DEF Msg

\* The default the customer has is one of the cards, or none.
LEMMA DefaultOfIs ==
  /\ DefaultOf({}) = NoCard
  /\ \A c : DefaultOf({c}) = c
  BY DEF DefaultOf

\* What Stripe's new events say of a card holds, and what none of them is about stays.
LEMMA StripeCard ==
  ASSUME Base, Stripe, NEW c \in Cards
  PROVE /\ \A k \in Len(events) + 1 .. Len(events') :
             /\ NoneMoves(k, c)' => /\ Attaches(events'[k], c) => c \in remote'.cards
                                    /\ Detaches(events'[k], c) => c \notin remote'.cards
             /\ NoneFlags(k, c)' => /\ Attaches(events'[k], c) => remote'.default # c
                                    /\ SetsDefault(events'[k]) =>
                                         (remote'.default = c <=> DefaultOf(events'[k].card) = c)
        /\ \/ c \in remote'.cards <=> c \in remote.cards
           \/ \E d \in Len(events) + 1 .. Len(events') :
                Attaches(events'[d], c) \/ Detaches(events'[d], c)
        /\ \/ remote'.default = c <=> remote.default = c
           \/ \E d \in Len(events) + 1 .. Len(events') :
                Detaches(events'[d], c) \/ SetsDefault(events'[d])
<1> DEFINE n == Len(events)
           N == Len(events')
           Said == \A k \in n + 1 .. N :
                     /\ NoneMoves(k, c)' => /\ Attaches(events'[k], c) => c \in remote'.cards
                                            /\ Detaches(events'[k], c) => c \notin remote'.cards
                     /\ NoneFlags(k, c)' =>
                          /\ Attaches(events'[k], c) => remote'.default # c
                          /\ SetsDefault(events'[k]) =>
                               (remote'.default = c <=> DefaultOf(events'[k].card) = c)
           Moved == \/ c \in remote'.cards <=> c \in remote.cards
                    \/ \E d \in n + 1 .. N : Attaches(events'[d], c) \/ Detaches(events'[d], c)
           Flagged == \/ remote'.default = c <=> remote.default = c
                      \/ \E d \in n + 1 .. N : Detaches(events'[d], c) \/ SetsDefault(events'[d])
           Goal == Said /\ Moved /\ Flagged
<1>1. n \in Nat /\ RemoteSound /\ c # NoCard
  BY CardsAssumption, LenProperties DEF Base, TypeOK
<1> USE DEF Attaches, Detaches, SetsDefault
<1>2. ASSUME NEW a, One(a), a.type \notin CardTypes, SameCards PROVE Goal
  BY <1>1, <1>2 DEF One, SameCards, CardTypes
<1>3. ASSUME NEW a, NEW b, Two(a, b), a.type \notin CardTypes, b.type \notin CardTypes, SameCards
      PROVE Goal
  BY <1>1, <1>3 DEF Two, SameCards, CardTypes
<1>4. \A num, s : /\ SubscriptionEvent(num, s).type \notin CardTypes
                  /\ SessionEvent(num).type \notin CardTypes
  BY DEF SubscriptionEvent, SessionEvent, MakeEvent, CardTypes
<1>5. \A type \in {"customer.created", "customer.subscription.deleted"} :
        MakeEvent(type).type \notin CardTypes
  BY DEF MakeEvent, CardTypes
<1>6. \A type \in CardTypes : \A cards : /\ CardEvent(type, cards).type = type
                                          /\ CardEvent(type, cards).card = cards
  BY DEF CardEvent, MakeEvent
<1>7. \A type \in InvoiceTypes : \A x, num : InvoiceEvent(type, x, num).type \notin CardTypes
  BY DEF InvoiceEvent, MakeEvent, InvoiceTypes, CardTypes
<1>8. CASE SetAccountStripeCustomerID
  <2>1. UNCHANGED <<remote, events>>
    BY <1>8 DEF SetAccountStripeCustomerID, stripe
  <2> QED
    BY <1>1, <2>1
<1>9. CASE EnsureCustomer
  BY <1>2, <1>5, <1>9, EnsureCustomerEffect
<1>15. ASSUME NEW s \in 1..Newest, CancelSubscription(s) PROVE Goal
  BY <1>2, <1>5, <1>15, CancelEffect
<1>10. CASE CompleteCheckout
  BY <1>3, <1>4, <1>10, CheckoutEffect
<1>16. ASSUME NEW s \in 1..Newest, NEW x \in Invoices, FinalizeInvoice(x, s) PROVE Goal
  <2> DEFINE a == InvoiceEvent("invoice.finalized", x, s)
  <2>1. a.type \notin CardTypes
    BY <1>7 DEF InvoiceTypes
  <2>2. One(a) /\ SameCards
    BY <1>16, FinalizeEffect, Zenon
  <2> HIDE DEF a
  <2> QED
    BY <1>2, <2>1, <2>2
<1>11. ASSUME NEW x \in Invoices, VoidInvoice(x) \/ PayInvoice(x) \/ FailInvoice(x)
       PROVE Goal
  <2>1. \E a, b : /\ One(a) \/ Two(a, b)
                  /\ a.type \notin CardTypes /\ b.type \notin CardTypes /\ SameCards
    <3>2. CASE VoidInvoice(x)
      BY <1>4, <1>7, <3>2, VoidEffect DEF InvoiceTypes
    <3>3. CASE PayInvoice(x)
      <4> DEFINE a == InvoiceEvent("invoice.paid", x, remote.invoices[x].sub)
                 b == SubscriptionEvent(remote.invoices[x].sub, "active")
      <4>1. a.type \notin CardTypes /\ b.type \notin CardTypes
        BY <1>4, <1>7 DEF InvoiceTypes
      <4>2. (One(a) \/ Two(a, b)) /\ SameCards
        BY <3>3, PayEffect
      <4> QED
        BY <4>1, <4>2
    <3>4. CASE FailInvoice(x)
      <4> DEFINE a == InvoiceEvent("invoice.payment_failed", x, remote.invoices[x].sub)
                 b == SubscriptionEvent(remote.invoices[x].sub, "past_due")
      <4>1. a.type \notin CardTypes /\ b.type \notin CardTypes
        BY <1>4, <1>7 DEF InvoiceTypes
      <4>2. (One(a) \/ Two(a, b)) /\ SameCards
        BY <3>4, FailEffect
      <4> QED
        BY <4>1, <4>2
    <3> QED
      BY <1>11, <3>2, <3>3, <3>4
  <2> QED
    BY <1>2, <1>3, <2>1
<1>12. ASSUME NEW x \in Cards, AttachCard(x) PROVE Goal
  <2>1. PICK a : One(a) /\ a.type = "payment_method.attached" /\ a.card = {x}
    BY <1>6, <1>12, AttachEffect DEF CardTypes
  <2>2. /\ x \notin remote.cards /\ remote'.cards = remote.cards \cup {x}
        /\ remote'.default = remote.default
    BY <1>12, AttachEffect
  <2>3. N = n + 1 /\ events'[n + 1] = a
    BY <2>1 DEF One
  <2>4. remote.default # x
    BY <1>1, <2>2, CardsAssumption DEF RemoteSound
  <2> QED
    BY <1>1, <2>1, <2>2, <2>3, <2>4
<1>13. ASSUME NEW x \in Cards, DetachCard(x) PROVE Goal
  <2> DEFINE a == CardEvent("payment_method.detached", {x})
             b == CardEvent("customer.updated", {})
  <2>1. /\ a.type = "payment_method.detached" /\ a.card = {x}
        /\ b.type = "customer.updated" /\ b.card = {}
    BY <1>6 DEF CardTypes
  <2>5. IF remote.default = x THEN Two(a, b) ELSE One(a)
    BY <1>13, DetachEffect
  <2>2. /\ remote'.cards = remote.cards \ {x}
        /\ remote'.default = IF remote.default = x THEN NoCard ELSE remote.default
    BY <1>13, DetachEffect
  <2> HIDE DEF a, b
  <2>3. CASE remote.default # x
    <3>1. N = n + 1 /\ events'[n + 1] = a
      BY <2>3, <2>5 DEF One
    <3> QED
      BY <1>1, <2>1, <2>2, <2>3, <3>1
  <2>4. CASE remote.default = x
    <3>1. N = n + 2 /\ events'[n + 1] = a /\ events'[n + 2] = b
      BY <2>4, <2>5 DEF Two
    <3>2. n + 2 \in n + 1 .. N /\ n + 1 \in n + 1 .. N
      BY <1>1, <3>1
    <3>3. Moved /\ Flagged
      BY <2>1, <2>2, <3>1, <3>2
    <3>4. ASSUME NEW k \in n + 1 .. N, NoneFlags(k, c)' PROVE k = n + 2
      <4>1. k = n + 1 => n + 2 \in k + 1 .. N
        BY <1>1, <3>1
      <4>2. k # n + 1
        BY <2>1, <3>1, <3>4, <4>1 DEF NoneFlags
      <4> QED
        BY <1>1, <3>1, <3>4, <4>2
    <3>5. ASSUME NEW k \in n + 1 .. N PROVE events'[k] = a \/ events'[k] = b
      <4>1. k = n + 1 \/ k = n + 2
        BY <1>1, <3>1, <3>5
      <4> QED
        BY <3>1, <4>1
    <3>6. DefaultOf(b.card) = NoCard /\ remote'.default = NoCard
      BY <2>1, <2>2, <2>4, DefaultOfIs
    <3>7. Said
      BY <1>1, <2>1, <2>2, <3>1, <3>4, <3>5, <3>6
    <3> QED
      BY <3>3, <3>7
  <2> QED
    BY <2>3, <2>4
<1>14. ASSUME NEW x \in Cards, SetDefaultCard(x) PROVE Goal
  <2> DEFINE a == CardEvent("customer.updated", {x})
  <2>1. a.type = "customer.updated" /\ a.card = {x}
    BY <1>6 DEF CardTypes
  <2>5. DefaultOf(a.card) = x
    BY <2>1, DefaultOfIs
  <2>2. One(a) /\ remote'.cards = remote.cards /\ remote'.default = x
    BY <1>14, SetDefaultEffect
  <2> HIDE DEF a
  <2>3. N = n + 1 /\ events'[n + 1] = a /\ n + 1 \in n + 1 .. N
    BY <1>1, <2>2 DEF One
  <2>4. \A k \in n + 1 .. N : events'[k] = a
    BY <1>1, <2>3
  <2> QED
    BY <2>1, <2>2, <2>3, <2>4, <2>5
<1> QED
  BY <1>8, <1>9, <1>10, <1>11, <1>12, <1>13, <1>14, <1>15, <1>16 DEF Stripe

\* What becomes of the list and of the default that was read, in a reconciliation's step.
LEMMA CardListStep ==
  ASSUME CardsTold, ReconcileStep
  PROVE ListedInOrder' /\ \A c \in Cards : CardListed(c)'
<1> DEFINE n == Len(events)
           Goal == ListedInOrder' /\ \A c \in Cards : CardListed(c)'
<1>1. /\ reconcile \in Reconcile /\ remote \in Remote /\ n \in Nat
      /\ reconcile.listedAt \in 0..n /\ ListedInOrder /\ \A c \in Cards : CardListed(c)
  BY LenProperties DEF CardsTold, Delivery, Base, TypeOK, Arrived, Reconcile
<1>2. UNCHANGED <<events, remote>>
  BY ReconcileLeaves DEF web, stripe
<1>3. ASSUME NEW pc, pc \notin {"readDefault", "cards", "setDefault"}, reconcile'.pc = pc PROVE Goal
  <2>1. reconcile'.pc \notin {"readDefault", "cards", "setDefault"}
    BY <1>3
  <2> QED
    BY <2>1 DEF CardListed, ListedInOrder
<1>4. CASE ListRemoteCards
  <2>1. /\ reconcile'.pc = "readDefault" /\ reconcile'.listedAt = n
        /\ reconcile'.cards = remote.cards /\ reconcile'.rest = remote.cards
    BY <1>1, <1>4 DEF ListRemoteCards, Reconcile
  <2> QED
    BY <1>2, <2>1 DEF CardListed, ListedInOrder
<1>5. CASE ReadDefault
  <2>1. PICK unread \in BOOLEAN :
          reconcile' = [reconcile EXCEPT !.pc = Looping(reconcile.cards, "cards", "setDefault"),
                                         !.default = IF unread THEN NoCard ELSE remote.default,
                                         !.defaultAt = n, !.unread = unread]
    BY <1>5 DEF ReadDefault
  <2>2. PICK pc \in {"cards", "setDefault"} : pc = Looping(reconcile.cards, "cards", "setDefault")
    BY LoopingIs
  <2>3. /\ reconcile'.listedAt = reconcile.listedAt /\ reconcile'.cards = reconcile.cards
        /\ reconcile'.rest = reconcile.rest /\ reconcile'.defaultAt = n
        /\ reconcile'.unread = unread /\ reconcile.pc = "readDefault"
    BY <1>1, <1>5, <2>1, <2>2 DEF Reconcile, ReadDefault
  <2>4. unread = FALSE => reconcile'.default = remote.default
    BY <1>1, <2>1, <2>2 DEF Reconcile
  <2>5. ListedInOrder'
    BY <1>1, <2>3 DEF ListedInOrder
  <2>6. ASSUME NEW c \in Cards PROVE CardListed(c)'
    BY <1>1, <1>2, <2>3, <2>4 DEF CardListed, NoneMoves
  <2> QED
    BY <2>5, <2>6
<1>6. ASSUME NEW x \in Cards, backfillPaymentMethod(x) PROVE Goal
  <2>1. PICK pc : reconcile' = [reconcile EXCEPT !.pc = pc, !.rest = reconcile.rest \ {x}]
    BY <1>6 DEF backfillPaymentMethod
  <2>2. /\ reconcile.pc = "cards" /\ reconcile'.listedAt = reconcile.listedAt
        /\ reconcile'.cards = reconcile.cards /\ reconcile'.rest \subseteq reconcile.rest
        /\ reconcile'.default = reconcile.default /\ reconcile'.unread = reconcile.unread
        /\ reconcile'.defaultAt = reconcile.defaultAt
    BY <1>1, <1>6, <2>1 DEF Reconcile, backfillPaymentMethod
  <2>3. ListedInOrder'
    BY <1>1, <2>2 DEF ListedInOrder
  <2>4. ASSUME NEW c \in Cards PROVE CardListed(c)'
    BY <1>1, <1>2, <2>2 DEF CardListed, NoneMoves, NoneFlags
  <2> QED
    BY <2>3, <2>4
<1>7. CASE ListRemoteInvoices
  <2>3. PICK pc \in {"invoices", "listCards"} : pc = Looping(ListedNow, "invoices", "listCards")
    BY LoopingIs
  <2>1. reconcile' = [reconcile EXCEPT !.pc = pc, !.invoices = ListedNow, !.listedAt = n]
    BY <1>7, <2>3 DEF ListRemoteInvoices, ListedNow
  <2>2. reconcile'.pc = pc
    BY <1>1, <2>1 DEF Reconcile
  <2> QED
    BY <1>3, <2>2
<1>8. ASSUME NEW f \in reconcile.invoices, backfillInvoice(f) PROVE Goal
  <2>1. PICK pc \in {"invoices", "listCards"} :
          reconcile' = [reconcile EXCEPT !.pc = pc, !.invoices = reconcile.invoices \ {f}]
    BY <1>8, LoopingIs DEF backfillInvoice
  <2>2. reconcile'.pc = pc
    BY <1>1, <2>1 DEF Reconcile
  <2> QED
    BY <1>3, <2>2
<1>9. CASE ReadAccount \/ FetchBillingState \/ ListingFails \/ backfillDefault
  <2>1. reconcile'.pc \in {"fetch", "listInvoices", "listCards", "compare"}
    BY <1>1, <1>9 DEF ReadAccount, FetchBillingState, ListingFails, backfillDefault, Reconcile
  <2> QED
    BY <1>3, <2>1
<1>10. CASE reconcileAccount \/ ReconcileFails
  <2>1. reconcile' = NoReconcile(reconcile.count)
    BY <1>10 DEF reconcileAccount, ReconcileFails
  <2>2. reconcile'.pc = "idle"
    BY <2>1 DEF NoReconcile
  <2> QED
    BY <1>3, <2>2
<1> QED
  BY <1>4, <1>5, <1>6, <1>7, <1>8, <1>9, <1>10 DEF ReconcileStep

\* A card that is listed and not shown is not the default, unless newer events say so.
LEMMA AddedCard ==
  ASSUME CardsTold, NEW c \in Cards, Ready("cards"), c \in reconcile.rest, reconcile.pc = "cards",
         payment_methods[c] = "absent", latest["cards"] <= reconcile.listedAt
  PROVE /\ ~NoneMoves(latest["cards"], c)
        /\ NoneFlags(latest["cards"], c) => remote.default # c
<1> DEFINE n == Len(events)
           at == latest["cards"]
           la == reconcile.listedAt
<1>1. n \in Nat /\ at \in 0..n /\ la \in 0..n
  BY LenProperties DEF CardsTold, Delivery, Base, TypeOK, Arrived, Reconcile, Mirrors
<1>2. /\ CardSaid(c) /\ CardShown(c) /\ CardListed(c) /\ c \in reconcile.cards
  BY DEF CardsTold, ListedInOrder
<1>3. NoneMoves(at, c) => NoneMoves(la, c)
  <2>1. \A d \in la + 1 .. n : d \in at + 1 .. n
    BY <1>1
  <2> QED
    BY <2>1 DEF NoneMoves
<1>4. ~NoneMoves(at, c)
  BY <1>2, <1>3 DEF CardShown, CardListed
<1>5. ASSUME NoneFlags(at, c) PROVE remote.default # c
  <2>1. PICK k \in at + 1 .. n : Attaches(events[k], c)
    BY <1>4, <1>5 DEF NoneMoves, NoneFlags
  <2>2. k \in 1..n /\ \A d \in k + 1 .. n : d \in at + 1 .. n
    BY <1>1
  <2>3. NoneFlags(k, c)
    BY <1>5, <2>2 DEF NoneFlags
  <2> QED
    BY <1>2, <2>1, <2>2, <2>3 DEF CardSaid
<1> QED
  BY <1>4, <1>5

\* The statement that sets the default leaves the table as it was listed and read.
LEMMA DefaultWritten ==
  ASSUME CardsTold, WritesDefault, Ready("cards")', NEW c \in Cards
  PROVE CardShown(c)'
<1> DEFINE n == Len(events)
           la == reconcile.listedAt
           at == latest["cards"]
<1>0. /\ Delivery /\ Base /\ n \in Nat
      /\ "cards" \in Mirrors /\ "cards" \notin Invoices /\ "cards" # "account"
  BY LenProperties, InvoicesAssumption DEF CardsTold, Delivery, Base, TypeOK, Mirrors
<1>1. /\ Delivery /\ Base /\ n \in Nat /\ at \in 0..n /\ la \in 0..n
      /\ reconcile.defaultAt \in 0..n /\ reconcile.unread \in BOOLEAN
      /\ "cards" \in Mirrors /\ "cards" \notin Invoices /\ "cards" # "account"
  <2>1. reconcile \in Reconcile /\ latest \in [Mirrors -> 0..MaxEvents] /\ Arrived
    BY <1>0 DEF Delivery, Base, TypeOK
  <2>2. at \in Nat /\ la \in Nat /\ reconcile.defaultAt \in Nat /\ reconcile.unread \in BOOLEAN
    BY <1>0, <2>1, BoundsAssumption DEF Reconcile
  <2>3. at <= n /\ la <= n /\ reconcile.defaultAt <= n
    BY <1>0, <2>1 DEF Arrived
  <2> QED
    BY <1>0, <2>2, <2>3
<1>2. /\ reconcile.pc = "setDefault" /\ cleared' = reconcile.unread
      /\ payment_methods' = SetDefaultPaymentMethod(payment_methods, reconcile.default)
      /\ IF ShowsListed
         THEN Refreshed({"cards"}, la)
         ELSE /\ late' = IF reconcile.defaultAt < at THEN late \cup {"cards"} ELSE late
              /\ UNCHANGED <<latest, lost>>
  BY <1>1, WritesDefaultIs
<1>3. ReconcileStep /\ UNCHANGED <<events, remote>>
  <2>1. backfillDefault
    BY DEF WritesDefault
  <2>2. ReconcileStep
    BY <2>1 DEF ReconcileStep
  <2> QED
    BY <2>2, ReconcileLeaves DEF web, stripe
<1>4. /\ CardShown(c) /\ CardListed(c) /\ la <= reconcile.defaultAt
  BY <1>2 DEF CardsTold, ListedInOrder
<1>5. payment_methods'[c] = IF payment_methods[c] = "absent" THEN "absent"
                            ELSE IF c = reconcile.default THEN "default" ELSE "card"
  BY <1>2 DEF SetDefaultPaymentMethod
<1>6. ASSUME NEW k \in 0..n, k <= reconcile.defaultAt, cleared' = FALSE, NoneFlags(k, c)
      PROVE payment_methods'[c] = "absent" \/ (payment_methods'[c] = "default" <=> remote.default = c)
  <2>1. \A d \in reconcile.defaultAt + 1 .. n : d \in k + 1 .. n
    BY <1>1, <1>6
  <2>2. NoneFlags(reconcile.defaultAt, c)
    BY <1>6, <2>1 DEF NoneFlags
  <2>3. reconcile.default = c <=> remote.default = c
    BY <1>2, <1>4, <1>6, <2>2 DEF CardListed
  <2> QED
    BY <1>5, <2>3
<1>7. PICK k \in 0..n : latest'["cards"] = k /\ k <= reconcile.defaultAt
        /\ (NoneMoves(k, c) => (payment_methods[c] = "absent" <=> c \notin remote.cards))
  <2>1. CASE ShowsListed
    <3>1. Refreshes("cards", la)
      BY <2>1 DEF Refreshes
    <3>2. RefreshedBy("cards", la)
      BY <1>1, <1>3, <3>1, ReconcileMirror
    <3>3. latest'["cards"] = la
      BY <1>1, <3>2, ReadyRefreshed
    <3>4. NoneMoves(la, c) => (payment_methods[c] = "absent" <=> c \notin remote.cards)
      BY <1>2, <1>4, <2>1 DEF CardListed, ShowsListed
    <3> QED
      BY <1>1, <1>4, <3>3, <3>4
  <2>2. CASE ~ShowsListed
    <3>1. \A f \in reconcile.invoices : ~WritesInvoice(f)
      BY <1>2 DEF WritesInvoice, backfillInvoice
    <3>2. \A k \in 0..n : ~Refreshes("cards", k)
      BY <1>1, <2>2, <3>1 DEF Refreshes
    <3>3. KeptBy("cards")
      BY <1>1, <1>3, <3>2, ReconcileMirror
    <3>4. Ready("cards")
      BY <1>1, <3>3, ReadyKept
    <3>5. ~(reconcile.defaultAt < at)
      BY <1>2, <2>2 DEF Ready
    <3> QED
      BY <1>1, <1>2, <1>4, <2>2, <3>4, <3>5 DEF CardShown
  <2> QED
    BY <2>1, <2>2
<1>8. /\ \A j : NoneMoves(j, c)' <=> NoneMoves(j, c)
      /\ \A j : NoneFlags(j, c)' <=> NoneFlags(j, c)
  BY <1>3 DEF NoneMoves, NoneFlags
<1>9. payment_methods'[c] = "absent" <=> payment_methods[c] = "absent"
  BY <1>5
<1> QED
  BY <1>3, <1>6, <1>7, <1>8, <1>9 DEF CardShown, NoneMoves, NoneFlags

\* Every step keeps what is said, listed and shown of the cards.
LEMMA CardsStep ==
  ASSUME CardsTold, [Next]_vars
  PROVE CardsTold'
<1> DEFINE n == Len(events)
           at == latest["cards"]
<1>1. /\ Delivery /\ Delivery' /\ Base /\ n \in Nat
      /\ "cards" \in Mirrors /\ "cards" \notin Invoices /\ "cards" # "account"
  BY DeliveryStep, LenProperties, InvoicesAssumption DEF CardsTold, Delivery, Base, TypeOK, Mirrors
<1>9. ListedInOrder'
  <2>1. CASE ReconcileStep
    BY <2>1, CardListStep
  <2>2. CASE ~ReconcileStep
    <3>1. reconcile' = reconcile
      <4>1. CASE Stripe
        BY <1>1, <4>1, StripeMirror
      <4>2. ASSUME NEW e \in EventIds, HandleWebhook(e) PROVE reconcile' = reconcile
        BY <4>2, HandlerLeaves
      <4> QED
        BY <2>2, <4>1, <4>2 DEF Next, vars
    <3> QED
      BY <3>1 DEF CardsTold, ListedInOrder
  <2> QED
    BY <2>1, <2>2
<1> SUFFICES ASSUME NEW c \in Cards PROVE CardSaid(c)' /\ CardListed(c)' /\ CardShown(c)'
  BY <1>1, <1>9 DEF CardsTold
<1>2. CardSaid(c) /\ CardListed(c) /\ CardShown(c)
  BY DEF CardsTold
<1>3. ASSUME UNCHANGED <<events, remote>>, CardShown(c)' PROVE CardSaid(c)' /\ CardShown(c)'
  BY <1>2, <1>3 DEF CardSaid, NoneMoves, NoneFlags
<1>10. ASSUME UNCHANGED <<events, remote, reconcile>> PROVE CardListed(c)'
  BY <1>2, <1>10 DEF CardListed, NoneMoves, NoneFlags
<1>4. ASSUME UNCHANGED <<events, remote>>, payment_methods'[c] = payment_methods[c],
             Ready("cards")' => Ready("cards") /\ latest'["cards"] = at, cleared' = cleared
      PROVE CardShown(c)'
  BY <1>2, <1>4 DEF CardShown, NoneMoves, NoneFlags
<1>5. CASE Stripe
  <2> DEFINE N == Len(events')
  <2>1. Grows /\ UNCHANGED <<handler, latest, late, lost, reconcile>>
    BY <1>1, <1>5, StripeMirror
  <2>2. n <= N /\ N \in Nat /\ \A k \in 1..n : events'[k] = events[k]
    BY <1>1, <2>1, OldEvents DEF Grows
  <2>3. ASSUME NEW k \in 0..n
        PROVE /\ NoneMoves(k, c)' => /\ NoneMoves(k, c)
                                     /\ c \in remote'.cards <=> c \in remote.cards
              /\ NoneFlags(k, c)' => /\ NoneFlags(k, c)
                                     /\ remote'.default = c <=> remote.default = c
    <3>1. /\ \A d \in k + 1 .. n : d \in k + 1 .. N /\ events'[d] = events[d]
          /\ \A d \in n + 1 .. N : d \in k + 1 .. N
      BY <1>1, <2>2
    <3>2. NoneMoves(k, c)' => NoneMoves(k, c) /\ (c \in remote'.cards <=> c \in remote.cards)
      BY <1>1, <1>5, <3>1, StripeCard DEF NoneMoves
    <3>3. NoneFlags(k, c)' => NoneFlags(k, c) /\ (remote'.default = c <=> remote.default = c)
      BY <1>1, <1>5, <3>1, StripeCard DEF NoneFlags
    <3> QED
      BY <3>2, <3>3
  <2>4. CardSaid(c)'
    <3> SUFFICES ASSUME NEW k \in 1..N
                 PROVE /\ NoneMoves(k, c)' => /\ Attaches(events'[k], c) => c \in remote'.cards
                                              /\ Detaches(events'[k], c) => c \notin remote'.cards
                       /\ NoneFlags(k, c)' =>
                            /\ Attaches(events'[k], c) => remote'.default # c
                            /\ SetsDefault(events'[k]) =>
                                 (remote'.default = c <=> DefaultOf(events'[k].card) = c)
      BY DEF CardSaid
    <3>1. CASE k \in 1..n
      <4>1. k \in 0..n /\ events'[k] = events[k]
        BY <1>1, <2>2, <3>1
      <4> QED
        BY <1>2, <2>3, <3>1, <4>1 DEF CardSaid
    <3>2. CASE k \notin 1..n
      <4>1. k \in n + 1 .. N
        BY <1>1, <2>2, <3>2
      <4> QED
        BY <1>1, <1>5, <4>1, StripeCard
    <3> QED
      BY <3>1, <3>2
  <2>5. ASSUME Ready("cards")'
        PROVE /\ Ready("cards") /\ latest'["cards"] = at /\ at \in 0..n
              /\ UNCHANGED <<payment_methods, cleared>>
    <3>1. Ready("cards") /\ latest'["cards"] = at /\ at \in 0..n
      BY <1>1, <2>1, <2>5, ReadyGrows
    <3>2. UNCHANGED <<payment_methods, cleared>>
      BY <1>1, <1>5, StripeStep DEF SetAccountStripeCustomerID, local, history
    <3> QED
      BY <3>1, <3>2
  <2>7. CardListed(c)'
    <3>1. PICK k \in 0..n : k = reconcile.listedAt
      BY <1>1 DEF Delivery, Arrived, Base, TypeOK, Reconcile
    <3>2. PICK j \in 0..n : j = reconcile.defaultAt
      BY <1>1 DEF Delivery, Arrived, Base, TypeOK, Reconcile
    <3>3. NoneMoves(k, c)' => NoneMoves(k, c) /\ (c \in remote'.cards <=> c \in remote.cards)
      BY <2>3
    <3>4. NoneFlags(j, c)' => NoneFlags(j, c) /\ (remote'.default = c <=> remote.default = c)
      BY <2>3
    <3>5. /\ NoneMoves(reconcile.listedAt, c)' <=> NoneMoves(k, c)'
          /\ NoneFlags(reconcile.defaultAt, c)' <=> NoneFlags(j, c)'
          /\ NoneMoves(reconcile.listedAt, c) <=> NoneMoves(k, c)
          /\ NoneFlags(reconcile.defaultAt, c) <=> NoneFlags(j, c)
      BY <2>1, <3>1, <3>2 DEF NoneMoves, NoneFlags
    <3> QED
      BY <1>2, <2>1, <3>3, <3>4, <3>5 DEF CardListed
  <2>6. CardShown(c)'
    <3> SUFFICES ASSUME Ready("cards")'
                 PROVE /\ NoneMoves(at, c)' =>
                            (payment_methods'[c] = "absent" <=> c \notin remote'.cards)
                       /\ cleared = FALSE /\ NoneFlags(at, c)' =>
                            \/ payment_methods'[c] = "absent"
                            \/ payment_methods'[c] = "default" <=> remote'.default = c
      BY <2>1, <2>5 DEF CardShown
    <3>1. PICK k \in 0..n : k = at /\ k = latest'["cards"]
      BY <2>5
    <3>2. /\ NoneMoves(k, c)' => /\ NoneMoves(k, c)
                                 /\ c \in remote'.cards <=> c \in remote.cards
          /\ NoneFlags(k, c)' => /\ NoneFlags(k, c)
                                 /\ remote'.default = c <=> remote.default = c
      BY <2>3
    <3>3. NoneMoves(at, c)' = NoneMoves(k, c)' /\ NoneFlags(at, c)' = NoneFlags(k, c)'
      BY <3>1
    <3> QED
      BY <1>2, <2>5, <3>1, <3>2, <3>3 DEF CardShown
  <2> QED
    BY <2>4, <2>6, <2>7
<1>6. ASSUME NEW e \in EventIds, HandleWebhook(e)
      PROVE CardSaid(c)' /\ CardListed(c)' /\ CardShown(c)'
  <2>1. UNCHANGED <<events, remote, reconcile>> /\ CardListed(c)'
    BY <1>6, <1>10, HandlerLeaves DEF stripe
  <2>2. CASE Writes(e, "cards")
    <3>1. WrittenBy("cards", e) /\ payment_methods' = CardsAfter(Msg(e))
      BY <1>1, <1>6, <2>2, HandlerMirror DEF Writes, applyWebhookSideEffects
    <3>12. cleared' = (cleared /\ ~Msg(e).setsDefault)
      BY <1>1, <2>2 DEF Writes, applyWebhookSideEffects
    <3> SUFFICES ASSUME Ready("cards")' PROVE CardShown(c)'
      BY <1>3, <2>1 DEF CardShown
    <3>2. /\ Ready("cards") /\ at \in 0..e /\ latest'["cards"] = e /\ e \in 1..n
          /\ \A d \in at + 1 .. e - 1 : "cards" \notin Targets(Msg(d))
      BY <1>1, <3>1, ReadyWritten
    <3> DEFINE ev == events[e]
    <3>3. SoundEvent(ev)
      BY <1>1, <3>2 DEF Base, SoundEvents
    <3>4. payment_methods'[c] =
            IF Attaches(ev, c) /\ payment_methods[c] = "absent" THEN "card"
            ELSE IF Detaches(ev, c) THEN "absent"
            ELSE IF SetsDefault(ev) /\ payment_methods[c] # "absent"
                 THEN IF c = DefaultOf(ev.card) THEN "default" ELSE "card"
            ELSE payment_methods[c]
      BY <3>1, <3>3, CardsAfterIs DEF Msg
    <3>5. ASSUME NEW d \in at + 1 .. e - 1
          PROVE ~Attaches(events[d], c) /\ ~Detaches(events[d], c) /\ ~SetsDefault(events[d])
      <4>1. d \in 1..n
        BY <1>1, <3>2
      <4> QED
        BY <1>1, <3>2, <4>1, CardsAreTargets
    <3>6. \A d \in at + 1 .. n : d \in at + 1 .. e - 1 \/ d = e \/ d \in e + 1 .. n
      BY <1>1, <3>2
    <3>7. /\ NoneMoves(e, c) /\ ~Attaches(ev, c) /\ ~Detaches(ev, c) => NoneMoves(at, c)
          /\ NoneFlags(e, c) /\ ~Detaches(ev, c) /\ ~SetsDefault(ev) => NoneFlags(at, c)
      BY <3>5, <3>6 DEF NoneMoves, NoneFlags
    <3>8. /\ ~(Attaches(ev, c) /\ Detaches(ev, c)) /\ ~(Attaches(ev, c) /\ SetsDefault(ev))
          /\ ~(Detaches(ev, c) /\ SetsDefault(ev))
      BY DEF Attaches, Detaches, SetsDefault
    <3>9. NoneMoves(e, c) => (payment_methods'[c] = "absent" <=> c \notin remote.cards)
      BY <1>2, <3>2, <3>4, <3>7, <3>8 DEF CardSaid, CardShown
    <3>13. ~SetsDefault(ev) /\ cleared' = FALSE => cleared = FALSE
      <4>1. cleared \in BOOLEAN
        BY <1>1 DEF Base, TypeOK
      <4>2. ~SetsDefault(ev) => ~Msg(e).setsDefault
        <5>1. SoundEvent(ev) /\ ev.type \in EventTypes
          BY <3>3 DEF SoundEvent, Event
        <5> QED
          BY <5>1, ParsedCards DEF SetsDefault, Msg
      <4> QED
        BY <3>12, <4>1, <4>2
    <3>10. cleared' = FALSE /\ NoneFlags(e, c) =>
             payment_methods'[c] = "absent" \/ (payment_methods'[c] = "default" <=> remote.default = c)
      BY <1>2, <3>2, <3>4, <3>7, <3>8, <3>13 DEF CardSaid, CardShown
    <3>11. (NoneMoves(e, c)' <=> NoneMoves(e, c)) /\ (NoneFlags(e, c)' <=> NoneFlags(e, c))
      BY <2>1 DEF NoneMoves, NoneFlags
    <3> QED
      BY <2>1, <3>2, <3>9, <3>10, <3>11 DEF CardShown, NoneMoves, NoneFlags
  <2>3. CASE ~Writes(e, "cards")
    <3>1. KeptBy("cards")
      BY <1>1, <1>6, <2>3, HandlerMirror
    <3>2. payment_methods'[c] = payment_methods[c]
      <4>1. CASE applyWebhookSideEffects(e)
        <5>1. /\ "cards" \notin Targets(Msg(e)) /\ payment_methods' = CardsAfter(Msg(e))
              /\ handler[e] = "effects"
          BY <1>1, <2>3, <4>1 DEF Writes, applyWebhookSideEffects
        <5>2. e \in 1..n
          BY <1>1, <5>1, Recorded
        <5> QED
          BY <1>1, <5>1, <5>2, NoCardsAfter
      <4>2. CASE ~applyWebhookSideEffects(e)
        BY <1>6, <4>2 DEF HandleWebhook, RecordBillingWebhookEvent, Duplicate, ApplyEvent,
           ApplyEventFails, MarkFailed, SideEffectFails, MarkProcessed, HandlerCrash, StripeGivesUp
      <4> QED
        BY <4>1, <4>2
    <3>4. cleared' = cleared
      <4>1. CASE applyWebhookSideEffects(e)
        <5>1. /\ "cards" \notin Targets(Msg(e)) /\ handler[e] = "effects"
              /\ cleared' = (cleared /\ ~Msg(e).setsDefault)
          BY <1>1, <2>3, <4>1 DEF Writes, applyWebhookSideEffects
        <5>2. e \in 1..n /\ cleared \in BOOLEAN
          BY <1>1, <5>1, Recorded DEF Base, TypeOK
        <5>3. ~SetsDefault(events[e])
          BY <1>1, <5>1, <5>2, CardsAreTargets
        <5>4. ~Msg(e).setsDefault
          <6>1. SoundEvent(events[e])
            BY <1>1, <5>2 DEF Base, SoundEvents
          <6> QED
            BY <5>3, <6>1, ParsedCards DEF SetsDefault, Msg
        <5> QED
          BY <5>1, <5>2, <5>4
      <4>2. CASE ~applyWebhookSideEffects(e)
        BY <1>6, <4>2 DEF HandleWebhook, RecordBillingWebhookEvent, Duplicate, ApplyEvent,
           ApplyEventFails, MarkFailed, SideEffectFails, MarkProcessed, HandlerCrash, StripeGivesUp,
           history
      <4> QED
        BY <4>1, <4>2
    <3>3. Ready("cards")' => Ready("cards") /\ latest'["cards"] = at
      BY <1>1, <3>1, ReadyKept DEF KeptBy
    <3> QED
      BY <1>3, <1>4, <2>1, <3>2, <3>3, <3>4
  <2> QED
    BY <2>1, <2>2, <2>3
<1>7. CASE ReconcileStep
  <2>1. UNCHANGED <<events, remote>> /\ CardListed(c)'
    BY <1>7, CardListStep, ReconcileLeaves DEF web, stripe
  <2>2. CASE WritesDefault
    <3>1. CardShown(c)'
      BY <2>2, DefaultWritten DEF CardShown
    <3> QED
      BY <1>3, <2>1, <3>1
  <2>3. CASE ~WritesDefault
    <3>1. \A k \in 0..n : ~Refreshes("cards", k)
      <4>1. ASSUME NEW f \in reconcile.invoices, WritesInvoice(f) PROVE f.id # "cards"
        <5>1. f \in Listed
          BY <1>1, <4>1, WritesInvoiceIs
        <5> QED
          BY <1>1, <5>1 DEF Listed
      <4> QED
        BY <1>1, <2>3, <4>1 DEF Refreshes
    <3>2. KeptBy("cards")
      BY <1>1, <1>7, <3>1, ReconcileMirror
    <3>3. Ready("cards")' => Ready("cards") /\ latest'["cards"] = at
      BY <1>1, <3>2, ReadyKept DEF KeptBy
    <3>4. cleared' = cleared
      <4>1. ~(backfillDefault /\ UNCHANGED faults)
        BY <2>3 DEF WritesDefault
      <4> QED
        BY <1>7, <4>1 DEF ReconcileStep, ReadAccount, FetchBillingState, ListRemoteInvoices,
           backfillInvoice, ListRemoteCards, ReadDefault, backfillPaymentMethod, backfillDefault,
           ListingFails, reconcileAccount, ReconcileFails, shown
    <3>5. CASE payment_methods'[c] = payment_methods[c]
      BY <1>3, <1>4, <2>1, <3>3, <3>4, <3>5
    <3>6. CASE payment_methods'[c] # payment_methods[c]
      <4>1. PICK x \in Cards : backfillPaymentMethod(x)
        <5>1. ~(backfillDefault /\ UNCHANGED faults)
          BY <2>3 DEF WritesDefault
        <5> QED
          BY <1>7, <3>6, <5>1 DEF ReconcileStep, ReadAccount, FetchBillingState,
             ListRemoteInvoices, backfillInvoice, ListRemoteCards, ReadDefault, backfillDefault,
             ListingFails, reconcileAccount, ReconcileFails, tables
      <4>2. /\ payment_methods' = UpsertPaymentMethod(payment_methods, {x})
            /\ late' = IF payment_methods[x] = "absent" /\ reconcile.listedAt < at
                       THEN late \cup {"cards"} ELSE late
            /\ reconcile.pc = "cards" /\ x \in reconcile.rest
        BY <3>6, <4>1 DEF backfillPaymentMethod
      <4>3. x = c /\ payment_methods[c] = "absent" /\ payment_methods'[c] = "card"
        BY <3>6, <4>2 DEF UpsertPaymentMethod
      <4>4. ASSUME Ready("cards")' PROVE CardShown(c)'
        <5>1. Ready("cards") /\ latest'["cards"] = at
          BY <3>3, <4>4
        <5>2. ~(reconcile.listedAt < at)
          BY <4>2, <4>3, <4>4 DEF Ready
        <5>3. at \in Nat /\ reconcile.listedAt \in Nat
          BY <1>1 DEF Base, TypeOK, Reconcile
        <5>4. at <= reconcile.listedAt
          BY <5>2, <5>3
        <5>5. ~NoneMoves(at, c) /\ (NoneFlags(at, c) => remote.default # c)
          BY <4>2, <4>3, <5>1, <5>4, AddedCard
        <5> QED
          BY <2>1, <4>3, <5>1, <5>5 DEF CardShown, NoneMoves, NoneFlags
      <4>5. CardShown(c)'
        BY <4>4 DEF CardShown
      <4> QED
        BY <1>3, <2>1, <4>5
    <3> QED
      BY <3>5, <3>6
  <2> QED
    BY <2>1, <2>2, <2>3
<1>8. CASE UNCHANGED vars
  <2>1. UNCHANGED <<events, remote, handler, payment_methods, latest, late, lost, cleared, reconcile>>
    BY <1>8 DEF vars, stripe, history
  <2>2. Ready("cards")' => Ready("cards")
    BY <2>1 DEF Ready, Msg, Past
  <2> QED
    BY <1>3, <1>4, <1>10, <2>1, <2>2
<1> QED
  BY <1>5, <1>6, <1>7, <1>8 DEF Next

\* Once everything is handled, the cards shown are the customer's, unless an event about
\* cards was lost or overtaken or a backfill put back what it had listed before; and so is
\* the default, unless a backfill that could not read it was the last to set it.
THEOREM CardsFollow == Spec => []CardsFollowStripe
<1>1. CardsTold /\ [Next]_vars => CardsTold'
  BY CardsStep
<1>2. ASSUME CardsTold PROVE CardsFollowStripe
  <2> SUFFICES ASSUME Quiet, InStep("cards"), NEW c \in Cards
               PROVE /\ payment_methods[c] = "absent" <=> ExpectedCards[c] = "absent"
                     /\ cleared = FALSE => payment_methods[c] = ExpectedCards[c]
    BY <1>2 DEF CardsFollowStripe, CardsTold, Delivery, Base, TypeOK
  <2> DEFINE at == latest["cards"]
  <2>1. /\ Delivery /\ Base /\ "cards" \in Mirrors /\ Len(events) \in Nat
        /\ payment_methods \in [Cards -> CardStatus]
    BY <1>2, LenProperties DEF CardsTold, Mirrors, Delivery, Base, TypeOK, CardStatus
  <2>2. /\ Ready("cards") /\ at \in 0..Len(events)
        /\ \A d \in at + 1 .. Len(events) : "cards" \notin Targets(Msg(d))
    BY <2>1, ReadyQuiet
  <2>3. ASSUME NEW d \in at + 1 .. Len(events)
        PROVE ~Attaches(events[d], c) /\ ~Detaches(events[d], c) /\ ~SetsDefault(events[d])
    <3>1. d \in 1..Len(events)
      BY <2>1, <2>2
    <3> QED
      BY <2>1, <2>2, <3>1, CardsAreTargets
  <2>4. NoneMoves(at, c) /\ NoneFlags(at, c)
    BY <2>3 DEF NoneMoves, NoneFlags
  <2>5. /\ payment_methods[c] = "absent" <=> c \notin remote.cards
        /\ cleared = FALSE =>
             payment_methods[c] = "absent" \/ (payment_methods[c] = "default" <=> remote.default = c)
    BY <1>2, <2>2, <2>4 DEF CardsTold, CardShown
  <2>6. payment_methods[c] \in CardStatus
    BY <2>1
  <2> QED
    BY <2>5, <2>6 DEF CardStatus, ExpectedCards
<1> QED
  BY CardsInit, <1>1, <1>2, PTL DEF Spec

-----------------------------------------------------------------------------
(* The account.                                                            *)

\* What the account should say, but for the price.
PlanNow == IF NewestStatus \in {"none", "canceled"} THEN "free" ELSE "usage_based"
StatusNow == IF NewestStatus \in {"none", "canceled"} THEN "free" ELSE NewestStatus
SubNow == IF NewestStatus \in {"none", "canceled"} THEN 0 ELSE Newest

Tells(m) == m.plan = PlanNow /\ m.status = StatusNow /\ m.sub = SubNow

\* The event sets the plan,
Sets(ev) == ParseWebhook(ev).plan # ""

\* and so decides what the account should say, unless its subscription had ended or was
\* not the newest.
Decides(k) == Sets(events[k]) /\ k \notin stray

NoneDecides(k) == \A d \in k + 1 .. Len(events) : ~Decides(d)

\* The event says what Stripe says; if it ends a session, of the same subscription.
Fits(ev) == Tells(ParseWebhook(ev))
FitsSession(ev) == ev.type = "checkout.session.completed" => ParseWebhook(ev).sub = SubNow

\* The last event that decides says what Stripe says, and so does the end of a session
\* of its subscription,
AccountSaid ==
  \A k \in 1..Len(events) :
    NoneDecides(k) => (Decides(k) => Fits(events[k])) /\ FitsSession(events[k])

\* and if it has reached the account, in order, so does the account, which the end of
\* the session may have left pending.
AccountShown ==
  Ready("account") /\ ~astray /\ NoneDecides(latest["account"]) =>
    /\ account.plan = PlanNow /\ account.sub = SubNow
    /\ account.status \in {StatusNow, "checkout_pending"}

\* What a reconciliation has fetched was so as of the event it notes.
FetchShown ==
  reconcile.pc \notin {"idle", "fetch"} /\ reconcile.fetched.status # "canceled"
    /\ NoneDecides(reconcile.at) => Tells(reconcile.fetched)

\* A price is stored with the paid plan, until the end of a session takes it away.
Priced(a) ==
  IF a.plan = "usage_based" /\ a.status # "checkout_pending" THEN a.price = TRUE
  ELSE a.price = FALSE

\* The account knows the customer of a subscription.
Linked == NewestStatus # "none" => account.linked

AccountTold ==
  /\ Delivery /\ stray \subseteq 1..Len(events)
  /\ AccountSaid /\ AccountShown /\ FetchShown
  /\ Linked
  /\ Priced(account) /\ Priced(reconcile.fetched)
  /\ reconcile.fetched.sub = 0 => reconcile.fetched.plan = "free"

\* The account starts as Stripe has it.
LEMMA AccountInit == Init => AccountTold
<1> SUFFICES ASSUME Init PROVE AccountTold
  OBVIOUS
<1>1. Delivery /\ Len(events) = 0 /\ stray = {}
  BY DeliveryInit DEF Init
<1>2. /\ reconcile.pc = "idle" /\ reconcile.fetched = FreeAccount(FALSE)
  BY DEF Init, NoReconcile
<1>3. Priced(reconcile.fetched) /\ (reconcile.fetched.sub = 0 => reconcile.fetched.plan = "free")
  <2>1. reconcile.fetched.plan = "free" /\ reconcile.fetched.price = FALSE
    BY <1>2 DEF FreeAccount
  <2> QED
    BY <2>1 DEF Priced
<1>4. \/ /\ NewestStatus = "none"
         /\ account = FreeAccount(FALSE) \/ account = FreeAccount(TRUE)
      \/ /\ NewestStatus = "active"
         /\ account = [linked |-> TRUE, plan |-> "usage_based", status |-> "active",
                       sub |-> Newest, price |-> TRUE]
  <2>1. ASSUME remote.subs = <<>> PROVE NewestStatus = "none"
    BY <2>1 DEF NewestStatus
  <2>2. ASSUME NEW x, remote.subs = <<"active">> \/ remote.subs = <<x, "active">>
        PROVE NewestStatus = "active"
    BY <2>2 DEF NewestStatus, Newest
  <2>3. CASE remote = NewCustomer /\ account = FreeAccount(FALSE)
    BY <2>1, <2>3 DEF NewCustomer
  <2>4. CASE remote = Prospect /\ account = FreeAccount(TRUE)
    BY <2>1, <2>4 DEF NewCustomer, Prospect
  <2>5. ASSUME NEW d \in Cards,
               remote \in {Subscriber(d), Resubscriber(d, "canceled"), Resubscriber(d, "active")}
        PROVE NewestStatus = "active"
    <3>1. \A x : Resubscriber(d, x).subs = <<x, "active">>
      BY DEF Resubscriber, Subscriber
    <3>2. Subscriber(d).subs = <<"active">>
      BY DEF Subscriber
    <3> QED
      BY <2>2, <2>5, <3>1, <3>2
  <2> QED
    BY <2>3, <2>4, <2>5 DEF Init
<1>5. account.plan = PlanNow /\ account.sub = SubNow /\ account.status = StatusNow
  BY <1>4 DEF FreeAccount, PlanNow, SubNow, StatusNow
<1>6. Linked
  BY <1>4 DEF Linked, FreeAccount
<1>7. Priced(account)
  <2>1. CASE account = FreeAccount(FALSE) \/ account = FreeAccount(TRUE)
    <3>1. account.plan = "free" /\ account.price = FALSE
      BY <2>1 DEF FreeAccount
    <3> QED
      BY <3>1 DEF Priced
  <2>2. CASE account = [linked |-> TRUE, plan |-> "usage_based", status |-> "active",
                        sub |-> Newest, price |-> TRUE]
    <3>1. account.plan = "usage_based" /\ account.status = "active" /\ account.price = TRUE
      BY <2>2
    <3> QED
      BY <3>1 DEF Priced
  <2> QED
    BY <1>4, <2>1, <2>2
<1>8. AccountSaid /\ AccountShown /\ FetchShown
  BY <1>1, <1>2, <1>5 DEF AccountSaid, AccountShown, FetchShown
<1> QED
  BY <1>1, <1>3, <1>5, <1>6, <1>7, <1>8 DEF AccountTold

\* What the events Stripe emits say of the account.
Says(ev, plan, status, sub) ==
  /\ ParseWebhook(ev).plan = plan /\ ParseWebhook(ev).status = status
  /\ ParseWebhook(ev).sub = sub

\* An update says the paid plan, with its status and its subscription.
LEMMA UpdateSays ==
  ASSUME NEW n \in Nat \ {0}, NEW s \in {"active", "past_due"}
  PROVE /\ Says(SubscriptionEvent(n, s), "usage_based", s, n)
        /\ SubscriptionEvent(n, s).type # "checkout.session.completed"
<1> DEFINE ev == SubscriptionEvent(n, s)
<1>1. /\ SoundEvent(ev) /\ ev.sub = n /\ ev.type = "customer.subscription.updated"
      /\ ev.status = s
  BY SoundUpdate DEF SubscriptionEvent, MakeEvent
<1> HIDE DEF ev
<1>2. ParseWebhook(ev).plan = "usage_based"
  BY <1>1, ParsedPlan DEF LivingTypes
<1>3. ParseWebhook(ev).status = s
  BY <1>1, ParsedStatus
<1>4. ParseWebhook(ev).sub = n
  BY <1>1, ParsedSub DEF LivingTypes
<1>5. Says(ev, "usage_based", s, n)
  BY <1>2, <1>3, <1>4 DEF Says
<1> QED
  BY <1>1, <1>5 DEF ev

\* The end of a checkout session sets no plan but names the subscription.
LEMMA SessionSays ==
  ASSUME NEW n \in Nat \ {0}
  PROVE ~Sets(SessionEvent(n)) /\ ParseWebhook(SessionEvent(n)).sub = n
<1> DEFINE ev == SessionEvent(n)
<1>1. SoundEvent(ev) /\ ev.sub = n /\ ev.type = "checkout.session.completed"
  BY SoundSession DEF SessionEvent, MakeEvent
<1> HIDE DEF ev
<1>2. ParseWebhook(ev).plan = ""
  BY <1>1, ParsedPlan
<1>3. ParseWebhook(ev).sub = n
  BY <1>1, ParsedSub DEF LivingTypes
<1>4. ~Sets(ev)
  BY <1>2 DEF Sets
<1> QED
  BY <1>3, <1>4 DEF ev

\* The end of a subscription says the free plan.
LEMMA DeletedSays ==
  /\ Says(MakeEvent("customer.subscription.deleted"), "free", "free", 0)
  /\ MakeEvent("customer.subscription.deleted").type # "checkout.session.completed"
<1> DEFINE ev == MakeEvent("customer.subscription.deleted")
<1>1. SoundEvent(ev) /\ ev.type = "customer.subscription.deleted"
  BY SoundPlain DEF MakeEvent
<1> HIDE DEF ev
<1>2. ParseWebhook(ev).plan = "free"
  BY <1>1, ParsedPlan DEF LivingTypes
<1>3. ParseWebhook(ev).status = "free"
  BY <1>1, ParsedStatus
<1>4. ParseWebhook(ev).sub = 0
  BY <1>1, ParsedSub DEF LivingTypes
<1>5. Says(ev, "free", "free", 0)
  BY <1>2, <1>3, <1>4 DEF Says
<1> QED
  BY <1>1, <1>5 DEF ev

\* A payment, or a failed one, says the paid plan of the invoice's subscription.
LEMMA PaidSays ==
  ASSUME NEW type \in {"invoice.paid", "invoice.payment_failed"}, NEW i \in Invoices,
         NEW n \in Nat \ {0}
  PROVE /\ InvoiceEvent(type, i, n).type # "checkout.session.completed"
        /\ Says(InvoiceEvent(type, i, n), "usage_based",
                IF type = "invoice.paid" THEN "active" ELSE "past_due", n)
<1> DEFINE ev == InvoiceEvent(type, i, n)
           status == IF type = "invoice.paid" THEN "active" ELSE "past_due"
<1>1. SoundEvent(ev) /\ ev.type = type /\ ev.sub = n
  BY SoundInvoice DEF InvoiceEvent, MakeEvent, InvoiceTypes
<1> HIDE DEF ev
<1>2. ParseWebhook(ev).plan = "usage_based"
  BY <1>1, ParsedPlan DEF LivingTypes
<1>3. ParseWebhook(ev).status = status
  BY <1>1, ParsedStatus
<1>4. ParseWebhook(ev).sub = n
  BY <1>1, ParsedSub DEF LivingTypes
<1>5. Says(ev, "usage_based", status, n)
  BY <1>2, <1>3, <1>4 DEF Says
<1> QED
  BY <1>1, <1>5 DEF ev

\* The other events leave the account alone.
Neutral(ev) == ~Sets(ev) /\ ev.type # "checkout.session.completed"

\* Events about the customer, cards, and invoices issued or voided are neutral.
LEMMA OthersSay ==
  ASSUME NEW ev, SoundEvent(ev),
         ev.type \in CardTypes \cup {"customer.created", "invoice.finalized", "invoice.voided"}
  PROVE Neutral(ev)
<1>1. ParseWebhook(ev).plan = ""
  BY ParsedPlan DEF CardTypes, LivingTypes
<1>2. ev.type # "checkout.session.completed"
  BY DEF CardTypes
<1> QED
  BY <1>1, <1>2 DEF Neutral, Sets

SameNow == PlanNow' = PlanNow /\ StatusNow' = StatusNow /\ SubNow' = SubNow

\* An event fits when it says what the account should say after the step.
LEMMA SaysFits ==
  ASSUME NEW ev, NEW plan, NEW status, NEW sub, Says(ev, plan, status, sub), plan # "",
         ev.type # "checkout.session.completed",
         PlanNow' = plan, StatusNow' = status, SubNow' = sub
  PROVE Sets(ev) /\ Fits(ev)' /\ FitsSession(ev)'
<1>1. Sets(ev)
  BY DEF Says, Sets
<1>2. Fits(ev)'
  BY DEF Says, Fits, Tells
<1>3. FitsSession(ev)'
  BY DEF FitsSession
<1> QED
  BY <1>1, <1>2, <1>3

\* A neutral event has nothing to fit.
LEMMA NeutralFits ==
  ASSUME NEW ev, Neutral(ev)
  PROVE ~Sets(ev) /\ FitsSession(ev)'
  BY DEF Neutral, FitsSession

\* What Stripe's new events say of the account holds, and when none decides the account
\* should say what it should have said before.
LEMMA StripeAccount ==
  ASSUME Base, stray \subseteq 1..Len(events), Linked, Stripe
  PROVE /\ stray' \subseteq 1..Len(events') /\ Linked'
        /\ \A k \in 1..Len(events) : k \in stray' <=> k \in stray
        /\ \A k \in Len(events) + 1 .. Len(events') :
             NoneDecides(k)' => (Decides(k)' => Fits(events[k])') /\ FitsSession(events[k])'
        /\ SameNow \/ \E d \in Len(events) + 1 .. Len(events') : Decides(d)'
<1> DEFINE n == Len(events)
           N == Len(events')
           Said == \A k \in n + 1 .. N :
                     NoneDecides(k)' => (Decides(k)' => Fits(events[k])') /\ FitsSession(events[k])'
           Moved == SameNow \/ \E d \in n + 1 .. N : Decides(d)'
           Kept == \A k \in 1..n : k \in stray' <=> k \in stray
           Goal == stray' \subseteq 1..N /\ Linked' /\ Kept /\ Said /\ Moved
<1>1. n \in Nat /\ remote \in Remote
  BY LenProperties DEF Base, TypeOK
\* One or two events, none of them stray, each of which fits; if none of them sets the
\* plan nothing about the newest subscription changes.
<1>2. ASSUME NEW a, NEW b, One(a) \/ Two(a, b), UNCHANGED stray,
             Sets(a) => Fits(a)', Sets(b) => Fits(b)', FitsSession(a)', FitsSession(b)',
             SameNow \/ Sets(a) \/ (Two(a, b) /\ Sets(b)), Linked'
      PROVE Goal
  <2>1. n < N /\ N \in Nat /\ events'[n + 1] = a
    BY <1>1, <1>2 DEF One, Two
  <2>2. \A k \in n + 1 .. N : events'[k] = a \/ events'[k] = b
    <3>1. CASE One(a)
      BY <1>1, <3>1 DEF One
    <3>2. CASE Two(a, b)
      BY <1>1, <3>2 DEF Two
    <3> QED
      BY <1>2, <3>1, <3>2
  <2>3. Said
    <3> SUFFICES ASSUME NEW k \in n + 1 .. N
                 PROVE (Decides(k)' => Fits(events[k])') /\ FitsSession(events[k])'
      OBVIOUS
    <3>1. PICK x : x = events'[k]
      OBVIOUS
    <3>2. (Sets(x) => Fits(x)') /\ FitsSession(x)'
      BY <1>2, <2>2, <3>1
    <3>3. (Decides(k)' => Sets(x)) /\ (Fits(events[k])' <=> Fits(x)')
          /\ (FitsSession(events[k])' <=> FitsSession(x)')
      BY <3>1 DEF Decides, Sets, Fits, FitsSession
    <3> QED
      BY <3>2, <3>3
  <2>4. \A k \in n + 1 .. N : k \notin stray'
    BY <1>1, <1>2
  <2>5. \A k : Decides(k)' <=> Sets(events'[k]) /\ k \notin stray'
    BY DEF Decides, Sets
  <2>6. Moved
    <3>1. CASE Sets(a)
      <4>1. n + 1 \in n + 1 .. N
        BY <1>1, <2>1
      <4> QED
        BY <2>1, <2>4, <2>5, <3>1, <4>1
    <3>2. CASE Two(a, b) /\ Sets(b)
      <4>1. n + 2 \in n + 1 .. N /\ events'[n + 2] = b
        BY <1>1, <3>2 DEF Two
      <4> QED
        BY <2>4, <2>5, <3>2, <4>1
    <3> QED
      BY <1>2, <3>1, <3>2
  <2>7. stray' \subseteq 1..N /\ Kept
    BY <1>1, <1>2, <2>1
  <2> QED
    BY <1>2, <2>3, <2>6, <2>7
\* Events that leave the account alone.
<1>3. ASSUME NEW a, NEW b, One(a) \/ Two(a, b), Neutral(a), Neutral(b), SameSubscription,
             UNCHANGED <<stray, account>>
      PROVE Goal
  <2>1. SameNow
    BY <1>3, SameNewest DEF SameNow, PlanNow, StatusNow, SubNow
  <2>3. Linked'
    BY <1>3, SameNewest DEF Linked
  <2>4. /\ ~Sets(a) /\ FitsSession(a)'
        /\ ~Sets(b) /\ FitsSession(b)'
    BY <1>3, NeutralFits
  <2> QED
    BY <1>2, <1>3, <2>1, <2>3, <2>4
\* One or two stray events.
<1>13. ASSUME NEW a, NEW b, One(a) \/ Two(a, b), stray' = stray \cup (n + 1 .. N),
              a.type # "checkout.session.completed", b.type # "checkout.session.completed",
              SameNow, Linked'
       PROVE Goal
  <2>1. n < N /\ N \in Nat
    BY <1>1, <1>13 DEF One, Two
  <2>2. \A k \in n + 1 .. N : events'[k] = a \/ events'[k] = b
    <3>1. CASE One(a)
      BY <1>1, <3>1 DEF One
    <3>2. CASE Two(a, b)
      BY <1>1, <3>2 DEF Two
    <3> QED
      BY <1>13, <3>1, <3>2
  <2>3. stray' \subseteq 1..N /\ Kept
    <3>1. /\ \A k \in 1..n : k \in 1..N /\ k \notin n + 1 .. N
          /\ \A k \in n + 1 .. N : k \in 1..N
      BY <1>1, <2>1
    <3> QED
      BY <1>13, <3>1
  <2>4. Said
    <3> SUFFICES ASSUME NEW k \in n + 1 .. N
                 PROVE (Decides(k)' => Fits(events[k])') /\ FitsSession(events[k])'
      OBVIOUS
    <3>1. ~Decides(k)'
      BY <1>13 DEF Decides
    <3>2. FitsSession(events[k])'
      BY <1>13, <2>2 DEF FitsSession
    <3> QED
      BY <3>1, <3>2
  <2> QED
    BY <1>13, <2>3, <2>4
\* A payment or a failed one, which gives its subscription a status.
<1>14. ASSUME NEW m \in 1..Newest, NEW a, NEW b, NEW st \in {"active", "past_due"}, NEW two,
              Says(a, "usage_based", st, m), a.type # "checkout.session.completed",
              Says(b, "usage_based", st, m), b.type # "checkout.session.completed",
              IF two THEN Two(a, b) ELSE One(a),
              Strays(m, IF two THEN 2 ELSE 1), Newest' = Newest,
              NewestStatus' = IF m = Newest /\ two THEN st ELSE NewestStatus,
              two => remote.subs[m] # "canceled",
              ~two /\ remote.subs[m] # "canceled" => remote.subs[m] = st,
              UNCHANGED account
       PROVE Goal
  <2>1. PICK k \in Nat : k = (IF two THEN 2 ELSE 1)
    OBVIOUS
  <2>2. Grows /\ N = n + k /\ Strays(m, k)
    BY <1>14, <2>1 DEF One, Two
  <2>3. /\ m = Newest /\ NewestStatus # "canceled" => stray' = stray
        /\ m # Newest \/ NewestStatus = "canceled" => stray' = stray \cup (n + 1 .. N)
    BY <2>2, StraysIs
  <2>4. One(a) \/ Two(a, b)
    BY <1>14
  <2>5. /\ Newest \in Nat /\ Newest # 0 /\ NewestStatus = remote.subs[Newest]
        /\ NewestStatus \in {"none"} \cup SubscriptionStatus /\ NewestStatus # "none"
    BY <1>1, NewestIs
  <2>6. Linked'
    BY <1>14, <2>5 DEF Linked
  <2>7. CASE m = Newest /\ NewestStatus # "canceled"
    <3>1. NewestStatus' = st
      BY <1>14, <2>5, <2>7
    <3>2. PlanNow' = "usage_based" /\ StatusNow' = st /\ SubNow' = m
      BY <1>14, <2>7, <3>1 DEF PlanNow, StatusNow, SubNow
    <3>3. Sets(a) /\ Fits(a)' /\ FitsSession(a)'
      BY <1>14, <3>2, SaysFits
    <3>4. Sets(b) /\ Fits(b)' /\ FitsSession(b)'
      BY <1>14, <3>2, SaysFits
    <3> QED
      BY <1>2, <2>3, <2>4, <2>6, <2>7, <3>3, <3>4
  <2>8. CASE m # Newest \/ NewestStatus = "canceled"
    <3>1. NewestStatus' = NewestStatus
      BY <1>14, <2>5, <2>8
    <3>2. SameNow
      BY <1>14, <3>1 DEF SameNow, PlanNow, StatusNow, SubNow
    <3> QED
      BY <1>13, <1>14, <2>3, <2>4, <2>6, <2>8, <3>2
  <2> QED
    BY <2>7, <2>8
<1>4. CASE SetAccountStripeCustomerID
  <2>1. UNCHANGED <<remote, events, stray>>
    BY <1>4 DEF SetAccountStripeCustomerID, stripe
  <2>2. Linked'
    <3>1. account' = [account EXCEPT !.linked = TRUE] /\ account \in Account
      BY <1>4 DEF SetAccountStripeCustomerID, Base, TypeOK
    <3>2. account'.linked
      BY <3>1 DEF Account
    <3> QED
      BY <3>2 DEF Linked
  <2>4. Moved /\ Said /\ Kept
    BY <1>1, <2>1 DEF SameNow, PlanNow, StatusNow, SubNow, NewestStatus, Newest
  <2> QED
    BY <2>1, <2>2, <2>4
<1>5. ASSUME UNCHANGED local PROVE UNCHANGED account
  BY <1>5 DEF local
<1>6. CASE EnsureCustomer
  <2> DEFINE a == MakeEvent("customer.created")
  <2>1. SoundEvent(a) /\ a.type = "customer.created"
    BY SoundPlain DEF MakeEvent
  <2>2. One(a) /\ SameSubscription /\ UNCHANGED <<stray, account>>
    BY <1>5, <1>6, EnsureCustomerEffect
  <2> HIDE DEF a
  <2>3. Neutral(a)
    BY <2>1, OthersSay
  <2> QED
    BY <1>3, <2>2, <2>3
<1>7. CASE CompleteCheckout
  <2>0. PICK m : m = Newest + 1
    OBVIOUS
  <2> DEFINE u == SubscriptionEvent(m, "active")
             s == SessionEvent(m)
  <2>1. m \in Nat \ {0} /\ account.linked
    BY <1>7, <2>0, CheckoutEffect
  <2>2. (Two(u, s) \/ Two(s, u)) /\ UNCHANGED <<stray, account>>
    BY <1>5, <1>7, <2>0, CheckoutEffect DEF CompleteCheckout
  <2>3. Newest' = m /\ NewestStatus' = "active"
    BY <1>7, <2>0, CheckoutEffect
  <2>4. Says(u, "usage_based", "active", m) /\ u.type # "checkout.session.completed"
    BY <2>1, UpdateSays
  <2>5. ~Sets(s) /\ ParseWebhook(s).sub = m
    BY <2>1, SessionSays
  <2> HIDE DEF u, s
  <2>7. PlanNow' = "usage_based" /\ StatusNow' = "active" /\ SubNow' = m
    BY <2>3 DEF PlanNow, StatusNow, SubNow
  <2>8. Sets(u) /\ Fits(u)' /\ FitsSession(u)'
    BY <2>4, <2>7, SaysFits
  <2>9. FitsSession(s)'
    BY <2>5, <2>7 DEF FitsSession
  <2>11. Linked'
    BY <2>1, <2>2 DEF Linked
  <2> QED
    BY <1>2, <2>2, <2>5, <2>8, <2>9, <2>11
<1>8. ASSUME NEW s \in 1..Newest, CancelSubscription(s) PROVE Goal
  <2> DEFINE a == MakeEvent("customer.subscription.deleted")
  <2>1. One(a) /\ UNCHANGED account /\ Strays(s, 1) /\ Newest' = Newest
    BY <1>5, <1>8, CancelEffect
  <2>2. /\ s = Newest => NewestStatus # "canceled"
        /\ NewestStatus' = IF s = Newest THEN "canceled" ELSE NewestStatus
    BY <1>8, CancelEffect
  <2>3. Says(a, "free", "free", 0) /\ a.type # "checkout.session.completed"
    BY DeletedSays
  <2> HIDE DEF a
  <2>4. Linked'
    <3>1. NewestStatus # "none"
      BY <1>1, NewestIs
    <3> QED
      BY <2>1, <3>1 DEF Linked
  <2>5. /\ s = Newest => stray' = stray
        /\ s # Newest => stray' = stray \cup (n + 1 .. N)
    <3>1. Grows /\ N = n + 1 /\ 1 \in Nat
      BY <2>1 DEF One
    <3> QED
      BY <2>1, <2>2, <3>1, StraysIs
  <2>6. CASE s = Newest
    <3>1. PlanNow' = "free" /\ StatusNow' = "free" /\ SubNow' = 0
      BY <2>2, <2>6 DEF PlanNow, StatusNow, SubNow
    <3>2. Sets(a) /\ Fits(a)' /\ FitsSession(a)'
      BY <2>3, <3>1, SaysFits
    <3> QED
      BY <1>2, <2>1, <2>4, <2>5, <2>6, <3>2
  <2>7. CASE s # Newest
    <3>1. SameNow
      BY <2>1, <2>2, <2>7 DEF SameNow, PlanNow, StatusNow, SubNow
    <3> QED
      BY <1>13, <2>1, <2>3, <2>4, <2>5, <2>7, <3>1
  <2> QED
    BY <2>6, <2>7
<1>9. ASSUME NEW type \in {"invoice.finalized", "invoice.voided"}, NEW i \in Invoices,
             NEW m \in Nat \ {0}, One(InvoiceEvent(type, i, m)), SameSubscription,
             UNCHANGED <<stray, account>>
      PROVE Goal
  <2> DEFINE a == InvoiceEvent(type, i, m)
  <2>1. SoundEvent(a) /\ a.type = type
    BY SoundInvoice DEF InvoiceTypes, InvoiceEvent, MakeEvent
  <2>2. One(a)
    BY <1>9
  <2> HIDE DEF a
  <2>3. Neutral(a)
    BY <2>1, OthersSay
  <2> QED
    BY <1>3, <1>9, <2>2, <2>3
<1>15. ASSUME NEW s \in 1..Newest, NEW i \in Invoices, FinalizeInvoice(i, s) PROVE Goal
  <2>1. /\ One(InvoiceEvent("invoice.finalized", i, s)) /\ s \in Nat \ {0}
        /\ SameSubscription /\ UNCHANGED <<stray, local>>
    BY <1>15, FinalizeEffect, Zenon
  <2> QED
    BY <1>5, <1>9, <2>1
<1>16. ASSUME NEW i \in Invoices, VoidInvoice(i) PROVE Goal
  <2>1. PICK m : m = remote.invoices[i].sub
    OBVIOUS
  <2>2. m \in Nat \ {0}
    BY <1>16, <2>1, NewestIs DEF VoidInvoice, Base, RemoteSound
  <2>3. /\ One(InvoiceEvent("invoice.voided", i, m)) /\ SameSubscription
        /\ UNCHANGED <<stray, local>>
    BY <1>16, <2>1, VoidEffect
  <2> QED
    BY <1>5, <1>9, <2>2, <2>3
<1>10. ASSUME NEW i \in Invoices, PayInvoice(i) PROVE Goal
  <2>0. PICK m : m = remote.invoices[i].sub
    OBVIOUS
  <2> DEFINE a == InvoiceEvent("invoice.paid", i, m)
             b == SubscriptionEvent(m, "active")
             two == BehindAs(i, "past_due")
  <2>1. /\ m \in 1..Newest /\ m \in Nat \ {0} /\ Newest' = Newest
        /\ NewestStatus' = IF m = Newest /\ two THEN "active" ELSE NewestStatus
    BY <1>10, <2>0, PayEffect
  <2>2. IF two THEN Two(a, b) ELSE One(a)
    BY <1>10, <2>0, PayEffect
  <2>3. Strays(m, IF two THEN 2 ELSE 1) /\ UNCHANGED account
    BY <1>5, <1>10, <2>0, PayEffect
  <2>4. Says(a, "usage_based", "active", m) /\ a.type # "checkout.session.completed"
    BY <2>1, PaidSays
  <2>5. Says(b, "usage_based", "active", m) /\ b.type # "checkout.session.completed"
    BY <2>1, UpdateSays
  <2>6. /\ two => remote.subs[m] # "canceled"
        /\ ~two /\ remote.subs[m] # "canceled" => remote.subs[m] = "active"
    <3>1. remote.subs[m] \in SubscriptionStatus
      BY <1>1, <2>1, NewestIs
    <3> QED
      BY <2>0, <3>1 DEF BehindAs, SubscriptionStatus
  <2> HIDE DEF a, b, two
  <2> QED
    BY <1>14, <2>1, <2>2, <2>3, <2>4, <2>5, <2>6
<1>11. ASSUME NEW i \in Invoices, FailInvoice(i) PROVE Goal
  <2>0. PICK m : m = remote.invoices[i].sub
    OBVIOUS
  <2> DEFINE a == InvoiceEvent("invoice.payment_failed", i, m)
             b == SubscriptionEvent(m, "past_due")
             two == BehindAs(i, "active")
  <2>1. /\ m \in 1..Newest /\ m \in Nat \ {0} /\ Newest' = Newest
        /\ NewestStatus' = IF m = Newest /\ two THEN "past_due" ELSE NewestStatus
    BY <1>11, <2>0, FailEffect
  <2>2. IF two THEN Two(a, b) ELSE One(a)
    BY <1>11, <2>0, FailEffect
  <2>3. Strays(m, IF two THEN 2 ELSE 1) /\ UNCHANGED account
    BY <1>5, <1>11, <2>0, FailEffect
  <2>4. Says(a, "usage_based", "past_due", m) /\ a.type # "checkout.session.completed"
    BY <2>1, PaidSays
  <2>5. Says(b, "usage_based", "past_due", m) /\ b.type # "checkout.session.completed"
    BY <2>1, UpdateSays
  <2>6. /\ two => remote.subs[m] # "canceled"
        /\ ~two /\ remote.subs[m] # "canceled" => remote.subs[m] = "past_due"
    <3>1. remote.subs[m] \in SubscriptionStatus
      BY <1>1, <2>1, NewestIs
    <3> QED
      BY <2>0, <3>1 DEF BehindAs, SubscriptionStatus
  <2> HIDE DEF a, b, two
  <2> QED
    BY <1>14, <2>1, <2>2, <2>3, <2>4, <2>5, <2>6
<1>12. ASSUME NEW c \in Cards, AttachCard(c) \/ DetachCard(c) \/ SetDefaultCard(c) PROVE Goal
  <2>1. ASSUME NEW type \in CardTypes, NEW cards \in SUBSET Cards
        PROVE Neutral(CardEvent(type, cards))
    <3> DEFINE a == CardEvent(type, cards)
    <3>1. SoundEvent(a) /\ a.type = type
      BY SoundCard DEF CardEvent, MakeEvent
    <3> HIDE DEF a
    <3>2. Neutral(a)
      BY <3>1, OthersSay
    <3> QED
      BY <3>2 DEF a
  <2> DEFINE a == CardEvent("payment_method.attached", {c})
             b == CardEvent("payment_method.detached", {c})
             d == CardEvent("customer.updated", {})
             e == CardEvent("customer.updated", {c})
  <2>2. Neutral(a) /\ Neutral(b) /\ Neutral(d) /\ Neutral(e)
    BY <2>1 DEF CardTypes
  <2>3. SameSubscription /\ UNCHANGED <<stray, account>>
    BY <1>5, <1>12, AttachEffect, DetachEffect, SetDefaultEffect
  <2>4. One(a) \/ (One(b) \/ Two(b, d)) \/ One(e)
    BY <1>12, AttachEffect, DetachEffect, SetDefaultEffect
  <2> HIDE DEF a, b, d, e
  <2> QED
    BY <1>3, <2>2, <2>3, <2>4
<1> QED
  BY <1>4, <1>6, <1>7, <1>8, <1>10, <1>11, <1>12, <1>15, <1>16 DEF Stripe

\* The parts of AccountTold besides Delivery.
AccountRest ==
  /\ stray \subseteq 1..Len(events)
  /\ AccountSaid /\ AccountShown /\ FetchShown
  /\ Linked
  /\ Priced(account) /\ Priced(reconcile.fetched)
  /\ reconcile.fetched.sub = 0 => reconcile.fetched.plan = "free"

\* Stripe's steps keep what is said and shown of the account,
LEMMA AccountGrows ==
  ASSUME AccountTold, Stripe
  PROVE AccountRest'
<1> DEFINE n == Len(events)
           N == Len(events')
<1>1. /\ Delivery /\ Base /\ n \in Nat /\ account \in Account
      /\ stray \subseteq 1..n /\ Linked
      /\ "account" \in Mirrors
  BY LenProperties DEF AccountTold, Delivery, Base, TypeOK, Mirrors
<1>2. Grows /\ UNCHANGED <<handler, reconcile, latest, late, lost>>
  BY <1>1, StripeMirror
<1>3. n <= N /\ N \in Nat /\ \A k \in 1..n : events'[k] = events[k]
  BY <1>1, <1>2, OldEvents DEF Grows
<1>4. /\ stray' \subseteq 1..N /\ Linked'
      /\ \A k \in 1..n : k \in stray' <=> k \in stray
      /\ \A k \in n + 1 .. N :
           NoneDecides(k)' => (Decides(k)' => Fits(events[k])') /\ FitsSession(events[k])'
      /\ SameNow \/ \E d \in n + 1 .. N : Decides(d)'
  BY <1>1, StripeAccount
<1>5. /\ account'.plan = account.plan /\ account'.status = account.status
      /\ account'.sub = account.sub /\ account'.price = account.price
      /\ UNCHANGED astray
  <2>1. CASE SetAccountStripeCustomerID
    <3>1. account' = [account EXCEPT !.linked = TRUE] /\ UNCHANGED astray
      BY <2>1 DEF SetAccountStripeCustomerID, history
    <3> QED
      BY <1>1, <3>1 DEF Account
  <2>2. CASE ~SetAccountStripeCustomerID
    BY <1>1, <2>2, StripeStep DEF local, history
  <2> QED
    BY <2>1, <2>2
<1>6. ASSUME NEW d \in 1..n PROVE Decides(d)' <=> Decides(d)
  BY <1>3, <1>4, <1>6 DEF Decides, Sets
<1>7. ASSUME NEW k \in 0..n, NoneDecides(k)' PROVE NoneDecides(k) /\ SameNow
  <2>1. \A d \in k + 1 .. N : ~Decides(d)'
    BY <1>7 DEF NoneDecides
  <2>2. /\ \A d \in k + 1 .. n : d \in k + 1 .. N /\ d \in 1..n
        /\ \A d \in n + 1 .. N : d \in k + 1 .. N
    BY <1>1, <1>3
  <2>3. NoneDecides(k)
    BY <1>6, <2>1, <2>2 DEF NoneDecides
  <2>4. SameNow
    BY <1>4, <2>1, <2>2
  <2> QED
    BY <2>3, <2>4
<1>8. AccountSaid'
  <2>1. ASSUME NEW k \in 1..n, NoneDecides(k)'
        PROVE (Decides(k)' => Fits(events[k])') /\ FitsSession(events[k])'
    <3>1. NoneDecides(k) /\ SameNow
      <4>1. k \in 0..n
        BY <1>1
      <4> QED
        BY <1>7, <2>1, <4>1
    <3>2. (Decides(k) => Fits(events[k])) /\ FitsSession(events[k])
      BY <3>1 DEF AccountTold, AccountSaid
    <3>3. events'[k] = events[k]
      BY <1>3
    <3>4. Fits(events[k])' <=> Fits(events[k])
      BY <3>1, <3>3 DEF Fits, Tells, SameNow
    <3>5. FitsSession(events[k])' <=> FitsSession(events[k])
      BY <3>1, <3>3 DEF FitsSession, SameNow
    <3> QED
      BY <1>6, <3>2, <3>4, <3>5
  <2>2. \A k \in 1..N : k \in 1..n \/ k \in n + 1 .. N
    BY <1>1, <1>3
  <2> QED
    BY <1>4, <2>1, <2>2 DEF AccountSaid
<1>9. AccountShown'
  <2> SUFFICES ASSUME Ready("account")', ~astray', NoneDecides(latest["account"])'
               PROVE (/\ account.plan = PlanNow /\ account.sub = SubNow
                      /\ account.status \in {StatusNow, "checkout_pending"})'
    BY DEF AccountShown
  <2>1. /\ Ready("account") /\ latest'["account"] = latest["account"]
        /\ latest["account"] \in 0..n
    BY <1>1, <1>2, ReadyGrows
  <2>2. PICK k \in 0..n : k = latest["account"] /\ k = latest'["account"]
    BY <2>1
  <2>3. NoneDecides(k)'
    BY <2>2 DEF NoneDecides
  <2>4. NoneDecides(latest["account"]) /\ SameNow
    BY <1>7, <2>2, <2>3 DEF NoneDecides
  <2>5. /\ account.plan = PlanNow /\ account.sub = SubNow
        /\ account.status \in {StatusNow, "checkout_pending"}
    BY <1>5, <2>1, <2>4 DEF AccountTold, AccountShown
  <2> QED
    BY <1>5, <2>4, <2>5 DEF SameNow
<1>10. FetchShown'
  <2> SUFFICES ASSUME reconcile'.pc \notin {"idle", "fetch"},
                      reconcile'.fetched.status # "canceled", NoneDecides(reconcile.at)'
               PROVE Tells(reconcile.fetched)'
    BY DEF FetchShown
  <2>1. reconcile.at \in 0..n
    BY <1>1 DEF Delivery, Arrived, Base, TypeOK, Reconcile
  <2>2. PICK k \in 0..n : k = reconcile.at
    BY <2>1
  <2>3. NoneDecides(k)'
    BY <1>2, <2>2 DEF NoneDecides
  <2>4. NoneDecides(reconcile.at) /\ SameNow
    BY <1>7, <2>2, <2>3 DEF NoneDecides
  <2>5. Tells(reconcile.fetched)
    BY <1>2, <2>4 DEF AccountTold, FetchShown
  <2> QED
    BY <1>2, <2>4, <2>5 DEF Tells, SameNow
<1>11. Priced(account)'
  <2>1. Priced(account)
    BY DEF AccountTold
  <2> QED
    BY <1>5, <2>1 DEF Priced
<1>12. Priced(reconcile.fetched)' /\ (reconcile.fetched.sub = 0 => reconcile.fetched.plan = "free")'
  <2>1. Priced(reconcile.fetched) /\ (reconcile.fetched.sub = 0 => reconcile.fetched.plan = "free")
    BY DEF AccountTold
  <2> QED
    BY <1>2, <2>1 DEF Priced
<1> QED
  BY <1>4, <1>8, <1>9, <1>10, <1>11, <1>12 DEF AccountRest

\* With Stripe at rest, what is said of the account stays as it was.
LEMMA AccountRests ==
  ASSUME AccountTold, UNCHANGED stripe, AccountShown', FetchShown', Linked', Priced(account)',
         Priced(reconcile.fetched)',
         (reconcile.fetched.sub = 0 => reconcile.fetched.plan = "free")'
  PROVE AccountRest'
<1>1. UNCHANGED <<events, remote, stray>>
  BY DEF stripe
<1>2. \A k : /\ Decides(k)' <=> Decides(k)
             /\ Fits(events[k])' <=> Fits(events[k])
             /\ FitsSession(events[k])' <=> FitsSession(events[k])
             /\ NoneDecides(k)' <=> NoneDecides(k)
  BY <1>1 DEF Decides, Sets, Fits, Tells, PlanNow, StatusNow, SubNow, NewestStatus, Newest,
                FitsSession, NoneDecides
<1>3. AccountSaid'
  BY <1>1, <1>2 DEF AccountTold, AccountSaid
<1>4. (stray \subseteq 1..Len(events))'
  BY <1>1 DEF AccountTold
<1> QED
  BY <1>3, <1>4 DEF AccountRest

\* A step that leaves the account's row and its mirror alone keeps it shown,
LEMMA ShownKept ==
  ASSUME AccountTold, UNCHANGED <<stripe, account, astray>>, KeptBy("account")
  PROVE AccountShown'
<1>1. UNCHANGED <<events, remote, stray>> /\ "account" \in Mirrors
  BY DEF stripe, Mirrors
<1> SUFFICES ASSUME Ready("account")', ~astray', NoneDecides(latest["account"])'
             PROVE (/\ account.plan = PlanNow /\ account.sub = SubNow
                    /\ account.status \in {StatusNow, "checkout_pending"})'
  BY DEF AccountShown
<1>2. Ready("account") /\ latest'["account"] = latest["account"]
  BY <1>1, ReadyKept DEF KeptBy
<1>3. NoneDecides(latest["account"])
  BY <1>1, <1>2 DEF NoneDecides, Decides, Sets
<1>4. /\ account.plan = PlanNow /\ account.sub = SubNow
      /\ account.status \in {StatusNow, "checkout_pending"}
  BY <1>2, <1>3 DEF AccountTold, AccountShown
<1> QED
  BY <1>1, <1>4 DEF PlanNow, StatusNow, SubNow, NewestStatus, Newest

\* and one that leaves reconciliation alone what that has fetched.
LEMMA FetchKept ==
  ASSUME AccountTold, UNCHANGED stripe, UNCHANGED <<reconcile.fetched, reconcile.at>>,
         reconcile'.pc \notin {"idle", "fetch"} => reconcile.pc \notin {"idle", "fetch"}
  PROVE /\ FetchShown' /\ Priced(reconcile.fetched)'
        /\ (reconcile.fetched.sub = 0 => reconcile.fetched.plan = "free")'
<1>1. UNCHANGED <<events, remote, stray>>
  BY DEF stripe
<1>2. NoneDecides(reconcile.at)' <=> NoneDecides(reconcile.at)
  BY <1>1 DEF NoneDecides, Decides, Sets
<1>3. Tells(reconcile.fetched)' <=> Tells(reconcile.fetched)
  BY <1>1 DEF Tells, PlanNow, StatusNow, SubNow, NewestStatus, Newest
<1>4. FetchShown'
  BY <1>2, <1>3 DEF AccountTold, FetchShown
<1>5. Priced(reconcile.fetched)' <=> Priced(reconcile.fetched)
  BY DEF Priced
<1>6. Priced(reconcile.fetched)'
  BY <1>5 DEF AccountTold
<1>7. (reconcile.fetched.sub = 0 => reconcile.fetched.plan = "free")'
  BY DEF AccountTold
<1> QED
  BY <1>4, <1>6, <1>7

\* What an event that concerns the account says of it.
LEMMA AccountEvent ==
  ASSUME NEW ev, SoundEvent(ev), AppliesToAccount(ParseWebhook(ev))
  PROVE /\ ParseWebhook(ev).plan = "" =>
             /\ ev.type = "checkout.session.completed"
             /\ ParseWebhook(ev).status = "checkout_pending" /\ ParseWebhook(ev).sub # 0
        /\ ParseWebhook(ev).plan # "" => ParseWebhook(ev).status # "checkout_pending"
        /\ ParseWebhook(ev).plan = "usage_based" => ParseWebhook(ev).sub # 0
        /\ ParseWebhook(ev).plan \in {"", "free", "usage_based"}
<1>1. ev.type \in LivingTypes \cup {"customer.subscription.deleted"}
  BY ParsedType
<1>2. ev.type \in LivingTypes => ev.sub # 0
  BY DEF SoundEvent
<1>3. ev.type = "customer.subscription.updated" => ev.status # "checkout_pending"
  BY DEF SoundEvent, Event
<1>4. ev.type \in LivingTypes => ParseWebhook(ev).sub # 0
  BY <1>2, ParsedSub
<1>5. ParseWebhook(ev).plan = "" => ev.type = "checkout.session.completed"
  BY <1>1, ParsedPlan
<1>6. ParseWebhook(ev).plan = "usage_based" => ev.type \in LivingTypes
  BY ParsedPlan
<1>7. ParseWebhook(ev).plan # "" => ev.type # "checkout.session.completed"
  BY ParsedPlan
<1>8. ev.type # "checkout.session.completed" => ParseWebhook(ev).status # "checkout_pending"
  BY <1>1, <1>3, ParsedStatus DEF LivingTypes
<1>9. ev.type = "checkout.session.completed" => ParseWebhook(ev).status = "checkout_pending"
  BY ParsedStatus
<1>10. ParseWebhook(ev).plan \in {"", "free", "usage_based"}
  BY ParsedType
<1>11. ev.type = "checkout.session.completed" => ev.type \in LivingTypes
  BY DEF LivingTypes
<1>12. ParseWebhook(ev).plan = "" => ParseWebhook(ev).sub # 0
  BY <1>4, <1>5, <1>11
<1>13. ParseWebhook(ev).plan = "usage_based" => ParseWebhook(ev).sub # 0
  BY <1>4, <1>6
<1> QED
  BY <1>5, <1>7, <1>8, <1>9, <1>10, <1>12, <1>13

\* The account after an event was applied to it.
LEMMA AccountApplied ==
  ASSUME AccountTold, NEW e \in EventIds, ApplyEvent(e), WrittenBy("account", e)
  PROVE AccountShown' /\ Linked' /\ Priced(account)'
<1> DEFINE n == Len(events)
           at == latest["account"]
<1>1. /\ Delivery /\ Base /\ n \in Nat /\ account \in Account /\ Placed(e)
      /\ "account" \in Mirrors
  BY LenProperties DEF AccountTold, Delivery, Base, TypeOK, Mirrors
<1>2. /\ UNCHANGED <<events, remote, stray>> /\ handler[e] = "apply"
      /\ account' = ApplyBillingEvent(Msg(e))
      /\ astray' = IF Msg(e).plan = "" THEN astray ELSE (e \in stray)
  BY DEF ApplyEvent, stripe
<1>3. e \in 1..n /\ SoundEvent(events[e]) /\ AppliesToAccount(ParseWebhook(events[e]))
  BY <1>1, <1>2, Recorded DEF Placed, Msg
<1>4. PICK m : m = ParseWebhook(events[e])
  OBVIOUS
<1>5. /\ m.plan = "" => /\ events[e].type = "checkout.session.completed"
                        /\ m.status = "checkout_pending" /\ m.sub # 0
      /\ m.plan # "" => m.status # "checkout_pending"
      /\ m.plan = "usage_based" => m.sub # 0
      /\ m.plan \in {"", "free", "usage_based"}
  BY <1>3, <1>4, AccountEvent
<1>6. account' = ApplyBillingEvent(m)
  BY <1>2, <1>4 DEF Msg
<1>7. /\ account'.plan = IF m.plan = "" THEN account.plan ELSE m.plan
      /\ account'.status = m.status
      /\ account'.sub = IF m.sub = 0 /\ m.plan # "free" THEN account.sub ELSE m.sub
  BY <1>1, <1>6, ApplyFields
<1>8. account'.price = (m.plan = "usage_based")
  <2>1. account'.price = m.price
    BY <1>1, <1>6, ApplyFields
  <2>2. m.price = (m.plan = "usage_based")
    BY <1>3, <1>4, ParsedPrice
  <2> QED
    BY <2>1, <2>2
<1>9. Linked'
  <2>1. account'.linked = account.linked
    BY <1>1, <1>6, ApplyFields
  <2> QED
    BY <1>2, <2>1 DEF AccountTold, Linked, NewestStatus, Newest
<1>10. Priced(account)'
  <2>1. CASE m.plan = "usage_based"
    <3>1. account'.plan = "usage_based" /\ account'.status # "checkout_pending"
      BY <1>5, <1>7, <2>1
    <3>2. account'.price = TRUE
      BY <1>8, <2>1
    <3> QED
      BY <3>1, <3>2 DEF Priced
  <2>2. CASE m.plan # "usage_based"
    <3>1. ~(account'.plan = "usage_based" /\ account'.status # "checkout_pending")
      BY <1>5, <1>7, <2>2
    <3>2. account'.price = FALSE
      BY <1>8, <2>2
    <3> QED
      BY <3>1, <3>2 DEF Priced
  <2> QED
    BY <2>1, <2>2
<1>11. AccountShown'
  <2> SUFFICES ASSUME Ready("account")', ~astray', NoneDecides(latest["account"])'
               PROVE (/\ account.plan = PlanNow /\ account.sub = SubNow
                      /\ account.status \in {StatusNow, "checkout_pending"})'
    BY DEF AccountShown
  <2>1. /\ Ready("account") /\ at \in 0..e /\ latest'["account"] = e
        /\ \A d \in at + 1 .. e - 1 : "account" \notin Targets(Msg(d))
    BY <1>1, ReadyWritten
  <2>2. NoneDecides(e)
    BY <1>2, <2>1 DEF NoneDecides, Decides, Sets
  <2>3. (Decides(e) => Fits(events[e])) /\ FitsSession(events[e])
    BY <1>3, <2>2 DEF AccountTold, AccountSaid
  <2>4. PlanNow' = PlanNow /\ StatusNow' = StatusNow /\ SubNow' = SubNow
    BY <1>2 DEF PlanNow, StatusNow, SubNow, NewestStatus, Newest
  <2>5. CASE m.plan # ""
    <3>1. e \notin stray
      BY <1>2, <1>4, <2>5 DEF Msg
    <3>2. Sets(events[e])
      BY <1>4, <2>5 DEF Sets
    <3>3. Decides(e)
      BY <3>1, <3>2 DEF Decides
    <3>4. m.plan = PlanNow /\ m.status = StatusNow /\ m.sub = SubNow
      BY <1>4, <2>3, <3>3 DEF Fits, Tells
    <3>5. account'.plan = m.plan /\ account'.status = m.status /\ account'.sub = m.sub
      BY <1>5, <1>7, <2>5
    <3> QED
      BY <2>4, <3>4, <3>5
  <2>6. CASE m.plan = ""
    <3>1. ~astray
      BY <1>2, <1>4, <2>6 DEF Msg
    <3>2. m.sub = SubNow
      BY <1>4, <1>5, <2>3, <2>6 DEF FitsSession
    <3>3. \A d \in at + 1 .. n : ~Decides(d)
      <4>1. ASSUME NEW d \in at + 1 .. e - 1 PROVE ~Decides(d)
        <5>1. d \in 1..n
          BY <1>1, <1>3, <2>1
        <5>2. SoundEvent(events[d])
          BY <1>1, <5>1 DEF Base, SoundEvents
        <5>3. ~AppliesToAccount(ParseWebhook(events[d]))
          BY <2>1, <5>2, TargetsAre DEF Msg
        <5> QED
          BY <5>3 DEF Decides, Sets, AppliesToAccount
      <4>2. ~Decides(e)
        BY <1>4, <2>6 DEF Decides, Sets
      <4>3. \A d \in e + 1 .. n : ~Decides(d)
        BY <2>2 DEF NoneDecides
      <4>4. \A d \in at + 1 .. n : d \in at + 1 .. e - 1 \/ d = e \/ d \in e + 1 .. n
        BY <1>1, <1>3, <2>1
      <4> QED
        BY <4>1, <4>2, <4>3, <4>4
    <3>4. NoneDecides(at)
      BY <3>3 DEF NoneDecides
    <3>5. account.plan = PlanNow
      BY <2>1, <3>1, <3>4 DEF AccountTold, AccountShown
    <3>6. /\ account'.plan = account.plan /\ account'.status = "checkout_pending"
          /\ account'.sub = m.sub
      BY <1>5, <1>7, <2>6
    <3> QED
      BY <2>4, <3>2, <3>5, <3>6
  <2> QED
    BY <2>5, <2>6
<1> QED
  BY <1>9, <1>10, <1>11

\* so do the handlers',
LEMMA AccountHandled ==
  ASSUME AccountTold, NEW e \in EventIds, HandleWebhook(e)
  PROVE AccountRest'
<1>1. Delivery /\ Base /\ "account" \in Mirrors
  BY DEF AccountTold, Delivery, Mirrors
<1>2. UNCHANGED <<stripe, reconcile>>
  BY HandlerLeaves
<1>3. /\ FetchShown' /\ Priced(reconcile.fetched)'
      /\ (reconcile.fetched.sub = 0 => reconcile.fetched.plan = "free")'
  BY <1>2, FetchKept
<1>4. CASE ApplyEvent(e)
  <2>1. WrittenBy("account", e)
    BY <1>1, <1>4, HandlerMirror DEF Writes
  <2>2. AccountShown' /\ Linked' /\ Priced(account)'
    BY <1>4, <2>1, AccountApplied
  <2> QED
    BY <1>2, <1>3, <2>2, AccountRests
<1>5. CASE ~ApplyEvent(e)
  <2>1. KeptBy("account")
    BY <1>1, <1>5, HandlerMirror DEF Writes
  <2>2. UNCHANGED <<account, astray>>
    BY <1>5 DEF HandleWebhook, RecordBillingWebhookEvent, Duplicate, ApplyEventFails, MarkFailed,
       applyWebhookSideEffects, SideEffectFails, MarkProcessed, HandlerCrash, StripeGivesUp, history
  <2>3. AccountShown'
    BY <1>2, <2>1, <2>2, ShownKept
  <2>4. Linked'
    BY <1>2, <2>2 DEF AccountTold, Linked, NewestStatus, Newest, stripe
  <2>5. Priced(account)'
    <3>1. Priced(account)
      BY DEF AccountTold
    <3> QED
      BY <2>2, <3>1
  <2> QED
    BY <1>2, <1>3, <2>3, <2>4, <2>5, AccountRests
<1> QED
  BY <1>4, <1>5

\* What a reconciliation fetches is what the account should say, unless it is a
\* subscription that has ended.
LEMMA AccountFetched ==
  ASSUME AccountTold, FetchBillingState
  PROVE /\ FetchShown' /\ Priced(reconcile.fetched)'
        /\ (reconcile.fetched.sub = 0 => reconcile.fetched.plan = "free")'
<1>0. Base /\ remote \in Remote
  BY DEF AccountTold, Delivery, Base, TypeOK
<1>1. /\ Base /\ NewestStatus \in {"none", "active", "past_due", "canceled"}
      /\ NewestStatus # "none" => Newest # 0
  BY <1>0, NewestIs DEF SubscriptionStatus
<1>2. reconcile \in Reconcile /\ UNCHANGED <<remote, events, stray>>
  BY <1>1 DEF FetchBillingState, Base, TypeOK, web, stripe
<1>3. PICK f : f = FetchedState
  OBVIOUS
<1>4. PICK g : g = [linked |-> TRUE, plan |-> f.plan, status |-> f.status, sub |-> f.sub,
                    price |-> f.price]
  OBVIOUS
<1>5. reconcile'.fetched = g
  BY <1>2, <1>3, <1>4 DEF FetchBillingState, Reconcile
<1>6. g.plan = f.plan /\ g.status = f.status /\ g.sub = f.sub
  BY <1>4
<1>7. g.price = f.price
  BY <1>4
<1>8. CASE NewestStatus = "none"
  <2>1. f.plan = "free" /\ f.status = "free" /\ f.sub = 0
    BY <1>3, <1>8 DEF FetchedState, Parsed
  <2>2. f.price = FALSE
    BY <1>3, <1>8 DEF FetchedState, Parsed
  <2>3. PlanNow' = "free" /\ StatusNow' = "free" /\ SubNow' = 0
    BY <1>2, <1>8 DEF PlanNow, StatusNow, SubNow, NewestStatus, Newest
  <2>4. FetchShown'
    BY <1>5, <1>6, <2>1, <2>3 DEF FetchShown, Tells
  <2>5. Priced(g)
    BY <1>6, <1>7, <2>1, <2>2 DEF Priced
  <2> QED
    BY <1>5, <1>6, <2>1, <2>4, <2>5
<1>9. CASE NewestStatus # "none"
  <2>1. f.plan = "usage_based" /\ f.status = NewestStatus /\ f.sub = Newest
    BY <1>3, <1>9 DEF FetchedState, Parsed, providerEventFromPrice
  <2>2. f.price = TRUE
    BY <1>3, <1>9 DEF FetchedState, Parsed, providerEventFromPrice
  <2>6. NewestStatus' = NewestStatus /\ Newest' = Newest
    BY <1>2 DEF NewestStatus, Newest
  <2>3. f.status # "canceled" => f.plan = PlanNow' /\ f.status = StatusNow' /\ f.sub = SubNow'
    BY <1>2, <1>9, <2>1, <2>6 DEF PlanNow, StatusNow, SubNow
  <2>4. FetchShown'
    BY <1>5, <1>6, <2>3 DEF FetchShown, Tells
  <2>5. Priced(g)
    <3>1. g.plan = "usage_based" /\ g.status # "checkout_pending"
      BY <1>1, <1>6, <2>1
    <3>2. g.price = TRUE
      BY <1>7, <2>2
    <3> QED
      BY <3>1, <3>2 DEF Priced
  <2> QED
    BY <1>1, <1>5, <1>6, <1>9, <2>1, <2>4, <2>5
<1> QED
  BY <1>8, <1>9

\* The account after a reconciliation has written it.
LEMMA AccountCompared ==
  ASSUME AccountTold, reconcileAccount
  PROVE AccountShown' /\ Linked' /\ Priced(account)'
<1> DEFINE n == Len(events)
<1>1. /\ Delivery /\ Base /\ account \in Account /\ reconcile \in Reconcile
      /\ "account" \in Mirrors /\ n \in Nat
  BY LenProperties DEF AccountTold, Delivery, Base, TypeOK, Mirrors
<1>2. /\ UNCHANGED <<events, remote, stray>> /\ reconcile.pc = "compare" /\ ReconcileStep
      /\ reconcile.at \in 0..n
  BY <1>1, BoundsAssumption DEF reconcileAccount, ReconcileStep, web, stripe, Delivery, Arrived, Reconcile
<1>3. \A at : Refreshes("account", at) <=>
        at = reconcile.at /\ (Differs \/ account = reconcile.local)
  <2>1. \A f : ~WritesInvoice(f)
    BY <1>2 DEF WritesInvoice, backfillInvoice
  <2> QED
    BY <1>2, <2>1 DEF reconcileAccount, Refreshes
<1>4. PICK f : f = reconcile.fetched
  OBVIOUS
<1>5. f.plan \in {"free", "usage_based"} /\ (f.sub = 0 => f.plan = "free") /\ Priced(f)
  <2>1. f.plan \in {"free", "usage_based"}
    BY <1>1, <1>4 DEF Reconcile, Account
  <2>2. f.sub = 0 => f.plan = "free"
    BY <1>4 DEF AccountTold
  <2>3. Priced(f)
    BY <1>4 DEF AccountTold
  <2> QED
    BY <2>1, <2>2, <2>3
<1>6. ASSUME f.status # "canceled", NoneDecides(reconcile.at) PROVE Tells(f)
  BY <1>2, <1>4, <1>6 DEF AccountTold, FetchShown
<1>7. PlanNow' = PlanNow /\ StatusNow' = StatusNow /\ SubNow' = SubNow
  BY <1>2 DEF PlanNow, StatusNow, SubNow, NewestStatus, Newest
\* The account shows what was fetched, which reaches it now.
<1>8. ASSUME account'.plan = f.plan, account'.status = f.status, account'.sub = f.sub,
             astray' = (f.status = "canceled"), RefreshedBy("account", reconcile.at)
      PROVE AccountShown'
  <2> SUFFICES ASSUME Ready("account")', ~astray', NoneDecides(latest["account"])'
               PROVE (/\ account.plan = PlanNow /\ account.sub = SubNow
                      /\ account.status \in {StatusNow, "checkout_pending"})'
    BY DEF AccountShown
  <2>1. latest'["account"] = reconcile.at
    BY <1>1, <1>2, <1>8, ReadyRefreshed
  <2>2. NoneDecides(reconcile.at)
    BY <1>2, <2>1 DEF NoneDecides, Decides, Sets
  <2>3. Tells(f)
    BY <1>6, <1>8, <2>2
  <2> QED
    BY <1>7, <1>8, <2>3 DEF Tells
<1>9. CASE Differs
  <2>1. /\ account' = ApplyBillingEvent(f) /\ astray' = (f.status = "canceled")
    BY <1>4, <1>9 DEF reconcileAccount
  <2>2. RefreshedBy("account", reconcile.at)
    BY <1>1, <1>2, <1>3, <1>9, ReconcileMirror
  <2>3. account'.plan = f.plan /\ account'.status = f.status /\ account'.sub = f.sub
    BY <1>1, <1>5, <2>1, ApplyFields
  <2>4. account'.price = f.price
    BY <1>1, <2>1, ApplyFields
  <2>5. account'.linked = account.linked
    BY <1>1, <2>1, ApplyFields
  <2>6. Linked'
    BY <1>2, <2>5 DEF AccountTold, Linked, NewestStatus, Newest
  <2>7. Priced(account)'
    BY <1>5, <2>3, <2>4 DEF Priced
  <2> QED
    BY <1>8, <2>1, <2>2, <2>3, <2>6, <2>7
<1>10. CASE ~Differs
  <2>1. UNCHANGED account
    BY <1>10 DEF reconcileAccount
  <2>2. Linked'
    BY <1>2, <2>1 DEF AccountTold, Linked, NewestStatus, Newest
  <2>3. Priced(account)'
    <3>1. Priced(account)
      BY DEF AccountTold
    <3> QED
      BY <2>1, <3>1
  <2>4. CASE account = reconcile.local
    <3>1. account = f
      BY <1>4, <1>10, <2>4 DEF Differs
    <3>2. astray' = (f.status = "canceled")
      BY <1>4, <1>10, <2>4 DEF reconcileAccount
    <3>3. RefreshedBy("account", reconcile.at)
      BY <1>1, <1>2, <1>3, <2>4, ReconcileMirror
    <3> QED
      BY <1>8, <2>1, <2>2, <2>3, <3>1, <3>2, <3>3
  <2>5. CASE account # reconcile.local
    <3>1. UNCHANGED astray
      BY <1>10, <2>5 DEF reconcileAccount
    <3>2. KeptBy("account")
      BY <1>1, <1>2, <1>3, <1>10, <2>5, ReconcileMirror
    <3>3. AccountShown'
      <4>1. UNCHANGED stripe
        BY DEF reconcileAccount, web
      <4> QED
        BY <2>1, <3>1, <3>2, <4>1, ShownKept
    <3> QED
      BY <2>2, <2>3, <3>3
  <2> QED
    BY <2>4, <2>5
<1> QED
  BY <1>9, <1>10

\* and a reconciliation's.
LEMMA AccountReconciled ==
  ASSUME AccountTold, ReconcileStep
  PROVE AccountRest'
<1>1. Delivery /\ Base /\ "account" \in Mirrors /\ reconcile \in Reconcile
  BY DEF AccountTold, Delivery, Base, TypeOK, Mirrors
<1>2. UNCHANGED stripe
  BY ReconcileLeaves DEF web
<1> DEFINE Fetched == /\ FetchShown' /\ Priced(reconcile.fetched)'
                      /\ (reconcile.fetched.sub = 0 => reconcile.fetched.plan = "free")'
<1>3. Fetched
  <2>1. CASE FetchBillingState
    BY <2>1, AccountFetched
  <2>2. CASE reconcileAccount \/ ReconcileFails
    <3>1. reconcile' = NoReconcile(reconcile.count)
      BY <2>2 DEF reconcileAccount, ReconcileFails
    <3>2. reconcile'.pc = "idle" /\ reconcile'.fetched = FreeAccount(FALSE)
      BY <3>1 DEF NoReconcile
    <3>3. reconcile'.fetched.plan = "free"
      BY <3>2 DEF FreeAccount
    <3>4. reconcile'.fetched.price = FALSE
      BY <3>2 DEF FreeAccount
    <3>5. Priced(reconcile.fetched)'
      BY <3>3, <3>4 DEF Priced
    <3>6. FetchShown'
      BY <3>2 DEF FetchShown
    <3> QED
      BY <3>3, <3>5, <3>6
  <2>3. ASSUME UNCHANGED <<reconcile.fetched, reconcile.at>>,
               reconcile'.pc \notin {"idle", "fetch"} => reconcile.pc \notin {"idle", "fetch"}
        PROVE Fetched
    BY <1>2, <2>3, FetchKept
  <2>4. CASE ReadAccount \/ ListRemoteCards \/ backfillDefault \/ ListingFails
    BY <1>1, <2>3, <2>4 DEF ReadAccount, ListRemoteCards, backfillDefault, ListingFails, Reconcile
  <2>5. CASE ListRemoteInvoices
    <3>1. PICK pc, listed : reconcile' = [reconcile EXCEPT !.pc = pc, !.invoices = listed,
                                                           !.listedAt = Len(events)]
      BY <2>5 DEF ListRemoteInvoices
    <3>2. reconcile.pc = "listInvoices"
      BY <2>5 DEF ListRemoteInvoices
    <3> QED
      BY <1>1, <2>3, <3>1, <3>2 DEF Reconcile
  <2>6. CASE ReadDefault
    <3>1. PICK unread \in BOOLEAN :
            reconcile' = [reconcile EXCEPT !.pc = Looping(reconcile.cards, "cards", "setDefault"),
                                           !.default = IF unread THEN NoCard ELSE remote.default,
                                           !.defaultAt = Len(events), !.unread = unread]
      BY <2>6 DEF ReadDefault
    <3>2. reconcile.pc = "readDefault"
      BY <2>6 DEF ReadDefault
    <3> QED
      BY <1>1, <2>3, <3>1, <3>2 DEF Reconcile
  <2>7. ASSUME NEW f \in reconcile.invoices, backfillInvoice(f) PROVE Fetched
    <3>1. PICK pc : reconcile' = [reconcile EXCEPT !.pc = pc, !.invoices = reconcile.invoices \ {f}]
      BY <2>7 DEF backfillInvoice
    <3>2. reconcile.pc = "invoices"
      BY <2>7 DEF backfillInvoice
    <3> QED
      BY <1>1, <2>3, <3>1, <3>2 DEF Reconcile
  <2>8. ASSUME NEW c \in Cards, backfillPaymentMethod(c) PROVE Fetched
    <3>1. PICK pc : reconcile' = [reconcile EXCEPT !.pc = pc, !.rest = reconcile.rest \ {c}]
      BY <2>8 DEF backfillPaymentMethod
    <3>2. reconcile.pc = "cards"
      BY <2>8 DEF backfillPaymentMethod
    <3> QED
      BY <1>1, <2>3, <3>1, <3>2 DEF Reconcile
  <2> QED
    BY <2>1, <2>2, <2>4, <2>5, <2>6, <2>7, <2>8 DEF ReconcileStep
<1>4. CASE reconcileAccount
  <2>1. AccountShown' /\ Linked' /\ Priced(account)'
    BY <1>4, AccountCompared
  <2> QED
    BY <1>2, <1>3, <2>1, AccountRests
<1>5. CASE ~reconcileAccount
  <2>1. UNCHANGED <<account, astray>>
    BY <1>5 DEF ReconcileStep, ReadAccount, FetchBillingState, ListRemoteInvoices,
       backfillInvoice, ListRemoteCards, ReadDefault, backfillPaymentMethod, backfillDefault,
       ListingFails, ReconcileFails, tables, shown
  <2>2. \A at : ~Refreshes("account", at)
    <3>1. ASSUME NEW f, WritesInvoice(f) PROVE f.id # "account"
      <4>1. f \in Listed
        BY <1>1, <3>1, WritesInvoiceIs
      <4> QED
        BY <4>1, InvoicesAssumption DEF Listed
    <3> QED
      BY <1>5, <3>1 DEF Refreshes
  <2>3. KeptBy("account")
    BY <1>1, <2>2, ReconcileMirror
  <2>4. AccountShown'
    BY <1>2, <2>1, <2>3, ShownKept
  <2>5. Linked'
    BY <1>2, <2>1 DEF AccountTold, Linked, NewestStatus, Newest, stripe
  <2>6. Priced(account)'
    <3>1. Priced(account)
      BY DEF AccountTold
    <3> QED
      BY <2>1, <3>1
  <2> QED
    BY <1>2, <1>3, <2>4, <2>5, <2>6, AccountRests
<1> QED
  BY <1>4, <1>5

\* Every step keeps what is said and shown of the account.
LEMMA AccountStep ==
  ASSUME AccountTold, [Next]_vars
  PROVE AccountTold'
<1>1. Delivery'
  BY DeliveryStep DEF AccountTold
<1>2. AccountRest'
  <2>1. CASE Stripe
    BY <2>1, AccountGrows
  <2>2. ASSUME NEW e \in EventIds, HandleWebhook(e) PROVE AccountRest'
    BY <2>2, AccountHandled
  <2>3. CASE ReconcileStep
    BY <2>3, AccountReconciled
  <2>4. CASE UNCHANGED vars
    <3>1. /\ UNCHANGED <<stripe, account, astray, reconcile>>
          /\ UNCHANGED <<events, handler, latest, late, lost>>
      BY <2>4 DEF vars, history, stripe
    <3>2. KeptBy("account")
      BY <3>1 DEF KeptBy, Past
    <3>3. AccountShown'
      BY <3>1, <3>2, ShownKept
    <3>4. Linked'
      BY <3>1 DEF AccountTold, Linked, NewestStatus, Newest, stripe
    <3>5. Priced(account)'
      <4>1. Priced(account)
        BY DEF AccountTold
      <4> QED
        BY <3>1, <4>1
    <3>6. /\ FetchShown' /\ Priced(reconcile.fetched)'
          /\ (reconcile.fetched.sub = 0 => reconcile.fetched.plan = "free")'
      BY <3>1, FetchKept
    <3> QED
      BY <3>1, <3>3, <3>4, <3>5, <3>6, AccountRests
  <2> QED
    BY <2>1, <2>2, <2>3, <2>4 DEF Next
<1> QED
  BY <1>1, <1>2 DEF AccountTold, AccountRest

\* Two accounts rows are the same when each of their columns is.
LEMMA SameAccount ==
  ASSUME NEW a \in Account, NEW b \in Account, a.linked = b.linked, a.plan = b.plan,
         a.status = b.status, a.sub = b.sub, a.price = b.price
  PROVE a = b
<1>1. a = [linked |-> a.linked, plan |-> a.plan, status |-> a.status, sub |-> a.sub,
           price |-> a.price]
  BY DEF Account
<1>2. b = [linked |-> b.linked, plan |-> b.plan, status |-> b.status, sub |-> b.sub,
           price |-> b.price]
  BY DEF Account
<1> QED
  BY <1>1, <1>2, Zenon

\* Once everything is handled the account says what Stripe says, or that the checkout is
\* still pending, when none of its events was lost or overtaken and the last word was not
\* that of a subscription that had ended or is not the newest.
THEOREM AccountFollows == Spec => []AccountFollowsStripe
<1>1. AccountTold /\ [Next]_vars => AccountTold'
  BY AccountStep
<1>2. ASSUME AccountTold PROVE AccountFollowsStripe
  <2> SUFFICES ASSUME Quiet, InStep("account"), ~astray
               PROVE account \in {Expected, Pending(Expected)}
    BY DEF AccountFollowsStripe
  <2>1. /\ Delivery /\ Base /\ "account" \in Mirrors /\ Len(events) \in Nat
        /\ account \in Account /\ remote \in Remote
    BY <1>2, LenProperties DEF AccountTold, Mirrors, Delivery, Base, TypeOK
  <2>2. /\ Ready("account") /\ latest["account"] \in 0..Len(events)
        /\ \A d \in latest["account"] + 1 .. Len(events) : "account" \notin Targets(Msg(d))
    BY <2>1, ReadyQuiet
  <2>3. NoneDecides(latest["account"])
    <3> SUFFICES ASSUME NEW d \in latest["account"] + 1 .. Len(events) PROVE ~Decides(d)
      BY DEF NoneDecides
    <3>1. d \in 1..Len(events)
      BY <2>1, <2>2
    <3>2. SoundEvent(events[d])
      BY <2>1, <3>1 DEF Base, SoundEvents
    <3>3. ~AppliesToAccount(ParseWebhook(events[d]))
      BY <2>2, <3>2, TargetsAre DEF Msg
    <3> QED
      BY <3>3 DEF Decides, Sets, AppliesToAccount
  <2>4. /\ account.plan = PlanNow /\ account.sub = SubNow
        /\ account.status \in {StatusNow, "checkout_pending"}
    BY <1>2, <2>2, <2>3 DEF AccountTold, AccountShown
  <2>5. PICK x : x = Expected
    OBVIOUS
  <2>6. x \in Account
    <3>1. FreeAccount(account.linked) \in Account
      BY <2>1 DEF FreeAccount, Account
    <3>2. NewestStatus \notin {"none", "canceled"} =>
            [linked |-> TRUE, plan |-> "usage_based", status |-> NewestStatus,
             sub |-> Newest, price |-> TRUE] \in Account
      <4>1. Newest \in Nat /\ NewestStatus \in {"none"} \cup SubscriptionStatus
        BY <2>1, NewestIs
      <4> QED
        BY <4>1 DEF SubscriptionStatus, Account
    <3> QED
      BY <2>5, <3>1, <3>2 DEF Expected
  <2>7. x.plan = PlanNow /\ x.status = StatusNow /\ x.sub = SubNow
    BY <2>5 DEF Expected, FreeAccount, PlanNow, StatusNow, SubNow
  <2>8. x.linked = account.linked
    <3>1. CASE NewestStatus \in {"none", "canceled"}
      BY <2>5, <3>1 DEF Expected, FreeAccount
    <3>2. CASE NewestStatus \notin {"none", "canceled"}
      <4>1. account.linked
        BY <1>2, <3>2 DEF AccountTold, Linked
      <4>2. account.linked \in BOOLEAN
        BY <2>1 DEF Account
      <4>3. account.linked = TRUE
        BY <4>1, <4>2
      <4>4. x.linked = TRUE
        BY <2>5, <3>2 DEF Expected
      <4> QED
        BY <4>3, <4>4
    <3> QED
      BY <3>1, <3>2
  <2>9. x.price = IF x.plan = "usage_based" THEN TRUE ELSE FALSE
    <3>1. CASE NewestStatus \in {"none", "canceled"}
      <4>1. x.plan = "free"
        BY <2>5, <3>1 DEF Expected, FreeAccount
      <4>2. x.price = FALSE
        BY <2>5, <3>1 DEF Expected, FreeAccount
      <4> QED
        BY <4>1, <4>2
    <3>2. CASE NewestStatus \notin {"none", "canceled"}
      <4>1. x.plan = "usage_based"
        BY <2>5, <3>2 DEF Expected
      <4>2. x.price = TRUE
        BY <2>5, <3>2 DEF Expected
      <4> QED
        BY <4>1, <4>2
    <3> QED
      BY <3>1, <3>2
  <2>10. Priced(account)
    BY <1>2 DEF AccountTold
  <2>11. CASE account.status # "checkout_pending"
    <3>1. account.price = x.price
      BY <2>4, <2>7, <2>9, <2>10, <2>11 DEF Priced
    <3>2. account = x
      BY <2>1, <2>4, <2>6, <2>7, <2>8, <2>11, <3>1, SameAccount
    <3> QED
      BY <2>5, <3>2
  <2>12. CASE account.status = "checkout_pending"
    <3>1. PICK y : y = Pending(x)
      OBVIOUS
    <3>2. y \in Account
      BY <2>6, <3>1 DEF Pending, Account
    <3>3. y.plan = x.plan /\ y.status = "checkout_pending" /\ y.sub = x.sub
      BY <2>6, <3>1 DEF Pending, Account
    <3>4. y.linked = x.linked
      BY <2>6, <3>1 DEF Pending, Account
    <3>5. y.price = FALSE
      BY <2>6, <3>1 DEF Pending, Account
    <3>6. account.price = FALSE
      BY <2>10, <2>12 DEF Priced
    <3>7. account = y
      <4>1. account.plan = y.plan /\ account.status = y.status /\ account.sub = y.sub
        BY <2>4, <2>7, <2>12, <3>3
      <4>2. account.linked = y.linked
        BY <2>8, <3>4
      <4>3. account.price = y.price
        BY <3>5, <3>6
      <4> QED
        BY <2>1, <3>2, <4>1, <4>2, <4>3, SameAccount
    <3> QED
      BY <2>5, <3>1, <3>7
  <2> QED
    BY <2>11, <2>12
<1> QED
  BY AccountInit, <1>1, <1>2, PTL DEF Spec

=============================================================================
