---------------------------- MODULE Subscription ----------------------------
(***************************************************************************)
(* Pro access and its Stripe subscription:                                 *)
(* src/subscription/subscription.service.ts, and the two admin overrides   *)
(* of src/admin/admin.service.ts that write the same columns.              *)
(*                                                                         *)
(* The API process is single threaded but every await is a point where     *)
(* another request or webhook may run, so a request is a job that advances *)
(* one awaited database or Stripe call at a time.  Stripe itself is        *)
(* external: it owns the subscriptions, and tells this service about them  *)
(* by webhooks, which it may repeat, delay and deliver in any order.       *)
(*                                                                         *)
(* Billing cycle, amounts and currentPeriodEnd are left out: no branch of  *)
(* the service that decides access reads them.  Of the append-only         *)
(* SubscriptionEvent table only each user's newest row is kept, and of the *)
(* Payment table the number of succeeded rows of each invoice.             *)
(***************************************************************************)
EXTENDS Naturals, FiniteSets

CONSTANTS
    Users,          \* the accounts, none of them a guest
    Customers,      \* Stripe customer ids
    Subs,           \* Stripe subscription ids
    Jobs,           \* requests and webhook deliveries that may be in flight
    None,           \* a null column
    InvoiceEvents,  \* the invoice events the webhook endpoint subscribes to
    InOrder,        \* Stripe delivers one event at a time, oldest first
    MaxEvents,      \* bound: webhook events Stripe emits
    MaxInvoices,    \* bound: invoices Stripe collects
    MaxRetries,     \* bound: deliveries Stripe repeats
    MaxAdminActs    \* bound: grants and revocations by admins

InvoiceEventTypes == {"invoice_paid", "invoice_payment_paid"}

ASSUME NoneIsNoValue ==
    /\ None \notin Users
    /\ None \notin Customers
    /\ None \notin Subs

ASSUME Parameters ==
    /\ InvoiceEvents \subseteq InvoiceEventTypes /\ InvoiceEvents # {}
    /\ InOrder \in BOOLEAN
    /\ MaxEvents \in Nat
    /\ MaxInvoices \in Nat
    /\ MaxRetries \in Nat
    /\ MaxAdminActs \in Nat

VARIABLES
    user,         \* the billing columns of the users table
    owner,        \* external: the user a Stripe customer was created for
    stripe,       \* external: Stripe's subscriptions
    sessions,     \* external: customers with an open Checkout session
    events,       \* webhook events not delivered yet
    job,          \* what each request or delivery has read and does next
    payRows,      \* succeeded Payment rows of each invoice
    lastEvent,    \* newest SubscriptionEvent row of each user
    clock,        \* events emitted so far
    invoices,     \* invoices paid so far
    retries,      \* deliveries repeated so far
    adminActs,    \* grants and revocations so far
    everGranted   \* history: users an admin ever granted access

vars == <<user, owner, stripe, sessions, events, job, payRows, lastEvent,
          clock, invoices, retries, adminActs, everGranted>>

external == <<owner, stripe, sessions>>
emission == <<events, clock, invoices, retries>>
admin    == <<adminActs, everGranted>>
tables   == <<user, payRows, lastEvent, admin>>

Statuses == {"free", "trialing", "active", "past_due", "cancelled", "incomplete"}
StripeStatuses == {"none", "incomplete", "active", "past_due", "canceled"}
WebhookTypes ==
    InvoiceEventTypes \cup {"upsert", "deleted", "payment_failed", "checkout"}
Requests == {"subscribe", "cancel", "reactivate"}

Event == [n: Nat, type: WebhookTypes, sub: Subs, status: StripeStatuses,
          cape: BOOLEAN, inv: Nat]

User == [status: Statuses, isPaid: BOOLEAN, granted: BOOLEAN,
         customer: Customers \cup {None}, sub: Subs \cup {None}]

Job == [op: WebhookTypes \cup Requests \cup {"none"},
        pc: {"idle", "apply", "pay", "log", "customer", "link", "session",
             "flag", "save", "check"},
        ev: Event \cup {None}, who: Users \cup {None},
        seen: Statuses \cup {None}, ref: Customers \cup Subs \cup {None}]

IdleJob == [op |-> "none", pc |-> "idle", ev |-> None, who |-> None,
            seen |-> None, ref |-> None]

TrailRow == [event: {"none", "renewed", "cancelled", "activated",
                     "payment_failed", "reactivated"},
             status: Statuses]

StripeSub == [status: StripeStatuses, cape: BOOLEAN,
              customer: Customers \cup {None}, paid: BOOLEAN]

TypeOK ==
    /\ user \in [Users -> User]
    /\ owner \in [Customers -> Users \cup {None}]
    /\ stripe \in [Subs -> StripeSub]
    /\ sessions \in SUBSET Customers
    /\ events \in SUBSET Event
    /\ job \in [Jobs -> Job]
    /\ payRows \in [1..MaxInvoices -> Nat]
    /\ lastEvent \in [Users -> TrailRow]
    /\ clock \in Nat /\ invoices \in 0..MaxInvoices /\ retries \in Nat /\ adminActs \in Nat
    /\ everGranted \in SUBSET Users

Init ==
    /\ user = [u \in Users |-> [status |-> "free", isPaid |-> FALSE, granted |-> FALSE,
                                customer |-> None, sub |-> None]]
    /\ owner = [c \in Customers |-> None]
    /\ stripe = [s \in Subs |-> [status |-> "none", cape |-> FALSE,
                                 customer |-> None, paid |-> FALSE]]
    /\ sessions = {}
    /\ events = {}
    /\ job = [j \in Jobs |-> IdleJob]
    /\ payRows = [i \in 1..MaxInvoices |-> 0]
    /\ lastEvent = [u \in Users |-> [event |-> "none", status |-> "free"]]
    /\ clock = 0 /\ invoices = 0 /\ retries = 0 /\ adminActs = 0
    /\ everGranted = {}

-----------------------------------------------------------------------------
(* Stripe, external.  Each step changes a subscription and emits the        *)
(* webhook events Stripe documents for it, numbered in emission order.      *)

Ev(k, type, s, status, cape, inv) ==
    [n |-> clock + k, type |-> type, sub |-> s, status |-> status,
     cape |-> cape, inv |-> inv]

Emit(new, count) ==
    /\ clock + count <= MaxEvents
    /\ clock' = clock + count
    /\ events' = events \cup new

\* The events of a collected invoice; k numbers the first of them.
InvoicePaidEvents(k, s, cape) ==
    {e \in {Ev(k, "invoice_paid", s, "active", cape, invoices + 1),
            Ev(k + 1, "invoice_payment_paid", s, "active", cape, invoices + 1)} :
        e.type \in InvoiceEvents}

\* The customer confirms the hosted page: the subscription exists, unpaid.
StripeStartSubscription(c, s) ==
    /\ c \in sessions
    /\ stripe[s].status = "none"
    /\ stripe' = [stripe EXCEPT ![s].status = "incomplete", ![s].customer = c]
    /\ sessions' = sessions \ {c}
    /\ Emit({Ev(1, "upsert", s, "incomplete", FALSE, 0)}, 1)
    /\ UNCHANGED <<owner, job, tables, invoices, retries>>

\* The first invoice is paid, which also completes the Checkout session.
StripeFirstPayment(s) ==
    /\ stripe[s].status = "incomplete"
    /\ invoices < MaxInvoices
    /\ stripe' = [stripe EXCEPT ![s].status = "active", ![s].paid = TRUE]
    /\ Emit({Ev(1, "upsert", s, "active", stripe[s].cape, 0),
             Ev(2, "checkout", s, "active", stripe[s].cape, invoices + 1)}
            \cup InvoicePaidEvents(3, s, stripe[s].cape), 4)
    /\ invoices' = invoices + 1
    /\ UNCHANGED <<owner, sessions, job, tables, retries>>

\* A later invoice is collected, on time or after a failed attempt.
StripeCollect(s) ==
    /\ stripe[s].status \in {"active", "past_due"}
    /\ stripe[s].status = "active" => ~stripe[s].cape
    /\ invoices < MaxInvoices
    /\ stripe' = [stripe EXCEPT ![s].status = "active"]
    /\ Emit({Ev(1, "upsert", s, "active", stripe[s].cape, 0)}
            \cup InvoicePaidEvents(2, s, stripe[s].cape), 3)
    /\ invoices' = invoices + 1
    /\ UNCHANGED <<owner, sessions, job, tables, retries>>

StripeChargeFails(s) ==
    /\ stripe[s].status = "active" /\ ~stripe[s].cape
    /\ stripe' = [stripe EXCEPT ![s].status = "past_due"]
    /\ Emit({Ev(1, "payment_failed", s, "past_due", FALSE, 0),
             Ev(2, "upsert", s, "past_due", FALSE, 0)}, 2)
    /\ UNCHANGED <<owner, sessions, job, tables, invoices, retries>>

\* The period of a cancelled subscription ends, or dunning gives up.
StripeEnd(s) ==
    /\ \/ stripe[s].status = "active" /\ stripe[s].cape
       \/ stripe[s].status = "past_due"
    /\ stripe' = [stripe EXCEPT ![s].status = "canceled"]
    /\ Emit({Ev(1, "deleted", s, "canceled", stripe[s].cape, 0)}, 1)
    /\ UNCHANGED <<owner, sessions, job, tables, invoices, retries>>

-----------------------------------------------------------------------------
(* Webhook deliveries.                                                      *)

Customer(e) == stripe[e.sub].customer

\* findUserByStripeIds: by customer first, by subscription when there is none.
FoundUsers(e) ==
    LET byCustomer == {u \in Users : user[u].customer = Customer(e)}
    IN  IF byCustomer # {} THEN byCustomer
        ELSE {u \in Users : user[u].sub = e.sub}

InFlight(j) == job[j].pc # "idle"
Webhook(j)  == InFlight(j) /\ job[j].op \in WebhookTypes

Start(j, op, pc, e, u, seen) ==
    job' = [job EXCEPT ![j] = [op |-> op, pc |-> pc, ev |-> e, who |-> u,
                               seen |-> seen, ref |-> None]]
Finish(j)    == job' = [job EXCEPT ![j] = IdleJob]
Goto(j, pc)  == job' = [job EXCEPT ![j].pc = pc]

\* An out-of-order delivery is possible at any time; in order, only the
\* oldest event, and only when no other delivery is being handled.
Deliverable(e) ==
    InOrder => /\ \A f \in events : e.n <= f.n
               /\ \A j \in Jobs : ~Webhook(j)

\* handleWebHook dispatches on the type; every handler first looks the user up.
\* The three handlers that use updateMany go on without a user.
Deliver(j) ==
    /\ ~InFlight(j)
    /\ \E e \in events :
        /\ Deliverable(e)
        /\ events' = events \ {e}
        /\ \/ \E u \in FoundUsers(e) : Start(j, e.type, "apply", e, u, user[u].status)
           \/ /\ FoundUsers(e) = {}
              /\ e.type \in {"upsert", "deleted", "payment_failed"}
              /\ Start(j, e.type, "apply", e, None, None)
           \/ /\ FoundUsers(e) = {}
              /\ e.type \in InvoiceEventTypes \cup {"checkout"}
              /\ UNCHANGED job
    /\ UNCHANGED <<external, tables, clock, invoices, retries>>

\* where: { OR: [{ stripeCustomerId }, { stripeSubscriptionId }] }
MatchesUnfiltered(u, e) == TRUE
Matches(u, e) == user[u].customer = Customer(e) \/ user[u].sub = e.sub

StatusMap(st) ==
    CASE st = "active" -> "active"
      [] st = "past_due" -> "past_due"
      [] st = "canceled" -> "cancelled"
      [] OTHER -> "incomplete"

GivesAccessEarly(status) == status \in {"active", "trialing", "incomplete"}
GivesAccess(status) == status \in {"active", "trialing"}

Resolved(e) == IF e.cape THEN "cancelled" ELSE StatusMap(e.status)

\* shouldUpdateStatus: an active user is not moved back to incomplete.
KeepsStatus(e, seen) == GivesAccess(seen) /\ Resolved(e) = "incomplete"

UpsertRow(row, e, seen) ==
    [row EXCEPT !.customer = Customer(e), !.sub = e.sub,
                !.isPaid = e.cape \/ GivesAccess(StatusMap(e.status)),
                !.status = IF KeepsStatus(e, seen) THEN row.status ELSE Resolved(e)]

DeletedRowStripeSpelling(row) ==
    [row EXCEPT !.sub = None, !.status = "canceled", !.isPaid = FALSE]
DeletedRowKeepingAccess(row) == [row EXCEPT !.sub = None, !.status = "cancelled"]
DeletedRow(row) ==
    [row EXCEPT !.sub = None, !.status = "cancelled", !.isPaid = FALSE]

FailedRow(row) == [row EXCEPT !.status = "past_due", !.isPaid = FALSE]

\* Only the two invoice handlers insert a succeeded payment row; the checkout
\* handler inserts no row at all.
AfterWriteWithCheckout(type) ==
    IF type \in InvoiceEventTypes \cup {"checkout"} THEN "pay" ELSE "log"
AfterWrite(type) ==
    CASE type \in InvoiceEventTypes -> "pay"
      [] type = "checkout" -> "idle"
      [] OTHER -> "log"

\* The write of the users table each handler makes after its look-up.
ApplyEvent(j) ==
    LET e == job[j].ev
        u == job[j].who
    IN  /\ job[j].pc = "apply"
        /\ \/ /\ e.type \in InvoiceEventTypes
              /\ user' = [user EXCEPT ![u].status = "active", ![u].isPaid = TRUE]
           \/ /\ e.type = "checkout"
              /\ user' = [user EXCEPT ![u].status = "active", ![u].isPaid = TRUE,
                                      ![u].sub = e.sub]
           \/ /\ e.type = "upsert"
              /\ user' = [v \in Users |-> IF Matches(v, e)
                                          THEN UpsertRow(user[v], e, job[j].seen)
                                          ELSE user[v]]
           \/ /\ e.type = "deleted"
              /\ user' = [v \in Users |-> IF Matches(v, e)
                                          THEN DeletedRow(user[v]) ELSE user[v]]
           \/ /\ e.type = "payment_failed"
              /\ user' = [v \in Users |-> IF Matches(v, e)
                                          THEN FailedRow(user[v]) ELSE user[v]]
        /\ IF u = None \/ AfterWrite(e.type) = "idle"
             THEN Finish(j)
             ELSE Goto(j, AfterWrite(e.type))
        /\ UNCHANGED <<external, emission, payRows, lastEvent, admin>>

\* payment.create: a new succeeded row, whatever rows the invoice already has.
CreatePayment(j) ==
    /\ job[j].pc = "pay"
    /\ payRows' = [payRows EXCEPT ![job[j].ev.inv] = @ + 1]
    /\ Goto(j, "log")
    /\ UNCHANGED <<external, emission, user, lastEvent, admin>>

\* The status an upsert writes in the trail comes from the row it read before.
LoggedStatusUnresolved(e, seen) == IF KeepsStatus(e, seen) THEN seen ELSE StatusMap(e.status)
LoggedStatus(e, seen) == IF KeepsStatus(e, seen) THEN seen ELSE Resolved(e)

EventRow(j) ==
    LET e == job[j].ev
    IN  CASE job[j].op = "upsert" ->
                [event |-> IF e.cape THEN "cancelled" ELSE "activated",
                 status |-> LoggedStatus(e, job[j].seen)]
          [] job[j].op \in {"deleted", "cancel"} ->
                [event |-> "cancelled", status |-> "cancelled"]
          [] job[j].op = "payment_failed" ->
                [event |-> "payment_failed", status |-> "past_due"]
          [] job[j].op = "reactivate" ->
                [event |-> "reactivated", status |-> "active"]
          [] OTHER -> [event |-> "renewed", status |-> "active"]

\* subscriptionEvent.create, the last call of a webhook or of a request.
CreateEventRow(j) ==
    /\ job[j].pc = "log"
    /\ lastEvent' = [lastEvent EXCEPT ![job[j].who] = EventRow(j)]
    /\ Finish(j)
    /\ UNCHANGED <<external, emission, user, payRows, admin>>

\* A handler throws (a database or Stripe call fails, or the process dies) or
\* its answer is late: Stripe sends the event again.
WebhookFails(j) ==
    /\ Webhook(j) /\ retries < MaxRetries
    /\ retries' = retries + 1
    /\ events' = events \cup {job[j].ev}
    /\ Finish(j)
    /\ UNCHANGED <<external, tables, clock, invoices>>

StripeRepeats(j) ==
    /\ Webhook(j) /\ retries < MaxRetries
    /\ retries' = retries + 1
    /\ events' = events \cup {job[j].ev}
    /\ UNCHANGED <<external, tables, clock, invoices, job>>

-----------------------------------------------------------------------------
(* Requests of the account's owner.                                         *)

\* crateCheckoutSession: refused only to a user whose status is active.
SubscribeBegin(j, u) ==
    /\ ~InFlight(j)
    /\ user[u].status # "active"
    /\ Start(j, "subscribe", "check", None, u, None)
    /\ UNCHANGED <<external, emission, tables>>

\* getOrCreateStripeCustomer reads the row again ...
SubscribeCustomer(j) ==
    LET c == user[job[j].who].customer
    IN  /\ job[j].op = "subscribe" /\ job[j].pc = "check"
        /\ job' = [job EXCEPT ![j].pc = IF c = None THEN "customer" ELSE "session",
                              ![j].ref = c]
        /\ UNCHANGED <<external, emission, tables>>

\* ... creates a customer at Stripe when the row had none ...
SubscribeCreateCustomer(j) ==
    /\ job[j].pc = "customer"
    /\ \E c \in Customers :
        /\ owner[c] = None
        /\ owner' = [owner EXCEPT ![c] = job[j].who]
        /\ job' = [job EXCEPT ![j].pc = "link", ![j].ref = c]
    /\ UNCHANGED <<stripe, sessions, emission, tables>>

\* ... and stores it, over whatever customer the row has by then.
SubscribeLink(j) ==
    /\ job[j].pc = "link"
    /\ user' = [user EXCEPT ![job[j].who].customer = job[j].ref]
    /\ Goto(j, "session")
    /\ UNCHANGED <<external, emission, payRows, lastEvent, admin>>

SubscribeSession(j) ==
    /\ job[j].pc = "session"
    /\ sessions' = sessions \cup {job[j].ref}
    /\ Finish(j)
    /\ UNCHANGED <<owner, stripe, emission, tables>>

\* cancelSubscription and reactivateSubscription both change a live Stripe
\* subscription; Stripe answers with an updated event.
FlagSubscription(s, cape) ==
    /\ stripe[s].status \notin {"none", "canceled"}
    /\ stripe' = [stripe EXCEPT ![s].cape = cape]
    /\ Emit({Ev(1, "upsert", s, stripe[s].status, cape, 0)}, 1)

CancelBegin(j, u) ==
    /\ ~InFlight(j)
    /\ user[u].sub # None
    /\ GivesAccess(user[u].status)
    /\ job' = [job EXCEPT ![j] = [op |-> "cancel", pc |-> "flag", ev |-> None,
                                  who |-> u, seen |-> None, ref |-> user[u].sub]]
    /\ UNCHANGED <<external, emission, tables>>

CancelAtStripe(j) ==
    /\ job[j].op = "cancel" /\ job[j].pc = "flag"
    /\ FlagSubscription(job[j].ref, TRUE)
    /\ Goto(j, "save")
    /\ UNCHANGED <<owner, sessions, tables, invoices, retries>>

CancelSave(j) ==
    /\ job[j].pc = "save"
    /\ user' = [user EXCEPT ![job[j].who].status = "cancelled"]
    /\ Goto(j, "log")
    /\ UNCHANGED <<external, emission, payRows, lastEvent, admin>>

ReactivateBegin(j, u) ==
    /\ ~InFlight(j)
    /\ user[u].sub # None
    /\ job' = [job EXCEPT ![j] = [op |-> "reactivate", pc |-> "check", ev |-> None,
                                  who |-> u, seen |-> None, ref |-> user[u].sub]]
    /\ UNCHANGED <<external, emission, tables>>

ReactivateCheck(j) ==
    /\ job[j].op = "reactivate" /\ job[j].pc = "check"
    /\ IF stripe[job[j].ref].cape THEN Goto(j, "flag") ELSE Finish(j)
    /\ UNCHANGED <<external, emission, tables>>

ReactivateAtStripe(j) ==
    /\ job[j].op = "reactivate" /\ job[j].pc = "flag"
    /\ FlagSubscription(job[j].ref, FALSE)
    /\ Goto(j, "log")
    /\ UNCHANGED <<owner, sessions, tables, invoices, retries>>

\* A call of a request fails, Stripe refuses it, or the process dies: the
\* steps already made stay.
RequestFails(j) ==
    /\ InFlight(j) /\ job[j].op \in Requests
    /\ Finish(j)
    /\ UNCHANGED <<external, emission, tables>>

\* grantUserAccess and revokeUserAccess: one update, no call to Stripe.
AdminGrant(u) ==
    /\ adminActs < MaxAdminActs
    /\ adminActs' = adminActs + 1
    /\ user' = [user EXCEPT ![u].isPaid = TRUE, ![u].status = "active",
                            ![u].granted = TRUE]
    /\ everGranted' = everGranted \cup {u}
    /\ UNCHANGED <<external, emission, job, payRows, lastEvent>>

AdminRevoke(u) ==
    /\ adminActs < MaxAdminActs
    /\ adminActs' = adminActs + 1
    /\ user' = [user EXCEPT ![u].isPaid = FALSE, ![u].status = "free",
                            ![u].granted = FALSE]
    /\ UNCHANGED <<external, emission, job, payRows, lastEvent, everGranted>>

-----------------------------------------------------------------------------
StripeStep ==
    \E s \in Subs :
        \/ \E c \in Customers : StripeStartSubscription(c, s)
        \/ StripeFirstPayment(s)
        \/ StripeCollect(s)
        \/ StripeChargeFails(s)
        \/ StripeEnd(s)

WriteStep(j) ==
    \/ ApplyEvent(j)
    \/ CreatePayment(j)
    \/ CreateEventRow(j)

RequestStep(j) ==
    \/ SubscribeCustomer(j) \/ SubscribeCreateCustomer(j)
    \/ SubscribeLink(j) \/ SubscribeSession(j)
    \/ CancelAtStripe(j) \/ CancelSave(j)
    \/ ReactivateCheck(j) \/ ReactivateAtStripe(j)

Next ==
    \/ StripeStep
    \/ \E j \in Jobs :
        \/ Deliver(j)
        \/ WriteStep(j)
        \/ RequestStep(j)
        \/ WebhookFails(j) \/ StripeRepeats(j) \/ RequestFails(j)
        \/ \E u \in Users :
            SubscribeBegin(j, u) \/ CancelBegin(j, u) \/ ReactivateBegin(j, u)
    \/ \E u \in Users : AdminGrant(u) \/ AdminRevoke(u)

Spec == Init /\ [][Next]_vars

-----------------------------------------------------------------------------
(* Properties.                                                              *)

Owner(s) == IF stripe[s].customer = None THEN None ELSE owner[stripe[s].customer]

\* A webhook or request never puts one account's customer or subscription on
\* another account's row, whatever order the events arrive in and however the
\* look-up by customer or by subscription (findUserByStripeIds) and the later
\* updateMany interleave with other writers.
RecordsBelongToOwner ==
    \A u \in Users :
        /\ user[u].customer # None => owner[user[u].customer] = u
        /\ user[u].sub # None => Owner(user[u].sub) = u

\* Pro access is never given for nothing: an account that has it has paid an
\* invoice of a subscription of its own, or was granted access by an admin,
\* although five different handlers set isPaid, from snapshots that may be old.
AccessHasCause ==
    \A u \in Users :
        user[u].isPaid =>
            u \in everGranted \/ \E s \in Subs : Owner(s) = u /\ stripe[s].paid

\* "NO payment row created here. Payment row is created by invoice_payment.paid"
\* (subscription.service.ts:480-481): an invoice has at most one succeeded row.
OnePaymentPerInvoice == \A i \in 1..MaxInvoices : payRows[i] <= 1

\* Every event is handled and no request is under way.
AtRest == events = {} /\ \A j \in Jobs : ~InFlight(j)

\* Two requests of one user that overlap may each create a customer at Stripe.
OneCustomerEach ==
    \A c, d \in Customers : owner[c] # None /\ owner[c] = owner[d] => c = d

\* Every collected invoice ends up in the payments table, unless some user has two
\* customers: the row keeps one, and the events of the other may find nobody
\* (findUserByStripeIds).  The rows beyond the first come only from a second invoice
\* event type or from a repeated delivery (a handler that fails after payment.create
\* inserts again when Stripe retries).
PaymentsRecorded ==
    /\ AtRest /\ OneCustomerEach => \A i \in 1..invoices : payRows[i] >= 1
    /\ \A i \in 1..MaxInvoices : payRows[i] <= Cardinality(InvoiceEvents) + retries

\* Once every webhook is handled, an account has Pro access exactly when Stripe
\* holds a subscription of its owner that is active, or that is scheduled to be
\* cancelled and has not ended (onSubscriptionUpsert gives access to any
\* subscription with cancel_at_period_end, even to one that is past due).
AccessAgreesAtRest ==
    AtRest => \A u \in Users :
        user[u].isPaid <=>
            \E s \in Subs :
                /\ Owner(s) = u
                /\ \/ stripe[s].status = "active"
                   \/ stripe[s].status # "canceled" /\ stripe[s].cape

\* When requests and webhooks do not overlap, the newest row of the audit trail
\* names the status the account has once everything is handled; the checkout
\* handler writes no row, and the reactivate handler writes "active" before the
\* users table says so.
TrailAgreesAtRest ==
    AtRest => \A u \in Users : lastEvent[u].status = user[u].status

\* "You already have an active subscription. Cancel it first to change plans."
\* (subscription.service.ts:137): nobody is billed for two subscriptions at once.
OneActiveSubscription ==
    \A s, t \in Subs :
        /\ Owner(s) # None /\ Owner(s) = Owner(t)
        /\ stripe[s].status = "active" /\ stripe[t].status = "active"
        => s = t

\* "You keep Pro access until the end of your billing period"
\* (subscription.service.ts:201-202): no step takes access away from the owner of
\* a subscription that is cancelled but still active.
KeepsAccessUntilPeriodEnd ==
    [][\A u \in Users :
        user[u].isPaid /\ ~user'[u].isPaid =>
            ~\E s \in Subs : /\ Owner(s) = u /\ stripe[s].cape
                             /\ stripe[s].status = "active"]_vars

\* Fairness: a handler or request that can go on does (the event loop runs every
\* resolved promise), a request whose Stripe call cannot succeed ends with its
\* error, and Stripe keeps delivering.  Delivery is strongly fair because a job
\* that serves a request here does not keep a server from taking a webhook.
FairSpec ==
    /\ Spec
    /\ \A j \in Jobs : /\ SF_vars(Deliver(j))
                       /\ WF_vars(WriteStep(j))
                       /\ WF_vars(RequestStep(j) \/ RequestFails(j))

\* A subscription that has ended at Stripe eventually costs its owner the access.
EndedLosesAccess ==
    \A s \in Subs : (stripe[s].status = "canceled") ~>
        (\A u \in Users : Owner(s) = u => ~user[u].isPaid)

=============================================================================
