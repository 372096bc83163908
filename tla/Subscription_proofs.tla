------------------------ MODULE Subscription_proofs ------------------------
(***************************************************************************)
(* Facts about Pro access, for any number of accounts, customers,          *)
(* subscriptions and concurrent jobs, any order and any repetition of      *)
(* webhooks: rows only carry their owner's Stripe ids, access always has a *)
(* cause, and collected invoices reach the payments table.  When webhooks  *)
(* arrive in order, access is what Stripe says once all is handled, and    *)
(* with one request or delivery at a time so is the trail.  The inductive  *)
(* invariant carries the cause along the path it takes through the system: *)
(* from Stripe's subscription into the snapshot of an event, from there    *)
(* into the job that handles the event, and from the job into the row.     *)
(* The invariant of the payments keeps the books of each invoice: its rows,*)
(* its events that wait, and the deliveries that have not inserted a row.  *)
(***************************************************************************)
EXTENDS Subscription, FiniteSetTheorems, TLAPS

Cause(u) ==
    u \in everGranted \/ \E s \in Subs : Owner(s) = u /\ stripe[s].paid

\* Stripe knows the owner of every subscription that exists, has been paid by
\* the owner of every one that is or was active, and holds the cancellation flag
\* only for an owner who had access.
SubInv(s) ==
    /\ stripe[s].status = "none" =>
          stripe[s].customer = None /\ ~stripe[s].paid /\ ~stripe[s].cape
    /\ stripe[s].status # "none" =>
          stripe[s].customer \in Customers /\ Owner(s) \in Users
    /\ stripe[s].status \in {"active", "past_due"} => stripe[s].paid
    /\ stripe[s].cape => Cause(Owner(s))

\* What an event says was true when Stripe sent it, and stays true.
EventInv(e) ==
    /\ stripe[e.sub].status # "none"
    /\ e.type \in InvoiceEventTypes \cup {"checkout"} => stripe[e.sub].paid
    /\ e.status = "active" => stripe[e.sub].paid
    /\ e.cape => Cause(Owner(e.sub))

\* A webhook job works for the owner of its event's subscription; a request
\* job holds a customer or a subscription of its own user.
JobInv(j) ==
    /\ job[j].pc = "apply" \/ job[j].op \in WebhookTypes =>
          /\ job[j].ev \in Event
          /\ EventInv(job[j].ev)
          /\ job[j].who # None => Owner(job[j].ev.sub) = job[j].who
    /\ job[j].pc \in {"customer", "link", "session", "check", "flag"} =>
          job[j].who \in Users /\ job[j].op \in Requests
    /\ job[j].pc \in {"link", "session"} =>
          job[j].ref \in Customers /\ owner[job[j].ref] = job[j].who
    /\ job[j].pc \in {"check", "flag"} /\ job[j].op \in {"cancel", "reactivate"} =>
          job[j].ref \in Subs /\ Owner(job[j].ref) = job[j].who
    /\ job[j].pc = "flag" /\ job[j].op = "cancel" => Cause(job[j].who)

RowInv(u) ==
    /\ user[u].customer # None => owner[user[u].customer] = u
    /\ user[u].sub # None => Owner(user[u].sub) = u
    /\ user[u].isPaid \/ GivesAccess(user[u].status) => Cause(u)

SubsInv     == \A s \in Subs : SubInv(s)
EventsInv   == \A e \in events : EventInv(e)
JobsInv     == \A j \in Jobs : JobInv(j)
SessionsInv == \A c \in sessions : owner[c] \in Users
RowsInv     == \A u \in Users : RowInv(u)

IInv == TypeOK /\ SubsInv /\ EventsInv /\ JobsInv /\ SessionsInv /\ RowsInv

-----------------------------------------------------------------------------
(* What every step preserves: customers keep their owner, subscriptions     *)
(* their customer, payments and grants are never undone.                    *)

Grows ==
    /\ \A c \in Customers : owner[c] # None => owner'[c] = owner[c]
    /\ \A s \in Subs :
        /\ stripe[s].status # "none" => /\ stripe'[s].customer = stripe[s].customer
                                        /\ stripe'[s].status # "none"
        /\ stripe[s].paid => stripe'[s].paid
    /\ everGranted \subseteq everGranted'

\* The owner of a subscription, once known, never changes.
LEMMA OwnerStable ==
    ASSUME IInv, Grows, NEW s \in Subs, Owner(s) \in Users
    PROVE  Owner(s)' = Owner(s)
<1>1. stripe[s].status # "none" /\ stripe[s].customer \in Customers
  BY NoneIsNoValue DEF IInv, SubsInv, SubInv, Owner
<1>2. stripe'[s].customer = stripe[s].customer
  BY <1>1 DEF Grows
<1>3. owner[stripe[s].customer] # None
  BY <1>1, NoneIsNoValue DEF Owner
<1> QED
  BY <1>1, <1>2, <1>3 DEF Grows, Owner

\* A cause for access is never lost.
LEMMA CauseStable ==
    ASSUME IInv, Grows, NEW u \in Users, Cause(u)
    PROVE  Cause(u)'
<1>1. CASE u \in everGranted
  BY <1>1 DEF Grows, Cause
<1>2. ASSUME NEW s \in Subs, Owner(s) = u, stripe[s].paid
      PROVE  Cause(u)'
  <2>1. Owner(s)' = u
    BY <1>2, OwnerStable
  <2>2. stripe'[s].paid
    BY <1>2 DEF Grows
  <2> QED
    BY <2>1, <2>2 DEF Cause
<1> QED
  BY <1>1, <1>2 DEF Cause

\* What an event says stays true.
LEMMA EventStable ==
    ASSUME IInv, Grows, NEW e \in Event, EventInv(e)
    PROVE  EventInv(e)'
<1>1. e.sub \in Subs
  BY DEF Event
<1>2. Owner(e.sub) \in Users
  BY <1>1 DEF EventInv, IInv, SubsInv, SubInv
<1>3. Owner(e.sub)' = Owner(e.sub)
  BY <1>1, <1>2, OwnerStable
<1>4. ASSUME e.cape
      PROVE  Cause(Owner(e.sub))'
  <2>1. PICK u \in Users : u = Owner(e.sub)
    BY <1>2
  <2>2. Cause(u)'
    BY <1>4, <2>1, CauseStable DEF EventInv
  <2> QED
    BY <1>3, <2>1, <2>2 DEF Cause
<1> QED
  BY <1>1, <1>4 DEF EventInv, Grows

\* An untouched subscription, job or row keeps its part of the invariant.
LEMMA SubStable ==
    ASSUME IInv, Grows, NEW s \in Subs, stripe'[s] = stripe[s]
    PROVE  SubInv(s)'
<1>1. CASE stripe[s].status = "none"
  BY <1>1 DEF IInv, SubsInv, SubInv
<1>2. CASE stripe[s].status # "none"
  <2>1. Owner(s) \in Users /\ Owner(s)' = Owner(s)
    BY <1>2, OwnerStable DEF IInv, SubsInv, SubInv
  <2>2. ASSUME stripe[s].cape
        PROVE  Cause(Owner(s))'
    <3>1. PICK u \in Users : u = Owner(s)
      BY <2>1
    <3>2. Cause(u)'
      BY <2>2, <3>1, CauseStable DEF IInv, SubsInv, SubInv
    <3> QED
      BY <2>1, <3>1, <3>2 DEF Cause
  <2> QED
    BY <1>2, <2>1, <2>2 DEF IInv, SubsInv, SubInv
<1> QED
  BY <1>1, <1>2

\* A job no step touched keeps its part of the invariant.
LEMMA JobStable ==
    ASSUME IInv, Grows, NEW j \in Jobs, job'[j] = job[j]
    PROVE  JobInv(j)'
<1> DEFINE J == job[j]
<1>1. JobInv(j) /\ J \in Job
  BY DEF IInv, JobsInv, TypeOK
<1>2. ASSUME J.pc = "apply" \/ J.op \in WebhookTypes
      PROVE  /\ J.ev \in Event
             /\ EventInv(J.ev)'
             /\ J.who # None => Owner(J.ev.sub)' = J.who
  <2>1. PICK e \in Event : e = J.ev /\ EventInv(e)
    BY <1>1, <1>2 DEF JobInv
  <2>2. EventInv(e)'
    BY <2>1, EventStable
  <2>3. e.sub \in Subs /\ J.who \in Users \cup {None}
    BY <1>1 DEF Event, Job
  <2>4. J.who # None => Owner(e.sub)' = J.who
    BY <1>1, <1>2, <2>1, <2>3, OwnerStable DEF JobInv
  <2> QED
    BY <2>1, <2>2, <2>4 DEF EventInv
<1>3. J.pc \in {"link", "session"} =>
        J.ref \in Customers /\ owner'[J.ref] = J.who
  BY <1>1, NoneIsNoValue DEF JobInv, Grows
<1>4. J.pc \in {"check", "flag"} /\ J.op \in {"cancel", "reactivate"} =>
        J.ref \in Subs /\ Owner(J.ref)' = J.who
  BY <1>1, OwnerStable DEF JobInv
<1>5. J.pc = "flag" /\ J.op = "cancel" => Cause(J.who)'
  BY <1>1, CauseStable DEF JobInv
<1>6. J.pc \in {"customer", "link", "session", "check", "flag"} =>
        J.who \in Users /\ J.op \in Requests
  BY <1>1 DEF JobInv
<1> QED
  BY <1>2, <1>3, <1>4, <1>5, <1>6 DEF JobInv

\* A row no step touched keeps its part of the invariant.
LEMMA RowStable ==
    ASSUME IInv, Grows, NEW u \in Users, user'[u] = user[u]
    PROVE  RowInv(u)'
<1>1. RowInv(u) /\ user[u] \in User
  BY DEF IInv, RowsInv, TypeOK
<1>2. user[u].customer # None => owner'[user[u].customer] = u
  BY <1>1, NoneIsNoValue DEF RowInv, Grows, User
<1>3. user[u].sub # None => Owner(user[u].sub)' = u
  BY <1>1, OwnerStable DEF RowInv, User
<1>4. user[u].isPaid \/ GivesAccess(user[u].status) => Cause(u)'
  BY <1>1, CauseStable DEF RowInv
<1> QED
  BY <1>2, <1>3, <1>4 DEF RowInv, GivesAccess

\* The part of the invariant a step has to establish: only what it changes.
LEMMA StepLemma ==
    ASSUME IInv, Grows, TypeOK',
           \A s \in Subs : stripe'[s] = stripe[s] \/ SubInv(s)',
           \A e \in events' : e \in events \/ EventInv(e)',
           \A j \in Jobs : job'[j] = job[j] \/ JobInv(j)',
           \A c \in sessions' : c \in sessions \/ owner'[c] \in Users,
           \A u \in Users : user'[u] = user[u] \/ RowInv(u)'
    PROVE  IInv'
<1>1. SubsInv'
  BY SubStable DEF SubsInv
<1>2. EventsInv'
  BY EventStable DEF EventsInv, IInv, TypeOK
<1>3. JobsInv'
  BY JobStable DEF JobsInv
<1>4. SessionsInv'
  BY NoneIsNoValue DEF SessionsInv, IInv, TypeOK, Grows
<1>5. RowsInv'
  BY RowStable DEF RowsInv
<1> QED
  BY <1>1, <1>2, <1>3, <1>4, <1>5 DEF IInv

-----------------------------------------------------------------------------
(* The actions.                                                             *)

\* Nothing has happened yet: no events, no Stripe ids, no access.
LEMMA InitLemma == Init => IInv
<1> SUFFICES ASSUME Init PROVE IInv
  OBVIOUS
<1>1. TypeOK
  BY Parameters
     DEF Init, TypeOK, User, Statuses, StripeSub, StripeStatuses, TrailRow, Job,
         IdleJob, WebhookTypes, Requests
<1>2. SubsInv
  BY DEF Init, SubsInv, SubInv
<1>3. JobsInv
  BY DEF Init, JobsInv, JobInv, IdleJob, WebhookTypes, InvoiceEventTypes
<1>4. EventsInv /\ SessionsInv
  BY DEF Init, EventsInv, SessionsInv
<1>5. RowsInv
  BY DEF Init, RowsInv, RowInv, GivesAccess
<1> QED
  BY <1>1, <1>2, <1>3, <1>4, <1>5 DEF IInv

\* A step of Stripe's own changes one subscription and emits events about it.
LEMMA StripeType ==
    ASSUME TypeOK, NEW s \in Subs, stripe' \in [Subs -> StripeSub],
           sessions' \in SUBSET Customers, NEW new \in SUBSET Event, NEW count \in Nat,
           Emit(new, count), invoices' \in 0..MaxInvoices,
           UNCHANGED <<owner, job, tables, retries>>
    PROVE  TypeOK'
BY DEF TypeOK, Emit, tables, admin

\* A subscription starts for the owner of the customer who checks out.
LEMMA StripeStartLemma ==
    ASSUME IInv, NEW c \in Customers, NEW s \in Subs, StripeStartSubscription(c, s)
    PROVE  IInv'
<1> USE DEF StripeStartSubscription, tables, admin
<1>1. Grows
  BY DEF Grows, IInv, TypeOK, StripeSub
<1>2. TypeOK'
  <2>1. stripe' \in [Subs -> StripeSub]
    BY DEF IInv, TypeOK, StripeSub, StripeStatuses
  <2>2. {Ev(1, "upsert", s, "incomplete", FALSE, 0)} \subseteq Event
    BY DEF Ev, Event, IInv, TypeOK, WebhookTypes, StripeStatuses
  <2> QED
    BY <2>1, <2>2, StripeType DEF IInv, TypeOK
<1>3. SubInv(s)'
  BY NoneIsNoValue DEF IInv, SubsInv, SubInv, SessionsInv, TypeOK, StripeSub, Owner
<1>4. \A e \in events' : e \in events \/ EventInv(e)'
  BY DEF EventInv, IInv, TypeOK, StripeSub, InvoiceEventTypes, Emit, Ev
<1> QED
  BY <1>1, <1>2, <1>3, <1>4, StepLemma DEF IInv, TypeOK

\* The events of a paid invoice are true of a subscription that is paid.
LEMMA InvoiceEventsLemma ==
    ASSUME TypeOK, NEW k \in Nat, NEW s \in Subs, NEW cape \in BOOLEAN
    PROVE  /\ InvoicePaidEvents(k, s, cape) \subseteq Event
           /\ \A e \in InvoicePaidEvents(k, s, cape) : e.sub = s /\ e.cape = cape
BY Parameters
   DEF InvoicePaidEvents, TypeOK, WebhookTypes, StripeStatuses,
              InvoiceEventTypes, Ev, Event

\* The first payment makes the subscription paid, before any event says so.
LEMMA StripeFirstPaymentLemma ==
    ASSUME IInv, NEW s \in Subs, StripeFirstPayment(s)
    PROVE  IInv'
<1> USE DEF StripeFirstPayment, tables, admin
<1> DEFINE cape == stripe[s].cape
           new  == {Ev(1, "upsert", s, "active", cape, 0),
                    Ev(2, "checkout", s, "active", cape, invoices + 1)}
                   \cup InvoicePaidEvents(3, s, cape)
<1>1. Grows
  BY DEF Grows, IInv, TypeOK, StripeSub
<1>2. stripe' \in [Subs -> StripeSub] /\ cape \in BOOLEAN
  BY DEF IInv, TypeOK, StripeSub, StripeStatuses
<1>3. new \subseteq Event /\ \A e \in new : e.sub = s /\ e.cape = cape
  <2>1. /\ Ev(1, "upsert", s, "active", cape, 0) \in Event
        /\ Ev(2, "checkout", s, "active", cape, invoices + 1) \in Event
    BY <1>2, Parameters DEF Ev, Event, IInv, TypeOK, WebhookTypes, StripeStatuses
  <2> QED
    <3>1. /\ InvoicePaidEvents(3, s, cape) \subseteq Event
          /\ \A e \in InvoicePaidEvents(3, s, cape) : e.sub = s /\ e.cape = cape
      BY <1>2, InvoiceEventsLemma DEF IInv
    <3> QED
      BY <2>1, <3>1 DEF Ev
<1>4. TypeOK'
  <2>1. invoices' \in 0..MaxInvoices
    BY Parameters DEF IInv, TypeOK
  <2> QED
    BY <1>2, <1>3, <2>1, StripeType DEF IInv, TypeOK
<1>5. Owner(s) \in Users /\ Owner(s)' = Owner(s)
  BY <1>1, OwnerStable DEF IInv, SubsInv, SubInv
<1>6. Cause(Owner(s))' /\ SubInv(s)' /\ stripe'[s].paid /\ stripe'[s].status # "none"
  BY <1>5, NoneIsNoValue DEF IInv, SubsInv, SubInv, TypeOK, StripeSub, Cause
<1>7. \A e \in events' : e \in events \/ EventInv(e)'
  BY <1>3, <1>6 DEF EventInv, Emit
<1> QED
  BY <1>1, <1>4, <1>6, <1>7, StepLemma DEF IInv, TypeOK

\* A later invoice: the subscription was paid already.
LEMMA StripeCollectLemma ==
    ASSUME IInv, NEW s \in Subs, StripeCollect(s)
    PROVE  IInv'
<1> USE DEF StripeCollect, tables, admin
<1> DEFINE cape == stripe[s].cape
           new  == {Ev(1, "upsert", s, "active", cape, 0)} \cup InvoicePaidEvents(2, s, cape)
<1>1. Grows
  BY DEF Grows, IInv, TypeOK, StripeSub
<1>2. stripe' \in [Subs -> StripeSub] /\ cape \in BOOLEAN
  BY DEF IInv, TypeOK, StripeSub, StripeStatuses
<1>3. new \subseteq Event /\ \A e \in new : e.sub = s /\ e.cape = cape
  <2>1. Ev(1, "upsert", s, "active", cape, 0) \in Event
    BY <1>2 DEF Ev, Event, IInv, TypeOK, WebhookTypes, StripeStatuses
  <2>2. /\ InvoicePaidEvents(2, s, cape) \subseteq Event
        /\ \A e \in InvoicePaidEvents(2, s, cape) : e.sub = s /\ e.cape = cape
    BY <1>2, InvoiceEventsLemma DEF IInv
  <2> QED
    BY <2>1, <2>2 DEF Ev
<1>4. TypeOK'
  <2>1. invoices' \in 0..MaxInvoices
    BY Parameters DEF IInv, TypeOK
  <2> QED
    BY <1>2, <1>3, <2>1, StripeType DEF IInv, TypeOK
<1>5. Owner(s) \in Users /\ Owner(s)' = Owner(s)
  BY <1>1, OwnerStable DEF IInv, SubsInv, SubInv
<1>6. Cause(Owner(s))' /\ SubInv(s)' /\ stripe'[s].paid /\ stripe'[s].status # "none"
  BY <1>5, NoneIsNoValue DEF IInv, SubsInv, SubInv, TypeOK, StripeSub, Cause
<1>7. \A e \in events' : e \in events \/ EventInv(e)'
  BY <1>3, <1>6 DEF EventInv, Emit
<1> QED
  BY <1>1, <1>4, <1>6, <1>7, StepLemma DEF IInv, TypeOK

\* A failed charge sends events that give nobody access.
LEMMA StripeChargeFailsLemma ==
    ASSUME IInv, NEW s \in Subs, StripeChargeFails(s)
    PROVE  IInv'
<1> USE DEF StripeChargeFails, tables, admin
<1> DEFINE new == {Ev(1, "payment_failed", s, "past_due", FALSE, 0),
                   Ev(2, "upsert", s, "past_due", FALSE, 0)}
<1>1. Grows
  BY DEF Grows, IInv, TypeOK, StripeSub
<1>2. stripe' \in [Subs -> StripeSub]
  BY DEF IInv, TypeOK, StripeSub, StripeStatuses
<1>3. new \subseteq Event
  BY DEF Ev, Event, IInv, TypeOK, WebhookTypes, StripeStatuses
<1>4. TypeOK'
  BY <1>2, <1>3, StripeType DEF IInv, TypeOK
<1>5. Owner(s) \in Users /\ Owner(s)' = Owner(s)
  BY <1>1, OwnerStable DEF IInv, SubsInv, SubInv
<1>6. SubInv(s)' /\ stripe'[s].status # "none"
  BY <1>5, NoneIsNoValue DEF IInv, SubsInv, SubInv, TypeOK, StripeSub
<1>7. \A e \in events' : e \in events \/ EventInv(e)'
  BY <1>3, <1>6 DEF EventInv, Emit, Ev, InvoiceEventTypes
<1> QED
  BY <1>1, <1>4, <1>6, <1>7, StepLemma DEF IInv, TypeOK

\* The end of a subscription sends an event that gives nobody access.
LEMMA StripeEndLemma ==
    ASSUME IInv, NEW s \in Subs, StripeEnd(s)
    PROVE  IInv'
<1> USE DEF StripeEnd, tables, admin
<1> DEFINE new == {Ev(1, "deleted", s, "canceled", stripe[s].cape, 0)}
<1>1. Grows
  BY DEF Grows, IInv, TypeOK, StripeSub
<1>2. stripe' \in [Subs -> StripeSub]
  BY DEF IInv, TypeOK, StripeSub, StripeStatuses
<1>3. new \subseteq Event
  BY DEF Ev, Event, IInv, TypeOK, WebhookTypes, StripeStatuses, StripeSub
<1>4. TypeOK'
  BY <1>2, <1>3, StripeType DEF IInv, TypeOK
<1>5. Owner(s) \in Users /\ Owner(s)' = Owner(s)
  BY <1>1, OwnerStable DEF IInv, SubsInv, SubInv
<1>6. Cause(Owner(s))' /\ SubInv(s)' /\ stripe'[s].status # "none"
  BY <1>5, NoneIsNoValue DEF IInv, SubsInv, SubInv, TypeOK, StripeSub, Cause
<1>7. \A e \in events' : e \in events \/ EventInv(e)'
  BY <1>3, <1>6 DEF EventInv, Emit, Ev, InvoiceEventTypes
<1> QED
  BY <1>1, <1>4, <1>6, <1>7, StepLemma DEF IInv, TypeOK

-----------------------------------------------------------------------------
(* Webhook steps.                                                           *)

\* The user the look-up finds is the owner of the event's subscription.
LEMMA FoundIsOwner ==
    ASSUME IInv, NEW e \in events, NEW u \in FoundUsers(e)
    PROVE  u \in Users /\ Owner(e.sub) = u
<1>1. e \in Event /\ EventInv(e) /\ u \in Users
  BY DEF IInv, TypeOK, EventsInv, FoundUsers
<1>2. e.sub \in Subs /\ stripe[e.sub].customer \in Customers
  BY <1>1 DEF Event, EventInv, IInv, SubsInv, SubInv
<1>3. user[u].customer = Customer(e) \/ user[u].sub = e.sub
  BY DEF FoundUsers
<1>4. RowInv(u)
  BY <1>1 DEF IInv, RowsInv
<1> QED
  BY <1>1, <1>2, <1>3, <1>4, NoneIsNoValue DEF RowInv, Customer, Owner

\* A delivery reads the subscription's owner, or nobody.
LEMMA DeliverLemma ==
    ASSUME IInv, NEW j \in Jobs, Deliver(j)
    PROVE  IInv'
<1>1. Grows
  BY DEF Grows, Deliver, external, tables, admin
<1>2. PICK e \in events : /\ events' = events \ {e}
                          /\ \/ \E u \in FoundUsers(e) :
                                  Start(j, e.type, "apply", e, u, user[u].status)
                             \/ Start(j, e.type, "apply", e, None, None)
                             \/ UNCHANGED job
  BY DEF Deliver
<1>3. UNCHANGED <<owner, stripe, sessions, user, payRows, lastEvent, adminActs,
                  everGranted, clock, invoices, retries>>
  BY DEF Deliver, external, tables, admin
<1>4. e \in Event /\ EventInv(e)
  BY DEF IInv, TypeOK, EventsInv
<1>5. EventInv(e)'
  BY <1>1, <1>4, EventStable
<1>6. CASE UNCHANGED job
  BY <1>1, <1>2, <1>3, <1>6, StepLemma DEF IInv, TypeOK
<1>7. ASSUME NEW u \in FoundUsers(e), Start(j, e.type, "apply", e, u, user[u].status)
      PROVE  IInv'
  <2>1. u \in Users /\ Owner(e.sub)' = u
    BY <1>3, FoundIsOwner DEF Owner
  <2>2. TypeOK'
    BY <1>2, <1>3, <1>4, <1>7, <2>1 DEF Start, IInv, TypeOK, Job, Event, User
  <2>3. JobInv(j)'
    BY <1>4, <1>5, <1>7, <2>1 DEF Start, JobInv, EventInv, IInv, TypeOK
  <2> QED
    BY <1>1, <1>2, <1>3, <1>7, <2>2, <2>3, StepLemma DEF Start, IInv, TypeOK
<1>8. ASSUME Start(j, e.type, "apply", e, None, None)
      PROVE  IInv'
  <2>1. TypeOK'
    BY <1>2, <1>3, <1>4, <1>8 DEF Start, IInv, TypeOK, Job, Event
  <2>2. JobInv(j)'
    BY <1>4, <1>5, <1>8 DEF Start, JobInv, EventInv, IInv, TypeOK
  <2> QED
    BY <1>1, <1>2, <1>3, <1>8, <2>1, <2>2, StepLemma DEF Start, IInv, TypeOK
<1> QED
  BY <1>2, <1>6, <1>7, <1>8

\* A step of a job that changes no table and nothing of Stripe's.
LEMMA JobOnlyLemma ==
    ASSUME IInv, NEW j \in Jobs, NEW r \in Job, job' = [job EXCEPT ![j] = r], JobInv(j)',
           UNCHANGED <<external, emission, tables>>
    PROVE  IInv'
<1> USE DEF external, emission, tables, admin
<1>1. Grows
  BY DEF Grows
<1>2. TypeOK'
  BY DEF IInv, TypeOK
<1> QED
  BY <1>1, <1>2, StepLemma DEF IInv, TypeOK

\* A finished job holds nothing.
LEMMA IdleLemma == IdleJob \in Job /\ \A j \in Jobs : job'[j] = IdleJob => JobInv(j)'
BY DEF IdleJob, Job, Requests, WebhookTypes, InvoiceEventTypes, JobInv

\* What a handler writes is true of a row of the event's owner.
LEMMA WrittenRowLemma ==
    ASSUME IInv, NEW e \in Event, EventInv(e), NEW v \in Users, Matches(v, e)
    PROVE  /\ Owner(e.sub) = v
           /\ owner[Customer(e)] = v
           /\ Customer(e) \in Customers /\ e.sub \in Subs
           /\ e.cape \/ GivesAccess(StatusMap(e.status)) => Cause(v)
<1>1. e.sub \in Subs /\ stripe[e.sub].customer \in Customers /\ RowInv(v)
  BY DEF Event, EventInv, IInv, SubsInv, SubInv, RowsInv
<1>2. Owner(e.sub) = v /\ owner[Customer(e)] = v
  BY <1>1, NoneIsNoValue DEF Matches, Customer, Owner, RowInv
<1>3. GivesAccess(StatusMap(e.status)) => e.status = "active"
  BY DEF GivesAccess, StatusMap
<1> QED
  BY <1>1, <1>2, <1>3 DEF EventInv, Cause, Customer

\* The row an updated event writes: access only with a payment or a cancellation
\* flag, both of which have a cause.
LEMMA UpsertRowLemma ==
    ASSUME IInv, NEW e \in Event, EventInv(e), NEW v \in Users, Matches(v, e),
           NEW seen, user'[v] = UpsertRow(user[v], e, seen),
           UNCHANGED <<owner, stripe, everGranted>>
    PROVE  RowInv(v)' /\ user'[v] \in User
<1>1. /\ Owner(e.sub) = v
      /\ owner[Customer(e)] = v
      /\ Customer(e) \in Customers /\ e.sub \in Subs
      /\ e.cape \/ GivesAccess(StatusMap(e.status)) => Cause(v)
  BY WrittenRowLemma
<1>2. user[v] \in User /\ RowInv(v) /\ e.cape \in BOOLEAN
  BY DEF IInv, TypeOK, RowsInv, Event
<1>3. Resolved(e) \in Statuses /\ (GivesAccess(Resolved(e)) => Cause(v))
  BY <1>1 DEF Resolved, Statuses, StatusMap, GivesAccess
<1>4. user'[v] \in User
  BY <1>1, <1>2, <1>3 DEF User, UpsertRow, GivesAccess
<1>5. /\ user'[v].customer = Customer(e)
      /\ user'[v].sub = e.sub
      /\ user'[v].isPaid => Cause(v)
      /\ user'[v].status \in {user[v].status, Resolved(e)}
  BY <1>1, <1>2 DEF User, UpsertRow
<1>6. GivesAccess(user'[v].status) => Cause(v)
  BY <1>2, <1>3, <1>5 DEF RowInv
<1>7. (user'[v].isPaid \/ GivesAccess(user'[v].status)) => Cause(v)'
  BY <1>5, <1>6 DEF Cause, Owner
<1> QED
  BY <1>1, <1>4, <1>5, <1>7 DEF RowInv, Owner, GivesAccess

\* A row that keeps or loses access.
LEMMA LosesAccessLemma ==
    ASSUME IInv, NEW v \in Users, UNCHANGED <<owner, stripe>>,
           user'[v] \in User, user'[v].customer = user[v].customer,
           user'[v].sub \in {user[v].sub, None},
           ~user'[v].isPaid, ~GivesAccess(user'[v].status)
    PROVE  RowInv(v)'
BY DEF IInv, RowsInv, RowInv, GivesAccess, Owner

\* A row that gets access because its owner has paid.
LEMMA GetsAccessLemma ==
    ASSUME IInv, NEW v \in Users, UNCHANGED <<owner, stripe>>,
           NEW s \in Subs, Owner(s) = v, stripe[s].paid,
           user'[v] \in User, user'[v].customer = user[v].customer,
           user'[v].sub \in {user[v].sub, s}
    PROVE  RowInv(v)'
BY DEF IInv, RowsInv, RowInv, Owner, Cause

\* The write every webhook handler makes after its look-up.
LEMMA ApplyEventLemma ==
    ASSUME IInv, NEW j \in Jobs, ApplyEvent(j)
    PROVE  IInv'
<1> USE DEF external, emission, tables, admin
<1>1. UNCHANGED <<owner, stripe, sessions, events, clock, invoices, retries,
                  payRows, lastEvent, adminActs, everGranted>>
  BY DEF ApplyEvent
<1>2. Grows
  BY <1>1 DEF Grows
<1>3. PICK e \in Event, u \in Users \cup {None} :
        /\ e = job[j].ev /\ u = job[j].who
        /\ EventInv(e) /\ (u # None => Owner(e.sub) = u)
  BY DEF ApplyEvent, IInv, TypeOK, JobsInv, JobInv, Job
<1>4. job[j] \in Job /\ JobInv(j) /\ e.sub \in Subs
  BY DEF IInv, TypeOK, JobsInv, Event
<1>5. \E r \in Job : job' = [job EXCEPT ![j] = r] /\ JobInv(j)'
  <2>1. CASE Finish(j)
    BY <2>1, IdleLemma DEF Finish, IInv, TypeOK
  <2>2. CASE Goto(j, AfterWrite(e.type))
    <3> DEFINE r == [job[j] EXCEPT !.pc = AfterWrite(e.type)]
    <3>1. AfterWrite(e.type) \in {"pay", "log", "idle"}
      BY DEF AfterWrite
    <3>2. job' = [job EXCEPT ![j] = r]
      BY <2>2 DEF Goto, IInv, TypeOK
    <3>3. r \in Job
      BY <1>4, <3>1 DEF Job
    <3>4. EventInv(e)' /\ Owner(e.sub)' = Owner(e.sub)
      BY <1>1, <1>2, <1>3, EventStable DEF Owner
    <3>5. JobInv(j)'
      BY <1>3, <1>4, <3>1, <3>2, <3>4 DEF JobInv, EventInv, IInv, TypeOK, Job
    <3> QED
      BY <3>2, <3>3, <3>5
  <2> QED
    BY <1>3, <2>1, <2>2 DEF ApplyEvent
<1>6. ASSUME NEW v \in Users
      PROVE  user'[v] \in User /\ (user'[v] = user[v] \/ RowInv(v)')
  <2>1. user[v] \in User
    BY DEF IInv, TypeOK
  <2>2. CASE /\ e.type \in InvoiceEventTypes
             /\ user' = [user EXCEPT ![u].status = "active", ![u].isPaid = TRUE]
    <3>1. CASE u = v
      <4>1. user'[v] = [user[v] EXCEPT !.status = "active", !.isPaid = TRUE]
        BY <2>2, <3>1 DEF IInv, TypeOK
      <4>2. user'[v] \in User
        BY <2>1, <4>1 DEF User, Statuses
      <4>3. stripe[e.sub].paid /\ Owner(e.sub) = v
        BY <1>3, <2>2, <3>1, NoneIsNoValue DEF EventInv
      <4>4. user'[v].customer = user[v].customer /\ user'[v].sub = user[v].sub
        BY <2>1, <4>1 DEF User
      <4> QED
        BY <1>1, <1>4, <4>2, <4>3, <4>4, GetsAccessLemma
    <3> QED
      BY <2>1, <2>2, <3>1 DEF IInv, TypeOK
  <2>3. CASE /\ e.type = "checkout"
             /\ user' = [user EXCEPT ![u].status = "active", ![u].isPaid = TRUE,
                                     ![u].sub = e.sub]
    <3>1. CASE u = v
      <4>1. user'[v] = [user[v] EXCEPT !.status = "active", !.isPaid = TRUE,
                                       !.sub = e.sub]
        BY <2>3, <3>1 DEF IInv, TypeOK
      <4>2. user'[v] \in User
        BY <1>4, <2>1, <4>1 DEF User, Statuses
      <4>3. stripe[e.sub].paid /\ Owner(e.sub) = v
        BY <1>3, <2>3, <3>1, NoneIsNoValue DEF EventInv
      <4>4. user'[v].customer = user[v].customer /\ user'[v].sub = e.sub
        BY <2>1, <4>1 DEF User
      <4> QED
        BY <1>1, <1>4, <4>2, <4>3, <4>4, GetsAccessLemma
    <3> QED
      BY <2>1, <2>3, <3>1 DEF IInv, TypeOK
  <2>4. CASE user' = [w \in Users |-> IF Matches(w, e)
                                      THEN UpsertRow(user[w], e, job[j].seen)
                                      ELSE user[w]]
    <3>1. CASE Matches(v, e)
      BY <1>1, <1>3, <2>4, <3>1, UpsertRowLemma
    <3> QED
      BY <2>1, <2>4, <3>1
  <2>5. CASE user' = [w \in Users |-> IF Matches(w, e) THEN DeletedRow(user[w])
                                      ELSE user[w]]
    <3>1. CASE Matches(v, e)
      <4>1. user'[v] = DeletedRow(user[v])
        BY <2>5, <3>1
      <4>2. /\ user'[v] \in User
            /\ user'[v].customer = user[v].customer /\ user'[v].sub = None
            /\ ~user'[v].isPaid /\ ~GivesAccess(user'[v].status)
        BY <2>1, <4>1 DEF User, Statuses, DeletedRow, GivesAccess
      <4> QED
        BY <1>1, <4>2, LosesAccessLemma
    <3> QED
      BY <2>1, <2>5, <3>1
  <2>6. CASE user' = [w \in Users |-> IF Matches(w, e) THEN FailedRow(user[w])
                                      ELSE user[w]]
    <3>1. CASE Matches(v, e)
      <4>1. user'[v] = FailedRow(user[v])
        BY <2>6, <3>1
      <4>2. /\ user'[v] \in User
            /\ user'[v].customer = user[v].customer /\ user'[v].sub = user[v].sub
            /\ ~user'[v].isPaid /\ ~GivesAccess(user'[v].status)
        BY <2>1, <4>1 DEF User, Statuses, FailedRow, GivesAccess
      <4> QED
        BY <1>1, <4>2, LosesAccessLemma
    <3> QED
      BY <2>1, <2>6, <3>1
  <2> QED
    BY <1>3, <2>2, <2>3, <2>4, <2>5, <2>6 DEF ApplyEvent
<1>7. TypeOK'
  <2>1. user' \in [Users -> User]
    <3>1. user' = [v \in Users |-> user'[v]]
      BY <1>3 DEF ApplyEvent, IInv, TypeOK
    <3> QED
      BY <1>6, <3>1
  <2> QED
    BY <1>1, <1>5, <2>1 DEF IInv, TypeOK
<1> QED
  BY <1>1, <1>2, <1>5, <1>6, <1>7, StepLemma DEF IInv, TypeOK

\* A payment row, and the job goes on to the trail.
LEMMA CreatePaymentLemma ==
    ASSUME IInv, NEW j \in Jobs, CreatePayment(j)
    PROVE  IInv'
<1> USE DEF external, emission, admin, CreatePayment, Goto
<1>1. Grows
  BY DEF Grows
<1>2. TypeOK'
  <2>1. payRows' \in [1..MaxInvoices -> Nat]
    <3> DEFINE i == job[j].ev.inv
    <3>1. payRows \in [1..MaxInvoices -> Nat] /\ payRows' = [payRows EXCEPT ![i] = payRows[i] + 1]
      BY DEF IInv, TypeOK
    <3>2. \A k \in 1..MaxInvoices : payRows[k] + 1 \in Nat
      BY <3>1
    <3> HIDE DEF i, CreatePayment
    <3> QED
      BY <3>1, <3>2
  <2>2. job' \in [Jobs -> Job]
    BY DEF IInv, TypeOK, Job
  <2> QED
    BY <2>1, <2>2 DEF IInv, TypeOK
<1>3. JobInv(j)'
  <2>1. job[j] \in Job /\ JobInv(j) /\ job' = [job EXCEPT ![j] = [job[j] EXCEPT !.pc = "log"]]
    BY DEF IInv, JobsInv, TypeOK
  <2>2. UNCHANGED <<owner, stripe, everGranted>>
    OBVIOUS
  <2> HIDE DEF CreatePayment
  <2> QED
    BY <2>1, <2>2 DEF JobInv, EventInv, Cause, Owner, Job, IInv, TypeOK
<1> QED
  BY <1>1, <1>2, <1>3, StepLemma DEF IInv, TypeOK

\* A row of the trail, and the job ends.
LEMMA CreateEventRowLemma ==
    ASSUME IInv, NEW j \in Jobs, CreateEventRow(j)
    PROVE  IInv'
<1> USE DEF external, emission, admin
<1>1. Grows
  BY DEF Grows, CreateEventRow
<1>2. EventRow(j) \in TrailRow
  <2>1. job[j] \in Job
    BY DEF IInv, TypeOK
  <2>2. LoggedStatus(job[j].ev, job[j].seen) \in Statuses
    BY DEF LoggedStatus, KeepsStatus, GivesAccess, Resolved, StatusMap, Statuses
  <2> QED
    BY <2>1, <2>2 DEF EventRow, TrailRow, Statuses
<1>3. TypeOK'
  BY <1>2, IdleLemma DEF CreateEventRow, Finish, IInv, TypeOK
<1>4. JobInv(j)'
  BY IdleLemma DEF CreateEventRow, Finish, IInv, TypeOK
<1> QED
  BY <1>1, <1>3, <1>4, StepLemma DEF CreateEventRow, Finish, IInv, TypeOK

\* A delivery that is repeated says nothing new.
LEMMA RedeliveryLemma ==
    ASSUME IInv, NEW j \in Jobs, WebhookFails(j) \/ StripeRepeats(j)
    PROVE  IInv'
<1> USE DEF external, tables, admin
<1>1. UNCHANGED <<owner, stripe, sessions, user, payRows, lastEvent, adminActs,
                  everGranted, clock, invoices>>
      /\ events' = events \cup {job[j].ev} /\ retries' = retries + 1
  BY DEF WebhookFails, StripeRepeats
<1>2. Grows
  BY <1>1 DEF Grows
<1>3. PICK e \in Event : e = job[j].ev /\ EventInv(e)'
  <2>1. job[j].ev \in Event /\ EventInv(job[j].ev)
    BY DEF WebhookFails, StripeRepeats, Webhook, IInv, JobsInv, JobInv
  <2> QED
    BY <1>2, <2>1, EventStable
<1>4. job' \in [Jobs -> Job] /\ \A k \in Jobs : job'[k] = job[k] \/ JobInv(k)'
  BY IdleLemma DEF WebhookFails, StripeRepeats, Finish, IInv, TypeOK
<1>5. TypeOK'
  BY <1>1, <1>3, <1>4 DEF IInv, TypeOK
<1>6. \A f \in events' : f \in events \/ EventInv(f)'
  <2>1. \A f \in events' : f \in events \/ f = e
    BY <1>1, <1>3
  <2> QED
    BY <1>3, <2>1
<1> QED
  BY <1>1, <1>2, <1>4, <1>5, <1>6, StepLemma

-----------------------------------------------------------------------------
(* Request steps.                                                           *)

\* Subscribe, cancel and reactivate read their own user's row.
LEMMA RequestStartLemma ==
    ASSUME IInv, NEW j \in Jobs, NEW u \in Users,
           SubscribeBegin(j, u) \/ CancelBegin(j, u) \/ ReactivateBegin(j, u)
    PROVE  IInv'
<1> USE DEF external, emission, tables, admin
<1>1. user[u] \in User /\ RowInv(u)
  BY DEF IInv, TypeOK, RowsInv
<1>2. CASE SubscribeBegin(j, u)
  <2> DEFINE r == [op |-> "subscribe", pc |-> "check", ev |-> None, who |-> u,
                   seen |-> None, ref |-> None]
  <2>1. r \in Job
    BY DEF Job, Requests
  <2>2. job' = [job EXCEPT ![j] = r] /\ JobInv(j)'
    BY <1>2 DEF SubscribeBegin, Start, JobInv, Requests, WebhookTypes, InvoiceEventTypes,
                IInv, TypeOK
  <2> QED
    BY <1>2, <2>1, <2>2, JobOnlyLemma DEF SubscribeBegin
<1>3. CASE CancelBegin(j, u)
  <2> DEFINE r == [op |-> "cancel", pc |-> "flag", ev |-> None, who |-> u,
                   seen |-> None, ref |-> user[u].sub]
  <2>1. r \in Job
    BY <1>1 DEF Job, Requests, User
  <2>2. PICK s \in Subs : /\ s = user[u].sub /\ Owner(s)' = u /\ Cause(u)'
                          /\ job' = [job EXCEPT ![j] = r]
    BY <1>1, <1>3 DEF CancelBegin, RowInv, User, Owner, Cause
  <2>3. JobInv(j)'
    BY <2>2 DEF JobInv, Requests, WebhookTypes, InvoiceEventTypes, IInv, TypeOK
  <2> QED
    BY <1>3, <2>1, <2>2, <2>3, JobOnlyLemma DEF CancelBegin
<1>4. CASE ReactivateBegin(j, u)
  <2> DEFINE r == [op |-> "reactivate", pc |-> "check", ev |-> None, who |-> u,
                   seen |-> None, ref |-> user[u].sub]
  <2>1. r \in Job
    BY <1>1 DEF Job, Requests, User
  <2>2. PICK s \in Subs : /\ s = user[u].sub /\ Owner(s)' = u
                          /\ job' = [job EXCEPT ![j] = r]
    BY <1>1, <1>4 DEF ReactivateBegin, RowInv, User, Owner
  <2>3. JobInv(j)'
    BY <2>2 DEF JobInv, Requests, WebhookTypes, InvoiceEventTypes, IInv, TypeOK
  <2> QED
    BY <1>4, <2>1, <2>2, <2>3, JobOnlyLemma DEF ReactivateBegin
<1> QED
  BY <1>2, <1>3, <1>4

\* The steps of a subscribe request, up to the open Checkout session.
LEMMA SubscribeStepLemma ==
    ASSUME IInv, NEW j \in Jobs,
           \/ SubscribeCustomer(j) \/ SubscribeCreateCustomer(j)
           \/ SubscribeLink(j) \/ SubscribeSession(j)
    PROVE  IInv'
<1> USE DEF external, emission, tables, admin
<1>1. job[j] \in Job /\ JobInv(j)
  BY DEF IInv, TypeOK, JobsInv
<1>2. CASE SubscribeCustomer(j)
  <2>1. PICK u \in Users : u = job[j].who /\ user[u] \in User /\ RowInv(u)
    BY <1>1, <1>2 DEF SubscribeCustomer, JobInv, IInv, TypeOK, RowsInv
  <2> DEFINE c == user[u].customer
             r == [job[j] EXCEPT !.pc = IF c = None THEN "customer" ELSE "session",
                                 !.ref = c]
  <2>2. r \in Job /\ job' = [job EXCEPT ![j] = r]
    BY <1>1, <1>2, <2>1 DEF SubscribeCustomer, Job, User, IInv, TypeOK
  <2>3. c # None => c \in Customers /\ owner[c] = u
    BY <2>1 DEF RowInv, User
  <2>4. JobInv(j)'
    BY <1>1, <1>2, <2>1, <2>2, <2>3
       DEF SubscribeCustomer, JobInv, Job, WebhookTypes, InvoiceEventTypes, IInv, TypeOK
  <2> QED
    BY <1>2, <2>2, <2>4, JobOnlyLemma DEF SubscribeCustomer
<1>3. CASE SubscribeCreateCustomer(j)
  <2>1. PICK u \in Users : u = job[j].who
    BY <1>1, <1>3 DEF SubscribeCreateCustomer, JobInv
  <2>2. PICK c \in Customers : /\ owner[c] = None
                               /\ owner' = [owner EXCEPT ![c] = u]
                               /\ job' = [job EXCEPT ![j].pc = "link", ![j].ref = c]
    BY <1>3, <2>1 DEF SubscribeCreateCustomer
  <2>3. UNCHANGED <<stripe, sessions, user, events, clock, invoices, retries, payRows,
                    lastEvent, adminActs, everGranted>>
    BY <1>3 DEF SubscribeCreateCustomer
  <2>4. Grows
    BY <2>2, <2>3 DEF Grows, IInv, TypeOK
  <2>5. TypeOK'
    <3>1. owner' \in [Customers -> Users \cup {None}]
      BY <2>2 DEF IInv, TypeOK
    <3>2. job' = [job EXCEPT ![j] = [job[j] EXCEPT !.pc = "link", !.ref = c]]
      BY <2>2 DEF IInv, TypeOK
    <3>3. [job[j] EXCEPT !.pc = "link", !.ref = c] \in Job
      BY <1>1 DEF Job
    <3> QED
      BY <2>3, <3>1, <3>2, <3>3 DEF IInv, TypeOK
  <2>6. JobInv(j)'
    <3>1. job[j].op \in Requests
      BY <1>1, <1>3 DEF SubscribeCreateCustomer, JobInv
    <3>2. /\ job'[j].pc = "link" /\ job'[j].ref = c /\ job'[j].who = u
          /\ job'[j].op \in Requests
      BY <1>1, <2>1, <2>2, <3>1 DEF IInv, TypeOK, Job
    <3>3. owner'[c] = u
      BY <2>2 DEF IInv, TypeOK
    <3> QED
      BY <3>2, <3>3 DEF JobInv, Requests, WebhookTypes, InvoiceEventTypes
  <2> QED
    BY <2>2, <2>3, <2>4, <2>5, <2>6, StepLemma DEF IInv, TypeOK
<1>4. CASE SubscribeLink(j)
  <2>1. PICK u \in Users, c \in Customers :
          u = job[j].who /\ c = job[j].ref /\ owner[c] = u /\ user[u] \in User /\ RowInv(u)
    BY <1>1, <1>4 DEF SubscribeLink, JobInv, IInv, TypeOK, RowsInv
  <2>2. /\ user' = [user EXCEPT ![u] = [user[u] EXCEPT !.customer = c]]
        /\ job' = [job EXCEPT ![j] = [job[j] EXCEPT !.pc = "session"]]
    BY <1>4, <2>1 DEF SubscribeLink, Goto, IInv, TypeOK
  <2>3. UNCHANGED <<owner, stripe, sessions, events, clock, invoices, retries, payRows,
                    lastEvent, adminActs, everGranted>>
    BY <1>4 DEF SubscribeLink
  <2>4. Grows
    BY <2>3 DEF Grows
  <2>5. TypeOK'
    BY <1>1, <2>1, <2>2, <2>3 DEF IInv, TypeOK, Job, User
  <2>6. JobInv(j)'
    BY <1>1, <1>4, <2>1, <2>2, <2>3
       DEF SubscribeLink, JobInv, EventInv, Cause, Owner, Job, IInv, TypeOK
  <2>7. RowInv(u)'
    BY <2>1, <2>2, <2>3 DEF RowInv, Cause, Owner, User, IInv, TypeOK, GivesAccess
  <2> QED
    BY <2>2, <2>3, <2>4, <2>5, <2>6, <2>7, StepLemma DEF IInv, TypeOK
<1>5. CASE SubscribeSession(j)
  <2>1. Grows
    BY <1>5 DEF SubscribeSession, Grows
  <2>2. job[j].ref \in Customers /\ owner'[job[j].ref] \in Users
    BY <1>1, <1>5 DEF SubscribeSession, JobInv
  <2>3. TypeOK'
    BY <1>5, <2>2, IdleLemma DEF SubscribeSession, Finish, IInv, TypeOK
  <2>4. JobInv(j)'
    BY <1>5, IdleLemma DEF SubscribeSession, Finish, IInv, TypeOK
  <2> QED
    BY <1>5, <2>1, <2>2, <2>3, <2>4, StepLemma DEF SubscribeSession, Finish, IInv, TypeOK
<1> QED
  BY <1>2, <1>3, <1>4, <1>5

\* Changing the cancellation flag of a subscription whose owner has access.
LEMMA FlagLemma ==
    ASSUME IInv, NEW j \in Jobs, NEW s \in Subs, NEW cape \in BOOLEAN,
           FlagSubscription(s, cape), cape => Cause(Owner(s)),
           NEW r \in Job, job' = [job EXCEPT ![j] = r], JobInv(j)',
           UNCHANGED <<owner, sessions, tables, invoices, retries>>
    PROVE  IInv'
<1> USE DEF FlagSubscription, tables, admin
<1>1. Grows
  BY DEF Grows, IInv, TypeOK, StripeSub
<1>2. TypeOK'
  <2>1. stripe' \in [Subs -> StripeSub]
    BY DEF IInv, TypeOK, StripeSub
  <2>2. Ev(1, "upsert", s, stripe[s].status, cape, 0) \in Event
    BY DEF Ev, Event, IInv, TypeOK, WebhookTypes, StripeSub
  <2>3. events' \in SUBSET Event /\ clock' \in Nat
    BY <2>2 DEF Emit, IInv, TypeOK
  <2> QED
    BY <2>1, <2>3 DEF IInv, TypeOK
<1>3. Owner(s) \in Users /\ Owner(s)' = Owner(s)
  BY <1>1, OwnerStable DEF IInv, SubsInv, SubInv
<1>4. /\ stripe'[s].cape = cape /\ stripe'[s].status = stripe[s].status
      /\ stripe'[s].paid = stripe[s].paid /\ stripe'[s].customer = stripe[s].customer
  BY DEF IInv, TypeOK, StripeSub
<1>5. cape => Cause(Owner(s))'
  <2>1. PICK u \in Users : u = Owner(s)
    BY <1>3
  <2>2. cape => Cause(u)'
    BY <1>1, <2>1, CauseStable
  <2> QED
    BY <1>3, <2>1, <2>2 DEF Cause
<1>6. SubInv(s)'
  BY <1>3, <1>4, <1>5 DEF IInv, SubsInv, SubInv
<1>7. \A e \in events' : e \in events \/ EventInv(e)'
  BY <1>4, <1>5 DEF Emit, Ev, EventInv, InvoiceEventTypes, IInv, SubsInv, SubInv
<1> QED
  BY <1>1, <1>2, <1>6, <1>7, StepLemma DEF IInv, TypeOK

\* Cancelling at Stripe and then in the users table.
LEMMA CancelStepLemma ==
    ASSUME IInv, NEW j \in Jobs, CancelAtStripe(j) \/ CancelSave(j)
    PROVE  IInv'
<1>1. job[j] \in Job /\ JobInv(j)
  BY DEF IInv, TypeOK, JobsInv
<1>2. CASE CancelAtStripe(j)
  <2>1. PICK s \in Subs, u \in Users :
          s = job[j].ref /\ u = job[j].who /\ Owner(s) = u /\ Cause(u)
    BY <1>1, <1>2 DEF CancelAtStripe, JobInv
  <2> DEFINE r == [job[j] EXCEPT !.pc = "save"]
  <2>2. r \in Job /\ job' = [job EXCEPT ![j] = r]
    BY <1>1, <1>2 DEF CancelAtStripe, Goto, Job, IInv, TypeOK
  <2>3. JobInv(j)'
    BY <1>1, <1>2, <2>2 DEF CancelAtStripe, JobInv, Job, WebhookTypes, InvoiceEventTypes,
                            IInv, TypeOK
  <2>4. FlagSubscription(s, TRUE) /\ UNCHANGED <<owner, sessions, tables, invoices, retries>>
    BY <1>2, <2>1 DEF CancelAtStripe
  <2> QED
    BY <2>1, <2>2, <2>3, <2>4, FlagLemma
<1>3. CASE CancelSave(j)
  <2>1. UNCHANGED <<owner, stripe, sessions, events, clock, invoices, retries, payRows,
                    lastEvent, adminActs, everGranted>>
    BY <1>3 DEF CancelSave, external, emission, admin
  <2>2. Grows
    BY <2>1 DEF Grows
  <2> DEFINE u == job[j].who
  <2>3. ASSUME NEW v \in Users
        PROVE  /\ user'[v] \in User
               /\ user'[v] = user[v] \/ RowInv(v)'
    <3>1. user[v] \in User /\ RowInv(v)
      BY DEF IInv, TypeOK, RowsInv
    <3>2. CASE v = u
      <4>1. user'[v] = [user[v] EXCEPT !.status = "cancelled"]
        BY <1>3, <3>2 DEF CancelSave, IInv, TypeOK
      <4>2. user'[v] \in User
        BY <3>1, <4>1 DEF User, Statuses
      <4>3. /\ user'[v].customer = user[v].customer /\ user'[v].sub = user[v].sub
            /\ user'[v].isPaid = user[v].isPaid /\ user'[v].status = "cancelled"
        BY <3>1, <4>1 DEF User
      <4> QED
        BY <2>1, <3>1, <4>2, <4>3 DEF RowInv, Cause, Owner, GivesAccess
    <3>3. CASE v # u
      BY <1>3, <3>1, <3>3 DEF CancelSave, IInv, TypeOK
    <3> QED
      BY <3>2, <3>3
  <2>4. user' \in [Users -> User]
    <3>1. user' = [v \in Users |-> user'[v]]
      BY <1>3 DEF CancelSave, IInv, TypeOK
    <3> QED
      BY <2>3, <3>1
  <2>5. job' = [job EXCEPT ![j] = [job[j] EXCEPT !.pc = "log"]]
    BY <1>3 DEF CancelSave, Goto, IInv, TypeOK
  <2>6. TypeOK'
    BY <1>1, <2>1, <2>4, <2>5 DEF IInv, TypeOK, Job
  <2>7. JobInv(j)'
    BY <1>1, <2>1, <2>5 DEF JobInv, EventInv, Cause, Owner, Job, IInv, TypeOK
  <2> QED
    BY <2>1, <2>2, <2>3, <2>5, <2>6, <2>7, StepLemma DEF IInv, TypeOK
<1> QED
  BY <1>2, <1>3

\* Reactivating: the look at Stripe, and the change there.
LEMMA ReactivateStepLemma ==
    ASSUME IInv, NEW j \in Jobs, ReactivateCheck(j) \/ ReactivateAtStripe(j)
    PROVE  IInv'
<1>1. job[j] \in Job /\ JobInv(j) /\ job[j].op = "reactivate"
  BY DEF ReactivateCheck, ReactivateAtStripe, IInv, TypeOK, JobsInv
<1>2. CASE ReactivateCheck(j)
  <2>1. UNCHANGED <<external, emission, tables>>
    BY <1>2 DEF ReactivateCheck
  <2>2. CASE Finish(j)
    BY <2>1, <2>2, IdleLemma, JobOnlyLemma DEF Finish, IInv, TypeOK
  <2>3. CASE Goto(j, "flag")
    <3> DEFINE r == [job[j] EXCEPT !.pc = "flag"]
    <3>1. r \in Job /\ job' = [job EXCEPT ![j] = r]
      BY <1>1, <2>3 DEF Goto, Job, IInv, TypeOK
    <3>2. PICK s \in Subs, u \in Users : s = job[j].ref /\ u = job[j].who /\ Owner(s) = u
      BY <1>1, <1>2 DEF ReactivateCheck, JobInv
    <3>3. Owner(s)' = u
      BY <2>1, <3>2 DEF Owner, external
    <3>4. JobInv(j)'
      BY <1>1, <3>1, <3>2, <3>3
         DEF JobInv, Job, Requests, WebhookTypes, InvoiceEventTypes, IInv, TypeOK
    <3> QED
      BY <2>1, <3>1, <3>4, JobOnlyLemma
  <2> QED
    BY <1>2, <2>2, <2>3 DEF ReactivateCheck
<1>3. CASE ReactivateAtStripe(j)
  <2>1. PICK s \in Subs : s = job[j].ref
    BY <1>1, <1>3 DEF ReactivateAtStripe, JobInv
  <2> DEFINE r == [job[j] EXCEPT !.pc = "log"]
  <2>2. r \in Job /\ job' = [job EXCEPT ![j] = r]
    BY <1>1, <1>3 DEF ReactivateAtStripe, Goto, Job, IInv, TypeOK
  <2>3. JobInv(j)'
    BY <1>1, <2>2 DEF JobInv, Job, WebhookTypes, InvoiceEventTypes, IInv, TypeOK
  <2>4. /\ FlagSubscription(s, FALSE)
        /\ UNCHANGED <<owner, sessions, tables, invoices, retries>>
    BY <1>3, <2>1 DEF ReactivateAtStripe
  <2> QED
    BY <2>2, <2>3, <2>4, FlagLemma
<1> QED
  BY <1>2, <1>3

\* A request that fails leaves what it has done.
LEMMA RequestFailsLemma ==
    ASSUME IInv, NEW j \in Jobs, RequestFails(j)
    PROVE  IInv'
BY IdleLemma, JobOnlyLemma DEF RequestFails, Finish, IInv, TypeOK

\* An admin's grant is a cause of access; a revocation takes access away.
LEMMA AdminLemma ==
    ASSUME IInv, NEW u \in Users, AdminGrant(u) \/ AdminRevoke(u)
    PROVE  IInv'
<1>1. UNCHANGED <<owner, stripe, sessions, events, clock, invoices, retries, job,
                  payRows, lastEvent>>
      /\ adminActs' = adminActs + 1
      /\ everGranted \subseteq everGranted' /\ everGranted' \subseteq Users
  BY DEF AdminGrant, AdminRevoke, external, emission, IInv, TypeOK
<1>2. Grows
  BY <1>1 DEF Grows
<1>3. user[u] \in User /\ RowInv(u)
  BY DEF IInv, TypeOK, RowsInv
<1>4. user' \in [Users -> User] /\ \A v \in Users : v # u => user'[v] = user[v]
  <2>1. PICK paid \in BOOLEAN, status \in Statuses, granted \in BOOLEAN :
          user' = [user EXCEPT ![u] = [user[u] EXCEPT !.isPaid = paid, !.status = status,
                                                      !.granted = granted]]
    BY DEF AdminGrant, AdminRevoke, IInv, TypeOK, Statuses
  <2>2. [user[u] EXCEPT !.isPaid = paid, !.status = status, !.granted = granted] \in User
    BY <1>3 DEF User
  <2> QED
    BY <2>1, <2>2 DEF IInv, TypeOK
<1>5. user'[u].customer = user[u].customer /\ user'[u].sub = user[u].sub
  BY <1>3 DEF AdminGrant, AdminRevoke, IInv, TypeOK, User
<1>6. user'[u].isPaid \/ GivesAccess(user'[u].status) => u \in everGranted'
  BY <1>3 DEF AdminGrant, AdminRevoke, IInv, TypeOK, User, GivesAccess
<1>7. RowInv(u)'
  BY <1>1, <1>3, <1>5, <1>6 DEF RowInv, Owner, Cause, GivesAccess
<1>8. TypeOK'
  BY <1>1, <1>4 DEF IInv, TypeOK
<1> QED
  BY <1>1, <1>2, <1>4, <1>7, <1>8, StepLemma DEF IInv, TypeOK

-----------------------------------------------------------------------------
(* The theorems.                                                            *)

\* Every step keeps the invariant.
THEOREM Inductive == IInv /\ [Next]_vars => IInv'
<1> SUFFICES ASSUME IInv, [Next]_vars PROVE IInv'
  OBVIOUS
<1>1. CASE StripeStep
  BY <1>1, StripeStartLemma, StripeFirstPaymentLemma, StripeCollectLemma,
     StripeChargeFailsLemma, StripeEndLemma DEF StripeStep
<1>2. ASSUME NEW j \in Jobs, Deliver(j) PROVE IInv'
  BY <1>2, DeliverLemma
<1>3. ASSUME NEW j \in Jobs, WriteStep(j) PROVE IInv'
  BY <1>3, ApplyEventLemma, CreatePaymentLemma, CreateEventRowLemma DEF WriteStep
<1>4. ASSUME NEW j \in Jobs, RequestStep(j) PROVE IInv'
  BY <1>4, SubscribeStepLemma, CancelStepLemma, ReactivateStepLemma DEF RequestStep
<1>5. ASSUME NEW j \in Jobs, WebhookFails(j) \/ StripeRepeats(j) \/ RequestFails(j)
      PROVE  IInv'
  BY <1>5, RedeliveryLemma, RequestFailsLemma
<1>6. ASSUME NEW j \in Jobs, NEW u \in Users,
             SubscribeBegin(j, u) \/ CancelBegin(j, u) \/ ReactivateBegin(j, u)
      PROVE  IInv'
  BY <1>6, RequestStartLemma
<1>7. ASSUME NEW u \in Users, AdminGrant(u) \/ AdminRevoke(u) PROVE IInv'
  BY <1>7, AdminLemma
<1>8. CASE UNCHANGED vars
  <2>1. UNCHANGED <<owner, stripe, sessions, events, clock, invoices, retries, job, user,
                    payRows, lastEvent, adminActs, everGranted>>
    BY <1>8 DEF vars
  <2>2. Grows /\ TypeOK'
    BY <2>1 DEF Grows, IInv, TypeOK
  <2> QED
    BY <2>1, <2>2, StepLemma
<1> QED
  BY <1>1, <1>2, <1>3, <1>4, <1>5, <1>6, <1>7, <1>8 DEF Next

\* The invariant holds of every reachable state.
THEOREM Invariance == Spec => []IInv
<1> QED
  BY InitLemma, Inductive, PTL DEF Spec

\* Every reachable state is well typed: in particular every status written by a
\* handler is one of the SubscriptionStatus values, even the one that an old
\* snapshot puts in the audit trail.
THEOREM TypeCorrect == Spec => []TypeOK
<1>1. IInv => TypeOK
  BY DEF IInv
<1> QED
  BY <1>1, Invariance, PTL

\* A webhook or request never puts one account's customer or subscription on
\* another account's row (findUserByStripeIds and the updateMany of the handlers).
THEOREM OwnRecords == Spec => []RecordsBelongToOwner
<1>1. IInv => RecordsBelongToOwner
  BY DEF IInv, RowsInv, RowInv, RecordsBelongToOwner
<1> QED
  BY <1>1, Invariance, PTL

\* No account has Pro access without a payment of its own or a grant, however
\* the five handlers that set isPaid interleave.
THEOREM CausedAccess == Spec => []AccessHasCause
<1>1. IInv => AccessHasCause
  BY DEF IInv, RowsInv, RowInv, Cause, AccessHasCause
<1> QED
  BY <1>1, Invariance, PTL

-----------------------------------------------------------------------------
(* Payments.  Every collected invoice is on its way to the payments table:  *)
(* as an event that waits, or in a delivery that has not inserted its row.  *)

Of(e, i) == e.type \in InvoiceEventTypes /\ e.inv = i

Pays(j, i) == job[j].pc \in {"apply", "pay"} /\ Of(job[j].ev, i)

Waiting(i) == {e \in events : Of(e, i)}
Paying(i)  == {j \in Jobs : Pays(j, i)}

\* The customer column of a user who has checked out is never emptied.
LinkedInv ==
    /\ \A c \in sessions : user[owner[c]].customer # None
    /\ \A s \in Subs : stripe[s].status # "none" => user[Owner(s)].customer # None
    /\ \A j \in Jobs : job[j].pc = "session" => user[job[j].who].customer # None

\* Only an invoice that was collected is worked on, and for a user.
NumberInv(j) ==
    /\ job[j].pc = "apply" => job[j].op \in WebhookTypes
    /\ job[j].pc = "pay" => job[j].op \in InvoiceEventTypes
    /\ Webhook(j) => job[j].ev.type = job[j].op
    /\ Webhook(j) /\ job[j].op \in InvoiceEventTypes =>
          job[j].ev.inv \in 1..invoices /\ job[j].who # None

NumbersInv ==
    /\ \A e \in events : e.type \in InvoiceEventTypes => e.inv \in 1..invoices
    /\ \A j \in Jobs : NumberInv(j)

\* Rows, events and deliveries of an invoice together are bounded by what Stripe has sent.
CountInv ==
    \A i \in 1..MaxInvoices :
        /\ IsFiniteSet(Waiting(i)) /\ IsFiniteSet(Paying(i))
        /\ payRows[i] + Cardinality(Waiting(i)) + Cardinality(Paying(i))
             <= Cardinality(InvoiceEvents) + retries

NotYetCollected == \A i \in 1..MaxInvoices : i > invoices => payRows[i] = 0

\* No collected invoice is lost.
NotLost ==
    OneCustomerEach =>
        \A i \in 1..invoices : payRows[i] > 0 \/ Waiting(i) # {} \/ Paying(i) # {}

PaymentInv == LinkedInv /\ NumbersInv /\ CountInv /\ NotYetCollected /\ NotLost

\* No step moves a customer, takes a payment back or forgets a grant.
LEMMA GrowsLemma ==
    ASSUME IInv, [Next]_vars
    PROVE  Grows
<1>1. ASSUME NEW s \in Subs, NEW c \in Customers, StripeStartSubscription(c, s) PROVE Grows
  BY <1>1 DEF StripeStartSubscription, tables, admin, Grows, IInv, TypeOK, StripeSub
<1>2. ASSUME NEW s \in Subs, \/ StripeFirstPayment(s) \/ StripeCollect(s)
                             \/ StripeChargeFails(s) \/ StripeEnd(s)
      PROVE  Grows
  BY <1>2 DEF StripeFirstPayment, StripeCollect, StripeChargeFails, StripeEnd, tables, admin,
              Grows, IInv, TypeOK, StripeSub
<1>3. ASSUME NEW j \in Jobs, Deliver(j) \/ WriteStep(j) \/ WebhookFails(j) \/ StripeRepeats(j)
      PROVE  Grows
  BY <1>3 DEF Deliver, WriteStep, ApplyEvent, CreatePayment, CreateEventRow, WebhookFails,
              StripeRepeats, external, tables, admin, Grows
<1>4. ASSUME NEW j \in Jobs, \/ SubscribeCustomer(j) \/ SubscribeLink(j) \/ SubscribeSession(j)
                             \/ CancelSave(j) \/ ReactivateCheck(j) \/ RequestFails(j)
      PROVE  Grows
  BY <1>4 DEF SubscribeCustomer, SubscribeLink, SubscribeSession, CancelSave, ReactivateCheck,
              RequestFails, external, tables, admin, Grows
<1>5. ASSUME NEW j \in Jobs, SubscribeCreateCustomer(j) PROVE Grows
  BY <1>5 DEF SubscribeCreateCustomer, tables, admin, Grows, IInv, TypeOK
<1>6. ASSUME NEW j \in Jobs, CancelAtStripe(j) \/ ReactivateAtStripe(j) PROVE Grows
  BY <1>6 DEF CancelAtStripe, ReactivateAtStripe, FlagSubscription, tables, admin, Grows,
              IInv, TypeOK, StripeSub
<1>7. ASSUME NEW j \in Jobs, NEW u \in Users,
             SubscribeBegin(j, u) \/ CancelBegin(j, u) \/ ReactivateBegin(j, u)
      PROVE  Grows
  BY <1>7 DEF SubscribeBegin, CancelBegin, ReactivateBegin, external, tables, admin, Grows
<1>8. ASSUME NEW u \in Users, AdminGrant(u) \/ AdminRevoke(u) PROVE Grows
  BY <1>8 DEF AdminGrant, AdminRevoke, external, Grows
<1>9. CASE UNCHANGED vars
  BY <1>9 DEF vars, Grows
<1> QED
  BY <1>1, <1>2, <1>3, <1>4, <1>5, <1>6, <1>7, <1>8, <1>9 DEF Next, StripeStep, RequestStep

\* No step empties the customer column of a row.
LEMMA CustomerKept ==
    ASSUME IInv, [Next]_vars, NEW u \in Users, user[u].customer # None
    PROVE  user'[u].customer # None
<1>0. user[u] \in User
  BY DEF IInv, TypeOK
<1>1. CASE user' = user
  BY <1>1
<1>2. ASSUME NEW j \in Jobs, ApplyEvent(j) PROVE user'[u].customer # None
  <2>1. PICK e \in Event : e = job[j].ev /\ EventInv(e)
    BY <1>2 DEF ApplyEvent, IInv, JobsInv, JobInv
  <2>2. CASE e.type \in InvoiceEventTypes \cup {"checkout"}
    BY <1>0, <1>2, <2>1, <2>2 DEF ApplyEvent, InvoiceEventTypes, User, IInv, TypeOK
  <2>3. CASE e.type = "upsert"
    <3>1. Matches(u, e) => Customer(e) \in Customers
      BY <2>1, WrittenRowLemma
    <3>2. user'[u] = IF Matches(u, e) THEN UpsertRow(user[u], e, job[j].seen) ELSE user[u]
      BY <1>2, <2>1, <2>3 DEF ApplyEvent, InvoiceEventTypes
    <3> QED
      BY <1>0, <3>1, <3>2, NoneIsNoValue DEF UpsertRow, User
  <2>4. CASE e.type = "deleted"
    BY <1>0, <1>2, <2>1, <2>4 DEF ApplyEvent, InvoiceEventTypes, DeletedRow, User
  <2>5. CASE e.type = "payment_failed"
    BY <1>0, <1>2, <2>1, <2>5 DEF ApplyEvent, InvoiceEventTypes, FailedRow, User
  <2> QED
    BY <2>1, <2>2, <2>3, <2>4, <2>5 DEF Event, WebhookTypes
<1>3. ASSUME NEW j \in Jobs, SubscribeLink(j) PROVE user'[u].customer # None
  <2>1. job[j].ref \in Customers /\ user' = [user EXCEPT ![job[j].who].customer = job[j].ref]
    BY <1>3 DEF SubscribeLink, IInv, JobsInv, JobInv
  <2> QED
    BY <1>0, <2>1, NoneIsNoValue DEF User, IInv, TypeOK
<1>4. ASSUME NEW j \in Jobs, CancelSave(j) PROVE user'[u].customer # None
  BY <1>0, <1>4 DEF CancelSave, User, IInv, TypeOK
<1>5. ASSUME NEW v \in Users, AdminGrant(v) \/ AdminRevoke(v) PROVE user'[u].customer # None
  BY <1>0, <1>5 DEF AdminGrant, AdminRevoke, User, IInv, TypeOK
<1>6. ASSUME NEW j \in Jobs, \/ Deliver(j) \/ CreatePayment(j) \/ CreateEventRow(j)
                             \/ WebhookFails(j) \/ StripeRepeats(j) \/ RequestFails(j)
      PROVE  user' = user
  BY <1>6 DEF Deliver, CreatePayment, CreateEventRow, WebhookFails, StripeRepeats, RequestFails,
              tables
<1>7. ASSUME NEW j \in Jobs, \/ SubscribeCustomer(j) \/ SubscribeCreateCustomer(j)
                             \/ SubscribeSession(j) \/ CancelAtStripe(j) \/ ReactivateCheck(j)
                             \/ ReactivateAtStripe(j)
      PROVE  user' = user
  BY <1>7 DEF SubscribeCustomer, SubscribeCreateCustomer, SubscribeSession, CancelAtStripe,
              ReactivateCheck, ReactivateAtStripe, tables
<1>8. ASSUME NEW j \in Jobs, NEW v \in Users,
             SubscribeBegin(j, v) \/ CancelBegin(j, v) \/ ReactivateBegin(j, v)
      PROVE  user' = user
  BY <1>8 DEF SubscribeBegin, CancelBegin, ReactivateBegin, tables
<1>9. CASE StripeStep
  BY <1>9 DEF StripeStep, StripeStartSubscription, StripeFirstPayment, StripeCollect,
              StripeChargeFails, StripeEnd, tables
<1>10. CASE UNCHANGED vars
  BY <1>10 DEF vars
<1> QED
  BY <1>1, <1>2, <1>3, <1>4, <1>5, <1>6, <1>7, <1>8, <1>9, <1>10
     DEF Next, WriteStep, RequestStep

\* A Checkout session is opened, and a subscription started, by one action only.
LEMMA NewSessions ==
    ASSUME IInv, [Next]_vars
    PROVE  /\ \/ sessions' \subseteq sessions
              \/ \E j \in Jobs : SubscribeSession(j)
           /\ \A s \in Subs : \/ stripe'[s].status # "none" => stripe[s].status # "none"
                              \/ \E c \in Customers : StripeStartSubscription(c, s)
<1> DEFINE Old == /\ sessions' \subseteq sessions
                  /\ \A s \in Subs : stripe'[s].status # "none" => stripe[s].status # "none"
<1>1. ASSUME NEW s \in Subs, NEW c \in Customers, StripeStartSubscription(c, s)
      PROVE  /\ sessions' \subseteq sessions
             /\ \A t \in Subs \ {s} : stripe'[t].status = stripe[t].status
  BY <1>1 DEF StripeStartSubscription, IInv, TypeOK
<1>2. ASSUME NEW s \in Subs, \/ StripeFirstPayment(s) \/ StripeCollect(s)
                             \/ StripeChargeFails(s) \/ StripeEnd(s)
      PROVE  Old
  BY <1>2 DEF StripeFirstPayment, StripeCollect, StripeChargeFails, StripeEnd, IInv, TypeOK,
              StripeSub
<1>3. ASSUME NEW j \in Jobs, Deliver(j) \/ WriteStep(j) \/ WebhookFails(j) \/ StripeRepeats(j)
      PROVE  Old
  BY <1>3 DEF Deliver, WriteStep, ApplyEvent, CreatePayment, CreateEventRow, WebhookFails,
              StripeRepeats, external
<1>4. ASSUME NEW j \in Jobs, \/ SubscribeCustomer(j) \/ SubscribeLink(j)
                             \/ CancelSave(j) \/ ReactivateCheck(j) \/ RequestFails(j)
      PROVE  Old
  BY <1>4 DEF SubscribeCustomer, SubscribeLink, CancelSave, ReactivateCheck, RequestFails, external
<1>5. ASSUME NEW j \in Jobs, SubscribeCreateCustomer(j) PROVE Old
  BY <1>5 DEF SubscribeCreateCustomer
<1>6. ASSUME NEW j \in Jobs, CancelAtStripe(j) \/ ReactivateAtStripe(j) PROVE Old
  BY <1>6 DEF CancelAtStripe, ReactivateAtStripe, FlagSubscription, IInv, TypeOK, StripeSub
<1>7. ASSUME NEW j \in Jobs, NEW u \in Users,
             SubscribeBegin(j, u) \/ CancelBegin(j, u) \/ ReactivateBegin(j, u)
      PROVE  Old
  BY <1>7 DEF SubscribeBegin, CancelBegin, ReactivateBegin, external
<1>8. ASSUME NEW u \in Users, AdminGrant(u) \/ AdminRevoke(u) PROVE Old
  BY <1>8 DEF AdminGrant, AdminRevoke, external
<1>9. CASE UNCHANGED vars
  BY <1>9 DEF vars
<1>10. ASSUME NEW j \in Jobs, SubscribeSession(j)
       PROVE  \A s \in Subs : stripe'[s].status # "none" => stripe[s].status # "none"
  BY <1>10 DEF SubscribeSession
<1> QED
  BY <1>1, <1>2, <1>3, <1>4, <1>5, <1>6, <1>7, <1>8, <1>9, <1>10
     DEF Next, StripeStep, RequestStep

\* A request gets as far as its session by reading or by storing the customer.
LEMMA NewSessionJobs ==
    ASSUME IInv, [Next]_vars, NEW k \in Jobs, job'[k].pc = "session"
    PROVE  \/ job'[k] = job[k]
           \/ SubscribeCustomer(k) /\ user[job[k].who].customer # None
           \/ SubscribeLink(k)
<1>0. job \in [Jobs -> Job]
  BY DEF IInv, TypeOK
<1>1. CASE StripeStep
  BY <1>1 DEF StripeStep, StripeStartSubscription, StripeFirstPayment, StripeCollect,
              StripeChargeFails, StripeEnd
<1>2. ASSUME NEW j \in Jobs, Deliver(j) PROVE job'[k] = job[k]
  BY <1>0, <1>2 DEF Deliver, Start
<1>3. ASSUME NEW j \in Jobs, WriteStep(j) PROVE job'[k] = job[k]
  <2>1. \/ Finish(j)
        \/ \E p \in {"pay", "log", "idle"} : Goto(j, p)
    BY <1>3 DEF WriteStep, ApplyEvent, CreatePayment, CreateEventRow, AfterWrite
  <2> QED
    BY <1>0, <2>1 DEF Finish, Goto, IdleJob, Job
<1>4. ASSUME NEW j \in Jobs, WebhookFails(j) \/ StripeRepeats(j) \/ RequestFails(j)
      PROVE  job'[k] = job[k]
  BY <1>0, <1>4 DEF WebhookFails, StripeRepeats, RequestFails, Finish, IdleJob
<1>5. ASSUME NEW j \in Jobs, SubscribeCustomer(j)
      PROVE  \/ job'[k] = job[k]
             \/ SubscribeCustomer(k) /\ user[job[k].who].customer # None
  <2>1. CASE k = j
    BY <1>0, <1>5, <2>1 DEF SubscribeCustomer, Job
  <2> QED
    BY <1>0, <1>5, <2>1 DEF SubscribeCustomer
<1>6. ASSUME NEW j \in Jobs, SubscribeCreateCustomer(j) PROVE job'[k] = job[k]
  BY <1>0, <1>6 DEF SubscribeCreateCustomer, Job
<1>7. ASSUME NEW j \in Jobs, SubscribeLink(j) PROVE job'[k] = job[k] \/ SubscribeLink(k)
  <2>1. CASE k # j
    BY <1>0, <1>7, <2>1 DEF SubscribeLink, Goto
  <2> QED
    BY <1>7, <2>1
<1>8. ASSUME NEW j \in Jobs, \/ SubscribeSession(j) \/ CancelAtStripe(j) \/ CancelSave(j)
                             \/ ReactivateCheck(j) \/ ReactivateAtStripe(j)
      PROVE  job'[k] = job[k]
  <2>1. \/ Finish(j)
        \/ \E p \in {"save", "log", "flag"} : Goto(j, p)
    BY <1>8 DEF SubscribeSession, CancelAtStripe, CancelSave, ReactivateCheck, ReactivateAtStripe
  <2> QED
    BY <1>0, <2>1 DEF Finish, Goto, IdleJob, Job
<1>9. ASSUME NEW j \in Jobs, NEW u \in Users,
             SubscribeBegin(j, u) \/ CancelBegin(j, u) \/ ReactivateBegin(j, u)
      PROVE  job'[k] = job[k]
  BY <1>0, <1>9 DEF SubscribeBegin, CancelBegin, ReactivateBegin, Start
<1>10. ASSUME NEW u \in Users, AdminGrant(u) \/ AdminRevoke(u) PROVE job'[k] = job[k]
  BY <1>10 DEF AdminGrant, AdminRevoke
<1>11. CASE UNCHANGED vars
  BY <1>11 DEF vars
<1> QED
  BY <1>1, <1>2, <1>3, <1>4, <1>5, <1>6, <1>7, <1>8, <1>9, <1>10, <1>11
     DEF Next, RequestStep

\* Who has checked out keeps a customer.
LEMMA LinkedLemma ==
    ASSUME IInv, LinkedInv, [Next]_vars
    PROVE  LinkedInv'
<1>0. Grows /\ \A u \in Users : user[u].customer # None => user'[u].customer # None
  BY GrowsLemma, CustomerKept
<1>1. ASSUME NEW c \in sessions' PROVE user'[owner'[c]].customer # None
  <2>1. CASE c \in sessions
    <3>1. c \in Customers /\ owner[c] \in Users /\ user[owner[c]].customer # None
      BY <2>1 DEF IInv, TypeOK, SessionsInv, LinkedInv
    <3>2. owner'[c] = owner[c]
      BY <1>0, <3>1, NoneIsNoValue DEF Grows
    <3> QED
      BY <1>0, <3>1, <3>2
  <2>2. CASE c \notin sessions
    <3>1. PICK j \in Jobs : SubscribeSession(j)
      BY <2>2, NewSessions
    <3>2. c = job[j].ref /\ job[j].pc = "session" /\ UNCHANGED <<owner, user>>
      BY <2>2, <3>1 DEF SubscribeSession, tables
    <3>3. owner[c] = job[j].who
      BY <3>2 DEF IInv, JobsInv, JobInv
    <3> QED
      BY <3>2, <3>3 DEF LinkedInv
  <2> QED
    BY <2>1, <2>2
<1>2. ASSUME NEW s \in Subs, stripe'[s].status # "none" PROVE user'[Owner(s)'].customer # None
  <2>1. CASE stripe[s].status # "none"
    <3>1. Owner(s) \in Users /\ user[Owner(s)].customer # None
      BY <2>1 DEF IInv, SubsInv, SubInv, LinkedInv
    <3>2. Owner(s)' = Owner(s)
      BY <1>0, <3>1, OwnerStable
    <3> QED
      BY <1>0, <3>1, <3>2
  <2>2. CASE stripe[s].status = "none"
    <3>1. PICK c \in Customers : StripeStartSubscription(c, s)
      BY <1>2, <2>2, NewSessions
    <3>2. c \in sessions /\ UNCHANGED <<owner, user>> /\ stripe'[s].customer = c
      BY <3>1 DEF StripeStartSubscription, tables, IInv, TypeOK, StripeSub
    <3>3. Owner(s)' = owner[c]
      BY <3>2, NoneIsNoValue DEF Owner
    <3> QED
      BY <3>2, <3>3 DEF LinkedInv
  <2> QED
    BY <2>1, <2>2
<1>3. ASSUME NEW j \in Jobs, job'[j].pc = "session" PROVE user'[job'[j].who].customer # None
  <2>1. CASE job'[j] = job[j]
    <3>1. job[j].pc = "session" /\ job[j].who \in Users
      BY <1>3, <2>1 DEF IInv, JobsInv, JobInv
    <3> QED
      BY <1>0, <2>1, <3>1 DEF LinkedInv
  <2>2. CASE SubscribeCustomer(j) /\ user[job[j].who].customer # None
    BY <1>3, <2>2 DEF SubscribeCustomer, tables, IInv, TypeOK, Job
  <2>3. CASE SubscribeLink(j)
    <3>1. /\ job[j].who \in Users /\ job[j].ref \in Customers /\ job'[j].who = job[j].who
          /\ user' = [user EXCEPT ![job[j].who].customer = job[j].ref]
      BY <2>3 DEF SubscribeLink, Goto, IInv, JobsInv, JobInv, TypeOK, Job
    <3> QED
      BY <3>1, NoneIsNoValue DEF IInv, TypeOK, User
  <2> QED
    BY <1>3, <2>1, <2>2, <2>3, NewSessionJobs
<1> QED
  BY <1>1, <1>2, <1>3 DEF LinkedInv

\* A step that is nothing to the invoices.
Quiet ==
    /\ \A k \in Jobs : NumberInv(k)' /\ \A i : Pays(k, i)' <=> Pays(k, i)
    /\ \A e : e.type \in InvoiceEventTypes => (e \in events' <=> e \in events)
    /\ UNCHANGED <<payRows, retries, invoices>>

\* A job that stays, goes on past its payment, or serves a request.
LEMMA AsideLemma ==
    ASSUME IInv, NEW k \in Jobs, NumberInv(k), invoices' = invoices,
           \/ job'[k] = job[k]
           \/ /\ job[k].pc \notin {"idle", "apply", "pay"}
              /\ job'[k].pc \notin {"apply", "pay"}
              /\ job'[k].op = job[k].op /\ job'[k].ev = job[k].ev /\ job'[k].who = job[k].who
           \/ /\ job[k].pc \notin {"apply", "pay"} \/ job[k].op \in Requests
              /\ job'[k].pc \notin {"apply", "pay"}
              /\ job'[k].op \in Requests \cup {"none"}
    PROVE  NumberInv(k)' /\ \A i : Pays(k, i)' <=> Pays(k, i)
<1>1. CASE job'[k] = job[k]
  BY <1>1 DEF NumberInv, Pays, Webhook, InFlight
<1>2. CASE /\ job[k].pc \notin {"idle", "apply", "pay"}
           /\ job'[k].pc \notin {"apply", "pay"}
           /\ job'[k].op = job[k].op /\ job'[k].ev = job[k].ev /\ job'[k].who = job[k].who
  <2>1. Webhook(k)' => Webhook(k)
    BY <1>2 DEF Webhook, InFlight
  <2> QED
    BY <1>2, <2>1 DEF NumberInv, Pays
<1>3. CASE /\ job[k].pc \notin {"apply", "pay"} \/ job[k].op \in Requests
           /\ job'[k].pc \notin {"apply", "pay"}
           /\ job'[k].op \in Requests \cup {"none"}
  <2>1. job[k].pc \notin {"apply", "pay"}
    BY <1>3 DEF NumberInv, Requests, WebhookTypes, InvoiceEventTypes
  <2>2. ~ Webhook(k)'
    BY <1>3 DEF Webhook, Requests, WebhookTypes, InvoiceEventTypes
  <2> QED
    BY <1>3, <2>1, <2>2 DEF NumberInv, Pays
<1> QED
  BY <1>1, <1>2, <1>3

\* The write of a handler, which goes on to the payment if its event is about an invoice.
LEMMA ApplyQuiet ==
    ASSUME IInv, NumbersInv, NEW j \in Jobs, ApplyEvent(j)
    PROVE  Quiet
<1> DEFINE e == job[j].ev
<1>1. /\ UNCHANGED <<payRows, retries, invoices, events>>
      /\ job[j].pc = "apply" /\ job[j].op \in WebhookTypes
      /\ e.type = job[j].op /\ NumberInv(j) /\ job[j] \in Job
  BY DEF ApplyEvent, emission, NumbersInv, NumberInv, Webhook, InFlight, IInv, TypeOK
<1>2. e.type \in InvoiceEventTypes => e.inv \in 1..invoices /\ job[j].who # None
  BY <1>1 DEF NumberInv, Webhook, InFlight
<1>3. \A k \in Jobs \ {j} : job'[k] = job[k]
  BY DEF ApplyEvent, Finish, Goto, IInv, TypeOK
<1>4. \A k \in Jobs \ {j} : NumberInv(k)' /\ \A i : Pays(k, i)' <=> Pays(k, i)
  BY <1>1, <1>3, AsideLemma DEF NumbersInv
<1>5. NumberInv(j)' /\ \A i : Pays(j, i)' <=> Pays(j, i)
  <2>1. CASE e.type \in InvoiceEventTypes
    <3>1. job' = [job EXCEPT ![j].pc = "pay"]
      <4>1. AfterWrite(e.type) = "pay"
        BY <2>1 DEF AfterWrite, InvoiceEventTypes
      <4>2. Goto(j, AfterWrite(e.type))
        BY <1>2, <2>1, <4>1 DEF ApplyEvent
      <4> QED
        BY <4>1, <4>2 DEF Goto
    <3>2. job'[j].pc = "pay" /\ job'[j].op = job[j].op /\ job'[j].ev = e
          /\ job'[j].who = job[j].who
      BY <1>1, <3>1 DEF IInv, TypeOK, Job
    <3> HIDE DEF e
    <3> QED
      BY <1>1, <1>2, <2>1, <3>2 DEF NumberInv, Webhook, InFlight, Pays, e
  <2>2. CASE e.type \notin InvoiceEventTypes
    <3>1. job'[j] = IdleJob \/ (/\ job'[j].pc = "log" /\ job'[j].op = job[j].op
                                /\ job'[j].ev = e /\ job'[j].who = job[j].who)
      <4>1. Finish(j) \/ Goto(j, "log")
        BY <2>2 DEF ApplyEvent, AfterWrite
      <4> QED
        BY <1>1, <4>1 DEF Finish, Goto, IInv, TypeOK, Job
    <3>2. \A i : ~ Pays(j, i)
      BY <2>2 DEF Pays, Of
    <3> QED
      BY <1>1, <2>2, <3>1, <3>2
         DEF NumberInv, Webhook, InFlight, Pays, IdleJob
  <2> QED
    BY <2>1, <2>2
<1> QED
  BY <1>1, <1>4, <1>5 DEF Quiet

\* A job that goes on past its payment, and one that begins, makes a step of or ends a request.
Past(j) ==
    /\ job[j].pc \notin {"idle", "apply", "pay"}
    /\ job'[j].pc \notin {"apply", "pay"}
    /\ job'[j].op = job[j].op /\ job'[j].ev = job[j].ev /\ job'[j].who = job[j].who

Asked(j) ==
    /\ job[j].pc \notin {"apply", "pay"} \/ job[j].op \in Requests
    /\ job'[j].pc \notin {"apply", "pay"}
    /\ job'[j].op \in Requests \cup {"none"}

Moves(j) ==
    /\ \A k \in Jobs \ {j} : job'[k] = job[k]
    /\ Past(j) \/ Asked(j)

\* A step of a request, or the last of a webhook, moves its own job only.
LEMMA RequestMoves ==
    ASSUME IInv, NEW j \in Jobs,
           \/ RequestStep(j) \/ RequestFails(j) \/ CreateEventRow(j)
           \/ \E u \in Users : SubscribeBegin(j, u) \/ CancelBegin(j, u) \/ ReactivateBegin(j, u)
    PROVE  Moves(j)
<1>0. job \in [Jobs -> Job] /\ job[j] \in Job
  BY DEF IInv, TypeOK
<1> USE DEF Moves, Past, Asked
<1>1. CASE SubscribeCustomer(j)
  <2>1. PICK p \in {"customer", "session"}, c \in Customers \cup {None} :
          job' = [job EXCEPT ![j].pc = p, ![j].ref = c]
    <3>1. job[j].who \in Users
      BY <1>1 DEF SubscribeCustomer, IInv, JobsInv, JobInv
    <3>2. user[job[j].who].customer \in Customers \cup {None}
      BY <3>1 DEF IInv, TypeOK, User
    <3> QED
      BY <1>1, <3>2 DEF SubscribeCustomer
  <2> QED
    BY <1>0, <1>1, <2>1 DEF SubscribeCustomer, Job
<1>2. CASE SubscribeCreateCustomer(j)
  <2>1. PICK p \in {"link"}, c \in Customers : job' = [job EXCEPT ![j].pc = p, ![j].ref = c]
    BY <1>2 DEF SubscribeCreateCustomer
  <2> QED
    BY <1>0, <1>2, <2>1 DEF SubscribeCreateCustomer, Job
<1>3. CASE SubscribeLink(j) \/ CancelAtStripe(j) \/ CancelSave(j) \/ ReactivateAtStripe(j)
           \/ (ReactivateCheck(j) /\ Goto(j, "flag"))
  <2>1. PICK p \in {"session", "save", "log", "flag"} : job' = [job EXCEPT ![j].pc = p]
    BY <1>3 DEF SubscribeLink, CancelAtStripe, CancelSave, ReactivateAtStripe, Goto
  <2>2. job[j].pc \in {"link", "flag", "save", "check"}
    BY <1>3 DEF SubscribeLink, CancelAtStripe, CancelSave, ReactivateAtStripe, ReactivateCheck
  <2> QED
    BY <1>0, <2>1, <2>2 DEF Job
<1>4. CASE SubscribeSession(j) \/ CreateEventRow(j) \/ (ReactivateCheck(j) /\ Finish(j))
           \/ RequestFails(j)
  <2>1. job' = [job EXCEPT ![j] = IdleJob]
    BY <1>4 DEF SubscribeSession, CreateEventRow, RequestFails, Finish
  <2>2. job[j].pc \notin {"apply", "pay"} \/ job[j].op \in Requests
    BY <1>4 DEF SubscribeSession, CreateEventRow, RequestFails, ReactivateCheck
  <2> QED
    BY <1>0, <2>1, <2>2 DEF IdleJob
<1>5. ASSUME NEW u \in Users, SubscribeBegin(j, u) \/ CancelBegin(j, u) \/ ReactivateBegin(j, u)
      PROVE  Moves(j)
  <2>1. job[j].pc = "idle"
    BY <1>5 DEF SubscribeBegin, CancelBegin, ReactivateBegin, InFlight
  <2>2. PICK r : /\ job' = [job EXCEPT ![j] = r] /\ r.op \in Requests
                 /\ r.pc \in {"check", "flag"}
    <3>1. CASE SubscribeBegin(j, u)
      <4> DEFINE r == [op |-> "subscribe", pc |-> "check", ev |-> None, who |-> u, seen |-> None,
                       ref |-> None]
      <4>1. job' = [job EXCEPT ![j] = r]
        BY <3>1 DEF SubscribeBegin, Start
      <4>2. r.op \in Requests /\ r.pc \in {"check", "flag"}
        BY DEF Requests
      <4> HIDE DEF r
      <4> QED
        BY <4>1, <4>2
    <3>2. CASE CancelBegin(j, u)
      <4> DEFINE r == [op |-> "cancel", pc |-> "flag", ev |-> None, who |-> u, seen |-> None,
                       ref |-> user[u].sub]
      <4>1. job' = [job EXCEPT ![j] = r]
        BY <3>2 DEF CancelBegin
      <4>2. r.op \in Requests /\ r.pc \in {"check", "flag"}
        BY DEF Requests
      <4> HIDE DEF r
      <4> QED
        BY <4>1, <4>2
    <3>3. CASE ReactivateBegin(j, u)
      <4> DEFINE r == [op |-> "reactivate", pc |-> "check", ev |-> None, who |-> u, seen |-> None,
                       ref |-> user[u].sub]
      <4>1. job' = [job EXCEPT ![j] = r]
        BY <3>3 DEF ReactivateBegin
      <4>2. r.op \in Requests /\ r.pc \in {"check", "flag"}
        BY DEF Requests
      <4> HIDE DEF r
      <4> QED
        BY <4>1, <4>2
    <3> QED
      BY <1>5, <3>1, <3>2, <3>3
  <2> QED
    BY <1>0, <2>1, <2>2
<1>6. ReactivateCheck(j) => Goto(j, "flag") \/ Finish(j)
  BY DEF ReactivateCheck
<1> QED
  BY <1>1, <1>2, <1>3, <1>4, <1>5, <1>6 DEF RequestStep

\* Such a step is nothing to the invoices.
LEMMA RequestQuiet ==
    ASSUME IInv, NumbersInv, NEW j \in Jobs,
           \/ RequestStep(j) \/ RequestFails(j) \/ CreateEventRow(j)
           \/ \E u \in Users : SubscribeBegin(j, u) \/ CancelBegin(j, u) \/ ReactivateBegin(j, u)
    PROVE  Quiet
<1>0. job \in [Jobs -> Job] /\ job[j] \in Job /\ NumberInv(j)
      /\ \A k \in Jobs : NumberInv(k)
  BY DEF IInv, TypeOK, NumbersInv
<1>1. /\ UNCHANGED <<payRows, retries, invoices>>
      /\ \A e : e.type \in InvoiceEventTypes => (e \in events' <=> e \in events)
  <2>1. CASE CancelAtStripe(j) \/ ReactivateAtStripe(j)
    BY <2>1 DEF CancelAtStripe, ReactivateAtStripe, FlagSubscription, Emit, Ev, tables,
                InvoiceEventTypes
  <2>2. CASE \/ SubscribeCustomer(j) \/ SubscribeCreateCustomer(j) \/ SubscribeLink(j)
             \/ SubscribeSession(j) \/ CancelSave(j) \/ ReactivateCheck(j)
             \/ RequestFails(j) \/ CreateEventRow(j)
             \/ \E u \in Users : \/ SubscribeBegin(j, u) \/ CancelBegin(j, u)
                                 \/ ReactivateBegin(j, u)
    BY <2>2 DEF SubscribeCustomer, SubscribeCreateCustomer, SubscribeLink, SubscribeSession,
                CancelSave, ReactivateCheck, RequestFails, CreateEventRow, SubscribeBegin,
                CancelBegin, ReactivateBegin, emission, tables
  <2> QED
    BY <2>1, <2>2 DEF RequestStep
<1>2. Moves(j)
  BY RequestMoves
<1>3. \A k \in Jobs : NumberInv(k)' /\ \A i : Pays(k, i)' <=> Pays(k, i)
  BY <1>0, <1>1, <1>2, AsideLemma DEF Moves, Past, Asked
<1> QED
  BY <1>1, <1>3 DEF Quiet

\* Every step but those that make, hand over, repeat or record an invoice.
LEMMA QuietLemma ==
    ASSUME IInv, NumbersInv, [Next]_vars
    PROVE  \/ Quiet
           \/ \E s \in Subs : StripeFirstPayment(s) \/ StripeCollect(s)
           \/ \E j \in Jobs : Deliver(j) \/ CreatePayment(j) \/ WebhookFails(j) \/ StripeRepeats(j)
<1>1. ASSUME job' = job, UNCHANGED <<payRows, retries, invoices>>,
             \A e : e.type \in InvoiceEventTypes => (e \in events' <=> e \in events)
      PROVE  Quiet
  BY <1>1, AsideLemma DEF Quiet, NumbersInv
<1>2. ASSUME NEW s \in Subs, NEW c \in Customers, StripeStartSubscription(c, s) PROVE Quiet
  BY <1>1, <1>2 DEF StripeStartSubscription, tables, Emit, Ev, InvoiceEventTypes
<1>3. ASSUME NEW s \in Subs, StripeChargeFails(s) PROVE Quiet
  BY <1>1, <1>3 DEF StripeChargeFails, tables, Emit, Ev, InvoiceEventTypes
<1>4. ASSUME NEW s \in Subs, StripeEnd(s) PROVE Quiet
  BY <1>1, <1>4 DEF StripeEnd, tables, Emit, Ev, InvoiceEventTypes
<1>5. ASSUME NEW u \in Users, AdminGrant(u) \/ AdminRevoke(u) PROVE Quiet
  BY <1>1, <1>5 DEF AdminGrant, AdminRevoke, emission
<1>6. CASE UNCHANGED vars
  BY <1>1, <1>6 DEF vars
<1> QED
  BY <1>2, <1>3, <1>4, <1>5, <1>6, ApplyQuiet, RequestQuiet DEF Next, StripeStep, WriteStep

\* What is kept about the invoices.
Books == NumbersInv /\ CountInv /\ NotYetCollected /\ NotLost

\* Two customers of one user are never made one again.
LEMMA OneCustomerBack ==
    ASSUME IInv, [Next]_vars, OneCustomerEach'
    PROVE  OneCustomerEach
<1>1. \A c \in Customers : owner[c] # None => owner'[c] = owner[c]
  BY GrowsLemma DEF Grows
<1> QED
  BY <1>1 DEF OneCustomerEach

\* Adding to or removing from a finite set.
LEMMA FiniteSteps ==
    ASSUME NEW S, NEW x, IsFiniteSet(S)
    PROVE  /\ Cardinality(S) \in Nat
           /\ IsFiniteSet(S \cup {x}) /\ Cardinality(S \cup {x}) \in Nat
           /\ Cardinality(S \cup {x}) <= Cardinality(S) + 1
           /\ IsFiniteSet(S \ {x}) /\ Cardinality(S \ {x}) \in Nat
           /\ Cardinality(S \ {x}) <= Cardinality(S)
           /\ x \in S => Cardinality(S \ {x}) + 1 <= Cardinality(S)
<1>1. Cardinality(S) \in Nat
  BY FS_CardinalityType
<1>2. /\ IsFiniteSet(S \cup {x}) /\ IsFiniteSet(S \ {x})
      /\ Cardinality(S \cup {x}) = IF x \in S THEN Cardinality(S) ELSE Cardinality(S) + 1
      /\ Cardinality(S \ {x}) = IF x \in S THEN Cardinality(S) - 1 ELSE Cardinality(S)
  BY FS_AddElement, FS_RemoveElement
<1>3. Cardinality(S \ {x}) \in Nat /\ Cardinality(S \cup {x}) \in Nat
  BY <1>2, FS_CardinalityType
<1> QED
  BY <1>1, <1>2, <1>3

\* The webhook endpoint subscribes to one invoice event type or to two.
LEMMA SubscribedTypes ==
    /\ IsFiniteSet(InvoiceEvents) /\ Cardinality(InvoiceEvents) \in Nat
    /\ \/ Cardinality(InvoiceEvents) = 1
       \/ /\ Cardinality(InvoiceEvents) = 2
          /\ InvoiceEvents = {"invoice_paid", "invoice_payment_paid"}
<1>1. \/ InvoiceEvents = {"invoice_paid"}
      \/ InvoiceEvents = {"invoice_payment_paid"}
      \/ InvoiceEvents = {"invoice_paid"} \cup {"invoice_payment_paid"}
  BY Parameters DEF InvoiceEventTypes
<1>2. Cardinality({"invoice_paid"} \cup {"invoice_payment_paid"}) = 2
  <2>1. IsFiniteSet({"invoice_paid"}) /\ Cardinality({"invoice_paid"}) = 1
        /\ "invoice_payment_paid" \notin {"invoice_paid"}
    BY FS_Singleton
  <2> QED
    BY <2>1, FS_AddElement
<1>3. IsFiniteSet({"invoice_paid"} \cup {"invoice_payment_paid"})
  BY FS_Singleton, FS_AddElement
<1>4. {"invoice_paid"} \cup {"invoice_payment_paid"} = {"invoice_paid", "invoice_payment_paid"}
  OBVIOUS
<1>5. CASE InvoiceEvents = {"invoice_paid"} \/ InvoiceEvents = {"invoice_payment_paid"}
  <2>1. IsFiniteSet(InvoiceEvents) /\ Cardinality(InvoiceEvents) = 1
    BY <1>5, FS_Singleton
  <2> QED
    BY <2>1
<1>6. CASE InvoiceEvents = {"invoice_paid"} \cup {"invoice_payment_paid"}
  <2>1. IsFiniteSet(InvoiceEvents) /\ Cardinality(InvoiceEvents) = 2
    BY <1>2, <1>3, <1>6
  <2> QED
    BY <1>4, <1>6, <2>1
<1> QED
  BY <1>1, <1>5, <1>6

\* One event of each subscribed type is sent for an invoice.
LEMMA InvoiceEventsCount ==
    ASSUME TypeOK, NEW k \in Nat, NEW s \in Subs, NEW cape \in BOOLEAN
    PROVE  /\ \A e \in InvoicePaidEvents(k, s, cape) : Of(e, invoices + 1)
           /\ InvoicePaidEvents(k, s, cape) # {}
           /\ IsFiniteSet(InvoicePaidEvents(k, s, cape))
           /\ Cardinality(InvoicePaidEvents(k, s, cape)) <= Cardinality(InvoiceEvents)
<1> DEFINE x == Ev(k, "invoice_paid", s, "active", cape, invoices + 1)
           y == Ev(k + 1, "invoice_payment_paid", s, "active", cape, invoices + 1)
           New == InvoicePaidEvents(k, s, cape)
<1>1. /\ x.type = "invoice_paid" /\ x.inv = invoices + 1
      /\ y.type = "invoice_payment_paid" /\ y.inv = invoices + 1
  BY DEF Ev
<1>2. New = {e \in {x, y} : e.type \in InvoiceEvents}
  BY DEF InvoicePaidEvents
<1> HIDE DEF x, y, New
<1>3. \A e \in New : Of(e, invoices + 1)
  BY <1>1, <1>2 DEF Of, InvoiceEventTypes
<1>4. New # {}
  BY <1>1, <1>2, Parameters DEF InvoiceEventTypes
<1>5. IsFiniteSet({x}) /\ Cardinality({x}) = 1 /\ IsFiniteSet({y}) /\ Cardinality({y}) = 1
  BY FS_Singleton
<1>6. IsFiniteSet({x} \cup {y}) /\ Cardinality({x} \cup {y}) <= 2
  <2>1. /\ IsFiniteSet({x} \cup {y})
        /\ Cardinality({x} \cup {y}) =
             IF y \in {x} THEN Cardinality({x}) ELSE Cardinality({x}) + 1
    BY <1>5, FS_AddElement
  <2> QED
    BY <1>5, <2>1
<1>7. CASE Cardinality(InvoiceEvents) = 1
  <2>1. PICK t : InvoiceEvents = {t}
    BY <1>7, SubscribedTypes, FS_Singleton
  <2>2. New = {x} \/ New = {y}
    BY <1>1, <1>2, <1>4, <2>1
  <2> QED
    BY <1>3, <1>4, <1>5, <1>7, <2>2 DEF New
<1>8. CASE Cardinality(InvoiceEvents) = 2
  <2>1. New \subseteq {x} \cup {y}
    BY <1>2
  <2>2. /\ IsFiniteSet(New) /\ Cardinality(New) <= Cardinality({x} \cup {y})
        /\ Cardinality(New) \in Nat /\ Cardinality({x} \cup {y}) \in Nat
    BY <1>6, <2>1, FS_Subset, FS_CardinalityType
  <2> QED
    BY <1>3, <1>4, <1>6, <1>8, <2>2 DEF New
<1> QED
  BY <1>7, <1>8, SubscribedTypes

\* A quiet step leaves the books as they are.
LEMMA QuietBooks ==
    ASSUME IInv, Books, [Next]_vars, Quiet
    PROVE  Books'
<1>1. \A i : Waiting(i)' = Waiting(i)
  BY DEF Waiting, Of, Quiet
<1>2. \A i : Paying(i)' = Paying(i)
  BY DEF Paying, Quiet
<1>3. NumbersInv'
  BY DEF Books, NumbersInv, Quiet
<1>4. CountInv' /\ NotYetCollected'
  BY <1>1, <1>2 DEF Books, CountInv, NotYetCollected, Quiet
<1>5. NotLost'
  BY <1>1, <1>2, OneCustomerBack DEF Books, NotLost, Quiet
<1> QED
  BY <1>3, <1>4, <1>5 DEF Books

\* A collected invoice waits in its events, and in nothing older.
LEMMA InvoiceBooks ==
    ASSUME IInv, Books, [Next]_vars, NEW s \in Subs, StripeFirstPayment(s) \/ StripeCollect(s)
    PROVE  Books'
<1>0. TypeOK /\ invoices \in Nat /\ retries \in Nat /\ invoices < MaxInvoices /\ MaxInvoices \in Nat
  BY Parameters DEF IInv, TypeOK, StripeFirstPayment, StripeCollect
<1>1. PICK k \in Nat, cape \in BOOLEAN :
        \A e : e.type \in InvoiceEventTypes =>
            (e \in events' <=> e \in events \/ e \in InvoicePaidEvents(k, s, cape))
  <2>0. stripe[s].cape \in BOOLEAN
    BY DEF IInv, TypeOK, StripeSub
  <2>1. CASE StripeFirstPayment(s)
    <3>1. \A e : e.type \in InvoiceEventTypes =>
            (e \in events' <=> e \in events \/ e \in InvoicePaidEvents(3, s, stripe[s].cape))
      BY <2>1 DEF StripeFirstPayment, Emit, Ev, InvoiceEventTypes
    <3> QED
      BY <2>0, <3>1
  <2>2. CASE StripeCollect(s)
    <3>1. \A e : e.type \in InvoiceEventTypes =>
            (e \in events' <=> e \in events \/ e \in InvoicePaidEvents(2, s, stripe[s].cape))
      BY <2>2 DEF StripeCollect, Emit, Ev, InvoiceEventTypes
    <3> QED
      BY <2>0, <3>1
  <2> QED
    BY <2>1, <2>2
<1>2. UNCHANGED <<job, payRows, retries>> /\ invoices' = invoices + 1
  BY DEF StripeFirstPayment, StripeCollect, tables
<1>3. PICK n \in 1..MaxInvoices : n = invoices + 1
  BY <1>0
<1>4. PICK New : /\ New = InvoicePaidEvents(k, s, cape)
                 /\ \A e \in New : Of(e, n)
                 /\ New # {} /\ IsFiniteSet(New) /\ Cardinality(New) <= Cardinality(InvoiceEvents)
                 /\ Cardinality(New) \in Nat
  BY <1>0, <1>3, InvoiceEventsCount, FS_CardinalityType
<1>5. /\ \A e \in events' : e.type \in InvoiceEventTypes => e.inv \in 1..invoices'
      /\ \A j \in Jobs : NumberInv(j)'
  <2>1. \A j \in Jobs : NumberInv(j)'
    BY <1>0, <1>2 DEF Books, NumbersInv, NumberInv, Webhook, InFlight
  <2>2. \A e \in events' : e.type \in InvoiceEventTypes => e.inv \in 1..invoices'
    BY <1>0, <1>1, <1>2, <1>3, <1>4 DEF Books, NumbersInv, Of
  <2> QED
    BY <2>1, <2>2
<1>6. \A i : Paying(i)' = Paying(i)
  BY <1>2 DEF Paying, Pays
<1>7. \A i : i # n => Waiting(i)' = Waiting(i)
  BY <1>1, <1>4 DEF Waiting, Of
<1>8. Waiting(n) = {} /\ Paying(n) = {} /\ payRows[n] = 0
  <2>1. Waiting(n) = {}
    BY <1>0, <1>3 DEF Books, NumbersInv, Waiting, Of
  <2>2. ASSUME NEW j \in Jobs PROVE ~ Pays(j, n)
    BY <1>0, <1>3 DEF Books, NumbersInv, NumberInv, Webhook, InFlight, Pays, Of, InvoiceEventTypes,
                WebhookTypes
  <2>3. payRows[n] = 0
    BY <1>0, <1>3 DEF Books, NotYetCollected
  <2> QED
    BY <2>1, <2>2, <2>3 DEF Paying
<1>9. Waiting(n)' = New
  BY <1>1, <1>4, <1>8 DEF Waiting, Of
<1>10. CountInv'
  <2> SUFFICES ASSUME NEW i \in 1..MaxInvoices
               PROVE  /\ IsFiniteSet(Waiting(i)') /\ IsFiniteSet(Paying(i)')
                      /\ payRows'[i] + Cardinality(Waiting(i)') + Cardinality(Paying(i)')
                           <= Cardinality(InvoiceEvents) + retries'
    BY DEF CountInv
  <2>1. CASE i = n
    BY <1>0, <1>2, <1>4, <1>6, <1>8, <1>9, <2>1, FS_EmptySet, SubscribedTypes
  <2>2. CASE i # n
    BY <1>2, <1>6, <1>7, <2>2 DEF Books, CountInv
  <2> QED
    BY <2>1, <2>2
<1>11. NotYetCollected'
  BY <1>0, <1>2 DEF Books, NotYetCollected
<1>12. NotLost'
  <2> SUFFICES ASSUME OneCustomerEach', NEW i \in 1..invoices'
               PROVE  payRows'[i] > 0 \/ Waiting(i)' # {} \/ Paying(i)' # {}
    BY DEF NotLost
  <2>1. CASE i = n
    BY <1>4, <1>9, <2>1
  <2>2. CASE i # n
    <3>1. i \in 1..invoices
      BY <1>0, <1>2, <1>3, <2>2
    <3> QED
      BY <1>2, <1>6, <1>7, <2>2, <3>1, OneCustomerBack DEF Books, NotLost
  <2> QED
    BY <2>1, <2>2
<1> QED
  BY <1>5, <1>10, <1>11, <1>12 DEF Books, NumbersInv

\* An invoice event about the only customer of a user finds that user.
LEMMA SomeoneFound ==
    ASSUME IInv, LinkedInv, OneCustomerEach, NEW e \in events
    PROVE  FoundUsers(e) # {}
<1>1. e \in Event /\ e.sub \in Subs /\ stripe[e.sub].status # "none"
  BY DEF IInv, TypeOK, EventsInv, EventInv, Event
<1>2. /\ stripe[e.sub].customer \in Customers
      /\ Owner(e.sub) \in Users /\ user[Owner(e.sub)].customer # None
  BY <1>1 DEF IInv, SubsInv, SubInv, LinkedInv
<1>3. PICK u \in Users : u = Owner(e.sub)
  BY <1>2
<1>4. PICK c \in Customers : c = user[u].customer
  BY <1>2, <1>3 DEF IInv, TypeOK, User
<1>5. owner[c] = u
  BY <1>4, NoneIsNoValue DEF IInv, RowsInv, RowInv
<1>6. owner[Customer(e)] = u /\ Customer(e) \in Customers
  BY <1>2, <1>3, NoneIsNoValue DEF Owner, Customer
<1>7. c = Customer(e)
  BY <1>3, <1>5, <1>6, NoneIsNoValue DEF OneCustomerEach
<1> QED
  BY <1>4, <1>7 DEF FoundUsers

\* A sum with at most what it had before.
LEMMA Balance ==
    ASSUME NEW W, NEW V, NEW P, NEW Q, IsFiniteSet(W), IsFiniteSet(P),
           NEW x \in Nat, NEW y \in Nat, NEW r \in Nat, NEW t \in Nat,
           \/ V \subseteq W /\ Q \subseteq P /\ x = y /\ r = t
           \/ \E e \in W : \E j : V = W \ {e} /\ Q = P \cup {j} /\ x = y /\ r = t
           \/ \E j \in P : V = W /\ Q = P \ {j} /\ y = x + 1 /\ r = t
           \/ \E e : V \subseteq W \cup {e} /\ Q \subseteq P /\ x = y /\ t = r + 1
    PROVE  /\ IsFiniteSet(V) /\ IsFiniteSet(Q)
           /\ y + Cardinality(V) + Cardinality(Q) + r <= x + Cardinality(W) + Cardinality(P) + t
<1> DEFINE Goal == /\ IsFiniteSet(V) /\ IsFiniteSet(Q)
                   /\ y + Cardinality(V) + Cardinality(Q) + r
                        <= x + Cardinality(W) + Cardinality(P) + t
<1>1. Cardinality(W) \in Nat /\ Cardinality(P) \in Nat
  BY FS_CardinalityType
<1>2. ASSUME V \subseteq W, Q \subseteq P, x = y, r = t PROVE Goal
  <2>1. /\ IsFiniteSet(V) /\ Cardinality(V) <= Cardinality(W) /\ Cardinality(V) \in Nat
        /\ IsFiniteSet(Q) /\ Cardinality(Q) <= Cardinality(P) /\ Cardinality(Q) \in Nat
    BY <1>2, FS_Subset, FS_CardinalityType
  <2> QED
    BY <1>1, <1>2, <2>1
<1>3. ASSUME NEW e \in W, NEW j, V = W \ {e}, Q = P \cup {j}, x = y, r = t PROVE Goal
  <2>1. /\ IsFiniteSet(V) /\ Cardinality(V) + 1 <= Cardinality(W) /\ Cardinality(V) \in Nat
        /\ IsFiniteSet(Q) /\ Cardinality(Q) <= Cardinality(P) + 1 /\ Cardinality(Q) \in Nat
    BY <1>3, FiniteSteps
  <2> QED
    BY <1>1, <1>3, <2>1
<1>4. ASSUME NEW j \in P, V = W, Q = P \ {j}, y = x + 1, r = t PROVE Goal
  <2>1. IsFiniteSet(Q) /\ Cardinality(Q) + 1 <= Cardinality(P) /\ Cardinality(Q) \in Nat
    BY <1>4, FiniteSteps
  <2> QED
    BY <1>1, <1>4, <2>1
<1>5. ASSUME NEW e, V \subseteq W \cup {e}, Q \subseteq P, x = y, t = r + 1 PROVE Goal
  <2>1. /\ IsFiniteSet(W \cup {e}) /\ Cardinality(W \cup {e}) <= Cardinality(W) + 1
        /\ Cardinality(W \cup {e}) \in Nat
    BY FiniteSteps
  <2>2. /\ IsFiniteSet(V) /\ Cardinality(V) <= Cardinality(W \cup {e}) /\ Cardinality(V) \in Nat
        /\ IsFiniteSet(Q) /\ Cardinality(Q) <= Cardinality(P) /\ Cardinality(Q) \in Nat
    BY <1>5, <2>1, FS_Subset, FS_CardinalityType
  <2> QED
    BY <1>1, <1>5, <2>1, <2>2
<1> QED
  BY <1>2, <1>3, <1>4, <1>5

\* What a step does to the books of invoice i: nothing new, a hand-over from an
\* event to a job, a payment recorded, or an event sent again.
Balanced(i) ==
    \/ /\ Waiting(i)' \subseteq Waiting(i) /\ Paying(i)' \subseteq Paying(i)
       /\ payRows'[i] = payRows[i] /\ retries' = retries
    \/ \E e \in Waiting(i) : \E j :
        /\ Waiting(i)' = Waiting(i) \ {e} /\ Paying(i)' = Paying(i) \cup {j}
        /\ payRows'[i] = payRows[i] /\ retries' = retries
    \/ \E j \in Paying(i) : /\ Waiting(i)' = Waiting(i) /\ Paying(i)' = Paying(i) \ {j}
                            /\ payRows'[i] = payRows[i] + 1 /\ retries' = retries
    \/ \E e : /\ Waiting(i)' \subseteq Waiting(i) \cup {e} /\ Paying(i)' \subseteq Paying(i)
             /\ payRows'[i] = payRows[i] /\ retries' = retries + 1

\* The books of a step that moves one job, stated of the sets it changes.
LEMMA BooksStep ==
    ASSUME IInv, Books, [Next]_vars, NumbersInv', invoices' = invoices,
           \A i \in 1..MaxInvoices : Balanced(i),
           \A i \in 1..MaxInvoices : payRows'[i] # payRows[i] => i <= invoices,
           OneCustomerEach /\ OneCustomerEach' => \A i \in 1..invoices :
               payRows[i] > 0 \/ Waiting(i) # {} \/ Paying(i) # {} =>
                   payRows'[i] > 0 \/ Waiting(i)' # {} \/ Paying(i)' # {}
    PROVE  Books'
<1>1. /\ retries \in Nat /\ retries' \in Nat /\ payRows \in [1..MaxInvoices -> Nat]
      /\ invoices \in Nat /\ MaxInvoices \in Nat /\ payRows' \in [1..MaxInvoices -> Nat]
  BY Inductive, Parameters DEF IInv, TypeOK
<1>2. CountInv'
  <2> SUFFICES ASSUME NEW i \in 1..MaxInvoices
               PROVE  /\ IsFiniteSet(Waiting(i)') /\ IsFiniteSet(Paying(i)')
                      /\ payRows'[i] + Cardinality(Waiting(i)') + Cardinality(Paying(i)')
                           <= Cardinality(InvoiceEvents) + retries'
    BY DEF CountInv
  <2>0. PICK W, V, P, Q :
          W = Waiting(i) /\ V = Waiting(i)' /\ P = Paying(i) /\ Q = Paying(i)'
    OBVIOUS
  <2>1. PICK x \in Nat, y \in Nat, r \in Nat, t \in Nat, n \in Nat :
          /\ x = payRows[i] /\ y = payRows'[i] /\ r = retries /\ t = retries'
          /\ n = Cardinality(InvoiceEvents)
    BY <1>1, SubscribedTypes
  <2>2. IsFiniteSet(W) /\ IsFiniteSet(P) /\ x + Cardinality(W) + Cardinality(P) <= n + r
    BY <2>0, <2>1 DEF Books, CountInv
  <2>3. \/ V \subseteq W /\ Q \subseteq P /\ x = y /\ r = t
        \/ \E e \in W : \E j : V = W \ {e} /\ Q = P \cup {j} /\ x = y /\ r = t
        \/ \E j \in P : V = W /\ Q = P \ {j} /\ y = x + 1 /\ r = t
        \/ \E e : V \subseteq W \cup {e} /\ Q \subseteq P /\ x = y /\ t = r + 1
    BY <2>0, <2>1 DEF Balanced
  <2>4. /\ IsFiniteSet(V) /\ IsFiniteSet(Q)
        /\ y + Cardinality(V) + Cardinality(Q) + r <= x + Cardinality(W) + Cardinality(P) + t
    BY <2>2, <2>3, Balance
  <2>5. /\ Cardinality(W) \in Nat /\ Cardinality(P) \in Nat
        /\ Cardinality(V) \in Nat /\ Cardinality(Q) \in Nat
    BY <2>2, <2>4, FS_CardinalityType
  <2>6. y + Cardinality(V) + Cardinality(Q) <= n + t
    BY <2>2, <2>4, <2>5
  <2> QED
    BY <2>0, <2>1, <2>4, <2>6
<1>3. NotYetCollected'
  BY <1>1 DEF Books, NotYetCollected
<1>4. NotLost'
  BY OneCustomerBack DEF Books, NotLost
<1> QED
  BY <1>2, <1>3, <1>4 DEF Books

\* A delivery takes an invoice event over, or finds nobody.
LEMMA DeliverBooks ==
    ASSUME IInv, LinkedInv, Books, [Next]_vars, NEW j \in Jobs, Deliver(j)
    PROVE  Books'
<1>1. PICK e \in events :
        /\ events' = events \ {e}
        /\ \/ \E u \in FoundUsers(e) : Start(j, e.type, "apply", e, u, user[u].status)
           \/ /\ FoundUsers(e) = {}
              /\ e.type \in {"upsert", "deleted", "payment_failed"}
              /\ Start(j, e.type, "apply", e, None, None)
           \/ /\ FoundUsers(e) = {}
              /\ e.type \in InvoiceEventTypes \cup {"checkout"}
              /\ UNCHANGED job
  BY DEF Deliver
<1>2. /\ e \in Event /\ e.type \in WebhookTypes
      /\ e.type \in InvoiceEventTypes => e.inv \in 1..invoices
      /\ job[j].pc = "idle" /\ job[j] \in Job
      /\ \A k \in Jobs : NumberInv(k)
  BY DEF IInv, TypeOK, Event, Books, NumbersInv, Deliver, InFlight
<1>3. UNCHANGED <<payRows, invoices, retries>> /\ payRows' \in [1..MaxInvoices -> Nat]
  BY DEF Deliver, tables, IInv, TypeOK
<1>4. \A k \in Jobs \ {j} : job'[k] = job[k]
  BY <1>1 DEF Start, IInv, TypeOK
<1>5. \A k \in Jobs \ {j} : NumberInv(k)' /\ \A i : Pays(k, i)' <=> Pays(k, i)
  BY <1>2, <1>3, <1>4, AsideLemma
<1>6. \A i : ~ Pays(j, i)
  BY <1>2 DEF Pays
<1>7. CASE UNCHANGED job
  <2>1. \A i : Paying(i)' = Paying(i)
    BY <1>7 DEF Paying, Pays
  <2>2. \A i : Waiting(i)' = Waiting(i) \ {e}
    BY <1>1 DEF Waiting
  <2>3. NumbersInv'
    BY <1>1, <1>2, <1>3, <1>7, AsideLemma DEF Books, NumbersInv
  <2>4. CASE e.type \in InvoiceEventTypes /\ FoundUsers(e) = {}
    <3>1. \A i \in 1..MaxInvoices : Balanced(i)
      BY <1>3, <2>1, <2>2 DEF Balanced
    <3>2. ~ OneCustomerEach
      BY <2>4, SomeoneFound
    <3> QED
      BY <1>3, <2>3, <3>1, <3>2, BooksStep
  <2>5. CASE e.type \notin InvoiceEventTypes
    <3>1. Quiet
      BY <1>1, <1>2, <1>3, <1>7, <2>5, AsideLemma DEF Quiet
    <3> QED
      BY <3>1, QuietBooks
  <2>6. e.type \in InvoiceEventTypes => FoundUsers(e) = {}
    <3>1. ASSUME NEW u \in FoundUsers(e), Start(j, e.type, "apply", e, u, user[u].status)
          PROVE  FALSE
      BY <1>2, <1>7, <3>1 DEF Start, IInv, TypeOK
    <3> QED
      BY <1>1, <3>1 DEF InvoiceEventTypes
  <2> QED
    BY <2>4, <2>5, <2>6
<1>8. ASSUME NEW u \in Users \cup {None}, NEW st \in Statuses \cup {None},
             Start(j, e.type, "apply", e, u, st),
             e.type \in InvoiceEventTypes => u \in Users
      PROVE  Books'
  <2>1. job'[j].pc = "apply" /\ job'[j].op = e.type /\ job'[j].ev = e /\ job'[j].who = u
    BY <1>8 DEF Start, IInv, TypeOK
  <2>2. NumberInv(j)'
    BY <1>2, <1>3, <1>8, <2>1, NoneIsNoValue DEF NumberInv, Webhook, InFlight
  <2>3. \A i : Pays(j, i)' <=> Of(e, i)
    BY <2>1 DEF Pays
  <2>4. CASE e.type \notin InvoiceEventTypes
    <3>1. Quiet
      BY <1>1, <1>3, <1>5, <1>6, <2>2, <2>3, <2>4 DEF Quiet, Of
    <3> QED
      BY <3>1, QuietBooks
  <2>5. CASE e.type \in InvoiceEventTypes
    <3>1. NumbersInv'
      BY <1>1, <1>3, <1>5, <2>2 DEF Books, NumbersInv
    <3>2. \A i : Waiting(i)' = Waiting(i) \ {e}
      BY <1>1 DEF Waiting
    <3>3. \A i : /\ Of(e, i) => /\ e \in Waiting(i) /\ j \notin Paying(i)
                                /\ Paying(i)' = Paying(i) \cup {j}
                 /\ ~ Of(e, i) => e \notin Waiting(i) /\ Paying(i)' = Paying(i)
      BY <1>5, <1>6, <2>3 DEF Paying, Waiting
    <3>4. ASSUME NEW i \in 1..MaxInvoices PROVE Balanced(i)
      <4>1. CASE Of(e, i)
        <5>1. e \in Waiting(i) /\ Waiting(i)' = Waiting(i) \ {e} /\ Paying(i)' = Paying(i) \cup {j}
          BY <3>2, <3>3, <4>1
        <5> QED
          BY <1>3, <5>1 DEF Balanced
      <4>2. CASE ~ Of(e, i)
        <5>1. Waiting(i)' \subseteq Waiting(i) /\ Paying(i)' \subseteq Paying(i)
          BY <3>2, <3>3, <4>2
        <5> QED
          BY <1>3, <5>1 DEF Balanced
      <4> QED
        BY <4>1, <4>2
    <3>5. \A i : Waiting(i) # {} \/ Paying(i) # {} => Waiting(i)' # {} \/ Paying(i)' # {}
      BY <3>2, <3>3
    <3> QED
      BY <1>3, <3>1, <3>4, <3>5, BooksStep
  <2> QED
    BY <2>4, <2>5
<1>9. \A u \in FoundUsers(e) : u \in Users /\ user[u].status \in Statuses
  BY DEF FoundUsers, IInv, TypeOK, User
<1> QED
  BY <1>1, <1>7, <1>8, <1>9 DEF InvoiceEventTypes

\* A payment is recorded by the delivery that worked on it.
LEMMA CreatePaymentBooks ==
    ASSUME IInv, Books, [Next]_vars, NEW j \in Jobs, CreatePayment(j)
    PROVE  Books'
<1>1. /\ job[j].pc = "pay" /\ job[j] \in Job /\ job[j].op \in InvoiceEventTypes
      /\ \A k \in Jobs : NumberInv(k)
  BY DEF CreatePayment, IInv, TypeOK, Books, NumbersInv, NumberInv
<1>2. /\ Webhook(j) /\ job[j].ev.type = job[j].op
      /\ job[j].ev.inv \in 1..invoices /\ job[j].who # None
  BY <1>1 DEF Webhook, InFlight, NumberInv, WebhookTypes
<1>3. UNCHANGED <<events, invoices, retries>>
  BY DEF CreatePayment, emission
<1>4. PICK m \in 1..invoices : m = job[j].ev.inv
  BY <1>2
<1>5. /\ payRows \in [1..MaxInvoices -> Nat] /\ invoices <= MaxInvoices
      /\ m \in 1..MaxInvoices /\ invoices \in Nat
      /\ payRows' = [payRows EXCEPT ![m] = @ + 1]
  BY <1>4, Parameters DEF IInv, TypeOK, CreatePayment
<1>6. /\ \A k \in Jobs \ {j} : job'[k] = job[k]
      /\ job'[j].pc = "log" /\ job'[j].op = job[j].op /\ job'[j].ev = job[j].ev
      /\ job'[j].who = job[j].who
  BY <1>1 DEF CreatePayment, Goto, IInv, TypeOK, Job
<1>7. \A k \in Jobs \ {j} : NumberInv(k)' /\ \A i : Pays(k, i)' <=> Pays(k, i)
  BY <1>1, <1>3, <1>6, AsideLemma
<1>8. NumberInv(j)'
  BY <1>1, <1>2, <1>3, <1>6 DEF NumberInv, Webhook, InFlight
<1>9. NumbersInv'
  BY <1>3, <1>7, <1>8 DEF Books, NumbersInv
<1>10. \A i : Pays(j, i) <=> i = m
  BY <1>1, <1>2, <1>4 DEF Pays, Of
<1>11. \A i : ~ Pays(j, i)'
  BY <1>6 DEF Pays
<1>12. \A i : Waiting(i)' = Waiting(i)
  BY <1>3 DEF Waiting
<1>13. /\ j \in Paying(m) /\ Paying(m)' = Paying(m) \ {j}
       /\ \A i : i # m => Paying(i)' = Paying(i)
  BY <1>7, <1>10, <1>11 DEF Paying
<1>14. ASSUME NEW i \in 1..MaxInvoices PROVE Balanced(i)
  <2>1. CASE i = m
    BY <1>3, <1>5, <1>12, <1>13, <2>1 DEF Balanced
  <2>2. CASE i # m
    BY <1>3, <1>5, <1>12, <1>13, <2>2 DEF Balanced
  <2> QED
    BY <2>1, <2>2
<1>15. \A i \in 1..MaxInvoices : payRows'[i] # payRows[i] => i <= invoices
  BY <1>4, <1>5
<1>16. \A i \in 1..invoices :
           payRows[i] > 0 \/ Waiting(i) # {} \/ Paying(i) # {} =>
               payRows'[i] > 0 \/ Waiting(i)' # {} \/ Paying(i)' # {}
  <2> SUFFICES ASSUME NEW i \in 1..invoices, payRows[i] > 0 \/ Waiting(i) # {} \/ Paying(i) # {}
               PROVE  payRows'[i] > 0 \/ Waiting(i)' # {} \/ Paying(i)' # {}
    OBVIOUS
  <2>1. CASE i = m
    BY <1>5, <2>1
  <2>2. CASE i # m
    BY <1>5, <1>12, <1>13, <2>2
  <2> QED
    BY <2>1, <2>2
<1> QED
  BY <1>3, <1>9, <1>14, <1>15, <1>16, BooksStep

\* An event that Stripe sends again waits again, whatever its delivery did.
LEMMA RedeliveryBooks ==
    ASSUME IInv, Books, [Next]_vars, NEW j \in Jobs, WebhookFails(j) \/ StripeRepeats(j)
    PROVE  Books'
<1>1. PICK e : e = job[j].ev
  OBVIOUS
<1>2. /\ Webhook(j) /\ \A k \in Jobs : NumberInv(k)
      /\ events' = events \cup {e} /\ retries' = retries + 1
      /\ UNCHANGED <<payRows, invoices>>
  BY <1>1 DEF WebhookFails, StripeRepeats, tables, Books, NumbersInv
<1>3. /\ e.type = job[j].op
      /\ e.type \in InvoiceEventTypes => e.inv \in 1..invoices
  BY <1>1, <1>2 DEF NumberInv
<1>4. \A k \in Jobs \ {j} : job'[k] = job[k]
  BY DEF WebhookFails, StripeRepeats, Finish, IInv, TypeOK
<1>5. \A k \in Jobs \ {j} : NumberInv(k)' /\ \A i : Pays(k, i)' <=> Pays(k, i)
  BY <1>2, <1>4, AsideLemma
<1>6. job'[j] = job[j] \/ job'[j] = IdleJob
  BY DEF WebhookFails, StripeRepeats, Finish, IInv, TypeOK
<1>7. NumberInv(j)' /\ \A i : Pays(j, i)' => Pays(j, i)
  <2>1. CASE job'[j] = job[j]
    BY <1>2, <2>1, AsideLemma
  <2>2. CASE job'[j] = IdleJob
    BY <2>2 DEF NumberInv, Pays, Webhook, InFlight, IdleJob
  <2> QED
    BY <1>6, <2>1, <2>2
<1>8. NumbersInv'
  BY <1>2, <1>3, <1>5, <1>7 DEF Books, NumbersInv
<1>9. \A i : /\ Waiting(i)' = Waiting(i) \cup (IF Of(e, i) THEN {e} ELSE {})
             /\ Paying(i)' \subseteq Paying(i)
             /\ Paying(i) \subseteq Paying(i)' \cup {j}
             /\ j \in Paying(i) => Of(e, i)
  BY <1>1, <1>2, <1>5, <1>7 DEF Waiting, Paying, Pays
<1>10. \A i \in 1..MaxInvoices : Balanced(i)
  BY <1>2, <1>9 DEF Balanced
<1>11. \A i : Waiting(i) # {} \/ Paying(i) # {} => Waiting(i)' # {} \/ Paying(i)' # {}
  BY <1>9
<1> QED
  BY <1>2, <1>8, <1>10, <1>11, BooksStep

\* Nothing is collected, sent or recorded at the start.
LEMMA PaymentInit == Init => PaymentInv
<1> SUFFICES ASSUME Init PROVE PaymentInv
  OBVIOUS
<1>1. /\ \A j \in Jobs : job[j].pc = "idle" /\ job[j].op = "none"
      /\ events = {} /\ sessions = {} /\ invoices = 0 /\ retries = 0
      /\ payRows = [i \in 1..MaxInvoices |-> 0]
      /\ \A s \in Subs : stripe[s].status = "none"
  BY DEF Init, IdleJob
<1>2. \A i : Waiting(i) = {} /\ Paying(i) = {}
  BY <1>1 DEF Waiting, Paying, Pays
<1>3. LinkedInv /\ NumbersInv
  BY <1>1 DEF LinkedInv, NumbersInv, NumberInv, Webhook, InFlight, WebhookTypes, InvoiceEventTypes
<1>4. CountInv
  <2> SUFFICES ASSUME NEW i \in 1..MaxInvoices
               PROVE  /\ IsFiniteSet(Waiting(i)) /\ IsFiniteSet(Paying(i))
                      /\ payRows[i] + Cardinality(Waiting(i)) + Cardinality(Paying(i))
                           <= Cardinality(InvoiceEvents) + retries
    BY DEF CountInv
  <2>1. /\ IsFiniteSet(Waiting(i)) /\ Cardinality(Waiting(i)) = 0
        /\ IsFiniteSet(Paying(i)) /\ Cardinality(Paying(i)) = 0
    BY <1>2, FS_EmptySet
  <2> QED
    BY <1>1, <2>1, SubscribedTypes
<1>5. NotYetCollected /\ NotLost
  BY <1>1 DEF NotYetCollected, NotLost
<1> QED
  BY <1>3, <1>4, <1>5 DEF PaymentInv

\* Every step keeps the books, whoever takes it.
LEMMA PaymentStep ==
    ASSUME IInv, PaymentInv, [Next]_vars
    PROVE  PaymentInv'
<1>1. LinkedInv /\ Books
  BY DEF PaymentInv, Books
<1>2. LinkedInv'
  BY <1>1, LinkedLemma
<1>3. Books'
  BY <1>1, QuietLemma, QuietBooks, InvoiceBooks, DeliverBooks, CreatePaymentBooks, RedeliveryBooks
     DEF Books
<1> QED
  BY <1>2, <1>3 DEF PaymentInv, Books

\* The books hold of every reachable state.
THEOREM PaymentInvariance == Spec => []PaymentInv
<1>1. IInv /\ PaymentInv /\ [Next]_vars => PaymentInv'
  BY PaymentStep
<1> QED
  BY <1>1, PaymentInit, Invariance, PTL DEF Spec

\* Every collected invoice ends up in the payments table unless some user has two
\* customers, and an invoice has at most one row for each invoice event type and
\* each delivery that Stripe repeated (handleInvoicePaid, handleInvoicePaymentPaid).
THEOREM RecordedPayments == Spec => []PaymentsRecorded
<1>1. IInv /\ PaymentInv => PaymentsRecorded
  <2> SUFFICES ASSUME IInv, PaymentInv PROVE PaymentsRecorded
    OBVIOUS
  <2>1. /\ payRows \in [1..MaxInvoices -> Nat] /\ retries \in Nat
        /\ invoices \in 0..MaxInvoices /\ MaxInvoices \in Nat
    BY Parameters DEF IInv, TypeOK
  <2>2. ASSUME AtRest, OneCustomerEach, NEW i \in 1..invoices PROVE payRows[i] >= 1
    <3>1. Waiting(i) = {} /\ Paying(i) = {}
      BY <2>2 DEF AtRest, Waiting, Paying, Pays, InFlight
    <3>2. payRows[i] > 0
      BY <2>2, <3>1 DEF PaymentInv, NotLost
    <3> QED
      BY <2>1, <3>2
  <2>3. ASSUME NEW i \in 1..MaxInvoices PROVE payRows[i] <= Cardinality(InvoiceEvents) + retries
    <3>1. PICK w \in Nat, p \in Nat : w = Cardinality(Waiting(i)) /\ p = Cardinality(Paying(i))
      BY FS_CardinalityType DEF PaymentInv, CountInv
    <3>2. payRows[i] + w + p <= Cardinality(InvoiceEvents) + retries
      BY <3>1 DEF PaymentInv, CountInv
    <3> QED
      BY <2>1, <3>1, <3>2, SubscribedTypes
  <2> QED
    BY <2>2, <2>3 DEF PaymentsRecorded
<1> QED
  BY <1>1, Invariance, PaymentInvariance, PTL

\* Where the endpoint is subscribed to one of the two invoice events only, an invoice has at
\* most one succeeded row until Stripe repeats a delivery: "NO payment row created here"
\* (subscription.service.ts:480-481) is true of the other handlers, and neither the order
\* of the events nor the overlap of their handlers adds a row.
THEOREM OneRowEach ==
    ASSUME Cardinality(InvoiceEvents) = 1
    PROVE  Spec => [](retries = 0 => OnePaymentPerInvoice)
<1>1. IInv /\ PaymentsRecorded => (retries = 0 => OnePaymentPerInvoice)
  <2> SUFFICES ASSUME IInv, PaymentsRecorded, retries = 0, NEW i \in 1..MaxInvoices
               PROVE  payRows[i] <= 1
    BY DEF OnePaymentPerInvoice
  <2>1. payRows[i] <= Cardinality(InvoiceEvents) + retries
    BY DEF PaymentsRecorded
  <2>2. payRows[i] \in Nat
    BY DEF IInv, TypeOK
  <2> QED
    BY <2>1, <2>2
<1> QED
  BY <1>1, Invariance, RecordedPayments, PTL

-----------------------------------------------------------------------------
(* Agreement with Stripe, when events are delivered in order.  Of what has  *)
(* been emitted for a subscription and is not yet handled the newest event  *)
(* says what Stripe holds, and a row that is not behind says it too.        *)

\* No user has two subscriptions.
OneSubscriptionEach ==
    \A s, t \in Subs : Owner(s) # None /\ Owner(s) = Owner(t) => s = t

\* What Stripe's subscription gives its owner, and what an event makes of the row.
Entitled(s) ==
    \/ stripe[s].status = "active"
    \/ stripe[s].status # "canceled" /\ stripe[s].cape

Says(e) ==
    \/ e.type = "upsert" /\ (e.cape \/ e.status = "active")
    \/ e.type \in InvoiceEventTypes \cup {"checkout"}

\* Events that wait or are in the hands of a job.
InHand(e) == \E j \in Jobs : Webhook(j) /\ job[j].ev = e
Told(e)   == e \in events \/ InHand(e)

OrderInv ==
    /\ \A e \in events : e.n <= clock
    /\ \A j \in Jobs : Webhook(j) => job[j].ev.n <= clock
    /\ InOrder => \A j \in Jobs : Webhook(j) =>
          /\ \A k \in Jobs : Webhook(k) => k = j
          /\ \A e \in events : job[j].ev.n <= e.n

Newest(e) == \A f \in Event : Told(f) /\ f.sub = e.sub => f.n <= e.n

NewestTrue ==
    InOrder => \A e \in Event : Told(e) /\ Newest(e) => (Says(e) <=> Entitled(e.sub))

Behind(s) ==
    \/ \E e \in events : e.sub = s
    \/ \E j \in Jobs : job[j].pc = "apply" /\ job[j].ev.sub = s

\* No admin has acted, and no user has paid twice.
Plain == adminActs = 0 /\ OneCustomerEach /\ OneSubscriptionEach

RowsTell ==
    InOrder /\ Plain =>
        \A s \in Subs : stripe[s].status # "none" /\ ~Behind(s) =>
            (user[Owner(s)].isPaid <=> Entitled(s))

\* A handler of a checkout has found its user, and only admins grant.
HandInv ==
    /\ \A j \in Jobs : Webhook(j) /\ job[j].op = "checkout" => job[j].who # None
    /\ adminActs = 0 => everGranted = {}

AgreementInv == OrderInv /\ NewestTrue /\ RowsTell /\ HandInv

\* A job keeps the event it has in hand, and no job gets one.
HandKept(k) ==
    /\ Webhook(k)' => /\ Webhook(k)
                      /\ job'[k].ev = job[k].ev /\ job'[k].op = job[k].op
                      /\ job'[k].who = job[k].who
    /\ job'[k].pc = "apply" => job'[k] = job[k]

\* Only a delivery puts an event in a job's hands.
LEMMA HandsLemma ==
    ASSUME IInv, [Next]_vars, NEW k \in Jobs
    PROVE  Deliver(k) \/ HandKept(k)
<1>0. job \in [Jobs -> Job] /\ job[k] \in Job
  BY DEF IInv, TypeOK
<1>1. ASSUME job'[k] = job[k] PROVE HandKept(k)
  BY <1>1 DEF HandKept, Webhook, InFlight
<1>2. ASSUME Past(k) \/ Asked(k) PROVE HandKept(k)
  BY <1>2 DEF HandKept, Past, Asked, Webhook, InFlight, Requests, WebhookTypes, InvoiceEventTypes
<1>3. ASSUME job'[k] = IdleJob PROVE HandKept(k)
  BY <1>3 DEF HandKept, IdleJob, Webhook, InFlight
<1>4. ASSUME NEW j \in Jobs, \/ RequestStep(j) \/ RequestFails(j) \/ CreateEventRow(j)
                             \/ \E u \in Users : \/ SubscribeBegin(j, u) \/ CancelBegin(j, u)
                                                 \/ ReactivateBegin(j, u)
      PROVE  HandKept(k)
  <2>1. Moves(j)
    BY <1>4, RequestMoves
  <2> QED
    BY <1>1, <1>2, <2>1 DEF Moves
<1>5. ASSUME NEW j \in Jobs, WebhookFails(j) \/ StripeRepeats(j) PROVE HandKept(k)
  BY <1>0, <1>1, <1>3, <1>5 DEF WebhookFails, StripeRepeats, Finish
<1>6. ASSUME NEW j \in Jobs, CreatePayment(j) \/ ApplyEvent(j) PROVE HandKept(k)
  <2>1. /\ job[j].pc \in {"apply", "pay"}
        /\ Finish(j) \/ \E p \in {"pay", "log"} : Goto(j, p)
    BY <1>6 DEF CreatePayment, ApplyEvent, AfterWrite
  <2>2. CASE Finish(j)
    BY <1>0, <1>1, <1>3, <2>2 DEF Finish
  <2>3. ASSUME NEW p \in {"pay", "log"}, Goto(j, p) PROVE HandKept(k)
    <3>1. CASE k = j
      BY <1>0, <2>1, <2>3, <3>1 DEF Goto, HandKept, Webhook, InFlight, Job
    <3>2. CASE k # j
      BY <1>0, <1>1, <2>3, <3>2 DEF Goto
    <3> QED
      BY <3>1, <3>2
  <2> QED
    BY <2>1, <2>2, <2>3
<1>7. ASSUME NEW j \in Jobs, Deliver(j) PROVE Deliver(k) \/ HandKept(k)
  BY <1>0, <1>1, <1>7 DEF Deliver, Start
<1>8. CASE StripeStep
  BY <1>1, <1>8 DEF StripeStep, StripeStartSubscription, StripeFirstPayment, StripeCollect,
                    StripeChargeFails, StripeEnd
<1>9. ASSUME NEW u \in Users, AdminGrant(u) \/ AdminRevoke(u) PROVE HandKept(k)
  BY <1>1, <1>9 DEF AdminGrant, AdminRevoke
<1>10. CASE UNCHANGED vars
  BY <1>1, <1>10 DEF vars
<1> QED
  BY <1>4, <1>5, <1>6, <1>7, <1>8, <1>9, <1>10 DEF Next, WriteStep

\* Something newer than the completed checkout e, that is no checkout.
Newer(e, f) == f.sub = e.sub /\ f.type # "checkout" /\ e.n < f.n

\* Stripe sends news of subscription s, the newest of which says what it now holds; the invoice
\* of a completed checkout is sent after it.
NewsOf(s, New) ==
    /\ events' = events \cup New /\ New # {} /\ New \subseteq Event
    /\ \A e \in New : e.sub = s /\ clock < e.n /\ e.n <= clock'
    /\ \A e \in New : (\A f \in New : f.n <= e.n) => (Says(e) <=> Entitled(s)')
    /\ \A e \in New : e.type = "checkout" => \E f \in New : Newer(e, f)
    /\ \A t \in Subs \ {s} : stripe'[t] = stripe[t]
    /\ \A k \in Jobs : job[k].pc = "apply" => job'[k] = job[k]
    /\ UNCHANGED <<user, owner, adminActs>>

\* A collected invoice, a new and an ended subscription, a failed charge, a flag.
LEMMA StripeNews ==
    ASSUME IInv, [Next]_vars, NEW s \in Subs,
           \/ StripeFirstPayment(s) \/ StripeCollect(s) \/ StripeChargeFails(s) \/ StripeEnd(s)
           \/ \E c \in Customers : StripeStartSubscription(c, s)
    PROVE  \E New : NewsOf(s, New)
<1>0. /\ clock \in Nat /\ invoices \in Nat /\ stripe \in [Subs -> StripeSub] /\ events' \subseteq Event
      /\ stripe[s] \in StripeSub
  BY Inductive, Parameters DEF IInv, TypeOK
<1> DEFINE cape == stripe[s].cape
           Up(k) == Ev(k, "upsert", s, "active", cape, 0)
           Paid(k) == InvoicePaidEvents(k, s, cape)
<1>1. ASSUME NEW k \in Nat, k > 0
      PROVE  \A e \in Paid(k) : /\ e.sub = s /\ clock + k <= e.n /\ e.n <= clock + k + 1
                                /\ e.n \in Nat /\ e.type \in InvoiceEventTypes
  BY <1>0, <1>1 DEF InvoicePaidEvents, Ev, InvoiceEventTypes
<1>2. UNCHANGED <<user, owner, adminActs, job>>
  BY DEF StripeFirstPayment, StripeCollect, StripeChargeFails, StripeEnd, StripeStartSubscription,
         tables, admin
<1>3. \A t \in Subs \ {s} : stripe'[t] = stripe[t]
  BY <1>0 DEF StripeFirstPayment, StripeCollect, StripeChargeFails, StripeEnd,
              StripeStartSubscription
<1>4. CASE StripeFirstPayment(s)
  <2> DEFINE Check == Ev(2, "checkout", s, "active", cape, invoices + 1)
             New == {Up(1), Check} \cup Paid(3)
  <2>1. /\ events' = events \cup New /\ clock' = clock + 4
        /\ stripe'[s].status = "active"
    BY <1>0, <1>4 DEF StripeFirstPayment, Emit, StripeSub
  <2>2. /\ Up(1).sub = s /\ Up(1).n = clock + 1 /\ Says(Up(1)) /\ Up(1).type = "upsert"
        /\ Check.sub = s /\ Check.n = clock + 2 /\ Says(Check)
    BY DEF Ev, Says
  <2>3. \A e \in New : e.sub = s /\ clock < e.n /\ e.n <= clock' /\ Says(e)
    <3>1. \A e \in Paid(3) : e.sub = s /\ clock < e.n /\ e.n <= clock + 4 /\ Says(e)
      <4> HIDE DEF Paid
      <4>1. \A e \in Paid(3) : /\ e.sub = s /\ clock + 3 <= e.n /\ e.n <= clock + 3 + 1
                               /\ e.n \in Nat /\ e.type \in InvoiceEventTypes
        BY <1>1
      <4> QED
        BY <1>0, <4>1 DEF Says
    <3> HIDE DEF Up, Check, Paid
    <3> QED
      BY <1>0, <2>1, <2>2, <3>1
  <2>4. Entitled(s)'
    BY <2>1 DEF Entitled
  <2>5. New # {} /\ New \subseteq Event
    BY <1>0, <2>1
  <2>6. ASSUME NEW e \in New, e.type = "checkout" PROVE \E f \in New : Newer(e, f)
    <3>1. PICK f : f \in Paid(3)
      <4>1. PICK t \in InvoiceEventTypes : t \in InvoiceEvents
        BY Parameters
      <4>2. CASE t = "invoice_paid"
        <5>1. Ev(3, "invoice_paid", s, "active", cape, invoices + 1) \in Paid(3)
          BY <4>1, <4>2 DEF InvoicePaidEvents, Ev
        <5> QED
          BY <5>1
      <4>3. CASE t = "invoice_payment_paid"
        <5>1. Ev(3 + 1, "invoice_payment_paid", s, "active", cape, invoices + 1) \in Paid(3)
          BY <4>1, <4>3 DEF InvoicePaidEvents, Ev
        <5> QED
          BY <5>1
      <4> QED
        BY <4>1, <4>2, <4>3 DEF InvoiceEventTypes
    <3>2. \A g \in Paid(3) : /\ g.sub = s /\ clock + 3 <= g.n /\ g.n \in Nat
                            /\ g.type \in InvoiceEventTypes
      BY <1>1
    <3> HIDE DEF Up, Check, Paid
    <3>3. e = Check /\ f \in New
      BY <2>2, <2>6, <3>1, <3>2 DEF InvoiceEventTypes
    <3> QED
      BY <1>0, <2>2, <3>1, <3>2, <3>3 DEF Newer, InvoiceEventTypes
  <2> HIDE DEF New
  <2> QED
    BY <1>2, <1>3, <2>1, <2>3, <2>4, <2>5, <2>6 DEF NewsOf
<1>5. CASE StripeCollect(s)
  <2> DEFINE New == {Up(1)} \cup Paid(2)
  <2>1. /\ events' = events \cup New /\ clock' = clock + 3
        /\ stripe'[s].status = "active"
    BY <1>0, <1>5 DEF StripeCollect, Emit, StripeSub
  <2>2. Up(1).sub = s /\ Up(1).n = clock + 1 /\ Says(Up(1)) /\ Up(1).type = "upsert"
    BY DEF Ev, Says
  <2>3. \A e \in New : e.sub = s /\ clock < e.n /\ e.n <= clock' /\ Says(e) /\ e.type # "checkout"
    <3>1. \A e \in Paid(2) : /\ e.sub = s /\ clock < e.n /\ e.n <= clock + 3 /\ Says(e)
                            /\ e.type # "checkout"
      <4> HIDE DEF Paid
      <4>1. \A e \in Paid(2) : /\ e.sub = s /\ clock + 2 <= e.n /\ e.n <= clock + 2 + 1
                               /\ e.n \in Nat /\ e.type \in InvoiceEventTypes
        BY <1>1
      <4> QED
        BY <1>0, <4>1 DEF Says, InvoiceEventTypes
    <3> HIDE DEF Up, Paid
    <3> QED
      BY <1>0, <2>1, <2>2, <3>1
  <2>4. Entitled(s)'
    BY <2>1 DEF Entitled
  <2>5. New # {} /\ New \subseteq Event
    BY <1>0, <2>1
  <2> HIDE DEF New
  <2> QED
    BY <1>2, <1>3, <2>1, <2>3, <2>4, <2>5 DEF NewsOf
<1>6. CASE StripeChargeFails(s)
  <2> DEFINE Fail == Ev(1, "payment_failed", s, "past_due", FALSE, 0)
             Late == Ev(2, "upsert", s, "past_due", FALSE, 0)
             New == {Fail, Late}
  <2>1. /\ events' = events \cup New /\ clock' = clock + 2
        /\ stripe'[s].status = "past_due" /\ stripe'[s].cape = FALSE
    BY <1>0, <1>6 DEF StripeChargeFails, Emit, StripeSub
  <2>2. /\ Fail.sub = s /\ Fail.n = clock + 1
        /\ Fail.type = "payment_failed" /\ Late.type = "upsert"
        /\ Late.sub = s /\ Late.n = clock + 2 /\ ~ Says(Late)
    BY DEF Ev, Says, InvoiceEventTypes
  <2>3. ~ Entitled(s)'
    BY <2>1 DEF Entitled
  <2>4. New # {} /\ New \subseteq Event
    BY <1>0, <2>1
  <2> HIDE DEF Fail, Late
  <2>5. \A e \in New : e.sub = s /\ clock < e.n /\ e.n <= clock' /\ e.type # "checkout"
    BY <1>0, <2>1, <2>2
  <2>6. \A e \in New : (\A f \in New : f.n <= e.n) => ~ Says(e)
    BY <1>0, <2>2
  <2> HIDE DEF New
  <2> QED
    BY <1>2, <1>3, <2>1, <2>3, <2>4, <2>5, <2>6 DEF NewsOf
<1>7. CASE StripeEnd(s)
  <2> DEFINE End == Ev(1, "deleted", s, "canceled", cape, 0)
             New == {End}
  <2>1. /\ events' = events \cup New /\ clock' = clock + 1
        /\ stripe'[s].status = "canceled"
    BY <1>0, <1>7 DEF StripeEnd, Emit, StripeSub
  <2>2. End.sub = s /\ End.n = clock + 1 /\ ~ Says(End) /\ End.type = "deleted"
    BY DEF Ev, Says, InvoiceEventTypes
  <2>3. ~ Entitled(s)'
    BY <2>1 DEF Entitled
  <2>4. New # {} /\ New \subseteq Event
    BY <1>0, <2>1
  <2> HIDE DEF End
  <2>5. \A e \in New : e.sub = s /\ clock < e.n /\ e.n <= clock' /\ ~ Says(e) /\ e.type # "checkout"
    BY <1>0, <2>1, <2>2
  <2> HIDE DEF New
  <2> QED
    BY <1>2, <1>3, <2>1, <2>3, <2>4, <2>5 DEF NewsOf
<1>8. ASSUME NEW c \in Customers, StripeStartSubscription(c, s) PROVE \E New : NewsOf(s, New)
  <2> DEFINE First == Ev(1, "upsert", s, "incomplete", FALSE, 0)
             New == {First}
  <2>0. stripe[s].cape = FALSE
    BY <1>0, <1>8 DEF StripeStartSubscription, IInv, SubsInv, SubInv, StripeSub
  <2>1. /\ events' = events \cup New /\ clock' = clock + 1
        /\ stripe'[s].status = "incomplete" /\ stripe'[s].cape = FALSE
    BY <1>0, <1>8, <2>0 DEF StripeStartSubscription, Emit, StripeSub
  <2>2. First.sub = s /\ First.n = clock + 1 /\ ~ Says(First) /\ First.type = "upsert"
    BY DEF Ev, Says, InvoiceEventTypes
  <2>3. ~ Entitled(s)'
    BY <2>1 DEF Entitled
  <2>4. New # {} /\ New \subseteq Event
    BY <1>0, <2>1
  <2> HIDE DEF First
  <2>5. \A e \in New : e.sub = s /\ clock < e.n /\ e.n <= clock' /\ ~ Says(e) /\ e.type # "checkout"
    BY <1>0, <2>1, <2>2
  <2> HIDE DEF New
  <2> QED
    BY <1>2, <1>3, <2>1, <2>3, <2>4, <2>5 DEF NewsOf
<1> QED
  BY <1>4, <1>5, <1>6, <1>7, <1>8

\* Cancelling and reactivating are news too.
LEMMA FlagNews ==
    ASSUME IInv, [Next]_vars, NEW j \in Jobs, CancelAtStripe(j) \/ ReactivateAtStripe(j)
    PROVE  \E s \in Subs : \E New : NewsOf(s, New)
<1>0. /\ clock \in Nat /\ stripe \in [Subs -> StripeSub] /\ events' \subseteq Event
  BY Inductive DEF IInv, TypeOK
<1>1. PICK s \in Subs, cape \in BOOLEAN : FlagSubscription(s, cape)
  <2>1. job[j].ref \in Subs
    BY DEF CancelAtStripe, ReactivateAtStripe, IInv, JobsInv, JobInv
  <2> QED
    BY <2>1 DEF CancelAtStripe, ReactivateAtStripe
<1>2. UNCHANGED <<user, owner, adminActs>>
  BY DEF CancelAtStripe, ReactivateAtStripe, tables, admin
<1>3. \A k \in Jobs : job[k].pc = "apply" => job'[k] = job[k]
  BY DEF CancelAtStripe, ReactivateAtStripe, Goto, IInv, TypeOK
<1> DEFINE e == Ev(1, "upsert", s, stripe[s].status, cape, 0)
           New == {e}
<1>4. /\ events' = events \cup New /\ clock' = clock + 1
      /\ stripe' = [stripe EXCEPT ![s].cape = cape]
      /\ stripe[s].status \notin {"none", "canceled"}
  BY <1>1 DEF FlagSubscription, Emit
<1>5. /\ stripe'[s].status = stripe[s].status /\ stripe'[s].cape = cape
      /\ \A t \in Subs \ {s} : stripe'[t] = stripe[t]
  BY <1>0, <1>4 DEF StripeSub
<1>6. /\ e.sub = s /\ e.n = clock + 1
      /\ e.type = "upsert" /\ e.status = stripe[s].status /\ e.cape = cape
  BY DEF Ev
<1>7. New # {} /\ New \subseteq Event
  BY <1>0, <1>4
<1> HIDE DEF e
<1>8. Says(e) <=> Entitled(s)'
  BY <1>4, <1>5, <1>6 DEF Says, Entitled, InvoiceEventTypes
<1>9. \A f \in New : /\ f.sub = s /\ clock < f.n /\ f.n <= clock' /\ f.type # "checkout"
                     /\ (Says(f) <=> Entitled(s)')
  BY <1>0, <1>4, <1>6, <1>8
<1> HIDE DEF New
<1>10. NewsOf(s, New)
  BY <1>2, <1>3, <1>4, <1>5, <1>7, <1>9 DEF NewsOf
<1> QED
  BY <1>10

\* A step that tells nothing new and delivers nothing.
Silent ==
    /\ UNCHANGED <<stripe, clock>>
    /\ events \subseteq events' /\ \A e \in events' : Told(e)

\* Every step delivers, is news of a subscription, or is silent.
LEMMA ThreeKinds ==
    ASSUME IInv, [Next]_vars
    PROVE  \/ \E j \in Jobs : Deliver(j)
           \/ \E s \in Subs : \E New : NewsOf(s, New)
           \/ Silent
<1>1. ASSUME NEW j \in Jobs, \/ SubscribeCustomer(j) \/ SubscribeCreateCustomer(j)
                             \/ SubscribeLink(j) \/ SubscribeSession(j) \/ CancelSave(j)
                             \/ ReactivateCheck(j) \/ RequestFails(j) \/ WriteStep(j)
      PROVE  Silent
  BY <1>1 DEF SubscribeCustomer, SubscribeCreateCustomer, SubscribeLink, SubscribeSession,
              CancelSave, ReactivateCheck, RequestFails, WriteStep, ApplyEvent, CreatePayment,
              CreateEventRow, external, emission, Silent, Told
<1>2. ASSUME NEW j \in Jobs, WebhookFails(j) \/ StripeRepeats(j) PROVE Silent
  <2>1. /\ events' = events \cup {job[j].ev} /\ UNCHANGED <<stripe, clock>>
        /\ InHand(job[j].ev)
    BY <1>2 DEF WebhookFails, StripeRepeats, external, InHand
  <2> QED
    BY <2>1 DEF Silent, Told
<1>3. ASSUME NEW j \in Jobs, NEW u \in Users,
             SubscribeBegin(j, u) \/ CancelBegin(j, u) \/ ReactivateBegin(j, u)
      PROVE  Silent
  BY <1>3 DEF SubscribeBegin, CancelBegin, ReactivateBegin, external, emission, Silent, Told
<1>4. ASSUME NEW u \in Users, AdminGrant(u) \/ AdminRevoke(u) PROVE Silent
  BY <1>4 DEF AdminGrant, AdminRevoke, external, emission, Silent, Told
<1>5. CASE UNCHANGED vars
  BY <1>5 DEF vars, Silent, Told
<1> QED
  BY <1>1, <1>2, <1>3, <1>4, <1>5, StripeNews, FlagNews DEF Next, StripeStep, RequestStep

\* A delivery hands its event to a job, or drops it if it finds nobody.
TakesOver(j, e) ==
    /\ Deliverable(e) /\ e \in Event
    /\ events' = events \ {e} /\ job[j].pc = "idle"
    /\ \A k \in Jobs \ {j} : job'[k] = job[k]
    /\ \/ job'[j] = job[j] /\ FoundUsers(e) = {}
       \/ /\ job'[j].pc = "apply" /\ job'[j].ev = e /\ job'[j].op = e.type
          /\ e.type = "checkout" => job'[j].who # None
    /\ UNCHANGED <<stripe, clock, user, owner, adminActs, everGranted>>

\* So every delivery does.
LEMMA DeliverFacts ==
    ASSUME IInv, NEW j \in Jobs, Deliver(j)
    PROVE  \E e \in events : TakesOver(j, e)
<1>1. PICK e \in events :
        /\ Deliverable(e) /\ events' = events \ {e}
        /\ \/ \E u \in FoundUsers(e) : Start(j, e.type, "apply", e, u, user[u].status)
           \/ /\ FoundUsers(e) = {}
              /\ e.type \in {"upsert", "deleted", "payment_failed"}
              /\ Start(j, e.type, "apply", e, None, None)
           \/ /\ FoundUsers(e) = {}
              /\ e.type \in InvoiceEventTypes \cup {"checkout"}
              /\ UNCHANGED job
  BY DEF Deliver
<1>2. e \in Event /\ job \in [Jobs -> Job] /\ \A u \in FoundUsers(e) : u \in Users
  BY DEF IInv, TypeOK, FoundUsers
<1>3. /\ job[j].pc = "idle"
      /\ UNCHANGED <<stripe, clock, user, owner, adminActs, everGranted>>
  BY DEF Deliver, InFlight, external, tables, admin
<1>4. /\ \A k \in Jobs \ {j} : job'[k] = job[k]
      /\ \/ job'[j] = job[j] /\ FoundUsers(e) = {}
         \/ /\ job'[j].pc = "apply" /\ job'[j].ev = e /\ job'[j].op = e.type
            /\ e.type = "checkout" => job'[j].who # None
  <2>1. ASSUME NEW u \in Users \cup {None}, NEW st, Start(j, e.type, "apply", e, u, st)
        PROVE  /\ \A k \in Jobs \ {j} : job'[k] = job[k]
               /\ job'[j].pc = "apply" /\ job'[j].ev = e /\ job'[j].op = e.type
               /\ job'[j].who = u
    BY <1>2, <2>1 DEF Start
  <2>2. CASE \E u \in FoundUsers(e) : Start(j, e.type, "apply", e, u, user[u].status)
    BY <1>2, <2>1, <2>2, NoneIsNoValue
  <2>3. CASE /\ e.type \in {"upsert", "deleted", "payment_failed"}
             /\ Start(j, e.type, "apply", e, None, None)
    BY <2>1, <2>3
  <2>4. CASE FoundUsers(e) = {} /\ UNCHANGED job
    BY <2>4
  <2> QED
    BY <1>1, <2>2, <2>3, <2>4
<1> QED
  BY <1>1, <1>2, <1>3, <1>4 DEF TakesOver

\* What is told is an event, numbered by the clock.
LEMMA ToldType ==
    ASSUME IInv
    PROVE  /\ \A e : Told(e) => e \in Event /\ e.n \in Nat
           /\ \A j \in Jobs : Webhook(j) => job[j].ev \in Event /\ job[j].ev.n \in Nat
           /\ clock \in Nat
BY DEF IInv, TypeOK, JobsInv, JobInv, Told, InHand, Webhook, Event

\* Events keep their order.
LEMMA OrderLemma ==
    ASSUME IInv, OrderInv, [Next]_vars
    PROVE  OrderInv'
<1>0. IInv'
  BY Inductive
<1>1. ASSUME \A k \in Jobs : HandKept(k), clock' \in Nat, clock <= clock',
             \A e \in events' : Told(e) \/ (clock < e.n /\ e.n <= clock')
      PROVE  OrderInv'
  <2>1. \A e \in events' : e.n \in Nat /\ e \in Event
    BY <1>0 DEF IInv, TypeOK, Event
  <2>2. \A e : Told(e) => e.n <= clock
    BY DEF OrderInv, Told, InHand
  <2>3. \A e \in events' : e.n <= clock'
    BY <1>1, <2>1, <2>2, ToldType
  <2>4. \A j \in Jobs : Webhook(j)' => Webhook(j) /\ job'[j].ev = job[j].ev
    BY <1>1 DEF HandKept
  <2>5. \A j \in Jobs : Webhook(j)' => job'[j].ev.n <= clock'
    BY <1>1, <2>4, ToldType DEF OrderInv
  <2>6. ASSUME InOrder, NEW j \in Jobs, Webhook(j)', NEW e \in events'
        PROVE  job'[j].ev.n <= e.n
    <3>1. CASE e \in events
      BY <2>4, <2>6, <3>1 DEF OrderInv
    <3>2. CASE InHand(e)
      BY <2>4, <2>6, <3>2, ToldType DEF OrderInv, InHand
    <3>3. CASE clock < e.n
      BY <2>1, <2>4, <2>6, <3>3, ToldType DEF OrderInv
    <3> QED
      BY <1>1, <3>1, <3>2, <3>3 DEF Told
  <2>7. ASSUME InOrder, NEW j \in Jobs, Webhook(j)', NEW k \in Jobs, Webhook(k)'
        PROVE  k = j
    BY <2>4, <2>7 DEF OrderInv
  <2> QED
    BY <2>3, <2>5, <2>6, <2>7 DEF OrderInv
<1>2. ASSUME NEW j \in Jobs, Deliver(j) PROVE OrderInv'
  <2>1. PICK e \in events : TakesOver(j, e)
    BY <1>2, DeliverFacts
  <2>2. \A k \in Jobs : Webhook(k)' => \/ Webhook(k) /\ job'[k].ev = job[k].ev
                                       \/ k = j /\ job'[k].ev = e
    BY <2>1 DEF TakesOver, Webhook, InFlight
  <2>3. InOrder => (\A f \in events : e.n <= f.n) /\ (\A k \in Jobs : ~ Webhook(k))
    BY <2>1 DEF TakesOver, Deliverable
  <2> QED
    BY <2>1, <2>2, <2>3 DEF TakesOver, OrderInv
<1>3. ASSUME NEW s \in Subs, NEW New, NewsOf(s, New), \A k \in Jobs : HandKept(k) PROVE OrderInv'
  <2>1. \A e \in events' : Told(e) \/ (clock < e.n /\ e.n <= clock')
    BY <1>3 DEF NewsOf, Told
  <2>2. clock' \in Nat /\ clock <= clock'
    BY <1>0, <1>3, ToldType DEF NewsOf, Event, IInv, TypeOK
  <2> QED
    BY <1>1, <1>3, <2>1, <2>2
<1>4. ASSUME Silent, \A k \in Jobs : HandKept(k) PROVE OrderInv'
  BY <1>1, <1>4, ToldType DEF Silent
<1> QED
  BY <1>2, <1>3, <1>4, ThreeKinds, HandsLemma

\* Forgetting the oldest leaves the newest.
LEMMA NewestKept ==
    ASSUME IInv, NewestTrue,
           InOrder => /\ \A e : Told(e)' => Told(e)
                      /\ \A e, f : Told(e) /\ ~ Told(e)' /\ Told(f)' => e.n <= f.n,
           stripe' = stripe
    PROVE  NewestTrue'
<1> SUFFICES ASSUME InOrder, NEW e \in Event, Told(e)', Newest(e)' PROVE Says(e) <=> Entitled(e.sub)'
  BY DEF NewestTrue, Says
<1>1. Told(e)
  OBVIOUS
<1>2. ASSUME NEW f \in Event, Told(f), f.sub = e.sub PROVE f.n <= e.n
  BY <1>2 DEF Newest
<1>3. Says(e) <=> Entitled(e.sub)
  BY <1>1, <1>2 DEF NewestTrue, Newest
<1> QED
  BY <1>3 DEF Entitled

\* The newest event of a subscription says what Stripe holds.
LEMMA NewestLemma ==
    ASSUME IInv, OrderInv, NewestTrue, [Next]_vars
    PROVE  NewestTrue'
<1>0. IInv'
  BY Inductive
<1>1. ASSUME NEW j \in Jobs, Deliver(j) PROVE NewestTrue'
  <2>1. PICK e \in events : TakesOver(j, e)
    BY <1>1, DeliverFacts
  <2>2. \A k \in Jobs : Webhook(k)' => \/ Webhook(k) /\ job'[k].ev = job[k].ev
                                       \/ k = j /\ job'[k].ev = e
    BY <2>1 DEF TakesOver, Webhook, InFlight
  <2>3. InOrder => (\A f \in events : e.n <= f.n) /\ (\A k \in Jobs : ~ Webhook(k))
    BY <2>1 DEF TakesOver, Deliverable
  <2>4. \A f : Told(f)' => Told(f)
    <3>1. \A f : InHand(f)' => InHand(f) \/ f = e
      BY <2>2 DEF InHand
    <3> QED
      BY <2>1, <3>1 DEF TakesOver, Told
  <2>5. InOrder => \A f, g : Told(f) /\ ~ Told(f)' /\ Told(g)' => f.n <= g.n
    <3> SUFFICES ASSUME InOrder, NEW f, NEW g, Told(f), ~ Told(f)', Told(g)' PROVE f.n <= g.n
      OBVIOUS
    <3>1. f \in events /\ g \in events
      BY <2>3, <2>4 DEF Told, InHand
    <3>2. f = e
      BY <2>1, <3>1 DEF TakesOver, Told
    <3> QED
      BY <2>3, <3>1, <3>2
  <2> QED
    BY <2>1, <2>4, <2>5, NewestKept DEF TakesOver
<1>2. ASSUME NEW s \in Subs, NEW New, NewsOf(s, New), \A k \in Jobs : HandKept(k)
      PROVE  NewestTrue'
  <2> SUFFICES ASSUME InOrder, NEW e \in Event, Told(e)', Newest(e)'
               PROVE  Says(e) <=> Entitled(e.sub)'
    BY DEF NewestTrue, Says
  <2>0. \A f : InHand(f)' => InHand(f)
    BY <1>2 DEF HandKept, InHand
  <2>1. \A f \in New : f \in Event /\ Told(f)' /\ f.sub = s /\ clock < f.n /\ f.n \in Nat
    BY <1>2 DEF NewsOf, Told, Event
  <2>2. \A f : Told(f) => f.n <= clock /\ f.n \in Nat
    BY ToldType DEF OrderInv, Told, InHand
  <2>3. CASE e.sub = s
    <3>1. PICK f \in New : TRUE
      BY <1>2 DEF NewsOf
    <3>2. f.n <= e.n
      BY <2>1, <2>3 DEF Newest
    <3>3. ~ Told(e)
      BY <2>1, <2>2, <3>1, <3>2, ToldType
    <3>4. e \in New
      BY <1>2, <2>0, <3>3 DEF Told, NewsOf
    <3>5. \A g \in New : g.n <= e.n
      BY <2>1, <2>3 DEF Newest
    <3> QED
      BY <1>2, <2>3, <3>4, <3>5 DEF NewsOf
  <2>4. CASE e.sub # s
    <3>1. \A f \in Event : f.sub = e.sub /\ Told(f) => Told(f)' \/ ~ (f \in events)
      BY <1>2 DEF NewsOf, Told
    <3>2. Told(e)
      BY <1>2, <2>0, <2>4 DEF NewsOf, Told
    <3>3. ASSUME NEW f \in Event, Told(f), f.sub = e.sub PROVE f.n <= e.n
      <4>1. CASE Told(f)'
        BY <3>3, <4>1 DEF Newest
      <4>2. CASE ~ Told(f)'
        <5>1. InHand(f) /\ f \notin events
          BY <3>1, <3>3, <4>2 DEF Told
        <5>2. PICK j \in Jobs : Webhook(j) /\ job[j].ev = f
          BY <5>1 DEF InHand
        <5>3. CASE e \in events
          BY <5>2, <5>3 DEF OrderInv
        <5>4. CASE InHand(e)
          BY <3>3, <5>2, <5>4, ToldType DEF OrderInv, InHand
        <5> QED
          BY <3>2, <5>3, <5>4 DEF Told
      <4> QED
        BY <4>1, <4>2
    <3>4. Says(e) <=> Entitled(e.sub)
      BY <3>2, <3>3 DEF NewestTrue, Newest
    <3>5. stripe'[e.sub] = stripe[e.sub]
      BY <1>2, <2>4 DEF NewsOf, Event
    <3> QED
      BY <3>4, <3>5 DEF Entitled
  <2> QED
    BY <2>3, <2>4
<1>3. ASSUME Silent, \A k \in Jobs : HandKept(k) PROVE NewestTrue'
  <2>0. \A f : InHand(f)' => InHand(f)
    BY <1>3 DEF HandKept, InHand
  <2>1. \A f : Told(f)' => Told(f)
    BY <1>3, <2>0 DEF Silent, Told
  <2>2. InOrder => \A f, g : Told(f) /\ ~ Told(f)' /\ Told(g)' => f.n <= g.n
    <3> SUFFICES ASSUME InOrder, NEW f, NEW g, Told(f), ~ Told(f)', Told(g)' PROVE f.n <= g.n
      OBVIOUS
    <3>1. InHand(f) /\ f \notin events
      BY <1>3 DEF Silent, Told
    <3>2. PICK j \in Jobs : Webhook(j) /\ job[j].ev = f
      BY <3>1 DEF InHand
    <3>3. CASE g \in events
      BY <3>2, <3>3 DEF OrderInv
    <3>4. CASE InHand(g)
      BY <3>2, <3>4, ToldType DEF OrderInv, InHand
    <3> QED
      BY <2>1, <3>3, <3>4 DEF Told
  <2> QED
    BY <1>3, <2>1, <2>2, NewestKept DEF Silent
<1> QED
  BY <1>1, <1>2, <1>3, ThreeKinds, HandsLemma

\* What an admin has done stays done, and only admins grant.
LEMMA AdminStep ==
    ASSUME IInv, [Next]_vars
    PROVE  adminActs' # 0 \/ UNCHANGED <<adminActs, everGranted>>
<1>1. ASSUME NEW u \in Users, AdminGrant(u) \/ AdminRevoke(u) PROVE adminActs' # 0
  BY <1>1 DEF AdminGrant, AdminRevoke, IInv, TypeOK
<1>2. ASSUME NEW j \in Jobs, \/ Deliver(j) \/ WriteStep(j) \/ WebhookFails(j) \/ StripeRepeats(j)
                             \/ RequestFails(j)
      PROVE  UNCHANGED <<adminActs, everGranted>>
  BY <1>2 DEF Deliver, WriteStep, ApplyEvent, CreatePayment, CreateEventRow, WebhookFails,
              StripeRepeats, RequestFails, tables, admin
<1>3. ASSUME NEW j \in Jobs, RequestStep(j) PROVE UNCHANGED <<adminActs, everGranted>>
  BY <1>3 DEF RequestStep, SubscribeCustomer, SubscribeCreateCustomer, SubscribeLink,
              SubscribeSession, CancelAtStripe, CancelSave, ReactivateCheck, ReactivateAtStripe,
              tables, admin
<1>4. ASSUME NEW j \in Jobs, NEW u \in Users,
             SubscribeBegin(j, u) \/ CancelBegin(j, u) \/ ReactivateBegin(j, u)
      PROVE  UNCHANGED <<adminActs, everGranted>>
  BY <1>4 DEF SubscribeBegin, CancelBegin, ReactivateBegin, tables, admin
<1>5. CASE StripeStep
  BY <1>5 DEF StripeStep, StripeStartSubscription, StripeFirstPayment, StripeCollect,
              StripeChargeFails, StripeEnd, tables, admin
<1>6. CASE UNCHANGED vars
  BY <1>6 DEF vars
<1> QED
  BY <1>1, <1>2, <1>3, <1>4, <1>5, <1>6 DEF Next

\* Two subscriptions of one user stay two.
LEMMA PlainBack ==
    ASSUME IInv, [Next]_vars, Plain'
    PROVE  Plain
<1>1. adminActs = 0
  BY AdminStep DEF Plain
<1>2. OneCustomerEach
  BY OneCustomerBack DEF Plain
<1>3. \A s \in Subs : Owner(s) # None => Owner(s) \in Users
  BY DEF IInv, SubsInv, SubInv, Owner
<1>4. \A s \in Subs : Owner(s) # None => Owner(s)' = Owner(s)
  BY <1>3, GrowsLemma, OwnerStable
<1>5. OneSubscriptionEach
  BY <1>4 DEF Plain, OneSubscriptionEach
<1> QED
  BY <1>1, <1>2, <1>5 DEF Plain

\* A handler gives the owner of its event's subscription what the event says, and nobody else.
LEMMA ApplyPays ==
    ASSUME IInv, NumbersInv, LinkedInv, HandInv, OneCustomerEach, NEW j \in Jobs, ApplyEvent(j),
           NEW v \in Users
    PROVE  user'[v].isPaid <=> IF v = Owner(job[j].ev.sub) THEN Says(job[j].ev) ELSE user[v].isPaid
<1>1. PICK e \in Event : e = job[j].ev /\ EventInv(e)
  BY DEF ApplyEvent, IInv, JobsInv, JobInv
<1>2. /\ user \in [Users -> User] /\ user[v] \in User
      /\ job[j].pc = "apply" /\ job[j].op = e.type /\ Webhook(j)
  BY <1>1 DEF ApplyEvent, IInv, TypeOK, NumbersInv, NumberInv, Webhook, InFlight
<1>3. PICK o \in Users : o = Owner(e.sub) /\ user[o].customer # None
  BY <1>1 DEF EventInv, IInv, SubsInv, SubInv, LinkedInv, Event
<1>4. Matches(v, e) <=> v = o
  <2>1. Matches(v, e) => v = o
    BY <1>1, <1>3, WrittenRowLemma
  <2>2. Customer(e) \in Customers /\ owner[Customer(e)] = o
    BY <1>1, <1>3, NoneIsNoValue DEF EventInv, IInv, SubsInv, SubInv, Event, Owner, Customer
  <2>3. user[o].customer \in Customers /\ owner[user[o].customer] = o
    BY <1>3, NoneIsNoValue DEF IInv, TypeOK, User, RowsInv, RowInv
  <2>4. user[o].customer = Customer(e)
    BY <2>2, <2>3, NoneIsNoValue DEF OneCustomerEach
  <2> QED
    BY <2>1, <2>4 DEF Matches
<1>5. CASE e.type \in InvoiceEventTypes \cup {"checkout"}
  <2>1. job[j].who = o
    BY <1>1, <1>2, <1>3, <1>5 DEF IInv, JobsInv, JobInv, NumbersInv, NumberInv, HandInv
  <2>2. Says(e)
    BY <1>5 DEF Says
  <2>3. \/ user' = [user EXCEPT ![o].status = "active", ![o].isPaid = TRUE]
        \/ user' = [user EXCEPT ![o].status = "active", ![o].isPaid = TRUE, ![o].sub = e.sub]
    BY <1>1, <1>5, <2>1 DEF ApplyEvent, InvoiceEventTypes
  <2>4. v # o => user'[v] = user[v]
    BY <1>2, <2>3
  <2>5. v = o => user'[v].isPaid = TRUE
    BY <1>2, <2>3 DEF User
  <2> QED
    BY <1>1, <1>3, <2>2, <2>4, <2>5
<1>6. CASE e.type = "upsert"
  <2>1. user'[v] = IF Matches(v, e) THEN UpsertRow(user[v], e, job[j].seen) ELSE user[v]
    BY <1>1, <1>6 DEF ApplyEvent, InvoiceEventTypes
  <2>2. GivesAccess(StatusMap(e.status)) <=> e.status = "active"
    BY DEF GivesAccess, StatusMap
  <2>3. UpsertRow(user[v], e, job[j].seen).isPaid = (e.cape \/ GivesAccess(StatusMap(e.status)))
    BY <1>2 DEF UpsertRow, User
  <2>4. Says(e) <=> (e.cape \/ e.status = "active")
    BY <1>6 DEF Says, InvoiceEventTypes
  <2> QED
    BY <1>1, <1>3, <1>4, <2>1, <2>2, <2>3, <2>4
<1>7. CASE e.type \in {"deleted", "payment_failed"}
  <2>1. user'[v] = IF Matches(v, e)
                   THEN IF e.type = "deleted" THEN DeletedRow(user[v]) ELSE FailedRow(user[v])
                   ELSE user[v]
    BY <1>1, <1>7 DEF ApplyEvent, InvoiceEventTypes
  <2>2. DeletedRow(user[v]).isPaid = FALSE /\ FailedRow(user[v]).isPaid = FALSE
    BY <1>2 DEF DeletedRow, FailedRow, User
  <2>3. ~ Says(e)
    BY <1>7 DEF Says, InvoiceEventTypes
  <2> QED
    BY <1>1, <1>3, <1>4, <2>1, <2>2, <2>3
<1> QED
  BY <1>1, <1>5, <1>6, <1>7 DEF Event, WebhookTypes

\* A silent step that is no handler's write leaves every row's access as it is, and no row behind
\* catches up by it.
KeepsAccess ==
    /\ \A u \in Users : user'[u].isPaid = user[u].isPaid
    /\ \A k \in Jobs : job[k].pc = "apply" => job'[k] = job[k] \/ job[k].ev \in events'

\* Only an admin, a checkout's hand and the write of a handler change who has access.
LEMMA KeepsLemma ==
    ASSUME IInv, NumbersInv, [Next]_vars, Silent
    PROVE  \/ KeepsAccess
           \/ adminActs' # 0
           \/ \E j \in Jobs : ApplyEvent(j) \/ Deliver(j)
<1>0. /\ job \in [Jobs -> Job] /\ user \in [Users -> User] /\ \A u \in Users : user[u] \in User
      /\ \A k \in Jobs : job[k].pc = "apply" => job[k].op \in WebhookTypes
  BY DEF IInv, TypeOK, NumbersInv, NumberInv
<1>1. ASSUME NEW j \in Jobs, \/ RequestStep(j) \/ RequestFails(j) \/ CreateEventRow(j)
                             \/ \E u \in Users : \/ SubscribeBegin(j, u) \/ CancelBegin(j, u)
                                                 \/ ReactivateBegin(j, u)
      PROVE  KeepsAccess
  <2>1. \A k \in Jobs : job[k].pc = "apply" => job'[k] = job[k]
    <3>1. Moves(j)
      BY <1>1, RequestMoves
    <3> QED
      BY <1>0, <3>1 DEF Moves, Past, Asked, Requests, WebhookTypes, InvoiceEventTypes
  <2>2. CASE SubscribeLink(j)
    <3>1. PICK u \in Users, c \in Customers : user' = [user EXCEPT ![u].customer = c]
      BY <2>2 DEF SubscribeLink, IInv, JobsInv, JobInv
    <3>2. \A v \in Users : user'[v].isPaid = user[v].isPaid
      BY <1>0, <3>1 DEF User
    <3> QED
      BY <2>1, <3>2 DEF KeepsAccess
  <2>3. CASE CancelSave(j)
    <3>1. PICK st \in {"cancelled"} : user' = [user EXCEPT ![job[j].who].status = st]
      BY <2>3 DEF CancelSave
    <3>2. \A v \in Users : user'[v].isPaid = user[v].isPaid
      BY <1>0, <3>1 DEF User
    <3> QED
      BY <2>1, <3>2 DEF KeepsAccess
  <2>4. CASE \/ SubscribeCustomer(j) \/ SubscribeCreateCustomer(j) \/ SubscribeSession(j)
             \/ CancelAtStripe(j) \/ ReactivateCheck(j) \/ ReactivateAtStripe(j)
             \/ RequestFails(j) \/ CreateEventRow(j)
    <3>1. user' = user
      BY <2>4 DEF SubscribeCustomer, SubscribeCreateCustomer, SubscribeSession, CancelAtStripe,
                  ReactivateCheck, ReactivateAtStripe, RequestFails, CreateEventRow, tables
    <3> QED
      BY <2>1, <3>1 DEF KeepsAccess
  <2>5. ASSUME NEW u \in Users, SubscribeBegin(j, u) \/ CancelBegin(j, u) \/ ReactivateBegin(j, u)
        PROVE  user' = user
    BY <2>5 DEF SubscribeBegin, CancelBegin, ReactivateBegin, tables
  <2> QED
    BY <1>1, <2>1, <2>2, <2>3, <2>4, <2>5 DEF RequestStep, KeepsAccess
<1>2. ASSUME NEW j \in Jobs, CreatePayment(j) PROVE KeepsAccess
  BY <1>0, <1>2 DEF CreatePayment, Goto, KeepsAccess
<1>3. ASSUME NEW j \in Jobs, WebhookFails(j) \/ StripeRepeats(j) PROVE KeepsAccess
  <2>1. /\ user' = user /\ events' = events \cup {job[j].ev}
        /\ \A k \in Jobs \ {j} : job'[k] = job[k]
    BY <1>0, <1>3 DEF WebhookFails, StripeRepeats, Finish, tables
  <2> QED
    BY <2>1 DEF KeepsAccess
<1>4. CASE StripeStep
  BY <1>4 DEF StripeStep, StripeStartSubscription, StripeFirstPayment, StripeCollect,
              StripeChargeFails, StripeEnd, tables, KeepsAccess
<1>5. ASSUME NEW u \in Users, AdminGrant(u) \/ AdminRevoke(u) PROVE adminActs' # 0
  BY <1>5 DEF AdminGrant, AdminRevoke, IInv, TypeOK
<1>6. CASE UNCHANGED vars
  BY <1>6 DEF vars, KeepsAccess
<1> QED
  BY <1>1, <1>2, <1>3, <1>4, <1>5, <1>6 DEF Next, WriteStep

\* A row that is not behind keeps saying what Stripe holds.
LEMMA RowsLemma ==
    ASSUME IInv, NumbersInv, LinkedInv, AgreementInv, [Next]_vars
    PROVE  RowsTell'
<1> SUFFICES ASSUME InOrder, Plain', NEW s \in Subs, stripe'[s].status # "none", ~ Behind(s)'
             PROVE  user'[Owner(s)'].isPaid <=> Entitled(s)'
  BY DEF RowsTell
<1>0. Plain /\ OrderInv /\ NewestTrue /\ RowsTell /\ HandInv
  BY PlainBack DEF AgreementInv
<1>1. ASSUME NEW t \in Subs, stripe[t].status # "none"
      PROVE  Owner(t) \in Users /\ Owner(t)' = Owner(t)
  <2>1. Owner(t) \in Users
    BY <1>1 DEF IInv, SubsInv, SubInv
  <2> QED
    BY <2>1, GrowsLemma, OwnerStable
<1>2. ASSUME stripe'[s] = stripe[s], ~ Behind(s), \A u \in Users : user'[u].isPaid = user[u].isPaid
      PROVE  user'[Owner(s)'].isPaid <=> Entitled(s)'
  <2>1. stripe[s].status # "none"
    BY <1>2
  <2>2. user[Owner(s)].isPaid <=> Entitled(s)
    BY <1>0, <1>2, <2>1 DEF RowsTell
  <2>3. Entitled(s)' <=> Entitled(s)
    BY <1>2 DEF Entitled
  <2> QED
    BY <1>1, <1>2, <2>1, <2>2, <2>3
<1>3. ASSUME NEW j \in Jobs, Deliver(j) PROVE user'[Owner(s)'].isPaid <=> Entitled(s)'
  <2>1. PICK e \in events : TakesOver(j, e)
    BY <1>3, DeliverFacts
  <2>2. FoundUsers(e) # {}
    BY <1>0, SomeoneFound DEF Plain
  <2>3. e.sub # s
    BY <2>1, <2>2 DEF TakesOver, Behind
  <2>4. ~ Behind(s)
    BY <2>1, <2>3 DEF TakesOver, Behind
  <2> QED
    BY <1>2, <2>1, <2>4 DEF TakesOver
<1>4. ASSUME NEW t \in Subs, NEW New, NewsOf(t, New) PROVE user'[Owner(s)'].isPaid <=> Entitled(s)'
  <2>1. s # t
    BY <1>4 DEF NewsOf, Behind
  <2>2. ~ Behind(s)
    BY <1>4 DEF NewsOf, Behind
  <2> QED
    BY <1>2, <1>4, <2>1, <2>2 DEF NewsOf
<1>5. ASSUME Silent, KeepsAccess PROVE user'[Owner(s)'].isPaid <=> Entitled(s)'
  <2>1. ~ Behind(s)
    BY <1>5 DEF Silent, KeepsAccess, Behind
  <2> QED
    BY <1>2, <1>5, <2>1 DEF Silent, KeepsAccess
<1>6. ASSUME Silent, NEW j \in Jobs, ApplyEvent(j) PROVE user'[Owner(s)'].isPaid <=> Entitled(s)'
  <2>1. PICK e \in Event : e = job[j].ev /\ EventInv(e) /\ e.sub \in Subs
    BY <1>6 DEF ApplyEvent, IInv, JobsInv, JobInv, Event
  <2>2. /\ stripe' = stripe /\ stripe[s].status # "none" /\ events' = events
        /\ \A k \in Jobs \ {j} : job'[k] = job[k]
    BY <1>6 DEF ApplyEvent, external, emission, Finish, Goto, IInv, TypeOK
  <2>3. /\ Owner(s) \in Users /\ Owner(s)' = Owner(s)
        /\ Owner(e.sub) \in Users
    BY <1>1, <2>1, <2>2 DEF EventInv
  <2>4. \A v \in Users :
          user'[v].isPaid <=> IF v = Owner(e.sub) THEN Says(e) ELSE user[v].isPaid
    BY <1>0, <1>6, <2>1, ApplyPays DEF Plain
  <2>5. Entitled(s)' <=> Entitled(s)
    BY <2>2 DEF Entitled
  <2>6. CASE e.sub = s
    <3>1. InHand(e)
      BY <1>6, <2>1 DEF InHand, Webhook, InFlight, ApplyEvent, NumbersInv, NumberInv
    <3>2. ASSUME NEW f \in Event, Told(f), f.sub = e.sub PROVE f.n <= e.n
      <4>1. f \notin events
        BY <2>2, <2>6, <3>2 DEF Behind
      <4>2. f = e
        BY <1>0, <1>6, <2>1, <3>1, <3>2, <4>1 DEF OrderInv, Told, InHand
      <4> QED
        BY <4>2 DEF Event
    <3>3. Says(e) <=> Entitled(s)
      BY <1>0, <2>6, <3>1, <3>2 DEF NewestTrue, Newest, Told
    <3> QED
      BY <2>3, <2>4, <2>5, <2>6, <3>3
  <2>7. CASE e.sub # s
    <3>1. ~ Behind(s)
      BY <2>1, <2>2, <2>7 DEF Behind
    <3>2. Owner(s) # Owner(e.sub)
      BY <1>0, <2>1, <2>3, <2>7, NoneIsNoValue DEF Plain, OneSubscriptionEach
    <3>3. user[Owner(s)].isPaid <=> Entitled(s)
      BY <1>0, <2>2, <3>1 DEF RowsTell
    <3> QED
      BY <2>3, <2>4, <2>5, <3>2, <3>3
  <2> QED
    BY <2>6, <2>7
<1> QED
  BY <1>3, <1>4, <1>5, <1>6, ThreeKinds, KeepsLemma DEF Plain

\* A delivery for a checkout has found somebody, and nobody is granted access unseen.
LEMMA HandLemma ==
    ASSUME IInv, HandInv, [Next]_vars
    PROVE  HandInv'
<1>1. ASSUME NEW k \in Jobs, Webhook(k)', job'[k].op = "checkout" PROVE job'[k].who # None
  <2>1. CASE HandKept(k)
    BY <1>1, <2>1 DEF HandKept, HandInv
  <2>2. CASE Deliver(k)
    <3>1. PICK e \in events : TakesOver(k, e)
      BY <2>2, DeliverFacts
    <3> QED
      BY <1>1, <3>1 DEF TakesOver, Webhook, InFlight
  <2> QED
    BY <2>1, <2>2, HandsLemma
<1>2. adminActs' = 0 => everGranted' = {}
  BY AdminStep DEF HandInv
<1> QED
  BY <1>1, <1>2 DEF HandInv

\* Nothing is told and nobody has access at the start.
LEMMA AgreementInit == Init => AgreementInv
<1> SUFFICES ASSUME Init PROVE AgreementInv
  OBVIOUS
<1>1. /\ \A j \in Jobs : job[j].pc = "idle"
      /\ events = {} /\ everGranted = {}
      /\ \A s \in Subs : stripe[s].status = "none"
  BY DEF Init, IdleJob
<1>2. \A e : ~ Told(e)
  BY <1>1 DEF Told, InHand, Webhook, InFlight
<1>3. OrderInv /\ HandInv
  BY <1>1 DEF OrderInv, HandInv, Webhook, InFlight
<1>4. NewestTrue /\ RowsTell
  BY <1>1, <1>2 DEF NewestTrue, RowsTell
<1> QED
  BY <1>3, <1>4 DEF AgreementInv

\* The agreement holds of every reachable state.
THEOREM AgreementInvariance == Spec => []AgreementInv
<1>1. IInv /\ PaymentInv /\ AgreementInv /\ [Next]_vars => AgreementInv'
  <2> SUFFICES ASSUME IInv, PaymentInv, AgreementInv, [Next]_vars PROVE AgreementInv'
    OBVIOUS
  <2>1. OrderInv' /\ NewestTrue'
    BY OrderLemma, NewestLemma DEF AgreementInv
  <2>2. RowsTell' /\ HandInv'
    BY RowsLemma, HandLemma DEF PaymentInv, AgreementInv
  <2> QED
    BY <2>1, <2>2 DEF AgreementInv
<1> QED
  BY <1>1, AgreementInit, Invariance, PaymentInvariance, PTL DEF Spec

\* When Stripe delivers its events in order, no admin has acted and no user has two customers or
\* two subscriptions, every account has Pro access exactly when Stripe says so as soon as all is
\* handled: however many requests overlap with the handlers, and whichever deliveries fail or are
\* repeated (the five handlers that set isPaid, findUserByStripeIds).
THEOREM AgreedAccess ==
    ASSUME InOrder
    PROVE  Spec => [](Plain => AccessAgreesAtRest)
<1>1. IInv /\ AgreementInv => (Plain => AccessAgreesAtRest)
  <2> SUFFICES ASSUME IInv, AgreementInv, Plain, AtRest, NEW u \in Users
               PROVE  user[u].isPaid <=>
                        \E s \in Subs : /\ Owner(s) = u
                                        /\ \/ stripe[s].status = "active"
                                           \/ stripe[s].status # "canceled" /\ stripe[s].cape
    BY DEF AccessAgreesAtRest
  <2>1. ASSUME NEW s \in Subs, Owner(s) = u PROVE user[u].isPaid <=> Entitled(s)
    <3>1. stripe[s].status # "none"
      BY <2>1, NoneIsNoValue DEF IInv, SubsInv, SubInv, Owner
    <3>2. ~ Behind(s)
      BY DEF AtRest, InFlight, Behind
    <3> QED
      BY <2>1, <3>1, <3>2 DEF AgreementInv, RowsTell
  <2>2. user[u].isPaid => \E s \in Subs : Owner(s) = u
    BY DEF IInv, RowsInv, RowInv, Cause, AgreementInv, HandInv, Plain
  <2> QED
    BY <2>1, <2>2 DEF Entitled
<1> QED
  BY <1>1, Invariance, AgreementInvariance, PTL
-----------------------------------------------------------------------------
(* The audit trail, when requests and webhooks do not overlap.  A status    *)
(* that is not in the trail yet is on its way there with an event: one that *)
(* waits, or one whose handler has not written its row.                     *)

\* The process serves one request or delivery at a time.
OneAtATime == \A j, k \in Jobs : j = k

\* An event about u waits or is in hand that will end with a row of the trail.
Late(u) ==
    \/ \E e \in events : Owner(e.sub) = u /\ e.type # "checkout"
    \/ \E j \in Jobs : /\ Webhook(j) /\ Owner(job[j].ev.sub) = u
                       /\ job[j].op # "checkout"

\* The handler of a checkout writes no row, but an invoice event always follows.
FollowedInv ==
    InOrder => \A e \in Event : Told(e) /\ e.type = "checkout" => \E f \in events : Newer(e, f)

\* A webhook and a request have different things left to do.
Placed(j) ==
    job[j].pc # "idle" =>
        \/ job[j].op \in WebhookTypes /\ job[j].pc \in {"apply", "pay", "log"}
        \/ job[j].op \in Requests /\ job[j].pc \notin {"apply", "pay"}

\* A handler knows its user's status, and then writes in the trail what it wrote in the row.
Written(j) ==
    /\ job[j].who \in Users
    /\ job[j].pc = "apply" => job[j].seen = user[job[j].who].status
    /\ job[j].pc = "pay" => user[job[j].who].status = "active"
    /\ job[j].pc = "log" => user[job[j].who].status = EventRow(j).status

\* A request that has changed Stripe's subscription is followed by Stripe's event about it.
Saving(j)  == job[j].op \in Requests /\ job[j].pc \in {"save", "log"}
Awaited(j) == \E f \in events : Owner(f.sub) = job[j].who /\ f.type # "checkout"

TrailTold == \A u \in Users : ~ Late(u) => lastEvent[u].status = user[u].status
JobsTold ==
    \A j \in Jobs : /\ Placed(j)
                    /\ Webhook(j) => Written(j)
                    /\ Saving(j) => Awaited(j)

TrailHere == TrailTold /\ JobsTold

TrailInv == FollowedInv /\ (InOrder /\ OneAtATime /\ Plain => TrailHere)

\* The owner of the subscription an event is about stays the same.
LEMMA EventOwner ==
    ASSUME IInv, [Next]_vars
    PROVE  /\ \A e \in events : e \in Event /\ e.sub \in Subs /\ Owner(e.sub) \in Users
                                /\ Owner(e.sub)' = Owner(e.sub)
           /\ \A k \in Jobs : Webhook(k) =>
                /\ job[k].ev \in Event /\ job[k].ev.sub \in Subs /\ Owner(job[k].ev.sub) \in Users
                /\ \A e : e = job[k].ev => Owner(e.sub)' = Owner(e.sub)
<1>1. ASSUME NEW e \in Event, EventInv(e)
      PROVE  e.sub \in Subs /\ Owner(e.sub) \in Users /\ Owner(e.sub)' = Owner(e.sub)
  <2>1. e.sub \in Subs /\ Owner(e.sub) \in Users
    BY <1>1 DEF Event, EventInv, IInv, SubsInv, SubInv
  <2> QED
    BY <2>1, GrowsLemma, OwnerStable
<1>2. \A e \in events : e \in Event /\ EventInv(e)
  BY DEF IInv, TypeOK, EventsInv
<1>3. \A k \in Jobs : Webhook(k) => job[k].ev \in Event /\ EventInv(job[k].ev)
  BY DEF IInv, JobsInv, JobInv, Webhook
<1> QED
  BY <1>1, <1>2, <1>3

\* Whoever is late stays so until his last event is handled.
LEMMA StillLate ==
    ASSUME IInv, [Next]_vars, NEW v \in Users, Late(v),
           \A e \in events : Owner(e.sub) = v /\ e.type # "checkout" =>
               e \in events' \/ \E k \in Jobs : Webhook(k)' /\ job'[k].ev = e
                                                /\ job'[k].op # "checkout",
           \A k \in Jobs : Webhook(k) /\ Owner(job[k].ev.sub) = v /\ job[k].op # "checkout" =>
               \/ job[k].ev \in events' /\ job[k].ev.type # "checkout"
               \/ Webhook(k)' /\ job'[k].ev = job[k].ev /\ job'[k].op # "checkout"
    PROVE  Late(v)'
<1>1. ASSUME NEW e, Owner(e.sub)' = v,
             \/ e \in events' /\ e.type # "checkout"
             \/ \E k \in Jobs : Webhook(k)' /\ job'[k].ev = e /\ job'[k].op # "checkout"
      PROVE  Late(v)'
  BY <1>1 DEF Late
<1>2. ASSUME NEW e \in events, Owner(e.sub) = v, e.type # "checkout" PROVE Late(v)'
  BY <1>1, <1>2, EventOwner
<1>3. ASSUME NEW k \in Jobs, Webhook(k), Owner(job[k].ev.sub) = v, job[k].op # "checkout"
      PROVE  Late(v)'
  <2>1. PICK e \in Event : e = job[k].ev
    BY <1>3, EventOwner
  <2>2. Owner(e.sub)' = v
    BY <1>3, <2>1, EventOwner
  <2> QED
    BY <1>1, <1>3, <2>1, <2>2
<1> QED
  BY <1>2, <1>3 DEF Late

\* What a job may do without a write of the trail: nothing, a step of a request, a failure.
Waits(k) ==
    \/ job'[k] = job[k] /\ (Webhook(k) => user'[job[k].who].status = user[job[k].who].status)
    \/ ~ Webhook(k) /\ ~ Webhook(k)' /\ Placed(k)' /\ (Saving(k)' => Awaited(k)')
    \/ job'[k] = IdleJob /\ (Webhook(k) => job[k].ev \in events')

\* Such steps leave the trail behind at most where an event is on its way.
LEMMA TrailKept ==
    ASSUME IInv, NumbersInv, [Next]_vars, TrailHere, events \subseteq events',
           \A k \in Jobs : Waits(k),
           \A v \in Users : \/ /\ user'[v].status = user[v].status
                               /\ lastEvent'[v] = lastEvent[v]
                            \/ Late(v)'
    PROVE  TrailHere'
<1>1. ASSUME NEW v \in Users, Late(v) PROVE Late(v)'
  <2>1. ASSUME NEW k \in Jobs, Webhook(k), job[k].op # "checkout"
        PROVE  \/ job[k].ev \in events' /\ job[k].ev.type # "checkout"
               \/ Webhook(k)' /\ job'[k].ev = job[k].ev /\ job'[k].op # "checkout"
    <3>1. job[k].ev.type # "checkout"
      BY <2>1 DEF NumbersInv, NumberInv
    <3> QED
      BY <2>1, <3>1 DEF Waits, Webhook, InFlight
  <2> QED
    BY <1>1, <2>1, StillLate
<1>2. TrailTold'
  BY <1>1 DEF TrailHere, TrailTold
<1>3. ASSUME NEW k \in Jobs PROVE /\ Placed(k)' /\ (Webhook(k)' => Written(k)')
                                  /\ (Saving(k)' => Awaited(k)')
  <2>1. CASE /\ job'[k] = job[k]
             /\ Webhook(k) => user'[job[k].who].status = user[job[k].who].status
    <3>1. Placed(k)' /\ (Webhook(k)' => Webhook(k)) /\ (Saving(k)' => Saving(k))
      BY <2>1 DEF TrailHere, JobsTold, Placed, Webhook, InFlight, Saving
    <3>2. ASSUME Webhook(k) PROVE Written(k)'
      BY <2>1, <3>2 DEF TrailHere, JobsTold, Written, EventRow, LoggedStatus, KeepsStatus, Resolved
    <3>3. ASSUME Saving(k) PROVE Awaited(k)'
      BY <2>1, <3>3, EventOwner DEF TrailHere, JobsTold, Awaited
    <3> QED
      BY <3>1, <3>2, <3>3
  <2>2. CASE job'[k] = IdleJob
    BY <2>2 DEF IdleJob, Placed, Webhook, InFlight, Saving
  <2> QED
    BY <2>1, <2>2 DEF Waits
<1> QED
  BY <1>2, <1>3 DEF TrailHere, JobsTold

\* Stripe's own steps, failed and repeated deliveries.
LEMMA StripeTrail ==
    ASSUME IInv, NumbersInv, [Next]_vars, TrailHere,
           \/ StripeStep
           \/ \E j \in Jobs : WebhookFails(j) \/ StripeRepeats(j)
           \/ UNCHANGED vars
    PROVE  TrailHere'
<1>1. ASSUME events \subseteq events', UNCHANGED <<user, lastEvent>>,
             \A k \in Jobs : \/ job'[k] = job[k]
                             \/ job'[k] = IdleJob /\ job[k].ev \in events'
      PROVE  TrailHere'
  BY <1>1, TrailKept DEF Waits
<1>2. CASE StripeStep
  <2>1. UNCHANGED <<user, lastEvent, job>>
    BY <1>2 DEF StripeStep, StripeStartSubscription, StripeFirstPayment, StripeCollect,
                StripeChargeFails, StripeEnd, tables
  <2>2. events \subseteq events'
    BY <1>2 DEF StripeStep, StripeStartSubscription, StripeFirstPayment, StripeCollect,
                StripeChargeFails, StripeEnd, Emit
  <2> QED
    BY <1>1, <2>1, <2>2
<1>3. ASSUME NEW j \in Jobs, WebhookFails(j) \/ StripeRepeats(j) PROVE TrailHere'
  <2>1. /\ UNCHANGED <<user, lastEvent>> /\ events' = events \cup {job[j].ev}
        /\ \A k \in Jobs : job'[k] = job[k] \/ (k = j /\ job'[k] = IdleJob)
    BY <1>3 DEF WebhookFails, StripeRepeats, tables, Finish, IInv, TypeOK
  <2> QED
    BY <1>1, <2>1
<1>4. CASE UNCHANGED vars
  BY <1>1, <1>4 DEF vars
<1> QED
  BY <1>2, <1>3, <1>4

\* A request begins, reads, asks Stripe or fails; only its saving changes a status.
LEMMA RequestTrail ==
    ASSUME OneAtATime, IInv, NumbersInv, [Next]_vars, TrailHere, NEW j \in Jobs,
           \/ RequestStep(j) \/ RequestFails(j)
           \/ \E u \in Users : SubscribeBegin(j, u) \/ CancelBegin(j, u) \/ ReactivateBegin(j, u)
    PROVE  TrailHere'
<1>0. /\ job \in [Jobs -> Job] /\ job[j] \in Job /\ user \in [Users -> User]
      /\ \A k \in Jobs : k = j
      /\ Placed(j)
  BY DEF IInv, TypeOK, OneAtATime, TrailHere, JobsTold
<1>1. ASSUME \A v \in Users : user'[v].status = user[v].status, lastEvent' = lastEvent,
             events \subseteq events', ~ Webhook(j),
             ~ Webhook(j)', Placed(j)', Saving(j)' => Awaited(j)'
      PROVE  TrailHere'
  BY <1>0, <1>1, TrailKept DEF Waits
<1>2. ASSUME \/ job'[j] = IdleJob
             \/ job'[j].op \in Requests /\ job'[j].pc \notin {"apply", "pay", "save", "log"}
      PROVE  ~ Webhook(j)' /\ Placed(j)' /\ ~ Saving(j)'
  BY <1>2 DEF IdleJob, Requests, WebhookTypes, InvoiceEventTypes, Webhook, InFlight, Placed, Saving
<1>3. ASSUME job[j].op \in Requests PROVE ~ Webhook(j)
  BY <1>3 DEF Webhook, Requests, WebhookTypes, InvoiceEventTypes
<1>4. CASE SubscribeCustomer(j) \/ SubscribeCreateCustomer(j) \/ SubscribeSession(j)
           \/ ReactivateCheck(j) \/ RequestFails(j)
  <2>1. UNCHANGED <<user, lastEvent, events>> /\ job[j].op \in Requests
    BY <1>4 DEF SubscribeCustomer, SubscribeCreateCustomer, SubscribeSession, ReactivateCheck,
                RequestFails, tables, emission, Requests, IInv, JobsInv, JobInv
  <2>2. \/ job'[j] = IdleJob
        \/ job'[j].op = job[j].op /\ job'[j].pc \in {"customer", "session", "link", "flag"}
    BY <1>0, <1>4 DEF SubscribeCustomer, SubscribeCreateCustomer, SubscribeSession, ReactivateCheck,
                      RequestFails, Goto, Finish, Job
  <2> QED
    BY <1>1, <1>2, <1>3, <2>1, <2>2
<1>5. CASE SubscribeLink(j)
  <2>1. job[j].op \in Requests /\ lastEvent' = lastEvent /\ events' = events
    BY <1>5 DEF SubscribeLink, emission, IInv, JobsInv, JobInv
  <2>2. job'[j].op = job[j].op /\ job'[j].pc = "session"
    BY <1>0, <1>5 DEF SubscribeLink, Goto, Job
  <2>3. PICK u \in Users, c \in Customers : user' = [user EXCEPT ![u].customer = c]
    BY <1>5 DEF SubscribeLink, IInv, JobsInv, JobInv
  <2>4. \A v \in Users : user'[v].status = user[v].status
    BY <2>3 DEF IInv, TypeOK, User
  <2> QED
    BY <1>1, <1>2, <1>3, <2>1, <2>2, <2>4
<1>6. ASSUME NEW u \in Users, SubscribeBegin(j, u) \/ CancelBegin(j, u) \/ ReactivateBegin(j, u)
      PROVE  TrailHere'
  <2>1. UNCHANGED <<user, lastEvent, events>> /\ ~ Webhook(j)
    BY <1>6 DEF SubscribeBegin, CancelBegin, ReactivateBegin, tables, emission, Webhook
  <2>2. job'[j].op \in Requests /\ job'[j].pc \in {"check", "flag"}
    BY <1>0, <1>6 DEF SubscribeBegin, CancelBegin, ReactivateBegin, Start, Requests
  <2> QED
    BY <1>1, <1>2, <2>1, <2>2
<1>7. CASE CancelAtStripe(j) \/ ReactivateAtStripe(j)
  <2>1. /\ UNCHANGED <<user, lastEvent, owner>> /\ job[j].op \in {"cancel", "reactivate"}
        /\ job[j].pc = "flag"
    BY <1>7 DEF CancelAtStripe, ReactivateAtStripe, tables
  <2>2. job'[j].op = job[j].op /\ job'[j].pc \in {"save", "log"} /\ job'[j].who = job[j].who
    <3>1. PICK p \in {"save", "log"} : job' = [job EXCEPT ![j].pc = p]
      BY <1>7 DEF CancelAtStripe, ReactivateAtStripe, Goto
    <3> QED
      BY <1>0, <3>1 DEF Job
  <2>3. PICK s \in Subs, cape \in BOOLEAN : s = job[j].ref /\ FlagSubscription(s, cape)
    BY <1>7, <2>1 DEF CancelAtStripe, ReactivateAtStripe, IInv, JobsInv, JobInv
  <2>4. Owner(s) = job[j].who /\ Owner(s) \in Users
    BY <2>1, <2>3 DEF IInv, JobsInv, JobInv
  <2>5. Owner(s)' = job[j].who
    BY <2>4, GrowsLemma, OwnerStable
  <2>6. PICK e : e = Ev(1, "upsert", s, stripe[s].status, cape, 0)
    OBVIOUS
  <2>7. events' = events \cup {e} /\ e.sub = s /\ e.type # "checkout"
    BY <2>3, <2>6 DEF FlagSubscription, Emit, Ev
  <2>8. Awaited(j)'
    BY <2>2, <2>5, <2>7 DEF Awaited
  <2>9. ~ Webhook(j) /\ ~ Webhook(j)' /\ Placed(j)'
    BY <2>1, <2>2 DEF Webhook, Placed, Requests, WebhookTypes, InvoiceEventTypes
  <2> QED
    BY <1>1, <2>1, <2>7, <2>8, <2>9
<1>8. CASE CancelSave(j)
  <2>1. /\ lastEvent' = lastEvent /\ UNCHANGED <<owner, stripe, events>> /\ job[j].pc = "save"
        /\ job' = [job EXCEPT ![j].pc = "log"]
        /\ \A v \in Users \ {job[j].who} : user'[v] = user[v]
    BY <1>0, <1>8 DEF CancelSave, external, emission, Goto
  <2>2. job'[j].op = job[j].op /\ job'[j].pc = "log" /\ job'[j].who = job[j].who
    BY <1>0, <2>1 DEF Job
  <2>3. job[j].op \in Requests /\ Saving(j) /\ Awaited(j)
    BY <1>0, <2>1 DEF Placed, Saving, TrailHere, JobsTold
  <2>4. Awaited(j)'
    BY <2>1, <2>2, <2>3 DEF Awaited, Owner
  <2>5. ~ Webhook(j) /\ ~ Webhook(j)' /\ Placed(j)'
    BY <2>2, <2>3 DEF Webhook, Placed, Requests, WebhookTypes, InvoiceEventTypes
  <2>6. ASSUME NEW v \in Users, v = job[j].who PROVE Late(v)'
    BY <2>2, <2>4, <2>6 DEF Awaited, Late
  <2> QED
    BY <1>0, <2>1, <2>4, <2>5, <2>6, TrailKept DEF Waits
<1> QED
  BY <1>4, <1>5, <1>6, <1>7, <1>8 DEF RequestStep

\* A delivery finds its user, and its handler knows his status.
LEMMA DeliverTrail ==
    ASSUME OneAtATime, Plain, IInv, LinkedInv, NumbersInv, [Next]_vars, TrailHere,
           NEW j \in Jobs, Deliver(j)
    PROVE  TrailHere'
<1>0. job \in [Jobs -> Job] /\ user \in [Users -> User] /\ \A k \in Jobs : k = j
  BY DEF IInv, TypeOK, OneAtATime
<1>1. PICK e \in events :
        /\ events' = events \ {e}
        /\ \/ \E u \in FoundUsers(e) : Start(j, e.type, "apply", e, u, user[u].status)
           \/ FoundUsers(e) = {}
  BY DEF Deliver
<1>2. UNCHANGED <<user, lastEvent>> /\ ~ Webhook(j)
  BY DEF Deliver, tables, Webhook
<1>3. PICK u \in Users : Start(j, e.type, "apply", e, u, user[u].status)
  BY <1>1, SomeoneFound DEF Plain, FoundUsers
<1>4. e \in Event /\ e.type \in WebhookTypes
  BY DEF IInv, TypeOK, Event
<1>5. /\ job'[j].op = e.type /\ job'[j].pc = "apply" /\ job'[j].ev = e /\ job'[j].who = u
      /\ job'[j].seen = user[u].status
  BY <1>0, <1>3 DEF Start
<1>6. Webhook(j)' /\ Placed(j)' /\ Written(j)' /\ ~ Saving(j)'
  BY <1>2, <1>4, <1>5 DEF Webhook, InFlight, Placed, Written, Saving
<1>7. ASSUME NEW v \in Users, Late(v) PROVE Late(v)'
  <2>1. ASSUME NEW f \in events, f.type # "checkout"
        PROVE  f \in events' \/ \E k \in Jobs : Webhook(k)' /\ job'[k].ev = f
                                                /\ job'[k].op # "checkout"
    BY <1>1, <1>5, <1>6, <2>1
  <2> QED
    BY <1>0, <1>2, <1>7, <2>1, StillLate
<1> QED
  BY <1>0, <1>2, <1>6, <1>7 DEF TrailHere, TrailTold, JobsTold

\* The write of a handler leaves the trail behind at most where it goes on to write a row of it.
LEMMA ApplyTrail ==
    ASSUME OneAtATime, Plain, InOrder, IInv, LinkedInv, NumbersInv, FollowedInv, [Next]_vars,
           TrailHere, NEW j \in Jobs, ApplyEvent(j)
    PROVE  TrailHere'
<1>0. /\ job \in [Jobs -> Job] /\ user \in [Users -> User] /\ \A k \in Jobs : k = j
      /\ \A v \in Users : user[v] \in User
      /\ Placed(j)
  BY DEF IInv, TypeOK, OneAtATime, TrailHere, JobsTold
<1>1. PICK e \in Event : e = job[j].ev /\ EventInv(e)
  BY DEF ApplyEvent, IInv, JobsInv, JobInv
<1>2. /\ job[j].pc = "apply" /\ job[j].op = e.type /\ Webhook(j) /\ Written(j)
      /\ e.type \in WebhookTypes
  BY <1>1 DEF ApplyEvent, NumbersInv, NumberInv, Webhook, InFlight, TrailHere, JobsTold
<1>3. PICK o \in Users : o = job[j].who /\ o = Owner(e.sub)
  BY <1>1, <1>2, NoneIsNoValue DEF Written, IInv, JobsInv, JobInv
<1>4. /\ UNCHANGED <<lastEvent, events, stripe, owner>>
      /\ IF AfterWrite(e.type) = "idle" THEN Finish(j) ELSE Goto(j, AfterWrite(e.type))
  BY <1>1, <1>3, NoneIsNoValue DEF ApplyEvent, external, emission
<1>5. \A v \in Users : v # o => ~ Matches(v, e)
  BY <1>1, <1>3, WrittenRowLemma
<1>6. Matches(o, e)
  <2>1. user[o].customer # None
    BY <1>1, <1>3 DEF LinkedInv, EventInv, Event
  <2>2. Customer(e) \in Customers /\ owner[Customer(e)] = o
    BY <1>1, <1>3, NoneIsNoValue DEF EventInv, IInv, SubsInv, SubInv, Event, Owner, Customer
  <2>3. user[o].customer \in Customers /\ owner[user[o].customer] = o
    BY <1>3, <2>1, NoneIsNoValue DEF IInv, TypeOK, User, RowsInv, RowInv
  <2> QED
    BY <2>2, <2>3, NoneIsNoValue DEF Plain, OneCustomerEach, Matches
<1>7. ASSUME NEW v \in Users, v # o PROVE user'[v] = user[v]
  BY <1>0, <1>1, <1>3, <1>5, <1>7 DEF ApplyEvent
<1>8. CASE e.type = "checkout"
  <2>1. job'[j] = IdleJob
    BY <1>0, <1>4, <1>8 DEF AfterWrite, Finish, InvoiceEventTypes
  <2>2. PICK f \in events : Newer(e, f)
    BY <1>1, <1>2, <1>8 DEF FollowedInv, Told, InHand
  <2>3. Late(o)'
    BY <1>3, <1>4, <2>2, EventOwner DEF Newer, Late
  <2>4. ASSUME NEW v \in Users, Late(v) PROVE Late(v)'
    BY <1>0, <1>2, <1>4, <1>8, <2>4, StillLate
  <2>5. TrailTold'
    BY <1>4, <1>7, <2>3, <2>4 DEF TrailHere, TrailTold
  <2>6. JobsTold'
    BY <1>0, <2>1 DEF JobsTold, Placed, Webhook, InFlight, Saving, IdleJob
  <2> QED
    BY <2>5, <2>6 DEF TrailHere
<1>9. CASE e.type # "checkout"
  <2>1. PICK p \in {"pay", "log"} : p = AfterWrite(e.type)
    BY <1>9 DEF AfterWrite
  <2>2. job' = [job EXCEPT ![j].pc = p]
    BY <1>4, <2>1 DEF Goto
  <2>3. /\ job'[j].pc = p /\ job'[j].op = e.type /\ job'[j].ev = e /\ job'[j].who = o
        /\ job'[j].seen = job[j].seen
    BY <1>0, <1>1, <1>2, <1>3, <2>2 DEF Job
  <2>4. Webhook(j)' /\ Placed(j)' /\ ~ Saving(j)'
    BY <1>2, <2>3 DEF Webhook, InFlight, Placed, Saving, Requests, WebhookTypes, InvoiceEventTypes
  <2>5. ASSUME NEW v \in Users, Late(v) PROVE Late(v)'
    BY <1>0, <1>1, <1>4, <1>9, <2>3, <2>4, <2>5, StillLate
  <2>6. Late(o)'
    <3>1. Late(o)
      BY <1>1, <1>2, <1>3, <1>9 DEF Late
    <3> QED
      BY <2>5, <3>1
  <2>7. Written(j)'
    <3>1. CASE e.type \in InvoiceEventTypes
      <4>1. user' = [user EXCEPT ![o].status = "active", ![o].isPaid = TRUE]
        BY <1>1, <1>3, <3>1 DEF ApplyEvent, InvoiceEventTypes
      <4>2. user'[o].status = "active"
        BY <1>0, <4>1 DEF User
      <4> QED
        BY <2>1, <2>3, <3>1, <4>2 DEF Written, AfterWrite
    <3>2. CASE e.type = "upsert"
      <4>1. user'[o] = UpsertRow(user[o], e, job[j].seen)
        BY <1>1, <1>6, <3>2 DEF ApplyEvent, InvoiceEventTypes
      <4>2. user'[o].status = IF KeepsStatus(e, job[j].seen) THEN user[o].status ELSE Resolved(e)
        BY <1>0, <4>1 DEF UpsertRow, User
      <4>3. EventRow(j)'.status = LoggedStatus(e, job[j].seen)
        BY <2>3, <3>2 DEF EventRow
      <4>4. job[j].seen = user[o].status
        BY <1>2, <1>3 DEF Written
      <4>5. user'[o].status = EventRow(j)'.status
        BY <4>2, <4>3, <4>4 DEF LoggedStatus
      <4>6. p = "log"
        BY <2>1, <3>2 DEF AfterWrite, InvoiceEventTypes
      <4> QED
        BY <2>3, <4>5, <4>6 DEF Written
    <3>3. CASE e.type = "deleted"
      <4>1. user'[o] = DeletedRow(user[o])
        BY <1>1, <1>6, <3>3 DEF ApplyEvent, InvoiceEventTypes
      <4>2. user'[o].status = "cancelled"
        BY <1>0, <4>1 DEF DeletedRow, User
      <4>3. EventRow(j)'.status = "cancelled"
        BY <2>3, <3>3 DEF EventRow
      <4>4. p = "log"
        BY <2>1, <3>3 DEF AfterWrite, InvoiceEventTypes
      <4> QED
        BY <2>3, <4>2, <4>3, <4>4 DEF Written
    <3>4. CASE e.type = "payment_failed"
      <4>1. user'[o] = FailedRow(user[o])
        BY <1>1, <1>6, <3>4 DEF ApplyEvent, InvoiceEventTypes
      <4>2. user'[o].status = "past_due"
        BY <1>0, <4>1 DEF FailedRow, User
      <4>3. EventRow(j)'.status = "past_due"
        BY <2>3, <3>4 DEF EventRow
      <4>4. p = "log"
        BY <2>1, <3>4 DEF AfterWrite, InvoiceEventTypes
      <4> QED
        BY <2>3, <4>2, <4>3, <4>4 DEF Written
    <3> QED
      BY <1>2, <1>9, <3>1, <3>2, <3>3, <3>4 DEF WebhookTypes
  <2>8. TrailTold'
    BY <1>4, <1>7, <2>5, <2>6 DEF TrailHere, TrailTold
  <2>9. JobsTold'
    BY <1>0, <2>4, <2>7 DEF JobsTold
  <2> QED
    BY <2>8, <2>9 DEF TrailHere
<1> QED
  BY <1>8, <1>9

\* A payment's handler goes on to its row of the trail.
LEMMA PayTrail ==
    ASSUME OneAtATime, IInv, NumbersInv, [Next]_vars, TrailHere, NEW j \in Jobs, CreatePayment(j)
    PROVE  TrailHere'
<1>0. job \in [Jobs -> Job] /\ job[j] \in Job /\ \A k \in Jobs : k = j
  BY DEF IInv, TypeOK, OneAtATime
<1>1. /\ UNCHANGED <<user, lastEvent, events>> /\ job[j].pc = "pay"
      /\ job' = [job EXCEPT ![j].pc = "log"]
      /\ job[j].op \in InvoiceEventTypes
  BY DEF CreatePayment, emission, Goto, NumbersInv, NumberInv
<1>2. /\ job'[j].pc = "log" /\ job'[j].op = job[j].op /\ job'[j].who = job[j].who
      /\ job'[j].ev = job[j].ev
  BY <1>0, <1>1 DEF Job
<1>3. Webhook(j) /\ Webhook(j)' /\ Placed(j)' /\ ~ Saving(j)' /\ job[j].op # "checkout"
  BY <1>1, <1>2 DEF Webhook, InFlight, Placed, Saving, Requests, WebhookTypes, InvoiceEventTypes
<1>4. Written(j)'
  <2>1. Written(j)
    BY <1>3 DEF TrailHere, JobsTold
  <2>2. EventRow(j)'.status = "active"
    BY <1>1, <1>2 DEF EventRow, InvoiceEventTypes
  <2> QED
    BY <1>1, <1>2, <2>1, <2>2 DEF Written
<1>5. ASSUME NEW v \in Users, Late(v) PROVE Late(v)'
  BY <1>0, <1>1, <1>2, <1>3, <1>5, StillLate
<1>6. TrailTold'
  BY <1>1, <1>5 DEF TrailHere, TrailTold
<1>7. JobsTold'
  BY <1>0, <1>3, <1>4 DEF JobsTold
<1> QED
  BY <1>6, <1>7 DEF TrailHere

\* The row a handler writes names the status of its user; that of a request will be followed.
LEMMA LogTrail ==
    ASSUME OneAtATime, IInv, NumbersInv, [Next]_vars, TrailHere, NEW j \in Jobs, CreateEventRow(j)
    PROVE  TrailHere'
<1>0. /\ job \in [Jobs -> Job] /\ job[j] \in Job /\ \A k \in Jobs : k = j
      /\ lastEvent \in [Users -> TrailRow] /\ Placed(j)
  BY DEF IInv, TypeOK, OneAtATime, TrailHere, JobsTold
<1>1. /\ UNCHANGED <<user, events, stripe, owner>> /\ job[j].pc = "log"
      /\ job'[j] = IdleJob
      /\ lastEvent' = [lastEvent EXCEPT ![job[j].who] = EventRow(j)]
  BY <1>0 DEF CreateEventRow, external, emission, Finish
<1>2. \A v \in Users : v # job[j].who => lastEvent'[v] = lastEvent[v]
  BY <1>0, <1>1
<1>3. ~ Webhook(j)' /\ Placed(j)' /\ ~ Saving(j)'
  BY <1>1 DEF IdleJob, Webhook, InFlight, Placed, Saving
<1>4. CASE job[j].op \in WebhookTypes
  <2>1. Webhook(j) /\ Written(j)
    BY <1>1, <1>4 DEF Webhook, InFlight, TrailHere, JobsTold
  <2>2. job[j].who \in Users /\ lastEvent'[job[j].who].status = user[job[j].who].status
    BY <1>0, <1>1, <2>1 DEF Written
  <2>3. job[j].who = Owner(job[j].ev.sub)
    BY <2>1, <2>2, NoneIsNoValue DEF Webhook, IInv, JobsInv, JobInv
  <2>4. ASSUME NEW v \in Users, Late(v), v # job[j].who PROVE Late(v)'
    BY <1>0, <1>1, <2>3, <2>4, StillLate
  <2>5. TrailTold'
    BY <1>1, <1>2, <2>2, <2>4 DEF TrailHere, TrailTold
  <2> QED
    BY <1>0, <1>3, <2>5 DEF TrailHere, JobsTold
<1>5. CASE job[j].op \in Requests
  <2>1. Saving(j) /\ Awaited(j) /\ ~ Webhook(j)
    BY <1>1, <1>5 DEF Saving, TrailHere, JobsTold, Webhook, Requests, WebhookTypes,
                      InvoiceEventTypes
  <2>2. ASSUME NEW v \in Users, v = job[j].who PROVE Late(v)'
    BY <1>1, <2>1, <2>2 DEF Awaited, Late, Owner
  <2>3. ASSUME NEW k \in Jobs PROVE Waits(k)
    BY <1>0, <1>1, <2>1 DEF Waits
  <2> QED
    BY <1>1, <1>2, <2>2, <2>3, TrailKept
<1> QED
  BY <1>0, <1>1, <1>4, <1>5 DEF Placed

\* As long as a completed checkout is told, so is something newer.
LEMMA FollowedLemma ==
    ASSUME IInv, FollowedInv, [Next]_vars
    PROVE  FollowedInv'
<1> SUFFICES ASSUME InOrder, NEW e \in Event, Told(e)', e.type = "checkout"
             PROVE  \E f \in events' : Newer(e, f)
  BY DEF FollowedInv, Newer
<1>1. ASSUME Told(e), events \subseteq events' PROVE \E f \in events' : Newer(e, f)
  BY <1>1 DEF FollowedInv
<1>2. ASSUME NEW j \in Jobs, Deliver(j) PROVE \E f \in events' : Newer(e, f)
  <2>1. PICK d \in events : TakesOver(j, d)
    BY <1>2, DeliverFacts
  <2>2. /\ events' = events \ {d} /\ d \in Event /\ \A f \in events : d.n <= f.n
        /\ \A k \in Jobs : ~ Webhook(k)
    BY <2>1 DEF TakesOver, Deliverable
  <2>3. e \in events
    BY <2>1, <2>2 DEF TakesOver, Told, InHand, Webhook, InFlight
  <2>4. PICK f \in events : Newer(e, f)
    BY <2>3 DEF FollowedInv, Told
  <2>5. f # d
    BY <2>2, <2>3, <2>4 DEF Newer, Event
  <2> QED
    BY <2>2, <2>4, <2>5
<1>3. ASSUME \A k \in Jobs : HandKept(k), InHand(e)' PROVE InHand(e)
  BY <1>3 DEF HandKept, InHand
<1>4. ASSUME NEW s \in Subs, NEW New, NewsOf(s, New), \A k \in Jobs : HandKept(k)
      PROVE  \E f \in events' : Newer(e, f)
  <2>1. events' = events \cup New
    BY <1>4 DEF NewsOf
  <2>2. CASE e \in New
    BY <1>4, <2>1, <2>2 DEF NewsOf
  <2>3. CASE e \notin New
    <3>1. Told(e)
      BY <1>3, <1>4, <2>1, <2>3 DEF Told
    <3> QED
      BY <1>1, <2>1, <3>1
  <2> QED
    BY <2>2, <2>3
<1>5. ASSUME Silent, \A k \in Jobs : HandKept(k) PROVE \E f \in events' : Newer(e, f)
  BY <1>1, <1>3, <1>5 DEF Silent, Told
<1> QED
  BY <1>2, <1>4, <1>5, ThreeKinds, HandsLemma

\* At the start the trail is empty and everybody is a free user.
LEMMA TrailInit == Init => TrailInv
<1> SUFFICES ASSUME Init PROVE TrailInv
  OBVIOUS
<1>1. /\ \A j \in Jobs : job[j] = IdleJob
      /\ events = {}
      /\ \A u \in Users : user[u].status = "free" /\ lastEvent[u].status = "free"
  BY DEF Init
<1>2. \A j \in Jobs : ~ Webhook(j) /\ ~ Saving(j) /\ Placed(j)
  BY <1>1 DEF IdleJob, Webhook, InFlight, Saving, Placed
<1> QED
  BY <1>1, <1>2 DEF TrailInv, FollowedInv, Told, InHand, TrailHere, TrailTold, JobsTold

\* The trail is complete, or an event is on its way, in every reachable state.
THEOREM TrailInvariance == Spec => []TrailInv
<1>1. IInv /\ PaymentInv /\ TrailInv /\ [Next]_vars => TrailInv'
  <2> SUFFICES ASSUME IInv, PaymentInv, TrailInv, [Next]_vars PROVE TrailInv'
    OBVIOUS
  <2>1. FollowedInv /\ FollowedInv' /\ LinkedInv /\ NumbersInv
    BY FollowedLemma DEF TrailInv, PaymentInv
  <2> SUFFICES ASSUME InOrder, OneAtATime, Plain' PROVE TrailHere'
    BY <2>1 DEF TrailInv
  <2>2. Plain /\ TrailHere
    BY PlainBack DEF TrailInv
  <2>3. ASSUME NEW u \in Users, AdminGrant(u) \/ AdminRevoke(u) PROVE FALSE
    BY <2>3 DEF AdminGrant, AdminRevoke, Plain, IInv, TypeOK
  <2> QED
    BY <2>1, <2>2, <2>3, StripeTrail, RequestTrail, DeliverTrail, ApplyTrail, PayTrail, LogTrail
    DEF Next, WriteStep
<1> QED
  BY <1>1, TrailInit, Invariance, PaymentInvariance, PTL DEF Spec

\* When requests and webhooks do not overlap and Stripe delivers in order, the newest row of the
\* trail names every account's status as soon as all is handled, whatever fails or is repeated
\* between the write of the row and that of the trail (the handlers' subscriptionEvent.create).
THEOREM ToldTrail ==
    ASSUME InOrder, OneAtATime
    PROVE  Spec => [](Plain => TrailAgreesAtRest)
<1>1. TrailInv => (Plain => TrailAgreesAtRest)
  BY DEF TrailInv, TrailHere, TrailTold, Late, TrailAgreesAtRest, AtRest, Webhook
<1> QED
  BY <1>1, TrailInvariance, PTL

=============================================================================
