------------------------------ MODULE Billing ------------------------------
(***************************************************************************)
(* One organization and its Stripe account: checkout requests that find or *)
(* create the Stripe customer and the Subscription row, the subscriptions  *)
(* Stripe keeps for that customer, and the webhook that copies them into   *)
(* the row (services/billing.service.ts).                                  *)
(*                                                                         *)
(* Each await of a request is a step.  A webhook handler is one step here: *)
(* its only write to the row is one updateMany; the cache invalidation     *)
(* that follows is the subject of SubscriptionCache.                       *)
(*                                                                         *)
(* Stripe promises neither the order of its events nor that each comes     *)
(* once: any event may be handled at any time, and again later.            *)
(***************************************************************************)
EXTENDS Integers

CONSTANTS
    Requests,       \* calls of createCheckoutSession, one shot each
    Customers,      \* Stripe customer ids
    Subs,           \* Stripe subscription ids
    Plans,          \* plans that can be bought
    MaxEvents,      \* bound on the events Stripe emits
    NoRow, NoId     \* no Subscription row; a null id

ASSUME BoundAssumption == MaxEvents \in Nat
ASSUME NullAssumption == NoId \notin Customers \cup Subs

VARIABLES
    row,            \* the organization's Subscription row, or NoRow
    created,        \* the customers that exist at Stripe
    req,            \* [Requests -> the state of a checkout request]
    stripe,         \* [Subs -> the subscription as Stripe knows it]
    events,         \* webhook events without a 2xx answer yet
    sent,           \* number of events emitted so far
    \* history, for the properties only
    overlapped,     \* two subscriptions were current at once
    last,           \* number of the event handled last
    heard           \* [Subs -> number of its youngest event handled so far]

vars == <<row, created, req, stripe, events, sent, overlapped, last, heard>>
webhook == <<events, last, heard>>

LiveStatuses == {"active", "trialing", "past_due"}
SyncStatuses == {"incomplete", "active", "past_due"}
Rows == [cust : Customers, sub : Subs \cup {NoId},
         status : SyncStatuses \cup {"inactive", "canceled"},
         plan : Plans \cup {"free"}]
ASSUME RowAssumption == NoRow \notin Rows
Requested == [pc : {"idle", "create", "insert", "session", "open", "paid", "failed"},
              cust : Customers \cup {NoId}, plan : Plans]
Subscriptions == [status : SyncStatuses \cup {"none", "canceled"},
                  cust : Customers \cup {NoId}, plan : Plans \cup {"free"}]
Events == [n : 1..MaxEvents, deleted : BOOLEAN, sub : Subs, cust : Customers,
           status : SyncStatuses \cup {"canceled"}, plan : Plans \cup {"free"}]

TypeOK ==
    /\ row \in Rows \cup {NoRow}
    /\ created \in SUBSET Customers
    /\ req \in [Requests -> Requested]
    /\ stripe \in [Subs -> Subscriptions]
    /\ events \in SUBSET Events
    /\ sent \in 0..MaxEvents
    /\ overlapped \in BOOLEAN
    /\ last \in 0..MaxEvents
    /\ heard \in [Subs -> 0..MaxEvents]

Init ==
    /\ row = NoRow
    /\ created = {}
    /\ req \in [Requests -> {[pc |-> "idle", cust |-> NoId, plan |-> p] : p \in Plans}]
    /\ stripe = [s \in Subs |-> [status |-> "none", cust |-> NoId, plan |-> "free"]]
    /\ events = {}
    /\ sent = 0
    /\ overlapped = FALSE
    /\ last = 0
    /\ heard = [s \in Subs |-> 0]

-----------------------------------------------------------------------------
(***************************************************************************)
(* createCheckoutSession and getOrCreateCustomer.                          *)
(***************************************************************************)
Advance(r, from, to, cust) ==
    /\ req[r].pc = from
    /\ req' = [req EXCEPT ![r].pc = to, ![r].cust = cust]
    /\ UNCHANGED <<stripe, webhook, sent, overlapped>>

FindCustomer(r) ==
    /\ row # NoRow
    /\ Advance(r, "idle", "session", row.cust)
    /\ UNCHANGED <<row, created>>

NoCustomerYet(r) ==
    /\ row = NoRow
    /\ Advance(r, "idle", "create", NoId)
    /\ UNCHANGED <<row, created>>

CreateCustomer(r) ==
    \E c \in Customers \ created :
        /\ Advance(r, "create", "insert", c)
        /\ created' = created \cup {c}
        /\ UNCHANGED row

\* Mutant: an upsert, the last request to get here names the customer.
UpsertRow(r) ==
    /\ Advance(r, "insert", "session", req[r].cust)
    /\ row' = [cust |-> req[r].cust, sub |-> NoId, status |-> "inactive", plan |-> "free"]
    /\ UNCHANGED created

InsertRow(r) ==
    /\ row = NoRow
    /\ Advance(r, "insert", "session", req[r].cust)
    /\ row' = [cust |-> req[r].cust, sub |-> NoId, status |-> "inactive", plan |-> "free"]
    /\ UNCHANGED created

\* organizationId is unique: the loser of the race gets P2002 and its request
\* ends there, leaving a customer at Stripe that no row names.
InsertConflict(r) ==
    /\ row # NoRow
    /\ Advance(r, "insert", "failed", req[r].cust)
    /\ UNCHANGED <<row, created>>

CreateSession(r) ==
    /\ Advance(r, "session", "open", req[r].cust)
    /\ UNCHANGED <<row, created>>

\* Stripe or the database fails, or the process dies, between two steps.
RequestFails(r) ==
    /\ \/ Advance(r, "create", "failed", req[r].cust)
       \/ Advance(r, "insert", "failed", req[r].cust)
       \/ Advance(r, "session", "failed", req[r].cust)
    /\ UNCHANGED <<row, created>>

Checkout(r) ==
    \/ FindCustomer(r) \/ NoCustomerYet(r) \/ CreateCustomer(r) \/ InsertRow(r)
    \/ InsertConflict(r) \/ CreateSession(r) \/ RequestFails(r)

-----------------------------------------------------------------------------
(***************************************************************************)
(* Stripe.  Every change of a subscription emits an event that carries a   *)
(* snapshot of it, with the plan of the session's metadata.                *)
(***************************************************************************)
Current == {s \in Subs : stripe[s].status \notin {"none", "canceled"}}

Changed(s, sub) ==
    /\ sent < MaxEvents
    /\ sent' = sent + 1
    /\ stripe' = [stripe EXCEPT ![s] = sub]
    /\ events' = events \cup
         {[n |-> sent + 1, deleted |-> sub.status = "canceled", sub |-> s,
           cust |-> sub.cust, status |-> sub.status, plan |-> sub.plan]}
    /\ UNCHANGED <<row, created, last, heard>>

\* The customer pays an open session.  Nothing stops a second subscription:
\* createCheckoutSession does not look at the one the organization has.
CompleteCheckout(r, s, status) ==
    /\ req[r].pc = "open"
    /\ req' = [req EXCEPT ![r].pc = "paid"]
    /\ stripe[s].status = "none"
    /\ Changed(s, [status |-> status, cust |-> req[r].cust, plan |-> req[r].plan])
    /\ overlapped' = (overlapped \/ Current # {})

UpdateSubscription(s, status) ==
    /\ s \in Current
    /\ stripe[s].status # status
    /\ status = "past_due" => stripe[s].status = "active"
    /\ Changed(s, [stripe[s] EXCEPT !.status = status])
    /\ UNCHANGED <<req, overlapped>>

CancelSubscription(s) ==
    /\ s \in Current
    /\ Changed(s, [stripe[s] EXCEPT !.status = "canceled"])
    /\ UNCHANGED <<req, overlapped>>

-----------------------------------------------------------------------------
(***************************************************************************)
(* handleWebhookEvent.                                                     *)
(***************************************************************************)
\* Mutant: a deletion only records that the subscription ends.
SyncedButNotReset(e) ==
    IF row = NoRow \/ row.cust # e.cust \/ e.deleted THEN row
    ELSE [row EXCEPT !.sub = e.sub, !.status = e.status, !.plan = e.plan]

\* Mutant: the row takes whatever Stripe calls the event.
SyncedWithEventName(e) ==
    IF row = NoRow \/ row.cust # e.cust THEN row
    ELSE [row EXCEPT !.sub = e.sub, !.plan = e.plan,
                     !.status = IF e.deleted THEN "deleted" ELSE e.status]

\* Mutant: only the first event of a subscription is copied, not its updates.
SyncedOnce(e) ==
    IF row = NoRow \/ row.cust # e.cust \/ (~e.deleted /\ row.sub = e.sub) THEN row
    ELSE IF e.deleted
         THEN [row EXCEPT !.sub = NoId, !.status = "canceled", !.plan = "free"]
         ELSE [row EXCEPT !.sub = e.sub, !.status = e.status, !.plan = e.plan]

\* syncSubscription, or handleSubscriptionDeleted: updateMany by customer id,
\* whatever subscription and state the row holds.
Synced(e) ==
    IF row = NoRow \/ row.cust # e.cust THEN row
    ELSE IF e.deleted
         THEN [row EXCEPT !.sub = NoId, !.status = "canceled", !.plan = "free"]
         ELSE [row EXCEPT !.sub = e.sub, !.status = e.status, !.plan = e.plan]

\* Handlers may run at once: what counts is the order of their only write.
Handle(e) ==
    /\ row' = Synced(e)
    /\ last' = e.n
    /\ heard' = [heard EXCEPT ![e.sub] = IF @ < e.n THEN e.n ELSE @]
    /\ UNCHANGED <<created, req, stripe, sent, overlapped>>

HandleEvent(e) ==
    /\ Handle(e)
    /\ events' = events \ {e}

\* The row is written but the answer is not a 200, or is lost, or Stripe sends
\* the event twice: it will be handled again, whatever is handled before that.
HandleEventAgain(e) ==
    /\ Handle(e)
    /\ UNCHANGED events

Next ==
    \/ \E r \in Requests : Checkout(r)
    \/ \E r \in Requests, s \in Subs, status \in SyncStatuses \ {"past_due"} :
         CompleteCheckout(r, s, status)
    \/ \E s \in Subs, status \in SyncStatuses \ {"incomplete"} :
         UpdateSubscription(s, status)
    \/ \E s \in Subs : CancelSubscription(s)
    \/ \E e \in events : HandleEvent(e) \/ HandleEventAgain(e)

Spec == Init /\ [][Next]_vars

-----------------------------------------------------------------------------
(***************************************************************************)
(* Properties.                                                             *)
(***************************************************************************)
OfRow(cust) == row # NoRow /\ row.cust = cust

\* However checkout requests race to create the customer, whatever can be
\* paid, is paid, or is reported to the webhook belongs to the customer the
\* row names: no payment goes to a customer the application has forgotten and
\* no event misses its row (getOrCreateCustomer, syncSubscription).
CustomerAgreement ==
    /\ \A r \in Requests : req[r].pc \in {"session", "open"} => OfRow(req[r].cust)
    /\ \A s \in Subs : stripe[s].status # "none" => OfRow(stripe[s].cust)
    /\ \A e \in events : OfRow(e.cust)

MirrorsStripe ==
    /\ \A s \in Current :
         /\ row # NoRow
         /\ row.sub = s /\ row.status = stripe[s].status /\ row.plan = stripe[s].plan
    /\ Current = {} /\ row # NoRow => row.status \in {"inactive", "canceled"}

\* The row is the organization's one current subscription, or says there is
\* none, whenever the youngest event is the one handled last, in whatever order
\* and however often the others were.  So the row disagrees with Stripe for
\* three reasons only: the youngest event has not been handled, an older one was
\* handled after it, or two subscriptions were current at once.
RowConverges == last = sent /\ ~overlapped => MirrorsStripe

Entitled == row # NoRow /\ row.status \in LiveStatuses

\* The row goes on entitling on the strength of a subscription that is over only
\* while the event that says so is on its way, or after an older event of that
\* subscription was handled late, or again, and took the reset back.
NoServiceAfterCancellation ==
    Entitled =>
        \/ row.sub \in Current
        \/ \E e \in events : e.deleted /\ e.sub = row.sub
        \/ last < heard[row.sub]

\* Claimed by subscription.service.ts:4 ("the Subscription row (kept current
\* by the Stripe webhook)", the "source of truth for is this org paid up?").
\* False in two ways.  Even when the youngest event was handled last: once a
\* second checkout was paid, the end of either subscription resets the row
\* although the other goes on.
RowKeptCurrent ==
    last = sent => (Entitled <=> \E s \in Current : stripe[s].status \in LiveStatuses)

\* And even with one subscription and every event handled: syncSubscription does
\* not look at the age of the snapshot it copies.
RowSettles == events = {} /\ ~overlapped => MirrorsStripe
=============================================================================
