----------------------------- MODULE BillingPage -----------------------------
(***************************************************************************)
(* The billing page of one organization (pages/billing/BillingPage.tsx):   *)
(* the overview it fetches in two reads, Checkout and the customer portal  *)
(* it leaves for and comes back from, and, against the clock, the billing  *)
(* period its metered usage is counted in (services/metering.service.ts).  *)
(*                                                                         *)
(* The row is what Billing keeps, without the customer.  As there, events  *)
(* may be handled at any time, in any order and any number of times.  One  *)
(* page in detail, others of the organization subscribe too.  Left out:    *)
(* the invoices, the counts of members and projects, prices.               *)
(*                                                                         *)
(* The clock counts half days, so that midnight and noon of a day differ:  *)
(* a month is MonthLength of them, the last two its last day.              *)
(*                                                                         *)
(* The definitions that every module has (Init, Next, ...) carry the       *)
(* page's name, so that another page's module can be extended with this.   *)
(***************************************************************************)
EXTENDS Integers, FiniteSets

CONSTANTS
    Subs,           \* Stripe subscription ids
    Null,           \* null
    MonthLength,    \* half days of a calendar month
    Period,         \* half days of a billing period
    MaxTime,        \* bound on the clock
    MaxEvents,      \* bound on the events Stripe emits
    MaxRecords      \* bound on the usage records

ASSUME TimeAssumption == MonthLength \in Nat \ {0, 1} /\ Period \in Nat \ {0} /\ MaxTime \in Nat
ASSUME BoundAssumption == MaxEvents \in Nat /\ MaxRecords \in Nat
ASSUME NullAssumption == Null \notin Subs \cup Int

VARIABLES
    now,            \* the clock
    stripe,         \* [Subs -> the subscription as Stripe knows it]
    events,         \* the webhook events so far, each of which may be delivered
    sent,           \* number of them
    row,            \* the organization's Subscription row
    place,          \* where the page's visitor is
    view,           \* the overview on the page, or Null
    read,           \* an overview request: the two reads
    paying,         \* the page's checkout request
    records,        \* times of the usage records
    \* history, for the properties only
    told,           \* subscriptions the webhook has heard of
    crossed,        \* one subscription's event overwrote the row of another
    last,           \* number of the event handled last
    news            \* the row was written since the overview's first read

stripeVars == <<stripe, events, sent>>
heardVars == <<told, crossed, last>>
pageVars == <<now, stripeVars, row, place, view, read, paying, records, heardVars, news>>
elsewhere == <<now, stripeVars, row, records, heardVars, news>>

Times == 0 .. MaxTime + Period
SubStatuses == {"active", "past_due", "canceled"}
Rows == [sub : Subs \cup {Null}, status : SubStatuses \cup {"inactive"}, plan : {"free", "pro"},
         start : Times \cup {Null}, end : Times \cup {Null}]
\* n: the number of the event, of a subscription's youngest one (0: none).
Stripes == [n : 0..MaxEvents, status : SubStatuses \cup {"none"}, start : Times, end : Times]
Events == [n : 1..MaxEvents, sub : Subs, status : SubStatuses, start : Times, end : Times]
Views == [sub : Subs \cup {Null}, status : SubStatuses \cup {"inactive"}, plan : {"free", "pro"},
          limits : {"free", "pro"}, told : SUBSET Subs, crossed : BOOLEAN, torn : BOOLEAN]

PageTypeOK ==
    /\ now \in 0..MaxTime
    /\ stripe \in [Subs -> Stripes]
    /\ events \subseteq Events /\ sent \in 0..MaxEvents
    /\ row \in Rows
    /\ place \in {"page", "checkout", "portal"}
    /\ view \in Views \cup {Null}
    /\ read \in [left : SUBSET {"subscription", "usage"}, asked : BOOLEAN, got : Views]
    /\ paying \in BOOLEAN
    /\ records \subseteq 0..MaxTime
    /\ told \subseteq Subs /\ crossed \in BOOLEAN /\ last \in 0..MaxEvents
    /\ news \in BOOLEAN

NoRead == [left |-> {}, asked |-> FALSE,
           got |-> [sub |-> Null, status |-> "inactive", plan |-> "free", limits |-> "free",
                    told |-> {}, crossed |-> FALSE, torn |-> FALSE]]
Loading == [NoRead EXCEPT !.left = {"subscription", "usage"}, !.asked = TRUE]

Running(s) == stripe[s].status \in {"active", "past_due"}

PageInit ==
    /\ now = 0
    /\ stripe = [s \in Subs |-> [n |-> 0, status |-> "none", start |-> 0, end |-> 0]]
    /\ events = {} /\ sent = 0
    /\ row = [sub |-> Null, status |-> "inactive", plan |-> "free", start |-> Null, end |-> Null]
    /\ place = "page" /\ view = Null /\ read = Loading
    /\ paying = FALSE
    /\ records = {}
    /\ told = {} /\ crossed = FALSE /\ last = 0 /\ news = FALSE

-----------------------------------------------------------------------------
(***************************************************************************)
(* Stripe, and the webhook.                                                *)
(***************************************************************************)
Emit(s, status, start, end) ==
    /\ sent < MaxEvents
    /\ sent' = sent + 1
    /\ stripe' = [stripe EXCEPT ![s] =
                    [n |-> sent + 1, status |-> status, start |-> start, end |-> end]]
    /\ events' = events \cup
         {[n |-> sent + 1, sub |-> s, status |-> status, start |-> start, end |-> end]}

\* A period ends: the next begins, paid for or not, or the subscription ends.
Renew(s, status) ==
    /\ Running(s) /\ stripe[s].end = now
    /\ IF status = "canceled" THEN Emit(s, status, stripe[s].start, stripe[s].end)
                              ELSE Emit(s, status, now, now + Period)
    /\ UNCHANGED <<now, row, place, view, read, paying, records, heardVars, news>>

\* Within a period: a late payment, or a cancellation that takes effect at once.
Change(s, status) ==
    /\ \/ stripe[s].status = "past_due" /\ status = "active"
       \/ Running(s) /\ status = "canceled"
    /\ Emit(s, status, stripe[s].start, stripe[s].end)
    /\ UNCHANGED <<now, row, place, view, read, paying, records, heardVars, news>>

\* Renewals are on time.
Tick ==
    /\ now < MaxTime
    /\ \A s \in Subs : Running(s) => stripe[s].end > now
    /\ now' = now + 1
    /\ UNCHANGED <<stripeVars, row, place, view, read, paying, records, heardVars, news>>

\* Mutant: the period is stored when a subscription is first heard of only.
SyncedPeriodOnce(e) ==
    [sub |-> e.sub, status |-> e.status, plan |-> "pro",
     start |-> IF row.sub = e.sub THEN row.start ELSE e.start,
     end |-> IF row.sub = e.sub THEN row.end ELSE e.end]

\* Mutant: the event's own name for a plan is stored, which PLANS does not know.
SyncedStatusAsPlan(e) ==
    [sub |-> e.sub, status |-> e.status, plan |-> e.status, start |-> e.start, end |-> e.end]

Synced(e) ==
    [sub |-> e.sub, status |-> e.status, plan |-> "pro", start |-> e.start, end |-> e.end]

\* The period stays in the row.
Deleted == [row EXCEPT !.sub = Null, !.status = "canceled", !.plan = "free"]

\* Whatever was handled before: an event may be late, or delivered again.
HandleWebhookEvent(e) ==
    /\ row' = IF e.status = "canceled" THEN Deleted ELSE Synced(e)
    /\ told' = told \cup {e.sub}
    /\ crossed' = (crossed \/ row.sub \notin {Null, e.sub})
    /\ last' = e.n
    /\ news' = TRUE
    /\ UNCHANGED <<now, stripeVars, place, view, read, paying, records>>

\* Another owner or admin of the organization subscribes.
OthersSubscribe(s) ==
    /\ stripe[s].status = "none"
    /\ Emit(s, "active", now, now + Period)
    /\ UNCHANGED <<now, row, place, view, read, paying, records, heardVars, news>>

-----------------------------------------------------------------------------
(***************************************************************************)
(* The page.  The overview is fetched when the page is loaded or opened;   *)
(* its two reads of the row run at once, and either may be first.          *)
(***************************************************************************)
OpenPage ==
    /\ place = "page" /\ ~read.asked
    /\ read' = Loading
    /\ news' = FALSE
    /\ UNCHANGED <<now, stripeVars, row, place, view, paying, records, heardVars>>

FirstRead == read.left = {"subscription", "usage"}

GetSubscription ==
    /\ "subscription" \in read.left
    /\ read' = [read EXCEPT !.left = @ \ {"subscription"},
         !.got = [read.got EXCEPT !.sub = row.sub, !.status = row.status, !.plan = row.plan,
                                  !.told = told, !.crossed = crossed,
                                  !.torn = ~FirstRead /\ news]]
    /\ news' = (news /\ ~FirstRead)
    /\ UNCHANGED <<now, stripeVars, row, place, view, paying, records, heardVars>>

\* Mutant: the limits of a plan are those of one that is paid for.
GetPlanUsageIfPaid ==
    /\ "usage" \in read.left
    /\ read' = [read EXCEPT !.left = @ \ {"usage"},
         !.got = [read.got EXCEPT !.limits = IF row.status = "active" THEN row.plan ELSE "free",
                                  !.torn = ~FirstRead /\ news]]
    /\ news' = (news /\ ~FirstRead)
    /\ UNCHANGED <<now, stripeVars, row, place, view, paying, records, heardVars>>

GetPlanUsage ==
    /\ "usage" \in read.left
    /\ read' = [read EXCEPT !.left = @ \ {"usage"},
         !.got = [read.got EXCEPT !.limits = row.plan, !.torn = ~FirstRead /\ news]]
    /\ news' = (news /\ ~FirstRead)
    /\ UNCHANGED <<now, stripeVars, row, place, view, paying, records, heardVars>>

ShowOverview ==
    /\ read.asked /\ read.left = {}
    /\ view' = read.got
    /\ read' = NoRead
    /\ UNCHANGED <<elsewhere, place, paying>>

\* An alert takes the page's place: nothing is offered.
OverviewFails ==
    /\ read.asked
    /\ view' = Null
    /\ read' = NoRead
    /\ UNCHANGED <<elsewhere, place, paying>>

\* Mutant: whoever has not paid is offered a subscription.
IsFreePlanUnlessActive(v) == v.status # "active"

IsFreePlan(v) == v.sub = Null

UpgradeToPro ==
    /\ place = "page" /\ view # Null /\ ~paying
    /\ IsFreePlan(view)
    /\ paying' = TRUE
    /\ UNCHANGED <<elsewhere, place, view, read>>

CheckoutFails ==
    /\ paying
    /\ paying' = FALSE
    /\ UNCHANGED <<elsewhere, place, view, read>>

\* window.location.href: whatever the page holds is gone.
Leave(destination) ==
    /\ place' = destination
    /\ view' = Null
    /\ read' = NoRead
    /\ paying' = FALSE

\* The server's part, customer and Checkout session, is in steps in Billing.
GoToCheckout ==
    /\ paying
    /\ Leave("checkout")
    /\ UNCHANGED elsewhere

\* The portal's answer sends the browser there; a failure changes nothing.
ManageSubscription ==
    /\ place = "page" /\ view # Null
    /\ ~IsFreePlan(view)
    /\ Leave("portal")
    /\ UNCHANGED elsewhere

Return ==
    /\ place # "page"
    /\ place' = "page"
    /\ read' = Loading
    /\ news' = FALSE
    /\ UNCHANGED <<now, stripeVars, row, view, paying, records, heardVars>>

\* ?success=true: the browser is usually back before the event is handled.
Pay(s) ==
    /\ place = "checkout" /\ stripe[s].status = "none"
    /\ Emit(s, "active", now, now + Period)
    /\ place' = "page"
    /\ read' = Loading
    /\ news' = FALSE
    /\ UNCHANGED <<now, row, view, paying, records, heardVars>>

-----------------------------------------------------------------------------
(***************************************************************************)
(* Metering.  The default period ends when the month's last day begins.    *)
(***************************************************************************)
Month(t) == t - (t % MonthLength)
LastMidnight(t) == Month(t) + MonthLength - 2

PeriodStart == IF row.start # Null THEN row.start ELSE Month(now)
PeriodEnd == IF row.end # Null THEN row.end ELSE LastMidnight(now)

Counted(t) == PeriodStart <= t /\ t <= PeriodEnd

RecordUsage ==
    /\ now \notin records /\ Cardinality(records) < MaxRecords
    /\ records' = records \cup {now}
    /\ UNCHANGED <<now, stripeVars, row, place, view, read, paying, heardVars, news>>

PageNext ==
    \/ Tick \/ \E e \in events : HandleWebhookEvent(e)
    \/ \E s \in Subs : OthersSubscribe(s) \/ Pay(s)
    \/ \E s \in Subs, status \in SubStatuses : Renew(s, status) \/ Change(s, status)
    \/ OpenPage \/ GetSubscription \/ GetPlanUsage \/ ShowOverview \/ OverviewFails
    \/ UpgradeToPro \/ CheckoutFails \/ GoToCheckout
    \/ ManageSubscription \/ Return
    \/ RecordUsage

PageSpec == PageInit /\ [][PageNext]_pageVars

-----------------------------------------------------------------------------
(***************************************************************************)
(* Properties.                                                             *)
(***************************************************************************)

\* The page offers a subscription to an organization that has one only while
\* it cannot know: the overview was read before the webhook heard of it, or
\* events of two subscriptions, current at once or handled late, have crossed in
\* the row.
OfferExplained ==
    view # Null /\ IsFreePlan(view) =>
        \A s \in Subs : Running(s) => s \notin view.told \/ view.crossed

\* The plan the page names and the limits it shows come from two reads of the
\* row; they are of one plan unless the webhook wrote between the two.
OverviewAgrees ==
    view # Null /\ ~view.torn => view.limits = view.plan

Follows(s) == Running(s) /\ row.sub = s /\ last = stripe[s].n

\* The total that would be shown now is exactly the usage of the period that is
\* running, whenever the youngest event of the running subscription is the one
\* handled last.  (An older one, handled late or again, puts an earlier period
\* back, and what is used then is in no total.)  Without a subscription so far
\* it is the usage of the month up to the moment its last day begins: what the
\* last day uses is in no total, nor is anything once a subscription has ended.
UsageIsCounted ==
    \A t \in records :
        /\ \A s \in Subs : Follows(s) => (Counted(t) <=> stripe[s].start <= t)
        /\ row.start = Null =>
             (Counted(t) <=> Month(t) = Month(now) /\ t <= LastMidnight(t))
=============================================================================
