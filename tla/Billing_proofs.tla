--------------------------- MODULE Billing_proofs ---------------------------
(***************************************************************************)
(* Proofs about Billing, for any number of requests, customers,            *)
(* subscriptions and events, in whatever order and however often events    *)
(* are handled: type correctness, that every payment and every event       *)
(* belongs to the customer of the row, when a canceled subscription may go *)
(* on entitling, and when the row is what Stripe knows.                    *)
(***************************************************************************)
EXTENDS Billing, TLAPS

USE BoundAssumption, NullAssumption

-----------------------------------------------------------------------------
\* The inductive form of the types: a request that holds a customer has one.
Held == \A r \in Requests :
    req[r].pc \in {"insert", "session", "open"} => req[r].cust \in Customers

Known == \A s \in Subs :
    stripe[s].status # "none" => stripe[s].cust \in Customers

TypeInv == TypeOK /\ Held /\ Known

LEMMA CheckoutType ==
    ASSUME TypeInv, NEW r \in Requests, Checkout(r) PROVE TypeInv'
<1> USE DEF TypeInv, TypeOK, Held, Known, Advance, webhook, Requested
<1>1. CASE FindCustomer(r)
  BY <1>1 DEF FindCustomer, Rows
<1>2. CASE NoCustomerYet(r)
  BY <1>2 DEF NoCustomerYet
<1>3. CASE CreateCustomer(r)
  <2>1. PICK c \in Customers : /\ created' = created \cup {c}
                              /\ req' = [req EXCEPT ![r].pc = "insert", ![r].cust = c]
    BY <1>3 DEF CreateCustomer
  <2>2. [req[r] EXCEPT !.pc = "insert", !.cust = c] \in Requested
    <3>1. req[r] \in Requested /\ c \in Customers
      BY <2>1
    <3>2. QED
      BY ONLY <3>1 DEF Requested
  <2>3. req' = [req EXCEPT ![r] = [req[r] EXCEPT !.pc = "insert", !.cust = c]]
    BY <2>1
  <2>4. req' \in [Requests -> Requested]
    BY <2>2, <2>3
  <2>5. Held'
    BY <2>1
  <2>6. QED
    BY <1>3, <2>1, <2>4, <2>5 DEF CreateCustomer
<1>4. CASE InsertRow(r)
  BY <1>4 DEF InsertRow, Rows
<1>5. CASE InsertConflict(r) \/ CreateSession(r) \/ RequestFails(r)
  BY <1>5 DEF InsertConflict, CreateSession, RequestFails
<1>6. QED
  BY <1>1, <1>2, <1>3, <1>4, <1>5 DEF Checkout

LEMMA ChangedType ==
    ASSUME TypeInv, NEW s \in Subs, NEW sub \in Subscriptions, Changed(s, sub),
           sub.cust \in Customers, sub.status # "none"
    PROVE  /\ UNCHANGED <<row, created>> /\ sent' \in 0..MaxEvents
           /\ stripe' \in [Subs -> Subscriptions] /\ events' \in SUBSET Events
           /\ Known' /\ UNCHANGED <<last, heard>>
<1>1. sent' \in 0..MaxEvents /\ sent + 1 \in 1..MaxEvents
  BY DEF TypeInv, TypeOK, Changed
<1>2. [n |-> sent + 1, deleted |-> sub.status = "canceled", sub |-> s,
       cust |-> sub.cust, status |-> sub.status, plan |-> sub.plan] \in Events
  BY <1>1 DEF Events, Subscriptions
<1>3. QED
  BY <1>1, <1>2 DEF TypeInv, TypeOK, Known, Changed

LEMMA StripeType ==
    ASSUME TypeInv, NEW s \in Subs,
           \/ \E r \in Requests, status \in SyncStatuses : CompleteCheckout(r, s, status)
           \/ \E status \in SyncStatuses : UpdateSubscription(s, status)
           \/ CancelSubscription(s)
    PROVE  TypeInv'
<1>1. ASSUME NEW r \in Requests, NEW status \in SyncStatuses,
             CompleteCheckout(r, s, status)
      PROVE  TypeInv'
  <2> DEFINE sub == [status |-> status, cust |-> req[r].cust, plan |-> req[r].plan]
  <2>1. sub \in Subscriptions /\ sub.cust \in Customers /\ sub.status # "none"
    BY <1>1 DEF CompleteCheckout, TypeInv, TypeOK, Held, Requested, Subscriptions,
                SyncStatuses
  <2>2. Changed(s, sub)
    BY <1>1 DEF CompleteCheckout
  <2>3. req' \in [Requests -> Requested] /\ Held' /\ overlapped' \in BOOLEAN
    BY <1>1 DEF CompleteCheckout, TypeInv, TypeOK, Held, Requested
  <2> HIDE DEF sub
  <2>4. QED
    BY <2>1, <2>2, <2>3, ChangedType DEF TypeInv, TypeOK
<1>2. ASSUME NEW status \in SyncStatuses \cup {"canceled"}, s \in Current,
             Changed(s, [stripe[s] EXCEPT !.status = status]),
             UNCHANGED <<req, overlapped>>
      PROVE  TypeInv'
  <2> DEFINE sub == [stripe[s] EXCEPT !.status = status]
  <2>1. sub \in Subscriptions /\ sub.cust \in Customers /\ sub.status # "none"
    BY <1>2 DEF Current, TypeInv, TypeOK, Known, Subscriptions, SyncStatuses
  <2>2. Changed(s, sub)
    BY <1>2
  <2> HIDE DEF sub
  <2>3. QED
    BY <1>2, <2>1, <2>2, ChangedType DEF TypeInv, TypeOK, Held
<1>3. QED
  BY <1>1, <1>2 DEF UpdateSubscription, CancelSubscription

LEMMA SyncedType ==
    ASSUME TypeInv, NEW e \in events PROVE Synced(e) \in Rows \cup {NoRow}
<1>1. e \in Events
  BY DEF TypeInv, TypeOK
<1>2. CASE row = NoRow \/ row.cust # e.cust
  BY <1>2 DEF Synced, TypeInv, TypeOK
<1>3. CASE ~(row = NoRow \/ row.cust # e.cust)
  <2>1. row \in Rows
    BY <1>3 DEF TypeInv, TypeOK
  <2>2. QED
    BY <1>1, <1>3, <2>1 DEF Synced, Rows, Events
<1>4. QED
  BY <1>2, <1>3

LEMMA NextType == TypeInv /\ [Next]_vars => TypeInv'
<1> SUFFICES ASSUME TypeInv, [Next]_vars PROVE TypeInv'
  OBVIOUS
<1>1. ASSUME NEW r \in Requests, Checkout(r) PROVE TypeInv'
  BY <1>1, CheckoutType
<1>2. CASE \E s \in Subs :
             \/ \E r \in Requests, status \in SyncStatuses \ {"past_due"} :
                  CompleteCheckout(r, s, status)
             \/ \E status \in SyncStatuses \ {"incomplete"} : UpdateSubscription(s, status)
             \/ CancelSubscription(s)
  BY <1>2, StripeType
<1>3. ASSUME NEW e \in events, HandleEvent(e) \/ HandleEventAgain(e) PROVE TypeInv'
  <2>1. Handle(e) /\ e \in Events
    BY <1>3 DEF HandleEvent, HandleEventAgain, TypeInv, TypeOK
  <2>2. events' \in SUBSET Events
    BY <1>3 DEF HandleEvent, HandleEventAgain, TypeInv, TypeOK
  <2>3. last' \in 0..MaxEvents /\ heard' \in [Subs -> 0..MaxEvents]
    BY <2>1 DEF Handle, Events, TypeInv, TypeOK
  <2>4. QED
    BY <2>1, <2>2, <2>3, SyncedType DEF Handle, TypeInv, TypeOK, Held, Known
<1>4. CASE UNCHANGED vars
  BY <1>4 DEF vars, TypeInv, TypeOK, Held, Known
<1>5. QED
  BY <1>1, <1>2, <1>3, <1>4 DEF Next

LEMMA InitType == Init => TypeInv
<1> SUFFICES ASSUME Init PROVE TypeInv
  OBVIOUS
<1>1. req \in [Requests -> Requested] /\ Held
  <2>1. \A p \in Plans : [pc |-> "idle", cust |-> NoId, plan |-> p] \in Requested
    BY DEF Requested
  <2>2. \A r \in Requests : \E p \in Plans : req[r] = [pc |-> "idle", cust |-> NoId, plan |-> p]
    BY DEF Init
  <2>3. QED
    BY <2>1, <2>2 DEF Init, Held
<1>2. stripe \in [Subs -> Subscriptions] /\ Known
  BY DEF Init, Subscriptions, Known
<1>3. row \in Rows \cup {NoRow} /\ created \in SUBSET Customers
  BY DEF Init
<1>4. events \in SUBSET Events
  BY DEF Init
<1>5. sent \in 0..MaxEvents
  BY SMT DEF Init
<1>6. overlapped \in BOOLEAN
  BY Zenon DEF Init
<1>7. last \in 0..MaxEvents /\ heard \in [Subs -> 0..MaxEvents]
  BY SMT DEF Init
<1>8. QED
  BY <1>1, <1>2, <1>3, <1>4, <1>5, <1>6, <1>7 DEF TypeInv, TypeOK

\* Every variable keeps its type.
THEOREM TypeCorrect == Spec => []TypeOK
<1>1. TypeInv => TypeOK
  BY DEF TypeInv
<1>2. QED
  BY <1>1, InitType, NextType, PTL DEF Spec

-----------------------------------------------------------------------------
(***************************************************************************)
(* The row, once there, keeps its customer, so agreement with it is        *)
(* inductive as it stands.                                                 *)
(***************************************************************************)
LEMMA SyncedKeepsCustomer ==
    ASSUME TypeInv, NEW e \in events, row # NoRow
    PROVE  Synced(e) # NoRow /\ Synced(e).cust = row.cust
<1>1. row \in Rows
  BY DEF TypeInv, TypeOK
<1>2. CASE row.cust # e.cust
  BY <1>2 DEF Synced
<1>3. CASE row.cust = e.cust
  <2>1. Synced(e) \in Rows \/ Synced(e) = NoRow
    BY SyncedType
  <2>2. Synced(e).cust = row.cust
    BY <1>1, <1>3 DEF Synced, Rows
  <2>3. Synced(e) \in Rows
    <3>1. e \in Events
      BY DEF TypeInv, TypeOK
    <3>2. QED
      BY <1>1, <1>3, <3>1 DEF Synced, Rows, Events
  <2>4. QED
    BY <2>2, <2>3, RowAssumption
<1>4. QED
  BY <1>2, <1>3

LEMMA RowKeepsCustomer ==
    ASSUME TypeInv, [Next]_vars, row # NoRow
    PROVE  row' # NoRow /\ row'.cust = row.cust
<1>1. ASSUME NEW e \in events, HandleEvent(e) \/ HandleEventAgain(e)
      PROVE  row' # NoRow /\ row'.cust = row.cust
  BY <1>1, SyncedKeepsCustomer DEF HandleEvent, HandleEventAgain, Handle
<1>2. CASE \E r \in Requests : Checkout(r)
  BY <1>2 DEF Checkout, FindCustomer, NoCustomerYet, CreateCustomer, InsertRow,
              InsertConflict, CreateSession, RequestFails
<1>3. CASE \E s \in Subs :
             \/ \E r \in Requests, status \in SyncStatuses \ {"past_due"} :
                  CompleteCheckout(r, s, status)
             \/ \E status \in SyncStatuses \ {"incomplete"} : UpdateSubscription(s, status)
             \/ CancelSubscription(s)
  BY <1>3 DEF CompleteCheckout, UpdateSubscription, CancelSubscription, Changed
<1>4. CASE UNCHANGED vars
  BY <1>4 DEF vars
<1>5. QED
  BY <1>1, <1>2, <1>3, <1>4 DEF Next

\* What a checkout request may do: take the row's customer, create the row
\* with its own, or leave what the others rely on alone.
LEMMA CheckoutAgrees ==
    ASSUME TypeInv, CustomerAgreement, NEW r \in Requests, Checkout(r),
           \A c : OfRow(c) => OfRow(c)'
    PROVE  CustomerAgreement'
<1> USE DEF CustomerAgreement, Advance, webhook, TypeInv, TypeOK
<1>1. CASE FindCustomer(r)
  BY <1>1 DEF FindCustomer, OfRow, Requested
<1>2. CASE InsertRow(r)
  <2>1. OfRow(req[r].cust)'
    <3>1. req[r].cust \in Customers
      BY <1>2 DEF InsertRow, Held
    <3>2. row' \in Rows /\ row'.cust = req[r].cust
      BY <1>2, <3>1 DEF InsertRow, Rows
    <3>3. req'[r].cust = req[r].cust
      BY <1>2 DEF InsertRow, Requested
    <3>4. QED
      BY <3>2, <3>3, RowAssumption DEF OfRow
  <2>2. \A q \in Requests : q # r => req'[q] = req[q]
    BY <1>2 DEF InsertRow
  <2>3. req'[r].cust = req[r].cust
    BY <1>2 DEF InsertRow, Requested
  <2>4. QED
    BY <1>2, <2>1, <2>2, <2>3 DEF InsertRow, OfRow
<1>3. CASE NoCustomerYet(r) \/ CreateCustomer(r) \/ InsertConflict(r) \/ RequestFails(r)
  <2>1. req'[r].pc \notin {"session", "open"} /\ UNCHANGED <<row, stripe, events>>
    BY <1>3 DEF NoCustomerYet, CreateCustomer, InsertConflict, RequestFails, Requested
  <2>2. \A q \in Requests : q # r => req'[q] = req[q]
    BY <1>3 DEF NoCustomerYet, CreateCustomer, InsertConflict, RequestFails
  <2>3. QED
    BY <2>1, <2>2 DEF OfRow
<1>4. CASE CreateSession(r)
  BY <1>4 DEF CreateSession, OfRow, Requested
<1>5. QED
  BY <1>1, <1>2, <1>3, <1>4 DEF Checkout

LEMMA ChangedAgrees ==
    ASSUME TypeInv, CustomerAgreement, NEW s \in Subs, NEW sub, Changed(s, sub),
           OfRow(sub.cust),
           \A q \in Requests : req'[q].pc \in {"session", "open"} => req'[q] = req[q]
    PROVE  CustomerAgreement'
<1>1. row' = row
  BY DEF Changed
<1>2. \A t \in Subs : stripe'[t] = IF t = s THEN sub ELSE stripe[t]
  BY DEF Changed, TypeInv, TypeOK
<1>3. \A e \in events' : e \in events \/ e.cust = sub.cust
  BY DEF Changed
<1>4. QED
  BY <1>1, <1>2, <1>3 DEF CustomerAgreement, OfRow

LEMMA NextAgrees == TypeInv /\ CustomerAgreement /\ [Next]_vars => CustomerAgreement'
<1> SUFFICES ASSUME TypeInv, CustomerAgreement, [Next]_vars PROVE CustomerAgreement'
  OBVIOUS
<1>0. \A c : OfRow(c) => OfRow(c)'
  BY RowKeepsCustomer DEF OfRow
<1>1. ASSUME NEW r \in Requests, Checkout(r) PROVE CustomerAgreement'
  BY <1>0, <1>1, CheckoutAgrees
<1>2. ASSUME NEW r \in Requests, NEW s \in Subs, NEW status, CompleteCheckout(r, s, status)
      PROVE  CustomerAgreement'
  <2> DEFINE sub == [status |-> status, cust |-> req[r].cust, plan |-> req[r].plan]
  <2>1. Changed(s, sub) /\ sub.cust = req[r].cust
    BY <1>2 DEF CompleteCheckout
  <2>2. \A q \in Requests : req'[q].pc \in {"session", "open"} => req'[q] = req[q]
    BY <1>2 DEF CompleteCheckout, TypeInv, TypeOK, Requested
  <2>3. OfRow(req[r].cust)
    BY <1>2 DEF CompleteCheckout, CustomerAgreement
  <2> HIDE DEF sub
  <2>4. QED
    BY <2>1, <2>2, <2>3, ChangedAgrees
<1>3. ASSUME NEW s \in Current, NEW status, Changed(s, [stripe[s] EXCEPT !.status = status]),
             UNCHANGED req
      PROVE  CustomerAgreement'
  <2> DEFINE sub == [stripe[s] EXCEPT !.status = status]
  <2>1. sub.cust = stripe[s].cust /\ s \in Subs
    BY DEF Current, TypeInv, TypeOK, Subscriptions
  <2>2. OfRow(stripe[s].cust)
    BY DEF Current, CustomerAgreement
  <2>3. Changed(s, sub)
    BY <1>3
  <2> HIDE DEF sub
  <2>4. QED
    BY <1>3, <2>1, <2>2, <2>3, ChangedAgrees
<1>4. ASSUME NEW e \in events, HandleEvent(e) \/ HandleEventAgain(e)
      PROVE  CustomerAgreement'
  BY <1>0, <1>4 DEF HandleEvent, HandleEventAgain, Handle, CustomerAgreement
<1>5. CASE UNCHANGED vars
  BY <1>5 DEF vars, CustomerAgreement, OfRow
<1>6. QED
  BY <1>1, <1>2, <1>3, <1>4, <1>5 DEF Next, UpdateSubscription, CancelSubscription

LEMMA InitAgrees == Init => CustomerAgreement
<1> SUFFICES ASSUME Init PROVE CustomerAgreement
  OBVIOUS
<1>1. \A r \in Requests : req[r].pc = "idle"
  BY DEF Init
<1>2. QED
  BY <1>1 DEF Init, CustomerAgreement

\* However checkout requests race, all payments and events belong to the
\* customer the organization's row names.
THEOREM PaymentsReachTheRow == Spec => []CustomerAgreement
BY InitType, NextType, InitAgrees, NextAgrees, PTL DEF Spec

-----------------------------------------------------------------------------
(***************************************************************************)
(* Cancellation.  NoServiceAfterCancellation is not inductive: an event of *)
(* a canceled subscription that is handled late must be known to be late.  *)
(* It is, unless the event of its end is still to come: an event that is   *)
(* no older than what was heard of the subscription has that one ahead.    *)
(***************************************************************************)
Numbered ==
    /\ last <= sent
    /\ \A e \in events : e.n <= sent /\ stripe[e.sub].status # "none"
    /\ \A e, f \in events : e.n = f.n => e = f

LateOrEndToCome ==
    \A e \in events : stripe[e.sub].status = "canceled" =>
        \/ e.n < heard[e.sub]
        \/ \E d \in events : d.deleted /\ d.sub = e.sub /\ e.n <= d.n

CancelInv == Numbered /\ LateOrEndToCome /\ NoServiceAfterCancellation

LEMMA CheckoutCancels ==
    ASSUME TypeInv, CancelInv, NEW r \in Requests, Checkout(r) PROVE CancelInv'
<1>1. UNCHANGED <<stripe, events, sent, last, heard>>
  BY DEF Checkout, FindCustomer, NoCustomerYet, CreateCustomer, InsertRow,
         InsertConflict, CreateSession, RequestFails, Advance, webhook
<1>2. row' = row \/ row'.status \notin LiveStatuses
  BY DEF Checkout, FindCustomer, NoCustomerYet, CreateCustomer, InsertRow,
         InsertConflict, CreateSession, RequestFails, LiveStatuses
<1>3. QED
  BY <1>1, <1>2 DEF CancelInv, Numbered, LateOrEndToCome, NoServiceAfterCancellation,
                    Entitled, Current

\* A change of one subscription, seen from the others and from itself.
LEMMA ChangedCancels ==
    ASSUME TypeInv, CancelInv, NEW s \in Subs, NEW sub \in Subscriptions, Changed(s, sub),
           sub.status # "none", stripe[s].status # "canceled"
    PROVE  CancelInv'
<1> DEFINE new == [n |-> sent + 1, deleted |-> sub.status = "canceled", sub |-> s,
                   cust |-> sub.cust, status |-> sub.status, plan |-> sub.plan]
<1>1. /\ new.n = sent + 1 /\ new.sub = s
      /\ new.deleted <=> sub.status = "canceled"
  OBVIOUS
<1>2. /\ events' = events \cup {new} /\ sent' = sent + 1
      /\ UNCHANGED <<row, last, heard>>
  BY DEF Changed
<1>3. \A t \in Subs : stripe'[t] = IF t = s THEN sub ELSE stripe[t]
  BY DEF Changed, TypeInv, TypeOK
<1>4. \A e \in events : e.n \in Nat /\ e.sub \in Subs /\ e.n <= sent
  BY DEF TypeInv, TypeOK, Events, CancelInv, Numbered
<1>5. sent \in Nat /\ last \in Nat
  BY DEF TypeInv, TypeOK
<1> HIDE DEF new
<1>6. Numbered'
  <2>1. \A e \in events' : e.n <= sent' /\ stripe'[e.sub].status # "none"
    BY <1>1, <1>2, <1>3, <1>4, <1>5 DEF CancelInv, Numbered
  <2>2. \A e, f \in events' : e.n = f.n => e = f
    BY <1>1, <1>2, <1>4, <1>5 DEF CancelInv, Numbered
  <2>3. last' <= sent'
    BY <1>2, <1>5 DEF CancelInv, Numbered
  <2>4. QED
    BY <2>1, <2>2, <2>3 DEF Numbered
<1>7. LateOrEndToCome'
  <2> SUFFICES ASSUME NEW e \in events', stripe'[e.sub].status = "canceled"
               PROVE  \/ e.n < heard[e.sub]
                      \/ \E d \in events' : d.deleted /\ d.sub = e.sub /\ e.n <= d.n
    BY <1>2 DEF LateOrEndToCome
  <2>1. CASE e.sub = s
    BY <1>1, <1>2, <1>3, <1>4, <1>5, <2>1
  <2>2. CASE e.sub # s
    BY <1>1, <1>2, <1>3, <1>4, <2>2 DEF CancelInv, LateOrEndToCome
  <2>3. QED
    BY <2>1, <2>2
<1>8. NoServiceAfterCancellation'
  <2> SUFFICES ASSUME Entitled
               PROVE  \/ row.sub \in Current'
                      \/ \E e \in events' : e.deleted /\ e.sub = row.sub
                      \/ last < heard[row.sub]
    BY <1>2 DEF NoServiceAfterCancellation, Entitled
  <2>1. CASE (\E e \in events : e.deleted /\ e.sub = row.sub) \/ last < heard[row.sub]
    BY <1>2, <2>1
  <2>2. CASE row.sub \in Current
    BY <1>1, <1>2, <1>3, <2>2 DEF Current
  <2>3. QED
    BY <2>1, <2>2 DEF CancelInv, NoServiceAfterCancellation
<1>9. QED
  BY <1>6, <1>7, <1>8 DEF CancelInv

LEMMA StripeCancels ==
    ASSUME TypeInv, CancelInv, NEW s \in Subs,
           \/ \E r \in Requests, status \in SyncStatuses : CompleteCheckout(r, s, status)
           \/ \E status \in SyncStatuses : UpdateSubscription(s, status)
           \/ CancelSubscription(s)
    PROVE  CancelInv'
<1>1. ASSUME NEW r \in Requests, NEW status \in SyncStatuses, CompleteCheckout(r, s, status)
      PROVE  CancelInv'
  <2> DEFINE sub == [status |-> status, cust |-> req[r].cust, plan |-> req[r].plan]
  <2>1. sub \in Subscriptions /\ sub.status # "none"
    BY <1>1 DEF CompleteCheckout, TypeInv, TypeOK, Held, Requested, Subscriptions,
                SyncStatuses
  <2>2. Changed(s, sub) /\ stripe[s].status # "canceled"
    BY <1>1 DEF CompleteCheckout
  <2> HIDE DEF sub
  <2>3. QED
    BY <2>1, <2>2, ChangedCancels
<1>2. ASSUME NEW status \in SyncStatuses \cup {"canceled"}, s \in Current,
             Changed(s, [stripe[s] EXCEPT !.status = status])
      PROVE  CancelInv'
  <2> DEFINE sub == [stripe[s] EXCEPT !.status = status]
  <2>1. sub \in Subscriptions /\ sub.status # "none"
    BY <1>2 DEF Current, TypeInv, TypeOK, Known, Subscriptions, SyncStatuses
  <2>2. Changed(s, sub) /\ stripe[s].status # "canceled"
    BY <1>2 DEF Current
  <2> HIDE DEF sub
  <2>3. QED
    BY <2>1, <2>2, ChangedCancels
<1>3. QED
  BY <1>1, <1>2 DEF UpdateSubscription, CancelSubscription

\* The row an event leaves: reset by a deletion, else on the event's
\* subscription, whose end, if it came meanwhile, is still to be handled, or was
\* handled before this event, which is older.
LEMMA HandleEndsService ==
    ASSUME TypeInv, CustomerAgreement, CancelInv, NEW e \in events, Handle(e),
           events \ {e} \subseteq events'
    PROVE  NoServiceAfterCancellation'
<1>1. e \in Events /\ row \in Rows /\ row # NoRow /\ row.cust = e.cust
  BY DEF TypeInv, TypeOK, CustomerAgreement, OfRow
<1>2. row' = Synced(e) /\ last' = e.n /\ Current' = Current
  BY DEF Handle, Current
<1>3. heard[e.sub] <= heard'[e.sub]
  BY <1>1 DEF Handle, TypeInv, TypeOK, Events
<1>4. CASE e.deleted
  BY <1>1, <1>2, <1>4 DEF Synced, Rows, LiveStatuses, NoServiceAfterCancellation, Entitled
<1>5. CASE ~e.deleted
  <2>1. row'.sub = e.sub
    BY <1>1, <1>2, <1>5 DEF Synced, Rows
  <2>2. CASE stripe[e.sub].status # "canceled"
    BY <1>1, <1>2, <2>1, <2>2
       DEF Current, CancelInv, Numbered, Events, NoServiceAfterCancellation
  <2>3. CASE stripe[e.sub].status = "canceled"
    <3>1. CASE e.n < heard[e.sub]
      <4>1. last' < heard'[row'.sub]
        BY <1>1, <1>2, <1>3, <2>1, <3>1 DEF Handle, TypeInv, TypeOK, Events
      <4>2. QED
        BY <4>1 DEF NoServiceAfterCancellation
    <3>2. CASE \E d \in events : d.deleted /\ d.sub = e.sub /\ e.n <= d.n
      BY <1>5, <2>1, <3>2 DEF NoServiceAfterCancellation
    <3>3. QED
      BY <2>3, <3>1, <3>2 DEF CancelInv, LateOrEndToCome
  <2>4. QED
    BY <2>2, <2>3
<1>6. QED
  BY <1>4, <1>5

\* Once the event of a subscription's end is gone, all that is left of it is late.
LEMMA HandleCancels ==
    ASSUME TypeInv, CustomerAgreement, CancelInv, NEW e \in events,
           HandleEvent(e) \/ HandleEventAgain(e)
    PROVE  CancelInv'
<1>1. Handle(e) /\ UNCHANGED <<stripe, sent>>
  BY DEF HandleEvent, HandleEventAgain, Handle
<1>2. events' = events \ {e} \/ events' = events
  BY DEF HandleEvent, HandleEventAgain
<1>3. e \in Events /\ \A f \in events : f \in Events
  BY DEF TypeInv, TypeOK
<1>4. Numbered'
  BY <1>1, <1>2 DEF Handle, CancelInv, Numbered
<1>5. /\ heard' \in [Subs -> 0..MaxEvents]
      /\ e.n <= heard'[e.sub]
      /\ \A s \in Subs : heard[s] <= heard'[s]
  BY <1>1, <1>3 DEF Handle, TypeInv, TypeOK, Events
<1>6. LateOrEndToCome'
  <2> SUFFICES ASSUME NEW f \in events', stripe[f.sub].status = "canceled",
                      ~(f.n < heard'[f.sub])
               PROVE  \E d \in events' : d.deleted /\ d.sub = f.sub /\ f.n <= d.n
    BY <1>1 DEF LateOrEndToCome
  <2>1. f \in events /\ f \in Events /\ heard \in [Subs -> 0..MaxEvents]
    BY <1>2, <1>3 DEF TypeInv, TypeOK
  <2>2. ~(f.n < heard[f.sub])
    BY <1>5, <2>1 DEF Events
  <2>3. PICK d \in events : d.deleted /\ d.sub = f.sub /\ f.n <= d.n
    BY <2>1, <2>2 DEF CancelInv, LateOrEndToCome
  <2>4. CASE d \in events'
    BY <2>3, <2>4
  <2>5. CASE d \notin events'
    <3>1. d = e /\ events' = events \ {e}
      BY <1>2, <2>5
    <3>2. f.n = e.n
      BY <1>3, <1>5, <2>1, <2>3, <3>1 DEF Events
    <3>3. QED
      BY <2>1, <3>1, <3>2 DEF CancelInv, Numbered
  <2>6. QED
    BY <2>4, <2>5
<1>7. NoServiceAfterCancellation'
  BY <1>1, <1>2, HandleEndsService
<1>8. QED
  BY <1>4, <1>6, <1>7 DEF CancelInv

LEMMA NextCancels ==
    TypeInv /\ CustomerAgreement /\ CancelInv /\ [Next]_vars => CancelInv'
<1> SUFFICES ASSUME TypeInv, CustomerAgreement, CancelInv, [Next]_vars PROVE CancelInv'
  OBVIOUS
<1>1. ASSUME NEW r \in Requests, Checkout(r) PROVE CancelInv'
  BY <1>1, CheckoutCancels
<1>2. CASE \E s \in Subs :
             \/ \E r \in Requests, status \in SyncStatuses \ {"past_due"} :
                  CompleteCheckout(r, s, status)
             \/ \E status \in SyncStatuses \ {"incomplete"} : UpdateSubscription(s, status)
             \/ CancelSubscription(s)
  BY <1>2, StripeCancels
<1>3. ASSUME NEW e \in events, HandleEvent(e) \/ HandleEventAgain(e) PROVE CancelInv'
  BY <1>3, HandleCancels
<1>4. CASE UNCHANGED vars
  BY <1>4 DEF vars, CancelInv, Numbered, LateOrEndToCome, NoServiceAfterCancellation,
                  Entitled, Current
<1>5. QED
  BY <1>1, <1>2, <1>3, <1>4 DEF Next

LEMMA InitCancels == Init => CancelInv
BY DEF Init, CancelInv, Numbered, LateOrEndToCome, NoServiceAfterCancellation, Entitled

\* In whatever order and however often events are handled, the row entitles on a
\* canceled subscription only before the event of its end has been handled, or
\* after an older event of it was handled late.
THEOREM CancellationEndsService == Spec => []NoServiceAfterCancellation
<1>1. CancelInv => NoServiceAfterCancellation
  BY DEF CancelInv
<1>2. QED
  BY <1>1, InitType, NextType, InitAgrees, NextAgrees, InitCancels, NextCancels, PTL DEF Spec

-----------------------------------------------------------------------------
(***************************************************************************)
(* Convergence.  While events are on their way the row may be anything;    *)
(* what survives is that the youngest of all tells what Stripe knows, so   *)
(* that whenever it is handled, for the first time or again, the row does. *)
(***************************************************************************)
OneCurrent == \A s, t \in Current : s = t

Tells(e) ==
    /\ \A s \in Current : /\ ~e.deleted /\ e.sub = s
                          /\ e.status = stripe[s].status /\ e.plan = stripe[s].plan
    /\ Current = {} => e.deleted

YoungestTells == \A e \in events : e.n = sent => Tells(e)

ConvergeInv ==
    ~overlapped => OneCurrent /\ YoungestTells /\ (last = sent => MirrorsStripe)

LEMMA CheckoutConverges ==
    ASSUME TypeInv, CustomerAgreement, ConvergeInv, NEW r \in Requests, Checkout(r)
    PROVE  ConvergeInv'
<1>1. UNCHANGED <<stripe, events, overlapped, sent, last>>
  BY DEF Checkout, FindCustomer, NoCustomerYet, CreateCustomer, InsertRow,
         InsertConflict, CreateSession, RequestFails, Advance, webhook
<1>2. Current' = Current
  BY <1>1 DEF Current
<1>3. CASE row' = row
  BY <1>1, <1>2, <1>3 DEF ConvergeInv, OneCurrent, YoungestTells, Tells, MirrorsStripe
<1>4. CASE InsertRow(r)
  <2>1. Current = {}
    BY <1>4 DEF InsertRow, CustomerAgreement, OfRow, Current
  <2>2. row'.status = "inactive"
    BY <1>4 DEF InsertRow
  <2>3. MirrorsStripe'
    BY <1>2, <2>1, <2>2 DEF MirrorsStripe
  <2>4. QED
    BY <1>1, <1>2, <2>3 DEF ConvergeInv, OneCurrent, YoungestTells, Tells
<1>5. QED
  BY <1>3, <1>4 DEF Checkout, FindCustomer, NoCustomerYet, CreateCustomer, InsertConflict,
                    CreateSession, RequestFails

\* A change of the only current subscription, or of one where there is none.
LEMMA ChangedConverges ==
    ASSUME TypeInv, Numbered, NEW s \in Subs, NEW sub \in Subscriptions, Changed(s, sub),
           sub.status # "none", \A t \in Current : t = s
    PROVE  ConvergeInv'
<1>1. PICK new :
        /\ new.n = sent + 1 /\ new.sub = s /\ new.status = sub.status
        /\ new.plan = sub.plan /\ (new.deleted <=> sub.status = "canceled")
        /\ events' = events \cup {new}
  <2> DEFINE event == [n |-> sent + 1, deleted |-> sub.status = "canceled", sub |-> s,
                       cust |-> sub.cust, status |-> sub.status, plan |-> sub.plan]
  <2>1. events' = events \cup {event}
    BY DEF Changed
  <2>2. /\ event.n = sent + 1 /\ event.sub = s /\ event.status = sub.status
        /\ event.plan = sub.plan /\ (event.deleted <=> sub.status = "canceled")
    OBVIOUS
  <2> HIDE DEF event
  <2>3. QED
    BY <2>1, <2>2
<1>2. stripe'[s] = sub /\ \A t \in Subs : t # s => stripe'[t] = stripe[t]
  BY DEF Changed, TypeInv, TypeOK
<1>3. \A e \in events : e.n \in Nat /\ e.n <= sent
  BY DEF TypeInv, TypeOK, Events, Numbered
<1>4. sent \in Nat /\ last \in Nat /\ last <= sent /\ sent' = sent + 1 /\ last' = last
  BY DEF TypeInv, TypeOK, Numbered, Changed
<1>5. Current' = IF sub.status = "canceled" THEN {} ELSE {s}
  BY <1>2 DEF Current
<1>6. Tells(new)'
  BY <1>1, <1>2, <1>5 DEF Tells
<1>7. YoungestTells'
  <2> SUFFICES ASSUME NEW e \in events', e.n = sent'
               PROVE  Tells(e)'
    BY DEF YoungestTells
  <2>1. e = new
    BY <1>1, <1>3, <1>4
  <2>2. QED
    BY <1>6, <2>1 DEF Tells
<1>8. OneCurrent' /\ last' # sent'
  BY <1>4, <1>5 DEF OneCurrent
<1>9. QED
  BY <1>7, <1>8 DEF ConvergeInv

LEMMA StripeConverges ==
    ASSUME TypeInv, Numbered, ConvergeInv, NEW s \in Subs,
           \/ \E r \in Requests, status \in SyncStatuses : CompleteCheckout(r, s, status)
           \/ \E status \in SyncStatuses : UpdateSubscription(s, status)
           \/ CancelSubscription(s)
    PROVE  ConvergeInv'
<1> SUFFICES ASSUME ~overlapped' PROVE ConvergeInv'
  BY Zenon DEF ConvergeInv
<1>1. ASSUME NEW r \in Requests, NEW status \in SyncStatuses, CompleteCheckout(r, s, status)
      PROVE  ConvergeInv'
  <2> DEFINE sub == [status |-> status, cust |-> req[r].cust, plan |-> req[r].plan]
  <2>1. sub \in Subscriptions /\ sub.status # "none"
    BY <1>1 DEF CompleteCheckout, TypeInv, TypeOK, Held, Requested, Subscriptions,
                SyncStatuses
  <2>2. Changed(s, sub)
    BY <1>1 DEF CompleteCheckout
  <2>3. Current = {}
    BY <1>1, Zenon DEF CompleteCheckout
  <2> HIDE DEF sub
  <2>4. QED
    BY <2>1, <2>2, <2>3, ChangedConverges
<1>2. ASSUME NEW status \in SyncStatuses \cup {"canceled"}, s \in Current,
             Changed(s, [stripe[s] EXCEPT !.status = status]), UNCHANGED overlapped
      PROVE  ConvergeInv'
  <2> DEFINE sub == [stripe[s] EXCEPT !.status = status]
  <2>1. sub \in Subscriptions /\ sub.status # "none"
    BY <1>2 DEF Current, TypeInv, TypeOK, Known, Subscriptions, SyncStatuses
  <2>2. Changed(s, sub)
    BY <1>2
  <2>3. ~overlapped
    BY <1>2, Zenon
  <2>4. \A t \in Current : t = s
    BY <1>2, <2>3 DEF ConvergeInv, OneCurrent
  <2> HIDE DEF sub
  <2>5. QED
    BY <2>1, <2>2, <2>4, ChangedConverges
<1>3. QED
  BY <1>1, <1>2 DEF UpdateSubscription, CancelSubscription

\* The row that an event leaves which tells what Stripe knows.
LEMMA SyncedMirrors ==
    ASSUME TypeInv, CustomerAgreement, NEW e \in events, Tells(e), row' = Synced(e),
           UNCHANGED stripe
    PROVE  MirrorsStripe'
<1>1. row \in Rows /\ row # NoRow /\ row.cust = e.cust
  BY DEF TypeInv, TypeOK, CustomerAgreement, OfRow
<1>2. Current' = Current
  BY DEF Current
<1>3. CASE e.deleted
  <2>1. row'.status = "canceled" /\ Current = {}
    BY <1>1, <1>3 DEF Synced, Rows, Tells
  <2>2. QED
    BY <1>2, <2>1 DEF MirrorsStripe
<1>4. CASE ~e.deleted
  <2>1. row'.sub = e.sub /\ row'.status = e.status /\ row'.plan = e.plan
    BY <1>1, <1>4 DEF Synced, Rows
  <2>2. Current # {}
    BY <1>4 DEF Tells
  <2>3. row' # NoRow
    BY <1>1, SyncedKeepsCustomer
  <2>4. QED
    BY <1>2, <2>1, <2>2, <2>3 DEF MirrorsStripe, Tells
<1>5. QED
  BY <1>3, <1>4

LEMMA HandleConverges ==
    ASSUME TypeInv, CustomerAgreement, ConvergeInv, NEW e \in events,
           HandleEvent(e) \/ HandleEventAgain(e)
    PROVE  ConvergeInv'
<1>1. row' = Synced(e) /\ last' = e.n /\ UNCHANGED <<stripe, sent, overlapped>>
  BY DEF HandleEvent, HandleEventAgain, Handle
<1>2. events' \subseteq events
  BY DEF HandleEvent, HandleEventAgain
<1>3. Current' = Current
  BY <1>1 DEF Current
<1> SUFFICES ASSUME ~overlapped
             PROVE  OneCurrent' /\ YoungestTells' /\ (last' = sent' => MirrorsStripe')
  BY <1>1, Zenon DEF ConvergeInv
<1>4. OneCurrent /\ YoungestTells
  BY DEF ConvergeInv
<1>5. YoungestTells'
  BY <1>1, <1>2, <1>3, <1>4 DEF YoungestTells, Tells
<1>6. ASSUME last' = sent' PROVE MirrorsStripe'
  <2>1. Tells(e)
    BY <1>1, <1>4, <1>6 DEF YoungestTells
  <2>2. QED
    BY <1>1, <2>1, SyncedMirrors
<1>7. QED
  BY <1>3, <1>4, <1>5, <1>6 DEF OneCurrent

LEMMA NextConverges ==
    TypeInv /\ CustomerAgreement /\ CancelInv /\ ConvergeInv /\ [Next]_vars => ConvergeInv'
<1> SUFFICES ASSUME TypeInv, CustomerAgreement, CancelInv, ConvergeInv, [Next]_vars
             PROVE  ConvergeInv'
  OBVIOUS
<1>1. ASSUME NEW r \in Requests, Checkout(r) PROVE ConvergeInv'
  BY <1>1, CheckoutConverges
<1>2. CASE \E s \in Subs :
             \/ \E r \in Requests, status \in SyncStatuses \ {"past_due"} :
                  CompleteCheckout(r, s, status)
             \/ \E status \in SyncStatuses \ {"incomplete"} : UpdateSubscription(s, status)
             \/ CancelSubscription(s)
  BY <1>2, StripeConverges DEF CancelInv
<1>3. ASSUME NEW e \in events, HandleEvent(e) \/ HandleEventAgain(e) PROVE ConvergeInv'
  BY <1>3, HandleConverges
<1>4. CASE UNCHANGED vars
  <2>1. UNCHANGED <<row, stripe, events, overlapped, sent, last>> /\ Current' = Current
    BY <1>4 DEF vars, Current
  <2>2. QED
    BY <2>1 DEF ConvergeInv, OneCurrent, YoungestTells, Tells, MirrorsStripe
<1>5. QED
  BY <1>1, <1>2, <1>3, <1>4 DEF Next

LEMMA InitConverges == Init => ConvergeInv
BY DEF Init, ConvergeInv, OneCurrent, YoungestTells, MirrorsStripe, Current

\* In whatever order and however often events are handled: unless two
\* subscriptions overlapped, the row is what Stripe knows whenever the youngest
\* event is the one handled last.
THEOREM RowFollowsStripe == Spec => []RowConverges
<1>1. ConvergeInv => RowConverges
  BY DEF ConvergeInv, RowConverges
<1>2. QED
  BY <1>1, InitType, NextType, InitAgrees, NextAgrees, InitCancels, NextCancels,
     InitConverges, NextConverges, PTL DEF Spec
=============================================================================
