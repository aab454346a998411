---------------------- MODULE SubscriptionCache_proofs ----------------------
(***************************************************************************)
(* Proofs about SubscriptionCache, for every number of calls, deliveries   *)
(* and ticks: type correctness, the evidence invariant, what a stale entry *)
(* can come from, and that the lookup implements Entitlement.              *)
(*                                                                         *)
(* Then about Paywall, which asks that lookup, for any users,              *)
(* organizations and concurrent requests: type correctness, whom it lets   *)
(* pass, whom it turns away, and that it is modelled with every answer the *)
(* lookup may give.                                                        *)
(***************************************************************************)
EXTENDS SubscriptionCache, Paywall, TLAPS

USE TTLAssumption, LatencyAssumption, LengthAssumption, FaultsAssumption,
    StatusAssumption

LEMMA WindowType ==
    /\ Window \in Nat
    /\ Window = TTL + MaxLatency
    /\ MaxLatency \in Nat /\ 0 < MaxLatency /\ MaxLatency < Window
    /\ TTL \in Nat /\ 0 < TTL /\ TTL < Window
BY DEF Window

LEMMA IdleTypes == IdleCall \in Calls /\ IdleHook \in Deliveries
BY WindowType
   DEF IdleCall, Calls, CallSteps, Answers, IdleHook, Deliveries, HookSteps

\* The types are inductive only together with the bounds on the clocks.
TypeInv == TypeOK /\ Answered /\ Clocks

\* The steps of a call that touch nothing but the call and the cache entry.
LEMMA StepType ==
    ASSUME TypeInv, NEW r \in Readers, NEW c \in Calls, Step(r, c),
           c.pc \in {"setEx", "done"} => c.ans \in Answers,
           c.pc \in {"readOrg", "setEx"} => c.age <= c.dur,
           cache' \in Entries \cup {NoEntry},
           cache' # NoEntry => cache'.age + cache'.left <= Window
    PROVE  TypeInv'
BY DEF TypeInv, TypeOK, Answered, Clocks, Step, history

LEMMA LookupType ==
    ASSUME TypeInv, NEW r \in Readers, Lookup(r) PROVE TypeInv'
<1>0. /\ call[r] \in Calls
      /\ call[r].pc \in {"setEx", "done"} => call[r].ans \in Answers
      /\ call[r].pc \in {"readOrg", "setEx"} => call[r].age <= call[r].dur
      /\ cache \in Entries \cup {NoEntry}
      /\ cache # NoEntry => cache.age + cache.left <= Window
      /\ connected \in BOOLEAN
      /\ IdleCall \in Calls /\ IdleCall.pc = "idle"
  BY IdleTypes DEF TypeInv, TypeOK, Answered, Clocks, IdleCall
<1>1. CASE Begin(r)
  BY <1>0, <1>1, StepType DEF Begin, Calls, CallSteps, IdleCall
<1>2. CASE CacheHit(r)
  BY <1>0, <1>2, StepType DEF CacheHit, Calls, CallSteps, Entries, Answers
<1>3. CASE CacheMiss(r)
  BY <1>0, <1>3, StepType DEF CacheMiss, Calls, CallSteps
<1>4. CASE CacheGetFails(r)
  BY <1>0, <1>4, StepType DEF CacheGetFails, Calls, CallSteps
<1>5. CASE ReadSubscription(r)
  <2> DEFINE paying == [call[r] EXCEPT !.pc = AfterDatabase(r), !.ans = "paid",
                                       !.age = 0, !.late = FALSE]
             unpaid == [call[r] EXCEPT !.pc = "readOrg", !.age = 0, !.late = FALSE]
  <2>0. AfterDatabase(r) \in CallSteps /\ "readOrg" \in CallSteps
        /\ "paid" \in Answers /\ 0 \in 0..Window
    BY WindowType DEF AfterDatabase, CallSteps, Answers
  <2>1. paying \in Calls /\ unpaid \in Calls
    BY <1>0, <2>0 DEF Calls
  <2>2. /\ paying.ans = "paid" /\ paying.age = 0 /\ paying.dur \in 0..MaxLatency
        /\ unpaid.pc = "readOrg" /\ unpaid.age = 0 /\ unpaid.dur \in 0..MaxLatency
    BY <1>0 DEF Calls
  <2>3. cache' = cache /\ (Step(r, paying) \/ Step(r, unpaid))
    BY <1>5 DEF ReadSubscription
  <2> HIDE DEF paying, unpaid
  <2>4. QED
    BY <1>0, <2>1, <2>2, <2>3, StepType, WindowType DEF Answers
<1>6. CASE ReadOrganization(r)
  BY <1>0, <1>6, StepType
     DEF ReadOrganization, AfterDatabase, Calls, CallSteps, Answers
<1>7. CASE DatabaseFails(r)
  BY <1>0, <1>7, StepType DEF DatabaseFails
<1>8. CASE CacheSetEx(r)
  <2>1. cache' \in Entries /\ cache'.age + cache'.left <= Window
    BY <1>0, <1>8, WindowType DEF CacheSetEx, Calls, Entries
  <2>2. QED
    BY <1>0, <1>8, <2>1, StepType DEF CacheSetEx, Calls, CallSteps
<1>9. CASE CacheSetExFails(r)
  BY <1>0, <1>9, StepType DEF CacheSetExFails, Calls, CallSteps
<1>10. CASE Return(r)
  BY <1>0, <1>10, StepType DEF Return
<1>11. QED
  BY <1>1, <1>2, <1>3, <1>4, <1>5, <1>6, <1>7, <1>8, <1>9, <1>10 DEF Lookup

LEMMA UpdateRowType ==
    ASSUME TypeInv, NEW w \in Hooks, UpdateRow(w) PROVE TypeInv'
<1>1. hook[w].status \in Statuses /\ hook' \in [Hooks -> Deliveries]
  BY DEF TypeInv, TypeOK, UpdateRow, Moved, Deliveries, HookSteps
<1>2. sinceLive' \in 0..(Window + 1) /\ sinceDead' \in 0..(Window + 1)
  BY WindowType DEF TypeInv, TypeOK, UpdateRow
<1>3. \A r \in Readers : /\ [call[r] EXCEPT !.late = TRUE] \in Calls
                          /\ call'[r] \in Calls
                          /\ call'[r].pc = call[r].pc
                          /\ call'[r].ans = call[r].ans
                          /\ call'[r].age = call[r].age
                          /\ call'[r].dur = call[r].dur
  BY DEF TypeInv, TypeOK, UpdateRow, Calls
<1>4. call' \in [Readers -> Calls]
  BY <1>3 DEF UpdateRow
<1>5. QED
  BY <1>1, <1>2, <1>3, <1>4 DEF TypeInv, TypeOK, Answered, Clocks, UpdateRow

LEMMA WebhookType ==
    ASSUME TypeInv, NEW w \in Hooks, Webhook(w) PROVE TypeInv'
<1>1. ASSUME NEW s \in Statuses, Deliver(w, s) PROVE TypeInv'
  BY <1>1 DEF Deliver, TypeInv, TypeOK, Answered, Clocks, history, Deliveries, HookSteps
<1>2. CASE UpdateRow(w)
  BY <1>2, UpdateRowType
<1>3. CASE LookupOrganization(w) \/ HookFails(w) \/ Redeliver(w)
  BY <1>3 DEF LookupOrganization, HookFails, Redeliver, Moved, TypeInv, TypeOK,
              Answered, Clocks, history, Deliveries, HookSteps
<1>4. CASE Invalidate(w)
  BY <1>4, IdleTypes DEF Invalidate, TypeInv, TypeOK, Answered, Clocks, history
<1>5. CASE InvalidateFails(w)
  BY <1>5, IdleTypes DEF InvalidateFails, TypeInv, TypeOK, Answered, Clocks, history
<1>6. QED
  BY <1>1, <1>2, <1>3, <1>4, <1>5 DEF Webhook

LEMMA TickType == ASSUME TypeInv, Tick PROVE TypeInv'
<1>1. /\ trialLeft' \in (-Window)..TrialLength
      /\ sinceLive' \in 0..(Window + 1)
      /\ sinceDead' \in 0..(Window + 1)
  BY WindowType DEF TypeInv, TypeOK, Tick, Older
<1>2. /\ cache' \in Entries \cup {NoEntry}
      /\ cache' # NoEntry => cache'.age + cache'.left <= Window
  <2>1. CASE cache = NoEntry \/ cache.left = 1
    BY <2>1 DEF Tick, AgedEntry
  <2>2. CASE cache # NoEntry /\ cache.left # 1
    <3>1. /\ cache \in Entries
          /\ cache.age + cache.left <= Window
          /\ cache' = [cache EXCEPT !.age = @ + 1, !.left = @ - 1]
      BY <2>2 DEF TypeInv, TypeOK, Clocks, Tick, AgedEntry
    <3>2. /\ cache.age \in 0..Window /\ cache.left \in 1..TTL
          /\ cache'.age = cache.age + 1 /\ cache'.left = cache.left - 1
      BY <3>1 DEF Entries
    <3>3. cache.age + 1 \in 0..Window /\ cache.left - 1 \in 1..TTL
      BY <2>2, <3>1, <3>2, WindowType
    <3>4. cache' \in Entries
      BY <3>1, <3>3 DEF Entries
    <3>5. QED
      BY <3>1, <3>2, <3>4, WindowType
  <2>3. QED
    BY <2>1, <2>2
<1>3. ASSUME NEW r \in Readers
      PROVE  /\ call'[r] \in Calls
             /\ call'[r].pc \in {"setEx", "done"} => call'[r].ans \in Answers
             /\ call'[r].pc \in {"readOrg", "setEx"} => call'[r].age <= call'[r].dur
  <2>1. /\ call[r] \in Calls
        /\ call[r].pc \in {"setEx", "done"} => call[r].ans \in Answers
        /\ call[r].pc \in {"readOrg", "setEx"} => call[r].age <= call[r].dur
        /\ call'[r] = AgedCall(call[r])
        /\ call[r].pc \in InFlight => call[r].dur < MaxLatency
    BY DEF TypeInv, TypeOK, Answered, Clocks, Tick
  <2>2. CASE call[r].pc \notin InFlight
    BY <2>1, <2>2, IdleTypes DEF AgedCall, IdleCall
  <2>3. CASE call[r].pc \in InFlight
    <3> DEFINE n == IF call[r].pc \in {"readOrg", "setEx"}
                    THEN call[r].age + 1 ELSE call[r].age
    <3>1. call[r].age \in 0..Window /\ call[r].dur \in 0..MaxLatency
      BY <2>1 DEF Calls
    <3>2. n \in 0..Window /\ call[r].dur + 1 \in 0..MaxLatency
      BY <2>1, <2>3, <3>1, WindowType
    <3>3. call'[r] = [call[r] EXCEPT !.dur = @ + 1, !.age = n]
      BY <2>1, <2>3 DEF AgedCall
    <3>4. /\ call'[r].pc = call[r].pc /\ call'[r].ans = call[r].ans
          /\ call'[r].age = n /\ call'[r].dur = call[r].dur + 1
      BY <2>1, <3>3 DEF Calls
    <3>5. call'[r] \in Calls
      BY <2>1, <3>2, <3>3 DEF Calls
    <3>6. QED
      BY <2>1, <3>1, <3>4, <3>5, WindowType
  <2>4. QED
    BY <2>2, <2>3
<1>4. call' \in [Readers -> Calls]
  BY <1>3 DEF Tick
<1>5. QED
  BY <1>1, <1>2, <1>3, <1>4 DEF TypeInv, TypeOK, Answered, Clocks, Tick

LEMMA InitType == Init => TypeInv
<1> SUFFICES ASSUME Init PROVE TypeInv
  OBVIOUS
<1>1. /\ trialLeft \in (-Window)..TrialLength
      /\ sinceLive \in 0..(Window + 1)
      /\ sinceDead \in 0..(Window + 1)
  BY WindowType DEF Init
<1>2. \A r \in Readers : call[r] = IdleCall /\ call[r].pc = "idle"
  BY DEF Init, IdleCall
<1>3. QED
  BY <1>1, <1>2, IdleTypes DEF Init, TypeInv, TypeOK, Answered, Clocks

LEMMA NextType == TypeInv /\ [Next]_vars => TypeInv'
<1> SUFFICES ASSUME TypeInv, [Next]_vars PROVE TypeInv'
  OBVIOUS
<1>1. ASSUME NEW r \in Readers, Lookup(r) PROVE TypeInv'
  BY <1>1, LookupType
<1>2. ASSUME NEW w \in Hooks, Webhook(w) PROVE TypeInv'
  BY <1>2, WebhookType
<1>3. CASE RedisDown \/ RedisReady \/ Evict
  BY <1>3 DEF RedisDown, RedisReady, Evict, TypeInv, TypeOK, Answered, Clocks, history
<1>4. CASE Crash
  <2>1. hook' \in [Hooks -> Deliveries]
    BY <1>4 DEF Crash, TypeInv, TypeOK, Deliveries, HookSteps
  <2>2. call' \in [Readers -> Calls] /\ \A r \in Readers : call'[r].pc = "idle"
    BY <1>4, IdleTypes DEF Crash, IdleCall
  <2>3. QED
    BY <1>4, <2>1, <2>2 DEF Crash, TypeInv, TypeOK, Answered, Clocks, history
<1>5. CASE Tick
  BY <1>5, TickType
<1>6. CASE UNCHANGED vars
  BY <1>6 DEF vars, history, TypeInv, TypeOK, Answered, Clocks
<1>7. QED
  BY <1>1, <1>2, <1>3, <1>4, <1>5, <1>6 DEF Next, Environment

\* Every variable keeps its type, for any number of calls, deliveries, ticks.
THEOREM TypeCorrect == Spec => []TypeOK
<1>1. TypeInv => TypeOK
  BY DEF TypeInv
<1>2. QED
  BY <1>1, InitType, NextType, PTL DEF Spec

-----------------------------------------------------------------------------
(***************************************************************************)
(* The evidence invariant.                                                 *)
(***************************************************************************)
IInv == TypeInv /\ PresentIsRecent /\ Evidence

LEMMA StepEvidence ==
    ASSUME IInv, NEW r \in Readers, NEW c \in Calls, Step(r, c),
           c.pc = "readOrg" => sinceDead <= c.age,
           c.pc \in {"setEx", "done"} => Justified(c.ans, c.age),
           cache' # NoEntry => Justified(cache'.ans, cache'.age)
    PROVE  PresentIsRecent' /\ Evidence'
<1>1. PresentIsRecent'
  BY DEF IInv, PresentIsRecent, Step, history, Live
<1>2. /\ sinceLive' = sinceLive /\ sinceDead' = sinceDead
      /\ trialLeft' = trialLeft
  BY DEF Step, history
<1>3. ASSUME NEW q \in Readers
      PROVE  /\ call'[q].pc = "readOrg" => sinceDead' <= call'[q].age
             /\ call'[q].pc \in {"setEx", "done"} =>
                  Justified(call[q].ans, call[q].age)'
  <2>1. call'[q] = IF q = r THEN c ELSE call[q]
    BY DEF Step, IInv, TypeInv, TypeOK
  <2>2. QED
    BY <1>2, <2>1 DEF IInv, Evidence, Justified
<1>4. QED
  BY <1>1, <1>2, <1>3 DEF Evidence, Justified

LEMMA LookupEvidence ==
    ASSUME IInv, NEW r \in Readers, Lookup(r)
    PROVE  PresentIsRecent' /\ Evidence'
<1>0. /\ call[r] \in Calls
      /\ cache \in Entries \cup {NoEntry}
      /\ cache # NoEntry => Justified(cache.ans, cache.age)
      /\ call[r].pc = "readOrg" => sinceDead <= call[r].age
      /\ call[r].pc \in {"setEx", "done"} => Justified(call[r].ans, call[r].age)
      /\ PresentIsRecent
      /\ trialLeft \in Int /\ sinceDead \in Nat /\ sinceLive \in Nat
      /\ IdleCall \in Calls /\ IdleCall.pc = "idle"
  BY IdleTypes, WindowType DEF IInv, TypeInv, TypeOK, Evidence, IdleCall
<1>1. CASE Begin(r)
  <2> DEFINE c == [IdleCall EXCEPT !.pc = IF connected THEN "get" ELSE "readSub",
                                   !.usable = connected]
  <2>1. c \in Calls /\ c.pc \in {"get", "readSub"}
    BY <1>0, IdleTypes DEF Calls, CallSteps, IInv, TypeInv, TypeOK
  <2>2. cache' = cache /\ Step(r, c)
    BY <1>1 DEF Begin
  <2> HIDE DEF c
  <2>3. QED
    BY <1>0, <2>1, <2>2, StepEvidence
<1>2. CASE CacheHit(r)
  BY <1>0, <1>2, StepEvidence DEF CacheHit, Calls, CallSteps, Entries, Answers
<1>3. CASE CacheMiss(r) \/ CacheGetFails(r)
  BY <1>0, <1>3, StepEvidence DEF CacheMiss, CacheGetFails, Calls, CallSteps
<1>5. CASE ReadSubscription(r)
  <2> DEFINE paying == [call[r] EXCEPT !.pc = AfterDatabase(r), !.ans = "paid",
                                       !.age = 0, !.late = FALSE]
             unpaid == [call[r] EXCEPT !.pc = "readOrg", !.age = 0, !.late = FALSE]
  <2>0. AfterDatabase(r) \in {"setEx", "done"} /\ "readOrg" \in CallSteps
        /\ "paid" \in Answers /\ 0 \in 0..Window
        /\ AfterDatabase(r) \in CallSteps
    BY WindowType DEF AfterDatabase, CallSteps, Answers
  <2>1. paying \in Calls /\ unpaid \in Calls
    BY <1>0, <2>0 DEF Calls
  <2>2. /\ paying.pc # "readOrg" /\ paying.ans = "paid" /\ paying.age = 0
        /\ unpaid.pc = "readOrg" /\ unpaid.age = 0
    BY <1>0, <2>0 DEF Calls
  <2>3. cache' = cache /\ Step(r, IF Live THEN paying ELSE unpaid)
    BY <1>5 DEF ReadSubscription
  <2> HIDE DEF paying, unpaid
  <2>4. CASE Live
    <3>1. Justified(paying.ans, paying.age)
      BY <1>0, <2>2, <2>4 DEF Justified, PresentIsRecent
    <3>2. QED
      BY <1>0, <2>1, <2>2, <2>3, <2>4, <3>1, StepEvidence
  <2>5. CASE ~Live
    BY <1>0, <2>1, <2>2, <2>3, <2>5, StepEvidence DEF PresentIsRecent
  <2>6. QED
    BY <2>4, <2>5
<1>6. CASE ReadOrganization(r)
  <2> DEFINE a == IF trialLeft > 0 THEN "trial" ELSE "expired"
             c == [call[r] EXCEPT !.pc = AfterDatabase(r), !.ans = a]
  <2>1. AfterDatabase(r) \in {"setEx", "done"} /\ AfterDatabase(r) \in CallSteps
        /\ a \in Answers
    BY DEF AfterDatabase, CallSteps, Answers
  <2> HIDE DEF a
  <2>2. /\ c \in Calls /\ c.pc # "readOrg" /\ c.ans = a
        /\ c.age = call[r].age
    BY <1>0, <2>1 DEF Calls
  <2>3. call[r].age \in Nat
    BY <1>0, WindowType DEF Calls
  <2>4. Justified(c.ans, c.age)
    BY <1>0, <1>6, <2>2, <2>3 DEF ReadOrganization, Justified, a
  <2>5. cache' = cache /\ Step(r, c)
    BY <1>6 DEF ReadOrganization, a
  <2> HIDE DEF c
  <2>6. QED
    BY <1>0, <2>2, <2>4, <2>5, StepEvidence
<1>7. CASE DatabaseFails(r) \/ Return(r)
  BY <1>0, <1>7, StepEvidence DEF DatabaseFails, Return
<1>8. CASE CacheSetEx(r)
  BY <1>0, <1>8, StepEvidence DEF CacheSetEx, Calls, CallSteps
<1>9. CASE CacheSetExFails(r)
  BY <1>0, <1>9, StepEvidence DEF CacheSetExFails, Calls, CallSteps
<1>11. QED
  BY <1>1, <1>2, <1>3, <1>5, <1>6, <1>7, <1>8, <1>9 DEF Lookup

\* Steps that change neither the row, nor the clocks, nor any call, and at
\* most drop the cache entry.
LEMMA QuietEvidence ==
    ASSUME IInv, UNCHANGED <<status, trialLeft, history, call>>,
           cache' \in {cache, NoEntry}
    PROVE  PresentIsRecent' /\ Evidence'
BY DEF IInv, PresentIsRecent, Live, Evidence, Justified, history

LEMMA UpdateRowEvidence ==
    ASSUME IInv, NEW w \in Hooks, UpdateRow(w)
    PROVE  PresentIsRecent' /\ Evidence'
<1>1. PresentIsRecent'
  BY DEF UpdateRow, PresentIsRecent, Live
<1>2. /\ sinceLive' \in {0, sinceLive} /\ sinceDead' \in {0, sinceDead}
      /\ sinceLive \in Nat /\ sinceDead \in Nat
      /\ trialLeft' = trialLeft /\ cache' = cache
  BY WindowType DEF UpdateRow, IInv, TypeInv, TypeOK
<1>3. \A r \in Readers : /\ call[r] \in Calls
                          /\ call'[r].pc = call[r].pc
                          /\ call'[r].ans = call[r].ans
                          /\ call'[r].age = call[r].age
                          /\ call[r].age \in Nat
  BY WindowType DEF IInv, TypeInv, TypeOK, UpdateRow, Calls
<1>4. cache # NoEntry => cache.age \in Nat
  BY WindowType DEF IInv, TypeInv, TypeOK, Entries
<1>5. QED
  BY <1>1, <1>2, <1>3, <1>4 DEF IInv, Evidence, Justified

LEMMA TickEvidence ==
    ASSUME IInv, Tick PROVE PresentIsRecent' /\ Evidence'
<1>1. /\ sinceLive' <= sinceLive + 1 /\ sinceDead' <= sinceDead + 1
      /\ trialLeft' <= trialLeft /\ trialLeft - 1 <= trialLeft'
      /\ sinceLive \in Nat /\ sinceDead \in Nat /\ trialLeft \in Int
      /\ sinceLive' \in Nat /\ sinceDead' \in Nat /\ trialLeft' \in Int
  BY WindowType DEF Tick, Older, IInv, TypeInv, TypeOK
<1>2. PresentIsRecent'
  BY DEF Tick, PresentIsRecent, Live
<1>3. \A a \in Answers, n \in Nat :
        Justified(a, n) => Justified(a, n + 1)'
  BY <1>1 DEF Justified
<1>4. cache' # NoEntry => Justified(cache.ans, cache.age)'
  <2>1. CASE cache' = NoEntry
    BY <2>1
  <2>2. CASE cache' # NoEntry
    <3>1. cache \in Entries /\ cache # NoEntry
          /\ cache' = [cache EXCEPT !.age = @ + 1, !.left = @ - 1]
      BY <2>2 DEF Tick, AgedEntry, IInv, TypeInv, TypeOK
    <3>2. /\ cache.ans \in Answers /\ cache.age \in Nat
          /\ cache'.ans = cache.ans /\ cache'.age = cache.age + 1
      BY <3>1, WindowType DEF Entries
    <3>3. Justified(cache.ans, cache.age)
      BY <3>1 DEF IInv, Evidence
    <3>4. QED
      BY <1>3, <3>2, <3>3 DEF Justified
  <2>3. QED
    BY <2>1, <2>2
<1>5. ASSUME NEW r \in Readers
      PROVE  /\ call'[r].pc = "readOrg" => sinceDead' <= call'[r].age
             /\ call'[r].pc \in {"setEx", "done"} =>
                  Justified(call[r].ans, call[r].age)'
  <2>1. /\ call[r] \in Calls
        /\ call'[r] = AgedCall(call[r])
        /\ call[r].pc \in {"setEx", "done"} => call[r].ans \in Answers
        /\ call[r].pc = "readOrg" => sinceDead <= call[r].age
        /\ call[r].pc \in {"setEx", "done"} => Justified(call[r].ans, call[r].age)
    BY DEF Tick, IInv, TypeInv, TypeOK, Answered, Evidence
  <2>2. CASE call[r].pc \notin InFlight
    BY <2>1, <2>2 DEF AgedCall, IdleCall
  <2>3. CASE call[r].pc \in InFlight
    <3>1. /\ call'[r].pc = call[r].pc /\ call'[r].ans = call[r].ans
          /\ call[r].age \in Nat /\ call[r].pc # "done"
          /\ call[r].pc \in {"readOrg", "setEx"} => call'[r].age = call[r].age + 1
      BY <2>1, <2>3, WindowType DEF AgedCall, Calls, InFlight
    <3>2. CASE call[r].pc = "readOrg"
      BY <1>1, <2>1, <3>1, <3>2
    <3>3. CASE call[r].pc = "setEx"
      BY <1>3, <2>1, <3>1, <3>3 DEF Justified
    <3>4. QED
      BY <3>1, <3>2, <3>3
  <2>4. QED
    BY <2>2, <2>3
<1>6. QED
  BY <1>2, <1>4, <1>5 DEF Evidence, Justified

LEMMA InitEvidence == Init => IInv
<1> SUFFICES ASSUME Init PROVE IInv
  OBVIOUS
<1>1. \A r \in Readers : call[r].pc = "idle"
  BY DEF Init, IdleCall
<1>2. PresentIsRecent
  BY DEF Init, PresentIsRecent, Live, IsLive, LiveStatuses
<1>3. QED
  BY <1>1, <1>2, InitType DEF Init, IInv, Evidence

LEMMA NextEvidence == IInv /\ [Next]_vars => IInv'
<1> SUFFICES ASSUME IInv, [Next]_vars PROVE PresentIsRecent' /\ Evidence'
  BY NextType DEF IInv
<1>1. ASSUME NEW r \in Readers, Lookup(r) PROVE PresentIsRecent' /\ Evidence'
  BY <1>1, LookupEvidence
<1>2. ASSUME NEW w \in Hooks, Webhook(w) PROVE PresentIsRecent' /\ Evidence'
  <2>1. ASSUME NEW s \in Statuses, Deliver(w, s)
        PROVE  PresentIsRecent' /\ Evidence'
    BY <2>1, QuietEvidence DEF Deliver
  <2>2. CASE UpdateRow(w)
    BY <2>2, UpdateRowEvidence
  <2>3. CASE \/ LookupOrganization(w) \/ HookFails(w) \/ Redeliver(w)
             \/ Invalidate(w) \/ InvalidateFails(w)
    BY <2>3, QuietEvidence
       DEF LookupOrganization, HookFails, Redeliver, Invalidate, InvalidateFails
  <2>4. QED
    BY <1>2, <2>1, <2>2, <2>3 DEF Webhook
<1>3. CASE RedisDown \/ RedisReady \/ Evict
  BY <1>3, QuietEvidence DEF RedisDown, RedisReady, Evict
<1>4. CASE Crash
  <2>1. \A r \in Readers : call'[r].pc = "idle"
    BY <1>4 DEF Crash, IdleCall
  <2>2. QED
    BY <1>4, <2>1 DEF Crash, IInv, PresentIsRecent, Live, Evidence, Justified, history
<1>5. CASE Tick
  BY <1>5, TickEvidence
<1>6. CASE UNCHANGED vars
  BY <1>6, QuietEvidence DEF vars
<1>7. QED
  BY <1>1, <1>2, <1>3, <1>4, <1>5, <1>6 DEF Next, Environment

LEMMA InductiveInvariant == Spec => []IInv
BY InitEvidence, NextEvidence, PTL DEF Spec

\* Whatever Redis or a call of getOrgSubscriptionInfo holds was justified by
\* the database no longer ago than its age, and no age exceeds the window.
THEOREM EvidenceCorrect == Spec => []EvidenceInv
<1>1. IInv => EvidenceInv
  BY DEF IInv, TypeInv, EvidenceInv
<1>2. QED
  BY <1>1, InductiveInvariant, PTL

-----------------------------------------------------------------------------
(***************************************************************************)
(* Where a stale entry can come from.                                      *)
(***************************************************************************)

\* A read that no webhook overtook still agrees with the row.
ReadsAgree == \A r \in Readers :
    /\ call[r].pc = "readOrg" /\ ~call[r].late => ~Live
    /\ call[r].pc = "setEx" /\ ~call[r].late => ((call[r].ans = "paid") <=> Live)

StaleInv == TypeInv /\ ReadsAgree /\ StaleOnlyByRaceOrLoss

LEMMA StepStale ==
    ASSUME StaleInv, NEW r \in Readers, NEW c \in Calls, Step(r, c),
           c.pc = "readOrg" /\ ~c.late => ~Live,
           c.pc = "setEx" /\ ~c.late => ((c.ans = "paid") <=> Live),
           \/ cache' = cache
           \/ cache'.late \/ ((cache'.ans = "paid") <=> Live)
    PROVE  ReadsAgree' /\ StaleOnlyByRaceOrLoss'
<1>1. Live' = Live /\ hook' = hook /\ delLost' = delLost
  BY DEF Step, Live
<1>2. ReadsAgree'
  BY <1>1 DEF StaleInv, TypeInv, TypeOK, ReadsAgree, Step
<1>3. StaleOnlyByRaceOrLoss'
  BY <1>1 DEF StaleInv, StaleOnlyByRaceOrLoss, StaleEntry
<1>4. QED
  BY <1>2, <1>3

LEMMA LookupStale ==
    ASSUME StaleInv, NEW r \in Readers, Lookup(r)
    PROVE  ReadsAgree' /\ StaleOnlyByRaceOrLoss'
<1>0. /\ call[r] \in Calls
      /\ cache \in Entries \cup {NoEntry}
      /\ call[r].pc = "readOrg" /\ ~call[r].late => ~Live
      /\ call[r].pc = "setEx" /\ ~call[r].late => ((call[r].ans = "paid") <=> Live)
      /\ IdleCall \in Calls /\ IdleCall.pc = "idle"
  BY IdleTypes DEF StaleInv, TypeInv, TypeOK, ReadsAgree, IdleCall
<1>1. CASE Begin(r)
  <2> DEFINE c == [IdleCall EXCEPT !.pc = IF connected THEN "get" ELSE "readSub",
                                   !.usable = connected]
  <2>1. c \in Calls /\ c.pc \in {"get", "readSub"}
    BY <1>0, IdleTypes DEF Calls, CallSteps, StaleInv, TypeInv, TypeOK
  <2>2. cache' = cache /\ Step(r, c)
    BY <1>1 DEF Begin
  <2> HIDE DEF c
  <2>3. QED
    BY <1>0, <2>1, <2>2, StepStale
<1>2. CASE CacheHit(r)
  BY <1>0, <1>2, StepStale DEF CacheHit, Calls, CallSteps, Entries, Answers
<1>3. CASE CacheMiss(r) \/ CacheGetFails(r)
  BY <1>0, <1>3, StepStale DEF CacheMiss, CacheGetFails, Calls, CallSteps
<1>4. CASE ReadSubscription(r)
  <2> DEFINE paying == [call[r] EXCEPT !.pc = AfterDatabase(r), !.ans = "paid",
                                       !.age = 0, !.late = FALSE]
             unpaid == [call[r] EXCEPT !.pc = "readOrg", !.age = 0, !.late = FALSE]
  <2>1. AfterDatabase(r) \in {"setEx", "done"} /\ "readOrg" \in CallSteps
        /\ "paid" \in Answers /\ 0 \in 0..Window
        /\ AfterDatabase(r) \in CallSteps
    BY WindowType DEF AfterDatabase, CallSteps, Answers
  <2>2. paying \in Calls /\ unpaid \in Calls
    BY <1>0, <2>1 DEF Calls
  <2>3. paying.pc # "readOrg" /\ paying.ans = "paid" /\ unpaid.pc = "readOrg"
    BY <1>0, <2>1 DEF Calls
  <2>4. cache' = cache /\ Step(r, IF Live THEN paying ELSE unpaid)
    BY <1>4 DEF ReadSubscription
  <2> HIDE DEF paying, unpaid
  <2>5. QED
    BY <1>0, <2>2, <2>3, <2>4, StepStale
<1>5. CASE ReadOrganization(r)
  <2> DEFINE a == IF trialLeft > 0 THEN "trial" ELSE "expired"
             c == [call[r] EXCEPT !.pc = AfterDatabase(r), !.ans = a]
  <2>1. /\ AfterDatabase(r) \in {"setEx", "done"} /\ AfterDatabase(r) \in CallSteps
        /\ a \in Answers /\ a # "paid"
    BY DEF AfterDatabase, CallSteps, Answers
  <2> HIDE DEF a
  <2>2. c \in Calls /\ c.pc # "readOrg" /\ c.ans = a /\ c.late = call[r].late
    BY <1>0, <2>1 DEF Calls
  <2>3. cache' = cache /\ Step(r, c) /\ call[r].pc = "readOrg"
    BY <1>5 DEF ReadOrganization, a
  <2> HIDE DEF c
  <2>4. QED
    BY <1>0, <2>1, <2>2, <2>3, StepStale
<1>6. CASE DatabaseFails(r) \/ Return(r)
  BY <1>0, <1>6, StepStale DEF DatabaseFails, Return
<1>7. CASE CacheSetEx(r)
  BY <1>0, <1>7, StepStale DEF CacheSetEx, Calls, CallSteps
<1>8. CASE CacheSetExFails(r)
  BY <1>0, <1>8, StepStale DEF CacheSetExFails, Calls, CallSteps
<1>9. QED
  BY <1>1, <1>2, <1>3, <1>4, <1>5, <1>6, <1>7, <1>8 DEF Lookup

LEMMA WebhookStale ==
    ASSUME StaleInv, NEW w \in Hooks, Webhook(w)
    PROVE  ReadsAgree' /\ StaleOnlyByRaceOrLoss'
<1>0. hook \in [Hooks -> Deliveries]
  BY DEF StaleInv, TypeInv, TypeOK
<1>1. CASE \/ \E s \in Statuses : Deliver(w, s)
           \/ LookupOrganization(w) \/ HookFails(w) \/ Redeliver(w)
  <2>1. hook'[w].pc # "idle" /\ call' = call /\ status' = status
    BY <1>0, <1>1 DEF Deliver, LookupOrganization, HookFails, Redeliver, Moved,
                      Deliveries
  <2>2. QED
    BY <2>1 DEF StaleInv, ReadsAgree, StaleOnlyByRaceOrLoss, Live
<1>2. CASE UpdateRow(w)
  <2>1. hook'[w].pc # "idle"
    BY <1>0, <1>2 DEF UpdateRow, Moved, Deliveries
  <2>2. ASSUME NEW r \in Readers
        PROVE  /\ call'[r].pc = call[r].pc /\ call'[r].ans = call[r].ans
               /\ \/ call'[r].late
                  \/ call'[r].late = call[r].late /\ (Live' <=> Live)
                  \/ call[r].pc \notin {"readOrg", "setEx"}
    BY <1>2 DEF UpdateRow, Overtaken, StaleInv, TypeInv, TypeOK, Calls, Live
  <2>3. QED
    BY <2>1, <2>2 DEF StaleInv, ReadsAgree, StaleOnlyByRaceOrLoss
<1>3. CASE Invalidate(w)
  BY <1>3 DEF Invalidate, StaleInv, ReadsAgree, StaleOnlyByRaceOrLoss,
              StaleEntry, Live
<1>4. CASE InvalidateFails(w)
  BY <1>4 DEF InvalidateFails, StaleInv, ReadsAgree, StaleOnlyByRaceOrLoss, Live
<1>5. QED
  BY <1>1, <1>2, <1>3, <1>4 DEF Webhook

LEMMA TickStale ==
    ASSUME StaleInv, Tick PROVE ReadsAgree' /\ StaleOnlyByRaceOrLoss'
<1>1. cache' # NoEntry => /\ cache # NoEntry /\ cache'.ans = cache.ans
                          /\ cache'.late = cache.late
  BY DEF Tick, AgedEntry, StaleInv, TypeInv, TypeOK, Entries
<1>2. ASSUME NEW r \in Readers
      PROVE  \/ call'[r].pc = "idle"
             \/ /\ call'[r].pc = call[r].pc /\ call'[r].ans = call[r].ans
                /\ call'[r].late = call[r].late
  BY DEF Tick, AgedCall, IdleCall, StaleInv, TypeInv, TypeOK, Calls
<1>3. Live' = Live /\ hook' = hook /\ delLost' = delLost
  BY DEF Tick, Live
<1>4. QED
  BY <1>1, <1>2, <1>3 DEF StaleInv, ReadsAgree, StaleOnlyByRaceOrLoss, StaleEntry

LEMMA NextStale == StaleInv /\ [Next]_vars => StaleInv'
<1> SUFFICES ASSUME StaleInv, [Next]_vars
             PROVE  ReadsAgree' /\ StaleOnlyByRaceOrLoss'
  BY NextType DEF StaleInv
<1>1. ASSUME NEW r \in Readers, Lookup(r)
      PROVE  ReadsAgree' /\ StaleOnlyByRaceOrLoss'
  BY <1>1, LookupStale
<1>2. ASSUME NEW w \in Hooks, Webhook(w)
      PROVE  ReadsAgree' /\ StaleOnlyByRaceOrLoss'
  BY <1>2, WebhookStale
<1>3. CASE RedisDown \/ RedisReady \/ Evict \/ UNCHANGED vars
  BY <1>3 DEF RedisDown, RedisReady, Evict, vars, StaleInv, ReadsAgree,
              StaleOnlyByRaceOrLoss, StaleEntry, Live
<1>4. CASE Crash
  <2>1. \A r \in Readers : call'[r].pc = "idle"
    BY <1>4 DEF Crash, IdleCall
  <2>2. \A w \in Hooks : hook[w].pc # "idle" => hook'[w].pc # "idle"
    BY <1>4 DEF Crash, StaleInv, TypeInv, TypeOK, Deliveries
  <2>3. QED
    BY <1>4, <2>1, <2>2 DEF Crash, StaleInv, ReadsAgree, StaleOnlyByRaceOrLoss,
                            StaleEntry, Live
<1>5. CASE Tick
  BY <1>5, TickStale
<1>6. QED
  BY <1>1, <1>2, <1>3, <1>4, <1>5 DEF Next, Environment

\* Once every webhook is acknowledged and no DEL was lost, only a read that a
\* webhook overtook can have left an entry that disagrees with the row.
THEOREM StaleEntriesExplained == Spec => []StaleOnlyByRaceOrLoss
<1>1. Init => StaleInv
  <2> SUFFICES ASSUME Init PROVE StaleInv
    OBVIOUS
  <2>1. \A r \in Readers : call[r].pc = "idle"
    BY DEF Init, IdleCall
  <2>2. QED
    BY <2>1, InitType DEF Init, StaleInv, ReadsAgree, StaleOnlyByRaceOrLoss, StaleEntry
<1>2. StaleInv => StaleOnlyByRaceOrLoss
  BY DEF StaleInv
<1>3. QED
  BY <1>1, <1>2, NextStale, PTL DEF Spec
-----------------------------------------------------------------------------
(***************************************************************************)
(* The lookup implements Entitlement: each step is a step of the abstract  *)
(* specification or leaves its variables alone.                            *)
(***************************************************************************)
answerBar == [r \in Readers |-> IF call[r].pc = "done" THEN call[r].ans ELSE "none"]

\* A step that takes a call to "done" is the abstract Answer.
LEMMA Served ==
    ASSUME IInv, NEW r \in Readers, NEW c \in Calls, Step(r, c),
           call[r].pc # "done", c.pc = "done",
           c.ans \in Answers, Justified(c.ans, c.age), c.age <= Window
    PROVE  E!Answer(r)
<1>1. answerBar[r] = "none" /\ answerBar' = [answerBar EXCEPT ![r] = c.ans]
  BY DEF answerBar, Step, IInv, TypeInv, TypeOK
<1>2. E!Supported(c.ans)
  <2>1. /\ c.age \in Nat /\ sinceLive \in Nat /\ sinceDead \in Nat
        /\ trialLeft \in Int
    BY WindowType DEF Calls, IInv, TypeInv, TypeOK
  <2>2. CASE c.ans = "paid"
    BY <2>1, <2>2, WindowType DEF E!Supported, Justified
  <2>3. CASE c.ans = "trial"
    BY <2>1, <2>3, WindowType DEF E!Supported, Justified
  <2>4. CASE c.ans = "expired"
    BY <2>1, <2>4, WindowType DEF E!Supported, Justified
  <2>5. QED
    BY <2>2, <2>3, <2>4 DEF Answers
<1>3. /\ Live' = Live /\ trialLeft' = trialLeft
      /\ sinceLive' = sinceLive /\ sinceDead' = sinceDead
  BY DEF Step, history, Live
<1>4. QED
  BY <1>1, <1>2, <1>3 DEF E!Answer, E!Answers, Answers, answerBar

\* Any other step of a call leaves the abstract state alone.
LEMMA Silent ==
    ASSUME IInv, NEW r \in Readers, NEW c \in Calls, Step(r, c),
           call[r].pc # "done", c.pc # "done"
    PROVE  UNCHANGED E!vars
<1>1. answerBar' = answerBar
  BY DEF answerBar, Step, IInv, TypeInv, TypeOK
<1>2. QED
  BY <1>1 DEF Step, history, Live, E!vars, answerBar

LEMMA Forgotten ==
    ASSUME NEW S \in SUBSET Readers,
           UNCHANGED <<status, trialLeft, history>>,
           \A r \in S : call'[r].pc = "idle",
           \A r \in Readers \ S : call'[r] = call[r]
    PROVE  E!Forget(S)
BY DEF E!Forget, history, Live

LEMMA LookupRefines ==
    ASSUME IInv, NEW r \in Readers, Lookup(r)
    PROVE  E!Next \/ UNCHANGED E!vars
<1>0. /\ call[r] \in Calls
      /\ cache \in Entries \cup {NoEntry}
      /\ IdleCall \in Calls /\ IdleCall.pc = "idle"
      /\ call[r].pc \in {"setEx", "done"} =>
           call[r].ans \in Answers /\ Justified(call[r].ans, call[r].age)
  BY IdleTypes DEF IInv, TypeInv, TypeOK, IdleCall, Answered, Evidence
<1>1. CASE Begin(r)
  <2> DEFINE c == [IdleCall EXCEPT !.pc = IF connected THEN "get" ELSE "readSub",
                                   !.usable = connected]
  <2>1. c \in Calls /\ c.pc \in {"get", "readSub"}
    BY <1>0 DEF Calls, CallSteps, IInv, TypeInv, TypeOK
  <2>2. Step(r, c) /\ call[r].pc = "idle"
    BY <1>1 DEF Begin
  <2> HIDE DEF c
  <2>3. QED
    BY <2>1, <2>2, Silent
<1>2. CASE CacheHit(r)
  <2> DEFINE c == [call[r] EXCEPT !.pc = "done", !.ans = cache.ans,
                                  !.age = cache.age, !.late = cache.late]
  <2>1. /\ cache \in Entries /\ Justified(cache.ans, cache.age)
        /\ Step(r, c) /\ call[r].pc = "get"
    BY <1>0, <1>2 DEF CacheHit, IInv, Evidence
  <2>0. /\ cache.ans \in Answers /\ cache.age \in 0..Window
        /\ cache.late \in BOOLEAN /\ "done" \in CallSteps
    BY <2>1 DEF Entries, CallSteps
  <2>2. c \in Calls
    BY <1>0, <2>0 DEF Calls
  <2>3. c.pc = "done" /\ c.ans = cache.ans /\ c.age = cache.age
    BY <1>0 DEF Calls
  <2> HIDE DEF c
  <2>4. E!Answer(r)
    BY <2>0, <2>1, <2>2, <2>3, WindowType, Served
  <2>5. QED
    BY <2>4 DEF E!Next
<1>3. CASE CacheMiss(r) \/ CacheGetFails(r) \/ DatabaseFails(r)
  BY <1>0, <1>3, Silent DEF CacheMiss, CacheGetFails, DatabaseFails, Calls, CallSteps
<1>4. CASE ReadSubscription(r)
  <2> DEFINE paying == [call[r] EXCEPT !.pc = AfterDatabase(r), !.ans = "paid",
                                       !.age = 0, !.late = FALSE]
             unpaid == [call[r] EXCEPT !.pc = "readOrg", !.age = 0, !.late = FALSE]
  <2>1. AfterDatabase(r) \in {"setEx", "done"} /\ "readOrg" \in CallSteps
        /\ "paid" \in Answers /\ 0 \in 0..Window
        /\ AfterDatabase(r) \in CallSteps
    BY WindowType DEF AfterDatabase, CallSteps, Answers
  <2>2. paying \in Calls /\ unpaid \in Calls
    BY <1>0, <2>1 DEF Calls
  <2>3. /\ paying.pc \in {"setEx", "done"} /\ paying.ans = "paid" /\ paying.age = 0
        /\ unpaid.pc = "readOrg"
    BY <1>0, <2>1 DEF Calls
  <2>4. call[r].pc = "readSub" /\ Step(r, IF Live THEN paying ELSE unpaid)
    BY <1>4 DEF ReadSubscription
  <2> HIDE DEF paying, unpaid
  <2>5. CASE Live
    <3>1. Justified(paying.ans, paying.age)
      BY <2>3, <2>5 DEF Justified, IInv, PresentIsRecent
    <3>2. CASE paying.pc = "done"
      BY <2>1, <2>2, <2>3, <2>4, <2>5, <3>1, <3>2, Served, WindowType DEF E!Next
    <3>3. CASE paying.pc # "done"
      BY <2>2, <2>4, <2>5, <3>3, Silent
    <3>4. QED
      BY <3>2, <3>3
  <2>6. CASE ~Live
    BY <2>2, <2>3, <2>4, <2>6, Silent
  <2>7. QED
    BY <2>5, <2>6
<1>5. CASE ReadOrganization(r)
  <2> DEFINE a == IF trialLeft > 0 THEN "trial" ELSE "expired"
             c == [call[r] EXCEPT !.pc = AfterDatabase(r), !.ans = a]
  <2>1. /\ AfterDatabase(r) \in {"setEx", "done"} /\ AfterDatabase(r) \in CallSteps
        /\ a \in Answers
        /\ a = "trial" => trialLeft > 0
        /\ a = "expired" => ~(trialLeft > 0)
        /\ a # "paid"
    BY DEF AfterDatabase, CallSteps, Answers
  <2> HIDE DEF a
  <2>2. /\ c \in Calls /\ c.pc \in {"setEx", "done"} /\ c.ans = a
        /\ c.age = call[r].age /\ c.age \in 0..Window
    BY <1>0, <2>1 DEF Calls
  <2>3. Step(r, c) /\ call[r].pc = "readOrg"
    BY <1>5 DEF ReadOrganization, a
  <2> HIDE DEF c
  <2>4. Justified(c.ans, c.age)
    <3>1. sinceDead <= c.age /\ c.age \in Nat /\ trialLeft \in Int
      BY <2>2, <2>3, WindowType DEF IInv, Evidence, TypeInv, TypeOK
    <3>2. QED
      BY <2>1, <2>2, <3>1 DEF Justified
  <2>5. CASE c.pc = "done"
    BY <2>1, <2>2, <2>3, <2>4, <2>5, Served, WindowType DEF E!Next
  <2>6. CASE c.pc # "done"
    BY <2>2, <2>3, <2>6, Silent
  <2>7. QED
    BY <2>5, <2>6
<1>6. CASE CacheSetEx(r) \/ CacheSetExFails(r)
  <2> DEFINE c == [call[r] EXCEPT !.pc = "done"]
  <2>1. Step(r, c) /\ call[r].pc = "setEx"
    BY <1>6 DEF CacheSetEx, CacheSetExFails
  <2>2. /\ c \in Calls /\ c.pc = "done" /\ c.ans = call[r].ans
        /\ c.age = call[r].age /\ c.age <= Window
    BY <1>0, WindowType DEF Calls, CallSteps
  <2> HIDE DEF c
  <2>3. E!Answer(r)
    BY <1>0, <2>1, <2>2, Served
  <2>4. QED
    BY <2>3 DEF E!Next
<1>7. CASE Return(r)
  <2>1. /\ UNCHANGED <<status, trialLeft, history>>
        /\ \A q \in {r} : call'[q].pc = "idle"
        /\ \A q \in Readers \ {r} : call'[q] = call[q]
    BY <1>0, <1>7 DEF Return, Step, IInv, TypeInv, TypeOK, history
  <2>2. E!Forget({r})
    BY <2>1, Forgotten
  <2>3. QED
    BY <2>2 DEF E!Next
<1>8. QED
  BY <1>1, <1>2, <1>3, <1>4, <1>5, <1>6, <1>7 DEF Lookup

LEMMA UpdateRowRefines ==
    ASSUME IInv, NEW w \in Hooks, UpdateRow(w)
    PROVE  E!Next \/ UNCHANGED E!vars
<1>1. answerBar' = answerBar
  <2>1. \A r \in Readers : call'[r].pc = call[r].pc /\ call'[r].ans = call[r].ans
    BY DEF UpdateRow, IInv, TypeInv, TypeOK, Calls
  <2>2. QED
    BY <2>1 DEF answerBar
<1>2. trialLeft' = trialLeft
  BY DEF UpdateRow
<1>3. CASE Live' <=> Live
  <2>1. sinceLive' = sinceLive /\ sinceDead' = sinceDead
    BY <1>3 DEF UpdateRow, IInv, PresentIsRecent
  <2>2. Live' = Live
    BY <1>3 DEF Live, IsLive
  <2>3. QED
    BY <1>1, <1>2, <2>1, <2>2 DEF E!vars, answerBar
<1>4. CASE ~(Live' <=> Live)
  <2>1. Live' = ~Live
    BY <1>4 DEF Live, IsLive
  <2>2. E!ChangeRow
    BY <1>1, <1>2, <2>1 DEF E!ChangeRow, UpdateRow, answerBar
  <2>3. QED
    BY <2>2 DEF E!Next
<1>5. QED
  BY <1>3, <1>4

LEMMA TickRefines == ASSUME IInv, Tick PROVE E!Tick
<1>1. \A r \in Readers : call'[r].pc # "done"
  BY DEF Tick, AgedCall, IdleCall, InFlight, IInv, TypeInv, TypeOK, Calls
<1>2. Live' = Live
  BY DEF Tick, Live
<1>3. QED
  BY <1>1, <1>2 DEF Tick, E!Tick, Older, E!Older

\* The cached lookup keeps the paywall's promise (subscription.service.ts:1-13):
\* every answer is one the row and the trial supported in the last
\* TTL + MaxLatency ticks, whatever Redis, Stripe and the process do.
THEOREM LookupImplementsEntitlement == Spec => RefinesEntitlement
<1>1. Init => E!Init
  <2> SUFFICES ASSUME Init PROVE E!Init
    OBVIOUS
  <2>1. \A r \in Readers : call[r].pc = "idle"
    BY DEF Init, IdleCall
  <2>2. ~Live
    BY DEF Init, Live, IsLive, LiveStatuses
  <2>3. QED
    BY <2>1, <2>2 DEF Init, E!Init
<1>2. IInv /\ [Next]_vars => [E!Next]_(E!vars)
  <2> SUFFICES ASSUME IInv, [Next]_vars PROVE E!Next \/ UNCHANGED E!vars
    OBVIOUS
  <2>1. ASSUME NEW r \in Readers, Lookup(r) PROVE E!Next \/ UNCHANGED E!vars
    BY <2>1, LookupRefines
  <2>2. ASSUME NEW w \in Hooks, Webhook(w) PROVE E!Next \/ UNCHANGED E!vars
    <3>1. CASE UpdateRow(w)
      BY <3>1, UpdateRowRefines
    <3>2. CASE ~UpdateRow(w)
      BY <2>2, <3>2
         DEF Webhook, Deliver, LookupOrganization, Invalidate, InvalidateFails,
             HookFails, Redeliver, history, E!vars, Live
    <3>3. QED
      BY <3>1, <3>2
  <2>3. CASE RedisDown \/ RedisReady \/ Evict \/ UNCHANGED vars
    BY <2>3 DEF RedisDown, RedisReady, Evict, vars, history, E!vars, Live
  <2>4. CASE Crash
    <3>1. \A r \in Readers : call'[r].pc = "idle"
      BY <2>4 DEF Crash, IdleCall
    <3>2. E!Forget(Readers)
      BY <2>4, <3>1, Forgotten DEF Crash
    <3>3. QED
      BY <3>2 DEF E!Next
  <2>5. CASE Tick
    BY <2>5, TickRefines DEF E!Next
  <2>6. QED
    BY <2>1, <2>2, <2>3, <2>4, <2>5 DEF Next, Environment
<1>3. QED
  BY <1>1, <1>2, InductiveInvariant, PTL DEF Spec, RefinesEntitlement, E!Spec

-----------------------------------------------------------------------------
(***************************************************************************)
(* Paywall, for any users, organizations and concurrent requests: whom it  *)
(* lets pass, and whom it turns away.                                      *)
(***************************************************************************)
USE ScopeAssumption

LEMMA HoldsFindings == \A o : Holds(o) \subseteq Findings
BY DEF Holds, Findings

LEMMA PaywallInitialType == PaywallInit => PaywallTypeOK
<1> SUFFICES ASSUME PaywallInit PROVE PaywallTypeOK
  OBVIOUS
<1>1. \A u \in Users : NoRequest(u) \in GatedRequests
  BY DEF NoRequest, GatedRequests, PlatformRoles
<1>2. req \in [Requests -> GatedRequests]
  BY <1>1 DEF PaywallInit
<1>3. lately \in [Orgs -> SUBSET Findings]
  BY HoldsFindings DEF PaywallInit
<1>4. QED
  BY <1>2, <1>3 DEF PaywallInit, PaywallTypeOK

LEMMA UserType ==
    ASSUME PaywallTypeOK, NEW u \in Users, UserStep(u) PROVE PaywallTypeOK'
<1>1. ASSUME NEW r \in PlatformRoles, ChangeRole(u, r) PROVE PaywallTypeOK'
  BY <1>1 DEF ChangeRole, money, PaywallTypeOK
<1>2. ASSUME NEW orgs \in SUBSET Orgs, JoinOrLeave(u, orgs) PROVE PaywallTypeOK'
  BY <1>2 DEF JoinOrLeave, Running, money, PaywallTypeOK
<1>3. ASSUME NEW s \in Orgs \cup {None}, SetScope(u, s) PROVE PaywallTypeOK'
  BY <1>3 DEF SetScope, Running, money, PaywallTypeOK
<1>4. ASSUME NEW r \in PlatformRoles \cup {None}, CacheSession(u, r) PROVE PaywallTypeOK'
  BY <1>4 DEF CacheSession, money, PaywallTypeOK
<1>5. QED
  BY <1>1, <1>2, <1>3, <1>4 DEF UserStep

LEMMA MoneyType ==
    ASSUME PaywallTypeOK, NEW o \in Orgs, MoneyStep(o) PROVE PaywallTypeOK'
<1>1. CASE Pay(o)
  <2>1. lately' \in [Orgs -> SUBSET Findings]
    BY <1>1 DEF Pay, PaywallTypeOK, Findings
  <2>2. due' \in [Requests -> SUBSET Orgs]
    BY <1>1 DEF Pay, Noted, PaywallTypeOK
  <2>3. QED
    BY <1>1, <2>1, <2>2 DEF Pay, people, PaywallTypeOK
<1>2. CASE Lapse(o)
  <2>1. lately' \in [Orgs -> SUBSET Findings]
    BY <1>2 DEF Lapse, PaywallTypeOK, Findings
  <2>2. broke' \in [Requests -> SUBSET Orgs]
    BY <1>2 DEF Lapse, Noted, PaywallTypeOK
  <2>3. QED
    BY <1>2, <2>1, <2>2 DEF Lapse, people, PaywallTypeOK
<1>3. ASSUME NEW trials \in {trial, trial \ {o}}, NEW kept \in SUBSET Findings,
             TimePasses(o, trials, kept)
      PROVE  PaywallTypeOK'
  <2>1. Holds(o)' \subseteq Findings
    BY DEF Holds, Findings
  <2>2. QED
    BY <1>3, <2>1 DEF TimePasses, people, PaywallTypeOK
<1>4. QED
  BY <1>1, <1>2, <1>3 DEF MoneyStep

\* What the steps between the beginning of a request and its end do.
Moves(q) ==
    /\ \E r \in GatedRequests :
         /\ r.user = req[q].user /\ r.role = req[q].role /\ r.pc \notin {"idle", "session"}
         /\ req' = [req EXCEPT ![q] = r]
    /\ req[q].pc # "idle"
    /\ UNCHANGED <<people, money, due, broke, moved>>

LEMMA RequestMoves ==
    ASSUME PaywallTypeOK, NEW q \in Requests, RequestStep(q)
    PROVE  \/ Moves(q)
           \/ \E u \in Users : BeginRequest(q, u)
           \/ EndRequest(q)
<1>1. req[q] \in GatedRequests
  BY DEF PaywallTypeOK
<1>2. ASSUME RequireAuth(q) PROVE Moves(q)
  <2>1. scope[req[q].user] \in Orgs \cup {None}
    BY <1>1 DEF PaywallTypeOK, GatedRequests
  <2> DEFINE r == [req[q] EXCEPT !.pc = "paywall", !.scope = scope[req[q].user]]
  <2>2. r \in GatedRequests
    BY <1>1, <2>1 DEF GatedRequests
  <2>3. r.user = req[q].user /\ r.role = req[q].role /\ r.pc = "paywall"
    BY <1>1 DEF GatedRequests
  <2>4. req' = [req EXCEPT ![q] = r] /\ req[q].pc = "session"
    BY <1>2 DEF RequireAuth, PaywallTypeOK
  <2>5. UNCHANGED <<people, money, due, broke, moved>>
    BY <1>2 DEF RequireAuth, Unchanging
  <2> HIDE DEF r
  <2>6. r.pc \notin {"idle", "session"} /\ req[q].pc # "idle"
    BY <2>3, <2>4
  <2>7. QED
    BY <2>2, <2>3, <2>4, <2>5, <2>6 DEF Moves
<1>3. ASSUME NEW pc \in {"served", "refused"}, req' = [req EXCEPT ![q].pc = pc],
             req[q].pc # "idle", Unchanging
      PROVE  Moves(q)
  <2>1. [req[q] EXCEPT !.pc = pc] \in GatedRequests
    BY <1>1 DEF GatedRequests
  <2>2. QED
    BY <1>1, <1>3, <2>1 DEF Unchanging, Moves, GatedRequests
<1>4. ASSUME NEW o \in Orgs \cup {None}, JudgedBy(q, o) PROVE Moves(q)
  <2> DEFINE r == [req[q] EXCEPT !.pc = "lookup", !.org = o]
  <2>1. r \in GatedRequests
    BY <1>1 DEF GatedRequests
  <2>2. r.user = req[q].user /\ r.role = req[q].role /\ r.pc = "lookup"
    BY <1>1 DEF GatedRequests
  <2>3. req' = [req EXCEPT ![q] = r] /\ req[q].pc = "paywall"
    BY <1>4 DEF JudgedBy, PaywallTypeOK
  <2>4. UNCHANGED <<people, money, due, broke, moved>>
    BY <1>4 DEF JudgedBy, Unchanging
  <2> HIDE DEF r
  <2>5. r.pc \notin {"idle", "session"} /\ req[q].pc # "idle"
    BY <2>2, <2>3
  <2>6. QED
    BY <2>1, <2>2, <2>3, <2>4, <2>5 DEF Moves
<1>5. req[q].scope \in Orgs \cup {None} /\ member[req[q].user] \subseteq Orgs
  BY <1>1 DEF PaywallTypeOK, GatedRequests
<1>6. ASSUME PassAdmin(q) PROVE Moves(q)
  BY <1>3, <1>6 DEF PassAdmin
<1>7. ASSUME PassWithoutOrg(q) PROVE Moves(q)
  BY <1>3, <1>7 DEF PassWithoutOrg
<1>8. ASSUME NEW isActive \in BOOLEAN, Judge(q, isActive) PROVE Moves(q)
  BY <1>3, <1>8 DEF Judge
<1>9. QED
  BY <1>2, <1>4, <1>5, <1>6, <1>7, <1>8
     DEF RequestStep, ResolveScope, ResolveMembership

LEMMA RequestStepType ==
    ASSUME PaywallTypeOK, NEW q \in Requests, RequestStep(q) PROVE PaywallTypeOK'
<1>1. CASE Moves(q)
  BY <1>1 DEF Moves, people, money, PaywallTypeOK
<1>2. ASSUME NEW u \in Users, BeginRequest(q, u) PROVE PaywallTypeOK'
  <2>1. (IF cookie[u] # None THEN cookie[u] ELSE role[u]) \in PlatformRoles
    BY DEF PaywallTypeOK
  <2>2. req' \in [Requests -> GatedRequests]
    BY <1>2, <2>1 DEF BeginRequest, NoRequest, GatedRequests, PaywallTypeOK
  <2>3. QED
    BY <1>2, <2>2 DEF BeginRequest, people, money, PaywallTypeOK
<1>3. CASE EndRequest(q)
  <2>1. NoRequest(req[q].user) \in GatedRequests
    BY DEF PaywallTypeOK, NoRequest, GatedRequests, PlatformRoles
  <2>2. QED
    BY <1>3, <2>1 DEF EndRequest, people, money, PaywallTypeOK
<1>4. QED
  BY <1>1, <1>2, <1>3, RequestMoves

LEMMA PaywallStepType == PaywallTypeOK /\ [PaywallNext]_paywallVars => PaywallTypeOK'
<1> SUFFICES ASSUME PaywallTypeOK, [PaywallNext]_paywallVars PROVE PaywallTypeOK'
  OBVIOUS
<1>1. CASE UNCHANGED paywallVars
  BY <1>1 DEF paywallVars, people, money, PaywallTypeOK
<1>2. CASE PaywallNext
  BY <1>2, UserType, MoneyType, RequestStepType DEF PaywallNext
<1>3. QED
  BY <1>1, <1>2

\* The paywall, its requests and what they are judged by keep every variable of
\* Paywall in its type.
THEOREM PaywallTypeCorrect == PaywallSpec => []PaywallTypeOK
<1>1. QED
  BY PaywallInitialType, PaywallStepType, PTL DEF PaywallSpec

-----------------------------------------------------------------------------
(***************************************************************************)
(* What the paywall knows.  A request under way has on record whatever the *)
(* window holds; what it has resolved is the scope or a membership as they *)
(* are, unless they have moved; and its verdict rests on the record.       *)
(***************************************************************************)
Remembered == \A o \in Orgs : Holds(o) \subseteq lately[o]

Recorded(q) ==
    req[q].pc # "idle" =>
        \A o \in Orgs : /\ Entitling(o) => o \in due[q]
                        /\ "unpaid" \in lately[o] => o \in broke[q]

Resolved(q) ==
    /\ req[q].pc \notin {"idle", "session"} /\ q \notin moved =>
           req[q].scope = scope[req[q].user]
    /\ req[q].pc = "lookup" =>
           /\ req[q].role # "admin" /\ req[q].org \in Orgs
           /\ q \notin moved => req[q].org \in Judges(q)

Judged(q) ==
    /\ req[q].pc = "served" /\ Asked(q) => Judges(q) = {} \/ Judges(q) \cap due[q] # {}
    /\ req[q].pc = "refused" =>
           /\ req[q].role # "admin"
           /\ q \notin moved => (Judges(q) \cap broke[q]) \ trial # {}

Known(q) == Recorded(q) /\ Resolved(q) /\ Judged(q)

PaywallInv == Remembered /\ \A q \in Requests : Known(q)

\* A step of somebody else: the record only grows, and whoever moves is known.
Undisturbed(q) ==
    /\ req'[q] = req[q]
    /\ due[q] \subseteq due'[q] /\ broke[q] \subseteq broke'[q] /\ trial' \subseteq trial
    /\ q \in moved => q \in moved'
    /\ \/ UNCHANGED <<member, scope>>
       \/ req[q].pc = "idle" \/ q \in moved'
       \/ /\ member'[req[q].user] = member[req[q].user]
          /\ scope'[req[q].user] = scope[req[q].user]

LEMMA UndisturbedVerdict ==
    ASSUME PaywallTypeOK, NEW q \in Requests, Resolved(q), Judged(q), Undisturbed(q)
    PROVE  Resolved(q)' /\ Judged(q)'
<1>1. CASE req[q].pc = "idle"
  BY <1>1 DEF Undisturbed, Resolved, Judged
<1>2. CASE q \in moved'
  BY <1>2 DEF Undisturbed, Resolved, Judged, Asked
<1>3. CASE req[q].pc # "idle" /\ q \notin moved'
  <2>1. q \notin moved /\ req'[q] = req[q]
    BY <1>3 DEF Undisturbed
  <2>2. /\ member'[req[q].user] = member[req[q].user]
        /\ scope'[req[q].user] = scope[req[q].user]
    BY <1>3 DEF Undisturbed
  <2>3. Judges(q)' = Judges(q) /\ Asked(q)' = Asked(q)
    BY <1>3, <2>1, <2>2 DEF Judges, Own, Asked
  <2>4. Resolved(q)'
    BY <2>1, <2>2, <2>3 DEF Resolved
  <2>5. Judged(q)'
    BY <2>1, <2>3 DEF Judged, Undisturbed
  <2>6. QED
    BY <2>4, <2>5
<1>4. QED
  BY <1>1, <1>2, <1>3

LEMMA UserStepInv ==
    ASSUME PaywallTypeOK, PaywallInv, NEW u \in Users, UserStep(u) PROVE PaywallInv'
<1>1. UNCHANGED <<money, req, due, broke>> /\ moved \subseteq moved'
  BY DEF UserStep, ChangeRole, JoinOrLeave, SetScope, CacheSession
<1>2. Remembered'
  BY <1>1 DEF PaywallInv, Remembered, Holds, money
<1>3. ASSUME NEW q \in Requests PROVE Known(q)'
  <2>1. Recorded(q)'
    BY <1>1 DEF PaywallInv, Known, Recorded, Entitling, money
  <2>2. Undisturbed(q)
    <3>1. CASE \E r \in PlatformRoles : ChangeRole(u, r)
      BY <1>1, <3>1 DEF ChangeRole, Undisturbed, money
    <3>2. CASE \E r \in PlatformRoles \cup {None} : CacheSession(u, r)
      BY <1>1, <3>2 DEF CacheSession, Undisturbed, money
    <3>3. ASSUME NEW orgs \in SUBSET Orgs, JoinOrLeave(u, orgs) PROVE Undisturbed(q)
      BY <1>1, <3>3 DEF JoinOrLeave, Running, Undisturbed, money, PaywallTypeOK
    <3>4. ASSUME NEW s \in Orgs \cup {None}, SetScope(u, s) PROVE Undisturbed(q)
      BY <1>1, <3>4 DEF SetScope, Running, Undisturbed, money, PaywallTypeOK
    <3>5. QED
      BY <3>1, <3>2, <3>3, <3>4 DEF UserStep
  <2>3. QED
    BY <2>1, <2>2, UndisturbedVerdict DEF PaywallInv, Known
<1>4. QED
  BY <1>2, <1>3 DEF PaywallInv

\* A payment and its end go on the record of every request under way.
LEMMA MoneyRecorded ==
    ASSUME PaywallTypeOK, PaywallInv, NEW o \in Orgs, MoneyStep(o)
    PROVE  Remembered' /\ \A q \in Requests : Recorded(q)'
<1>1. CASE Pay(o)
  <2>1. /\ \A p \in Orgs : lately'[p] = IF p = o THEN lately[p] \cup {"paid"} ELSE lately[p]
        /\ \A q \in Requests :
             due'[q] = IF req[q].pc = "idle" THEN due[q] ELSE due[q] \cup {o}
    BY <1>1 DEF Pay, Noted, PaywallTypeOK
  <2>2. UNCHANGED <<req, broke, trial>> /\ paid' = paid \cup {o}
    BY <1>1 DEF Pay
  <2>3. Remembered'
    BY <2>1, <2>2 DEF PaywallInv, Remembered, Holds
  <2>4. ASSUME NEW p \in Orgs, "unpaid" \in lately'[p] PROVE "unpaid" \in lately[p]
    <3>1. lately'[p] \subseteq lately[p] \cup {"paid"}
      BY <2>1
    <3>2. QED
      BY <2>4, <3>1
  <2>5. \A q \in Requests : Recorded(q)'
    <3>1. \A p \in Orgs : Entitling(p)' => Entitling(p) \/ p = o
      BY <2>1 DEF Entitling
    <3>2. QED
      BY <2>1, <2>2, <2>4, <3>1 DEF PaywallInv, Known, Recorded
  <2>6. QED
    BY <2>3, <2>5
<1>2. CASE Lapse(o)
  <2>1. /\ \A p \in Orgs : lately'[p] = IF p = o THEN lately[p] \cup {"unpaid"} ELSE lately[p]
        /\ \A q \in Requests :
             broke'[q] = IF req[q].pc = "idle" THEN broke[q] ELSE broke[q] \cup {o}
    BY <1>2 DEF Lapse, Noted, PaywallTypeOK
  <2>2. UNCHANGED <<req, due, trial>> /\ paid' = paid \ {o}
    BY <1>2 DEF Lapse
  <2>3. Remembered'
    BY <2>1, <2>2 DEF PaywallInv, Remembered, Holds
  <2>4. \A p \in Orgs : Entitling(p)' <=> Entitling(p)
    BY <2>1 DEF Entitling
  <2>5. \A q \in Requests : Recorded(q)'
    BY <2>1, <2>2, <2>4 DEF PaywallInv, Known, Recorded
  <2>6. QED
    BY <2>3, <2>5
<1>3. ASSUME NEW trials \in {trial, trial \ {o}}, NEW kept \in SUBSET Findings,
             TimePasses(o, trials, kept)
      PROVE  Remembered' /\ \A q \in Requests : Recorded(q)'
  <2>1. /\ lately'[o] = Holds(o)' \cup (lately[o] \cap kept)
        /\ \A p \in Orgs \ {o} : lately'[p] = lately[p]
    BY <1>3 DEF TimePasses, PaywallTypeOK
  <2>2. UNCHANGED <<req, due, broke, paid>> /\ trial' \in {trial, trial \ {o}}
    BY <1>3 DEF TimePasses
  <2>3. Holds(o)' \subseteq Holds(o) /\ \A p \in Orgs \ {o} : Holds(p)' = Holds(p)
    BY <2>2 DEF Holds
  <2>4. Remembered' /\ \A p \in Orgs : lately'[p] \subseteq lately[p]
    BY <2>1, <2>3 DEF PaywallInv, Remembered
  <2>5. \A q \in Requests : Recorded(q)'
    BY <2>2, <2>4 DEF PaywallInv, Known, Recorded, Entitling
  <2>6. QED
    BY <2>4, <2>5
<1>4. QED
  BY <1>1, <1>2, <1>3 DEF MoneyStep

LEMMA MoneyStepInv ==
    ASSUME PaywallTypeOK, PaywallInv, NEW o \in Orgs, MoneyStep(o) PROVE PaywallInv'
<1>1. ASSUME NEW q \in Requests PROVE Undisturbed(q)
  <2>1. UNCHANGED <<people, req, moved>> /\ trial' \subseteq trial
    BY DEF MoneyStep, Pay, Lapse, TimePasses
  <2>2. due[q] \subseteq due'[q] /\ broke[q] \subseteq broke'[q]
    BY DEF MoneyStep, Pay, Lapse, TimePasses, Noted
  <2>3. QED
    BY <2>1, <2>2 DEF Undisturbed, people
<1>2. QED
  BY <1>1, MoneyRecorded, UndisturbedVerdict DEF PaywallInv, Known

\* A request's own steps: each rests on what the one before has found.
LEMMA OwnStep ==
    ASSUME PaywallTypeOK, PaywallInv, NEW q \in Requests, RequestStep(q) PROVE Known(q)'
<1>1. req[q] \in GatedRequests /\ req[q].user \in Users
  BY DEF PaywallTypeOK, GatedRequests
<1>2. Known(q)
  BY DEF PaywallInv
<1>3. ASSUME Unchanging, req[q].pc # "idle", req'[q].user = req[q].user
      PROVE  Recorded(q)' /\ Judges(q)' = Judges(q)
  BY <1>2, <1>3 DEF Unchanging, people, money, Known, Recorded, Entitling, Judges, Own
<1>4. ASSUME NEW u \in Users, BeginRequest(q, u) PROVE Known(q)'
  <2>1. req'[q].pc = "session"
    BY <1>4 DEF BeginRequest, NoRequest, PaywallTypeOK
  <2>2. /\ due'[q] = {o \in Orgs : Entitling(o)}
        /\ broke'[q] = {o \in Orgs : "unpaid" \in lately[o]}
        /\ lately' = lately
    BY <1>4 DEF BeginRequest, money, PaywallTypeOK
  <2>3. Recorded(q)'
    BY <2>2 DEF Recorded, Entitling
  <2>4. QED
    BY <2>1, <2>3 DEF Known, Resolved, Judged
<1>5. CASE RequireAuth(q)
  <2>1. /\ req'[q].pc = "paywall" /\ req'[q].scope = scope[req[q].user]
        /\ req'[q].user = req[q].user
    BY <1>1, <1>5 DEF RequireAuth, PaywallTypeOK, GatedRequests
  <2>2. UNCHANGED scope /\ req[q].pc # "idle"
    BY <1>5 DEF RequireAuth, Unchanging, people
  <2>3. QED
    BY <1>3, <1>5, <2>1, <2>2 DEF RequireAuth, Known, Resolved, Judged
<1>6. CASE PassAdmin(q)
  <2>1. /\ req'[q] = [req[q] EXCEPT !.pc = "served"] /\ UNCHANGED <<scope, moved>>
        /\ req[q].pc = "paywall" /\ req[q].role = "admin"
    BY <1>6 DEF PassAdmin, Unchanging, people, PaywallTypeOK
  <2>2. /\ req'[q].pc = "served" /\ req'[q].role = "admin" /\ req'[q].user = req[q].user
        /\ req'[q].scope = req[q].scope
    BY <1>1, <2>1 DEF GatedRequests
  <2>3. QED
    BY <1>2, <1>3, <1>6, <2>1, <2>2 DEF PassAdmin, Known, Resolved, Judged, Asked
<1>7. ASSUME NEW o \in Orgs \cup {None}, JudgedBy(q, o), o \in Orgs,
             q \notin moved => o \in Judges(q)
      PROVE  Known(q)'
  <2>1. /\ req'[q] = [req[q] EXCEPT !.pc = "lookup", !.org = o] /\ UNCHANGED <<scope, moved>>
        /\ req[q].pc = "paywall" /\ req[q].role # "admin"
    BY <1>7 DEF JudgedBy, Unchanging, people, PaywallTypeOK
  <2>2. /\ req'[q].pc = "lookup" /\ req'[q].role = req[q].role /\ req'[q].user = req[q].user
        /\ req'[q].scope = req[q].scope /\ req'[q].org = o
    BY <1>1, <2>1 DEF GatedRequests
  <2>3. Recorded(q)' /\ Judges(q)' = Judges(q)
    BY <1>3, <1>7, <2>1, <2>2 DEF JudgedBy
  <2>4. QED
    BY <1>2, <1>7, <2>1, <2>2, <2>3 DEF Known, Resolved, Judged
<1>8. CASE ResolveScope(q)
  <2>1. req[q].pc = "paywall" /\ req[q].scope \in Orgs
    BY <1>1, <1>8 DEF ResolveScope, JudgedBy, GatedRequests
  <2>2. q \notin moved => req[q].scope \in Judges(q)
    BY <1>2, <2>1 DEF Known, Resolved, Judges
  <2>3. QED
    BY <1>7, <1>8, <2>1, <2>2 DEF ResolveScope
<1>9. CASE ResolveMembership(q)
  <2>1. PICK o \in member[req[q].user] : JudgedBy(q, o)
    BY <1>9 DEF ResolveMembership
  <2>2. o \in Orgs /\ o \in Judges(q)
    BY <1>1, <2>1 DEF PaywallTypeOK, Judges, Own
  <2>3. QED
    BY <1>7, <2>1, <2>2
<1>10. CASE PassWithoutOrg(q)
  <2>1. /\ req'[q] = [req[q] EXCEPT !.pc = "served"] /\ UNCHANGED <<scope, moved>>
        /\ req[q].pc = "paywall" /\ req[q].scope = None /\ member[req[q].user] = {}
    BY <1>10 DEF PassWithoutOrg, Unchanging, people, PaywallTypeOK
  <2>2. /\ req'[q].pc = "served" /\ req'[q].role = req[q].role /\ req'[q].user = req[q].user
        /\ req'[q].scope = req[q].scope
    BY <1>1, <2>1 DEF GatedRequests
  <2>3. q \notin moved => Judges(q) = {}
    BY <1>2, <2>1 DEF Known, Resolved, Judges, Own
  <2>4. Recorded(q)' /\ Judges(q)' = Judges(q)
    BY <1>3, <1>10, <2>1, <2>2 DEF PassWithoutOrg
  <2>5. QED
    BY <1>2, <2>1, <2>2, <2>3, <2>4 DEF Known, Resolved, Judged, Asked
<1>11. ASSUME NEW isActive \in BOOLEAN, Judge(q, isActive) PROVE Known(q)'
  <2> DEFINE pc == IF isActive THEN "served" ELSE "refused"
  <2>1. /\ req'[q] = [req[q] EXCEPT !.pc = pc] /\ UNCHANGED <<scope, moved, due, broke, trial>>
        /\ req[q].pc = "lookup" /\ MayAnswer(req[q].org, isActive)
    BY <1>11 DEF Judge, Unchanging, people, money, PaywallTypeOK
  <2>2. /\ req'[q].pc = pc /\ req'[q].role = req[q].role /\ req'[q].user = req[q].user
        /\ req'[q].scope = req[q].scope
    BY <1>1, <2>1 DEF GatedRequests
  <2>3. /\ req[q].role # "admin" /\ req[q].org \in Orgs
        /\ q \notin moved => req[q].org \in Judges(q)
    BY <1>2, <2>1 DEF Known, Resolved
  <2>4. Recorded(q)' /\ Judges(q)' = Judges(q)
    BY <1>3, <1>11, <2>1, <2>2 DEF Judge
  <2>5. Resolved(q)'
    BY <1>2, <2>1, <2>2 DEF Known, Resolved
  <2>6. CASE isActive
    <3>1. req[q].org \in due[q]
      BY <1>2, <2>1, <2>3, <2>6 DEF MayAnswer, Known, Recorded
    <3>2. QED
      BY <2>1, <2>2, <2>3, <2>4, <2>5, <2>6, <3>1 DEF Known, Judged, Asked
  <2>7. CASE ~isActive
    <3>1. req[q].org \in broke[q] /\ req[q].org \notin trial
      BY <1>2, <2>1, <2>3, <2>7 DEF MayAnswer, Known, Recorded
    <3>2. QED
      BY <2>1, <2>2, <2>3, <2>4, <2>5, <2>7, <3>1 DEF Known, Judged, Asked
  <2>8. QED
    BY <2>6, <2>7
<1>12. CASE EndRequest(q)
  BY <1>12 DEF EndRequest, NoRequest, PaywallTypeOK, Known, Recorded, Resolved, Judged
<1>13. QED
  BY <1>4, <1>5, <1>6, <1>8, <1>9, <1>10, <1>11, <1>12 DEF RequestStep

LEMMA RequestStepInv ==
    ASSUME PaywallTypeOK, PaywallInv, NEW c \in Requests, RequestStep(c) PROVE PaywallInv'
<1>1. UNCHANGED <<people, money>>
  BY DEF RequestStep, BeginRequest, RequireAuth, PassAdmin, ResolveScope, ResolveMembership,
         JudgedBy, PassWithoutOrg, Judge, EndRequest, Unchanging
<1>2. ASSUME NEW q \in Requests, q # c PROVE Known(q)'
  <2>1. /\ req'[q] = req[q] /\ due'[q] = due[q] /\ broke'[q] = broke[q]
        /\ q \in moved' <=> q \in moved
    <3>1. CASE Moves(c)
      BY <1>2, <3>1 DEF Moves
    <3>2. ASSUME NEW u \in Users, BeginRequest(c, u)
          PROVE  /\ req'[q] = req[q] /\ due'[q] = due[q] /\ broke'[q] = broke[q]
                 /\ q \in moved' <=> q \in moved
      BY <1>2, <3>2 DEF BeginRequest, PaywallTypeOK
    <3>3. CASE EndRequest(c)
      BY <1>2, <3>3 DEF EndRequest, PaywallTypeOK
    <3>4. QED
      BY <3>1, <3>2, <3>3, RequestMoves
  <2>2. Undisturbed(q) /\ Recorded(q)'
    BY <1>1, <2>1 DEF Undisturbed, people, money, PaywallInv, Known, Recorded, Entitling
  <2>3. QED
    BY <2>2, UndisturbedVerdict DEF PaywallInv, Known
<1>3. Remembered'
  BY <1>1 DEF money, PaywallInv, Remembered, Holds
<1>4. QED
  BY <1>2, <1>3, OwnStep DEF PaywallInv

LEMMA PaywallInvariant == PaywallSpec => []PaywallInv
<1>1. PaywallInit => PaywallInv
  BY DEF PaywallInit, NoRequest, PaywallInv, Remembered, Known, Recorded, Resolved, Judged
<1>2. PaywallTypeOK /\ PaywallInv /\ [PaywallNext]_paywallVars => PaywallInv'
  <2> SUFFICES ASSUME PaywallTypeOK, PaywallInv, [PaywallNext]_paywallVars PROVE PaywallInv'
    OBVIOUS
  <2>1. CASE UNCHANGED paywallVars
    BY <2>1 DEF paywallVars, people, money, PaywallInv, Remembered, Holds, Known, Recorded,
                Resolved, Judged, Entitling, Judges, Own, Asked
  <2>2. CASE PaywallNext
    BY <2>2, UserStepInv, MoneyStepInv, RequestStepInv DEF PaywallNext
  <2>3. QED
    BY <2>1, <2>2
<1>3. QED
  BY <1>1, <1>2, PaywallTypeCorrect, PTL DEF PaywallSpec

\* Nobody but a platform administrator passes unpaid for, unless he has no
\* organization: one of his, or the one his session's scope names, had paid or
\* had its trial (resolveOrgId, requireActiveSubscription).
THEOREM NobodyPassesUnpaid == PaywallSpec => []ServedIsPaidFor
<1>1. PaywallInv => ServedIsPaidFor
  BY DEF PaywallInv, Known, Judged, ServedIsPaidFor
<1>2. QED
  BY <1>1, PaywallInvariant, PTL

\* Nobody is refused but over an organization that had not paid and whose trial
\* is over.
THEOREM RefusalsAreOverMoney == PaywallSpec => []RefusedIsUnpaid
<1>1. PaywallInv => RefusedIsUnpaid
  BY DEF PaywallInv, Known, Judged, RefusedIsUnpaid
<1>2. QED
  BY <1>1, PaywallInvariant, PTL

-----------------------------------------------------------------------------
(***************************************************************************)
(* What the paywall asks is what the lookup promises.  What Paywall keeps  *)
(* of an organization is what Entitlement keeps of one: every answer the   *)
(* lookup may give is among those the paywall is modelled with, and the    *)
(* steps that change one change the other.                                 *)
(***************************************************************************)
Tracks(o) ==
    /\ o \in paid <=> Live
    /\ o \in trial <=> trialLeft > 0
    /\ "paid" \in lately[o] <=> sinceLive <= Window
    /\ "unpaid" \in lately[o] <=> sinceDead <= Window
    /\ "trial" \in lately[o] <=> trialLeft > -Window

\* Every answer the lookup may give (Entitlement, which SubscriptionCache
\* implements) is one the paywall is modelled with (MayAnswer).
THEOREM PaywallExpectsTheLookup ==
    ASSUME TypeOK, NEW o \in Orgs, Tracks(o), NEW a \in E!Answers, E!Supported(a)
    PROVE  MayAnswer(o, a # "expired")
<1>1. CASE a = "paid"
  BY <1>1 DEF Tracks, E!Supported, MayAnswer, Entitling
<1>2. CASE a = "trial"
  BY <1>2 DEF Tracks, E!Supported, MayAnswer, Entitling
<1>3. CASE a = "expired"
  <2>1. sinceDead <= Window /\ trialLeft <= 0
    BY <1>3 DEF E!Supported
  <2>2. ~(trialLeft > 0)
    BY <2>1, WindowType DEF TypeOK
  <2>3. "unpaid" \in lately[o] /\ o \notin trial
    BY <2>1, <2>2 DEF Tracks
  <2>4. ~(a # "expired")
    BY <1>3
  <2>5. QED
    BY <2>3, <2>4 DEF MayAnswer
<1>4. QED
  BY <1>1, <1>2, <1>3 DEF E!Answers

\* The webhook's write of the row is Pay or Lapse.
LEMMA RowChangeTracked ==
    ASSUME PaywallTypeOK, IInv, NEW o \in Orgs, Tracks(o), E!ChangeRow, Pay(o) \/ Lapse(o)
    PROVE  Tracks(o)'
<1>1. Live' = ~Live /\ trialLeft' = trialLeft /\ trial' = trial
  BY Zenon DEF E!ChangeRow, Pay, Lapse
<1>2. 0 <= Window
  BY WindowType
<1>3. CASE Pay(o)
  <2>1. lately'[o] = lately[o] \cup {"paid"} /\ o \in paid' /\ o \notin paid
    BY <1>3 DEF Pay, PaywallTypeOK
  <2>2. Live' /\ sinceLive' = 0 /\ sinceDead' = sinceDead
    BY <1>1, <2>1, Zenon DEF Tracks, E!ChangeRow
  <2>3. QED
    BY <1>1, <1>2, <2>1, <2>2 DEF Tracks
<1>4. CASE Lapse(o)
  <2>1. lately'[o] = lately[o] \cup {"unpaid"} /\ o \notin paid' /\ o \in paid
    BY <1>4 DEF Lapse, PaywallTypeOK
  <2>2. ~Live' /\ sinceDead' = 0 /\ sinceLive' = sinceLive
    BY <1>1, <2>1, Zenon DEF Tracks, E!ChangeRow
  <2>3. QED
    BY <1>1, <1>2, <2>1, <2>2 DEF Tracks
<1>5. QED
  BY <1>3, <1>4

\* A tick is TimePasses, with what the window still holds.
LEMMA TickTracked ==
    ASSUME PaywallTypeOK, IInv, NEW o \in Orgs, Tracks(o), E!Tick,
           NEW trials \in {trial, trial \ {o}}, NEW kept \in SUBSET Findings,
           TimePasses(o, trials, kept),
           o \in trials <=> trialLeft' > 0,
           "paid" \in kept <=> sinceLive' <= Window,
           "unpaid" \in kept <=> sinceDead' <= Window,
           "trial" \in kept <=> trialLeft' > -Window
    PROVE  Tracks(o)'
<1>1. lately'[o] = Holds(o)' \cup (lately[o] \cap kept) /\ paid' = paid /\ trial' = trials
  BY DEF TimePasses, PaywallTypeOK
<1>2. /\ trialLeft \in Int /\ sinceLive \in Nat /\ sinceDead \in Nat
      /\ Window \in Nat /\ 0 < Window
  BY WindowType DEF IInv, TypeInv, TypeOK
<1>3. Live' = Live
  BY Zenon DEF E!Tick
<1>4. Live => sinceLive' = 0
  BY Zenon DEF E!Tick
<1>5. ~Live => sinceDead' = 0
  BY Zenon DEF E!Tick
<1>6. sinceLive' <= Window => Live \/ sinceLive <= Window
  BY <1>2 DEF E!Tick, E!Older
<1>7. sinceDead' <= Window => ~Live \/ sinceDead <= Window
  BY <1>2 DEF E!Tick, E!Older
<1>8. (trialLeft' > 0 => trialLeft' > -Window) /\ (trialLeft' > -Window => trialLeft > -Window)
  BY <1>2 DEF E!Tick
<1>9. 0 <= Window
  BY <1>2
<1>10. /\ "paid" \in lately'[o] <=> o \in paid \/ ("paid" \in lately[o] /\ "paid" \in kept)
       /\ "unpaid" \in lately'[o] <=> o \notin paid \/ ("unpaid" \in lately[o] /\ "unpaid" \in kept)
       /\ "trial" \in lately'[o] <=> o \in trials \/ ("trial" \in lately[o] /\ "trial" \in kept)
  BY <1>1 DEF Holds
<1>11. o \in paid' <=> Live'
  BY <1>1, <1>3, Zenon DEF Tracks
<1>12. o \in trial' <=> trialLeft' > 0
  BY <1>1
<1>13. "paid" \in lately'[o] <=> sinceLive' <= Window
  <2>1. o \in paid => sinceLive' <= Window
    BY <1>4, <1>9 DEF Tracks
  <2>2. sinceLive' <= Window => o \in paid \/ "paid" \in lately[o]
    BY <1>6 DEF Tracks
  <2>3. QED
    BY <1>10, <2>1, <2>2
<1>14. "unpaid" \in lately'[o] <=> sinceDead' <= Window
  <2>1. o \notin paid => sinceDead' <= Window
    BY <1>5, <1>9 DEF Tracks
  <2>2. sinceDead' <= Window => o \notin paid \/ "unpaid" \in lately[o]
    BY <1>7 DEF Tracks
  <2>3. QED
    BY <1>10, <2>1, <2>2
<1>15. "trial" \in lately'[o] <=> trialLeft' > -Window
  BY <1>8, <1>10 DEF Tracks
<1>16. QED
  BY <1>11, <1>12, <1>13, <1>14, <1>15 DEF Tracks
=============================================================================
