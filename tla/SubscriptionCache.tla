------------------------- MODULE SubscriptionCache -------------------------
(***************************************************************************)
(* The Redis-cached entitlement lookup of one organization: the calls of   *)
(* getOrgSubscriptionInfo made by requireActiveSubscription, the webhook   *)
(* handlers that write the Subscription row and then drop the cache entry, *)
(* and the faults both must survive (services/subscription.service.ts,     *)
(* the webhook half of services/billing.service.ts, config/redis.ts).      *)
(*                                                                         *)
(* Each `await' of the code is a step of its own.  Time is counted in      *)
(* ticks: TTL stands for the 300 seconds of CACHE_TTL_SECONDS and          *)
(* MaxLatency bounds how long one call takes from entry to return.         *)
(*                                                                         *)
(* History variables, read by no guard of the program: `sinceLive' and     *)
(* `sinceDead' (the row's recent past, see Entitlement), `age', `dur' and  *)
(* `late' of a call and of a cache entry, and `delLost'.                   *)
(***************************************************************************)
EXTENDS Integers

CONSTANTS
    Readers,        \* concurrent calls of getOrgSubscriptionInfo
    Hooks,          \* concurrent webhook deliveries
    Statuses,       \* the subscription statuses Stripe reports
    TTL,            \* lifetime of a cache entry, in ticks
    MaxLatency,     \* longest call of getOrgSubscriptionInfo, in ticks
    TrialLength,    \* ticks until Organization.trialEndsAt; 0: no trial
    RedisFaults     \* whether Redis may disconnect or fail a command

LiveStatuses == {"active", "trialing", "past_due"}

ASSUME TTLAssumption == TTL \in Nat \ {0}
ASSUME LatencyAssumption == MaxLatency \in Nat \ {0}
ASSUME LengthAssumption == TrialLength \in Nat
ASSUME FaultsAssumption == RedisFaults \in BOOLEAN
ASSUME StatusAssumption == "inactive" \in Statuses

Window == TTL + MaxLatency

VARIABLES
    status,         \* Subscription.status
    trialLeft,      \* ticks until trialEndsAt
    sinceLive,      \* ticks since the row was last live
    sinceDead,      \* ticks since the row was last not live
    cache,          \* the Redis entry of this organization, or NoEntry
    connected,      \* isRedisConnected(), and getRedisClient() not null
    call,           \* [Readers -> the state of a call]
    hook,           \* [Hooks -> the state of a delivery]
    delLost         \* the last invalidation did not reach Redis

history == <<sinceLive, sinceDead>>
vars == <<status, trialLeft, history, cache, connected, call, hook, delLost>>

Answers == {"paid", "trial", "expired"}
IsLive(s) == s \in LiveStatuses
Live == IsLive(status)

Entries == [ans : Answers, age : 0..Window, left : 1..TTL, late : BOOLEAN]
NoEntry == [left |-> 0]

CallSteps == {"idle", "get", "readSub", "readOrg", "setEx", "done"}
InFlight == CallSteps \ {"idle", "done"}
Calls == [pc : CallSteps, usable : BOOLEAN, ans : Answers \cup {"none"},
          age : 0..Window, dur : 0..MaxLatency, late : BOOLEAN]
IdleCall == [pc |-> "idle", usable |-> FALSE, ans |-> "none",
             age |-> 0, dur |-> 0, late |-> FALSE]

HookSteps == {"idle", "update", "lookup", "del", "retry"}
Deliveries == [pc : HookSteps, status : Statuses]
IdleHook == [pc |-> "idle", status |-> "inactive"]

TypeOK ==
    /\ status \in Statuses
    /\ trialLeft \in (-Window)..TrialLength
    /\ sinceLive \in 0..(Window + 1)
    /\ sinceDead \in 0..(Window + 1)
    /\ cache \in Entries \cup {NoEntry}
    /\ connected \in BOOLEAN
    /\ call \in [Readers -> Calls]
    /\ hook \in [Hooks -> Deliveries]
    /\ delLost \in BOOLEAN

Init ==
    /\ status = "inactive"
    /\ trialLeft = TrialLength
    /\ sinceLive = Window + 1
    /\ sinceDead = 0
    /\ cache = NoEntry
    /\ connected = TRUE
    /\ call = [r \in Readers |-> IdleCall]
    /\ hook = [w \in Hooks |-> IdleHook]
    /\ delLost = FALSE

-----------------------------------------------------------------------------
(***************************************************************************)
(* getOrgSubscriptionInfo.  cacheUsable is computed once, on entry.        *)
(***************************************************************************)
Step(r, c) ==
    /\ call' = [call EXCEPT ![r] = c]
    /\ UNCHANGED <<status, trialLeft, history, connected, hook, delLost>>

Begin(r) ==
    /\ call[r].pc = "idle"
    /\ Step(r, [IdleCall EXCEPT !.pc = IF connected THEN "get" ELSE "readSub",
                                !.usable = connected])
    /\ UNCHANGED cache

CacheHit(r) ==
    /\ call[r].pc = "get"
    /\ connected
    /\ cache # NoEntry
    /\ Step(r, [call[r] EXCEPT !.pc = "done", !.ans = cache.ans,
                               !.age = cache.age, !.late = cache.late])
    /\ UNCHANGED cache

CacheMiss(r) ==
    /\ call[r].pc = "get"
    /\ connected
    /\ cache = NoEntry
    /\ Step(r, [call[r] EXCEPT !.pc = "readSub"])
    /\ UNCHANGED cache

\* redis.get throws: fall through to the database.
CacheGetFails(r) ==
    /\ call[r].pc = "get"
    /\ RedisFaults
    /\ Step(r, [call[r] EXCEPT !.pc = "readSub"])
    /\ UNCHANGED cache

AfterDatabase(r) == IF call[r].usable THEN "setEx" ELSE "done"

\* prisma.subscription.findFirst with status in LIVE_STATUSES.
ReadSubscription(r) ==
    /\ call[r].pc = "readSub"
    /\ Step(r, IF Live
               THEN [call[r] EXCEPT !.pc = AfterDatabase(r), !.ans = "paid",
                                    !.age = 0, !.late = FALSE]
               ELSE [call[r] EXCEPT !.pc = "readOrg", !.age = 0, !.late = FALSE])
    /\ UNCHANGED cache

\* prisma.organization.findUnique, then the comparison with Date.now().
ReadOrganization(r) ==
    /\ call[r].pc = "readOrg"
    /\ Step(r, [call[r] EXCEPT !.pc = AfterDatabase(r),
                               !.ans = IF trialLeft > 0 THEN "trial" ELSE "expired"])
    /\ UNCHANGED cache

\* A database error is not caught here: the request ends with a 500.
DatabaseFails(r) ==
    /\ call[r].pc \in {"readSub", "readOrg"}
    /\ Step(r, IdleCall)
    /\ UNCHANGED cache

CacheSetEx(r) ==
    /\ call[r].pc = "setEx"
    /\ connected
    /\ cache' = [ans |-> call[r].ans, age |-> call[r].age,
                 left |-> TTL, late |-> call[r].late]
    /\ Step(r, [call[r] EXCEPT !.pc = "done"])

\* redis.setEx throws; the answer is returned all the same.
CacheSetExFails(r) ==
    /\ call[r].pc = "setEx"
    /\ RedisFaults
    /\ Step(r, [call[r] EXCEPT !.pc = "done"])
    /\ UNCHANGED cache

Return(r) ==
    /\ call[r].pc = "done"
    /\ Step(r, IdleCall)
    /\ UNCHANGED cache

-----------------------------------------------------------------------------
(***************************************************************************)
(* The webhook: syncSubscription and handleSubscriptionDeleted write the   *)
(* row, look the organization up by customer id and delete its entry.      *)
(* Until it has a 2xx answer Stripe delivers the event again.              *)
(***************************************************************************)
Moved(w, from, to) ==
    /\ hook[w].pc = from
    /\ hook' = [hook EXCEPT ![w].pc = to]

Deliver(w, s) ==
    /\ hook[w].pc = "idle"
    /\ hook' = [hook EXCEPT ![w] = [pc |-> "update", status |-> s]]
    /\ UNCHANGED <<status, trialLeft, history, cache, connected, call, delLost>>

\* A call that has read the row and not yet written the cache is overtaken.
Overtaken(c) == c.pc \in {"readOrg", "setEx"}

UpdateRow(w) ==
    LET flipped == IsLive(hook[w].status) # Live
    IN  /\ Moved(w, "update", "lookup")
        /\ status' = hook[w].status
        /\ sinceLive' = IF Live' THEN 0 ELSE sinceLive
        /\ sinceDead' = IF Live' THEN sinceDead ELSE 0
        /\ call' = [r \in Readers |->
                      IF flipped /\ Overtaken(call[r])
                      THEN [call[r] EXCEPT !.late = TRUE] ELSE call[r]]
        /\ UNCHANGED <<trialLeft, cache, connected, delLost>>

LookupOrganization(w) ==
    /\ Moved(w, "lookup", "del")
    /\ UNCHANGED <<status, trialLeft, history, cache, connected, call, delLost>>

Invalidate(w) ==
    /\ connected
    /\ hook[w].pc = "del"
    /\ hook' = [hook EXCEPT ![w] = IdleHook]
    /\ cache' = NoEntry
    /\ delLost' = FALSE
    /\ UNCHANGED <<status, trialLeft, history, connected, call>>

\* Redis is not connected, or DEL throws with or without having taken
\* effect: the failure is only logged and Stripe still gets its 200.
InvalidateFails(w) ==
    /\ RedisFaults
    /\ hook[w].pc = "del"
    /\ hook' = [hook EXCEPT ![w] = IdleHook]
    /\ cache' \in (IF connected THEN {cache, NoEntry} ELSE {cache})
    /\ delLost' = TRUE
    /\ UNCHANGED <<status, trialLeft, history, connected, call>>

\* Mutant: an error of the customer lookup is swallowed, Stripe gets a 200.
HookFailsSilently(w) ==
    /\ \/ Moved(w, "update", "retry")
       \/ Moved(w, "lookup", "idle")
    /\ UNCHANGED <<status, trialLeft, history, cache, connected, call, delLost>>

\* A database error in the handler is a 500.
HookFails(w) ==
    /\ \/ Moved(w, "update", "retry")
       \/ Moved(w, "lookup", "retry")
    /\ UNCHANGED <<status, trialLeft, history, cache, connected, call, delLost>>

Redeliver(w) ==
    /\ Moved(w, "retry", "update")
    /\ UNCHANGED <<status, trialLeft, history, cache, connected, call, delLost>>

-----------------------------------------------------------------------------
(***************************************************************************)
(* The environment: Redis and the process come and go, time passes.        *)
(***************************************************************************)
RedisDown ==
    /\ RedisFaults
    /\ connected
    /\ connected' = FALSE
    /\ UNCHANGED <<status, trialLeft, history, cache, call, hook, delLost>>

RedisReady ==
    /\ ~connected
    /\ connected' = TRUE
    /\ UNCHANGED <<status, trialLeft, history, cache, call, hook, delLost>>

\* maxmemory-policy volatile-lru, or a Redis restart that lost the entry.
Evict ==
    /\ cache # NoEntry
    /\ cache' = NoEntry
    /\ UNCHANGED <<status, trialLeft, history, connected, call, hook, delLost>>

\* The process dies: requests vanish, an event in progress has had no answer.
Crash ==
    /\ call' = [r \in Readers |-> IdleCall]
    /\ hook' = [w \in Hooks |-> IF hook[w].pc \in {"update", "lookup", "del"}
                                THEN [hook[w] EXCEPT !.pc = "retry"] ELSE hook[w]]
    /\ UNCHANGED <<status, trialLeft, history, cache, connected, delLost>>

Older(n) == IF n > Window THEN n ELSE n + 1

\* Mutant: SET without EX.
AgedEntryForever ==
    IF cache = NoEntry \/ cache.age = Window THEN cache
    ELSE [cache EXCEPT !.age = @ + 1]

AgedEntry ==
    IF cache = NoEntry \/ cache.left = 1 THEN NoEntry
    ELSE [cache EXCEPT !.age = @ + 1, !.left = @ - 1]

\* A call that has returned is over by the next tick.
AgedCall(c) ==
    IF c.pc \notin InFlight THEN IdleCall
    ELSE [c EXCEPT !.dur = @ + 1,
                   !.age = IF c.pc \in {"readOrg", "setEx"} THEN @ + 1 ELSE @]

Tick ==
    /\ \A r \in Readers : call[r].pc \in InFlight => call[r].dur < MaxLatency
    /\ trialLeft' = IF trialLeft > -Window THEN trialLeft - 1 ELSE trialLeft
    /\ sinceLive' = IF Live THEN 0 ELSE Older(sinceLive)
    /\ sinceDead' = IF Live THEN Older(sinceDead) ELSE 0
    /\ cache' = AgedEntry
    /\ call' = [r \in Readers |-> AgedCall(call[r])]
    /\ UNCHANGED <<status, connected, hook, delLost>>

-----------------------------------------------------------------------------
Lookup(r) ==
    \/ Begin(r) \/ CacheHit(r) \/ CacheMiss(r) \/ CacheGetFails(r)
    \/ ReadSubscription(r) \/ ReadOrganization(r) \/ DatabaseFails(r)
    \/ CacheSetEx(r) \/ CacheSetExFails(r) \/ Return(r)

Webhook(w) ==
    \/ \E s \in Statuses : Deliver(w, s)
    \/ UpdateRow(w) \/ LookupOrganization(w) \/ Invalidate(w)
    \/ InvalidateFails(w) \/ HookFails(w) \/ Redeliver(w)

Environment == RedisDown \/ RedisReady \/ Evict \/ Crash \/ Tick

Next ==
    \/ \E r \in Readers : Lookup(r)
    \/ \E w \in Hooks : Webhook(w)
    \/ Environment

Spec == Init /\ [][Next]_vars

(***************************************************************************)
(* Fairness: every await of a call settles, so a call that has begun goes  *)
(* on to its end; and time passes however busy the process is.  No request *)
(* and no webhook need ever arrive, and Redis need not come back.          *)
(***************************************************************************)
Progress(r) == call[r].pc # "idle" /\ Lookup(r)

Fairness == WF_vars(Tick) /\ \A r \in Readers : WF_vars(Progress(r))

FairSpec == Spec /\ Fairness

-----------------------------------------------------------------------------
(***************************************************************************)
(* Properties.                                                             *)
(***************************************************************************)

\* What each answer rests on: `age' ticks ago at the latest the database was
\* in a state that justifies it.
Justified(ans, age) ==
    /\ ans = "paid"  => sinceLive <= age
    /\ ans = "trial" => sinceDead <= age /\ trialLeft > -age
    /\ ans = "expired" => sinceDead <= age /\ trialLeft <= 0

\* No entry outlives its evidence by more than the TTL, and a call's reads
\* are no older than the call.
Clocks ==
    /\ cache # NoEntry => cache.age + cache.left <= Window
    /\ \A r \in Readers :
         call[r].pc \in {"readOrg", "setEx"} => call[r].age <= call[r].dur

\* A call that is through with the database or the cache holds an answer.
Answered == \A r \in Readers :
    call[r].pc \in {"setEx", "done"} => call[r].ans \in Answers

Evidence ==
    /\ cache # NoEntry => Justified(cache.ans, cache.age)
    /\ \A r \in Readers :
         /\ call[r].pc = "readOrg" => sinceDead <= call[r].age
         /\ call[r].pc \in {"setEx", "done"} => Justified(call[r].ans, call[r].age)

PresentIsRecent == IF Live THEN sinceLive = 0 ELSE sinceDead = 0

\* Whatever Redis or a call holds is what the database justified no longer
\* ago than its age, and that age is bounded: getOrgSubscriptionInfo writes
\* only what it read itself and never renews an entry it merely read.
EvidenceInv == PresentIsRecent /\ Clocks /\ Answered /\ Evidence

\* The cache disagrees with the row about whether the org is paid up.
StaleEntry == cache # NoEntry /\ ~(cache.ans = "paid" <=> Live)

\* Once Stripe has had its 200 for every event and no DEL was lost, only a
\* read that a webhook overtook can have left a stale entry behind
\* (syncSubscription and handleSubscriptionDeleted: row first, DEL after).
StaleOnlyByRaceOrLoss ==
    StaleEntry => \/ cache.late
                  \/ delLost
                  \/ \E w \in Hooks : hook[w].pc # "idle"

\* Claimed by subscription.service.ts:6-8 ("the cache cannot serve a stale
\* "active" after a cancellation for longer than it takes Stripe to call us
\* back") and false: a read that was in progress fills the cache after the DEL.
NoStaleActive ==
    (\A w \in Hooks : hook[w].pc = "idle") => ~(StaleEntry /\ cache.ans = "paid")

\* Claimed by ADR-002 ("a failure degrades to a database read.  A cache
\* problem must never deny access to a paying customer") and false: a refusal,
\* every webhook done and no race involved, implies that the row was not live
\* at some moment of the call.
PaidNeverRefused ==
    \A r \in Readers :
        /\ call[r].pc = "done" /\ call[r].ans = "expired" /\ ~call[r].late
        /\ \A w \in Hooks : hook[w].pc = "idle"
        => sinceDead <= call[r].dur

\* The lookup with its cache keeps the paywall's promise: each answer it
\* returns is one the row and the trial supported within TTL + MaxLatency.
E == INSTANCE Entitlement
       WITH live <- Live,
            answer <- [r \in Readers |-> IF call[r].pc = "done"
                                         THEN call[r].ans ELSE "none"]
RefinesEntitlement == E!Spec

\* A change of the row is honoured in the end, by every later answer: no
\* race and no lost DEL makes a stale answer permanent.
PaymentIsHonoured ==
    <>[]Live => <>[](\A r \in Readers : call[r].pc = "done" => call[r].ans = "paid")
CancellationIsHonoured ==
    <>[](~Live) =>
        <>[](\A r \in Readers : call[r].pc = "done" => call[r].ans = "expired")
=============================================================================
