# A TLA+ verification of the webapp template

This directory models the parts of the web application whose correctness
depends on the order in which things happen: who is paying, who may sign in,
how a cache, a webhook and a handful of unlocked check-then-write handlers
keep (or lose) those answers, and what the pages in front of them show and send
meanwhile. The modules are translated from the source under
`apps/`; `PROJECT.json` maps every definition to the lines it stands for.

## 1. The system

A monorepo of an Express backend (`apps/backend`), a React frontend
(`apps/frontend`) and shared types (`packages/shared`). The backend is one
Node process in front of PostgreSQL (through Prisma), an optional Redis, Stripe
and the Better Auth library. Within the process JavaScript runs one callback at
a time, so code between two `await`s is atomic and every `await` is a point at
which any other request, webhook or hook may run. No handler uses a database
transaction or a conditional update: what protects an invariant is a unique
constraint, or nothing.

| Component | State | Operations | Interacts with | Hard because |
|---|---|---|---|---|
| Entitlement lookup (`services/subscription.service.ts`) | Redis entry per organization, TTL 300 s | `getOrgSubscriptionInfo`, `invalidateSubscriptionCache` | reads `Subscription`, `Organization`; called by the paywall and the webhook | reads overtaken by writes, Redis failures |
| Paywall (`middleware/subscription.middleware.ts`) | none | `requireActiveSubscription`, `resolveOrgId` | lookup, session scope, memberships | which organization a request is judged by |
| Billing (`services/billing.service.ts`, `controllers/billing.controller.ts`) | `Subscription` row; Stripe customer and subscriptions | checkout, portal, invoices, webhook | Stripe in both directions; invalidates the lookup | racing first checkouts, repeated and reordered events, two subscriptions |
| Accounts (`config/auth.config.ts`, `controllers/user.controller.ts`) | `User` ban fields, audit rows | sign-up hooks, `approveUser`, `rejectUser` | Better Auth (sign-in, ban, unban, remove) | unlocked check-then-write |
| `requireAuth` (`middleware/auth.middleware.ts`) | session rows; session snapshot in a cookie for 5 minutes | session and ban check, clearing of expired bans, revocation | every authenticated route | stale cookie, stale read |
| Tenant access (`services/access-control.service.ts`) | memberships, `Session.activeOrganizationId` | `getAccessibleOrgIds`, `getOrgRole`, `assert...` | projects, scope switcher | `null` means "everything" |
| Tenant hooks (`config/auth.config.ts`, `services/email-domain.service.ts`) | memberships, session scope | auto-join by email domain, initial scope | sign-up, sign-in | two first members |
| Projects (`controllers/project.controller.ts`) | `Project` rows | create, list, get, update, delete | tenant access | membership changes between check and write |
| Scope switcher (`routes/admin.routes.ts`) | `Session.activeOrganizationId` | set, clear, list | `requireAuth`, tenant access | requests in progress |
| Metering and plan limits (`services/metering.service.ts`, `middleware/billing.middleware.ts`) | usage records | record, summarise, check a limit | billing | period boundaries; check before write |
| Start-up, Redis, rate limiter, CSRF (`index.ts`, `app.ts`, `config/redis.ts`) | connection flag, limiter store | connect, listen, middleware chain | everything | order of initialisation |
| Frontend client (`lib/api.ts`, `AuthContext`, `ProtectedRoute`, `LoginPage`) | CSRF token, redirect flag, session | requests, retries, redirects | backend; other tabs share its cookies | concurrent requests share a token; a cached session outlives the real one |
| Administrators' page (`pages/admin/AdminUsersPage.tsx`) | cached lists, one dialog, one reason box | ban, unban, role, approve, reject | Accounts; other administrators | refetches overlap mutations; the lists are old |
| Member list (`pages/organization/OrganizationDetailsPage.tsx`) | the rows shown | remove a member | Better Auth | the row may have been replaced |
| Billing page (`pages/billing/BillingPage.tsx`) | overview, pending checkout | upgrade, portal, return | Billing, metering | two reads; back before the webhook |
| Credential forms (`pages/auth/*`, `ProfilePage.tsx`) | fields, pending, error, success | sign up, verify, forgot, reset, change, rename | Better Auth | lost answers; typing while an answer is due |
| Seed (`prisma/seed.ts`) | the database | one script | people on the same database | no transaction; run again, or twice at once |
| Audit log, email, errors, validation, logging, presentation | - | - | - | no ordering or state of their own |

What makes each correct:

* *Entitlement*: an answer may lag behind the row, by a bounded time, and never
  reports something no recent state supports; a stale answer is never permanent.
* *Billing*: one customer per organization, whoever races; the row says what
  Stripe says, and nothing entitles after the end of what was paid, except for
  reasons that can be named: Stripe promises neither the order of its events nor
  that each comes once.
* *Accounts*: nobody enters without having been let in; the last word of an
  administrator stands; a ban works on the next request although sessions are
  cached in cookies; the audit trail tells what happened.
* *Tenant access*: a request touches only organizations its user belonged to
  while it ran; every organization with members has an owner.
* *Pages*: what is shown was true, and comes up to date by itself; what is sent
  is what was on the screen; nobody is left on the login page or bounced
  between two pages for ever.
* *Seed*: success means the whole data set with the documented passwords,
  whatever earlier runs left and whatever people did, but for what they did since.

`PROJECT.json` lists, under `hazards`, every place in this code where an
ordering, a failure or a boundary can break one of these, with the property
that covers it.

## 2. The modules

| Module | Models | Extends / instantiates |
|---|---|---|
| `Entitlement` | abstract specification: what the paywall promises about one organization | - |
| `SubscriptionCache` | `getOrgSubscriptionInfo`, the webhook's write and invalidation, Redis, crashes | refines `Entitlement` |
| `Paywall` | `requireActiveSubscription`, `resolveOrgId`, and what they learn from `requireAuth` and the lookup | - |
| `Billing` | checkout requests, Stripe's subscriptions, the webhook's copying | - |
| `Accounts` | sign-up, Better Auth's sign-in and bans, approve/reject, `requireAuth` | - |
| `TenantAccess` | roles, memberships, session scope, the access-control service, the project handlers, the scope switcher | - |
| `Membership` | sign-up hooks, domain rules, member list, what Better Auth does to members | - |
| `UserManagement` | the administrators' page, its caches and mutations, the server's five operations | - |
| `Client` | API client, session store, `ProtectedRoute`, `LoginPage`, the CSRF check | - |
| `BillingPage` | overview, Checkout and portal, billing periods, metered usage | - |
| `Credentials` | the forms for accounts and passwords | - |
| `Seed` | the seed script | - |
| `MC*` | symmetry sets for TLC | the module they are named after |
| `*_proofs` | theorems and their proofs | the module they are named after, `TLAPS`; see below |

Three proof modules hold the theorems of two modules that meet in the system:
`SubscriptionCache_proofs` also those of `Paywall`, which asks the lookup,
`UserManagement_proofs` those of `Client`, through which the administrators' page
sends, and `Credentials_proofs` those of `BillingPage`, the other page whose
forms wait for the server. `Paywall`, `Client` and `BillingPage` carry their name
in the definitions every module has (`PaywallSpec`, `ClientSpec`, `PageSpec`,
...), so that both can be extended at once.

### `Entitlement`

The observable part of the paywall for one organization: whether the
`Subscription` row is live, how long until the trial ends, and what each call
has just answered. `Answer` may return any answer that some state of the last
`Window` ticks supports. The row's recent past is two counters, ticks since it
was last live and since it was last not live.

### `SubscriptionCache`

Each call of `getOrgSubscriptionInfo` is a process; each `await` is a step:

| Step | Code |
|---|---|
| `Begin` | `cacheUsable` is computed, once |
| `CacheHit`, `CacheMiss`, `CacheGetFails` | `redis.get` and its `catch` |
| `ReadSubscription` | `findFirst` over the live statuses |
| `ReadOrganization` | `findUnique` and the comparison of `trialEndsAt` with the clock |
| `DatabaseFails` | the exception reaches `requireActiveSubscription` and becomes a 500 |
| `CacheSetEx`, `CacheSetExFails` | `redis.setEx` and its `catch` |
| `Return` | the middleware acts on the answer |

A webhook delivery is `Deliver`, `UpdateRow`, `LookupOrganization`, then
`Invalidate` or `InvalidateFails`; a database error (`HookFails`) or a `Crash`
leaves it to be redelivered. `RedisDown`, `RedisReady`, `Evict` and `Tick` are
the environment. `cache.age`, `call.age` and `call.dur` are ghosts that say how
old the evidence is; `late` marks a read that a webhook overtook; `delLost`
says that the last invalidation did not reach Redis. No guard of a program step
reads them, except that `Tick` does not let a call outlive `MaxLatency`.

A webhook's payload is only a status: which row an event belongs to, its plan
and its order are the subject of `Billing`.

### `Paywall`

A request to a project route runs `BeginRequest` (Better Auth's session, with
the role the cookie may still cache), `RequireAuth` (the session row's scope),
then one of: `PassAdmin`; `ResolveScope`, or `ResolveMembership` when the scope is
null, followed by `Judge`, the answer of the lookup; or `PassWithoutOrg`. Each
`await` is a step, and between any two of them roles, memberships, the scope and
the cookie change, organizations pay and lapse, and trials end. Which membership
is the newest (`resolveOrgId`) or the oldest (the session hook) is left open: any
may be. The lookup itself is not repeated. Its answer is what `Entitlement`
promises of it: `lately` holds what was true of an organization at some time in
the window, `Judge` takes any of that, and a refusal needs a trial that is over
now, because the row is read before the trial's end. `due`, `broke` and `moved`
are history: what held of each organization while the request ran, and whether
its user's memberships or scope changed.

### `Billing`

One organization. A request of `createCheckoutSession` runs through
`FindCustomer` or `NoCustomerYet`, `CreateCustomer` (Stripe), `InsertRow` or
`InsertConflict` (the unique `organizationId`), `CreateSession`, or fails
between any two. Stripe is the environment: an open session may be paid, a
subscription changes status and ends, each change emits an event with a
snapshot. `HandleEvent` and `HandleEventAgain` copy a snapshot into the row by
customer id, as `syncSubscription` and `handleSubscriptionDeleted` do. The
handler's single write makes it one step. Nothing in the code looks at the age of
a snapshot, and Stripe promises no order: any event that has not had its 200 may
be handled next, and after `HandleEventAgain` (the answer was not a 200, or was
lost, or Stripe sends the event twice) it may be handled again at any later time,
after younger ones. `last` and `heard` are history: which event was handled last,
and the youngest of each subscription. `checkout.session.completed` is only
logged by the code and so leaves no trace in the model.

### `Accounts`

`SignUp` and `SignUpBootstrap` are the `user.create.before` hook. `CheckSignIn`
and `StoreSession` are Better Auth's sign-in in its two steps, `Ban`, `Unban`
and `Remove` its admin plugin, which deletes sessions on a ban or a removal.
They are modelled from how this code uses them and marked external. `requireAuth` is
`BeginRequest` (the cookie's snapshot, good for anyone who ever signed up),
then the single query on the session row: `Admit`, `NoSession`, `FindBan`
followed by `Revoke`, or `FindExpiredBan` followed by `ClearBan`.
`approveUser` and `rejectUser` are `ReadPending`, `WriteApproval` or
`WriteRejection`, and `RecordDecision`, any of which can fail.

History variables hold what the administrators last said (`barred`,
`released`), which calls act on a read that has since been overwritten
(`stale`), and which accounts such a call may have opened (`lost`).

### `TenantAccess`

Each database call of a handler is a step, so that anything may happen between
a check and the write it guards. A request is `Begin` (Better Auth's session,
from the cookie while that is valid), `Authorize` (the session row's scope),
then one handler:

| Handler | Steps |
|---|---|
| `listProjects` | `List` or `ListOne`, `FindMany` |
| `getProject` | `FindProject`, `CheckRead` |
| `updateProject` | `FindProject`, `CheckUpdate`, `Save` |
| `deleteProject` | `FindProject`, `CheckDelete`, `Delete` |
| `createProject` | `CheckCreate`, `Create` |
| checkout, portal, recorded usage | `VerifyOrgAdmin`; the write itself belongs to `Billing` |
| `POST`, `DELETE /session/active-org` | `SetActiveOrg` |

`AccessibleOrgIds` and `OrgRole` are the access-control service; its `null`,
"no filter", is the set of all organizations. A personal project needs no
second query and goes straight from `FindProject` to what it grants. `End`
stands for every refusal, error and answer. `SetRole`, `SetMember`, `SignIn`,
`EndSession`, `Activate`, `MintCookie` and `CookieExpires` are Better Auth and
may happen at any time.

Of a project only its home is kept: its organization, or its creator if it has
none, because no code looks at who created an organization's project. A user
has one session in a behaviour; organizations are neither created nor removed;
bans are in `Accounts`. The history says in which organizations a user's rank
changed during a request (`moved`), and whether role or scope did (`rescoped`).
`InReach` and `HasRank` accept what was true when the request began: the code
takes no lock, so a change between a check and a write is allowed for, and
nothing older than the request is.

### `Membership`

One organization with one `OrganizationDomain` row. `SignUp` is
`user.create.before`; the `after` hook is `CountMembers` (domain lookup and
count), `Join` (the upsert) or `JoinFails` (its `catch`), then the announcement:
`FindAdmins` (the query), `TellAdmin` for one administrator after the other, and
`TellFails`, the `catch` that ends the loop when the query or a mail fails and
leaves the rest untold. The administrators are those of `ADMIN_EMAILS`; a role
given to somebody later is left out.
`BaseDomain` is `extractBaseDomain` on a sequence of labels. `Decide`,
`AcceptInvitation`, `ChangeRole`, `LeaveOrRemoved` and `RemoveUser` are what
happens to members later; `RequestRemoval` and `RemoveMember` are the member
list, which removes by the id of the row it showed. The history says which
count was out of date when it was used (`overtaken`), whose join failed, which
mails went out (`told`) and whose announcement ended in an error (`unsaid`).

### `UserManagement`

One administrator's page, from the moment it is opened: two queries (`fetch` says
how far a fetch is, `next` what it read, `empty` which have never had an answer),
the dialog with `selectedUser` and the reason box, and the five
mutations, each at rest or on its way. The server runs them as the code does:
`approveUser` and `rejectUser` check and write in two steps, Better Auth's are
one. `GiveUp` is the axios timeout, after which the server may go on. Success
closes the dialog and invalidates, which cancels a refetch under way and starts
anew, but not a first load (`FirstLoads`): a query without data has nothing to go
back to. Failure does nothing. `OtherAdmin` is everybody else.

### `Client`

One page with several requests, other tabs that share its cookies, and the
server's chain: CSRF check, `requireAuth`, paywall. A token is a number and the
session identifier it was made for; with `SecureCookies` the name `app.ts:51`
reads is not the cookie's, so every identifier is empty. `Ask`, `MakeToken`,
`TokenArrives` and `TokenLost` are the request interceptor with its one awaited
fetch; `Answer` is the response interceptor, redirects included. Better Auth's
cached session (`cached`) outlives a revocation until `CacheExpires`.

### `BillingPage`

The page's two reads may come back in either order (`GetSubscription`,
`GetPlanUsage`); `Leave` drops everything the page held. Stripe's side is
`Renew`, `Change`, `Pay`; `Synced` and `Deleted` are the webhook, which keep the
period or leave it. `HandleWebhookEvent` takes any event emitted so far, in any
order and any number of times, as in `Billing`. The clock counts half days so that the default period's end,
midnight at the start of the month's last day, is told from that day's noon.

### `Credentials`

Six forms with the same life (typed, sent, answered, or the answer is lost) and
the differences the code makes between them: React Query mutations clear
themselves and time out, the others keep `isPending` if the call throws; four
forms are replaced by their success, two stay. `Take`, `TakeWithoutEmail` and
`Refuse` are Better Auth. `TakeWithoutEmail` is a sign-up whose account has been
made when `sendVerificationEmail` throws (`config/email.ts`): the call fails, and
the same address is taken from then on. That the library lets the error through is
read from how `auth.config.ts` uses it, not from its source.

### `Seed`

The script is a sequence of 22 steps; a step is an upsert that leaves an
existing row alone, a credential (looked up, then written), a project or the
tasks. `lost` says which of the ids a run holds name a row that is gone.
`Change`, `Delete` (with the schema's cascades), `DeleteProject` (`deleteProject`
of the project controller, personal projects included) and `SignUp` are people at
work. `touched` and `dropped` say which rows and projects they have changed or
deleted since a run wrote them. A rerun puts back what people deleted and sets the
passwords again, both by design of the script; other changes it leaves alone
because its upserts have an empty `update`, which is the guard of `Upsert` and no
property of its own.

## 3. What TLC checks

Bounds are chosen as the smallest at which two actors can get into each
other's way at every pair of steps, and every constant the proofs leave open.

| Run | Bounds | Shows |
|---|---|---|
| `cache` | 1 reader, 1 hook, TTL 2, latency 1, trial 1, Redis faults | `EvidenceInv`, `StaleOnlyByRaceOrLoss`, that the lookup refines `Entitlement`; `PaymentIsHonoured` and `CancellationIsHonoured` under fairness |
| `billing` | 3 requests, 3 customers, 2 subscriptions, 2 plans, 4 events handled in any order and repeatedly | `CustomerAgreement`, `RowConverges`, `NoServiceAfterCancellation` |
| `accounts` | 1 user, 2 requests, 2 administrators' calls | `BarHolds`, `NoEntryUnreleased`, `BanIsImmediate`, `AuditTrail` |
| `paywall` | 1 user, 2 organizations, 1 request | `ServedIsPaidFor`, `RefusedIsUnpaid` |
| `tenant_access` | 1 user with a session, 1 other creator, 2 organizations, 1 project, 1 request | `ReadsWithinReach`, `WritesHadStanding` |
| `tenant_scope` (violation) | the same | `ScopedAdminSeesOneTenant` is false: an update ignores the administrator's scope |
| `membership` | 3 users (two of them administrators by configuration), 2 later changes | `Ownership`, `JoinedByDomain`; `Announced` under fairness |
| `user_management` | 2 users, 2 mutations, 1 change by another administrator | `OwnActionsShown`, `ReasonIsForThatUser`, `DecidedOnce` |
| `client` | 2 requests, 2 sessions, 2 tokens | `RefusalExplained`; `LoginLeaves` and `NoEndlessBounce` under fairness |
| `billing_page` | 2 subscriptions, months of 4 half days, periods of 2, clock to 4, 3 events handled in any order and repeatedly, 1 usage record | `OfferExplained`, `OverviewAgrees`, `UsageIsCounted` |
| `credentials` | 2 inputs, one of them a weak password; 4 visits | `SuccessIsTrue`, `NothingDoneUnsaid` |
| `seed` | 2 runs, 1 edit, deletion or sign-up by people | `Complete` |

Where a bug of the code could put a value in a variable that no other code
knows, the type invariant is checked too (`TypeOK`, `ClientTypeOK`,
`PageTypeOK`): in `billing`, `membership`, `user_management`, `client`,
`billing_page`, `credentials` and `seed`. It is proved of every module.

`SubscriptionCacheSafety.cfg` checks the two invariants of `cache` for 2 readers,
1 hook and a TTL of 1, and is kept to be run by hand.

Seven more configurations refute statements of the documents and are kept to be
run by hand (`tlc -config X.cfg MC...`); each ends with a counterexample:

| Configuration | Module | False |
|---|---|---|
| `SubscriptionCacheRace.cfg` | `MCSubscriptionCache` | `NoStaleActive`: a read overtaken by a cancellation fills the cache after the DEL |
| `SubscriptionCacheLostDel.cfg` | `MCSubscriptionCache` | `PaidNeverRefused`: after a lost DEL a paying organization is refused from the cache |
| `BillingTwoSubscriptions.cfg` | `MCBilling` | `RowKeptCurrent`, after a second checkout, although the youngest event was handled last |
| `BillingReordered.cfg` | `MCBilling` | `RowSettles`: with every event handled, an older snapshot handled last stays |
| `AccountsBar.cfg` | `MCAccounts` | `BarStands`: a rejection that overlaps an approval, or the clearing of an expired ban that overlaps a new ban, leaves the account open |
| `PaywallScope.cfg` | `MCPaywall` | `CallersOrganizationPays`: the scope of a membership that has ended still pays for its user |
| `TenantAccessRole.cfg` | `MCTenantAccess` | `RoleIsFresh`: a demoted administrator's cookie still says `admin` |

*Why the bounds are enough.* In `SubscriptionCache` the readers meet only
through the cache, so one of them and the webhook exhibit every race for an entry,
and two of them "one fills while another reads"; time
values of 1 already separate "before", "at" and "after" each deadline (the
window is 2 ticks for TTL 1 and 3 for TTL 2). More readers and concurrent deliveries of a
webhook are left to the proofs, which hold for any number of them. In `Billing`
three requests give a winner, a loser and a late comer who finds the row; four
events are two subscriptions created and ended, or one created, updated twice and
ended, with every order and repetition of their handling. Users in
`Accounts` share no state, so one is enough; two requests and two decisions meet
at each other's every step. In `TenantAccess` a request meets its user's role,
memberships, session and cookie, all of which change freely; requests of one
user meet only through the session's scope, which `Activate` changes at any
step, and through projects, whose home never changes. A second organization is
what a stale scope or a lost membership can lead to, there and in `Paywall`,
where requests share nothing they write and one is enough. More users, projects and
concurrent requests are left to the proofs.

In `Membership` two users of the domain race for it and a third signs up beside
them; the addresses are the domain, one below it and one that shares only its
public suffix. The user below it waits for two administrators, so that a mail may
fail before, between and after theirs. Two changes let a member be approved or
promoted and then leave, or lose an administrator while he is being written to. Two users and two mutations let a
dialog, a reason or a list belong to the wrong one, and one change of another
administrator is enough to make any list old. `Client`'s second request, session
and token are the ones the first can be confused with. In `BillingPage` a period
ends exactly where the month's last day begins, the clock reaches the next month,
and three events are a subscription and a renewal with an end, a late payment or
a second subscription, so that an older period can be put back. In `Seed` one edit
by people meets two runs at every pair of their steps; more of them are left to
the proofs. `Credentials`' fourth visit is
the one after a reset that began with a forgotten password. The proofs hold for
any number of all of these.

*Deadlock* is checked except in `billing`, `membership`, `seed`, `credentials` and
`user_management`: requests, sign-ups, runs and visits there are bounded, so the
model stops when all is done, or, in `credentials`, at a form that waits for an
answer that was lost. The administrators' page stops when both first loads and
their retries fail: it shows nothing to click until it is opened again.

*Symmetry* is used over interchangeable sets in safety runs only.

*Fairness* (`FairSpec`). `Progress(r)` is weakly fair for each reader: every
`await` settles, because a promise of Prisma or of the Redis client resolves
or rejects, so a call that has begun goes on. `Tick` is weakly fair: time
passes. Nothing is assumed of requests, webhooks, or of Redis coming back.

*Fairness of `Membership`*. Weak for each running hook (`HookStep`): it awaits one
database call after the other, each answers or fails, and a failure goes on to
the next step. A crash ends it for good. Nothing is assumed of people.

*Fairness of `Client`*. Weak for what a browser does by itself once it is due:
the session request of the store settles (`LoadSession`), a rendered redirect
and `location.assign` happen (`Bounce`, `FollowRedirect`), Better Auth's client
signals a sign-in after its 10 ms (`SessionSignal`), and the cookie's five
minutes pass (`CacheExpires`). Strong for `LeaveLogin`, the login page's effect,
because reloads and other tabs may disable it again and again before it runs.
Nothing is assumed of the user, who may reload or go elsewhere, of the server
answering requests, or of other tabs.

*`MaxLatency`.* The code bounds the response (`connect-timeout`, 30 s) but not
the handler, so `MaxLatency` is an assumption: how long the slowest call takes
between its read and its SET. The promised window is TTL + `MaxLatency`, not
the TTL alone, and the model shows both parts are attained: a reader's answer
may already be `MaxLatency` old when the entry's 300 seconds begin.

## 4. What the code does otherwise than its documents say

Each of the first seven is the trace of a refutation above; the `findings` of
`PROJECT.json` quote the lines of all.

1. "The cache cannot serve a stale `active` after a cancellation for longer than
   it takes Stripe to call us back" (`subscription.service.ts:6-8`): it can,
   for one TTL, when a lookup was under way.
2. "A cache problem must never deny access to a paying customer" (ADR-002): a
   lost DEL does, for one TTL.
3. The row is "kept current by the Stripe webhook" (`subscription.service.ts:4`):
   not with two subscriptions, and not with events that come late or twice. An
   update handled after the end of its subscription makes the row entitle again.
4. "Bans and session revocation take effect immediately" (ADR-004): not those
   an unconditional update erases.
5. While a scope is set "the admin sees only that tenant" (`README.md:305`):
   updates and deletes ask `getOrgRole`, which does not look at the scope.
6. "The security-relevant, mutable fields are read fresh" (ADR-004): the role is
   not, and stays what it was for as long as the cookie does.
7. The paywall "blocks tenant routes when the caller's organization has neither an
   active subscription nor a live free trial" (`subscription.middleware.ts:4`): it
   asks the organization the session's scope names, and nothing here clears the
   scope of somebody who was removed from that organization.
8. "Refresh CSRF token and retry on CSRF validation failure" (`api.ts:88`): the
   error handler turns that failure into a 500 without the code the client looks
   for, so a page whose token is refused stays refused until it is reloaded.
9. "Anything it is unsure about it returns verbatim" and "`OrganizationDomain`
   rows can always be written exactly" (`email-domain.service.ts:6-12`): a longer
   domain is cut to its last two labels, and only that is looked up.
10. "A usage summary for all metrics in the current billing period"
   (`metering.service.ts:74`): not on a month's last day, nor after the end of a
   subscription, whose period stays in the row.
11. "Until approved, the user cannot sign in" after the administrator's approval
   (`README.md:279`): the list of all users offers Unban to the waiting as well.
12. Two about start-up (`app.ts:111`, `index.ts:28`) and three about the
   credential pages (`auth.config.ts:140`, `VerifyEmailPage.tsx:126`,
   `SignupPage.tsx:146`).

The passing runs say how far the damage goes: `StaleOnlyByRaceOrLoss`,
`NoServiceAfterCancellation`, `BarHolds`, `ServedIsPaidFor`, `RefusalExplained`,
`OfferExplained` and `Ownership` name the *only* ways in which these
can happen. The announcement of a sign-up and the
verification email may fail without anybody trying again (`Announced`,
`NothingDoneUnsaid`); the code calls the first best effort (`auth.config.ts:163`).
Two more statements of the documents differ from the code without a
run: ADR-001 line 30 ("No controller queries `organizationMember` directly")
against `verifyOrgAdmin` of `billing.controller.ts:24` and the same in
`metering.controller.ts:29`; and the comment at
`subscription.middleware.ts:37` ("nothing ever sets an active org" for a
single-org user) against the session hook of `auth.config.ts:226`, which does.

## 5. What TLAPS proves

All theorems are for every value of the constants allowed by the named
assumptions of the modules.

| Theorem | Statement |
|---|---|
| `SubscriptionCache_proofs!TypeCorrect` | `Spec => []TypeOK` |
| `SubscriptionCache_proofs!EvidenceCorrect` | `Spec => []EvidenceInv` |
| `SubscriptionCache_proofs!StaleEntriesExplained` | `Spec => []StaleOnlyByRaceOrLoss` |
| `SubscriptionCache_proofs!LookupImplementsEntitlement` | `Spec => RefinesEntitlement` |
| `SubscriptionCache_proofs!PaywallTypeCorrect` | `PaywallSpec => []PaywallTypeOK` |
| `SubscriptionCache_proofs!NobodyPassesUnpaid` | `PaywallSpec => []ServedIsPaidFor` |
| `SubscriptionCache_proofs!RefusalsAreOverMoney` | `PaywallSpec => []RefusedIsUnpaid` |
| `SubscriptionCache_proofs!PaywallExpectsTheLookup` | what `Entitlement` supports, `Paywall` may be answered |
| `Billing_proofs!TypeCorrect` | `Spec => []TypeOK` |
| `Billing_proofs!PaymentsReachTheRow` | `Spec => []CustomerAgreement` |
| `Billing_proofs!CancellationEndsService` | `Spec => []NoServiceAfterCancellation` |
| `Billing_proofs!RowFollowsStripe` | `Spec => []RowConverges` |
| `Accounts_proofs!TypeCorrect` | `Spec => []TypeOK` |
| `Accounts_proofs!BarOnlyLostToOldReads` | `Spec => []BarHolds` |
| `Accounts_proofs!NoEntryWithoutRelease` | `Spec => []NoEntryUnreleased` |
| `Accounts_proofs!BansAreImmediate` | `Spec => []BanIsImmediate` |
| `Accounts_proofs!TrailIsTrue` | `Spec => []AuditTrail` |
| `TenantAccess_proofs!TypeCorrect` | `Spec => []TypeOK` |
| `TenantAccess_proofs!ReadsStayInReach` | `Spec => []ReadsWithinReach` |
| `TenantAccess_proofs!WritesNeedStanding` | `Spec => []WritesHadStanding` |
| `Membership_proofs!TypeCorrect` | `Spec => []TypeOK` |
| `Membership_proofs!OrganizationsAreOwned` | `Spec => []Ownership` |
| `Membership_proofs!JoinsFollowTheDomain` | sequences as domains and `Registrable(OwnedDomain)` imply `Spec => []JoinedByDomain` |
| `UserManagement_proofs!TypeCorrect` | `Spec => []TypeOK` |
| `UserManagement_proofs!OwnActionsAreShown` | `Spec => []OwnActionsShown` |
| `UserManagement_proofs!ReasonsReachTheirUser` | `Spec => []ReasonIsForThatUser` |
| `UserManagement_proofs!SignUpsAreDecidedOnce` | `Spec => []DecidedOnce` |
| `UserManagement_proofs!ClientTypeCorrect` | `ClientSpec => []ClientTypeOK` |
| `UserManagement_proofs!RefusalsAreExplained` | `ClientSpec => []RefusalExplained` |
| `Credentials_proofs!TypeCorrect` | `Spec => []TypeOK` |
| `Credentials_proofs!SuccessesAreTrue` | `Spec => []SuccessIsTrue` |
| `Credentials_proofs!DeedsAreReported` | `Spec => []NothingDoneUnsaid` |
| `Credentials_proofs!PageTypeCorrect` | `PageSpec => []PageTypeOK` |
| `Credentials_proofs!OverviewsAgree` | `PageSpec => []OverviewAgrees` |
| `Credentials_proofs!OffersAreExplained` | `PageSpec => []OfferExplained` |
| `Credentials_proofs!RunningUsageIsCounted` | `PageSpec => []UsageIsCounted` |
| `Seed_proofs!TypeCorrect` | `Spec => []TypeOK` |
| `Seed_proofs!SuccessIsComplete` | `Spec => []Complete` |

*The cache.* `EvidenceInv` is inductive together with `TypeOK`. Its parts are
the clocks (an entry's age and remaining life add up to at most the window; a
call's evidence is no older than the call) and the evidence itself (the answer
was justified `age` ticks ago). A read sets the age to 0, a tick ages everything
at once, and a write of the cache hands the age on. The refinement needs
nothing more: an answer whose evidence is at most `Window` old is `Supported`.
For `StaleOnlyByRaceOrLoss` the invariant is strengthened to calls that hold an
answer they have not yet written, which are either marked late, or agree with
the row.

*The paywall.* `PaywallInv` says of each request what it knows: whatever the window
holds is on its record (`Recorded`), what it has resolved is the scope or a
membership as they are unless they have moved (`Resolved`), and its verdict rests
on the record (`Judged`). Every step of somebody else is `Undisturbed`: the record
only grows, trials only end, and whoever moves is known; one lemma shows that
such a step keeps a verdict true. `PaywallExpectsTheLookup` is what allows the
lookup to be left out of the module: with `Tracks`, which says that `lately` holds
what `Entitlement`'s clocks say, every supported answer is one `Judge` may take,
and the webhook's write and the passing of time keep `Tracks` (`RowChangeTracked`,
`TickTracked`).

*Billing.* `CustomerAgreement` needs that a request past `insert` holds the
customer the row names, and that the row's customer never changes. For
`NoServiceAfterCancellation`, without any assumption on the order: events are
numbered as sent (`Numbered`), and of each canceled subscription either the event
of its end is still to be handled, or it has been and then no event of that
subscription is younger than `heard` (`LateOrEndToCome`): an update that revives
the row is then older, which is the third excuse. For `RowConverges` nothing can
be said of the row while an older event is the last one handled, so `ConvergeInv`
speaks of the youngest event: as long as it may be handled, it tells what Stripe
knows (`YoungestTells`), and every change of Stripe's sends a younger one that
does; the row is what Stripe knows from the moment that event is handled until an
older one is.

*Accounts.* `BarHolds` needs that a ban's term is "over" only after `BanEnds`
has lifted it, and that a call whose read is not stale sees the account as it
is. `BanIsImmediate` adds that a request kept out, at each of its steps, belongs
to a barred account that is banned. `AuditTrail` is inductive only with the fact
that a user once decided about never waits for approval again (`Settled`), so one
call cannot take the same decision twice, and the row a failed recording
withdraws was never on the trail (`Unrecorded`).

*Tenant access.* The invariant `Learnt` says of each request what it knows at each
step: its scope is the session row's unless that changed since, the
organizations it collected are in reach, and a project it found keeps its home.
`Kept` is what a step of anybody else may do to it. Every step of another actor
is a `Kept` step, `Kept` preserves `Learnt`, and the request's own steps extend
it, by `AccessibleIsInReach` where they ask the access-control service.

*Membership.* `Ownership` counts members, so its invariant `OwnerInv` ties what a
hook has learnt to what is there now: a hook that counted nobody and was not
overtaken still finds nobody, founders who were not overtaken are one at most,
and somebody owns the organization as long as no owner's account was deleted.
`JoinedByDomain` rests on two lemmas about `BaseDomain` for domains over any
labels: it is always a suffix of the address, and a registrable domain (one label
more than a public suffix, as far as the code's list knows) is the base domain of
everything below it. Without the second assumption the property is false, which
is disagreement 9 of section 4.

*The administrators' page.* `ListsInv` adds to `OwnActionsShown` what a refetch
already under way has read, for an invalidation may come after that; every own
write leaves either an answer to come, which will invalidate, or an excuse, and
an invalidation that spares a first load leaves one too.
`ReasonInv` adds the open dialog to the rejection on its way. `DecisionInv` adds
the decisions between their check and their write: each finds none taken, or
shares its user with one that overlaps it.

*The API client.* Why a token is good when a write is served goes back to when it
was fetched. `TokenInv`: while the session store does not say `in` the page has
neither token nor request (`QuietPage`), so a cookie that is only now found to be
dead harms nothing; and as long as nothing can be blamed the page's token is the
cookie's and good, the writes that wait to be served carry it, and one request at
most is fetching a token while the page has none (`Agreed`).

*The billing page.* `OverviewInv` says of a fetch between its two reads (`HalfWay`)
that the half it has agrees with the row, unless the webhook wrote since. An offer
rests on an overview older than what it is compared with, so `OfferInv` speaks of
the past: a subscription that is over never runs again (`Heard`), the row names
every running subscription the webhook has heard of as long as no other has been
through it (`RowNames`), and so did the row that was read (`Explained`). For
`UsageInv` the youngest event of each subscription tells its period
(`YoungestTells`), so the row does while that event is the one handled last
(`RowTells`), whatever was handled before; that the two ends of a row's period are
set together, and lemmas about months of any length, give the rest.

*Credentials.* The invariant says form by form which of pending, success and the
server's deed go together (`Sound`), and is inductive with `TypeOK`. What was done
and is neither shown nor awaited has one of two causes, which stay recorded
(`Excused`).

*Seed.* `Behind` says what a run has behind it: each row it has passed is as a run
leaves it or was touched by people since (`Passed`), and past the tasks each of
its projects has them or was deleted (`Finished`). `Traces` is the lemma that nobody
changes a row without a trace, the run beside it included. `Complete` is that
invariant at the end, with the fact that each key has its step.

*Only model-checked.* Liveness and everything with ENABLED is beyond the
prover: `PaymentIsHonoured`, `CancellationIsHonoured`, `LoginLeaves`,
`NoEndlessBounce` and `Announced`. Every invariant and action property of a passing
run is proved. The counterexamples of the refuted claims are TLC's.

## 6. What is not modelled, and the plan

* `Billing` composed with `SubscriptionCache` and `Paywall`, so that one event
  travels from Stripe to the paywall's answer and an abstract "who pays is served"
  can be refined. The joint between the lookup and the paywall is proved
  (`PaywallExpectsTheLookup`); the one between the webhook's row and the lookup is
  what the project lacks most.
* The paywall without `STRIPE_SECRET_KEY`, where every request passes.
* Start-up: it runs once, before anybody is answered; its two disagreements with
  the comments are findings.
* The rate limiter, plan limits (mounted on no route), amounts of usage, invoices.
* Impersonation and roles in the frontend, invitations, the pricing page and the
  dashboard.

Not planned, because nothing in them can be ordered wrongly: the text of emails,
logging, error formatting, zod schemas, migrations, styling, containers.
