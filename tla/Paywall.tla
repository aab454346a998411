------------------------------- MODULE Paywall -------------------------------
(***************************************************************************)
(* The paywall in front of the project routes (middleware/                 *)
(* subscription.middleware.ts) behind requireAuth: which organization a    *)
(* request is judged by, and whether that one pays.                        *)
(*                                                                         *)
(* The lookup is what Entitlement promises of it and SubscriptionCache     *)
(* does: an answer is any that the last minutes support.  What they held   *)
(* is kept per organization in lately.  Billing is configured (without     *)
(* STRIPE_SECRET_KEY every request passes); sessions do not end and nobody *)
(* is banned, which is the subject of Accounts.                            *)
(*                                                                         *)
(* The definitions that every module has (Init, Next, ...) carry the       *)
(* paywall's name, so that it can be extended next to the lookup's module. *)
(***************************************************************************)
CONSTANTS
    Users, Orgs,
    Requests,       \* concurrent requests to the project routes
    None            \* null: no scope, no cached session

ASSUME ScopeAssumption == None \notin Orgs

VARIABLES
    role,           \* [Users -> User.role]
    member,         \* [Users -> the organizations the user is a member of]
    scope,          \* [Users -> activeOrganizationId of the session's row]
    cookie,         \* [Users -> the role in the session the cookie caches, or None]
    paid,           \* organizations whose Subscription row has a live status
    trial,          \* organizations whose free trial runs
    lately,         \* [Orgs -> what held at some time within the lookup's window]
    req,            \* [Requests -> the progress of a request]
    \* history, for the properties only
    due,            \* [Requests -> organizations that had paid, or a trial, while it ran]
    broke,          \* [Requests -> organizations that had not paid while it ran]
    moved           \* requests whose user's memberships or scope changed since they began

people == <<role, member, scope, cookie>>
money == <<paid, trial, lately>>
paywallVars == <<people, money, req, due, broke, moved>>

PlatformRoles == {"user", "admin"}
Findings == {"paid", "unpaid", "trial"}
GatedRequests ==
    [pc : {"idle", "session", "paywall", "lookup", "served", "refused"},
     user : Users, role : PlatformRoles, scope : Orgs \cup {None}, org : Orgs \cup {None}]

PaywallTypeOK ==
    /\ role \in [Users -> PlatformRoles]
    /\ member \in [Users -> SUBSET Orgs]
    /\ scope \in [Users -> Orgs \cup {None}]
    /\ cookie \in [Users -> PlatformRoles \cup {None}]
    /\ paid \subseteq Orgs /\ trial \subseteq Orgs
    /\ lately \in [Orgs -> SUBSET Findings]
    /\ req \in [Requests -> GatedRequests]
    /\ due \in [Requests -> SUBSET Orgs] /\ broke \in [Requests -> SUBSET Orgs]
    /\ moved \subseteq Requests

\* What the database says of an organization now.
Holds(o) == {IF o \in paid THEN "paid" ELSE "unpaid"} \cup {f \in {"trial"} : o \in trial}

NoRequest(u) == [pc |-> "idle", user |-> u, role |-> "user", scope |-> None, org |-> None]

PaywallInit ==
    /\ role \in [Users -> PlatformRoles]
    /\ member \in [Users -> SUBSET Orgs]
    /\ scope = [u \in Users |-> None]
    /\ cookie = [u \in Users |-> None]
    /\ paid \in SUBSET Orgs /\ trial \in SUBSET Orgs
    /\ lately = [o \in Orgs |-> Holds(o)]
    /\ req \in [Requests -> {NoRequest(u) : u \in Users}]
    /\ due = [q \in Requests |-> {}] /\ broke = [q \in Requests |-> {}]
    /\ moved = {}

-----------------------------------------------------------------------------
(***************************************************************************)
(* Roles, memberships and the session, from whoever changes them.          *)
(***************************************************************************)
Running(u) == {q \in Requests : req[q].user = u /\ req[q].pc # "idle"}

ChangeRole(u, r) ==
    /\ role' = [role EXCEPT ![u] = r]
    /\ UNCHANGED <<member, scope, cookie, money, req, due, broke, moved>>

JoinOrLeave(u, orgs) ==
    /\ member' = [member EXCEPT ![u] = orgs]
    /\ moved' = moved \cup Running(u)
    /\ UNCHANGED <<role, scope, cookie, money, req, due, broke>>

\* A new session's scope (session.create.before), organization/set-active, or
\* the administrators' switcher, which asks the role the cookie may still cache.
\* No property tells the oldest membership from another one.
SetScope(u, s) ==
    /\ \/ s = None
       \/ s \in member[u]
       \/ "admin" \in {role[u], cookie[u]}
    /\ scope' = [scope EXCEPT ![u] = s]
    /\ moved' = moved \cup Running(u)
    /\ UNCHANGED <<role, member, cookie, money, req, due, broke>>

\* The cookie caches the session with the user's role, for five minutes.
CacheSession(u, r) ==
    /\ r \in {role[u], None}
    /\ cookie' = [cookie EXCEPT ![u] = r]
    /\ UNCHANGED <<role, member, scope, money, req, due, broke, moved>>

-----------------------------------------------------------------------------
(***************************************************************************)
(* Subscriptions and trials.                                               *)
(***************************************************************************)
\* The history of the requests under way when an organization's state changes.
Noted(history, o) ==
    [q \in Requests |-> IF req[q].pc = "idle" THEN history[q] ELSE history[q] \cup {o}]

Pay(o) ==
    /\ o \notin paid
    /\ paid' = paid \cup {o}
    /\ lately' = [lately EXCEPT ![o] = @ \cup {"paid"}]
    /\ due' = Noted(due, o)
    /\ UNCHANGED <<people, trial, req, broke, moved>>

Lapse(o) ==
    /\ o \in paid
    /\ paid' = paid \ {o}
    /\ lately' = [lately EXCEPT ![o] = @ \cup {"unpaid"}]
    /\ broke' = Noted(broke, o)
    /\ UNCHANGED <<people, trial, req, due, moved>>

\* The trial may end, and what the window still held may be forgotten.
TimePasses(o, trials, kept) ==
    /\ trial' = trials
    /\ UNCHANGED <<people, paid, req, due, broke, moved>>
    /\ lately' = [lately EXCEPT ![o] = Holds(o)' \cup (@ \cap kept)]

-----------------------------------------------------------------------------
(***************************************************************************)
(* A request: requireAuth, then requireActiveSubscription.                 *)
(***************************************************************************)
Entitling(o) == {"paid", "trial"} \cap lately[o] # {}

Unchanging == UNCHANGED <<people, money, due, broke, moved>>

\* Better Auth's session, from the cookie while it caches one.
BeginRequest(q, u) ==
    /\ req[q].pc = "idle"
    /\ req' = [req EXCEPT ![q] =
         [NoRequest(u) EXCEPT !.pc = "session",
                              !.role = IF cookie[u] # None THEN cookie[u] ELSE role[u]]]
    /\ due' = [due EXCEPT ![q] = {o \in Orgs : Entitling(o)}]
    /\ broke' = [broke EXCEPT ![q] = {o \in Orgs : "unpaid" \in lately[o]}]
    /\ UNCHANGED <<people, money, moved>>

\* The scope is the session row's.
RequireAuth(q) ==
    /\ req[q].pc = "session"
    /\ req' = [req EXCEPT ![q].pc = "paywall", ![q].scope = scope[req[q].user]]
    /\ Unchanging

PassAdmin(q) ==
    /\ req[q].pc = "paywall" /\ req[q].role = "admin"
    /\ req' = [req EXCEPT ![q].pc = "served"]
    /\ Unchanging

JudgedBy(q, o) ==
    /\ req[q].pc = "paywall" /\ req[q].role # "admin"
    /\ req' = [req EXCEPT ![q].pc = "lookup", ![q].org = o]
    /\ Unchanging

\* resolveOrgId: the scope, else a membership; the newest, which no property
\* tells from another one.
ResolveScope(q) ==
    /\ req[q].scope # None
    /\ JudgedBy(q, req[q].scope)

ResolveMembership(q) ==
    /\ req[q].scope = None
    /\ \E o \in member[req[q].user] : JudgedBy(q, o)

\* Mutant: without a scope there is nobody to judge by.
PassUnscoped(q) ==
    /\ req[q].pc = "paywall" /\ req[q].role # "admin" /\ req[q].scope = None
    /\ req' = [req EXCEPT ![q].pc = "served"]
    /\ Unchanging

PassWithoutOrg(q) ==
    /\ req[q].pc = "paywall" /\ req[q].role # "admin" /\ req[q].scope = None
    /\ member[req[q].user] = {}
    /\ req' = [req EXCEPT ![q].pc = "served"]
    /\ Unchanging

\* Mutant: only a subscription counts.
MayAnswerOfRow(o, isActive) ==
    IF isActive THEN "paid" \in lately[o] ELSE "unpaid" \in lately[o]

\* getOrgSubscriptionInfo reads the row before the trial's end.
MayAnswer(o, isActive) ==
    IF isActive THEN Entitling(o) ELSE "unpaid" \in lately[o] /\ o \notin trial

Judge(q, isActive) ==
    /\ req[q].pc = "lookup"
    /\ MayAnswer(req[q].org, isActive)
    /\ req' = [req EXCEPT ![q].pc = IF isActive THEN "served" ELSE "refused"]
    /\ Unchanging

\* The answer is sent, or an error at any step.
EndRequest(q) ==
    /\ req[q].pc # "idle"
    /\ req' = [req EXCEPT ![q] = NoRequest(req[q].user)]
    /\ due' = [due EXCEPT ![q] = {}] /\ broke' = [broke EXCEPT ![q] = {}]
    /\ moved' = moved \ {q}
    /\ UNCHANGED <<people, money>>

UserStep(u) ==
    \/ \E r \in PlatformRoles : ChangeRole(u, r)
    \/ \E orgs \in SUBSET Orgs : JoinOrLeave(u, orgs)
    \/ \E s \in Orgs \cup {None} : SetScope(u, s)
    \/ \E r \in PlatformRoles \cup {None} : CacheSession(u, r)

MoneyStep(o) ==
    \/ Pay(o) \/ Lapse(o)
    \/ \E trials \in {trial, trial \ {o}}, kept \in SUBSET Findings : TimePasses(o, trials, kept)

RequestStep(q) ==
    \/ \E u \in Users : BeginRequest(q, u)
    \/ RequireAuth(q) \/ PassAdmin(q)
    \/ ResolveScope(q) \/ ResolveMembership(q) \/ PassWithoutOrg(q)
    \/ \E isActive \in BOOLEAN : Judge(q, isActive)
    \/ EndRequest(q)

PaywallNext ==
    \/ \E u \in Users : UserStep(u)
    \/ \E o \in Orgs : MoneyStep(o)
    \/ \E q \in Requests : RequestStep(q)

PaywallSpec == PaywallInit /\ [][PaywallNext]_paywallVars

-----------------------------------------------------------------------------
(***************************************************************************)
(* Properties.                                                             *)
(***************************************************************************)
Own(q) == member[req[q].user]
\* What a request may be judged by, if nothing changes while it runs.
Judges(q) == Own(q) \cup (Orgs \cap {scope[req[q].user]})

Asked(q) == req[q].role # "admin" /\ q \notin moved

\* Nobody passes unpaid for: whoever is no platform administrator passes only
\* if an organization of his had paid, or had its trial, within the lookup's
\* window or while the request ran; or the one his session's scope names, which
\* he may have been removed from; or if he has no organization at all
\* (resolveOrgId, requireActiveSubscription).
ServedIsPaidFor ==
    \A q \in Requests : req[q].pc = "served" /\ Asked(q) =>
        Judges(q) = {} \/ Judges(q) \cap due[q] # {}

\* Nobody is turned away for nothing: whoever is refused is no platform
\* administrator and has an organization, or a scope left behind, whose trial is
\* over and whose subscription was not live at some time within the lookup's
\* window or while the request ran.
RefusedIsUnpaid ==
    \A q \in Requests : req[q].pc = "refused" =>
        /\ req[q].role # "admin"
        /\ q \notin moved => (Judges(q) \cap broke[q]) \ trial # {}

\* Claimed by subscription.middleware.ts:4 ("Blocks tenant routes when the
\* caller's organization has neither an active subscription nor a live free
\* trial") and false: the scope outlives the membership, and whoever has been
\* removed from a paying organization goes on at its expense.
CallersOrganizationPays ==
    \A q \in Requests : req[q].pc = "served" /\ Asked(q) /\ Own(q) # {} =>
        Own(q) \cap due[q] # {}
=============================================================================
