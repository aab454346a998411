---------------------------- MODULE TenantAccess ----------------------------
(***************************************************************************)
(* Which organizations' data a request may touch: memberships, platform    *)
(* roles, the session's tenant scope, the access-control service and the   *)
(* handlers built on it (services/access-control.service.ts, controllers/  *)
(* project.controller.ts, routes/admin.routes.ts, and the organization     *)
(* checks of controllers/billing.controller.ts and                         *)
(* metering.controller.ts).                                                *)
(*                                                                         *)
(* Each database call of a handler is a step of its own; a check and the   *)
(* write it guards are two steps.  Simplifications: a user has one session  *)
(* in a behaviour, since handlers name the row by id; organizations are    *)
(* neither created nor removed; of a project's row only its place matters. *)
(* Bans are the subject of Accounts.                                       *)
(***************************************************************************)
CONSTANTS
    Creators,       \* accounts that own data
    Users,          \* those of them that sign in and make requests
    Orgs, Projects,
    Requests,       \* concurrent requests
    None            \* null: no scope; a project not created yet

ASSUME UserAssumption == Users \subseteq Creators
ASSUME NullAssumption == None \notin Orgs \cup Creators
ASSUME HomeAssumption == Orgs \cap Creators = {}

VARIABLES
    role,           \* [Users -> User.role]
    member,         \* [Users -> [Orgs -> OrganizationMember.role, or "none"]]
    session,        \* [Users -> the user's session row]
    cookie,         \* [Users -> the snapshot of it that the cookie caches]
    project,        \* [Projects -> the project row; its home is the organization,
                    \*  or the creator of a project without one]
    req,            \* [Requests -> the progress of a request]
    \* history, for the properties only
    moved,          \* [Requests -> organizations its user's rank in changed since it began]
    rescoped        \* requests whose user's role, session or scope changed since they began

data == <<role, member, project>>
history == <<moved, rescoped>>
vars == <<role, member, session, cookie, project, req, history>>

Roles == {"user", "admin"}
Ranks == {"member", "admin", "owner"}
Scopes == Orgs \cup {None}
Homes == Orgs \cup Creators
Pending == {"list", "filter", "get", "update", "delete", "create", "save", "remove",
            "manage"}
Answered == {"listed", "got", "updated"}

Sessions == [state : {"none", "live", "ended"}, scope : Scopes]
Cookies == [valid : BOOLEAN, role : Roles, scope : Scopes]
Rows == [state : {"free", "stored", "deleted"}, home : Homes \cup {None}]
RequestStates == [pc : {"idle", "session", "ready"} \cup Pending \cup Answered,
                  user : Users, role : Roles, scope : Scopes, org : Scopes,
                  on : SUBSET Projects, reach : SUBSET Orgs]

TypeOK ==
    /\ role \in [Users -> Roles]
    /\ member \in [Users -> [Orgs -> Ranks \cup {"none"}]]
    /\ session \in [Users -> Sessions]
    /\ cookie \in [Users -> Cookies]
    /\ project \in [Projects -> Rows]
    /\ req \in [Requests -> RequestStates]
    /\ moved \in [Requests -> SUBSET Orgs]
    /\ rescoped \in SUBSET Requests

IdleRequest(u) == [pc |-> "idle", user |-> u, role |-> "user", scope |-> None,
                   org |-> None, on |-> {}, reach |-> {}]

NoCookie == [valid |-> FALSE, role |-> "user", scope |-> None]

\* The database as it may be found, with nobody signed in.
Init ==
    /\ role \in [Users -> Roles]
    /\ member \in [Users -> [Orgs -> Ranks \cup {"none"}]]
    /\ session = [u \in Users |-> [state |-> "none", scope |-> None]]
    /\ cookie = [u \in Users |-> NoCookie]
    /\ project \in [Projects -> {[state |-> "free", home |-> None]}
                                 \cup [state : {"stored"}, home : Homes]]
    /\ req \in [Requests -> {IdleRequest(u) : u \in Users}]
    /\ moved = [q \in Requests |-> {}]
    /\ rescoped = {}

-----------------------------------------------------------------------------
(***************************************************************************)
(* Better Auth: roles, memberships, sessions and the cookie.               *)
(***************************************************************************)
\* The requests of u in progress.
Of(u) == {q \in Requests : req[q].user = u /\ req[q].pc # "idle"}
Live(u) == session[u].state = "live"

SetRole(u, r) ==
    /\ role' = [role EXCEPT ![u] = r]
    /\ rescoped' = rescoped \cup Of(u)
    /\ UNCHANGED <<member, session, cookie, project, req, moved>>

\* Invitations, role updates, removals, and the auto-join of a sign-up.
SetMember(u, o, rank) ==
    /\ member' = [member EXCEPT ![u][o] = rank]
    /\ moved' = [q \in Requests |-> IF q \in Of(u) THEN moved[q] \cup {o} ELSE moved[q]]
    /\ UNCHANGED <<role, session, cookie, project, req, rescoped>>

Scoped(u, state, scope) ==
    /\ session' = [session EXCEPT ![u] = [state |-> state, scope |-> scope]]
    /\ rescoped' = rescoped \cup Of(u)
    /\ UNCHANGED <<role, member, project, req, moved>>

Minted(u, scope) ==
    cookie' = [cookie EXCEPT ![u] = [valid |-> TRUE, role |-> role[u], scope |-> scope]]

\* databaseHooks.session.create.before: a platform administrator starts without
\* a scope, anybody else with a membership, or without if there is none or the
\* lookup fails.  No property tells the oldest membership from another one, and
\* what changes between the hook's queries and the insert could as well change
\* after it, so the sign-in is one step.
SignIn(u, scope) ==
    /\ session[u].state = "none"
    /\ scope # None => role[u] # "admin" /\ member[u][scope] # "none"
    /\ Scoped(u, "live", scope)
    /\ Minted(u, scope)

\* Sign-out or revocation, from another device: the row goes, the cookie stays.
EndSession(u) ==
    /\ Live(u)
    /\ Scoped(u, "ended", None)
    /\ UNCHANGED cookie

\* organization/set-active, open to members.
Activate(u, scope) ==
    /\ Live(u)
    /\ scope # None => member[u][scope] # "none"
    /\ Scoped(u, "live", scope)
    /\ UNCHANGED cookie

MintCookie(u) ==
    /\ Live(u)
    /\ Minted(u, session[u].scope)
    /\ UNCHANGED <<session, req, data, history>>

CookieExpires(u) ==
    /\ cookie[u].valid
    /\ cookie' = [cookie EXCEPT ![u] = NoCookie]
    /\ UNCHANGED <<session, req, data, history>>

-----------------------------------------------------------------------------
(***************************************************************************)
(* requireAuth and ctxFromRequest: the role is the cookie's, the scope the *)
(* session row's.                                                          *)
(***************************************************************************)
Quiet == UNCHANGED <<session, cookie, data, history>>

Begin(q, u) ==
    /\ req[q].pc = "idle"
    /\ cookie[u].valid \/ Live(u)
    /\ req' = [req EXCEPT ![q] =
         [IdleRequest(u) EXCEPT !.pc = "session",
                                !.role = IF cookie[u].valid THEN cookie[u].role
                                                            ELSE role[u]]]
    /\ UNCHANGED <<session, cookie, data, history>>

\* Mutant: the scope, too, is the cookie's while that is valid.
AuthorizeFromCookie(q) ==
    LET u == req[q].user IN
    /\ req[q].pc = "session" /\ Live(u)
    /\ req' = [req EXCEPT ![q].pc = "ready",
                          ![q].scope = IF cookie[u].valid THEN cookie[u].scope
                                                          ELSE session[u].scope]
    /\ Quiet

Authorize(q) ==
    LET u == req[q].user IN
    /\ req[q].pc = "session" /\ Live(u)
    /\ req' = [req EXCEPT ![q].pc = "ready", ![q].scope = session[u].scope]
    /\ Quiet

Ended(q) ==
    /\ req' = [req EXCEPT ![q] = IdleRequest(req[q].user)]
    /\ moved' = [moved EXCEPT ![q] = {}]

\* The answer is sent: a result, a refusal, or an error at any step.
End(q) ==
    /\ req[q].pc # "idle"
    /\ Ended(q)
    /\ rescoped' = rescoped \ {q}
    /\ UNCHANGED <<session, cookie, data>>

-----------------------------------------------------------------------------
(***************************************************************************)
(* The access-control service.                                             *)
(***************************************************************************)
IsSystemAdmin(q) == req[q].role = "admin"
Rank(q, o) == member[req[q].user][o]
MemberOf(q) == {o \in Orgs : Rank(q, o) # "none"}

\* Mutant: whatever the session is scoped to is accessible.
AccessibleOrgIdsByScope(q) ==
    IF req[q].scope # None THEN {req[q].scope}
    ELSE IF IsSystemAdmin(q) THEN Orgs ELSE MemberOf(q)

\* getAccessibleOrgIds; its null, "no filter", is the set of all organizations.
AccessibleOrgIds(q) ==
    IF IsSystemAdmin(q)
    THEN IF req[q].scope # None THEN {req[q].scope} ELSE Orgs
    ELSE MemberOf(q)

\* getOrgRole, which does not look at the scope.
OrgRole(q, o) == IF IsSystemAdmin(q) THEN "owner" ELSE Rank(q, o)

-----------------------------------------------------------------------------
(***************************************************************************)
(* The project handlers.                                                   *)
(***************************************************************************)
Stored(p) == project[p].state = "stored"
Personal(p) == project[p].home \in Creators

Own(q, p) == project[p].home = req[q].user

Goes(q, from, to) ==
    /\ req[q].pc = from
    /\ req' = [req EXCEPT ![q].pc = to]

List(q) ==
    /\ req[q].pc = "ready"
    /\ req' = [req EXCEPT ![q].pc = "list", ![q].reach = AccessibleOrgIds(q)]
    /\ Quiet

ListOne(q, o) ==
    /\ req[q].pc = "ready"
    /\ o \in AccessibleOrgIds(q)
    /\ req' = [req EXCEPT ![q].pc = "filter", ![q].reach = {o}]
    /\ Quiet

FindMany(q) ==
    /\ req[q].pc \in {"list", "filter"}
    /\ req' = [req EXCEPT ![q].pc = "listed", ![q].reach = {}, ![q].on =
         {p \in Projects :
            /\ Stored(p)
            /\ \/ project[p].home \in req[q].reach
               \/ req[q].pc = "list" /\ Own(q, p)}]
    /\ Quiet

\* The first read of getProject, updateProject and deleteProject.  A personal
\* project needs no further query.
FindProject(q, p, op, granted) ==
    /\ req[q].pc = "ready"
    /\ Stored(p)
    /\ Personal(p) => Own(q, p) \/ IsSystemAdmin(q)
    /\ req' = [req EXCEPT ![q].pc = IF Personal(p) THEN granted ELSE op, ![q].on = {p}]
    /\ Quiet

CheckRead(q) ==
    /\ Goes(q, "get", "got")
    /\ \A p \in req[q].on : project[p].home \in AccessibleOrgIds(q)
    /\ Quiet

CheckUpdate(q) ==
    /\ Goes(q, "update", "save")
    /\ \A p \in req[q].on : OrgRole(q, project[p].home) \in {"owner", "admin"}
    /\ Quiet

CheckDelete(q) ==
    /\ Goes(q, "delete", "remove")
    /\ \A p \in req[q].on : OrgRole(q, project[p].home) = "owner"
    /\ Quiet

\* The update answers with the project.
Save(q) ==
    /\ \A p \in req[q].on : Stored(p)
    /\ Goes(q, "save", "updated")
    /\ Quiet

Delete(q, p) ==
    /\ p \in req[q].on /\ Stored(p)
    /\ req[q].pc = "remove"
    /\ Ended(q)
    /\ rescoped' = rescoped \ {q}
    /\ project' = [project EXCEPT ![p].state = "deleted"]
    /\ UNCHANGED <<role, member, session, cookie>>

CheckCreate(q, org) ==
    /\ req[q].pc = "ready"
    /\ org # None => org \in AccessibleOrgIds(q)
    /\ req' = [req EXCEPT ![q].pc = "create", ![q].org = org]
    /\ Quiet

Create(q, p) ==
    /\ project[p].state = "free"
    /\ req[q].pc = "create"
    /\ Ended(q)
    /\ rescoped' = rescoped \ {q}
    /\ project' = [project EXCEPT ![p] =
         [state |-> "stored", home |-> IF req[q].org # None THEN req[q].org
                                                             ELSE req[q].user]]
    /\ UNCHANGED <<role, member, session, cookie>>

-----------------------------------------------------------------------------
(***************************************************************************)
(* The other handlers that write for an organization: checkout, portal and *)
(* recorded usage behind verifyOrgAdmin, and the admin's scope switcher.   *)
(***************************************************************************)
VerifyOrgAdmin(q, o) ==
    /\ req[q].pc = "ready"
    /\ Rank(q, o) \in {"owner", "admin"}
    /\ req' = [req EXCEPT ![q].pc = "manage", ![q].org = o]
    /\ Quiet

SetActiveOrg(q, scope) ==
    /\ req[q].pc = "ready" /\ IsSystemAdmin(q)
    /\ Live(req[q].user)
    /\ session' = [session EXCEPT ![req[q].user].scope = scope]
    /\ rescoped' = (rescoped \cup Of(req[q].user)) \ {q}
    /\ Ended(q)
    /\ UNCHANGED <<role, member, cookie, project>>

Environment(u) ==
    \/ \E r \in Roles \ {role[u]} : SetRole(u, r)
    \/ \E o \in Orgs : \E rank \in (Ranks \cup {"none"}) \ {member[u][o]} : SetMember(u, o, rank)
    \/ \E s \in Scopes : SignIn(u, s) \/ Activate(u, s)
    \/ EndSession(u) \/ MintCookie(u) \/ CookieExpires(u)

Handle(q) ==
    \/ \E u \in Users : Begin(q, u)
    \/ Authorize(q) \/ End(q)
    \/ List(q) \/ FindMany(q) \/ CheckRead(q) \/ CheckUpdate(q) \/ CheckDelete(q)
    \/ Save(q)
    \/ \E o \in Orgs : ListOne(q, o) \/ VerifyOrgAdmin(q, o)
    \/ \E s \in Scopes : CheckCreate(q, s) \/ SetActiveOrg(q, s)
    \/ \E p \in Projects :
         \/ FindProject(q, p, "get", "got") \/ FindProject(q, p, "update", "save")
         \/ FindProject(q, p, "delete", "remove")
         \/ Create(q, p) \/ Delete(q, p)

Next ==
    \/ \E u \in Users : Environment(u)
    \/ \E q \in Requests : Handle(q)

Spec == Init /\ [][Next]_vars

-----------------------------------------------------------------------------
(***************************************************************************)
(* Properties.                                                             *)
(***************************************************************************)

\* The organization is within the request's reach, or was when it began: a
\* member's by the membership, a platform administrator's by the session's
\* scope as the database has it.
InReach(q, o) ==
    IF IsSystemAdmin(q)
    THEN q \in rescoped \/ session[req[q].user].scope \in {o, None}
    ELSE o \in moved[q] \/ Rank(q, o) # "none"

\* The rank the request's check asks for is held, or was when it began.
HasRank(q, o, ranks) == o \in moved[q] \/ Rank(q, o) \in ranks

Entitled(q, p, ranks) ==
    Own(q, p) \/ (~Personal(p) /\ HasRank(q, project[p].home, ranks))

ReadWithinReach(q) ==
    req[q].pc \in {"listed", "got"} =>
        \A p \in req[q].on :
          \/ Own(q, p)
          \/ Personal(p) /\ IsSystemAdmin(q) /\ req[q].pc = "got"
          \/ ~Personal(p) /\ InReach(q, project[p].home)

WriteHadStanding(q) ==
    /\ req[q].pc = "create" /\ req[q].org # None => InReach(q, req[q].org)
    /\ req[q].pc = "manage" => HasRank(q, req[q].org, {"owner", "admin"})
    /\ ~IsSystemAdmin(q) => \A p \in req[q].on :
         /\ req[q].pc \in {"save", "updated"} => Entitled(q, p, {"owner", "admin"})
         /\ req[q].pc = "remove" => Entitled(q, p, {"owner"})

\* Nothing a request reads lies outside its user's reach, unless that reach
\* changed while it ran: no membership lost earlier, no scope left behind in a
\* cookie, counts (listProjects, getProject, getAccessibleOrgIds, requireAuth).
ReadsWithinReach == \A q \in Requests : ReadWithinReach(q)

\* A request about to write for an organization has the standing its handler
\* asks for, or had it when it began: check and write are apart by one query,
\* and nothing older than the request is trusted (assertOrgAccess,
\* assertOrgRole, verifyOrgAdmin).
WritesHadStanding == \A q \in Requests : WriteHadStanding(q)

\* Claimed by README.md:305 ("while set the admin sees only that tenant") and
\* false: updateProject asks getOrgRole, which makes a platform administrator
\* an owner everywhere whatever the scope, and answers with the project.
ScopedAdminSeesOneTenant ==
    \A q \in Requests :
        req[q].pc \in Answered /\ IsSystemAdmin(q) /\ req[q].scope # None =>
            \A p \in req[q].on : project[p].home = req[q].scope \/ Personal(p)

\* Claimed by ADR-004 ("the security-relevant, mutable fields are read fresh")
\* and false of the role: a demoted administrator remains one until the cookie
\* expires, for requests that begin long after.
RoleIsFresh ==
    \A q \in Requests :
        req[q].pc = "ready" /\ q \notin rescoped => req[q].role = role[req[q].user]
=============================================================================
