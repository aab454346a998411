------------------------ MODULE TenantAccess_proofs ------------------------
(***************************************************************************)
(* Proofs about TenantAccess, for any users, organizations, projects and   *)
(* concurrent requests: type correctness, that no request reads beyond its *)
(* user's reach, and that every write had the standing it needs.           *)
(***************************************************************************)
EXTENDS TenantAccess, TLAPS

USE UserAssumption, NullAssumption, HomeAssumption

-----------------------------------------------------------------------------
(***************************************************************************)
(* Types.                                                                  *)
(***************************************************************************)
LEMMA InitialType == Init => TypeOK
<1> SUFFICES ASSUME Init PROVE TypeOK
  OBVIOUS
<1>1. \A u \in Users : IdleRequest(u) \in RequestStates
  BY DEF IdleRequest, RequestStates, Roles, Scopes
<1>2. req \in [Requests -> RequestStates]
  BY <1>1 DEF Init
<1>3. session \in [Users -> Sessions]
  BY DEF Init, Sessions, Scopes
<1>4. cookie \in [Users -> Cookies]
  <2>1. NoCookie \in Cookies
    BY Zenon DEF NoCookie, Cookies, Roles, Scopes
  <2>2. QED
    BY <2>1 DEF Init
<1>5. project \in [Projects -> Rows]
  BY DEF Init, Rows
<1>6. QED
  BY <1>2, <1>3, <1>4, <1>5 DEF Init, TypeOK

LEMMA ScopedType ==
    ASSUME TypeOK, NEW u \in Users, NEW state \in {"none", "live", "ended"},
           NEW scope \in Scopes, Scoped(u, state, scope)
    PROVE  session' \in [Users -> Sessions] /\ rescoped' \in SUBSET Requests
BY DEF TypeOK, Scoped, Sessions, Of

LEMMA MintedType ==
    ASSUME TypeOK, NEW u \in Users, NEW scope \in Scopes, Minted(u, scope)
    PROVE  cookie' \in [Users -> Cookies]
<1>1. [valid |-> TRUE, role |-> role[u], scope |-> scope] \in Cookies
  <2>1. role[u] \in Roles
    BY DEF TypeOK
  <2>2. QED
    BY <2>1, Zenon DEF Cookies
<1>2. QED
  BY <1>1 DEF TypeOK, Minted

LEMMA EnvironmentType ==
    ASSUME TypeOK, NEW u \in Users, Environment(u)
    PROVE  TypeOK'
<1>1. ASSUME NEW r \in Roles, SetRole(u, r) PROVE TypeOK'
  BY <1>1 DEF SetRole, TypeOK, Of
<1>2. ASSUME NEW o \in Orgs, NEW rank \in Ranks \cup {"none"}, SetMember(u, o, rank)
      PROVE  TypeOK'
  <2>1. member' \in [Users -> [Orgs -> Ranks \cup {"none"}]]
    BY <1>2 DEF SetMember, TypeOK
  <2>2. moved' \in [Requests -> SUBSET Orgs]
    BY <1>2 DEF SetMember, TypeOK
  <2>3. QED
    BY <1>2, <2>1, <2>2 DEF SetMember, TypeOK
<1>3. ASSUME NEW s \in Scopes, SignIn(u, s) PROVE TypeOK'
  BY <1>3, ScopedType, MintedType DEF SignIn, Scoped, TypeOK
<1>4. ASSUME NEW s \in Scopes, Activate(u, s) PROVE TypeOK'
  BY <1>4, ScopedType DEF Activate, Scoped, TypeOK
<1>5. CASE EndSession(u)
  <2>1. None \in Scopes
    BY DEF Scopes
  <2>2. QED
    BY <1>5, <2>1, ScopedType DEF EndSession, Scoped, TypeOK
<1>6. CASE MintCookie(u)
  <2>1. session[u].scope \in Scopes
    BY DEF TypeOK, Sessions
  <2>2. QED
    BY <1>6, <2>1, MintedType DEF MintCookie, TypeOK, data, history
<1>7. CASE CookieExpires(u)
  <2>1. NoCookie \in Cookies
    BY Zenon DEF NoCookie, Cookies, Roles, Scopes
  <2>2. QED
    BY <1>7, <2>1 DEF CookieExpires, TypeOK, data, history
<1>8. QED
  BY <1>1, <1>2, <1>3, <1>4, <1>5, <1>6, <1>7 DEF Environment

LEMMA EndedType ==
    ASSUME TypeOK, NEW q \in Requests, Ended(q)
    PROVE  req' \in [Requests -> RequestStates] /\ moved' \in [Requests -> SUBSET Orgs]
<1>1. IdleRequest(req[q].user) \in RequestStates
  BY DEF TypeOK, IdleRequest, RequestStates, Roles, Scopes
<1>2. QED
  BY <1>1 DEF Ended, TypeOK

LEMMA HandleType ==
    ASSUME TypeOK, NEW q \in Requests, Handle(q)
    PROVE  TypeOK'
<1> USE DEF Pending, Answered
<1>0. req[q] \in RequestStates /\ req \in [Requests -> RequestStates]
  BY DEF TypeOK
<1>1. ASSUME NEW u \in Users, Begin(q, u) PROVE TypeOK'
  <2>1. cookie[u].role \in Roles /\ role[u] \in Roles
    BY DEF TypeOK, Cookies
  <2>2. \A r \in Roles :
          [IdleRequest(u) EXCEPT !.pc = "session", !.role = r] \in RequestStates
    BY DEF IdleRequest, RequestStates, Scopes
  <2>3. req' \in [Requests -> RequestStates]
    BY <1>0, <1>1, <2>1, <2>2 DEF Begin
  <2>4. QED
    BY <1>1, <2>3 DEF Begin, TypeOK, data, history
<1>2. CASE Authorize(q)
  <2>1. session[req[q].user].scope \in Scopes
    BY <1>0 DEF TypeOK, Sessions, RequestStates
  <2>2. req' \in [Requests -> RequestStates]
    BY <1>0, <1>2, <2>1 DEF Authorize, RequestStates
  <2>3. QED
    BY <1>2, <2>2 DEF Authorize, Quiet, TypeOK, data, history
<1>3. CASE End(q)
  BY <1>3, EndedType DEF End, TypeOK, data
<1>4. AccessibleOrgIds(q) \in SUBSET Orgs
  BY <1>0 DEF AccessibleOrgIds, MemberOf, RequestStates, Scopes
<1>5. CASE List(q)
  <2>1. req' \in [Requests -> RequestStates]
    BY <1>0, <1>4, <1>5 DEF List, RequestStates
  <2>2. QED
    BY <1>5, <2>1 DEF List, Quiet, TypeOK, data, history
<1>6. CASE FindMany(q)
  <2>1. req' \in [Requests -> RequestStates]
    BY <1>0, <1>6 DEF FindMany, RequestStates
  <2>2. QED
    BY <1>6, <2>1 DEF FindMany, Quiet, TypeOK, data, history
<1>7. ASSUME CheckRead(q) \/ CheckUpdate(q) \/ CheckDelete(q) \/ Save(q) PROVE TypeOK'
  <2>1. req' \in [Requests -> RequestStates]
    BY <1>0, <1>7 DEF CheckRead, CheckUpdate, CheckDelete, Save, Goes, RequestStates
  <2>2. QED
    BY <1>7, <2>1 DEF CheckRead, CheckUpdate, CheckDelete, Save, Quiet, TypeOK, data, history
<1>8. ASSUME NEW o \in Orgs, ListOne(q, o) PROVE TypeOK'
  <2>1. req' \in [Requests -> RequestStates]
    BY <1>0, <1>8 DEF ListOne, RequestStates
  <2>2. QED
    BY <1>8, <2>1 DEF ListOne, Quiet, TypeOK, data, history
<1>9. ASSUME NEW o \in Orgs, VerifyOrgAdmin(q, o) PROVE TypeOK'
  <2>1. req' \in [Requests -> RequestStates]
    BY <1>0, <1>9 DEF VerifyOrgAdmin, RequestStates, Scopes
  <2>2. QED
    BY <1>9, <2>1 DEF VerifyOrgAdmin, Quiet, TypeOK, data, history
<1>10. ASSUME NEW s \in Scopes, CheckCreate(q, s) PROVE TypeOK'
  <2>1. req' \in [Requests -> RequestStates]
    BY <1>0, <1>10 DEF CheckCreate, RequestStates
  <2>2. QED
    BY <1>10, <2>1 DEF CheckCreate, Quiet, TypeOK, data, history
<1>11. ASSUME NEW s \in Scopes, SetActiveOrg(q, s) PROVE TypeOK'
  <2>1. session' \in [Users -> Sessions]
    BY <1>11 DEF SetActiveOrg, TypeOK, Sessions
  <2>2. rescoped' \in SUBSET Requests
    BY <1>11 DEF SetActiveOrg, TypeOK, Of
  <2>3. QED
    BY <1>11, <2>1, <2>2, EndedType DEF SetActiveOrg, TypeOK
<1>12. ASSUME NEW p \in Projects, NEW op \in Pending, NEW granted \in Pending \cup Answered,
              FindProject(q, p, op, granted)
       PROVE  TypeOK'
  <2>1. req' \in [Requests -> RequestStates]
    BY <1>0, <1>12 DEF FindProject, RequestStates
  <2>2. QED
    BY <1>12, <2>1 DEF FindProject, Quiet, TypeOK, data, history
<1>13. ASSUME NEW p \in Projects, Create(q, p) PROVE TypeOK'
  <2>1. \A h \in Homes : [state |-> "stored", home |-> h] \in Rows
    BY DEF Rows
  <2>2. (IF req[q].org # None THEN req[q].org ELSE req[q].user) \in Homes
    BY <1>0 DEF RequestStates, Scopes, Homes
  <2>3. project' \in [Projects -> Rows]
    BY <1>13, <2>1, <2>2 DEF Create, TypeOK
  <2>4. QED
    BY <1>13, <2>3, EndedType DEF Create, TypeOK
<1>14. ASSUME NEW p \in Projects, Delete(q, p) PROVE TypeOK'
  <2>1. project' \in [Projects -> Rows]
    BY <1>14 DEF Delete, TypeOK, Rows
  <2>2. QED
    BY <1>14, <2>1, EndedType DEF Delete, TypeOK
<1>15. QED
  BY <1>1, <1>2, <1>3, <1>5, <1>6, <1>7, <1>8, <1>9, <1>10, <1>11, <1>12, <1>13, <1>14
  DEF Handle

LEMMA StepType == TypeOK /\ [Next]_vars => TypeOK'
<1> SUFFICES ASSUME TypeOK, [Next]_vars PROVE TypeOK'
  OBVIOUS
<1>1. CASE UNCHANGED vars
  BY <1>1 DEF vars, data, history, TypeOK
<1>2. QED
  BY <1>1, EnvironmentType, HandleType DEF Next

\* Roles, memberships, sessions, cookies, projects and requests keep their
\* types, whatever happens in whatever order.
THEOREM TypeCorrect == Spec => []TypeOK
BY InitialType, StepType, PTL DEF Spec

-----------------------------------------------------------------------------
(***************************************************************************)
(* The invariant: what a request has learnt so far is still true, or was   *)
(* overtaken while it ran.                                                 *)
(***************************************************************************)
\* Every project that was ever created has its place.
Placed == \A p \in Projects : project[p].state # "free" => project[p].home \in Homes

Learnt(q) ==
    /\ req[q].pc \notin {"idle", "session"} /\ q \notin rescoped =>
         req[q].scope = session[req[q].user].scope
    /\ \A p \in req[q].on : project[p].state # "free"
    /\ req[q].pc \in {"get", "update", "delete"} => \A p \in req[q].on : ~Personal(p)
    /\ req[q].pc \in {"list", "filter"} => \A o \in req[q].reach : InReach(q, o)
    /\ req[q].pc = "manage" => req[q].org \in Orgs
    /\ ReadWithinReach(q)
    /\ WriteHadStanding(q)

IInv == TypeOK /\ Placed /\ \A q \in Requests : Learnt(q)

\* What a step of another actor may do to request q.
Kept(q) ==
    /\ req'[q] = req[q]
    /\ \A p \in req[q].on : project'[p].state # "free" /\ project'[p].home = project[p].home
    /\ req[q].pc # "idle" =>
         /\ moved[q] \subseteq moved'[q]
         /\ \A o \in Orgs : o \in moved'[q] \/ member'[req[q].user][o] = member[req[q].user][o]
         /\ q \in rescoped => q \in rescoped'
         /\ q \in rescoped' \/ session'[req[q].user].scope = session[req[q].user].scope

\* Reach and rank, once had, are only lost in the history's sight.
LEMMA KeptReach ==
    ASSUME NEW q \in Requests, Kept(q), req[q].pc # "idle", NEW o \in Orgs
    PROVE  /\ InReach(q, o) => InReach(q, o)'
           /\ \A ranks : HasRank(q, o, ranks) => HasRank(q, o, ranks)'
<1>1. InReach(q, o) => InReach(q, o)'
  BY DEF Kept, InReach, IsSystemAdmin, Rank
<1>2. \A ranks : HasRank(q, o, ranks) => HasRank(q, o, ranks)'
  BY DEF Kept, HasRank, Rank
<1>3. QED
  BY <1>1, <1>2

\* What a request has learnt survives the steps of the others.
LEMMA KeptLearnt ==
    ASSUME TypeOK, Placed, NEW q \in Requests, Learnt(q), Kept(q)
    PROVE  Learnt(q)'
<1>0. /\ req'[q] = req[q]
      /\ req[q] \in RequestStates
  BY DEF Kept, TypeOK
<1>1. ASSUME NEW p \in req[q].on
      PROVE  /\ Own(q, p)' <=> Own(q, p)
             /\ Personal(p)' <=> Personal(p)
             /\ project'[p].home = project[p].home
             /\ ~Personal(p) => project[p].home \in Orgs
  <2>1. project'[p].home = project[p].home /\ req'[q] = req[q]
    BY <1>1 DEF Kept
  <2>2. ~Personal(p) => project[p].home \in Orgs
    BY <1>0, <1>1 DEF Learnt, Placed, Personal, Homes, RequestStates
  <2>3. QED
    BY <2>1, <2>2 DEF Own, Personal
<1>2. IsSystemAdmin(q)' <=> IsSystemAdmin(q)
  BY <1>0 DEF IsSystemAdmin
<1>3. req'[q].pc \notin {"idle", "session"} /\ q \notin rescoped' =>
        req'[q].scope = session'[req'[q].user].scope
  BY <1>0 DEF Learnt, Kept
<1>4. \A p \in req'[q].on : project'[p].state # "free"
  BY <1>0 DEF Kept
<1>5. req'[q].pc \in {"get", "update", "delete"} => \A p \in req'[q].on : ~Personal(p)'
  BY <1>0, <1>1 DEF Learnt
<1>6. req'[q].pc \in {"list", "filter"} => \A o \in req'[q].reach : InReach(q, o)'
  <2>1. req[q].reach \subseteq Orgs
    BY <1>0 DEF RequestStates
  <2>2. QED
    BY <1>0, <2>1, KeptReach DEF Learnt
<1>7. ReadWithinReach(q)'
  BY <1>0, <1>1, <1>2, KeptReach DEF Learnt, ReadWithinReach
<1>8. WriteHadStanding(q)'
  <2>1. req'[q].pc = "create" /\ req'[q].org # None => InReach(q, req[q].org)'
    BY <1>0, KeptReach DEF Learnt, WriteHadStanding, RequestStates, Scopes
  <2>2. ASSUME NEW p \in req[q].on, NEW ranks, req[q].pc # "idle", Entitled(q, p, ranks)
        PROVE  Entitled(q, p, ranks)'
    BY <1>1, <2>2, KeptReach DEF Entitled
  <2>3. req'[q].pc = "manage" => HasRank(q, req[q].org, {"owner", "admin"})'
    BY <1>0, KeptReach DEF Learnt, WriteHadStanding
  <2>4. QED
    BY <1>0, <1>2, <2>1, <2>2, <2>3 DEF Learnt, WriteHadStanding
<1>9. req'[q].pc = "manage" => req'[q].org \in Orgs
  BY <1>0 DEF Learnt
<1>10. QED
  BY <1>3, <1>4, <1>5, <1>6, <1>7, <1>8, <1>9 DEF Learnt

-----------------------------------------------------------------------------
(***************************************************************************)
(* Steps that leave other requests alone.                                  *)
(***************************************************************************)
LEMMA EnvironmentKeeps ==
    ASSUME TypeOK, NEW q \in Requests, Learnt(q), NEW u \in Users, Environment(u)
    PROVE  Kept(q)
<1>0. \A p \in req[q].on : project[p].state # "free"
  BY DEF Learnt
<1>1. ASSUME NEW r \in Roles, SetRole(u, r) PROVE Kept(q)
  BY <1>0, <1>1 DEF SetRole, Kept, Of, TypeOK
<1>2. ASSUME NEW o \in Orgs, NEW rank \in Ranks \cup {"none"}, SetMember(u, o, rank)
      PROVE  Kept(q)
  <2>1. ASSUME req[q].pc # "idle", NEW oo \in Orgs
        PROVE  oo \in moved'[q] \/ member'[req[q].user][oo] = member[req[q].user][oo]
    BY <1>2, <2>1 DEF SetMember, Of, TypeOK
  <2>2. moved[q] \subseteq moved'[q]
    BY <1>2 DEF SetMember, TypeOK
  <2>3. QED
    BY <1>0, <1>2, <2>1, <2>2 DEF SetMember, Kept
<1>3. ASSUME NEW s \in Scopes, NEW state, Scoped(u, state, s) PROVE Kept(q)
  <2>1. req[q].pc # "idle" => q \in rescoped' \/ session'[req[q].user] = session[req[q].user]
    BY <1>3 DEF Scoped, Of, TypeOK
  <2>2. QED
    BY <1>0, <1>3, <2>1 DEF Scoped, Kept
<1>4. ASSUME MintCookie(u) \/ CookieExpires(u) PROVE Kept(q)
  BY <1>0, <1>4 DEF MintCookie, CookieExpires, Kept, data, history
<1>5. None \in Scopes
  BY DEF Scopes
<1>6. QED
  BY <1>1, <1>2, <1>3, <1>4, <1>5 DEF Environment, SignIn, Activate, EndSession

LEMMA OthersKept ==
    ASSUME TypeOK, NEW q \in Requests, Learnt(q), NEW c \in Requests, Handle(c), q # c
    PROVE  Kept(q)
<1>0. \A p \in req[q].on : project[p].state # "free"
  BY DEF Learnt
<1>1. ASSUME Quiet, req'[q] = req[q] PROVE Kept(q)
  BY <1>0, <1>1 DEF Quiet, Kept, data, history
<1>2. ASSUME Ended(c) PROVE req'[q] = req[q] /\ moved'[q] = moved[q]
  BY <1>2 DEF Ended, TypeOK
<1>3. ASSUME Ended(c), rescoped' = rescoped \ {c}, UNCHANGED <<role, member, session>>,
             \A p \in req[q].on : project'[p].state # "free" /\ project'[p].home = project[p].home
      PROVE  Kept(q)
  BY <1>2, <1>3 DEF Kept
<1>4. CASE \E u \in Users : Begin(c, u)
  BY <1>0, <1>4 DEF Begin, Kept, TypeOK, data, history
<1>5. CASE Authorize(c)
  BY <1>1, <1>5 DEF Authorize, TypeOK
<1>6. CASE End(c)
  BY <1>0, <1>3, <1>6 DEF End, data
<1>7. CASE List(c) \/ FindMany(c) \/ CheckRead(c) \/ CheckUpdate(c) \/ CheckDelete(c) \/ Save(c)
  BY <1>1, <1>7 DEF List, FindMany, CheckRead, CheckUpdate, CheckDelete, Save, Goes, TypeOK
<1>8. ASSUME NEW o \in Orgs, ListOne(c, o) \/ VerifyOrgAdmin(c, o) PROVE Kept(q)
  BY <1>1, <1>8 DEF ListOne, VerifyOrgAdmin, TypeOK
<1>9. ASSUME NEW s \in Scopes, CheckCreate(c, s) PROVE Kept(q)
  BY <1>1, <1>9 DEF CheckCreate, TypeOK
<1>10. ASSUME NEW s \in Scopes, SetActiveOrg(c, s) PROVE Kept(q)
  <2>1. req[q].pc # "idle" => q \in rescoped' \/ session'[req[q].user] = session[req[q].user]
    BY <1>10 DEF SetActiveOrg, Of, TypeOK
  <2>2. QED
    BY <1>0, <1>2, <1>10, <2>1 DEF SetActiveOrg, Kept
<1>11. ASSUME NEW p \in Projects, NEW op, NEW granted, FindProject(c, p, op, granted)
       PROVE  Kept(q)
  BY <1>1, <1>11 DEF FindProject, TypeOK
<1>12. ASSUME NEW p \in Projects, Create(c, p) \/ Delete(c, p) PROVE Kept(q)
  <2>1. req[q].on \subseteq Projects /\ project \in [Projects -> Rows]
    BY DEF TypeOK, RequestStates
  <2>2. \A r \in req[q].on : project'[r].state # "free" /\ project'[r].home = project[r].home
    <3>1. CASE Create(c, p)
      BY <1>0, <2>1, <3>1 DEF Create
    <3>2. CASE Delete(c, p)
      BY <1>0, <2>1, <3>2 DEF Delete, Rows
    <3>3. QED
      BY <1>12, <3>1, <3>2
  <2>3. QED
    BY <1>3, <1>12, <2>2 DEF Create, Delete
<1>13. QED
  BY <1>4, <1>5, <1>6, <1>7, <1>8, <1>9, <1>10, <1>11, <1>12 DEF Handle

-----------------------------------------------------------------------------
(***************************************************************************)
(* A request's own steps.                                                  *)
(***************************************************************************)
\* What getAccessibleOrgIds answers is within reach: the scope is the
\* database's, not the cookie's.
LEMMA AccessibleIsInReach ==
    ASSUME TypeOK, NEW q \in Requests, Learnt(q), req[q].pc \notin {"idle", "session"}
    PROVE  \A o \in AccessibleOrgIds(q) : o \in Orgs /\ InReach(q, o)
<1>1. CASE IsSystemAdmin(q)
  <2>1. req[q].scope \in Orgs \cup {None}
    BY DEF TypeOK, RequestStates, Scopes
  <2>2. QED
    BY <1>1, <2>1 DEF AccessibleOrgIds, InReach, Learnt
<1>2. CASE ~IsSystemAdmin(q)
  BY <1>2 DEF AccessibleOrgIds, InReach, MemberOf
<1>3. QED
  BY <1>1, <1>2

LEMMA IdleLearnt ==
    ASSUME NEW q \in Requests, TypeOK, Ended(q)
    PROVE  Learnt(q)'
<1>1. req'[q] = IdleRequest(req[q].user)
  BY DEF Ended, TypeOK
<1>2. QED
  BY <1>1 DEF IdleRequest, Learnt, ReadWithinReach, WriteHadStanding

\* A step of the request that leaves everything else alone, and its user and
\* role, changes nobody's reach.
LEMMA QuietReach ==
    ASSUME NEW q \in Requests, Quiet, req'[q].user = req[q].user, req'[q].role = req[q].role
    PROVE  /\ \A o : InReach(q, o)' <=> InReach(q, o)
           /\ \A o, ranks : HasRank(q, o, ranks)' <=> HasRank(q, o, ranks)
           /\ \A p : Own(q, p)' <=> Own(q, p)
           /\ \A p : Personal(p)' <=> Personal(p)
           /\ \A p, ranks : Entitled(q, p, ranks)' <=> Entitled(q, p, ranks)
           /\ IsSystemAdmin(q)' <=> IsSystemAdmin(q)
           /\ UNCHANGED <<project, session, rescoped>>
<1>1. UNCHANGED <<project, session, member, moved, rescoped>>
  BY DEF Quiet, data, history
<1>2. IsSystemAdmin(q)' <=> IsSystemAdmin(q)
  BY DEF IsSystemAdmin
<1>3. \A o : InReach(q, o)' <=> InReach(q, o)
  BY <1>1, <1>2 DEF InReach, Rank
<1>4. \A o, ranks : HasRank(q, o, ranks)' <=> HasRank(q, o, ranks)
  BY <1>1 DEF HasRank, Rank
<1>5. \A p : (Own(q, p)' <=> Own(q, p)) /\ (Personal(p)' <=> Personal(p))
  BY <1>1 DEF Own, Personal
<1>6. \A p, ranks : Entitled(q, p, ranks)' <=> Entitled(q, p, ranks)
  BY <1>1, <1>4, <1>5 DEF Entitled
<1>7. QED
  BY <1>1, <1>2, <1>3, <1>4, <1>5, <1>6

LEMMA OwnStepLearns ==
    ASSUME TypeOK, Placed, NEW q \in Requests, Learnt(q), Handle(q)
    PROVE  Learnt(q)'
<1>0. req \in [Requests -> RequestStates] /\ req[q] \in RequestStates
  BY DEF TypeOK
<1>1. ASSUME NEW u \in Users, Begin(q, u) PROVE Learnt(q)'
  <2>1. req'[q].pc = "session" /\ req'[q].on = {}
    BY <1>0, <1>1 DEF Begin, IdleRequest
  <2>2. QED
    BY <2>1 DEF Learnt, ReadWithinReach, WriteHadStanding
<1>2. CASE Authorize(q)
  BY <1>0, <1>2, QuietReach DEF Authorize, Learnt, ReadWithinReach, WriteHadStanding,
     RequestStates
<1>3. ASSUME Ended(q) PROVE Learnt(q)'
  BY <1>3, IdleLearnt
<1>4. CASE List(q)
  BY <1>0, <1>4, AccessibleIsInReach, QuietReach
  DEF List, Learnt, ReadWithinReach, WriteHadStanding, RequestStates
<1>5. ASSUME NEW o \in Orgs, ListOne(q, o) PROVE Learnt(q)'
  BY <1>0, <1>5, AccessibleIsInReach, QuietReach
  DEF ListOne, Learnt, ReadWithinReach, WriteHadStanding, RequestStates
<1>6. CASE FindMany(q)
  <2>1. /\ req'[q].pc = "listed" /\ req'[q].scope = req[q].scope
        /\ req'[q].user = req[q].user /\ req'[q].role = req[q].role
    BY <1>0, <1>6 DEF FindMany, RequestStates
  <2>2. \A p \in req'[q].on : Stored(p) /\ (project[p].home \in req[q].reach \/ Own(q, p))
    BY <1>0, <1>6 DEF FindMany, RequestStates
  <2>3. \A o \in req[q].reach : o \in Orgs /\ o \notin Creators /\ InReach(q, o)
    BY <1>0, <1>6 DEF FindMany, Learnt, RequestStates
  <2>4. \A p \in req'[q].on :
          Own(q, p) \/ (~Personal(p) /\ InReach(q, project[p].home))
    BY <2>2, <2>3 DEF Personal
  <2>5. ReadWithinReach(q)'
    BY <1>6, <2>1, <2>4, QuietReach DEF FindMany, ReadWithinReach
  <2>6. QED
    BY <1>6, <2>1, <2>2, <2>5, QuietReach DEF FindMany, Learnt, WriteHadStanding, Stored
<1>7. CASE CheckRead(q)
  <2>1. \A p \in req[q].on : ~Personal(p) /\ InReach(q, project[p].home)
    BY <1>7, AccessibleIsInReach DEF CheckRead, Goes, Personal
  <2>2. QED
    BY <1>0, <1>7, <2>1, QuietReach
    DEF CheckRead, Goes, Learnt, ReadWithinReach, WriteHadStanding, RequestStates
<1>8. CASE CheckUpdate(q)
  <2>1. ~IsSystemAdmin(q) => \A p \in req[q].on : Entitled(q, p, {"owner", "admin"})
    BY <1>8 DEF CheckUpdate, Goes, OrgRole, Learnt, Entitled, HasRank
  <2>2. QED
    BY <1>0, <1>8, <2>1, QuietReach
    DEF CheckUpdate, Goes, Learnt, ReadWithinReach, WriteHadStanding, RequestStates
<1>9. CASE CheckDelete(q)
  <2>1. ~IsSystemAdmin(q) => \A p \in req[q].on : Entitled(q, p, {"owner"})
    BY <1>9 DEF CheckDelete, Goes, OrgRole, Learnt, Entitled, HasRank
  <2>2. QED
    BY <1>0, <1>9, <2>1, QuietReach
    DEF CheckDelete, Goes, Learnt, ReadWithinReach, WriteHadStanding, RequestStates
<1>10. CASE Save(q)
  BY <1>0, <1>10, QuietReach
  DEF Save, Goes, Learnt, ReadWithinReach, WriteHadStanding, RequestStates
<1>11. ASSUME NEW p \in Projects,
              \/ FindProject(q, p, "get", "got")
              \/ FindProject(q, p, "update", "save")
              \/ FindProject(q, p, "delete", "remove")
       PROVE  Learnt(q)'
  <2>1. /\ req'[q].on = {p} /\ req'[q].scope = req[q].scope
        /\ req'[q].user = req[q].user /\ req'[q].role = req[q].role
        /\ req[q].pc = "ready" /\ Quiet
    BY <1>0, <1>11 DEF FindProject, RequestStates
  <2>2. project[p].state # "free" /\ (Personal(p) => Own(q, p) \/ IsSystemAdmin(q))
    BY <1>11 DEF FindProject, Stored
  <2>3. CASE ~Personal(p)
    <3>1. req'[q].pc \in {"get", "update", "delete"}
      BY <1>0, <1>11, <2>3 DEF FindProject, RequestStates
    <3>2. QED
      BY <2>1, <2>2, <2>3, <3>1, QuietReach DEF Learnt, ReadWithinReach, WriteHadStanding
  <2>4. CASE Personal(p)
    <3>1. req'[q].pc \in {"got", "save", "remove"}
      BY <1>0, <1>11, <2>4 DEF FindProject, RequestStates
    <3>2. QED
      BY <2>1, <2>2, <2>4, <3>1, QuietReach
      DEF Learnt, ReadWithinReach, WriteHadStanding, Entitled
  <2>5. QED
    BY <2>3, <2>4
<1>12. ASSUME NEW o \in Orgs, VerifyOrgAdmin(q, o) PROVE Learnt(q)'
  <2>1. HasRank(q, o, {"owner", "admin"})
    BY <1>12 DEF VerifyOrgAdmin, HasRank
  <2>2. QED
    BY <1>0, <1>12, <2>1, QuietReach
    DEF VerifyOrgAdmin, Learnt, ReadWithinReach, WriteHadStanding, RequestStates
<1>13. ASSUME NEW s \in Scopes, CheckCreate(q, s) PROVE Learnt(q)'
  BY <1>0, <1>13, AccessibleIsInReach, QuietReach
  DEF CheckCreate, Learnt, ReadWithinReach, WriteHadStanding, RequestStates
<1>14. QED
  BY <1>1, <1>2, <1>3, <1>4, <1>5, <1>6, <1>7, <1>8, <1>9, <1>10, <1>11, <1>12, <1>13
  DEF Handle, End, SetActiveOrg, Create, Delete

-----------------------------------------------------------------------------
(***************************************************************************)
(* The invariant holds.                                                    *)
(***************************************************************************)
LEMMA StepPlaced == TypeOK /\ Placed /\ [Next]_vars => Placed'
<1> SUFFICES ASSUME TypeOK, Placed, [Next]_vars PROVE Placed'
  OBVIOUS
<1>1. ASSUME UNCHANGED project PROVE Placed'
  BY <1>1 DEF Placed
<1>2. ASSUME NEW u \in Users, Environment(u) PROVE UNCHANGED project
  BY <1>2 DEF Environment, SetRole, SetMember, SignIn, Activate, EndSession, Scoped,
     MintCookie, CookieExpires, data
<1>3. ASSUME NEW q \in Requests, NEW p \in Projects, Create(q, p) PROVE Placed'
  <2>1. (IF req[q].org # None THEN req[q].org ELSE req[q].user) \in Homes
    BY DEF TypeOK, RequestStates, Scopes, Homes
  <2>2. QED
    BY <1>3, <2>1 DEF Create, Placed, TypeOK
<1>4. ASSUME NEW q \in Requests, NEW p \in Projects, Delete(q, p) PROVE Placed'
  <2>1. project \in [Projects -> Rows]
    BY DEF TypeOK
  <2>2. QED
    BY <1>4, <2>1 DEF Delete, Placed, Rows, Stored
<1>5. ASSUME NEW q \in Requests, Handle(q),
             ~ \E p \in Projects : Create(q, p) \/ Delete(q, p)
      PROVE  UNCHANGED project
  BY <1>5 DEF Handle, Begin, Authorize, End, List, FindMany, CheckRead, CheckUpdate,
     CheckDelete, Save, ListOne, VerifyOrgAdmin, CheckCreate, SetActiveOrg, FindProject,
     Quiet, data
<1>6. QED
  BY <1>1, <1>2, <1>3, <1>4, <1>5 DEF Next, vars, data

LEMMA InitialInvariant == Init => IInv
<1> SUFFICES ASSUME Init PROVE IInv
  OBVIOUS
<1>1. Placed
  BY DEF Init, Placed
<1>2. ASSUME NEW q \in Requests PROVE Learnt(q)
  <2>1. req[q].pc = "idle" /\ req[q].on = {}
    BY DEF Init, IdleRequest
  <2>2. QED
    BY <2>1 DEF Learnt, ReadWithinReach, WriteHadStanding
<1>3. QED
  BY <1>1, <1>2, InitialType DEF IInv

LEMMA StepInvariant == IInv /\ [Next]_vars => IInv'
<1> SUFFICES ASSUME IInv, [Next]_vars PROVE IInv'
  OBVIOUS
<1> USE DEF IInv
<1>1. TypeOK' /\ Placed'
  BY StepType, StepPlaced
<1>2. ASSUME NEW q \in Requests PROVE Learnt(q)'
  <2>1. CASE UNCHANGED vars
    <3>1. Kept(q)
      BY <2>1 DEF vars, data, history, Kept, Learnt
    <3>2. QED
      BY <3>1, KeptLearnt
  <2>2. ASSUME NEW u \in Users, Environment(u) PROVE Learnt(q)'
    BY <2>2, EnvironmentKeeps, KeptLearnt
  <2>3. ASSUME NEW c \in Requests, Handle(c), c # q PROVE Learnt(q)'
    BY <2>3, OthersKept, KeptLearnt
  <2>4. CASE Handle(q)
    BY <2>4, OwnStepLearns
  <2>5. QED
    BY <2>1, <2>2, <2>3, <2>4 DEF Next
<1>3. QED
  BY <1>1, <1>2

\* No request reads another tenant's data, unless its user's reach changed
\* while it ran: for any number of users, organizations, projects and requests
\* (listProjects, getProject, getAccessibleOrgIds, requireAuth).
THEOREM ReadsStayInReach == Spec => []ReadsWithinReach
<1>1. IInv => ReadsWithinReach
  BY DEF IInv, Learnt, ReadsWithinReach
<1>2. QED
  BY <1>1, InitialInvariant, StepInvariant, PTL DEF Spec

\* Whoever is about to write for an organization has the standing its handler
\* asks for, or lost it during this very request (assertOrgAccess,
\* assertOrgRole, verifyOrgAdmin).
THEOREM WritesNeedStanding == Spec => []WritesHadStanding
<1>1. IInv => WritesHadStanding
  BY DEF IInv, Learnt, WritesHadStanding
<1>2. QED
  BY <1>1, InitialInvariant, StepInvariant, PTL DEF Spec
=============================================================================
