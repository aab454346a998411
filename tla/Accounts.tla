------------------------------ MODULE Accounts ------------------------------
(***************************************************************************)
(* Who may use the application: sign-up into the approval queue, the       *)
(* administrators' approvals, rejections and bans, and the check every     *)
(* request goes through (config/auth.config.ts, controllers/               *)
(* user.controller.ts, middleware/auth.middleware.ts).                     *)
(*                                                                         *)
(* Each database call of approveUser, rejectUser and requireAuth is a step *)
(* of its own.  Sign-in, ban, unban and removal belong to Better Auth's    *)
(* admin plugin; they are modelled as far as this code depends on them.    *)
(***************************************************************************)
CONSTANTS
    Users,          \* accounts, each signed up at most once
    Requests,       \* concurrent requests through requireAuth
    Admins          \* concurrent calls of approveUser and rejectUser

ASSUME CallAssumption == Requests \cap Admins = {}

VARIABLES
    account,        \* [Users -> the user row]
    signedIn,       \* users with a live session row
    signing,        \* users past the ban check of sign-in, session not stored yet
    req,            \* [Requests -> the progress of requireAuth]
    adm,            \* [Admins -> the progress of approveUser or rejectUser]
    trail,          \* audit rows of approvals and rejections
    \* history, for the properties only
    barred,         \* users the administrators' last word keeps out
    released,       \* users it has let in at some time
    keptOut,        \* requests whose user has been barred, and not lost, since they began
    stale,          \* calls whose read of the account is out of date
    lost,           \* users whose bar fell to a call that was out of date
    written         \* decisions written to an account, but for failed audit rows

history == <<barred, released, keptOut, stale, lost, written>>
vars == <<account, signedIn, signing, req, adm, trail, history>>

Decisions == {"approve", "reject"}
Accounts == [state : {"absent", "present", "gone"}, banned : BOOLEAN,
             reason : {"none", "pending_approval", "registration_rejected", "other"},
             term : {"none", "running", "over"}]
Records == [admin : Admins, user : Users, decision : Decisions]

TypeOK ==
    /\ account \in [Users -> Accounts]
    /\ signedIn \in SUBSET Users /\ signing \in SUBSET Users
    /\ req \in [Requests -> [pc : {"idle", "check", "clear", "revoke", "served", "refused"},
                             user : Users]]
    /\ adm \in [Admins -> [pc : {"idle", "approve", "reject", "audit"},
                           user : Users, decision : Decisions]]
    /\ trail \in SUBSET Records
    /\ barred \in SUBSET Users /\ released \in SUBSET Users /\ lost \in SUBSET Users
    /\ keptOut \in SUBSET Requests
    /\ stale \in SUBSET (Requests \cup Admins)
    /\ written \in SUBSET Records

Init ==
    /\ account = [u \in Users |->
         [state |-> "absent", banned |-> FALSE, reason |-> "none", term |-> "none"]]
    /\ signedIn = {} /\ signing = {}
    /\ req \in [Requests -> {[pc |-> "idle", user |-> u] : u \in Users}]
    /\ adm \in [Admins -> {[pc |-> "idle", user |-> u, decision |-> "approve"] : u \in Users}]
    /\ trail = {}
    /\ barred = {} /\ released = {} /\ keptOut = {}
    /\ stale = {} /\ lost = {} /\ written = {}

-----------------------------------------------------------------------------
(***************************************************************************)
(* Bookkeeping.                                                            *)
(***************************************************************************)
Present(u) == account[u].state = "present"
Pending(u) == account[u].banned /\ account[u].reason = "pending_approval"
Expired(u) == account[u].banned /\ account[u].term = "over"
Unbanned == [state |-> "present", banned |-> FALSE, reason |-> "none", term |-> "none"]

\* Calls that act on an earlier read of u.
Holding(u) ==
    {q \in Requests : req[q].pc = "clear" /\ req[q].user = u}
        \cup {a \in Admins : adm[a].pc \in Decisions /\ adm[a].user = u}

Write(u, new) ==
    /\ account' = [account EXCEPT ![u] = new]
    /\ stale' = stale \cup Holding(u)

Lift(u) ==
    /\ barred' = barred \ {u}
    /\ released' = released \cup {u}
    /\ keptOut' = {q \in keptOut : req[q].user # u}

Bar(u) ==
    /\ barred' = barred \cup {u}
    /\ UNCHANGED <<released, keptOut>>

\* The call writes without checking its read again: if that is out of date, the
\* bar may fall with it.
Trust(call, u) ==
    IF call \in stale
    THEN lost' = lost \cup {u} /\ keptOut' = {q \in keptOut : req[q].user # u}
    ELSE UNCHANGED <<lost, keptOut>>

AuditUntouched == UNCHANGED <<trail, written>>

-----------------------------------------------------------------------------
(***************************************************************************)
(* databaseHooks.user.create.before.                                       *)
(***************************************************************************)
NewUser(u, row) ==
    /\ account[u].state = "absent"
    /\ Write(u, row)
    /\ UNCHANGED <<signedIn, signing, req, adm, lost>> /\ AuditUntouched

\* Mutant: the ban reason is recorded but nobody is banned.
SignUpUnbanned(u) ==
    NewUser(u, [Unbanned EXCEPT !.reason = "pending_approval"]) /\ Bar(u)

SignUp(u) ==
    NewUser(u, [Unbanned EXCEPT !.banned = TRUE, !.reason = "pending_approval"]) /\ Bar(u)

\* The email is one of ADMIN_EMAILS.
SignUpBootstrap(u) ==
    NewUser(u, Unbanned) /\ Lift(u)

-----------------------------------------------------------------------------
(***************************************************************************)
(* Better Auth: sign-in checks the ban, clearing one that is over, before  *)
(* it stores the session; a ban and a removal delete the user's sessions.  *)
(***************************************************************************)
CheckSignIn(u) ==
    /\ Present(u)
    /\ \/ ~account[u].banned /\ UNCHANGED <<account, stale>>
       \/ Expired(u) /\ Write(u, Unbanned)
    /\ signing' = signing \cup {u}
    /\ UNCHANGED <<signedIn, req, adm, barred, released, keptOut, lost>> /\ AuditUntouched

StoreSession(u) ==
    /\ u \in signing
    /\ signing' = signing \ {u}
    /\ signedIn' = IF Present(u) THEN signedIn \cup {u} ELSE signedIn
    /\ UNCHANGED <<account, req, adm, barred, released, keptOut, stale, lost>>
    /\ AuditUntouched

Ban(u, term) ==
    /\ Present(u)
    /\ Write(u, [state |-> "present", banned |-> TRUE, reason |-> "other", term |-> term])
    /\ Bar(u)
    /\ lost' = lost \ {u}
    /\ signedIn' = signedIn \ {u}
    /\ UNCHANGED <<signing, req, adm>> /\ AuditUntouched

Unban(u) ==
    /\ Present(u)
    /\ Write(u, Unbanned)
    /\ Lift(u)
    /\ lost' = lost \ {u}
    /\ UNCHANGED <<signedIn, signing, req, adm>> /\ AuditUntouched

\* The clock passes banExpires: nothing is written.
BanEnds(u) ==
    /\ Present(u) /\ account[u].banned /\ account[u].term = "running"
    /\ account' = [account EXCEPT ![u].term = "over"]
    /\ Lift(u)
    /\ UNCHANGED <<signedIn, signing, req, adm, stale, lost>> /\ AuditUntouched

Remove(u) ==
    /\ Present(u)
    /\ Write(u, [account[u] EXCEPT !.state = "gone"])
    /\ signedIn' = signedIn \ {u}
    /\ UNCHANGED <<signing, req, adm, barred, released, keptOut, lost>> /\ AuditUntouched

-----------------------------------------------------------------------------
(***************************************************************************)
(* requireAuth.  The cookie authenticates for a while without the session  *)
(* row, so a request can come from any user who ever signed up; the row    *)
(* and the ban are then read in one query.                                 *)
(***************************************************************************)
Goes(q, from, to) ==
    /\ req[q].pc = from
    /\ req' = [req EXCEPT ![q].pc = to]

BeginRequest(q, u) ==
    /\ req[q].pc = "idle" /\ account[u].state # "absent"
    /\ req' = [req EXCEPT ![q] = [pc |-> "check", user |-> u]]
    /\ keptOut' = IF u \in barred \ lost THEN keptOut \cup {q} ELSE keptOut \ {q}
    /\ UNCHANGED <<account, signedIn, signing, adm, barred, released, stale, lost>>
    /\ AuditUntouched

\* Mutant: the ban is taken from the session the cookie caches.
AdmitFromCookie(q) ==
    /\ req[q].user \in signedIn
    /\ Goes(q, "check", "served")
    /\ UNCHANGED <<account, signedIn, stale>>

Admit(q) ==
    /\ req[q].user \in signedIn /\ ~account[req[q].user].banned
    /\ Goes(q, "check", "served")
    /\ UNCHANGED <<account, signedIn, stale>>

NoSession(q) ==
    /\ req[q].user \notin signedIn
    /\ Goes(q, "check", "refused")
    /\ UNCHANGED <<account, signedIn, stale>>

\* Mutant: any ban with an end is taken to be over.
FindTemporaryBan(q) ==
    /\ req[q].user \in signedIn /\ account[req[q].user].banned
    /\ account[req[q].user].term # "none"
    /\ Goes(q, "check", "clear")
    /\ stale' = stale \ {q}
    /\ UNCHANGED <<account, signedIn>>

FindExpiredBan(q) ==
    /\ req[q].user \in signedIn /\ Expired(req[q].user)
    /\ Goes(q, "check", "clear")
    /\ stale' = stale \ {q}
    /\ UNCHANGED <<account, signedIn>>

FindBan(q) ==
    /\ req[q].user \in signedIn
    /\ account[req[q].user].banned /\ ~Expired(req[q].user)
    /\ Goes(q, "check", "revoke")
    /\ UNCHANGED <<account, signedIn, stale>>

Revoke(q) ==
    /\ Goes(q, "revoke", "refused")
    /\ signedIn' = signedIn \ {req[q].user}
    /\ UNCHANGED <<account, stale>>

RequestFails(q) ==
    /\ \/ Goes(q, "check", "refused") \/ Goes(q, "clear", "refused")
       \/ Goes(q, "revoke", "refused")
    /\ UNCHANGED <<account, signedIn, stale>>

EndRequest(q) ==
    /\ Goes(q, "served", "idle") \/ Goes(q, "refused", "idle")
    /\ UNCHANGED <<account, signedIn, stale>>

CheckRequest(q) ==
    /\ \/ Admit(q) \/ NoSession(q) \/ FindExpiredBan(q) \/ FindBan(q)
       \/ Revoke(q) \/ RequestFails(q) \/ EndRequest(q)
    /\ UNCHANGED <<signing, adm, barred, released, keptOut, lost>> /\ AuditUntouched

\* The update is by id alone: it also undoes a ban issued since the read.
ClearBan(q) ==
    LET u == req[q].user IN
    /\ Present(u)
    /\ Goes(q, "clear", "served")
    /\ Write(u, Unbanned)
    /\ Trust(q, u)
    /\ UNCHANGED <<signedIn, signing, adm, barred, released>> /\ AuditUntouched

-----------------------------------------------------------------------------
(***************************************************************************)
(* approveUser and rejectUser.                                             *)
(***************************************************************************)
ReadPending(a, u, d) ==
    /\ adm[a].pc = "idle"
    /\ Present(u) /\ Pending(u)
    /\ adm' = [adm EXCEPT ![a] = [pc |-> d, user |-> u, decision |-> d]]
    /\ stale' = stale \ {a}
    /\ UNCHANGED <<account, signedIn, signing, req, barred, released, keptOut, lost>>
    /\ AuditUntouched

Taken(a) == [admin |-> a, user |-> adm[a].user, decision |-> adm[a].decision]

Decided(a) ==
    /\ adm' = [adm EXCEPT ![a].pc = "audit"]
    /\ written' = written \cup {Taken(a)}
    /\ UNCHANGED <<signedIn, signing, req, trail>>

WriteApproval(a) ==
    LET u == adm[a].user IN
    /\ adm[a].pc = "approve" /\ Present(u)
    /\ Write(u, Unbanned)
    /\ Lift(u)
    /\ lost' = lost \ {u}
    /\ Decided(a)

\* Only the reason is written: the account is trusted to be banned still.
WriteRejection(a) ==
    LET u == adm[a].user IN
    /\ adm[a].pc = "reject" /\ Present(u)
    /\ Write(u, [account[u] EXCEPT !.reason = "registration_rejected"])
    /\ barred' = barred \cup {u}
    /\ Trust(a, u)
    /\ UNCHANGED released
    /\ Decided(a)

\* Mutant: the row is written for the decision that was not taken.
RecordOpposite(a) ==
    /\ adm[a].pc = "audit"
    /\ adm' = [adm EXCEPT ![a].pc = "idle"]
    /\ trail' = trail \cup
         {[Taken(a) EXCEPT !.decision =
              IF adm[a].decision = "approve" THEN "reject" ELSE "approve"]}
    /\ UNCHANGED written

RecordDecision(a) ==
    /\ adm[a].pc = "audit"
    /\ adm' = [adm EXCEPT ![a].pc = "idle"]
    /\ trail' = trail \cup {Taken(a)}
    /\ UNCHANGED written

\* A database call fails, the user is gone, or the process dies.  After the
\* account was written the decision stands without an audit row.
DecisionFails(a) ==
    /\ adm[a].pc # "idle"
    /\ adm' = [adm EXCEPT ![a].pc = "idle"]
    /\ written' = IF adm[a].pc = "audit" THEN written \ {Taken(a)} ELSE written
    /\ UNCHANGED trail

EndDecision(a) ==
    /\ RecordDecision(a) \/ DecisionFails(a)
    /\ UNCHANGED <<account, signedIn, signing, req, barred, released, keptOut, stale,
                   lost>>

Next ==
    \/ \E u \in Users :
         \/ SignUp(u) \/ SignUpBootstrap(u) \/ CheckSignIn(u) \/ StoreSession(u)
         \/ Unban(u) \/ BanEnds(u) \/ Remove(u)
         \/ \E term \in {"none", "running"} : Ban(u, term)
    \/ \E q \in Requests :
         \/ CheckRequest(q) \/ ClearBan(q)
         \/ \E u \in Users : BeginRequest(q, u)
    \/ \E a \in Admins :
         \/ WriteApproval(a) \/ WriteRejection(a) \/ EndDecision(a)
         \/ \E u \in Users, d \in Decisions : ReadPending(a, u, d)

Spec == Init /\ [][Next]_vars

-----------------------------------------------------------------------------
(***************************************************************************)
(* Properties.                                                             *)
(***************************************************************************)

\* What the administrators last said is what the account row says, unless the
\* two unguarded updates (ClearBan, WriteRejection) acted on an old read: no
\* other interleaving of approvals, rejections, bans, expiries and requests
\* lets somebody in.
BarHolds ==
    \A u \in barred \ lost : Present(u) => account[u].banned

\* Nobody gets a session, or is served, whom no approval, unban, expiry or
\* bootstrap address has let in at some time (README.md:279, "Until approved,
\* the user cannot sign in").
NoEntryUnreleased ==
    /\ signedIn \cup signing \subseteq released
    /\ \A q \in Requests : req[q].pc = "served" => req[q].user \in released

\* A request that begins after a ban, a rejection or a sign-up is refused as
\* long as that stands and is not lost, whatever its cookie still says.
BanIsImmediate ==
    \A q \in keptOut : req[q].pc # "served"

\* The audit trail tells only of decisions that were taken, and of all of
\* them except those still being recorded or whose recording failed.
AuditTrail ==
    /\ trail \subseteq written
    /\ \A d \in written \ trail :
         adm[d.admin].pc = "audit" /\ Taken(d.admin) = d

\* Claimed by the guard of rejectUser (user.controller.ts:167, "User is not
\* pending approval") and by ADR-004:51 ("Bans [...] take effect immediately"),
\* and false: a rejection that overlaps an approval leaves the account open,
\* and the clearing of an expired ban erases one issued meanwhile.
BarStands ==
    \A u \in barred : Present(u) => account[u].banned
=============================================================================
