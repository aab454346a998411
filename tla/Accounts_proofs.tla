--------------------------- MODULE Accounts_proofs ---------------------------
(***************************************************************************)
(* Proofs about Accounts, for any number of users, requests and            *)
(* administrators: type correctness, that an account is open against the   *)
(* administrators' last word only through an update on an old read, that   *)
(* nobody enters whom nobody let in, that a ban is immediate, and that the *)
(* audit trail is true.                                                    *)
(***************************************************************************)
EXTENDS Accounts, TLAPS

USE CallAssumption

-----------------------------------------------------------------------------
(***************************************************************************)
(* Types.                                                                  *)
(***************************************************************************)
LEMMA UnbannedType == Unbanned \in Accounts
BY DEF Unbanned, Accounts

LEMMA WriteType ==
    ASSUME TypeOK, NEW u \in Users, NEW new \in Accounts, Write(u, new)
    PROVE  account' \in [Users -> Accounts] /\ stale' \in SUBSET (Requests \cup Admins)
BY DEF TypeOK, Write, Holding

LEMMA BarType ==
    ASSUME TypeOK, NEW u \in Users, Bar(u) \/ Lift(u)
    PROVE  /\ barred' \in SUBSET Users /\ released' \in SUBSET Users
           /\ keptOut' \in SUBSET Requests
BY DEF TypeOK, Bar, Lift

LEMMA TrustType ==
    ASSUME TypeOK, NEW u \in Users, NEW c, Trust(c, u)
    PROVE  lost' \in SUBSET Users /\ keptOut' \in SUBSET Requests
BY DEF TypeOK, Trust

LEMMA UserType ==
    ASSUME TypeOK, NEW u \in Users,
           \/ SignUp(u) \/ SignUpBootstrap(u) \/ CheckSignIn(u) \/ StoreSession(u)
           \/ Unban(u) \/ BanEnds(u) \/ Remove(u)
           \/ \E term \in {"none", "running"} : Ban(u, term)
    PROVE  TypeOK'
<1> USE UnbannedType
<1>0. account[u] \in Accounts
  BY DEF TypeOK
<1>1. CASE SignUp(u)
  <2>1. [Unbanned EXCEPT !.banned = TRUE, !.reason = "pending_approval"] \in Accounts
    BY DEF Unbanned, Accounts
  <2>2. QED
    BY <1>1, <2>1, WriteType, BarType DEF SignUp, NewUser, TypeOK, AuditUntouched
<1>2. CASE SignUpBootstrap(u)
  BY <1>2, WriteType, BarType DEF SignUpBootstrap, NewUser, TypeOK, AuditUntouched
<1>3. CASE CheckSignIn(u)
  BY <1>3, WriteType DEF CheckSignIn, TypeOK, AuditUntouched
<1>4. CASE StoreSession(u)
  BY <1>4 DEF StoreSession, TypeOK, AuditUntouched
<1>5. CASE Unban(u)
  BY <1>5, WriteType, BarType DEF Unban, TypeOK, AuditUntouched
<1>6. CASE BanEnds(u)
  <2>1. [account[u] EXCEPT !.term = "over"] \in Accounts
    BY <1>0 DEF Accounts
  <2>2. account' \in [Users -> Accounts]
    BY <1>6, <2>1 DEF BanEnds, TypeOK
  <2>3. QED
    BY <1>6, <2>2, BarType DEF BanEnds, TypeOK, AuditUntouched
<1>7. CASE Remove(u)
  <2>1. [account[u] EXCEPT !.state = "gone"] \in Accounts
    BY <1>0 DEF Accounts
  <2>2. QED
    BY <1>7, <2>1, WriteType DEF Remove, TypeOK, AuditUntouched
<1>8. ASSUME NEW term \in {"none", "running"}, Ban(u, term) PROVE TypeOK'
  <2>1. [state |-> "present", banned |-> TRUE, reason |-> "other", term |-> term] \in Accounts
    BY DEF Accounts
  <2>2. QED
    BY <1>8, <2>1, WriteType, BarType DEF Ban, TypeOK, AuditUntouched
<1>9. QED
  BY <1>1, <1>2, <1>3, <1>4, <1>5, <1>6, <1>7, <1>8

LEMMA RequestType ==
    ASSUME TypeOK, NEW q \in Requests,
           \/ CheckRequest(q) \/ ClearBan(q)
           \/ \E u \in Users : BeginRequest(q, u)
    PROVE  TypeOK'
<1>1. CASE CheckRequest(q)
  BY <1>1 DEF CheckRequest, Admit, NoSession, FindExpiredBan, FindBan, Revoke,
              RequestFails, EndRequest, Goes, TypeOK, AuditUntouched
<1>2. CASE ClearBan(q)
  <2>1. req[q].user \in Users
    BY DEF TypeOK
  <2>2. req' \in [Requests -> [pc : {"idle", "check", "clear", "revoke", "served", "refused"},
                             user : Users]]
    BY <1>2 DEF ClearBan, Goes, TypeOK
  <2>3. QED
    BY <1>2, <2>1, <2>2, UnbannedType, WriteType, TrustType
       DEF ClearBan, TypeOK, AuditUntouched
<1>3. ASSUME NEW u \in Users, BeginRequest(q, u) PROVE TypeOK'
  <2>1. req' \in [Requests -> [pc : {"idle", "check", "clear", "revoke", "served", "refused"},
                             user : Users]]
    BY <1>3 DEF BeginRequest, TypeOK
  <2>2. keptOut' = keptOut \cup {q} \/ keptOut' = keptOut \ {q}
    BY <1>3 DEF BeginRequest
  <2>3. QED
    BY <1>3, <2>1, <2>2 DEF BeginRequest, TypeOK, AuditUntouched
<1>4. QED
  BY <1>1, <1>2, <1>3

LEMMA AdminType ==
    ASSUME TypeOK, NEW a \in Admins,
           \/ WriteApproval(a) \/ WriteRejection(a) \/ EndDecision(a)
           \/ \E u \in Users, d \in Decisions : ReadPending(a, u, d)
    PROVE  TypeOK'
<1>0. adm[a].user \in Users /\ adm[a].decision \in Decisions /\ Taken(a) \in Records
  BY DEF TypeOK, Taken, Records
<1>1. CASE WriteApproval(a)
  BY <1>0, <1>1, UnbannedType, WriteType, BarType DEF WriteApproval, Decided, TypeOK
<1>2. CASE WriteRejection(a)
  <2>1. [account[adm[a].user] EXCEPT !.reason = "registration_rejected"] \in Accounts
    <3>1. \A row \in Accounts :
            [row EXCEPT !.reason = "registration_rejected"] \in Accounts
      BY DEF Accounts
    <3>2. QED
      BY <1>0, <3>1 DEF TypeOK
  <2>2. QED
    BY <1>0, <1>2, <2>1, WriteType, TrustType DEF WriteRejection, Decided, TypeOK
<1>3. CASE EndDecision(a)
  BY <1>0, <1>3 DEF EndDecision, RecordDecision, DecisionFails, TypeOK
<1>4. ASSUME NEW u \in Users, NEW d \in Decisions, ReadPending(a, u, d) PROVE TypeOK'
  <2>1. adm' \in [Admins -> [pc : {"idle", "approve", "reject", "audit"},
                           user : Users, decision : Decisions]]
    BY <1>4 DEF ReadPending, TypeOK, Decisions
  <2>2. QED
    BY <1>4, <2>1 DEF ReadPending, TypeOK, AuditUntouched
<1>5. QED
  BY <1>1, <1>2, <1>3, <1>4

LEMMA NextType == TypeOK /\ [Next]_vars => TypeOK'
<1> SUFFICES ASSUME TypeOK, [Next]_vars PROVE TypeOK'
  OBVIOUS
<1>1. CASE UNCHANGED vars
  BY <1>1 DEF vars, history, TypeOK
<1>2. QED
  BY <1>1, UserType, RequestType, AdminType DEF Next

LEMMA InitType == Init => TypeOK
<1> SUFFICES ASSUME Init PROVE TypeOK
  OBVIOUS
<1>1. account \in [Users -> Accounts]
  BY DEF Init, Accounts
<1>2. req \in [Requests -> [pc : {"idle", "check", "clear", "revoke", "served", "refused"},
                          user : Users]]
  <2>1. {[pc |-> "idle", user |-> u] : u \in Users} \subseteq
          [pc : {"idle", "check", "clear", "revoke", "served", "refused"}, user : Users]
    OBVIOUS
  <2>2. QED
    BY <2>1 DEF Init
<1>3. adm \in [Admins -> [pc : {"idle", "approve", "reject", "audit"},
                        user : Users, decision : Decisions]]
  <2>1. {[pc |-> "idle", user |-> u, decision |-> "approve"] : u \in Users} \subseteq
          [pc : {"idle", "approve", "reject", "audit"}, user : Users, decision : Decisions]
    BY DEF Decisions
  <2>2. QED
    BY <2>1 DEF Init
<1>4. QED
  BY <1>1, <1>2, <1>3 DEF Init, TypeOK

\* Every variable keeps its type.
THEOREM TypeCorrect == Spec => []TypeOK
BY InitType, NextType, PTL DEF Spec

-----------------------------------------------------------------------------
(***************************************************************************)
(* The bar.  BarHolds rests on what a call that holds a read may still     *)
(* believe when nobody wrote the account meanwhile, and on expired bans    *)
(* having been lifted already.                                             *)
(***************************************************************************)
Terms == \A u \in Users :
    /\ Expired(u) => u \notin barred \ lost
    /\ account[u].reason = "pending_approval" => account[u].term = "none"

FreshReads ==
    /\ \A q \in Requests : req[q].pc = "clear" /\ q \notin stale => Expired(req[q].user)
    /\ \A a \in Admins : adm[a].pc \in Decisions /\ a \notin stale => Pending(adm[a].user)

BarInv == Terms /\ FreshReads /\ BarHolds

\* A write makes every read of that account stale and touches no other.
LEMMA WriteFresh ==
    ASSUME TypeOK, FreshReads, NEW u \in Users, NEW new, Write(u, new),
           \A q \in Requests : req'[q].pc = "clear" => req'[q] = req[q],
           \A a \in Admins : adm'[a].pc \in Decisions => adm'[a] = adm[a]
    PROVE  FreshReads'
<1>1. \A v \in Users : v # u => account'[v] = account[v]
  BY DEF Write, TypeOK
<1>2. ASSUME NEW q \in Requests, req'[q].pc = "clear", q \notin stale'
      PROVE  Expired(req[q].user)'
  <2>1. req'[q] = req[q] /\ req[q].user \in Users /\ req[q].user # u /\ q \notin stale
    BY <1>2 DEF Write, Holding, TypeOK
  <2>2. QED
    BY <1>1, <1>2, <2>1 DEF FreshReads, Expired
<1>3. ASSUME NEW a \in Admins, adm'[a].pc \in Decisions, a \notin stale'
      PROVE  Pending(adm[a].user)'
  <2>1. adm'[a] = adm[a] /\ adm[a].user \in Users /\ adm[a].user # u /\ a \notin stale
    BY <1>3 DEF Write, Holding, TypeOK
  <2>2. QED
    BY <1>1, <1>3, <2>1 DEF FreshReads, Pending
<1>4. QED
  BY <1>2, <1>3 DEF FreshReads

LEMMA WriteBar ==
    ASSUME TypeOK, Terms, BarHolds, NEW u \in Users, NEW new, Write(u, new),
           barred' \ {u} \subseteq barred, lost \ {u} \subseteq lost',
           new.banned /\ new.term = "over" => u \notin (barred \ lost)',
           new.reason = "pending_approval" => new.term = "none",
           u \in (barred \ lost)' /\ new.state = "present" => new.banned
    PROVE  Terms' /\ BarHolds'
<1>1. account'[u] = new /\ \A v \in Users : v # u => account'[v] = account[v]
  BY DEF Write, TypeOK
<1>2. \A v \in Users : v # u /\ v \in (barred \ lost)' => v \in barred \ lost
  OBVIOUS
<1>3. Terms'
  BY <1>1, <1>2 DEF Terms, Expired
<1>4. ASSUME NEW v \in (barred \ lost)', account'[v].state = "present"
      PROVE  account'[v].banned
  <2>1. CASE v = u
    BY <1>1, <1>4, <2>1
  <2>2. CASE v # u
    <3>1. v \in barred \ lost /\ v \in Users
      BY <1>4, <2>2 DEF TypeOK
    <3>2. QED
      BY <1>1, <1>4, <2>2, <3>1 DEF BarHolds, Present
  <2>3. QED
    BY <2>1, <2>2
<1>5. QED
  BY <1>3, <1>4 DEF BarHolds, Present

LEMMA UserBar ==
    ASSUME TypeOK, BarInv, NEW u \in Users,
           \/ SignUp(u) \/ SignUpBootstrap(u) \/ CheckSignIn(u) \/ StoreSession(u)
           \/ Unban(u) \/ BanEnds(u) \/ Remove(u)
           \/ \E term \in {"none", "running"} : Ban(u, term)
    PROVE  BarInv'
<1> USE DEF BarInv
<1>1. CASE SignUp(u)
  <2> DEFINE new == [Unbanned EXCEPT !.banned = TRUE, !.reason = "pending_approval"]
  <2>1. new.banned /\ new.term = "none"
    BY DEF Unbanned
  <2>2. Write(u, new) /\ barred' = barred \cup {u} /\ UNCHANGED <<req, adm, lost>>
    BY <1>1 DEF SignUp, NewUser, Bar
  <2> HIDE DEF new
  <2>3. FreshReads'
    BY <2>2, WriteFresh
  <2>4. Terms' /\ BarHolds'
    BY <2>1, <2>2, WriteBar
  <2>5. QED
    BY <2>3, <2>4
<1>2. CASE SignUpBootstrap(u) \/ Unban(u)
  <2>1. Write(u, Unbanned) /\ barred' = barred \ {u} /\ UNCHANGED <<req, adm>>
        /\ lost \ {u} \subseteq lost'
    BY <1>2 DEF SignUpBootstrap, NewUser, Unban, Lift
  <2>2. FreshReads'
    BY <2>1, WriteFresh
  <2>3. Terms' /\ BarHolds'
    BY <2>1, WriteBar DEF Unbanned
  <2>4. QED
    BY <2>2, <2>3
<1>3. CASE CheckSignIn(u)
  <2>1. CASE UNCHANGED <<account, stale>>
    BY <1>3, <2>1 DEF CheckSignIn, Terms, FreshReads, BarHolds, Expired, Pending, Present
  <2>2. CASE Expired(u) /\ Write(u, Unbanned)
    <3>1. UNCHANGED <<req, adm, barred, lost>> /\ u \notin barred \ lost
      BY <1>3, <2>2 DEF CheckSignIn, Terms
    <3>2. FreshReads'
      BY <2>2, <3>1, WriteFresh
    <3>3. Terms' /\ BarHolds'
      BY <2>2, <3>1, WriteBar DEF Unbanned
    <3>4. QED
      BY <3>2, <3>3
  <2>3. QED
    BY <1>3, <2>1, <2>2 DEF CheckSignIn
<1>4. CASE StoreSession(u)
  BY <1>4 DEF StoreSession, Terms, FreshReads, BarHolds, Expired, Pending, Present
<1>5. CASE BanEnds(u)
  <2>1. \A v \in Users : v # u => account'[v] = account[v]
    BY <1>5 DEF BanEnds, TypeOK
  <2>2. /\ account'[u].banned = account[u].banned /\ account'[u].reason = account[u].reason
        /\ account[u].term = "running" /\ account[u].reason # "pending_approval"
    BY <1>5 DEF BanEnds, TypeOK, Accounts, Terms
  <2>3. barred' = barred \ {u} /\ UNCHANGED <<req, adm, stale, lost>>
    BY <1>5 DEF BanEnds, Lift
  <2>4. FreshReads'
    BY <2>1, <2>2, <2>3 DEF FreshReads, Expired, Pending, TypeOK
  <2>5. Terms'
    BY <2>1, <2>2, <2>3 DEF Terms, Expired
  <2>6. BarHolds'
    BY <2>1, <2>3 DEF BarHolds, Present, TypeOK
  <2>7. QED
    BY <2>4, <2>5, <2>6
<1>6. CASE Remove(u)
  <2> DEFINE new == [account[u] EXCEPT !.state = "gone"]
  <2>1. /\ new.state = "gone" /\ new.banned = account[u].banned
        /\ new.term = account[u].term /\ new.reason = account[u].reason
    BY DEF TypeOK, Accounts
  <2>2. Write(u, new) /\ UNCHANGED <<req, adm, barred, lost>>
    BY <1>6 DEF Remove
  <2> HIDE DEF new
  <2>3. FreshReads'
    BY <2>2, WriteFresh
  <2>4. Terms' /\ BarHolds'
    BY <2>1, <2>2, WriteBar DEF Terms, Expired
  <2>5. QED
    BY <2>3, <2>4
<1>7. ASSUME NEW term \in {"none", "running"}, Ban(u, term) PROVE BarInv'
  <2> DEFINE new == [state |-> "present", banned |-> TRUE, reason |-> "other", term |-> term]
  <2>1. new.banned /\ new.term # "over" /\ new.reason # "pending_approval"
    OBVIOUS
  <2>2. Write(u, new) /\ barred' = barred \cup {u} /\ UNCHANGED <<req, adm>>
        /\ lost' = lost \ {u}
    BY <1>7 DEF Ban, Bar
  <2> HIDE DEF new
  <2>3. FreshReads'
    BY <2>2, WriteFresh
  <2>4. Terms' /\ BarHolds'
    BY <2>1, <2>2, WriteBar
  <2>5. QED
    BY <2>3, <2>4
<1>8. QED
  BY <1>1, <1>2, <1>3, <1>4, <1>5, <1>6, <1>7

LEMMA RequestBar ==
    ASSUME TypeOK, BarInv, NEW q \in Requests,
           \/ CheckRequest(q) \/ ClearBan(q)
           \/ \E u \in Users : BeginRequest(q, u)
    PROVE  BarInv'
<1> USE DEF BarInv
<1>1. CASE CheckRequest(q)
  <2>1. UNCHANGED <<account, adm, barred, lost>>
    BY <1>1 DEF CheckRequest, Admit, NoSession, FindExpiredBan, FindBan, Revoke,
                RequestFails, EndRequest
  <2>2. \A p \in Requests : p # q => req'[p] = req[p]
    BY <1>1 DEF CheckRequest, Admit, NoSession, FindExpiredBan, FindBan, Revoke,
                RequestFails, EndRequest, Goes, TypeOK
  <2>3. \A c : c # q => (c \in stale' <=> c \in stale)
    BY <1>1 DEF CheckRequest, Admit, NoSession, FindExpiredBan, FindBan, Revoke,
                RequestFails, EndRequest
  <2>4. req'[q].pc = "clear" => Expired(req'[q].user)
    BY <1>1 DEF CheckRequest, Admit, NoSession, FindExpiredBan, FindBan, Revoke,
                RequestFails, EndRequest, Goes, TypeOK
  <2>5. q \notin Admins
    OBVIOUS
  <2>6. FreshReads'
    BY <2>1, <2>2, <2>3, <2>4, <2>5 DEF FreshReads, Expired, Pending
  <2>7. QED
    BY <2>1, <2>6 DEF Terms, BarHolds, Expired, Present
<1>2. CASE ClearBan(q)
  <2> DEFINE u == req[q].user
  <2>1. u \in Users /\ Write(u, Unbanned) /\ UNCHANGED <<adm, barred>> /\ lost \subseteq lost'
    BY <1>2 DEF ClearBan, Trust, TypeOK
  <2>2. u \notin (barred \ lost)'
    BY <1>2, <2>1 DEF ClearBan, Trust, FreshReads, Terms, Goes
  <2>3. \A p \in Requests : req'[p].pc = "clear" => req'[p] = req[p]
    BY <1>2 DEF ClearBan, Goes, TypeOK
  <2> HIDE DEF u
  <2>4. FreshReads'
    BY <2>1, <2>3, WriteFresh
  <2>5. Terms' /\ BarHolds'
    BY <2>1, <2>2, WriteBar DEF Unbanned
  <2>6. QED
    BY <2>4, <2>5
<1>3. ASSUME NEW u \in Users, BeginRequest(q, u) PROVE BarInv'
  <2>1. UNCHANGED <<account, adm, barred, stale, lost>>
    BY <1>3 DEF BeginRequest
  <2>2. \A p \in Requests : req'[p].pc = "clear" => req'[p] = req[p]
    BY <1>3 DEF BeginRequest, TypeOK
  <2>3. QED
    BY <2>1, <2>2 DEF Terms, FreshReads, BarHolds, Expired, Pending, Present
<1>4. QED
  BY <1>1, <1>2, <1>3

LEMMA AdminBar ==
    ASSUME TypeOK, BarInv, NEW a \in Admins,
           \/ WriteApproval(a) \/ WriteRejection(a) \/ EndDecision(a)
           \/ \E u \in Users, d \in Decisions : ReadPending(a, u, d)
    PROVE  BarInv'
<1> USE DEF BarInv
<1>0. \A b \in Admins : Decided(a) /\ adm'[b].pc \in Decisions => adm'[b] = adm[b]
  BY DEF Decided, Decisions, TypeOK
<1>1. CASE WriteApproval(a)
  <2> DEFINE u == adm[a].user
  <2>1. /\ u \in Users /\ Write(u, Unbanned) /\ Decided(a) /\ UNCHANGED req
        /\ barred' = barred \ {u} /\ lost' = lost \ {u}
    BY <1>1 DEF WriteApproval, Lift, Decided, TypeOK
  <2> HIDE DEF u
  <2>2. FreshReads'
    BY <1>0, <2>1, WriteFresh
  <2>3. Terms' /\ BarHolds'
    BY <2>1, WriteBar DEF Unbanned
  <2>4. QED
    BY <2>2, <2>3
<1>2. CASE WriteRejection(a)
  <2> DEFINE u == adm[a].user
             new == [account[u] EXCEPT !.reason = "registration_rejected"]
  <2>1. /\ u \in Users /\ Write(u, new) /\ Decided(a) /\ UNCHANGED req
        /\ barred' = barred \cup {u} /\ lost \subseteq lost' /\ lost' \ {u} \subseteq lost
        /\ a \in stale => u \in lost'
    BY <1>2 DEF WriteRejection, Trust, Decided, TypeOK
  <2>2. /\ new.state = account[u].state /\ new.term = account[u].term
        /\ new.reason = "registration_rejected" /\ (new.banned <=> account[u].banned)
    BY <2>1 DEF TypeOK, Accounts
  <2>3. a \notin stale => account[u].banned /\ account[u].term = "none"
    BY <1>2, <2>1 DEF WriteRejection, FreshReads, Terms, Pending, Decisions
  <2> HIDE DEF u, new
  <2>4. FreshReads'
    BY <1>0, <2>1, WriteFresh
  <2>5. Terms' /\ BarHolds'
    BY <2>1, <2>2, <2>3, WriteBar
  <2>6. QED
    BY <2>4, <2>5
<1>3. CASE EndDecision(a)
  <2>1. UNCHANGED <<account, req, barred, stale, lost>>
    BY <1>3 DEF EndDecision
  <2>2. \A b \in Admins : adm'[b].pc \in Decisions => adm'[b] = adm[b]
    BY <1>3 DEF EndDecision, RecordDecision, DecisionFails, Decisions, TypeOK
  <2>3. QED
    BY <2>1, <2>2 DEF Terms, FreshReads, BarHolds, Expired, Pending, Present
<1>4. ASSUME NEW u \in Users, NEW d \in Decisions, ReadPending(a, u, d) PROVE BarInv'
  <2>1. UNCHANGED <<account, req, barred, lost>> /\ stale' = stale \ {a} /\ Pending(u)
    BY <1>4 DEF ReadPending
  <2>2. adm'[a].user = u /\ \A b \in Admins : b # a => adm'[b] = adm[b]
    BY <1>4 DEF ReadPending, TypeOK
  <2>3. QED
    BY <2>1, <2>2 DEF Terms, FreshReads, BarHolds, Expired, Pending, Present
<1>5. QED
  BY <1>1, <1>2, <1>3, <1>4

LEMMA NextBar == TypeOK /\ BarInv /\ [Next]_vars => BarInv'
<1> SUFFICES ASSUME TypeOK, BarInv, [Next]_vars PROVE BarInv'
  OBVIOUS
<1>1. CASE UNCHANGED vars
  BY <1>1 DEF vars, history, BarInv, Terms, FreshReads, BarHolds, Expired, Pending, Present
<1>2. QED
  BY <1>1, UserBar, RequestBar, AdminBar DEF Next

LEMMA InitBar == Init => BarInv
<1> SUFFICES ASSUME Init PROVE BarInv
  OBVIOUS
<1>1. \A q \in Requests : req[q].pc = "idle"
  BY DEF Init
<1>2. \A a \in Admins : adm[a].pc = "idle"
  BY DEF Init
<1>3. FreshReads
  BY <1>1, <1>2 DEF FreshReads, Decisions
<1>4. Terms /\ BarHolds
  BY DEF Init, Terms, BarHolds, Expired
<1>5. QED
  BY <1>3, <1>4 DEF BarInv

\* An account that the administrators' last word keeps out is banned, unless
\* one of the two unguarded updates acted on an old read.
THEOREM BarOnlyLostToOldReads == Spec => []BarHolds
<1>1. BarInv => BarHolds
  BY DEF BarInv
<1>2. QED
  BY <1>1, InitType, NextType, InitBar, NextBar, PTL DEF Spec

-----------------------------------------------------------------------------
(***************************************************************************)
(* Entry.  An open account was released at some time, sessions belong to   *)
(* users that exist, and a request that has been barred since it began is  *)
(* barred still and does not clear a ban.                                  *)
(***************************************************************************)
Opened == \A u \in Users :
    (Present(u) /\ ~account[u].banned) \/ Expired(u) => u \in released

Owned == \A u \in signedIn : Present(u)

Cleared == \A q \in Requests :
    req[q].pc = "clear" => req[q].user \in released /\ q \notin keptOut

KeptBarred == \A q \in keptOut : req[q].user \in barred \ lost

Entered == NoEntryUnreleased /\ Cleared
Refused == KeptBarred /\ BanIsImmediate
EntryInv == Opened /\ Owned /\ Entered /\ Refused

\* What a write leaves of Opened and Owned, when nobody loses a release.
LEMMA WriteEntry ==
    ASSUME TypeOK, Opened, Owned, NEW u \in Users, NEW new, Write(u, new),
           released \subseteq released', signedIn' \subseteq signedIn,
           (new.state = "present" /\ ~new.banned) \/ (new.banned /\ new.term = "over")
             => u \in released',
           u \in signedIn' => new.state = "present"
    PROVE  Opened' /\ Owned'
<1>1. account'[u] = new /\ \A v \in Users : v # u => account'[v] = account[v]
  BY DEF Write, TypeOK
<1>2. Opened'
  BY <1>1 DEF Opened, Present, Expired
<1>3. Owned'
  BY <1>1 DEF Owned, Present, TypeOK
<1>4. QED
  BY <1>2, <1>3

\* Steps that change no request, start no session and undo no release.
LEMMA RequestsEntry ==
    ASSUME TypeOK, Entered, Refused, UNCHANGED req, released \subseteq released',
           signedIn' \cup signing' \subseteq signedIn \cup signing \cup released',
           \A q \in keptOut' : q \in keptOut /\ req[q].user \in (barred \ lost)'
    PROVE  Entered' /\ Refused'
BY DEF Entered, Refused, NoEntryUnreleased, Cleared, KeptBarred, BanIsImmediate

LEMMA UserEntry ==
    ASSUME TypeOK, BarInv, EntryInv, NEW u \in Users,
           \/ SignUp(u) \/ SignUpBootstrap(u) \/ CheckSignIn(u) \/ StoreSession(u)
           \/ Unban(u) \/ BanEnds(u) \/ Remove(u)
           \/ \E term \in {"none", "running"} : Ban(u, term)
    PROVE  EntryInv'
<1> USE DEF EntryInv
<1>1. CASE SignUp(u)
  <2> DEFINE new == [Unbanned EXCEPT !.banned = TRUE, !.reason = "pending_approval"]
  <2>1. new.banned /\ new.term = "none" /\ new.state = "present"
    BY DEF Unbanned
  <2>2. Write(u, new) /\ barred' = barred \cup {u}
        /\ UNCHANGED <<req, released, keptOut, signedIn, signing, lost>>
    BY <1>1 DEF SignUp, NewUser, Bar
  <2> HIDE DEF new
  <2>3. QED
    BY <2>1, <2>2, WriteEntry, RequestsEntry DEF Refused, KeptBarred
<1>2. CASE SignUpBootstrap(u) \/ Unban(u)
  <2>1. /\ Write(u, Unbanned) /\ Lift(u) /\ UNCHANGED <<req, signedIn, signing>>
        /\ lost' \subseteq lost
    BY <1>2 DEF SignUpBootstrap, NewUser, Unban
  <2>2. Opened' /\ Owned'
    BY <2>1, WriteEntry DEF Lift, Unbanned
  <2>3. QED
    BY <2>1, <2>2, RequestsEntry DEF Lift, Refused, KeptBarred
<1>3. CASE CheckSignIn(u)
  <2>1. /\ UNCHANGED <<req, signedIn, barred, released, keptOut, lost>>
        /\ signing' = signing \cup {u}
    BY <1>3 DEF CheckSignIn
  <2>2. u \in released
    BY <1>3 DEF CheckSignIn, Opened
  <2>3. CASE UNCHANGED account
    BY <2>1, <2>2, <2>3, RequestsEntry
       DEF Opened, Owned, Present, Expired, Refused, KeptBarred
  <2>4. CASE Write(u, Unbanned)
    <3>1. Opened' /\ Owned'
      BY <2>1, <2>2, <2>4, WriteEntry DEF Unbanned
    <3>2. QED
      BY <2>1, <2>2, <3>1, RequestsEntry DEF Refused, KeptBarred
  <2>5. QED
    BY <1>3, <2>3, <2>4 DEF CheckSignIn
<1>4. CASE StoreSession(u)
  <2>1. /\ UNCHANGED <<account, req, barred, released, keptOut, lost>>
        /\ u \in signing /\ signing' = signing \ {u}
        /\ signedIn' = IF Present(u) THEN signedIn \cup {u} ELSE signedIn
    BY <1>4 DEF StoreSession
  <2>2. Opened' /\ Owned'
    BY <2>1 DEF Opened, Owned, Present, Expired
  <2>3. QED
    BY <2>1, <2>2, RequestsEntry DEF Refused, KeptBarred
<1>5. CASE BanEnds(u)
  <2>1. /\ UNCHANGED <<req, signedIn, signing, lost>> /\ Lift(u)
        /\ \A v \in Users : v # u => account'[v] = account[v]
        /\ account'[u].state = account[u].state
    BY <1>5 DEF BanEnds, TypeOK, Accounts
  <2>2. Opened'
    BY <2>1 DEF Opened, Lift, Present, Expired
  <2>3. Owned'
    BY <2>1 DEF Owned, Present, TypeOK
  <2>4. QED
    BY <2>1, <2>2, <2>3, RequestsEntry DEF Lift, Refused, KeptBarred
<1>6. CASE Remove(u)
  <2> DEFINE new == [account[u] EXCEPT !.state = "gone"]
  <2>1. /\ new.state = "gone" /\ (new.banned <=> account[u].banned)
        /\ new.term = account[u].term
    BY DEF TypeOK, Accounts
  <2>2. Write(u, new) /\ UNCHANGED <<req, signing, barred, released, keptOut, lost>>
        /\ signedIn' = signedIn \ {u}
    BY <1>6 DEF Remove
  <2> HIDE DEF new
  <2>3. Opened' /\ Owned'
    BY <2>1, <2>2, WriteEntry DEF Opened, Expired
  <2>4. QED
    BY <2>2, <2>3, RequestsEntry DEF Refused, KeptBarred
<1>7. ASSUME NEW term \in {"none", "running"}, Ban(u, term) PROVE EntryInv'
  <2> DEFINE new == [state |-> "present", banned |-> TRUE, reason |-> "other", term |-> term]
  <2>1. new.banned /\ new.term # "over" /\ new.state = "present"
    OBVIOUS
  <2>2. Write(u, new) /\ barred' = barred \cup {u} /\ UNCHANGED <<req, signing>>
        /\ UNCHANGED <<released, keptOut>> /\ lost' = lost \ {u} /\ signedIn' = signedIn \ {u}
    BY <1>7 DEF Ban, Bar
  <2> HIDE DEF new
  <2>3. Opened' /\ Owned'
    BY <2>1, <2>2, WriteEntry
  <2>4. QED
    BY <2>2, <2>3, RequestsEntry DEF Refused, KeptBarred
<1>8. QED
  BY <1>1, <1>2, <1>3, <1>4, <1>5, <1>6, <1>7

\* A request step that leaves the account and the bar alone: enough that its
\* own new state is allowed.
LEMMA CheckEntry ==
    ASSUME TypeOK, BarInv, EntryInv, NEW q \in Requests, CheckRequest(q)
    PROVE  EntryInv'
<1> USE DEF EntryInv
<1>1. UNCHANGED <<account, signing, barred, released, keptOut, lost>>
      /\ signedIn' \subseteq signedIn
  BY DEF CheckRequest, Admit, NoSession, FindExpiredBan, FindBan, Revoke,
         RequestFails, EndRequest
<1>2. /\ req'[q].user = req[q].user
      /\ \A p \in Requests : p # q => req'[p] = req[p]
  BY DEF CheckRequest, Admit, NoSession, FindExpiredBan, FindBan, Revoke,
         RequestFails, EndRequest, Goes, TypeOK
<1>3. \/ req'[q].pc \notin {"served", "clear"}
      \/ Admit(q) \/ FindExpiredBan(q)
  BY DEF CheckRequest, NoSession, FindBan, Revoke, RequestFails, EndRequest, Goes, TypeOK
<1>4. Admit(q) \/ FindExpiredBan(q) => req[q].user \in released /\ q \notin keptOut
  <2>1. req[q].user \in Users
    BY DEF TypeOK
  <2>2. Admit(q) => req[q].user \in released /\ req[q].user \notin barred \ lost
    BY <2>1 DEF Admit, Owned, Opened, BarInv, BarHolds
  <2>3. FindExpiredBan(q) => req[q].user \in released /\ req[q].user \notin barred \ lost
    BY <2>1 DEF FindExpiredBan, Opened, BarInv, Terms
  <2>4. QED
    BY <2>2, <2>3 DEF Refused, KeptBarred
<1>5. Opened' /\ Owned'
  BY <1>1 DEF Opened, Owned, Present, Expired
<1>6. Entered'
  BY <1>1, <1>2, <1>3, <1>4 DEF Entered, NoEntryUnreleased, Cleared
<1>7. Refused'
  BY <1>1, <1>2, <1>3, <1>4 DEF Refused, KeptBarred, BanIsImmediate, TypeOK
<1>8. QED
  BY <1>5, <1>6, <1>7

LEMMA RequestEntry ==
    ASSUME TypeOK, BarInv, EntryInv, NEW q \in Requests,
           \/ CheckRequest(q) \/ ClearBan(q)
           \/ \E u \in Users : BeginRequest(q, u)
    PROVE  EntryInv'
<1> USE DEF EntryInv
<1>1. CASE CheckRequest(q)
  BY <1>1, CheckEntry
<1>2. CASE ClearBan(q)
  <2> DEFINE u == req[q].user
  <2>1. /\ u \in Users /\ Write(u, Unbanned)
        /\ UNCHANGED <<signedIn, signing, barred, released>>
    BY <1>2 DEF ClearBan, TypeOK
  <2>2. u \in released /\ q \notin keptOut
    BY <1>2 DEF ClearBan, Goes, Entered, Cleared
  <2>3. req'[q].user = u /\ \A p \in Requests : p # q => req'[p] = req[p]
    BY <1>2 DEF ClearBan, Goes, TypeOK
  <2>4. \A p \in keptOut' : p \in keptOut /\ req[p].user \in (barred \ lost)'
    BY <1>2 DEF ClearBan, Trust, Refused, KeptBarred
  <2>5. req'[q].pc = "served"
    BY <1>2 DEF ClearBan, Goes, TypeOK
  <2> HIDE DEF u
  <2>6. Opened' /\ Owned'
    BY <2>1, <2>2, WriteEntry DEF Unbanned
  <2>7. Entered'
    BY <2>1, <2>2, <2>3, <2>4, <2>5 DEF Entered, NoEntryUnreleased, Cleared
  <2>8. Refused'
    BY <2>2, <2>3, <2>4 DEF Refused, KeptBarred, BanIsImmediate, TypeOK
  <2>9. QED
    BY <2>6, <2>7, <2>8
<1>3. ASSUME NEW u \in Users, BeginRequest(q, u) PROVE EntryInv'
  <2>1. UNCHANGED <<account, signedIn, signing, barred, released, lost>>
    BY <1>3 DEF BeginRequest
  <2>2. /\ req'[q].user = u /\ req'[q].pc = "check"
        /\ \A p \in Requests : p # q => req'[p] = req[p]
    BY <1>3 DEF BeginRequest, TypeOK
  <2>3. /\ \A p \in keptOut' : p # q => p \in keptOut
        /\ q \in keptOut' => u \in barred \ lost
    BY <1>3 DEF BeginRequest
  <2>4. Opened' /\ Owned'
    BY <2>1 DEF Opened, Owned, Present, Expired
  <2>5. Entered'
    BY <2>1, <2>2, <2>3 DEF Entered, NoEntryUnreleased, Cleared
  <2>6. keptOut' \subseteq Requests
    BY RequestType, <1>3 DEF TypeOK
  <2>7. Refused'
    BY <2>1, <2>2, <2>3, <2>6 DEF Refused, KeptBarred, BanIsImmediate
  <2>8. QED
    BY <2>4, <2>5, <2>7
<1>4. QED
  BY <1>1, <1>2, <1>3

LEMMA AdminEntry ==
    ASSUME TypeOK, BarInv, EntryInv, NEW a \in Admins,
           \/ WriteApproval(a) \/ WriteRejection(a) \/ EndDecision(a)
           \/ \E u \in Users, d \in Decisions : ReadPending(a, u, d)
    PROVE  EntryInv'
<1> USE DEF EntryInv
<1>1. CASE WriteApproval(a)
  <2> DEFINE u == adm[a].user
  <2>1. /\ u \in Users /\ Write(u, Unbanned) /\ Lift(u) /\ lost' \subseteq lost
        /\ UNCHANGED <<req, signedIn, signing>>
    BY <1>1 DEF WriteApproval, Decided, TypeOK
  <2> HIDE DEF u
  <2>2. Opened' /\ Owned'
    BY <2>1, WriteEntry DEF Lift, Unbanned
  <2>3. QED
    BY <2>1, <2>2, RequestsEntry DEF Lift, Refused, KeptBarred
<1>2. CASE WriteRejection(a)
  <2> DEFINE u == adm[a].user
             new == [account[u] EXCEPT !.reason = "registration_rejected"]
  <2>1. /\ u \in Users /\ Write(u, new) /\ Trust(a, u) /\ barred' = barred \cup {u}
        /\ UNCHANGED <<req, signedIn, signing, released>>
    BY <1>2 DEF WriteRejection, Decided, TypeOK
  <2>2. /\ new.state = account[u].state /\ new.term = account[u].term
        /\ (new.banned <=> account[u].banned)
    BY <2>1 DEF TypeOK, Accounts
  <2> HIDE DEF u, new
  <2>3. Opened' /\ Owned'
    BY <2>1, <2>2, WriteEntry DEF Opened, Owned, Present, Expired
  <2>4. \A q \in keptOut' : q \in keptOut /\ req[q].user \in (barred \ lost)'
    BY <2>1 DEF Trust, Refused, KeptBarred
  <2>5. QED
    BY <2>1, <2>3, <2>4, RequestsEntry
<1>3. CASE EndDecision(a) \/ \E u \in Users, d \in Decisions : ReadPending(a, u, d)
  <2>1. UNCHANGED <<account, req, signedIn, signing, barred, released, keptOut, lost>>
    BY <1>3 DEF EndDecision, ReadPending
  <2>2. QED
    BY <2>1, RequestsEntry DEF Opened, Owned, Present, Expired, Refused, KeptBarred
<1>4. QED
  BY <1>1, <1>2, <1>3

LEMMA NextEntry == TypeOK /\ BarInv /\ EntryInv /\ [Next]_vars => EntryInv'
<1> SUFFICES ASSUME TypeOK, BarInv, EntryInv, [Next]_vars PROVE EntryInv'
  OBVIOUS
<1>1. CASE UNCHANGED vars
  BY <1>1 DEF vars, history, EntryInv, Opened, Owned, Entered, Refused, NoEntryUnreleased,
              Cleared, KeptBarred, BanIsImmediate, Present, Expired
<1>2. QED
  BY <1>1, UserEntry, RequestEntry, AdminEntry DEF Next

LEMMA InitEntry == Init => EntryInv
<1> SUFFICES ASSUME Init PROVE EntryInv
  OBVIOUS
<1>1. \A q \in Requests : req[q].pc = "idle"
  BY DEF Init
<1>2. Opened /\ Owned
  BY DEF Init, Opened, Owned, Present, Expired
<1>3. Entered /\ Refused
  BY <1>1 DEF Init, Entered, Refused, NoEntryUnreleased, Cleared, KeptBarred, BanIsImmediate
<1>4. QED
  BY <1>2, <1>3 DEF EntryInv

\* Nobody has a session or is served whom nobody let in.
THEOREM NoEntryWithoutRelease == Spec => []NoEntryUnreleased
<1>1. EntryInv => NoEntryUnreleased
  BY DEF EntryInv, Entered
<1>2. QED
  BY <1>1, InitType, NextType, InitBar, NextBar, InitEntry, NextEntry, PTL DEF Spec

\* A request that begins under a standing bar is not served while it stands.
THEOREM BansAreImmediate == Spec => []BanIsImmediate
<1>1. EntryInv => BanIsImmediate
  BY DEF EntryInv, Refused
<1>2. QED
  BY <1>1, InitType, NextType, InitBar, NextBar, InitEntry, NextEntry, PTL DEF Spec

-----------------------------------------------------------------------------
(***************************************************************************)
(* The audit trail.  A user who was decided about never waits again, so    *)
(* that one call cannot take the same decision twice: what a failed audit  *)
(* row withdraws was never on the trail.                                   *)
(***************************************************************************)
Settled == \A d \in written \cup trail :
    account[d.user].state # "absent" /\ account[d.user].reason # "pending_approval"

NotYet == \A a \in Admins : adm[a].pc \in Decisions =>
    \A d \in written \cup trail : d.admin = a => d.user # adm[a].user

Unrecorded == \A a \in Admins : adm[a].pc = "audit" => Taken(a) \in written \ trail

AuditInv == Settled /\ NotYet /\ Unrecorded /\ AuditTrail

\* Steps that take and record no decision.
LEMMA OthersAudit ==
    ASSUME TypeOK, AuditInv, UNCHANGED <<adm, trail, written>>, Settled'
    PROVE  AuditInv'
BY DEF AuditInv, NotYet, Unrecorded, AuditTrail, Taken

\* A written row keeps who was decided about settled if it does not wait.
LEMMA WriteSettled ==
    ASSUME TypeOK, Settled, NEW u \in Users, NEW new, Write(u, new),
           UNCHANGED <<trail, written>>,
           \/ account[u].state = "absent"
           \/ new.state # "absent"
              /\ (new.reason = "pending_approval" => account[u].reason = new.reason)
    PROVE  Settled'
<1>1. account'[u] = new /\ \A v \in Users : v # u => account'[v] = account[v]
  BY DEF Write, TypeOK
<1>2. \A d \in written \cup trail : d.user \in Users
  BY DEF TypeOK, Records
<1>3. QED
  BY <1>1, <1>2 DEF Settled

LEMMA UserAudit ==
    ASSUME TypeOK, AuditInv, NEW u \in Users,
           \/ SignUp(u) \/ SignUpBootstrap(u) \/ CheckSignIn(u) \/ StoreSession(u)
           \/ Unban(u) \/ BanEnds(u) \/ Remove(u)
           \/ \E term \in {"none", "running"} : Ban(u, term)
    PROVE  AuditInv'
<1>1. UNCHANGED <<adm, trail, written>>
  BY DEF SignUp, SignUpBootstrap, NewUser, CheckSignIn, StoreSession, Unban, BanEnds,
         Remove, Ban, AuditUntouched
<1>2. Settled
  BY DEF AuditInv
<1>3. CASE \/ SignUp(u) \/ SignUpBootstrap(u)
           \/ CheckSignIn(u) \/ Unban(u)
           \/ \E term \in {"none", "running"} : Ban(u, term)
  <2>1. \/ UNCHANGED account
        \/ \E new : /\ Write(u, new)
                    /\ \/ account[u].state = "absent"
                       \/ new.state # "absent" /\ new.reason # "pending_approval"
    BY <1>3 DEF SignUp, SignUpBootstrap, NewUser, CheckSignIn, Unban, Ban, Unbanned
  <2>2. Settled'
    BY <1>1, <1>2, <2>1, WriteSettled DEF Settled
  <2>3. QED
    BY <1>1, <2>2, OthersAudit
<1>4. CASE StoreSession(u)
  BY <1>1, <1>2, <1>4, OthersAudit DEF StoreSession, Settled
<1>5. CASE BanEnds(u)
  <2>1. \A v \in Users : /\ account'[v].state = account[v].state
                         /\ account'[v].reason = account[v].reason
    BY <1>5 DEF BanEnds, TypeOK, Accounts
  <2>2. \A d \in written \cup trail : d.user \in Users
    BY DEF TypeOK, Records
  <2>3. QED
    BY <1>1, <1>2, <2>1, <2>2, OthersAudit DEF Settled
<1>6. CASE Remove(u)
  <2> DEFINE new == [account[u] EXCEPT !.state = "gone"]
  <2>1. new.state = "gone" /\ new.reason = account[u].reason
    BY DEF TypeOK, Accounts
  <2>2. Write(u, new)
    BY <1>6 DEF Remove
  <2> HIDE DEF new
  <2>3. QED
    BY <1>1, <1>2, <2>1, <2>2, WriteSettled, OthersAudit
<1>7. QED
  BY <1>3, <1>4, <1>5, <1>6

LEMMA RequestAudit ==
    ASSUME TypeOK, AuditInv, NEW q \in Requests,
           \/ CheckRequest(q) \/ ClearBan(q)
           \/ \E u \in Users : BeginRequest(q, u)
    PROVE  AuditInv'
<1>1. UNCHANGED <<adm, trail, written>>
  BY DEF CheckRequest, ClearBan, BeginRequest, AuditUntouched
<1>2. CASE UNCHANGED account
  BY <1>1, <1>2, OthersAudit DEF AuditInv, Settled
<1>3. CASE ClearBan(q)
  <2>1. req[q].user \in Users /\ Write(req[q].user, Unbanned)
    BY <1>3 DEF ClearBan, TypeOK
  <2>2. QED
    BY <1>1, <2>1, WriteSettled, OthersAudit DEF AuditInv, Unbanned
<1>4. QED
  BY <1>2, <1>3 DEF CheckRequest, BeginRequest, Admit, NoSession, FindExpiredBan, FindBan,
                    Revoke, RequestFails, EndRequest

\* The decision is written: its user is settled, and it is the first of this
\* call for that user.
LEMMA DecisionAudit ==
    ASSUME TypeOK, AuditInv, NEW a \in Admins, NEW new, adm[a].pc \in Decisions,
           Write(adm[a].user, new), Decided(a),
           new.state # "absent", new.reason # "pending_approval"
    PROVE  AuditInv'
<1> DEFINE u == adm[a].user
<1>1. u \in Users /\ account'[u] = new /\ \A v \in Users : v # u => account'[v] = account[v]
  BY DEF Write, TypeOK
<1>2. /\ written' = written \cup {Taken(a)} /\ trail' = trail
      /\ Taken(a).user = u /\ Taken(a).admin = a
  BY DEF Decided, Taken
<1>3. /\ adm'[a].pc = "audit" /\ adm'[a].user = u /\ adm'[a].decision = adm[a].decision
      /\ \A b \in Admins : b # a => adm'[b] = adm[b]
  BY DEF Decided, TypeOK
<1>4. Taken(a)' = Taken(a) /\ \A b \in Admins : b # a => Taken(b)' = Taken(b)
  BY <1>3 DEF Taken
<1>5. \A d \in written \cup trail : d.user \in Users /\ d.admin \in Admins
  BY DEF TypeOK, Records
<1>6. Settled'
  BY <1>1, <1>2, <1>5 DEF AuditInv, Settled
<1>7. NotYet'
  BY <1>2, <1>3 DEF AuditInv, NotYet, Decisions
<1>8. Unrecorded'
  BY <1>2, <1>3, <1>4 DEF AuditInv, Unrecorded, NotYet
<1>9. AuditTrail'
  <2>1. \A d \in written \ trail : d.admin # a
    BY DEF AuditInv, AuditTrail, Decisions
  <2>2. QED
    BY <1>2, <1>3, <1>4, <1>5, <2>1 DEF AuditInv, AuditTrail
<1>10. QED
  BY <1>6, <1>7, <1>8, <1>9 DEF AuditInv

LEMMA AdminAudit ==
    ASSUME TypeOK, AuditInv, NEW a \in Admins,
           \/ WriteApproval(a) \/ WriteRejection(a) \/ EndDecision(a)
           \/ \E u \in Users, d \in Decisions : ReadPending(a, u, d)
    PROVE  AuditInv'
<1>1. CASE WriteApproval(a)
  BY <1>1, DecisionAudit DEF WriteApproval, Decisions, Unbanned
<1>2. CASE WriteRejection(a)
  <2> DEFINE new == [account[adm[a].user] EXCEPT !.reason = "registration_rejected"]
  <2>1. account[adm[a].user] \in Accounts
    BY DEF TypeOK
  <2>2. new.reason = "registration_rejected" /\ new.state = account[adm[a].user].state
    BY <2>1 DEF Accounts
  <2>3. /\ adm[a].pc \in Decisions /\ Write(adm[a].user, new) /\ Decided(a)
        /\ account[adm[a].user].state = "present"
    BY <1>2 DEF WriteRejection, Decisions, Present
  <2> HIDE DEF new
  <2>4. QED
    BY <2>2, <2>3, DecisionAudit
<1>3. CASE EndDecision(a)
  <2>1. account' = account /\ adm' = [adm EXCEPT ![a].pc = "idle"]
    BY <1>3 DEF EndDecision, RecordDecision, DecisionFails
  <2>2. adm'[a].pc = "idle" /\ \A b \in Admins : b # a => adm'[b] = adm[b]
    BY <2>1 DEF TypeOK
  <2>3. \A b \in Admins : b # a => Taken(b)' = Taken(b)
    BY <2>2 DEF Taken
  <2>4. Taken(a).admin = a /\ \A b \in Admins : b # a => Taken(b) # Taken(a)
    BY DEF Taken
  <2>5. \A d \in written \cup trail : d.admin \in Admins
    BY DEF TypeOK, Records
  <2>6. CASE RecordDecision(a)
    <3>1. /\ adm[a].pc = "audit" /\ trail' = trail \cup {Taken(a)} /\ written' = written
      BY <2>6 DEF RecordDecision
    <3>2. Taken(a) \in written
      BY <3>1 DEF AuditInv, Unrecorded
    <3>3. QED
      BY <2>1, <2>2, <2>3, <2>4, <2>5, <3>1, <3>2
         DEF AuditInv, Settled, NotYet, Unrecorded, AuditTrail, Decisions
  <2>7. CASE DecisionFails(a)
    <3>1. /\ trail' = trail
          /\ written' = IF adm[a].pc = "audit" THEN written \ {Taken(a)} ELSE written
      BY <2>7 DEF DecisionFails
    <3>2. Settled' /\ NotYet' /\ Unrecorded'
      BY <2>1, <2>2, <2>3, <2>4, <3>1
         DEF AuditInv, Settled, NotYet, Unrecorded, Decisions
    <3>3. AuditTrail'
      BY <2>2, <2>3, <2>5, <3>1 DEF AuditInv, AuditTrail, Unrecorded
    <3>4. QED
      BY <3>2, <3>3 DEF AuditInv
  <2>8. QED
    BY <1>3, <2>6, <2>7 DEF EndDecision
<1>4. ASSUME NEW u \in Users, NEW d \in Decisions, ReadPending(a, u, d) PROVE AuditInv'
  <2>1. /\ UNCHANGED <<account, trail, written>>
        /\ adm[a].pc = "idle" /\ account[u].reason = "pending_approval"
    BY <1>4 DEF ReadPending, AuditUntouched, Pending
  <2>2. /\ adm'[a].pc = d /\ adm'[a].user = u
        /\ \A b \in Admins : b # a => adm'[b] = adm[b]
    BY <1>4 DEF ReadPending, TypeOK
  <2>3. \A b \in Admins : b # a => Taken(b)' = Taken(b)
    BY <2>2 DEF Taken
  <2>4. \A e \in written \cup trail : e.user # u
    BY <2>1 DEF AuditInv, Settled
  <2>5. \A e \in written \cup trail : e.admin \in Admins
    BY DEF TypeOK, Records
  <2>6. Settled' /\ NotYet' /\ Unrecorded'
    BY <2>1, <2>2, <2>3, <2>4 DEF AuditInv, Settled, NotYet, Unrecorded, Decisions
  <2>7. AuditTrail'
    BY <2>1, <2>2, <2>3, <2>5 DEF AuditInv, AuditTrail
  <2>8. QED
    BY <2>6, <2>7 DEF AuditInv
<1>5. QED
  BY <1>1, <1>2, <1>3, <1>4

LEMMA NextAudit == TypeOK /\ AuditInv /\ [Next]_vars => AuditInv'
<1> SUFFICES ASSUME TypeOK, AuditInv, [Next]_vars PROVE AuditInv'
  OBVIOUS
<1>1. CASE UNCHANGED vars
  BY <1>1 DEF vars, history, AuditInv, Settled, NotYet, Unrecorded, AuditTrail, Taken
<1>2. QED
  BY <1>1, UserAudit, RequestAudit, AdminAudit DEF Next

LEMMA InitAudit == Init => AuditInv
<1> SUFFICES ASSUME Init PROVE AuditInv
  OBVIOUS
<1>1. \A a \in Admins : adm[a].pc = "idle"
  BY DEF Init
<1>2. QED
  BY <1>1 DEF Init, AuditInv, Settled, NotYet, Unrecorded, AuditTrail, Decisions

\* The audit trail holds decisions that were written to an account, and lacks
\* only those whose row is still due or has failed.
THEOREM TrailIsTrue == Spec => []AuditTrail
<1>1. AuditInv => AuditTrail
  BY DEF AuditInv
<1>2. QED
  BY <1>1, InitType, NextType, InitAudit, NextAudit, PTL DEF Spec
=============================================================================
