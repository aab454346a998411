--------------------------- MODULE UserManagement ---------------------------
(***************************************************************************)
(* The administrators' page (pages/admin/AdminUsersPage.tsx) and what its  *)
(* requests do at the server: cached lists, dialogs that act on a snapshot *)
(* of one row, and five mutations that may overlap, time out, or meet the  *)
(* decisions of another administrator.                                     *)
(*                                                                         *)
(* One page in detail; the other administrators are the environment.       *)
(* approveUser and rejectUser check and write in two steps, as in Accounts;*)
(* Better Auth's ban, unban and set-role are one step each, and a standing *)
(* ban that is not the pending one is "barred".  Left out: the roles       *)
(* themselves, the search box, the number of waiting users (a third query, *)
(* refreshed with the other two).  The server runs one call of each kind   *)
(* for the page at a time.                                                 *)
(***************************************************************************)
EXTENDS Integers

CONSTANTS
    Users,          \* the accounts
    None,           \* no user
    MaxCalls,       \* bound on the mutations the page sends
    MaxOthers       \* bound on what other administrators do

ASSUME BoundAssumption == MaxCalls \in Nat /\ MaxOthers \in Nat
ASSUME NoneAssumption == None \notin Users

VARIABLES
    row,            \* [Users -> the ban in the database]
    view,           \* what the queries of the page last returned
    empty,          \* queries that have not returned anything yet
    fetch, next,    \* a fetch of a query: how far it is, what it has read
    dialog, picked, \* the open dialog; selectedUser
    reason,         \* whom the text in the reason box was typed for, or None
    call,           \* [Kinds -> a mutation and its request]
    sent, others,   \* number of mutations so far, and of changes by other administrators
    \* history, for the properties only
    behind,         \* queries shown from before the page's own last change
    dirty,          \* queries whose refetch has read from before it
    missed,         \* queries excused: an answer or a refetch was lost, or the
                    \* refetch was none, for a first load was under way
    taken,          \* [Users -> number of approvals and rejections written]
    overlapped      \* users two such decisions were under way for at once

page == <<view, empty, fetch, next, dialog, picked, reason>>
shown == <<behind, dirty, missed>>
vars == <<row, page, call, sent, others, shown, taken, overlapped>>

Queries == {"all", "pending"}
Dialogs == {"ban", "unban", "role", "reject"}
Decisions == {"approve", "reject"}
Kinds == Dialogs \cup {"approve"}
Bans == {"no", "pending", "barred"}
Views == [all : [Users -> Bans], pending : SUBSET Users]
Calls == [pc : {"idle", "sent", "checked", "done", "refused"}, waiting : BOOLEAN,
          user : Users \cup {None}, reason : Users \cup {None}]

TypeOK ==
    /\ row \in [Users -> Bans]
    /\ view \in Views /\ next \in Views
    /\ empty \subseteq Queries /\ fetch \in [Queries -> {"idle", "asked", "read"}]
    /\ dialog \in Dialogs \cup {"none"} /\ picked \in Users \cup {None}
    /\ reason \in Users \cup {None}
    /\ call \in [Kinds -> Calls]
    /\ sent \in 0..MaxCalls /\ others \in 0..MaxOthers
    /\ behind \subseteq Queries /\ dirty \subseteq Queries /\ missed \subseteq Queries
    /\ taken \in [Users -> Nat] /\ overlapped \subseteq Users

Waiting(rows) == {u \in Users : rows[u] = "pending"}
Loaded(rows) == [all |-> rows, pending |-> Waiting(rows)]
Idle == [pc |-> "idle", waiting |-> FALSE, user |-> None, reason |-> None]

\* The page has just been opened, and both lists are loading: nobody waits on the
\* screen, and of all users none is.
Init ==
    /\ row \in [Users -> Bans]
    /\ view = Loaded([u \in Users |-> "no"]) /\ next = view
    /\ empty = Queries /\ fetch = [q \in Queries |-> "asked"]
    /\ dialog = "none" /\ picked = None /\ reason = None
    /\ call = [k \in Kinds |-> Idle]
    /\ sent = 0 /\ others = 0
    /\ behind = {} /\ dirty = {} /\ missed = {}
    /\ taken = [u \in Users |-> 0] /\ overlapped = {}

-----------------------------------------------------------------------------
(***************************************************************************)
(* The page.  A button is enabled by what the list showed, and disabled    *)
(* only while a mutation of its own kind is pending.                       *)
(***************************************************************************)
Open(kind, u, typed) ==
    /\ dialog = "none"
    /\ dialog' = kind
    /\ picked' = u
    /\ reason' = typed
    /\ UNCHANGED <<row, view, empty, fetch, next, call, sent, others, shown, taken, overlapped>>

OpenFromAll(u) ==
    /\ "all" \notin empty
    /\ \/ Open("role", u, reason)
       \/ view.all[u] # "no" /\ Open("unban", u, reason)
       \/ view.all[u] = "no" /\ Open("ban", u, reason)

\* Mutant: the box keeps what was typed for somebody else.
OpenRejectWithText(u) ==
    /\ u \in view.pending
    /\ Open("reject", u, reason)

OpenReject(u) ==
    /\ u \in view.pending
    /\ Open("reject", u, None)

TypeReason ==
    /\ dialog = "reject"
    /\ reason' = picked
    /\ UNCHANGED <<row, view, empty, fetch, next, dialog, picked, call, sent, others, shown, taken,
                   overlapped>>

\* Closing leaves the text behind (and selectedUser, which nothing reads until
\* the next opening sets it: the model drops it).
Cancel ==
    /\ dialog # "none"
    /\ dialog' = "none"
    /\ picked' = None
    /\ UNCHANGED <<row, view, empty, fetch, next, reason, call, sent, others, shown, taken,
                   overlapped>>

Mutate(kind, u) ==
    /\ call[kind] = Idle /\ sent < MaxCalls
    /\ sent' = sent + 1
    /\ call' = [call EXCEPT ![kind] =
         [pc |-> "sent", waiting |-> TRUE, user |-> u,
          reason |-> IF kind = "reject" THEN reason ELSE None]]
    /\ UNCHANGED <<row, page, others, shown, taken, overlapped>>

Confirm ==
    /\ dialog # "none" /\ picked # None
    /\ Mutate(dialog, picked)

Approve(u) ==
    /\ u \in view.pending
    /\ Mutate("approve", u)

-----------------------------------------------------------------------------
(***************************************************************************)
(* The server.                                                             *)
(***************************************************************************)
\* A change of the page's own: every list it shows, or is about to, is older.
OwnWrite(kind, new) ==
    /\ row' = [row EXCEPT ![call[kind].user] = new]
    /\ call' = [call EXCEPT ![kind] =
         IF call[kind].waiting THEN [call[kind] EXCEPT !.pc = "done"] ELSE Idle]
    /\ behind' = Queries
    /\ dirty' = dirty \cup {q \in Queries : fetch[q] = "read"}
    /\ missed' = IF call[kind].waiting THEN {} ELSE Queries
    /\ UNCHANGED <<page, sent, others>>

Run(kind) ==
    LET old == row[call[kind].user] IN
    /\ kind \notin Decisions /\ call[kind].pc = "sent"
    /\ OwnWrite(kind, CASE kind = "ban"   -> "barred"
                        [] kind = "unban" -> "no"
                        [] kind = "role"  -> old)
    /\ UNCHANGED <<taken, overlapped>>

\* Mutant: any ban will do, not only the pending one.
CheckBanned(kind) ==
    LET u == call[kind].user IN
    /\ kind \in Decisions /\ call[kind].pc = "sent"
    /\ call' = [call EXCEPT ![kind].pc = IF row[u] # "no" THEN "checked" ELSE "refused"]
    /\ overlapped' = overlapped \cup
         {v \in {u} : \E k \in Decisions \ {kind} : call[k].pc = "checked" /\ call[k].user = v}
    /\ UNCHANGED <<row, page, sent, others, shown, taken>>

\* "User is not pending approval" otherwise.
CheckPending(kind) ==
    LET u == call[kind].user IN
    /\ kind \in Decisions /\ call[kind].pc = "sent"
    /\ call' = [call EXCEPT ![kind].pc =
                   IF row[u] = "pending" THEN "checked" ELSE "refused"]
    /\ overlapped' = overlapped \cup
         {v \in {u} : \E k \in Decisions \ {kind} : call[k].pc = "checked" /\ call[k].user = v}
    /\ UNCHANGED <<row, page, sent, others, shown, taken>>

\* Mutant: the reason is the decision's name, which no other code knows.
WriteDecisionName(kind) ==
    LET u == call[kind].user IN
    /\ kind \in Decisions /\ call[kind].pc = "checked"
    /\ OwnWrite(kind, kind)
    /\ taken' = [taken EXCEPT ![u] = @ + 1]
    /\ UNCHANGED overlapped

\* Approval clears the ban whatever it is by now; rejection writes the reason
\* only, and leaves an account open that has been opened since.
WriteDecision(kind) ==
    LET u == call[kind].user IN
    /\ kind \in Decisions /\ call[kind].pc = "checked"
    /\ OwnWrite(kind, IF kind = "approve" \/ row[u] = "no" THEN "no" ELSE "barred")
    /\ taken' = [taken EXCEPT ![u] = @ + 1]
    /\ UNCHANGED overlapped

\* Another administrator, through the same five operations.
OtherAdmin(u, kind) ==
    LET decides == kind \in Decisions IN
    /\ others < MaxOthers
    /\ others' = others + 1
    /\ decides => row[u] = "pending"
    /\ row' = [row EXCEPT ![u] =
         CASE kind \in {"approve", "unban"} -> "no"
           [] kind \in {"reject", "ban"}    -> "barred"]
    /\ taken' = IF decides THEN [taken EXCEPT ![u] = @ + 1] ELSE taken
    /\ overlapped' = overlapped \cup
         {v \in {u} : \E k \in Decisions : call[k].pc = "checked" /\ call[k].user = v}
    /\ UNCHANGED <<page, call, sent, shown>>

-----------------------------------------------------------------------------
(***************************************************************************)
(* Answers.  Only success closes the dialog and invalidates, and the key   *)
(* ['admin', 'users'] is a prefix of all the queries' keys: refetches      *)
(* under way are cancelled and begin anew.  A first load under way is not: *)
(* a query without data has nothing to go back to.                         *)
(***************************************************************************)
FirstLoads == {q \in empty : fetch[q] # "idle"}

\* Mutant: only the list of all users is refreshed.
InvalidateExact ==
    /\ fetch' = [fetch EXCEPT !["all"] = IF "all" \in FirstLoads THEN @ ELSE "asked"]
    /\ next' = [q \in Queries |-> IF q \in FirstLoads THEN next[q] ELSE view[q]]
    /\ missed' = missed \cup (dirty \cap FirstLoads)

Invalidate ==
    /\ fetch' = [q \in Queries |-> IF q \in FirstLoads THEN fetch[q] ELSE "asked"]
    /\ next' = [q \in Queries |-> IF q \in FirstLoads THEN next[q] ELSE view[q]]
    /\ missed' = missed \cup (dirty \cap FirstLoads)

Succeed(kind) ==
    /\ call[kind].pc = "done"
    /\ call' = [call EXCEPT ![kind] = Idle]
    /\ Invalidate
    /\ dialog' = IF kind = "approve" THEN dialog ELSE "none"
    /\ picked' = IF kind = "approve" THEN picked ELSE None
    /\ reason' = IF kind = "reject" THEN None ELSE reason
    /\ UNCHANGED <<row, view, empty, sent, others, behind, dirty, taken, overlapped>>

\* The error is shown nowhere and nothing is refreshed.
Refused(kind) ==
    /\ call[kind].pc = "refused"
    /\ call' = [call EXCEPT ![kind] = Idle]
    /\ UNCHANGED <<row, page, sent, others, shown, taken, overlapped>>

\* The request times out or its answer is lost; the server may go on with it.
GiveUp(kind) ==
    /\ call[kind].waiting
    /\ call' = [call EXCEPT ![kind] =
         IF call[kind].pc \in {"sent", "checked"}
         THEN [call[kind] EXCEPT !.waiting = FALSE] ELSE Idle]
    /\ missed' = IF call[kind].pc = "done" THEN behind ELSE missed
    /\ UNCHANGED <<row, page, sent, others, behind, dirty, taken, overlapped>>

ReadQuery(q) ==
    /\ fetch[q] = "asked"
    /\ fetch' = [fetch EXCEPT ![q] = "read"]
    /\ next' = [next EXCEPT ![q] = Loaded(row)[q]]
    /\ dirty' = dirty \ {q}
    /\ UNCHANGED <<row, view, empty, dialog, picked, reason, call, sent, others, behind, missed,
                   taken, overlapped>>

Arrive(q) ==
    /\ fetch[q] = "read"
    /\ fetch' = [fetch EXCEPT ![q] = "idle"]
    /\ view' = [view EXCEPT ![q] = next[q]]
    /\ empty' = empty \ {q}
    /\ behind' = IF q \in dirty THEN behind ELSE behind \ {q}
    /\ missed' = IF q \in dirty THEN missed ELSE missed \ {q}
    /\ dirty' = dirty \ {q}
    /\ UNCHANGED <<row, next, dialog, picked, reason, call, sent, others, taken, overlapped>>

\* A fetch and its one retry fail: the old list stays on the screen, if any.  For
\* the page an answer that is lost was never read.
FetchFails(q) ==
    /\ fetch[q] = "asked"
    /\ fetch' = [fetch EXCEPT ![q] = "idle"]
    /\ missed' = missed \cup (behind \cap {q})
    /\ dirty' = dirty \ {q}
    /\ UNCHANGED <<row, view, empty, next, dialog, picked, reason, call, sent, others, behind,
                   taken, overlapped>>

Next ==
    \/ TypeReason \/ Cancel \/ Confirm
    \/ \E u \in Users : OpenFromAll(u) \/ OpenReject(u) \/ Approve(u)
    \/ \E u \in Users, k \in Kinds \ {"role"} : OtherAdmin(u, k)
    \/ \E k \in Kinds :
         \/ Run(k) \/ CheckPending(k) \/ WriteDecision(k)
         \/ Succeed(k) \/ Refused(k) \/ GiveUp(k)
    \/ \E q \in Queries : ReadQuery(q) \/ Arrive(q) \/ FetchFails(q)

Spec == Init /\ [][Next]_vars

-----------------------------------------------------------------------------
(***************************************************************************)
(* Properties.                                                             *)
(***************************************************************************)

\* However mutations, fetches and their cancellations overlap, a list at rest on
\* the screen is not older than the page's own last change, unless the answer to
\* that change is still to come, it or the refetch was lost, or the list was
\* being loaded for the first time and had been read already.
OwnActionsShown ==
    \A q \in behind :
        fetch[q] = "idle" => q \in missed \/ \E k \in Kinds : call[k].pc = "done"

\* The reason mailed to a rejected user was typed for that user, whichever
\* dialogs were opened, cancelled and closed by other mutations meanwhile.
ReasonIsForThatUser ==
    call["reject"].pc # "idle" => call["reject"].reason \in {None, call["reject"].user}

\* A sign-up is decided once.  Two decisions both take effect only if they were
\* under way together: a page that is out of date is told so by the server.
DecidedOnce == \A u \in Users : taken[u] > 1 => u \in overlapped
=============================================================================
