----------------------------- MODULE Membership -----------------------------
(***************************************************************************)
(* How an organization gets its members: the hooks that run around a       *)
(* sign-up (config/auth.config.ts), the domain rules they use              *)
(* (services/email-domain.service.ts), what Better Auth's organization and *)
(* admin plugins do later, and the member list of                          *)
(* OrganizationDetailsPage.tsx, which removes members by row.              *)
(*                                                                         *)
(* One organization, which owns one domain.  A domain is a sequence of     *)
(* labels; the mailbox, case and invalid addresses are left out, and so is *)
(* the audit row of a sign-up.  The hook's awaits are separate steps: the  *)
(* count, the upsert, the query for administrators and each of the mails.  *)
(* Any standing ban is one, the platform's administrators are those of the *)
(* bootstrap list, and of the page only the row is kept that is about to   *)
(* be removed, as it was shown.                                            *)
(***************************************************************************)
EXTENDS Integers, FiniteSets, SequencesExt

CONSTANTS
    Users,
    Address,            \* [Users -> the domain of the user's email]
    OwnedDomain,        \* the organization's OrganizationDomain row
    MultiLabelSuffixes, \* the two-label public suffixes the code knows
    AdminEmails,        \* users named in ADMIN_EMAILS
    MaxChanges          \* bound on what users and administrators do after sign-up

ASSUME AdminAssumption == AdminEmails \subseteq Users
ASSUME ChangeAssumption == MaxChanges \in Nat

VARIABLES
    account,    \* [Users -> "none" or what the ban says]
    member,     \* [Users -> the role in the organization, or "none"]
    id,         \* [Users -> number of the user's latest membership row]
    hook,       \* [Users -> how far the hook of the sign-up is]
    first,      \* users whose hook counted no member
    queue,      \* [Users -> administrators the hook has still to write to]
    removal,    \* the row a page is about to remove: {} or one <<user, id>>
    changes,    \* number of changes so far
    \* history, for the properties only
    overtaken,  \* users whose hook's count was out of date before they joined
    founders,   \* members who own the organization because they counted nobody
    joined,     \* users the hook made members
    excused,    \* users whose join failed
    told,       \* <<user, administrator>>: the mails about sign-ups that went out
    unsaid,     \* users whose announcement ended in an error
    ownerless   \* an owner's account was deleted

history == <<overtaken, founders, joined, excused, ownerless>>
announcement == <<queue, told, unsaid>>
vars == <<account, member, id, hook, first, removal, changes, history, announcement>>

Roles == {"member", "admin", "owner"}
Members == {u \in Users : member[u] # "none"}
Owners == {u \in Users : member[u] = "owner"}
Managers == {u \in Users : member[u] \in {"owner", "admin"} /\ account[u] = "open"}

TypeOK ==
    /\ account \in [Users -> {"none", "banned", "open"}]
    /\ member \in [Users -> Roles \cup {"none"}]
    /\ id \in [Users -> 0..(MaxChanges + 1)]
    /\ hook \in [Users -> {"none", "created", "counted", "mail", "telling", "done", "dead"}]
    /\ queue \in [Users -> SUBSET AdminEmails] /\ told \subseteq Users \X AdminEmails
    /\ removal \subseteq Users \X (1..(MaxChanges + 1)) /\ Cardinality(removal) <= 1
    /\ first \cup overtaken \cup founders \cup joined \cup excused \cup unsaid \subseteq Users
    /\ changes \in 0..MaxChanges /\ ownerless \in BOOLEAN

Init ==
    /\ account = [u \in Users |-> "none"]
    /\ member = [u \in Users |-> "none"]
    /\ id = [u \in Users |-> 0]
    /\ hook = [u \in Users |-> "none"]
    /\ queue = [u \in Users |-> {}] /\ first = {} /\ removal = {} /\ changes = 0
    /\ overtaken = {} /\ founders = {} /\ joined = {} /\ excused = {}
    /\ told = {} /\ unsaid = {} /\ ownerless = FALSE

-----------------------------------------------------------------------------
(***************************************************************************)
(* Domains.                                                                *)
(***************************************************************************)
LastLabels(domain, n) == SubSeq(domain, Len(domain) - n + 1, Len(domain))

\* Mutant: the list of suffixes is not consulted.
LastTwoLabels(domain) == IF Len(domain) <= 2 THEN domain ELSE LastLabels(domain, 2)

BaseDomain(domain) ==
    IF Len(domain) <= 2 THEN domain
    ELSE LastLabels(domain, IF LastLabels(domain, 2) \in MultiLabelSuffixes THEN 3 ELSE 2)

-----------------------------------------------------------------------------
(***************************************************************************)
(* Sign-up and its hooks.                                                  *)
(***************************************************************************)
\* create.before: banned until approved, except for the bootstrap list.
SignUp(u) ==
    /\ account[u] = "none" /\ hook[u] = "none"
    /\ account' = [account EXCEPT ![u] = IF u \in AdminEmails THEN "open" ELSE "banned"]
    /\ hook' = [hook EXCEPT ![u] = "created"]
    /\ UNCHANGED <<member, id, first, removal, changes, announcement, history>>

\* What a change of the members does to counts still to be acted on; founders
\* stay what they were.
Overtaking(others) ==
    LET counting == {v \in Users : hook[v] = "counted"}
    IN  (counting \cap others) \cup (overtaken \cap (founders \cup counting))

\* A new row for u: counts still to be acted on are out of date.
AddMember(u, role) ==
    /\ member' = [member EXCEPT ![u] = role]
    /\ id' = [id EXCEPT ![u] = @ + 1]
    /\ overtaken' = Overtaking(Users \ {u})

\* Mutant: a removed member's row stays, marked as such.
MarkMember(u) ==
    /\ member' = [member EXCEPT ![u] = "removed"]
    /\ founders' = founders \ {u}
    /\ joined' = joined \ {u}
    /\ overtaken' = Overtaking(Users)

DropMember(u) ==
    /\ member' = [member EXCEPT ![u] = "none"]
    /\ founders' = founders \ {u}
    /\ joined' = joined \ {u}
    /\ overtaken' = Overtaking(Users)

\* Mutant: members who may not sign in do not count.
CountActiveMembers(u) ==
    /\ hook[u] = "created"
    /\ hook' = [hook EXCEPT ![u] =
                  IF BaseDomain(Address[u]) = OwnedDomain THEN "counted" ELSE "mail"]
    /\ first' = IF \A v \in Members : account[v] # "open" THEN first \cup {u} ELSE first
    /\ UNCHANGED <<account, member, id, removal, changes, announcement, history>>

\* create.after, step 1: whose domain is it, and has that organization members?
CountMembers(u) ==
    /\ hook[u] = "created"
    /\ hook' = [hook EXCEPT ![u] =
                  IF BaseDomain(Address[u]) = OwnedDomain THEN "counted" ELSE "mail"]
    /\ first' = IF Members = {} THEN first \cup {u} ELSE first
    /\ UNCHANGED <<account, member, id, removal, changes, announcement, history>>

\* The upsert leaves a membership alone that exists by now.
Join(u) ==
    /\ hook[u] = "counted"
    /\ hook' = [hook EXCEPT ![u] = "mail"]
    /\ first' = first \ {u}
    /\ joined' = joined \cup {u}
    /\ \/ /\ member[u] = "none"
          /\ AddMember(u, IF u \in first THEN "owner" ELSE "member")
          /\ founders' = IF u \in first THEN founders \cup {u} ELSE founders
       \/ /\ member[u] # "none"
          /\ UNCHANGED <<member, id, overtaken, founders>>
    /\ UNCHANGED <<account, removal, changes, announcement, excused, ownerless>>

\* Mutant: one try for both steps.
JoinFailsAll(u) ==
    /\ hook[u] \in {"created", "counted"}
    /\ hook' = [hook EXCEPT ![u] = "done"]
    /\ first' = first \ {u}
    /\ excused' = excused \cup {u}
    /\ UNCHANGED <<account, member, id, removal, changes, announcement, overtaken, founders,
                   joined, ownerless>>

\* A failed query: logged, and step 2 goes on without it.
JoinFails(u) ==
    /\ hook[u] \in {"created", "counted"}
    /\ hook' = [hook EXCEPT ![u] = "mail"]
    /\ first' = first \ {u}
    /\ excused' = excused \cup {u}
    /\ UNCHANGED <<account, member, id, removal, changes, announcement, overtaken, founders,
                   joined, ownerless>>

\* Step 2, for those created banned: findMany, then a mail to one administrator
\* after the other.
Admins == {a \in AdminEmails : account[a] # "none"}

FindAdmins(u) ==
    /\ hook[u] = "mail"
    /\ \/ /\ u \notin AdminEmails /\ Admins # {}
          /\ hook' = [hook EXCEPT ![u] = "telling"]
          /\ queue' = [queue EXCEPT ![u] = Admins]
       \/ /\ u \in AdminEmails \/ Admins = {}
          /\ hook' = [hook EXCEPT ![u] = "done"]
          /\ UNCHANGED queue
    /\ UNCHANGED <<account, member, id, first, removal, changes, told, unsaid, history>>

TellAdmin(u) ==
    /\ hook[u] = "telling"
    /\ \E a \in queue[u] :
         /\ queue' = [queue EXCEPT ![u] = @ \ {a}]
         /\ hook' = [hook EXCEPT ![u] = IF queue[u] = {a} THEN "done" ELSE "telling"]
         /\ told' = told \cup {<<u, a>>}
    /\ UNCHANGED <<account, member, id, first, removal, changes, unsaid, history>>

\* The query or a mail fails: logged, and the administrators not yet written to
\* are not told.
TellFails(u) ==
    /\ u \notin AdminEmails /\ hook[u] \in {"mail", "telling"}
    /\ hook' = [hook EXCEPT ![u] = "done"]
    /\ queue' = [queue EXCEPT ![u] = {}]
    /\ unsaid' = unsaid \cup {u}
    /\ UNCHANGED <<account, member, id, first, removal, changes, told, history>>

Running(u) == hook[u] \in {"created", "counted", "mail", "telling"}

\* The process dies during the hook: nothing resumes it.
Crash ==
    /\ \E u \in Users : Running(u)
    /\ hook' = [u \in Users |-> IF Running(u) THEN "dead" ELSE hook[u]]
    /\ queue' = [u \in Users |-> {}] /\ first' = {} /\ removal' = {}
    /\ UNCHANGED <<account, member, id, changes, told, unsaid, history>>

-----------------------------------------------------------------------------
(***************************************************************************)
(* Better Auth, as this program uses it.                                   *)
(***************************************************************************)
Change == changes < MaxChanges /\ changes' = changes + 1

\* Approval, rejection, bans.
Decide(u, ban) ==
    /\ Change
    /\ account[u] \notin {"none", ban}
    /\ account' = [account EXCEPT ![u] = ban]
    /\ UNCHANGED <<member, id, hook, first, removal, announcement, history>>

AcceptInvitation(u, role) ==
    /\ Change
    /\ account[u] = "open" /\ member[u] = "none" /\ Managers # {}
    /\ AddMember(u, role)
    /\ UNCHANGED <<account, hook, first, removal, announcement, founders, joined, excused,
                   ownerless>>

\* The last owner can neither be demoted nor removed nor leave.
ChangeRole(u, role) ==
    /\ Change
    /\ Managers # {} /\ member[u] \notin {"none", role}
    /\ Owners # {u}
    /\ member' = [member EXCEPT ![u] = role]
    /\ founders' = founders \ {u}
    /\ UNCHANGED <<account, id, hook, first, removal, announcement, overtaken, joined, excused,
                   ownerless>>

LeaveOrRemoved(u) ==
    /\ Change
    /\ member[u] # "none" /\ (account[u] = "open" \/ Managers # {})
    /\ Owners # {u}
    /\ DropMember(u)
    /\ UNCHANGED <<account, id, hook, first, removal, announcement, excused, ownerless>>

\* Deleting an account takes its memberships along (onDelete: Cascade).
RemoveUser(u) ==
    /\ Change
    /\ account[u] # "none" /\ ~Running(u)
    /\ account' = [account EXCEPT ![u] = "none"]
    /\ DropMember(u)
    /\ ownerless' = (ownerless \/ member[u] = "owner")
    /\ UNCHANGED <<id, hook, first, removal, announcement, excused>>

-----------------------------------------------------------------------------
(***************************************************************************)
(* The members tab.  A row has a button unless it is an owner's; the       *)
(* request names the membership row.                                       *)
(***************************************************************************)
RequestRemoval(u) ==
    /\ Managers # {} /\ removal = {}
    /\ member[u] \notin {"none", "owner"}
    /\ removal' = {<<u, id[u]>>}
    /\ UNCHANGED <<account, member, id, hook, first, changes, announcement, history>>

\* The server looks the row up again, and refuses as in LeaveOrRemoved.
RemoveMember ==
    \E u \in Users : \E row \in removal :
        /\ row[1] = u
        /\ removal' = {}
        /\ IF member[u] # "none" /\ id[u] = row[2] /\ Owners # {u} /\ Managers # {}
           THEN DropMember(u) ELSE UNCHANGED <<member, founders, joined, overtaken>>
        /\ UNCHANGED <<account, id, hook, first, changes, announcement, excused, ownerless>>

Next ==
    \/ \E u \in Users :
         \/ SignUp(u) \/ CountMembers(u) \/ Join(u) \/ JoinFails(u)
         \/ FindAdmins(u) \/ TellAdmin(u) \/ TellFails(u)
         \/ LeaveOrRemoved(u) \/ RemoveUser(u) \/ RequestRemoval(u)
         \/ \E ban \in {"open", "banned"} : Decide(u, ban)
         \/ \E role \in Roles : AcceptInvitation(u, role) \/ ChangeRole(u, role)
    \/ Crash \/ RemoveMember

Spec == Init /\ [][Next]_vars

HookStep(u) ==
    \/ CountMembers(u) \/ Join(u) \/ JoinFails(u)
    \/ FindAdmins(u) \/ TellAdmin(u) \/ TellFails(u)

\* The hook awaits one database call after the other; each answers or fails.
FairSpec == Spec /\ \A u \in Users : WF_vars(HookStep(u))

-----------------------------------------------------------------------------
(***************************************************************************)
(* Properties.                                                             *)
(***************************************************************************)

\* The comment at auth.config.ts:174: the first user into an organization owns
\* it, or nobody could manage it.  Members are left without an owner only when
\* an owner's account is deleted, and two founders only when their sign-ups
\* overlap.
Ownership ==
    /\ Members # {} /\ Owners = {} => ownerless
    /\ Cardinality(founders) > 1 => founders \cap overtaken # {}

\* The hook lets in exactly the users whose domain is the organization's or
\* below it, unless a query fails or the process dies.
JoinedByDomain ==
    \A u \in Users :
        /\ u \in joined => IsSuffix(OwnedDomain, Address[u])
        /\ /\ hook[u] \in {"mail", "telling", "done"} /\ id[u] = 0
           /\ IsSuffix(OwnedDomain, Address[u])
           => u \in excused

\* Every administrator there is at a sign-up that waits for approval is told of
\* it, whatever becomes of the auto-join before it (auth.config.ts:164, "each
\* carries its own try/catch"), unless the administrator goes, a step of the
\* announcement itself fails or the process dies.
Announced ==
    \A u \in Users \ AdminEmails, a \in AdminEmails :
        hook[u] = "created" /\ account[a] # "none"
          ~> \/ <<u, a>> \in told \/ account[a] = "none"
             \/ u \in unsaid \/ hook[u] = "dead"
=============================================================================
