------------------------- MODULE Membership_proofs -------------------------
(***************************************************************************)
(* Proofs about Membership, for any users, domains and number of changes:  *)
(* type correctness, who owns the organization, and who joins by the       *)
(* domain of their address.                                                *)
(***************************************************************************)
EXTENDS Membership, FiniteSetTheorems, SequenceTheorems, TLAPS

USE AdminAssumption, ChangeAssumption

-----------------------------------------------------------------------------
(***************************************************************************)
(* Types.  A user's rows are counted by the changes and the one hook.      *)
(***************************************************************************)
Hooks == {"none", "created", "counted", "mail", "telling", "done", "dead"}

Shapes ==
    /\ account \in [Users -> {"none", "banned", "open"}]
    /\ member \in [Users -> Roles \cup {"none"}]
    /\ id \in [Users -> Nat]
    /\ hook \in [Users -> Hooks]
    /\ first \subseteq Users /\ overtaken \subseteq Users /\ founders \subseteq Users
    /\ joined \subseteq Users /\ excused \subseteq Users /\ unsaid \subseteq Users
    /\ queue \in [Users -> SUBSET AdminEmails] /\ told \subseteq Users \X AdminEmails
    /\ changes \in 0..MaxChanges /\ ownerless \in BOOLEAN

HookRows(u) == IF hook[u] \in {"none", "created", "counted"} THEN 0 ELSE 1

RowsAreCounted ==
    \A u \in Users : id[u] <= changes + HookRows(u) /\ (member[u] # "none" => id[u] > 0)

OneRemoval ==
    removal = {} \/ \E u \in Users, n \in 1..(MaxChanges + 1) : removal = {<<u, n>>}

Announces(u) == FindAdmins(u) \/ TellAdmin(u) \/ TellFails(u)

TypeInv == Shapes /\ RowsAreCounted /\ OneRemoval

LEMMA InitialType == Init => TypeInv
<1> SUFFICES ASSUME Init PROVE TypeInv
  OBVIOUS
<1>1. Shapes
  <2>1. ownerless \in BOOLEAN
    BY Zenon DEF Init
  <2>2. changes \in 0..MaxChanges
    BY DEF Init
  <2>3. QED
    BY <2>1, <2>2, Zenon DEF Init, Shapes, Hooks, Roles
<1>2. RowsAreCounted /\ OneRemoval
  BY DEF Init, RowsAreCounted, OneRemoval, HookRows
<1>3. QED
  BY <1>1, <1>2 DEF TypeInv

LEMMA HookType ==
    ASSUME TypeInv, NEW u \in Users,
           SignUp(u) \/ CountMembers(u) \/ Join(u) \/ JoinFails(u) \/ Announces(u)
    PROVE  TypeInv'
<1>1. CASE SignUp(u)
  <2>1. Shapes'
    BY <1>1 DEF SignUp, TypeInv, Shapes, Hooks, history, announcement
  <2>2. RowsAreCounted' /\ OneRemoval'
    BY <1>1 DEF SignUp, TypeInv, Shapes, RowsAreCounted, OneRemoval, HookRows, history,
                announcement
  <2>3. QED
    BY <2>1, <2>2 DEF TypeInv
<1>2. CASE CountMembers(u)
  <2>1. Shapes'
    BY <1>2 DEF CountMembers, TypeInv, Shapes, Hooks, history, announcement
  <2>2. RowsAreCounted' /\ OneRemoval'
    BY <1>2 DEF CountMembers, TypeInv, Shapes, RowsAreCounted, OneRemoval, HookRows, history,
                announcement
  <2>3. QED
    BY <2>1, <2>2 DEF TypeInv
<1>3. CASE Join(u)
  <2>1. Shapes'
    BY <1>3 DEF Join, AddMember, Overtaking, announcement, TypeInv, Shapes, Hooks, Roles
  <2>2. RowsAreCounted' /\ OneRemoval'
    BY <1>3 DEF Join, AddMember, TypeInv, Shapes, RowsAreCounted, OneRemoval, HookRows
  <2>3. QED
    BY <2>1, <2>2 DEF TypeInv
<1>4. CASE JoinFails(u)
  <2>1. Shapes'
    BY <1>4 DEF JoinFails, announcement, TypeInv, Shapes, Hooks
  <2>2. RowsAreCounted' /\ OneRemoval'
    BY <1>4 DEF JoinFails, TypeInv, Shapes, RowsAreCounted, OneRemoval, HookRows
  <2>3. QED
    BY <2>1, <2>2 DEF TypeInv
<1>5. CASE Announces(u)
  <2>1. Shapes'
    BY <1>5 DEF Announces, FindAdmins, TellAdmin, TellFails, Admins, history, TypeInv, Shapes,
                Hooks
  <2>2. RowsAreCounted' /\ OneRemoval'
    BY <1>5 DEF Announces, FindAdmins, TellAdmin, TellFails, Admins, history, TypeInv, Shapes,
                RowsAreCounted, OneRemoval, HookRows
  <2>3. QED
    BY <2>1, <2>2 DEF TypeInv
<1>6. QED
  BY <1>1, <1>2, <1>3, <1>4, <1>5

LEMMA CrashType ==
    ASSUME TypeInv, Crash
    PROVE  TypeInv'
<1>1. Shapes'
  BY DEF Crash, history, TypeInv, Shapes, Hooks
<1>2. RowsAreCounted' /\ OneRemoval'
  BY DEF Crash, TypeInv, Shapes, RowsAreCounted, OneRemoval, HookRows, Running
<1>3. QED
  BY <1>1, <1>2 DEF TypeInv

LEMMA ChangeType ==
    ASSUME TypeInv, NEW u \in Users,
           \/ LeaveOrRemoved(u) \/ RemoveUser(u)
           \/ \E ban \in {"open", "banned"} : Decide(u, ban)
           \/ \E role \in Roles : AcceptInvitation(u, role) \/ ChangeRole(u, role)
    PROVE  TypeInv'
<1>1. CASE LeaveOrRemoved(u)
  <2>1. Shapes'
    BY <1>1 DEF LeaveOrRemoved, Change, DropMember, Overtaking, announcement, TypeInv, Shapes
  <2>2. RowsAreCounted' /\ OneRemoval'
    BY <1>1 DEF LeaveOrRemoved, Change, DropMember, TypeInv, Shapes, RowsAreCounted, OneRemoval,
                HookRows
  <2>3. QED
    BY <2>1, <2>2 DEF TypeInv
<1>2. CASE RemoveUser(u)
  <2>1. Shapes'
    BY <1>2 DEF RemoveUser, Change, DropMember, Overtaking, announcement, TypeInv, Shapes
  <2>2. RowsAreCounted' /\ OneRemoval'
    BY <1>2 DEF RemoveUser, Change, DropMember, TypeInv, Shapes, RowsAreCounted, OneRemoval,
                HookRows
  <2>3. QED
    BY <2>1, <2>2 DEF TypeInv
<1>3. ASSUME NEW ban \in {"open", "banned"}, Decide(u, ban) PROVE TypeInv'
  <2>1. Shapes'
    BY <1>3 DEF Decide, Change, TypeInv, Shapes, history, announcement
  <2>2. RowsAreCounted' /\ OneRemoval'
    BY <1>3 DEF Decide, Change, TypeInv, Shapes, RowsAreCounted, OneRemoval, HookRows, history,
                announcement
  <2>3. QED
    BY <2>1, <2>2 DEF TypeInv
<1>4. ASSUME NEW role \in Roles, AcceptInvitation(u, role) PROVE TypeInv'
  <2>1. Shapes'
    BY <1>4 DEF AcceptInvitation, Change, AddMember, Overtaking, announcement, TypeInv, Shapes
  <2>2. RowsAreCounted' /\ OneRemoval'
    BY <1>4 DEF AcceptInvitation, Change, AddMember, TypeInv, Shapes, RowsAreCounted,
                OneRemoval,
                HookRows
  <2>3. QED
    BY <2>1, <2>2 DEF TypeInv
<1>5. ASSUME NEW role \in Roles, ChangeRole(u, role) PROVE TypeInv'
  <2>1. Shapes'
    BY <1>5 DEF ChangeRole, Change, announcement, TypeInv, Shapes
  <2>2. RowsAreCounted' /\ OneRemoval'
    BY <1>5 DEF ChangeRole, Change, TypeInv, Shapes, RowsAreCounted, OneRemoval, HookRows
  <2>3. QED
    BY <2>1, <2>2 DEF TypeInv
<1>6. QED
  BY <1>1, <1>2, <1>3, <1>4, <1>5

LEMMA RequestRemovalType ==
    ASSUME TypeInv, NEW u \in Users, RequestRemoval(u)
    PROVE  TypeInv'
<1>1. id[u] \in 1..(MaxChanges + 1)
  BY DEF RequestRemoval, TypeInv, Shapes, RowsAreCounted, HookRows
<1>2. OneRemoval'
  BY <1>1 DEF RequestRemoval, OneRemoval
<1>3. Shapes' /\ RowsAreCounted'
  BY DEF RequestRemoval, TypeInv, Shapes, RowsAreCounted, HookRows, history, announcement
<1>4. QED
  BY <1>2, <1>3 DEF TypeInv

LEMMA RemoveMemberType ==
    ASSUME TypeInv, RemoveMember
    PROVE  TypeInv'
<1>1. PICK u \in Users : DropMember(u) \/ UNCHANGED <<member, founders, joined, overtaken>>
  BY DEF RemoveMember
<1>2. /\ removal' = {}
      /\ UNCHANGED <<account, id, hook, first, changes, announcement, excused, ownerless>>
  BY DEF RemoveMember
<1>3. Shapes'
  BY <1>1, <1>2 DEF DropMember, Overtaking, announcement, TypeInv, Shapes
<1>4. RowsAreCounted' /\ OneRemoval'
  BY <1>1, <1>2 DEF DropMember, TypeInv, Shapes, RowsAreCounted, OneRemoval, HookRows
<1>5. QED
  BY <1>3, <1>4 DEF TypeInv

LEMMA StepType == TypeInv /\ [Next]_vars => TypeInv'
<1> SUFFICES ASSUME TypeInv, [Next]_vars PROVE TypeInv'
  OBVIOUS
<1>1. CASE UNCHANGED vars
  BY <1>1 DEF vars, history, announcement, TypeInv, Shapes, RowsAreCounted, OneRemoval, HookRows
<1>2. QED
  BY <1>1, HookType, ChangeType, CrashType, RequestRemovalType, RemoveMemberType
  DEF Next, Announces

LEMMA TypeImplied == TypeInv => TypeOK
<1> SUFFICES ASSUME TypeInv PROVE TypeOK
  OBVIOUS
<1>1. id \in [Users -> 0..(MaxChanges + 1)]
  BY DEF TypeInv, Shapes, RowsAreCounted, HookRows
<1>2. removal \subseteq Users \X (1..(MaxChanges + 1)) /\ Cardinality(removal) <= 1
  <2>1. CASE removal = {}
    BY <2>1, FS_EmptySet
  <2>2. ASSUME NEW u \in Users, NEW n \in 1..(MaxChanges + 1), removal = {<<u, n>>}
        PROVE  removal \subseteq Users \X (1..(MaxChanges + 1)) /\ Cardinality(removal) <= 1
    <3>1. Cardinality({<<u, n>>}) = 1
      BY FS_Singleton
    <3>2. QED
      BY <2>2, <3>1
  <2>3. QED
    BY <2>1, <2>2 DEF TypeInv, OneRemoval
<1>3. first \cup overtaken \cup founders \cup joined \cup excused \cup unsaid \subseteq Users
  BY DEF TypeInv, Shapes
<1>4. QED
  BY <1>1, <1>2, <1>3 DEF TypeInv, Shapes, TypeOK, Hooks

-----------------------------------------------------------------------------
(***************************************************************************)
(* Who owns the organization.  A hook that is about to let a plain member  *)
(* in has seen a member, and the last owner goes only with the account.  A *)
(* hook whose count still holds knows of no member, so whoever else founds *)
(* the organization was overtaken.                                         *)
(***************************************************************************)
OwnedOrOwnerless == Members # {} => Owners # {} \/ ownerless

JoinsOwned ==
    \A u \in Users : hook[u] = "counted" /\ u \notin first => Members # {} \/ ownerless

FirstHasCounted == \A u \in first : hook[u] \notin {"none", "created"}

FoundersOwn == founders \subseteq Owners

CountHolds ==
    \A u \in first : hook[u] = "counted" /\ u \notin overtaken => Members \subseteq {u}

OneUnovertaken == \A u, v \in founders \ overtaken : u = v

OwnerInv ==
    /\ OwnedOrOwnerless /\ JoinsOwned
    /\ FirstHasCounted /\ FoundersOwn /\ CountHolds /\ OneUnovertaken

IInv == TypeInv /\ OwnerInv

LEMMA InitialOwner == Init => OwnerInv
BY DEF Init, OwnerInv, OwnedOrOwnerless, JoinsOwned, FirstHasCounted, FoundersOwn, CountHolds,
       OneUnovertaken, Members, Owners

\* Nothing OwnerInv speaks of changes.
LEMMA OwnerUntouched ==
    ASSUME OwnerInv, UNCHANGED <<member, hook, first, overtaken, founders, ownerless>>
    PROVE  OwnerInv'
BY DEF OwnerInv, OwnedOrOwnerless, JoinsOwned, FirstHasCounted, FoundersOwn, CountHolds,
       OneUnovertaken, Members, Owners

\* A hook moves on without touching the members, and is not about to join.
LEMMA OwnerHookMoves ==
    ASSUME IInv, UNCHANGED <<member, overtaken, founders, ownerless>>,
           hook' \in [Users -> Hooks], first' \subseteq first,
           \A u \in Users :
               /\ hook'[u] = "counted" => hook[u] = "counted" /\ (u \in first' <=> u \in first)
               /\ u \in first' => hook'[u] \notin {"none", "created"}
    PROVE  OwnerInv'
<1>1. Members' = Members /\ Owners' = Owners
  BY DEF Members, Owners
<1>2. OwnedOrOwnerless' /\ FoundersOwn' /\ OneUnovertaken'
  BY <1>1 DEF IInv, OwnerInv, OwnedOrOwnerless, FoundersOwn, OneUnovertaken
<1>3. JoinsOwned'
  BY <1>1 DEF IInv, OwnerInv, JoinsOwned
<1>4. FirstHasCounted' /\ CountHolds'
  BY <1>1 DEF IInv, OwnerInv, FirstHasCounted, CountHolds, TypeInv, Shapes
<1>5. QED
  BY <1>2, <1>3, <1>4 DEF OwnerInv

LEMMA OwnerHook ==
    ASSUME IInv, NEW u \in Users, SignUp(u) \/ JoinFails(u) \/ Announces(u) \/ Crash
    PROVE  OwnerInv'
<1>1. hook' \in [Users -> Hooks]
  BY DEF SignUp, JoinFails, Announces, FindAdmins, TellAdmin, TellFails, Crash, IInv, TypeInv,
         Shapes, Hooks
<1>2. UNCHANGED <<member, overtaken, founders, ownerless>> /\ first' \subseteq first
  BY DEF SignUp, JoinFails, Announces, FindAdmins, TellAdmin, TellFails, Crash, history,
         announcement
<1>3. CASE SignUp(u)
  BY <1>1, <1>2, <1>3, OwnerHookMoves
  DEF SignUp, IInv, TypeInv, Shapes, OwnerInv, FirstHasCounted
<1>4. CASE JoinFails(u)
  BY <1>1, <1>2, <1>4, OwnerHookMoves
  DEF JoinFails, IInv, TypeInv, Shapes, OwnerInv, FirstHasCounted
<1>5. CASE Announces(u)
  BY <1>1, <1>2, <1>5, OwnerHookMoves
  DEF Announces, FindAdmins, TellAdmin, TellFails, Admins, history, IInv, TypeInv, Shapes,
      OwnerInv, FirstHasCounted
<1>6. CASE Crash
  BY <1>1, <1>2, <1>6, OwnerHookMoves DEF Crash, Running, IInv, TypeInv, Shapes
<1>7. QED
  BY <1>3, <1>4, <1>5, <1>6

LEMMA OwnerCount ==
    ASSUME IInv, NEW u \in Users, CountMembers(u)
    PROVE  OwnerInv'
<1>1. Members' = Members /\ Owners' = Owners /\ UNCHANGED <<overtaken, founders, ownerless>>
  BY DEF CountMembers, Members, Owners, history, announcement
<1>2. OwnedOrOwnerless' /\ FoundersOwn' /\ OneUnovertaken'
  BY <1>1 DEF IInv, OwnerInv, OwnedOrOwnerless, FoundersOwn, OneUnovertaken
<1>3. /\ \A v \in Users \ {u} : hook'[v] = hook[v] /\ (v \in first' <=> v \in first)
      /\ hook'[u] \in {"counted", "mail"} /\ u \notin first
      /\ u \in first' <=> Members = {}
      /\ first' \subseteq Users
  BY DEF CountMembers, IInv, TypeInv, Shapes, OwnerInv, FirstHasCounted
<1>4. JoinsOwned'
  BY <1>1, <1>3 DEF IInv, OwnerInv, JoinsOwned
<1>5. FirstHasCounted' /\ CountHolds'
  BY <1>1, <1>3 DEF IInv, OwnerInv, FirstHasCounted, CountHolds
<1>6. QED
  BY <1>2, <1>4, <1>5 DEF OwnerInv

\* What a new row does to the members and to the counts under way.
LEMMA AddedMember ==
    ASSUME IInv, NEW u \in Users, NEW role \in Roles, member[u] = "none", AddMember(u, role)
    PROVE  /\ Members' = Members \cup {u}
           /\ Owners' = IF role = "owner" THEN Owners \cup {u} ELSE Owners
           /\ \A v \in Users \ {u} : hook[v] = "counted" => v \in overtaken'
           /\ \A v \in overtaken : v \in founders \/ hook[v] = "counted" => v \in overtaken'
BY DEF IInv, TypeInv, Shapes, AddMember, Members, Owners, Overtaking, Roles

LEMMA OwnerJoin ==
    ASSUME IInv, NEW u \in Users, Join(u)
    PROVE  OwnerInv'
<1>1. /\ \A v \in Users \ {u} : hook'[v] = hook[v] /\ (v \in first' <=> v \in first)
      /\ hook[u] = "counted" /\ hook'[u] = "mail" /\ u \notin first'
      /\ first' = first \ {u} /\ first \subseteq Users /\ ownerless' = ownerless
  BY DEF Join, IInv, TypeInv, Shapes
<1>2. CASE member[u] # "none"
  <2>1. UNCHANGED <<member, overtaken, founders, ownerless>>
    BY <1>2 DEF Join
  <2>2. hook' \in [Users -> Hooks]
    BY DEF Join, IInv, TypeInv, Shapes, Hooks
  <2>3. QED
    BY <1>1, <2>1, <2>2, OwnerHookMoves DEF IInv, OwnerInv, FirstHasCounted
<1>3. CASE member[u] = "none" /\ u \in first
  <2>1. AddMember(u, "owner") /\ founders' = founders \cup {u}
    BY <1>3 DEF Join
  <2>2. /\ Members' = Members \cup {u} /\ Owners' = Owners \cup {u}
        /\ \A v \in Users \ {u} : hook[v] = "counted" => v \in overtaken'
        /\ \A v \in overtaken : v \in founders \/ hook[v] = "counted" => v \in overtaken'
    BY <1>3, <2>1, AddedMember DEF Roles
  <2>3. OwnedOrOwnerless' /\ JoinsOwned' /\ FoundersOwn'
    BY <2>1, <2>2 DEF IInv, OwnerInv, OwnedOrOwnerless, JoinsOwned, FoundersOwn
  <2>4. FirstHasCounted' /\ CountHolds'
    BY <1>1, <2>2 DEF IInv, OwnerInv, FirstHasCounted, CountHolds
  <2>5. u \notin overtaken => founders = {}
    <3>1. u \notin overtaken => Members \subseteq {u}
      BY <1>1, <1>3 DEF IInv, OwnerInv, CountHolds
    <3>2. u \notin Members /\ Owners \subseteq Members
      BY <1>3 DEF Members, Owners
    <3>3. QED
      BY <3>1, <3>2 DEF IInv, OwnerInv, FoundersOwn
  <2>6. OneUnovertaken'
    BY <1>1, <2>1, <2>2, <2>5 DEF IInv, OwnerInv, OneUnovertaken
  <2>7. QED
    BY <2>3, <2>4, <2>6 DEF OwnerInv
<1>4. CASE member[u] = "none" /\ u \notin first
  <2>1. AddMember(u, "member") /\ founders' = founders
    BY <1>4 DEF Join
  <2>2. /\ Members' = Members \cup {u} /\ Owners' = Owners
        /\ \A v \in Users \ {u} : hook[v] = "counted" => v \in overtaken'
        /\ \A v \in overtaken : v \in founders \/ hook[v] = "counted" => v \in overtaken'
    BY <1>4, <2>1, AddedMember DEF Roles
  <2>3. OwnedOrOwnerless'
    BY <1>1, <1>4, <2>2 DEF IInv, OwnerInv, OwnedOrOwnerless, JoinsOwned
  <2>4. JoinsOwned' /\ FoundersOwn'
    BY <2>1, <2>2 DEF IInv, OwnerInv, JoinsOwned, FoundersOwn
  <2>5. FirstHasCounted' /\ CountHolds'
    BY <1>1, <2>2 DEF IInv, OwnerInv, FirstHasCounted, CountHolds
  <2>6. OneUnovertaken'
    BY <2>1, <2>2 DEF IInv, OwnerInv, OneUnovertaken
  <2>7. QED
    BY <2>3, <2>4, <2>5, <2>6 DEF OwnerInv
<1>5. QED
  BY <1>2, <1>3, <1>4

LEMMA OwnerAccept ==
    ASSUME IInv, NEW u \in Users, NEW role \in Roles, AcceptInvitation(u, role)
    PROVE  OwnerInv'
<1>1. /\ AddMember(u, role) /\ member[u] = "none" /\ Managers # {}
      /\ UNCHANGED <<hook, first, founders, ownerless>>
  BY DEF AcceptInvitation
<1>2. /\ Members' = Members \cup {u} /\ Owners \subseteq Owners'
      /\ \A v \in Users \ {u} : hook[v] = "counted" => v \in overtaken'
      /\ \A v \in overtaken : v \in founders \/ hook[v] = "counted" => v \in overtaken'
  BY <1>1, AddedMember
<1>3. Members # {}
  BY <1>1 DEF Managers, Members
<1>4. OwnedOrOwnerless' /\ JoinsOwned' /\ FoundersOwn'
  BY <1>1, <1>2, <1>3 DEF IInv, OwnerInv, OwnedOrOwnerless, JoinsOwned, FoundersOwn
<1>5. FirstHasCounted'
  BY <1>1 DEF IInv, OwnerInv, FirstHasCounted
<1>6. CountHolds'
  <2> SUFFICES ASSUME NEW v \in first', hook'[v] = "counted", v \notin overtaken'
               PROVE  Members' \subseteq {v}
    BY DEF CountHolds
  <2>1. v = u /\ v \in first /\ hook[v] = "counted"
    BY <1>1, <1>2 DEF IInv, TypeInv, Shapes
  <2>2. v \notin overtaken
    BY <1>2, <2>1
  <2>3. QED
    BY <1>2, <2>1, <2>2 DEF IInv, OwnerInv, CountHolds
<1>7. OneUnovertaken'
  BY <1>1, <1>2 DEF IInv, OwnerInv, OneUnovertaken
<1>8. QED
  BY <1>4, <1>5, <1>6, <1>7 DEF OwnerInv

LEMMA OwnerRole ==
    ASSUME IInv, NEW u \in Users, NEW role \in Roles, ChangeRole(u, role)
    PROVE  OwnerInv'
<1>1. /\ Members' = Members /\ Owners \ {u} \subseteq Owners' /\ Owners # {u}
      /\ founders' = founders \ {u}
      /\ UNCHANGED <<hook, first, overtaken, ownerless>>
  BY DEF ChangeRole, IInv, TypeInv, Shapes, Members, Owners, Roles
<1>2. OwnedOrOwnerless' /\ JoinsOwned' /\ FoundersOwn'
  BY <1>1 DEF IInv, OwnerInv, OwnedOrOwnerless, JoinsOwned, FoundersOwn
<1>3. FirstHasCounted' /\ CountHolds' /\ OneUnovertaken'
  BY <1>1 DEF IInv, OwnerInv, FirstHasCounted, CountHolds, OneUnovertaken
<1>4. QED
  BY <1>2, <1>3 DEF OwnerInv

\* A member goes, who was not the last owner, or takes the account along.
LEMMA OwnerDrop ==
    ASSUME IInv, NEW u \in Users, DropMember(u), UNCHANGED <<hook, first>>,
           ownerless => ownerless', Owners = {u} => ownerless'
    PROVE  OwnerInv'
<1>1. /\ Members' = Members \ {u} /\ Owners' = Owners \ {u}
      /\ founders' = founders \ {u}
      /\ \A v \in Users : hook[v] = "counted" => v \in overtaken'
      /\ \A v \in overtaken : v \in founders => v \in overtaken'
  BY DEF DropMember, IInv, TypeInv, Shapes, Members, Owners, Overtaking
<1>2. Owners \subseteq Members
  BY DEF Owners, Members
<1>3. OwnedOrOwnerless'
  BY <1>1, <1>2 DEF IInv, OwnerInv, OwnedOrOwnerless
<1>4. JoinsOwned'
  <2>1. Members # {} => Members' # {} \/ ownerless'
    BY <1>1, <1>2 DEF IInv, OwnerInv, OwnedOrOwnerless
  <2>2. QED
    BY <2>1 DEF IInv, OwnerInv, JoinsOwned
<1>5. FoundersOwn' /\ FirstHasCounted'
  BY <1>1 DEF IInv, OwnerInv, FoundersOwn, FirstHasCounted
<1>6. CountHolds' /\ OneUnovertaken'
  BY <1>1 DEF IInv, TypeInv, Shapes, OwnerInv, CountHolds, OneUnovertaken
<1>7. QED
  BY <1>3, <1>4, <1>5, <1>6 DEF OwnerInv

LEMMA StepOwner == IInv /\ [Next]_vars => OwnerInv'
<1> SUFFICES ASSUME IInv, [Next]_vars PROVE OwnerInv'
  OBVIOUS
<1>1. ASSUME NEW u \in Users,
             SignUp(u) \/ CountMembers(u) \/ Join(u) \/ JoinFails(u) \/ Announces(u) \/ Crash
      PROVE  OwnerInv'
  BY <1>1, OwnerHook, OwnerCount, OwnerJoin
<1>2. ASSUME NEW u \in Users, NEW role \in Roles, AcceptInvitation(u, role) \/ ChangeRole(u, role)
      PROVE  OwnerInv'
  BY <1>2, OwnerAccept, OwnerRole
<1>3. ASSUME NEW u \in Users, LeaveOrRemoved(u) PROVE OwnerInv'
  BY <1>3, OwnerDrop DEF LeaveOrRemoved
<1>4. ASSUME NEW u \in Users, RemoveUser(u) PROVE OwnerInv'
  <2>1. ownerless' <=> (ownerless \/ member[u] = "owner")
    BY <1>4, Zenon DEF RemoveUser
  <2>2. (ownerless => ownerless') /\ (Owners = {u} => ownerless')
    BY <2>1 DEF Owners
  <2>3. QED
    BY <1>4, <2>2, OwnerDrop DEF RemoveUser
<1>5. CASE RemoveMember
  <2>1. PICK u \in Users :
          \/ Owners # {u} /\ DropMember(u)
          \/ UNCHANGED <<member, founders, joined, overtaken>>
    BY <1>5 DEF RemoveMember
  <2>2. UNCHANGED <<hook, first, ownerless>>
    BY <1>5 DEF RemoveMember
  <2>3. QED
    BY <2>1, <2>2, OwnerDrop, OwnerUntouched DEF IInv
<1>6. ASSUME NEW u \in Users, RequestRemoval(u) \/ (\E ban \in {"open", "banned"} : Decide(u, ban))
      PROVE  OwnerInv'
  BY <1>6, OwnerUntouched DEF RequestRemoval, Decide, history, announcement, IInv
<1>7. CASE UNCHANGED vars
  BY <1>7, OwnerUntouched DEF vars, history, announcement, IInv
<1>8. CASE Crash
  <2>1. PICK u \in Users : TRUE
    BY <1>8 DEF Crash
  <2>2. QED
    BY <1>1, <1>8
<1>9. QED
  BY <1>1, <1>2, <1>3, <1>4, <1>5, <1>6, <1>7, <1>8 DEF Next, Announces

LEMMA Invariance == Spec => []IInv
<1>1. Init => IInv
  BY InitialType, InitialOwner DEF IInv
<1>2. IInv /\ [Next]_vars => IInv'
  BY StepType, StepOwner DEF IInv
<1>3. QED
  BY <1>1, <1>2, PTL DEF Spec

-----------------------------------------------------------------------------
(***************************************************************************)
(* The theorems.                                                           *)
(***************************************************************************)

\* Accounts, memberships, hooks and the row a page is about to remove keep
\* their types.
THEOREM TypeCorrect == Spec => []TypeOK
<1>1. IInv => TypeOK
  BY TypeImplied DEF IInv
<1>2. QED
  BY <1>1, Invariance, PTL

\* An organization with members has an owner unless an owner's account was
\* deleted, and two founders only when their sign-ups overlapped.
THEOREM OrganizationsAreOwned == Spec => []Ownership
<1>1. IInv => Ownership
  <2> SUFFICES ASSUME IInv PROVE Ownership
    OBVIOUS
  <2>1. Members # {} /\ Owners = {} => ownerless
    BY DEF IInv, OwnerInv, OwnedOrOwnerless
  <2>2. ASSUME founders \cap overtaken = {} PROVE ~(Cardinality(founders) > 1)
    <3>1. CASE founders = {}
      BY <3>1, FS_EmptySet
    <3>2. CASE founders # {}
      <4>1. PICK u \in founders : founders = {u}
        BY <2>2, <3>2 DEF IInv, OwnerInv, OneUnovertaken
      <4>2. Cardinality({u}) = 1
        BY FS_Singleton
      <4>3. QED
        BY <4>1, <4>2
    <3>3. QED
      BY <3>1, <3>2
  <2>3. QED
    BY <2>1, <2>2 DEF Ownership
<1>2. QED
  BY <1>1, Invariance, PTL

-----------------------------------------------------------------------------
(***************************************************************************)
(* Domains.  For addresses over any labels the base domain is a suffix of  *)
(* the address, and a registrable domain is the base domain of all that    *)
(* is below it.                                                            *)
(***************************************************************************)
\* A suffix, label by label from its own first.
LEMMA SuffixByLabels ==
    ASSUME NEW S, NEW s \in Seq(S), NEW t \in Seq(S)
    PROVE  IsSuffix(s, t) <=>
             /\ Len(s) <= Len(t)
             /\ \A i \in 1..Len(s) : s[i] = t[Len(t) - Len(s) + i]
<1> DEFINE rs == Reverse(s)
           rt == Reverse(t)
<1>1. /\ Len(s) \in Nat /\ Len(t) \in Nat
  OBVIOUS
<1>2. /\ rs \in Seq(S) /\ Len(rs) = Len(s)
      /\ \A i \in 1..Len(s) : rs[i] = s[Len(s) - i + 1]
  BY <1>1 DEF Reverse
<1>3. /\ rt \in Seq(S) /\ Len(rt) = Len(t)
      /\ \A i \in 1..Len(t) : rt[i] = t[Len(t) - i + 1]
  BY <1>1 DEF Reverse
<1>4. IsSuffix(s, t) <=> IsPrefix(rs, rt)
  BY DEF IsSuffix
<1> HIDE DEF rs, rt
<1>5. IsPrefix(rs, rt) <=> /\ Len(s) <= Len(t)
                           /\ \A i \in 1..Len(s) : rs[i] = rt[i]
  <2>1. IsPrefix(rs, rt) <=> /\ Len(s) <= Len(t)
                             /\ SubSeq(rs, 1, Len(s)) = SubSeq(rt, 1, Len(s))
    BY <1>2, <1>3 DEF IsPrefix
  <2>2. ASSUME Len(s) <= Len(t)
        PROVE  SubSeq(rs, 1, Len(s)) = SubSeq(rt, 1, Len(s))
                 <=> \A i \in 1..Len(s) : rs[i] = rt[i]
    <3>1. /\ SubSeq(rs, 1, Len(s)) = [i \in 1..Len(s) |-> rs[i]]
          /\ SubSeq(rt, 1, Len(s)) = [i \in 1..Len(s) |-> rt[i]]
      BY <1>1, <1>2, <1>3, <2>2
    <3>2. QED
      BY <3>1
  <2>3. QED
    BY <2>1, <2>2
<1>6. ASSUME Len(s) <= Len(t)
      PROVE  (\A i \in 1..Len(s) : rs[i] = rt[i])
               <=> \A i \in 1..Len(s) : s[i] = t[Len(t) - Len(s) + i]
  <2>1. ASSUME \A i \in 1..Len(s) : rs[i] = rt[i], NEW i \in 1..Len(s)
        PROVE  s[i] = t[Len(t) - Len(s) + i]
    <3>1. Len(s) - i + 1 \in 1..Len(s) /\ Len(s) - i + 1 \in 1..Len(t)
      BY <1>1, <1>6
    <3>2. /\ Len(s) - (Len(s) - i + 1) + 1 = i
          /\ Len(t) - (Len(s) - i + 1) + 1 = Len(t) - Len(s) + i
      BY <1>1
    <3>3. rs[Len(s) - i + 1] = s[i] /\ rt[Len(s) - i + 1] = t[Len(t) - Len(s) + i]
      BY <1>2, <1>3, <3>1, <3>2
    <3>4. QED
      BY <2>1, <3>1, <3>3
  <2>2. ASSUME \A i \in 1..Len(s) : s[i] = t[Len(t) - Len(s) + i], NEW i \in 1..Len(s)
        PROVE  rs[i] = rt[i]
    <3>1. Len(s) - i + 1 \in 1..Len(s) /\ i \in 1..Len(t)
      BY <1>1, <1>6
    <3>2. rs[i] = s[Len(s) - i + 1] /\ rt[i] = t[Len(t) - i + 1]
      BY <1>2, <1>3, <3>1
    <3>3. s[Len(s) - i + 1] = t[Len(t) - Len(s) + (Len(s) - i + 1)]
      BY <2>2, <3>1
    <3>4. QED
      BY <1>1, <3>2, <3>3
  <2>3. QED
    BY <2>1, <2>2
<1>7. QED
  BY <1>4, <1>5, <1>6

\* The last n labels, where there are as many.
LEMMA LastLabelsProperties ==
    ASSUME NEW S, NEW t \in Seq(S), NEW n \in Nat, n <= Len(t)
    PROVE  /\ LastLabels(t, n) \in Seq(S) /\ Len(LastLabels(t, n)) = n
           /\ \A i \in 1..n : LastLabels(t, n)[i] = t[Len(t) - n + i]
<1>1. LastLabels(t, n) = [i \in 1..n |-> t[Len(t) - n + i]]
  BY DEF LastLabels
<1>2. \A i \in 1..n : t[Len(t) - n + i] \in S
  OBVIOUS
<1>3. QED
  BY <1>1, <1>2

LEMMA SuffixIsLastLabels ==
    ASSUME NEW S, NEW s \in Seq(S), NEW t \in Seq(S)
    PROVE  IsSuffix(s, t) <=> Len(s) <= Len(t) /\ s = LastLabels(t, Len(s))
<1>1. ASSUME Len(s) <= Len(t)
      PROVE  s = LastLabels(t, Len(s)) <=> \A i \in 1..Len(s) : s[i] = t[Len(t) - Len(s) + i]
  <2>1. /\ LastLabels(t, Len(s)) \in Seq(S) /\ Len(LastLabels(t, Len(s))) = Len(s)
        /\ \A i \in 1..Len(s) : LastLabels(t, Len(s))[i] = t[Len(t) - Len(s) + i]
    BY <1>1, LastLabelsProperties
  <2>2. s = LastLabels(t, Len(s)) <=> \A i \in 1..Len(s) : s[i] = LastLabels(t, Len(s))[i]
    BY <2>1, SeqEqual
  <2>3. QED
    BY <2>1, <2>2
<1>2. QED
  BY <1>1, SuffixByLabels

\* Whatever the list of suffixes, the base domain is an end of the address.
LEMMA BaseDomainIsSuffix ==
    ASSUME NEW S, NEW d \in Seq(S) PROVE IsSuffix(BaseDomain(d), d)
<1>1. CASE Len(d) <= 2
  <2>1. \A i \in 1..Len(d) : d[i] = d[Len(d) - Len(d) + i]
    OBVIOUS
  <2>2. QED
    BY <1>1, <2>1, SuffixByLabels DEF BaseDomain
<1>2. CASE Len(d) > 2
  <2>1. PICK n \in {2, 3} : BaseDomain(d) = LastLabels(d, n)
    BY <1>2 DEF BaseDomain
  <2>2. n \in Nat /\ n <= Len(d)
    BY <1>2
  <2>3. LastLabels(d, n) \in Seq(S) /\ Len(LastLabels(d, n)) = n
    BY <2>2, LastLabelsProperties
  <2>4. QED
    BY <2>1, <2>2, <2>3, SuffixIsLastLabels
<1>3. QED
  BY <1>1, <1>2

\* One label more than a public suffix, as far as the code knows those.
Registrable(o) ==
    \/ Len(o) = 2 /\ o \notin MultiLabelSuffixes
    \/ Len(o) = 3 /\ LastLabels(o, 2) \in MultiLabelSuffixes

\* An address at or below a registrable domain has it as its base domain.
LEMMA RegistrableSuffixIsBase ==
    ASSUME NEW S, NEW o \in Seq(S), NEW d \in Seq(S), Registrable(o), IsSuffix(o, d)
    PROVE  BaseDomain(d) = o
<1>1. Len(o) <= Len(d) /\ o = LastLabels(d, Len(o))
  BY SuffixIsLastLabels
<1>2. CASE Len(o) = 2
  <2>1. o = LastLabels(d, 2) /\ o \notin MultiLabelSuffixes
    BY <1>1, <1>2 DEF Registrable
  <2>2. CASE Len(d) = 2
    BY <2>1, <2>2, LastLabelsProperties, <1>2 DEF BaseDomain, LastLabels
  <2>3. CASE Len(d) > 2
    BY <2>1, <2>3 DEF BaseDomain
  <2>4. QED
    BY <1>1, <1>2, <2>2, <2>3
<1>3. CASE Len(o) = 3
  <2>1. o = LastLabels(d, 3) /\ LastLabels(o, 2) \in MultiLabelSuffixes /\ Len(d) > 2
    BY <1>1, <1>3 DEF Registrable
  <2>2. LastLabels(o, 2) = LastLabels(d, 2)
    <3>1. /\ LastLabels(o, 2) = [i \in 1..2 |-> o[1 + i]]
          /\ LastLabels(d, 2) = [i \in 1..2 |-> d[Len(d) - 2 + i]]
      BY <1>3, <2>1 DEF LastLabels
    <3>2. \A i \in 1..3 : o[i] = d[Len(d) - 3 + i]
      BY <2>1, LastLabelsProperties
    <3>3. \A i \in 1..2 : o[1 + i] = d[Len(d) - 2 + i]
      BY <3>2
    <3>4. QED
      BY <3>1, <3>3
  <2>3. QED
    BY <2>1, <2>2 DEF BaseDomain
<1>4. QED
  BY <1>2, <1>3 DEF Registrable

-----------------------------------------------------------------------------
(***************************************************************************)
(* Who joins.                                                              *)
(***************************************************************************)
OfDomain(u) == BaseDomain(Address[u]) = OwnedDomain

OutcomeInv == \A u \in Users :
    /\ hook[u] = "counted" \/ u \in joined => OfDomain(u)
    /\ hook[u] \in {"mail", "telling", "done"} /\ id[u] = 0 /\ OfDomain(u) => u \in excused

LEMMA HookOutcome ==
    ASSUME TypeInv, OutcomeInv, NEW u \in Users,
           SignUp(u) \/ CountMembers(u) \/ Join(u) \/ JoinFails(u) \/ Announces(u)
    PROVE  OutcomeInv'
<1> USE DEF OutcomeInv, TypeInv, Shapes
<1>0. OfDomain(u)' <=> OfDomain(u)
  BY DEF OfDomain
<1>1. CASE SignUp(u)
  BY <1>1 DEF SignUp, history, announcement, OfDomain
<1>2. CASE CountMembers(u)
  BY <1>2 DEF CountMembers, history, announcement, OfDomain
<1>3. CASE Join(u)
  <2>1. /\ hook[u] = "counted" /\ hook' = [hook EXCEPT ![u] = "mail"]
        /\ joined' = joined \cup {u} /\ UNCHANGED excused
    BY <1>3 DEF Join
  <2>2. id'[u] # 0 /\ \A v \in Users : v # u => id'[v] = id[v]
    BY <1>3 DEF Join, AddMember, RowsAreCounted
  <2>3. QED
    BY <2>1, <2>2 DEF OfDomain
<1>4. CASE JoinFails(u)
  BY <1>4 DEF JoinFails, OfDomain
<1>5. CASE Announces(u)
  BY <1>5 DEF Announces, FindAdmins, TellAdmin, TellFails, Admins, history, OfDomain
<1>6. QED
  BY <1>1, <1>2, <1>3, <1>4, <1>5

\* Whatever happens to accounts and memberships later takes no hook further,
\* makes nobody a member by the hook, and withdraws no row's number.
LEMMA LaterOutcome ==
    ASSUME TypeInv, OutcomeInv, UNCHANGED <<hook, excused>>,
           joined' \subseteq joined, \A v \in Users : id'[v] = 0 => id[v] = 0
    PROVE  OutcomeInv'
BY DEF OutcomeInv, OfDomain

LEMMA StepOutcome == TypeInv /\ OutcomeInv /\ [Next]_vars => OutcomeInv'
<1> SUFFICES ASSUME TypeInv, OutcomeInv, [Next]_vars PROVE OutcomeInv'
  OBVIOUS
<1>1. ASSUME NEW u \in Users, LeaveOrRemoved(u) \/ RemoveUser(u) \/ RequestRemoval(u)
      PROVE  OutcomeInv'
  BY <1>1, LaterOutcome DEF LeaveOrRemoved, RemoveUser, RequestRemoval, DropMember, history,
                            announcement
<1>2. ASSUME NEW u \in Users, NEW ban \in {"open", "banned"}, Decide(u, ban)
      PROVE  OutcomeInv'
  BY <1>2, LaterOutcome DEF Decide, history, announcement
<1>3. ASSUME NEW u \in Users, NEW role \in Roles, AcceptInvitation(u, role)
      PROVE  OutcomeInv'
  <2>1. \A v \in Users : id'[v] = 0 => id[v] = 0
    BY <1>3 DEF AcceptInvitation, AddMember, TypeInv, Shapes
  <2>2. QED
    BY <1>3, <2>1, LaterOutcome DEF AcceptInvitation
<1>4. ASSUME NEW u \in Users, NEW role \in Roles, ChangeRole(u, role)
      PROVE  OutcomeInv'
  BY <1>4, LaterOutcome DEF ChangeRole
<1>5. CASE RemoveMember
  BY <1>5, LaterOutcome DEF RemoveMember, DropMember
<1>6. CASE Crash
  BY <1>6 DEF Crash, Running, history, OutcomeInv, OfDomain, TypeInv, Shapes
<1>7. CASE UNCHANGED vars
  BY <1>7, LaterOutcome DEF vars, history, announcement
<1>8. QED
  BY <1>1, <1>2, <1>3, <1>4, <1>5, <1>6, <1>7, HookOutcome DEF Next, Announces

LEMMA Outcomes == Spec => []OutcomeInv
<1>1. Init => OutcomeInv
  BY DEF Init, OutcomeInv
<1>2. IInv => TypeInv
  BY DEF IInv
<1>3. QED
  BY <1>1, <1>2, StepOutcome, Invariance, PTL DEF Spec

\* For any addresses, list of suffixes and registrable domain of the
\* organization: the hook lets in the users at or below it, and only those.
THEOREM JoinsFollowTheDomain ==
    ASSUME NEW Labels, Address \in [Users -> Seq(Labels)], OwnedDomain \in Seq(Labels),
           Registrable(OwnedDomain)
    PROVE  Spec => []JoinedByDomain
<1>1. \A u \in Users : OfDomain(u) <=> IsSuffix(OwnedDomain, Address[u])
  BY BaseDomainIsSuffix, RegistrableSuffixIsBase DEF OfDomain
<1>2. OutcomeInv => JoinedByDomain
  BY <1>1 DEF OutcomeInv, JoinedByDomain
<1>3. QED
  BY <1>2, Outcomes, PTL
=============================================================================
