----------------------- MODULE UserManagement_proofs -----------------------
(***************************************************************************)
(* Proofs about UserManagement, for any users and numbers of calls: type   *)
(* correctness, that the lists show the page's own changes, that a reason  *)
(* is for the user it is mailed to, and that a sign-up is decided once;    *)
(* and, from Client on, about the browser the page runs in.  The two share *)
(* no variable; a proof about one uses nothing of the other.               *)
(***************************************************************************)
EXTENDS UserManagement, Client, TLAPS

USE BoundAssumption, NoneAssumption

-----------------------------------------------------------------------------
(***************************************************************************)
(* Types.                                                                  *)
(***************************************************************************)
ServerType == row \in [Users -> Bans] /\ taken \in [Users -> Nat] /\ overlapped \subseteq Users

PageType ==
    /\ view \in Views /\ next \in Views
    /\ empty \subseteq Queries /\ fetch \in [Queries -> {"idle", "asked", "read"}]
    /\ dialog \in Dialogs \cup {"none"} /\ picked \in Users \cup {None}
    /\ reason \in Users \cup {None}

\* Only a mutation at rest has no user.
CallType ==
    /\ call \in [Kinds -> Calls]
    /\ \A k \in Kinds : call[k].pc # "idle" => call[k].user \in Users
    /\ sent \in 0..MaxCalls /\ others \in 0..MaxOthers

ShownType == behind \subseteq Queries /\ dirty \subseteq Queries /\ missed \subseteq Queries

TypeInv == ServerType /\ PageType /\ CallType /\ ShownType

LEMMA IdleIsCall == Idle \in Calls
BY Zenon DEF Idle, Calls

LEMMA LoadedIsView ==
    ASSUME NEW rows \in [Users -> Bans]
    PROVE  Loaded(rows) \in Views
<1>1. Waiting(rows) \in SUBSET Users
  BY DEF Waiting
<1>2. QED
  BY <1>1 DEF Loaded, Views

LEMMA FieldOfView ==
    ASSUME NEW v \in Views, NEW w \in Views, NEW q \in Queries
    PROVE  [v EXCEPT ![q] = w[q]] \in Views
<1>1. CASE q = "all"
  BY <1>1 DEF Views
<1>2. CASE q = "pending"
  BY <1>2 DEF Views
<1>3. QED
  BY <1>1, <1>2 DEF Queries

LEMMA FieldsOfViews ==
    ASSUME NEW v \in Views, NEW w \in Views, NEW S
    PROVE  [q \in Queries |-> IF q \in S THEN v[q] ELSE w[q]] \in Views
BY DEF Queries, Views

\* What becomes of one mutation.
LEMMA CallChanges ==
    ASSUME CallType, NEW k \in Kinds, NEW c \in Calls, call' = [call EXCEPT ![k] = c],
           c.pc # "idle" => c.user \in Users, sent' \in 0..MaxCalls, others' \in 0..MaxOthers
    PROVE  CallType'
BY DEF CallType

LEMMA InitialType == Init => TypeInv
<1> SUFFICES ASSUME Init PROVE TypeInv
  OBVIOUS
<1>1. view \in Views /\ next \in Views
  <2>1. [u \in Users |-> "no"] \in [Users -> Bans]
    BY DEF Bans
  <2>2. QED
    BY <2>1, LoadedIsView DEF Init
<1>2. CallType
  BY IdleIsCall DEF Init, CallType, Idle
<1>3. QED
  BY <1>1, <1>2 DEF Init, TypeInv, ServerType, PageType, ShownType

LEMMA OpenType ==
    ASSUME TypeInv, NEW u \in Users, OpenFromAll(u) \/ OpenReject(u)
    PROVE  TypeInv'
<1>1. PageType'
  BY DEF OpenFromAll, OpenReject, Open, TypeInv, PageType, Dialogs
<1>2. ServerType' /\ CallType' /\ ShownType'
  BY DEF OpenFromAll, OpenReject, Open, TypeInv, ServerType, CallType, ShownType, shown
<1>3. QED
  BY <1>1, <1>2 DEF TypeInv

LEMMA DialogType ==
    ASSUME TypeInv, TypeReason \/ Cancel
    PROVE  TypeInv'
<1>1. PageType'
  BY DEF TypeReason, Cancel, TypeInv, PageType
<1>2. ServerType' /\ CallType' /\ ShownType'
  BY DEF TypeReason, Cancel, TypeInv, ServerType, CallType, ShownType, shown
<1>3. QED
  BY <1>1, <1>2 DEF TypeInv

LEMMA MutateType ==
    ASSUME TypeInv, NEW k \in Kinds, NEW u \in Users, Mutate(k, u)
    PROVE  TypeInv'
<1> DEFINE c == [pc |-> "sent", waiting |-> TRUE, user |-> u,
                 reason |-> IF k = "reject" THEN reason ELSE None]
<1>1. c \in Calls /\ c.user = u
  BY DEF Calls, TypeInv, PageType
<1>2. call' = [call EXCEPT ![k] = c] /\ sent' \in 0..MaxCalls /\ others' \in 0..MaxOthers
  BY DEF Mutate, TypeInv, CallType
<1>3. CallType'
  <2> HIDE DEF c
  <2> QED
    BY <1>1, <1>2, CallChanges DEF TypeInv
<1>4. ServerType' /\ PageType' /\ ShownType'
  BY DEF Mutate, TypeInv, ServerType, PageType, ShownType, shown, page
<1>5. QED
  BY <1>3, <1>4 DEF TypeInv

\* The user of a mutation under way, and the mutation once it has its answer.
LEMMA UnderWay ==
    ASSUME TypeInv, NEW k \in Kinds, NEW pc \in {"checked", "done", "refused"},
           call[k].pc # "idle"
    PROVE  /\ call[k].user \in Users
           /\ [call[k] EXCEPT !.pc = pc] \in Calls
           /\ [call[k] EXCEPT !.pc = pc].user = call[k].user
BY DEF TypeInv, CallType, Calls

LEMMA OwnWriteType ==
    ASSUME TypeInv, NEW k \in Kinds, NEW new \in Bans, call[k].pc # "idle", OwnWrite(k, new),
           taken' \in [Users -> Nat], overlapped' = overlapped
    PROVE  TypeInv'
<1>1. CallType'
  <2>1. CASE call[k].waiting
    BY <2>1, UnderWay, CallChanges DEF OwnWrite, TypeInv, CallType
  <2>2. CASE ~call[k].waiting
    BY <2>2, IdleIsCall, CallChanges DEF OwnWrite, TypeInv, CallType, Idle
  <2>3. QED
    BY <2>1, <2>2
<1>2. ServerType'
  BY DEF OwnWrite, TypeInv, ServerType, CallType
<1>3. PageType' /\ ShownType'
  BY DEF OwnWrite, TypeInv, PageType, ShownType, page
<1>4. QED
  BY <1>1, <1>2, <1>3 DEF TypeInv

LEMMA ServerStepType ==
    ASSUME TypeInv, NEW k \in Kinds, Run(k) \/ CheckPending(k) \/ WriteDecision(k)
    PROVE  TypeInv'
<1>1. CASE Run(k)
  <2>1. call[k].user \in Users /\ call[k].pc # "idle"
    BY <1>1 DEF Run, TypeInv, CallType
  <2>2. k \in {"ban", "unban", "role"}
    BY <1>1 DEF Run, Kinds, Dialogs, Decisions
  <2>3. \E new \in Bans : OwnWrite(k, new)
    BY <1>1, <2>1, <2>2 DEF Run, Bans, TypeInv, ServerType
  <2>4. QED
    BY <1>1, <2>1, <2>3, OwnWriteType DEF Run, TypeInv, ServerType
<1>2. CASE WriteDecision(k)
  <2>1. call[k].user \in Users /\ call[k].pc # "idle"
    BY <1>2 DEF WriteDecision, TypeInv, CallType
  <2>2. \E new \in Bans : OwnWrite(k, new)
    BY <1>2 DEF WriteDecision, Bans
  <2>3. taken' \in [Users -> Nat]
    BY <1>2, <2>1 DEF WriteDecision, TypeInv, ServerType
  <2>4. QED
    BY <1>2, <2>1, <2>2, <2>3, OwnWriteType DEF WriteDecision
<1>3. CASE CheckPending(k)
  <2>1. call[k].pc # "idle"
    BY <1>3 DEF CheckPending
  <2>2. CallType'
    <3>1. \E pc \in {"checked", "refused"} : call' = [call EXCEPT ![k] = [call[k] EXCEPT !.pc = pc]]
      BY <1>3 DEF CheckPending
    <3>2. sent' \in 0..MaxCalls /\ others' \in 0..MaxOthers
      BY <1>3 DEF CheckPending, TypeInv, CallType
    <3>3. QED
      BY <2>1, <3>1, <3>2, UnderWay, CallChanges DEF TypeInv
  <2>3. ServerType'
    BY <1>3, <2>1, UnderWay DEF CheckPending, TypeInv, ServerType
  <2>4. PageType' /\ ShownType'
    BY <1>3 DEF CheckPending, TypeInv, PageType, ShownType, shown, page
  <2>5. QED
    BY <2>2, <2>3, <2>4 DEF TypeInv
<1>4. QED
  BY <1>1, <1>2, <1>3

LEMMA OtherAdminType ==
    ASSUME TypeInv, NEW u \in Users, NEW k \in Kinds \ {"role"}, OtherAdmin(u, k)
    PROVE  TypeInv'
<1>1. k \in {"approve", "unban", "reject", "ban"}
  BY DEF Kinds, Dialogs
<1>2. row' \in [Users -> Bans]
  BY <1>1 DEF OtherAdmin, TypeInv, ServerType, Bans
<1>3. taken' \in [Users -> Nat] /\ overlapped' \subseteq Users
  BY DEF OtherAdmin, TypeInv, ServerType
<1>4. CallType'
  BY DEF OtherAdmin, TypeInv, CallType
<1>5. PageType' /\ ShownType'
  BY DEF OtherAdmin, TypeInv, PageType, ShownType, shown, page
<1>6. QED
  BY <1>2, <1>3, <1>4, <1>5 DEF TypeInv, ServerType

LEMMA AnswerType ==
    ASSUME TypeInv, NEW k \in Kinds, Succeed(k) \/ Refused(k) \/ GiveUp(k)
    PROVE  TypeInv'
<1>1. ServerType'
  BY DEF Succeed, Refused, GiveUp, TypeInv, ServerType
<1>2. ShownType'
  BY DEF Succeed, Invalidate, Refused, GiveUp, TypeInv, ShownType, shown
<1>3. PageType'
  <2>1. CASE Succeed(k)
    <3>1. next' \in Views /\ fetch' \in [Queries -> {"idle", "asked", "read"}]
      BY <2>1, FieldsOfViews DEF Succeed, Invalidate, TypeInv, PageType
    <3>2. QED
      BY <2>1, <3>1 DEF Succeed, TypeInv, PageType
  <2>2. CASE Refused(k) \/ GiveUp(k)
    BY <2>2 DEF Refused, GiveUp, TypeInv, PageType, page
  <2>3. QED
    BY <2>1, <2>2
<1>4. CallType'
  <2>1. sent' \in 0..MaxCalls /\ others' \in 0..MaxOthers
    BY DEF Succeed, Refused, GiveUp, TypeInv, CallType
  <2>2. CASE call' = [call EXCEPT ![k] = Idle]
    BY <2>1, <2>2, IdleIsCall, CallChanges DEF TypeInv, Idle
  <2>3. CASE /\ call[k].pc \in {"sent", "checked"}
             /\ call' = [call EXCEPT ![k] = [call[k] EXCEPT !.waiting = FALSE]]
    <3>1. [call[k] EXCEPT !.waiting = FALSE] \in Calls
      BY DEF TypeInv, CallType, Calls
    <3>2. [call[k] EXCEPT !.waiting = FALSE].user \in Users
      BY <2>3 DEF TypeInv, CallType, Calls
    <3>3. QED
      BY <2>1, <2>3, <3>1, <3>2, CallChanges DEF TypeInv
  <2>4. QED
    BY <2>2, <2>3 DEF Succeed, Refused, GiveUp
<1>5. QED
  BY <1>1, <1>2, <1>3, <1>4 DEF TypeInv

LEMMA RefetchType ==
    ASSUME TypeInv, NEW q \in Queries, ReadQuery(q) \/ Arrive(q) \/ FetchFails(q)
    PROVE  TypeInv'
<1>1. Loaded(row) \in Views
  BY LoadedIsView DEF TypeInv, ServerType
<1>2. view' \in Views /\ next' \in Views
  BY <1>1, FieldOfView DEF ReadQuery, Arrive, FetchFails, TypeInv, PageType
<1>3. PageType'
  BY <1>2 DEF ReadQuery, Arrive, FetchFails, TypeInv, PageType
<1>4. ShownType'
  BY DEF ReadQuery, Arrive, FetchFails, TypeInv, ShownType
<1>5. ServerType' /\ CallType'
  BY DEF ReadQuery, Arrive, FetchFails, TypeInv, ServerType, CallType
<1>6. QED
  BY <1>3, <1>4, <1>5 DEF TypeInv

LEMMA StepType == TypeInv /\ [Next]_vars => TypeInv'
<1> SUFFICES ASSUME TypeInv, [Next]_vars PROVE TypeInv'
  OBVIOUS
<1>1. CASE Confirm
  BY <1>1, MutateType DEF Confirm, TypeInv, PageType, Kinds
<1>2. ASSUME NEW u \in Users, Approve(u) PROVE TypeInv'
  BY <1>2, MutateType DEF Approve, Kinds
<1>3. CASE UNCHANGED vars
  BY <1>3 DEF vars, page, shown, TypeInv, ServerType, PageType, CallType, ShownType
<1>4. QED
  BY <1>1, <1>2, <1>3, OpenType, DialogType, ServerStepType, OtherAdminType, AnswerType,
     RefetchType DEF Next

-----------------------------------------------------------------------------
(***************************************************************************)
(* The lists.  What is on the screen, or about to be, from before the      *)
(* page's own last change is excused, or a change has its answer to come,  *)
(* which will ask again.                                                   *)
(***************************************************************************)
AnswerToCome == \E k \in Kinds : call[k].pc = "done"

ListsInv ==
    /\ \A q \in behind : fetch[q] = "idle" => q \in missed \/ AnswerToCome
    /\ \A q \in dirty : fetch[q] = "read" => q \in missed \/ AnswerToCome
    /\ dirty \subseteq behind

\* A step that touches no list and takes no answer away.
LEMMA ListsUntouched ==
    ASSUME ListsInv, UNCHANGED <<fetch, behind, dirty, missed>>,
           AnswerToCome => AnswerToCome'
    PROVE  ListsInv'
BY DEF ListsInv

LEMMA ListsOwnWrite ==
    ASSUME TypeInv, ListsInv, NEW k \in Kinds, NEW new, OwnWrite(k, new)
    PROVE  ListsInv'
<1>1. behind' = Queries /\ dirty' \subseteq Queries
  BY DEF OwnWrite, TypeInv, ShownType
<1>2. CASE call[k].waiting
  <2>1. call'[k].pc = "done"
    BY <1>2 DEF OwnWrite, TypeInv, CallType, Calls
  <2>2. AnswerToCome'
    BY <2>1 DEF AnswerToCome
  <2>3. QED
    BY <1>1, <2>2 DEF ListsInv
<1>3. CASE ~call[k].waiting
  <2>1. missed' = Queries
    BY <1>3 DEF OwnWrite
  <2>2. QED
    BY <1>1, <2>1 DEF ListsInv
<1>4. QED
  BY <1>2, <1>3

LEMMA ListsServer ==
    ASSUME TypeInv, ListsInv, NEW k \in Kinds, Run(k) \/ CheckPending(k) \/ WriteDecision(k)
    PROVE  ListsInv'
<1>1. CASE Run(k)
  BY <1>1, ListsOwnWrite DEF Run
<1>2. CASE WriteDecision(k)
  BY <1>2, ListsOwnWrite DEF WriteDecision
<1>3. CASE CheckPending(k)
  <2>1. AnswerToCome => AnswerToCome'
    BY <1>3 DEF CheckPending, AnswerToCome, TypeInv, CallType, Calls
  <2>2. QED
    BY <1>3, <2>1, ListsUntouched DEF CheckPending, page, shown
<1>4. QED
  BY <1>1, <1>2, <1>3

LEMMA ListsAnswer ==
    ASSUME TypeInv, ListsInv, NEW k \in Kinds, Succeed(k) \/ Refused(k) \/ GiveUp(k)
    PROVE  ListsInv'
<1>1. CASE Succeed(k)
  <2>1. /\ \A q \in Queries : fetch'[q] = IF q \in FirstLoads THEN fetch[q] ELSE "asked"
        /\ missed' = missed \cup (dirty \cap FirstLoads) /\ UNCHANGED <<behind, dirty>>
    BY <1>1 DEF Succeed, Invalidate
  <2>2. \A q \in FirstLoads : fetch[q] # "idle"
    BY DEF FirstLoads
  <2>3. QED
    BY <2>1, <2>2 DEF ListsInv, TypeInv, ShownType
<1>2. CASE Refused(k)
  <2>1. AnswerToCome => AnswerToCome'
    BY <1>2 DEF Refused, AnswerToCome, TypeInv, CallType
  <2>2. QED
    BY <1>2, <2>1, ListsUntouched DEF Refused, page, shown
<1>3. CASE GiveUp(k) /\ call[k].pc = "done"
  <2>1. missed' = behind /\ UNCHANGED <<fetch, behind, dirty>>
    BY <1>3 DEF GiveUp, page
  <2>2. QED
    BY <2>1 DEF ListsInv
<1>4. CASE GiveUp(k) /\ call[k].pc # "done"
  <2>1. AnswerToCome => AnswerToCome'
    BY <1>4 DEF GiveUp, AnswerToCome, TypeInv, CallType
  <2>2. QED
    BY <1>4, <2>1, ListsUntouched DEF GiveUp, page
<1>5. QED
  BY <1>1, <1>2, <1>3, <1>4

LEMMA ListsRefetch ==
    ASSUME TypeInv, ListsInv, NEW q \in Queries, ReadQuery(q) \/ Arrive(q) \/ FetchFails(q)
    PROVE  ListsInv'
<1>1. /\ AnswerToCome' <=> AnswerToCome
      /\ \A p \in Queries \ {q} : fetch'[p] = fetch[p]
  BY DEF ReadQuery, Arrive, FetchFails, AnswerToCome, TypeInv, PageType
<1>2. CASE ReadQuery(q)
  <2>1. fetch'[q] = "read" /\ dirty' = dirty \ {q} /\ UNCHANGED <<behind, missed>>
    BY <1>2 DEF ReadQuery, TypeInv, PageType
  <2>2. QED
    BY <1>1, <2>1 DEF ListsInv, TypeInv, ShownType
<1>3. CASE Arrive(q)
  <2>1. /\ fetch[q] = "read" /\ fetch'[q] = "idle" /\ dirty' = dirty \ {q}
        /\ behind' = IF q \in dirty THEN behind ELSE behind \ {q}
        /\ missed' = IF q \in dirty THEN missed ELSE missed \ {q}
    BY <1>3 DEF Arrive, TypeInv, PageType
  <2>2. QED
    BY <1>1, <2>1 DEF ListsInv, TypeInv, ShownType
<1>4. CASE FetchFails(q)
  <2>1. /\ fetch'[q] = "idle" /\ dirty' = dirty \ {q} /\ behind' = behind
        /\ missed' = missed \cup (behind \cap {q})
    BY <1>4 DEF FetchFails, TypeInv, PageType
  <2>2. QED
    BY <1>1, <2>1 DEF ListsInv, TypeInv, ShownType
<1>5. QED
  BY <1>2, <1>3, <1>4

LEMMA StepLists == TypeInv /\ ListsInv /\ [Next]_vars => ListsInv'
<1> SUFFICES ASSUME TypeInv, ListsInv, [Next]_vars PROVE ListsInv'
  OBVIOUS
<1>1. ASSUME NEW k \in Kinds, NEW u, Mutate(k, u) PROVE ListsInv'
  <2>1. AnswerToCome => AnswerToCome'
    BY <1>1 DEF Mutate, AnswerToCome, TypeInv, CallType, Idle
  <2>2. QED
    BY <1>1, <2>1, ListsUntouched DEF Mutate, page, shown
<1>2. CASE Confirm
  BY <1>1, <1>2 DEF Confirm, TypeInv, PageType, Kinds
<1>3. ASSUME NEW u \in Users, Approve(u) PROVE ListsInv'
  BY <1>1, <1>3 DEF Approve, Kinds
<1>4. ASSUME NEW u \in Users, OpenFromAll(u) \/ OpenReject(u) \/ TypeReason \/ Cancel
      PROVE  ListsInv'
  BY <1>4, ListsUntouched
  DEF OpenFromAll, OpenReject, Open, TypeReason, Cancel, AnswerToCome, shown
<1>5. CASE TypeReason \/ Cancel
  BY <1>5, ListsUntouched DEF TypeReason, Cancel, AnswerToCome, shown
<1>6. ASSUME NEW u \in Users, NEW k \in Kinds, OtherAdmin(u, k) PROVE ListsInv'
  BY <1>6, ListsUntouched DEF OtherAdmin, AnswerToCome, page, shown
<1>7. CASE UNCHANGED vars
  BY <1>7, ListsUntouched DEF vars, AnswerToCome, page, shown
<1>8. QED
  BY <1>2, <1>3, <1>4, <1>5, <1>6, <1>7, ListsServer, ListsAnswer, ListsRefetch DEF Next

-----------------------------------------------------------------------------
(***************************************************************************)
(* The reason box.                                                         *)
(***************************************************************************)
ReasonInv ==
    /\ dialog = "reject" => reason \in {None, picked}
    /\ call["reject"].pc # "idle" => call["reject"].reason \in {None, call["reject"].user}

LEMMA StepReason == TypeInv /\ ReasonInv /\ [Next]_vars => ReasonInv'
<1> SUFFICES ASSUME TypeInv, ReasonInv, [Next]_vars PROVE ReasonInv'
  OBVIOUS
<1> "reject" \in Kinds
  BY DEF Kinds, Dialogs
<1>1. ASSUME NEW k \in Kinds, NEW u \in Users, Mutate(k, u),
             k = "reject" => reason \in {None, u}
      PROVE  ReasonInv'
  <2>1. UNCHANGED <<dialog, reason, picked>>
    BY <1>1 DEF Mutate, page
  <2>2. CASE k = "reject"
    <3>1. call'["reject"].reason = reason /\ call'["reject"].user = u
      BY <1>1, <2>2 DEF Mutate, TypeInv, CallType
    <3>2. QED
      BY <1>1, <2>1, <2>2, <3>1 DEF ReasonInv
  <2>3. CASE k # "reject"
    <3>1. call'["reject"] = call["reject"]
      BY <1>1, <2>3 DEF Mutate, TypeInv, CallType
    <3>2. QED
      BY <2>1, <3>1 DEF ReasonInv
  <2>4. QED
    BY <2>2, <2>3
<1>2. CASE Confirm
  BY <1>1, <1>2 DEF Confirm, ReasonInv, TypeInv, PageType, Kinds
<1>3. ASSUME NEW u \in Users, Approve(u) PROVE ReasonInv'
  BY <1>1, <1>3 DEF Approve, Kinds
<1>4. ASSUME NEW u \in Users, OpenFromAll(u) \/ OpenReject(u) PROVE ReasonInv'
  BY <1>4 DEF OpenFromAll, OpenReject, Open, ReasonInv
<1>5. CASE TypeReason \/ Cancel
  BY <1>5 DEF TypeReason, Cancel, ReasonInv
\* A mutation that goes on keeps its user and its reason.
<1>6. ASSUME NEW k \in Kinds, UNCHANGED <<dialog, reason, picked>>,
             \/ call' = [call EXCEPT ![k] = Idle]
             \/ /\ call[k].pc # "idle"
                /\ \/ \E pc : call' = [call EXCEPT ![k] = [call[k] EXCEPT !.pc = pc]]
                   \/ call' = [call EXCEPT ![k] = [call[k] EXCEPT !.waiting = FALSE]]
      PROVE  ReasonInv'
  <2>1. \/ call'["reject"].pc = "idle"
        \/ /\ call'["reject"].user = call["reject"].user
           /\ call'["reject"].reason = call["reject"].reason
           /\ call["reject"].pc # "idle"
    <3>1. CASE k # "reject"
      BY <1>6, <3>1 DEF TypeInv, CallType
    <3>2. CASE k = "reject"
      BY <1>6, <3>2 DEF TypeInv, CallType, Calls, Idle
    <3>3. QED
      BY <3>1, <3>2
  <2>2. QED
    BY <1>6, <2>1 DEF ReasonInv
<1>7. ASSUME NEW k \in Kinds, NEW new, OwnWrite(k, new), call[k].pc # "idle" PROVE ReasonInv'
  <2>1. UNCHANGED <<dialog, reason, picked>>
    BY <1>7 DEF OwnWrite, page
  <2>2. CASE call[k].waiting
    BY <1>6, <1>7, <2>1, <2>2 DEF OwnWrite
  <2>3. CASE ~call[k].waiting
    BY <1>6, <1>7, <2>1, <2>3 DEF OwnWrite
  <2>4. QED
    BY <2>2, <2>3
<1>8. ASSUME NEW k \in Kinds, Run(k) \/ WriteDecision(k) PROVE ReasonInv'
  BY <1>7, <1>8 DEF Run, WriteDecision
<1>9. ASSUME NEW k \in Kinds, CheckPending(k) PROVE ReasonInv'
  BY <1>6, <1>9 DEF CheckPending, page
<1>10. ASSUME NEW k \in Kinds, Refused(k) \/ GiveUp(k) PROVE ReasonInv'
  <2>1. UNCHANGED <<dialog, reason, picked>>
    BY <1>10 DEF Refused, GiveUp, page
  <2>2. \/ call' = [call EXCEPT ![k] = Idle]
        \/ /\ call[k].pc # "idle"
           /\ call' = [call EXCEPT ![k] = [call[k] EXCEPT !.waiting = FALSE]]
    BY <1>10 DEF Refused, GiveUp
  <2>3. QED
    BY <1>6, <2>1, <2>2
<1>11. ASSUME NEW k \in Kinds, Succeed(k) PROVE ReasonInv'
  <2>1. call' = [call EXCEPT ![k] = Idle]
    BY <1>11 DEF Succeed
  <2>2. CASE k = "approve"
    BY <1>6, <1>11, <2>1, <2>2 DEF Succeed
  <2>3. CASE k # "approve"
    <3>1. dialog' = "none"
      BY <1>11, <2>3 DEF Succeed
    <3>2. call'["reject"].pc = "idle" \/ call'["reject"] = call["reject"]
      BY <2>1 DEF TypeInv, CallType, Idle
    <3>3. QED
      BY <3>1, <3>2 DEF ReasonInv
  <2>4. QED
    BY <2>2, <2>3
<1>12. ASSUME NEW u \in Users, NEW k \in Kinds, OtherAdmin(u, k) PROVE ReasonInv'
  BY <1>12 DEF OtherAdmin, page, ReasonInv
<1>13. ASSUME NEW q \in Queries, ReadQuery(q) \/ Arrive(q) \/ FetchFails(q) PROVE ReasonInv'
  BY <1>13 DEF ReadQuery, Arrive, FetchFails, ReasonInv
<1>14. CASE UNCHANGED vars
  BY <1>14 DEF vars, page, ReasonInv
<1>15. QED
  BY <1>2, <1>3, <1>4, <1>5, <1>8, <1>9, <1>10, <1>11, <1>12, <1>13, <1>14 DEF Next

-----------------------------------------------------------------------------
(***************************************************************************)
(* The decisions.  A user who waits has had none.  A decision that has     *)
(* been let through finds none taken, or shares its user with another that *)
(* was let through before it wrote.                                        *)
(***************************************************************************)
LetThrough(k, u) == call[k].pc = "checked" /\ call[k].user = u

DecisionInv ==
    /\ \A u \in Users : row[u] = "pending" => taken[u] = 0
    /\ \A u \in Users \ overlapped, k \in Decisions : LetThrough(k, u) => taken[u] = 0
    /\ \A u \in Users \ overlapped, k, l \in Decisions :
         LetThrough(k, u) /\ LetThrough(l, u) => k = l
    /\ DecidedOnce

LEMMA InitialDecision == Init => DecisionInv
BY DEF Init, DecisionInv, DecidedOnce, LetThrough, Idle, Decisions, Kinds, Dialogs

\* Nobody decides, and no decision is let through.
LEMMA NoDecision ==
    ASSUME DecisionInv, UNCHANGED <<taken, overlapped>>,
           \A u \in Users : row'[u] = "pending" => row[u] = "pending",
           \A k \in Decisions, u \in Users : LetThrough(k, u)' => LetThrough(k, u)
    PROVE  DecisionInv'
<1>1. \A u \in Users : taken'[u] = taken[u]
  OBVIOUS
<1>2. QED
  BY <1>1 DEF DecisionInv, DecidedOnce

LEMMA DecisionsInKinds == Decisions \subseteq Kinds
BY DEF Decisions, Kinds, Dialogs

LEMMA MutateDecision ==
    ASSUME TypeInv, DecisionInv, NEW k \in Kinds, NEW u \in Users, Mutate(k, u)
    PROVE  DecisionInv'
<1>1. \A l \in Decisions, v \in Users : LetThrough(l, v)' => LetThrough(l, v)
  BY DecisionsInKinds DEF Mutate, LetThrough, TypeInv, CallType
<1>2. QED
  BY <1>1, NoDecision DEF Mutate

LEMMA AnswerDecision ==
    ASSUME TypeInv, DecisionInv, NEW k \in Kinds, Succeed(k) \/ Refused(k) \/ GiveUp(k)
    PROVE  DecisionInv'
<1>1. \A l \in Decisions, v \in Users : LetThrough(l, v)' => LetThrough(l, v)
  BY DecisionsInKinds DEF Succeed, Refused, GiveUp, LetThrough, TypeInv, CallType, Calls, Idle
<1>2. QED
  BY <1>1, NoDecision DEF Succeed, Refused, GiveUp

LEMMA RunDecision ==
    ASSUME TypeInv, DecisionInv, NEW k \in Kinds, Run(k)
    PROVE  DecisionInv'
<1>1. k \notin Decisions /\ k \in {"ban", "unban", "role"}
  BY DEF Run, Kinds, Dialogs, Decisions
<1>2. \A l \in Decisions : call'[l] = call[l]
  BY <1>1, DecisionsInKinds DEF Run, OwnWrite, TypeInv, CallType
<1>3. \A u \in Users : row'[u] = "pending" => row[u] = "pending"
  BY <1>1 DEF Run, OwnWrite, TypeInv, ServerType
<1>4. QED
  BY <1>2, <1>3, NoDecision DEF Run, LetThrough

LEMMA CheckDecision ==
    ASSUME TypeInv, DecisionInv, NEW k \in Kinds, CheckPending(k)
    PROVE  DecisionInv'
<1> DEFINE u == call[k].user
<1>1. k \in Decisions /\ u \in Users
  BY DEF CheckPending, TypeInv, CallType
<1>2. /\ UNCHANGED <<row, taken>>
      /\ overlapped \subseteq overlapped'
      /\ (\E l \in Decisions \ {k} : LetThrough(l, u)) => u \in overlapped'
  BY DEF CheckPending, LetThrough
<1>3. \A l \in Decisions \ {k} : call'[l] = call[l]
  BY DecisionsInKinds DEF CheckPending, TypeInv, CallType
<1>4. call'[k].user = u /\ (call'[k].pc = "checked" => row[u] = "pending")
  BY DEF CheckPending, TypeInv, CallType, Calls
<1> HIDE DEF u
<1>5. \A l \in Decisions \ {k}, v \in Users : LetThrough(l, v)' <=> LetThrough(l, v)
  BY <1>3 DEF LetThrough
<1>6. \A v \in Users : LetThrough(k, v)' => v = u /\ row[u] = "pending"
  BY <1>4 DEF LetThrough
<1>7. \A v \in Users : taken'[v] = taken[v]
  BY <1>2
<1>8. \A v \in Users \ overlapped', l \in Decisions : LetThrough(l, v)' => taken'[v] = 0
  BY <1>1, <1>2, <1>5, <1>6, <1>7 DEF DecisionInv
<1>9. \A v \in Users \ overlapped', l, m \in Decisions :
        LetThrough(l, v)' /\ LetThrough(m, v)' => l = m
  BY <1>1, <1>2, <1>5, <1>6 DEF DecisionInv
<1>10. QED
  BY <1>2, <1>7, <1>8, <1>9 DEF DecisionInv, DecidedOnce

LEMMA WriteDecisionOnce ==
    ASSUME TypeInv, DecisionInv, NEW k \in Kinds, WriteDecision(k)
    PROVE  DecisionInv'
<1> DEFINE u == call[k].user
<1>1. k \in Decisions /\ u \in Users /\ LetThrough(k, u)
  BY DEF WriteDecision, LetThrough, TypeInv, CallType
<1>2. /\ overlapped' = overlapped
      /\ taken'[u] = taken[u] + 1
      /\ \A v \in Users \ {u} : taken'[v] = taken[v]
      /\ taken[u] \in Nat
  BY <1>1 DEF WriteDecision, TypeInv, ServerType
<1>3. /\ row'[u] # "pending"
      /\ \A v \in Users \ {u} : row'[v] = row[v]
  BY <1>1 DEF WriteDecision, OwnWrite, TypeInv, ServerType
<1>4. \A l \in Decisions \ {k} : call'[l] = call[l]
  BY DecisionsInKinds DEF WriteDecision, OwnWrite, TypeInv, CallType
<1>5. call'[k].pc # "checked"
  BY DEF WriteDecision, OwnWrite, TypeInv, CallType, Calls, Idle
<1> HIDE DEF u
<1>6. \A l \in Decisions, v \in Users : LetThrough(l, v)' => l # k /\ LetThrough(l, v)
  BY <1>4, <1>5 DEF LetThrough
<1>7. \A v \in Users \ overlapped', l \in Decisions : LetThrough(l, v)' => v # u
  BY <1>1, <1>2, <1>6 DEF DecisionInv
<1>8. \A v \in Users \ overlapped', l \in Decisions : LetThrough(l, v)' => taken'[v] = 0
  BY <1>2, <1>6, <1>7 DEF DecisionInv
<1>9. \A v \in Users : row'[v] = "pending" => taken'[v] = 0
  BY <1>2, <1>3 DEF DecisionInv
<1>10. DecidedOnce'
  <2>1. u \notin overlapped => taken[u] = 0
    BY <1>1 DEF DecisionInv
  <2>2. u \notin overlapped => taken'[u] = 1
    BY <1>2, <2>1
  <2>3. QED
    BY <1>1, <1>2, <2>2 DEF DecisionInv, DecidedOnce
<1>11. QED
  BY <1>2, <1>6, <1>8, <1>9, <1>10 DEF DecisionInv

LEMMA OtherDecision ==
    ASSUME TypeInv, DecisionInv, NEW u \in Users, NEW k \in Kinds \ {"role"}, OtherAdmin(u, k)
    PROVE  DecisionInv'
<1>1. k \in {"approve", "unban", "reject", "ban"}
  BY DEF Kinds, Dialogs
<1>2. /\ row'[u] # "pending"
      /\ \A v \in Users \ {u} : row'[v] = row[v]
  BY <1>1 DEF OtherAdmin, TypeInv, ServerType
<1>3. \A l \in Decisions, v \in Users : LetThrough(l, v)' <=> LetThrough(l, v)
  BY DEF OtherAdmin, LetThrough
<1>4. /\ overlapped \subseteq overlapped'
      /\ \A l \in Decisions : LetThrough(l, u) => u \in overlapped'
  BY DEF OtherAdmin, LetThrough
<1>5. \A v \in Users \ {u} : taken'[v] = taken[v]
  BY DEF OtherAdmin, TypeInv, ServerType
<1>6. taken'[u] > 1 => taken[u] > 1
  <2>1. CASE k \in Decisions
    <3>1. taken[u] = 0
      BY <2>1 DEF OtherAdmin, DecisionInv
    <3>2. taken'[u] = 1
      BY <2>1, <3>1 DEF OtherAdmin, TypeInv, ServerType
    <3>3. QED
      BY <3>2
  <2>2. CASE k \notin Decisions
    BY <2>2 DEF OtherAdmin
  <2>3. QED
    BY <2>1, <2>2
<1>7. \A v \in Users \ overlapped', l \in Decisions : LetThrough(l, v)' => taken'[v] = 0
  BY <1>3, <1>4, <1>5 DEF DecisionInv
<1>8. \A v \in Users : row'[v] = "pending" => taken'[v] = 0
  BY <1>2, <1>5 DEF DecisionInv
<1>9. \A v \in Users \ overlapped', l, m \in Decisions :
        LetThrough(l, v)' /\ LetThrough(m, v)' => l = m
  BY <1>3, <1>4 DEF DecisionInv
<1>10. DecidedOnce'
  BY <1>4, <1>5, <1>6 DEF DecisionInv, DecidedOnce
<1>11. QED
  BY <1>7, <1>8, <1>9, <1>10 DEF DecisionInv

LEMMA StepDecision == TypeInv /\ DecisionInv /\ [Next]_vars => DecisionInv'
<1> SUFFICES ASSUME TypeInv, DecisionInv, [Next]_vars PROVE DecisionInv'
  OBVIOUS
<1>1. CASE Confirm
  BY <1>1, MutateDecision DEF Confirm, TypeInv, PageType, Kinds
<1>2. ASSUME NEW u \in Users, Approve(u) PROVE DecisionInv'
  BY <1>2, MutateDecision DEF Approve, Kinds
<1>3. ASSUME UNCHANGED <<row, call, taken, overlapped>> PROVE DecisionInv'
  BY <1>3, NoDecision DEF LetThrough
<1>4. ASSUME NEW u \in Users, OpenFromAll(u) \/ OpenReject(u) PROVE DecisionInv'
  BY <1>3, <1>4 DEF OpenFromAll, OpenReject, Open
<1>5. CASE TypeReason \/ Cancel
  BY <1>3, <1>5 DEF TypeReason, Cancel
<1>6. ASSUME NEW q \in Queries, ReadQuery(q) \/ Arrive(q) \/ FetchFails(q) PROVE DecisionInv'
  BY <1>3, <1>6 DEF ReadQuery, Arrive, FetchFails
<1>7. CASE UNCHANGED vars
  BY <1>3, <1>7 DEF vars
<1>8. QED
  BY <1>1, <1>2, <1>4, <1>5, <1>6, <1>7, AnswerDecision, RunDecision, CheckDecision,
     WriteDecisionOnce, OtherDecision DEF Next

-----------------------------------------------------------------------------
IInv == TypeInv /\ ListsInv /\ ReasonInv /\ DecisionInv

LEMMA Invariance == Spec => []IInv
<1>1. Init => IInv
  <2>1. ASSUME Init PROVE ListsInv /\ ReasonInv
    BY <2>1 DEF Init, ListsInv, ReasonInv, Idle, Kinds, Dialogs
  <2>2. QED
    BY <2>1, InitialType, InitialDecision DEF IInv
<1>2. IInv /\ [Next]_vars => IInv'
  BY StepType, StepLists, StepReason, StepDecision DEF IInv
<1>3. QED
  BY <1>1, <1>2, PTL DEF Spec

\* The page's lists, dialogs and mutations and the server's bans stay within
\* the values AdminUsersPage, Better Auth and the approval handlers give them.
THEOREM TypeCorrect == Spec => []TypeOK
<1>1. IInv => TypeOK
  BY DEF IInv, TypeInv, ServerType, PageType, CallType, ShownType, TypeOK
<1>2. QED
  BY <1>1, Invariance, PTL

\* Whatever mutations and refetches overlap, a list at rest shows the page's own
\* last change, or its answer is still to come or something was lost: the
\* invalidation in each onSuccess of AdminUsersPage is enough.
THEOREM OwnActionsAreShown == Spec => []OwnActionsShown
<1>1. IInv => OwnActionsShown
  BY DEF IInv, ListsInv, AnswerToCome, OwnActionsShown
<1>2. QED
  BY <1>1, Invariance, PTL

\* AdminUsersPage never sends the reason typed for one user with the rejection
\* of another.
THEOREM ReasonsReachTheirUser == Spec => []ReasonIsForThatUser
<1>1. IInv => ReasonIsForThatUser
  BY DEF IInv, ReasonInv, ReasonIsForThatUser
<1>2. QED
  BY <1>1, Invariance, PTL

\* approveUser and rejectUser decide a sign-up once, except when two decisions
\* both passed the check before either wrote.
THEOREM SignUpsAreDecidedOnce == Spec => []DecidedOnce
<1>1. IInv => DecidedOnce
  BY DEF IInv, DecisionInv
<1>2. QED
  BY <1>1, Invariance, PTL

-----------------------------------------------------------------------------
(***************************************************************************)
(* Client, the browser at work, for any number of requests, sessions and   *)
(* tokens: type correctness, and that a refused token is explained.        *)
(***************************************************************************)
USE SessionAssumption

LEMMA NoTokenType == NoToken \in Tokens
BY DEF NoToken, Tokens

LEMMA ClientInitialType == ClientInit => ClientTypeOK
<1> SUFFICES ASSUME ClientInit PROVE ClientTypeOK
  OBVIOUS
<1>1. NoToken \in Tokens /\ 0 \in 0..MaxSessions /\ 0 \in 0..MaxTokens
  BY NoTokenType
<1>2. IdleRequest \in RequestStates
  BY <1>1 DEF IdleRequest, RequestStates
<1>3. req \in [Requests -> RequestStates]
  BY <1>2 DEF ClientInit
<1>4. cookie = 0 /\ sessions = 0
  BY DEF ClientInit
<1>5. cookie \in 0..sessions
  BY <1>4
<1>6. QED
  BY <1>1, <1>3, <1>5 DEF ClientInit, ClientTypeOK, Protected, Public

\* A request's fields keep their types when one step changes some of them.
LEMMA RequestType ==
    ASSUME ClientTypeOK, NEW r \in Requests, NEW q \in RequestStates,
           req' = [req EXCEPT ![r] = q]
    PROVE  req' \in [Requests -> RequestStates]
BY DEF ClientTypeOK

LEMMA NewSessionType ==
    ASSUME ClientTypeOK, NewSession
    PROVE  /\ sessions' \in 0..MaxSessions /\ live' \subseteq 1..sessions'
           /\ cookie' \in 0..sessions' /\ cached' \in BOOLEAN
           /\ blame' \subseteq {"switch", "twin"}
<1>1. sessions \in Nat /\ sessions' = sessions + 1 /\ sessions < MaxSessions
  BY DEF ClientTypeOK, NewSession
<1>2. sessions' \in 0..MaxSessions
  BY <1>1 DEF ClientTypeOK
<1>3. live' \subseteq 1..sessions' /\ cookie' \in 0..sessions'
  BY <1>1 DEF ClientTypeOK, NewSession
<1>4. QED
  BY <1>2, <1>3 DEF ClientTypeOK, NewSession

LEMMA BrowserType ==
    ASSUME ClientTypeOK,
           \/ LoadSession \/ Bounce \/ LeaveLogin \/ FollowRedirect \/ Reload
           \/ SignIn \/ SessionSignal \/ OtherTabSignsIn \/ Revoke \/ CacheExpires
           \/ SubscriptionChanges \/ OtherTabToken
           \/ \E p \in Protected \cup {"pricing"} : GoTo(p)
    PROVE  ClientTypeOK'
<1> USE DEF browser, server, place
<1>1. CASE LoadSession
  <2>1. cookie' = cookie \/ cookie' = 0
    BY <1>1, Zenon DEF LoadSession
  <2>2. cookie' \in 0..sessions
    BY <2>1 DEF ClientTypeOK
  <2>3. cached' \in BOOLEAN /\ store' \in {"unknown", "out", "in"}
    BY <1>1, Zenon DEF LoadSession
  <2>4. QED
    BY <1>1, <2>2, <2>3 DEF LoadSession, ClientTypeOK
<1>2. CASE Bounce \/ LeaveLogin \/ \E p \in Protected \cup {"pricing"} : GoTo(p)
  <2>1. /\ at' \in Protected \cup Public /\ want' \in Protected \cup {"pricing", "none"}
        /\ UNCHANGED <<sessions, live, paid, tokens, cookie, cached, csrf, store, leaving, token,
                       req, blame>>
    BY <1>2 DEF Bounce, LeaveLogin, GoTo, ClientTypeOK, Protected, Public
  <2>2. QED
    BY <2>1 DEF ClientTypeOK
<1>3. ASSUME NEW p \in Protected \cup Public, Load(p, want) PROVE ClientTypeOK'
  <2>1. NoToken \in Tokens
    BY NoTokenType
  <2>2. IdleRequest \in RequestStates
    BY <2>1 DEF IdleRequest, RequestStates
  <2>3. req' \in [Requests -> RequestStates] /\ token' \in Tokens
    BY <1>3, <2>1, <2>2 DEF Load
  <2>4. QED
    BY <1>3, <2>3 DEF Load, ClientTypeOK
<1>4. CASE FollowRedirect \/ Reload
  BY <1>3, <1>4 DEF FollowRedirect, Reload, ClientTypeOK
<1>5. CASE SignIn \/ OtherTabSignsIn
  BY <1>5, NewSessionType DEF SignIn, OtherTabSignsIn, ClientTypeOK
<1>6. CASE SessionSignal \/ Revoke \/ CacheExpires \/ SubscriptionChanges
  BY <1>6 DEF SessionSignal, Revoke, CacheExpires, SubscriptionChanges, ClientTypeOK
<1>7. CASE OtherTabToken
  <2>1. csrf' \in Tokens /\ tokens' \in 0..MaxTokens
    BY <1>7 DEF OtherTabToken, TokenFor, ClientTypeOK
  <2>2. QED
    BY <1>7, <2>1 DEF OtherTabToken, ClientTypeOK
<1>8. QED
  BY <1>1, <1>2, <1>4, <1>5, <1>6, <1>7

LEMMA RequestStepType ==
    ASSUME ClientTypeOK, NEW r \in Requests,
           \/ \E write \in BOOLEAN : Ask(r, write)
           \/ MakeToken(r) \/ TokenArrives(r) \/ TokenLost(r) \/ Serve(r) \/ Answer(r)
    PROVE  ClientTypeOK'
<1> USE DEF browser, server, place
<1>1. NoToken \in Tokens
  BY NoTokenType
<1>2. IdleRequest \in RequestStates
  BY <1>1 DEF IdleRequest, RequestStates
<1>3. req[r] \in RequestStates /\ req[r].token \in Tokens
  BY DEF ClientTypeOK, RequestStates
<1>4. ASSUME NEW write \in BOOLEAN, Ask(r, write) PROVE ClientTypeOK'
  <2>1. PICK q \in RequestStates : req' = [req EXCEPT ![r] = q]
    BY <1>1, <1>4 DEF Ask, RequestStates, IdleRequest, ClientTypeOK
  <2>2. req' \in [Requests -> RequestStates]
    BY <2>1, RequestType
  <2>3. QED
    BY <1>4, <2>2 DEF Ask, ClientTypeOK
<1>5. CASE MakeToken(r)
  <2>1. PICK t \in Tokens : /\ TokenFor(t)
                            /\ req' = [req EXCEPT ![r].pc = "fetched", ![r].token = t]
    BY <1>5 DEF MakeToken
  <2>2. [req[r] EXCEPT !.pc = "fetched", !.token = t] \in RequestStates
    BY <1>3 DEF RequestStates
  <2>3. req' = [req EXCEPT ![r] = [req[r] EXCEPT !.pc = "fetched", !.token = t]]
    BY <2>1
  <2>4. req' \in [Requests -> RequestStates]
    BY <2>2, <2>3, RequestType
  <2>5. tokens' \in 0..MaxTokens
    BY <2>1 DEF TokenFor, ClientTypeOK
  <2>6. QED
    BY <1>5, <2>4, <2>5 DEF MakeToken, ClientTypeOK
<1>6. CASE TokenArrives(r)
  <2>1. req' \in [Requests -> RequestStates]
    BY <1>3, <1>6 DEF TokenArrives, ClientTypeOK, RequestStates
  <2>2. QED
    BY <1>3, <1>6, <2>1 DEF TokenArrives, ClientTypeOK
<1>7. CASE Serve(r)
  <2>1. PICK status \in {"ok", "401", "paywall", "csrf"} :
           req' = [req EXCEPT ![r].pc = "answered", ![r].status = status]
    BY <1>7 DEF Serve
  <2>2. req' \in [Requests -> RequestStates]
    BY <1>3, <2>1 DEF ClientTypeOK, RequestStates
  <2>3. QED
    BY <1>7, <2>2 DEF Serve, ClientTypeOK
<1>8. CASE TokenLost(r) \/ Answer(r)
  <2>1. req' \in [Requests -> RequestStates]
    BY <1>2, <1>8, RequestType DEF TokenLost, Answer
  <2>2. QED
    BY <1>8, <2>1 DEF TokenLost, Answer, ClientTypeOK, Protected, Public
<1>9. QED
  BY <1>4, <1>5, <1>6, <1>7, <1>8

LEMMA ClientStepType == ClientTypeOK /\ [ClientNext]_clientVars => ClientTypeOK'
<1> SUFFICES ASSUME ClientTypeOK, [ClientNext]_clientVars PROVE ClientTypeOK'
  OBVIOUS
<1>1. CASE ClientNext
  BY <1>1, BrowserType, RequestStepType DEF ClientNext
<1>2. CASE UNCHANGED clientVars
  BY <1>2 DEF clientVars, browser, server, place, ClientTypeOK
<1>3. QED
  BY <1>1, <1>2

\* The page, its requests, the other tabs and the server keep every variable
\* of Client in its type.
THEOREM ClientTypeCorrect == ClientSpec => []ClientTypeOK
<1>1. ClientInit => ClientTypeOK
  BY ClientInitialType
<1>2. ClientTypeOK /\ [ClientNext]_clientVars => ClientTypeOK'
  BY ClientStepType
<1>3. QED
  BY <1>1, <1>2, PTL DEF ClientSpec

-----------------------------------------------------------------------------
(***************************************************************************)
(* Refusals.  That a refusal is explained is not inductive: why a token is *)
(* good when its request is served goes back to when it was fetched.  The  *)
(* page has neither token nor request until the store says "in", so a      *)
(* cookie that is only now found out to be dead harms nothing; and without *)
(* blame the page's copy is the cookie's token and good, the requests that *)
(* wait to be served carry it, and one request at most is fetching a token *)
(* while the page has none.                                                *)
(***************************************************************************)
Asking(r) == req[r].pc \in {"fetching", "fetched"}
WaitingWrite(r) == req[r].pc = "ready" /\ req[r].write

Refusable(r) == req[r].write /\ ~(req[r].token = csrf /\ Good(csrf))

QuietPage == token = NoToken /\ \A r \in Requests : req[r].pc = "idle"

Answered == \A r \in Requests : req[r].status # "none" => req[r].pc = "answered"

Agreed ==
    /\ token # NoToken => token = csrf /\ Good(csrf)
    /\ \A r \in Requests :
         /\ Asking(r) => token = NoToken
         /\ req[r].pc = "fetched" => Good(req[r].token)
         /\ WaitingWrite(r) => token # NoToken /\ req[r].token = token
    /\ \A r, q \in Requests : Asking(r) /\ Asking(q) => r = q

TokenInv ==
    /\ store # "in" => QuietPage
    /\ Answered
    /\ RefusalExplained
    /\ blame = {} => Agreed

\* The page starts, and starts again after a load, without a token or a request.
LEMMA QuietPageKeeps ==
    ASSUME token' = NoToken, req' = [r \in Requests |-> IdleRequest]
    PROVE  TokenInv'
<1>1. QuietPage' /\ \A r \in Requests : req'[r].pc = "idle" /\ req'[r].status = "none"
  BY DEF QuietPage, IdleRequest, NoToken
<1>2. Answered' /\ RefusalExplained'
  BY <1>1 DEF Answered, RefusalExplained
<1>3. Agreed'
  BY <1>1 DEF Agreed, QuietPage, Asking, WaitingWrite
<1>4. QED
  BY <1>1, <1>2, <1>3 DEF TokenInv

\* Where the store may leave and enter "in", and where the cookie of the session
\* may change, there is nothing to be spoilt; elsewhere the blame is laid.
LEMMA QuietStays ==
    ASSUME TokenInv, QuietPage, UNCHANGED <<token, req>>
    PROVE  TokenInv'
<1>1. QuietPage' /\ Answered'
  BY DEF TokenInv, QuietPage, Answered
<1>2. RefusalExplained'
  BY <1>1 DEF QuietPage, Answered, RefusalExplained
<1>3. Agreed'
  BY <1>1 DEF QuietPage, Agreed, Asking, WaitingWrite, NoToken
<1>4. QED
  BY <1>1, <1>2, <1>3 DEF TokenInv

LEMMA NewSessionKeeps ==
    ASSUME ClientTypeOK, TokenInv, NewSession, UNCHANGED <<token, req, store>>
    PROVE  TokenInv'
<1>1. CASE token = NoToken /\ \A r \in Requests : req[r].pc = "idle"
  BY <1>1, QuietStays DEF QuietPage
<1>2. CASE ~(token = NoToken /\ \A r \in Requests : req[r].pc = "idle")
  <2>1. blame' = blame \cup {"switch"}
    BY <1>2 DEF NewSession
  <2>2. blame' # {}
    BY <2>1
  <2>3. QED
    BY <2>2 DEF TokenInv, QuietPage, Answered, RefusalExplained
<1>3. QED
  BY <1>1, <1>2

LEMMA TokenStutter ==
    ASSUME TokenInv, UNCHANGED <<cookie, csrf, store, token, req, blame>>
    PROVE  TokenInv'
<1>1. Agreed => Agreed'
  BY DEF Agreed, Asking, WaitingWrite, Good, Identifier
<1>2. QED
  BY <1>1 DEF TokenInv, QuietPage, Answered, RefusalExplained

LEMMA BrowserKeeps ==
    ASSUME ClientTypeOK, TokenInv,
           \/ LoadSession \/ Bounce \/ LeaveLogin \/ FollowRedirect \/ Reload
           \/ SignIn \/ SessionSignal \/ OtherTabSignsIn \/ Revoke \/ CacheExpires
           \/ SubscriptionChanges
           \/ \E p \in Protected \cup {"pricing"} : GoTo(p)
    PROVE  TokenInv'
<1> USE DEF browser, server, place
<1>1. CASE LoadSession
  <2>1. QuietPage /\ UNCHANGED <<token, req>>
    BY <1>1 DEF LoadSession, TokenInv
  <2>2. QED
    BY <2>1, QuietStays
<1>2. CASE SessionSignal
  <2>1. QuietPage /\ UNCHANGED <<token, req>>
    BY <1>2 DEF SessionSignal, TokenInv
  <2>2. QED
    BY <2>1, QuietStays
<1>3. CASE FollowRedirect \/ Reload
  BY <1>3, QuietPageKeeps DEF FollowRedirect, Reload, Load
<1>4. CASE SignIn \/ OtherTabSignsIn
  <2>1. NewSession /\ UNCHANGED <<token, req, store>>
    BY <1>4 DEF SignIn, OtherTabSignsIn
  <2>2. QED
    BY <2>1, NewSessionKeeps
<1>5. CASE \/ Bounce \/ LeaveLogin \/ Revoke \/ CacheExpires \/ SubscriptionChanges
           \/ \E p \in Protected \cup {"pricing"} : GoTo(p)
  <2>1. UNCHANGED <<cookie, csrf, store, token, req, blame>>
    BY <1>5 DEF Bounce, LeaveLogin, Revoke, CacheExpires, SubscriptionChanges, GoTo
  <2>2. QED
    BY <2>1, TokenStutter
<1>6. QED
  BY <1>1, <1>2, <1>3, <1>4, <1>5

\* The server hands out good tokens only.
LEMMA TokensAreGood ==
    ASSUME ClientTypeOK, NEW t, TokenFor(t)
    PROVE  Good(t)
BY DEF ClientTypeOK, TokenFor, Good, NoToken

\* Another tab's token replaces the cookie's only if that is no good, and then
\* the page has no copy of it.
LEMMA OtherTabTokenKeeps ==
    ASSUME ClientTypeOK, TokenInv, OtherTabToken
    PROVE  TokenInv'
<1>1. PICK t \in Tokens : TokenFor(t) /\ csrf' = t
  BY DEF OtherTabToken
<1>2. UNCHANGED <<cookie, store, token, req, blame>>
  BY DEF OtherTabToken, place
<1>3. Agreed => Agreed'
  <2>1. Good(csrf) => csrf' = csrf
    BY <1>1 DEF TokenFor
  <2>2. Agreed => (token # NoToken => token = csrf' /\ Good(csrf)')
    BY <1>2, <2>1 DEF Agreed, Good, Identifier
  <2>3. QED
    BY <1>2, <2>2 DEF Agreed, Asking, WaitingWrite, Good, Identifier
<1>4. QED
  BY <1>2, <1>3 DEF TokenInv, QuietPage, Answered, RefusalExplained

-----------------------------------------------------------------------------
(***************************************************************************)
(* One request.  What the step of a request leaves of it, q, and the       *)
(* others untouched.                                                       *)
(***************************************************************************)
Becomes(r, q) == req' = [req EXCEPT ![r] = q] /\ UNCHANGED <<cookie, store>>

LEMMA BecomesOne ==
    ASSUME ClientTypeOK, NEW r \in Requests, NEW q, Becomes(r, q)
    PROVE  req'[r] = q /\ \A o \in Requests : o # r => req'[o] = req[o]
BY DEF ClientTypeOK, Becomes

LEMMA AskKeeps ==
    ASSUME ClientTypeOK, TokenInv, NEW r \in Requests, NEW write \in BOOLEAN, Ask(r, write)
    PROVE  TokenInv'
<1> DEFINE fetches == write /\ token = NoToken
           new == [IdleRequest EXCEPT !.pc = IF fetches THEN "fetching" ELSE "ready",
                                 !.write = write, !.token = IF write THEN token ELSE NoToken]
<1>1. UNCHANGED <<cookie, csrf, store, token>> /\ store = "in" /\ Becomes(r, new)
  BY DEF Ask, browser, place, Becomes
<1>2. new.status = "none"
  BY DEF IdleRequest
<1>3. fetches => new.pc = "fetching"
  BY DEF IdleRequest
<1>4. ~fetches => new.pc = "ready"
  BY DEF IdleRequest
<1>5. ~fetches /\ new.write => new.token = token /\ token # NoToken
  BY DEF IdleRequest
<1> HIDE DEF new
<1>6. req'[r] = new /\ \A o \in Requests : o # r => req'[o] = req[o]
  BY <1>1, BecomesOne
<1>7. blame \subseteq blame'
  BY DEF Ask
<1>8. Answered' /\ RefusalExplained'
  BY <1>2, <1>6, <1>7 DEF TokenInv, Answered, RefusalExplained
<1>9. ASSUME blame' = {} PROVE Agreed'
  <2>1. Agreed
    BY <1>7, <1>9 DEF TokenInv
  <2>2. CASE fetches
    <3>1. \A o \in Requests : ~Asking(o)
      BY <1>9, <2>2, Zenon DEF Ask, Asking
    <3>2. \A o \in Requests : Asking(o)' => o = r
      BY <1>6, <3>1 DEF Asking
    <3>3. new.pc = "fetching" /\ token = NoToken
      BY <1>3, <2>2
    <3> HIDE DEF fetches
    <3>4. QED
      BY <1>1, <1>6, <2>1, <3>2, <3>3 DEF Agreed, Asking, WaitingWrite, Good, Identifier
  <2> HIDE DEF fetches
  <2>3. CASE ~fetches
    BY <1>1, <1>4, <1>5, <1>6, <2>1, <2>3 DEF Agreed, Asking, WaitingWrite, Good, Identifier
  <2>4. QED
    BY <2>2, <2>3
<1>10. QED
  BY <1>1, <1>8, <1>9 DEF TokenInv

LEMMA MakeTokenKeeps ==
    ASSUME ClientTypeOK, TokenInv, NEW r \in Requests, MakeToken(r)
    PROVE  TokenInv'
<1>1. PICK t \in Tokens :
        TokenFor(t) /\ req' = [req EXCEPT ![r].pc = "fetched", ![r].token = t]
  BY DEF MakeToken
<1>2. UNCHANGED <<cookie, csrf, store, token, blame>> /\ req[r].pc = "fetching"
  BY DEF MakeToken, browser, place
<1>3. /\ req'[r].pc = "fetched" /\ req'[r].token = t /\ req'[r].status = req[r].status
      /\ \A o \in Requests : o # r => req'[o] = req[o]
  BY <1>1 DEF ClientTypeOK, RequestStates
<1>4. Good(t) /\ Good(t)'
  BY <1>1, <1>2, TokensAreGood DEF Good, Identifier
<1>5. store = "in" /\ req[r].status = "none"
  BY <1>2 DEF TokenInv, QuietPage, Answered
<1>6. Answered' /\ RefusalExplained'
  BY <1>2, <1>3, <1>5 DEF TokenInv, Answered, RefusalExplained
<1>7. Agreed => Agreed'
  BY <1>2, <1>3, <1>4 DEF Agreed, Asking, WaitingWrite, Good, Identifier
<1>8. QED
  BY <1>2, <1>5, <1>6, <1>7 DEF TokenInv

\* The one request that fetches a token gives it to the page and the cookie.
LEMMA TokenArrivesKeeps ==
    ASSUME ClientTypeOK, TokenInv, NEW r \in Requests, TokenArrives(r)
    PROVE  TokenInv'
<1>1. /\ req[r].pc = "fetched" /\ csrf' = req[r].token /\ token' = req[r].token
      /\ UNCHANGED <<cookie, store, blame>>
  BY DEF TokenArrives, place
<1>2. /\ req'[r].pc = "ready" /\ req'[r].token = req[r].token
      /\ req'[r].status = req[r].status
      /\ \A o \in Requests : o # r => req'[o] = req[o]
  BY DEF TokenArrives, ClientTypeOK, RequestStates
<1>3. store = "in" /\ req[r].status = "none"
  BY <1>1 DEF TokenInv, QuietPage, Answered
<1>4. Answered' /\ RefusalExplained'
  BY <1>1, <1>2, <1>3 DEF TokenInv, Answered, RefusalExplained
<1>5. ASSUME Agreed PROVE Agreed'
  <2>1. token = NoToken /\ Good(req[r].token) /\ \A o \in Requests : Asking(o) => o = r
    BY <1>1, <1>5 DEF Agreed, Asking
  <2>2. \A o \in Requests : ~Asking(o)'
    BY <1>2, <2>1 DEF Asking
  <2>3. \A o \in Requests : o # r => ~WaitingWrite(o)'
    BY <1>2, <1>5, <2>1 DEF Agreed, WaitingWrite
  <2>4. token' # NoToken /\ token' = csrf' /\ Good(csrf)'
    BY <1>1, <2>1 DEF Good, Identifier
  <2>5. QED
    BY <1>1, <1>2, <2>2, <2>3, <2>4 DEF Agreed, Asking
<1>6. QED
  BY <1>1, <1>3, <1>4, <1>5 DEF TokenInv

\* Without blame a write that is served carries the cookie's token, a good one.
LEMMA ServeKeeps ==
    ASSUME ClientTypeOK, TokenInv, NEW r \in Requests, Serve(r)
    PROVE  TokenInv'
<1>1. UNCHANGED <<cookie, csrf, store, token, blame>> /\ req[r].pc = "ready"
  BY DEF Serve, browser, place
<1>2. PICK status \in {"ok", "401", "paywall", "csrf"} :
                   /\ req' = [req EXCEPT ![r].pc = "answered", ![r].status = status]
                   /\ status = "csrf" => Refusable(r)
  BY DEF Serve, Refusable
<1>3. /\ req'[r].pc = "answered" /\ req'[r].status = status
      /\ \A o \in Requests : o # r => req'[o] = req[o]
  BY <1>2 DEF ClientTypeOK, RequestStates
<1>4. store = "in"
  BY <1>1 DEF TokenInv, QuietPage
<1>5. Answered'
  BY <1>3 DEF TokenInv, Answered
<1>6. Agreed => status # "csrf"
  <2>1. Agreed => ~Refusable(r)
    BY <1>1, Zenon DEF Agreed, WaitingWrite, Refusable
  <2>2. QED
    BY <1>2, <2>1
<1>7. RefusalExplained'
  BY <1>1, <1>3, <1>6 DEF TokenInv, RefusalExplained
<1>8. Agreed => Agreed'
  BY <1>1, <1>3 DEF Agreed, Asking, WaitingWrite, Good, Identifier
<1>9. QED
  BY <1>1, <1>4, <1>5, <1>7, <1>8 DEF TokenInv

LEMMA EndKeeps ==
    ASSUME ClientTypeOK, TokenInv, NEW r \in Requests, TokenLost(r) \/ Answer(r)
    PROVE  TokenInv'
<1>1. /\ UNCHANGED <<cookie, csrf, store, token, blame>> /\ req[r].pc # "idle"
      /\ Becomes(r, IdleRequest)
  BY DEF TokenLost, Answer, browser, place, Becomes
<1>2. /\ req'[r].pc = "idle" /\ req'[r].status = "none"
      /\ \A o \in Requests : o # r => req'[o] = req[o]
  BY <1>1, BecomesOne DEF IdleRequest
<1>3. store = "in"
  BY <1>1 DEF TokenInv, QuietPage
<1>4. Answered' /\ RefusalExplained'
  BY <1>1, <1>2 DEF TokenInv, Answered, RefusalExplained
<1>5. Agreed => Agreed'
  BY <1>1, <1>2 DEF Agreed, Asking, WaitingWrite, Good, Identifier
<1>6. QED
  BY <1>1, <1>3, <1>4, <1>5 DEF TokenInv

LEMMA TokenStepKeeps == ClientTypeOK /\ TokenInv /\ [ClientNext]_clientVars => TokenInv'
<1> SUFFICES ASSUME ClientTypeOK, TokenInv, [ClientNext]_clientVars PROVE TokenInv'
  OBVIOUS
<1>1. ASSUME NEW r \in Requests,
             \/ \E write \in BOOLEAN : Ask(r, write)
             \/ MakeToken(r) \/ TokenArrives(r) \/ TokenLost(r) \/ Serve(r)
             \/ Answer(r)
      PROVE  TokenInv'
  BY <1>1, AskKeeps, MakeTokenKeeps, TokenArrivesKeeps, ServeKeeps, EndKeeps
<1>2. CASE UNCHANGED clientVars
  BY <1>2, TokenStutter DEF clientVars, browser, server, place
<1>3. QED
  BY <1>1, <1>2, BrowserKeeps, OtherTabTokenKeeps DEF ClientNext

LEMMA TokensInitially == ClientInit => TokenInv
<1> SUFFICES ASSUME ClientInit PROVE TokenInv
  OBVIOUS
<1>1. token = NoToken /\ \A r \in Requests : req[r].pc = "idle" /\ req[r].status = "none"
  BY DEF ClientInit, IdleRequest
<1>2. QED
  BY <1>1 DEF TokenInv, QuietPage, Answered, RefusalExplained, Agreed, Asking, WaitingWrite

\* However requests, other tabs, reloads and sign-ins interleave, a write is
\* refused for its CSRF token only if the session cookie has changed under the
\* page since it first asked for a token, or two of its requests asked at once.
THEOREM RefusalsAreExplained == ClientSpec => []RefusalExplained
<1>1. ClientInit => ClientTypeOK /\ TokenInv
  BY ClientInitialType, TokensInitially
<1>2. (ClientTypeOK /\ TokenInv) /\ [ClientNext]_clientVars => (ClientTypeOK /\ TokenInv)'
  BY ClientStepType, TokenStepKeeps
<1>3. ClientTypeOK /\ TokenInv => RefusalExplained
  BY DEF TokenInv
<1>4. QED
  BY <1>1, <1>2, <1>3, PTL DEF ClientSpec
=============================================================================
