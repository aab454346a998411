----------------------------- MODULE Seed_proofs -----------------------------
(***************************************************************************)
(* Proofs about Seed, for any number of runs and edits: type correctness,  *)
(* and that a run that reports success leaves the whole data set, with the *)
(* seed's passwords, but for what people have changed or deleted since.    *)
(***************************************************************************)
EXTENDS Seed, TLAPS

USE BoundAssumption

-----------------------------------------------------------------------------
(***************************************************************************)
(* The script: 22 steps, one for each key; the tasks come at the twentieth *)
(* and after the projects.                                                 *)
(***************************************************************************)
LEMMA ScriptLength == Len(Script) = 22
BY DEF Script

LEMMA TasksAreLate ==
    ASSUME NEW i \in 1..22
    PROVE  /\ Script[i] = Tasks => i = 20
           /\ \A p \in Projects : Script[i] = Project(p) => i < 20
BY DEF Script, Tasks, Project, User, Credential, Organization, Member, Invitation, Subscription

LEMMA KeysAreScripted ==
    ASSUME NEW k \in Keys
    PROVE  \E i \in 1..22 : Script[i] = k
<1>1. CASE \E u \in People : k = User(u)
  BY <1>1 DEF People, Script
<1>2. CASE \E u \in People : k = Credential(u)
  BY <1>2 DEF People, Script
<1>3. CASE \E o \in Tenants : k = Organization(o) \/ k = Subscription(o)
  BY <1>3 DEF Tenants, Script
<1>4. CASE k \in Teams
  BY <1>4 DEF Teams, Tenants, Script
<1>5. CASE k = Invitation("acme")
  BY <1>5 DEF Script
<1>6. QED
  BY <1>1, <1>2, <1>3, <1>4, <1>5 DEF Keys

LEMMA NotKeys ==
    /\ Tasks \notin Keys
    /\ \A p \in Projects : Project(p) \notin Keys
    /\ Organization("none") \notin Keys
BY DEF Keys, Teams, Tenants, People, Tasks, Project, User, Credential, Organization, Member,
       Invitation, Subscription

-----------------------------------------------------------------------------
(***************************************************************************)
(* Types.                                                                  *)
(***************************************************************************)
LEMMA InitialType == Init => TypeOK
BY ScriptLength DEF Init, TypeOK

LEMMA AdvanceType ==
    ASSUME TypeOK, NEW r \in Runs, pc[r] <= Len(Script), Advance(r)
    PROVE  /\ pc' \in [Runs -> 1..(Len(Script) + 1)]
           /\ looked' \in [Runs -> {"not", "found", "missing"}]
           /\ state' \in [Runs -> {"idle", "running", "failed", "done"}]
BY ScriptLength DEF Advance, TypeOK

LEMMA WriteType ==
    ASSUME TypeOK, NEW k \in Keys, Write(k) \/ UNCHANGED <<row, touched>>
    PROVE  row' \in [Keys -> {"absent", "seed", "people"}] /\ touched' \subseteq Keys
BY DEF Write, TypeOK

LEMMA RunType ==
    ASSUME TypeOK, NEW r \in Runs, NEW k \in Keys,
           Upsert(r, k) \/ FindCredential(r, k) \/ SetPassword(r, k)
    PROVE  TypeOK'
<1>1. CASE Upsert(r, k)
  BY <1>1, AdvanceType, WriteType DEF Upsert, At, TypeOK
<1>2. CASE FindCredential(r, k)
  BY <1>2 DEF FindCredential, TypeOK
<1>3. CASE SetPassword(r, k)
  BY <1>3, AdvanceType, WriteType DEF SetPassword, At, TypeOK
<1>4. QED
  BY <1>1, <1>2, <1>3

LEMMA ProjectType ==
    ASSUME TypeOK, NEW r \in Runs, CreateTasks(r) \/ \E p \in Projects : CreateProject(r, p)
    PROVE  TypeOK'
<1>1. ASSUME NEW p \in Projects, CreateProject(r, p) PROVE TypeOK'
  BY <1>1, AdvanceType DEF CreateProject, At, TypeOK
<1>2. CASE CreateTasks(r)
  BY <1>2, AdvanceType DEF CreateTasks, At, TypeOK
<1>3. QED
  BY <1>1, <1>2

LEMMA EditType ==
    ASSUME TypeOK, NEW k \in Keys, Change(k) \/ Delete(k)
    PROVE  TypeOK'
<1>1. CASE Change(k)
  BY <1>1 DEF Change, Edit, TypeOK
<1>2. CASE Delete(k)
  BY <1>2 DEF Delete, Edit, TypeOK
<1>3. QED
  BY <1>1, <1>2

LEMMA SignUpType ==
    ASSUME TypeOK, NEW u \in People, SignUp(u)
    PROVE  TypeOK'
<1>1. row' \in [Keys -> {"absent", "seed", "people"}]
  BY DEF SignUp, TypeOK
<1>2. edits' \in 0..MaxEdits
  BY DEF SignUp, Edit, TypeOK
<1>3. touched' \subseteq Keys
  BY DEF SignUp, Keys, TypeOK
<1>4. QED
  BY <1>1, <1>2, <1>3 DEF SignUp, TypeOK

LEMMA StepType == TypeOK /\ [Next]_vars => TypeOK'
<1> SUFFICES ASSUME TypeOK, [Next]_vars PROVE TypeOK'
  OBVIOUS
<1>1. ASSUME NEW r \in Runs, Start(r) \/ Fail(r) PROVE TypeOK'
  BY <1>1 DEF Start, Fail, TypeOK
<1>2. CASE UNCHANGED vars
  BY <1>2 DEF vars, TypeOK
<1>3. ASSUME NEW c \in Projects \X Runs, DeleteProject(c) PROVE TypeOK'
  BY <1>3 DEF DeleteProject, Edit, TypeOK
<1>4. QED
  BY <1>1, <1>2, <1>3, RunType, ProjectType, EditType, SignUpType DEF Next

-----------------------------------------------------------------------------
(***************************************************************************)
(* What a run has behind it.  Each row it has passed is as it left it, or  *)
(* people have touched it since; past the tasks, each of its projects has  *)
(* them or was deleted by people; it is done at the end only.              *)
(***************************************************************************)
Passed == \A r \in Runs, i \in 1..22 :
              i < pc[r] /\ Script[i] \in Keys => AsLeft(Script[i]) \/ Script[i] \in touched

\* A project of r that is not there is one people have deleted.
Dropped(r, p) == <<p, r>> \in copies \/ <<p, r>> \in dropped

Finished(r) == \A p \in Projects :
                   Dropped(r, p) /\ (<<p, r>> \in copies => <<p, r>> \in tasked)

Behind == Passed /\ \A r \in Runs : (pc[r] > 20 => Finished(r)) /\ (state[r] = "done" => pc[r] = 23)

\* A lookup is under way at a credential only.
LookedInv == \A r \in Runs : looked[r] # "not" =>
                 pc[r] <= Len(Script) /\ Script[pc[r]][1] = "credential"

LEMMA InitialBehind == Init => Behind /\ LookedInv
BY DEF Init, Behind, Passed, LookedInv

\* No step changes a row for another without a trace.
LEMMA Traces ==
    ASSUME TypeOK, LookedInv, [Next]_vars, NEW k \in Keys, AsLeft(k) \/ k \in touched
    PROVE  AsLeft(k)' \/ k \in touched'
<1>1. ASSUME NEW r \in Runs, NEW j \in Keys, Upsert(r, j) \/ SetPassword(r, j)
      PROVE  AsLeft(k)' \/ k \in touched'
  <2>1. CASE j = k /\ Write(k)
    BY <2>1 DEF Write, AsLeft, TypeOK
  <2>2. CASE j # k /\ Write(j)
    BY <2>2 DEF Write, AsLeft, TypeOK
  <2>3. CASE UNCHANGED <<row, touched>>
    BY <2>3 DEF AsLeft
  <2>4. QED
    BY <1>1, <2>1, <2>2, <2>3 DEF Upsert, SetPassword
<1>2. ASSUME UNCHANGED <<row, touched>> PROVE AsLeft(k)' \/ k \in touched'
  BY <1>2 DEF AsLeft
<1>3. ASSUME NEW r \in Runs,
             \/ Start(r) \/ CreateTasks(r) \/ Fail(r)
             \/ \E j \in Keys : FindCredential(r, j)
             \/ \E p \in Projects : CreateProject(r, p)
      PROVE  AsLeft(k)' \/ k \in touched'
  BY <1>2, <1>3 DEF Start, CreateTasks, Fail, FindCredential, CreateProject
<1>4. ASSUME NEW j \in Keys, Change(j) PROVE AsLeft(k)' \/ k \in touched'
  BY <1>4 DEF Change, AsLeft, TypeOK
<1>5. ASSUME NEW j \in Keys, Delete(j) PROVE AsLeft(k)' \/ k \in touched'
  BY <1>5 DEF Delete, AsLeft, TypeOK
<1>6. ASSUME NEW u \in People, SignUp(u) PROVE AsLeft(k)' \/ k \in touched'
  BY <1>6 DEF SignUp, AsLeft, TypeOK
<1>7. ASSUME NEW c \in Projects \X Runs, DeleteProject(c) PROVE AsLeft(k)' \/ k \in touched'
  BY <1>2, <1>7 DEF DeleteProject
<1>8. CASE UNCHANGED vars
  BY <1>2, <1>8 DEF vars
<1>9. QED
  BY <1>1, <1>3, <1>4, <1>5, <1>6, <1>7, <1>8 DEF Next

\* A run passes a row only once it is as every run leaves it.
LEMMA Passes ==
    ASSUME TypeOK, [Next]_vars, NEW r \in Runs, pc'[r] # pc[r]
    PROVE  /\ pc[r] \in 1..22 /\ pc'[r] = pc[r] + 1
           /\ \A k \in Keys : Script[pc[r]] = k => AsLeft(k)'
           /\ pc[r] = 20 => CreateTasks(r)
           /\ state'[r] = "done" => pc'[r] = 23
<1>1. ASSUME NEW s \in Runs, UNCHANGED pc PROVE FALSE
  BY <1>1
<1>2. ASSUME NEW s \in Runs, At(s, Script[pc[s]]), Advance(s)
      PROVE  /\ s = r /\ pc[r] \in 1..22 /\ pc'[r] = pc[r] + 1
             /\ state'[r] = "done" => pc'[r] = 23
  BY <1>2, ScriptLength DEF At, Advance, TypeOK
<1>3. ASSUME NEW s \in Runs, NEW k \in Keys, Upsert(s, k) \/ SetPassword(s, k)
      PROVE  s = r /\ Script[pc[r]] = k /\ AsLeft(k)' /\ At(s, Script[pc[s]]) /\ Advance(s)
  <2>1. At(s, Script[pc[s]]) /\ Advance(s) /\ Script[pc[s]] = k
    BY <1>3 DEF Upsert, SetPassword, At
  <2>2. AsLeft(k)'
    BY <1>3 DEF Upsert, SetPassword, Write, AsLeft, TypeOK
  <2>3. QED
    BY <1>2, <2>1, <2>2
<1>4. ASSUME NEW s \in Runs, NEW p \in Projects, CreateProject(s, p)
      PROVE  s = r /\ Script[pc[r]] = Project(p) /\ At(s, Script[pc[s]]) /\ Advance(s)
  BY <1>2, <1>4 DEF CreateProject, At
<1>5. ASSUME NEW s \in Runs, CreateTasks(s)
      PROVE  s = r /\ Script[pc[r]] = Tasks /\ At(s, Script[pc[s]]) /\ Advance(s)
  BY <1>2, <1>5 DEF CreateTasks, At
<1>6. Script[20] = Tasks
  BY DEF Script
<1>7. \/ \E k \in Keys : Upsert(r, k) \/ SetPassword(r, k)
      \/ \E p \in Projects : CreateProject(r, p)
      \/ CreateTasks(r)
  BY <1>3, <1>4, <1>5 DEF Next, vars, Start, Fail, FindCredential, Change, Delete,
                            DeleteProject, SignUp
<1>8. At(r, Script[pc[r]]) /\ Advance(r)
  BY <1>3, <1>4, <1>5, <1>7
<1>9. \A k \in Keys : Script[pc[r]] = k => AsLeft(k)'
  BY <1>3, <1>4, <1>5, <1>7, NotKeys
<1>10. pc[r] = 20 => CreateTasks(r)
  BY <1>3, <1>4, <1>6, <1>7, NotKeys, TasksAreLate
<1>11. QED
  BY <1>2, <1>8, <1>9, <1>10

LEMMA StepPassed == TypeOK /\ Behind /\ LookedInv /\ [Next]_vars => Passed'
<1> SUFFICES ASSUME TypeOK, Behind, LookedInv, [Next]_vars, NEW r \in Runs, NEW i \in 1..22,
                    i < pc'[r], Script[i] \in Keys
             PROVE  AsLeft(Script[i])' \/ Script[i] \in touched'
  BY DEF Passed
<1>1. CASE i < pc[r]
  BY <1>1, Traces DEF Behind, Passed
<1>2. CASE ~(i < pc[r])
  <2>1. pc'[r] # pc[r]
    BY <1>2
  <2>2. i = pc[r]
    BY <1>2, <2>1, Passes
  <2>3. QED
    BY <2>1, <2>2, Passes
<1>3. QED
  BY <1>1, <1>2

LEMMA StepFinished ==
    ASSUME TypeOK, Behind, [Next]_vars, NEW r \in Runs, pc'[r] > 20
    PROVE  Finished(r)'
<1>1. CASE CreateTasks(r)
  BY <1>1 DEF CreateTasks, Finished, Dropped
<1>2. CASE ~CreateTasks(r)
  <2>1. pc[r] > 20 /\ pc[r] \in 1..23
    BY <1>2, Passes, ScriptLength DEF TypeOK
  <2>2. Finished(r)
    BY <2>1 DEF Behind
  <2>3. ASSUME UNCHANGED <<copies, tasked, dropped>> PROVE Finished(r)'
    BY <2>2, <2>3 DEF Finished, Dropped
  <2>4. ASSUME NEW s \in Runs, NEW p \in Projects, CreateProject(s, p) PROVE Finished(r)'
    <3>1. s # r
      BY <2>1, <2>4, TasksAreLate, ScriptLength DEF CreateProject, At
    <3>2. QED
      BY <2>2, <2>4, <3>1 DEF CreateProject, Finished, Dropped
  <2>5. ASSUME NEW s \in Runs, CreateTasks(s) PROVE Finished(r)'
    BY <2>2, <2>5 DEF CreateTasks, Finished, Dropped
  <2>6. ASSUME NEW k \in Keys, Delete(k) PROVE Finished(r)'
    <3> DEFINE spared == {c \in copies : Organization(HomeOf[c[1]]) # k}
    <3>1. /\ copies' = spared /\ tasked' = tasked \cap spared
          /\ dropped' = dropped \cup (copies \ spared)
          /\ spared \subseteq copies
      BY <2>6 DEF Delete
    <3> HIDE DEF spared
    <3>2. ASSUME NEW p \in Projects
          PROVE  Dropped(r, p)' /\ (<<p, r>> \in copies' => <<p, r>> \in tasked')
      BY <2>2, <3>1 DEF Finished, Dropped
    <3>3. QED
      BY <3>2 DEF Finished
  <2>7. ASSUME NEW c \in Projects \X Runs, DeleteProject(c) PROVE Finished(r)'
    BY <2>2, <2>7 DEF DeleteProject, Finished, Dropped
  <2>8. QED
    BY <2>3, <2>4, <2>5, <2>6, <2>7
    DEF Next, vars, Start, Fail, Upsert, FindCredential, SetPassword, Change, SignUp
<1>3. QED
  BY <1>1, <1>2

LEMMA StepDone ==
    ASSUME TypeOK, Behind, [Next]_vars, NEW r \in Runs, state'[r] = "done"
    PROVE  pc'[r] = 23
<1>1. CASE pc'[r] # pc[r]
  BY <1>1, Passes
<1>2. CASE pc'[r] = pc[r]
  <2>1. ASSUME NEW s \in Runs, pc[s] <= Len(Script), Advance(s) PROVE UNCHANGED state[r]
    BY <1>2, <2>1, ScriptLength DEF Advance, TypeOK
  <2>2. ASSUME NEW s \in Runs, Start(s) \/ Fail(s) PROVE UNCHANGED state[r]
    BY <2>2 DEF Start, Fail, TypeOK
  <2>3. UNCHANGED state[r]
    BY <2>1, <2>2
    DEF Next, vars, Upsert, FindCredential, SetPassword, CreateProject, CreateTasks, At, Change,
        Delete, DeleteProject, SignUp
  <2>4. QED
    BY <1>2, <2>3 DEF Behind
<1>3. QED
  BY <1>1, <1>2

LEMMA StepBehind == TypeOK /\ Behind /\ LookedInv /\ [Next]_vars => Behind'
BY StepPassed, StepFinished, StepDone DEF Behind

LEMMA StepLooked == TypeOK /\ LookedInv /\ [Next]_vars => LookedInv'
<1> SUFFICES ASSUME TypeOK, LookedInv, [Next]_vars PROVE LookedInv'
  OBVIOUS
<1>1. ASSUME NEW r \in Runs, Advance(r) PROVE LookedInv'
  BY <1>1 DEF Advance, LookedInv, TypeOK
<1>2. ASSUME NEW r \in Runs, NEW k \in Keys, FindCredential(r, k) PROVE LookedInv'
  BY <1>2 DEF FindCredential, At, LookedInv, TypeOK
<1>3. ASSUME NEW r \in Runs, Fail(r) PROVE LookedInv'
  BY <1>3 DEF Fail, LookedInv, TypeOK
<1>4. ASSUME UNCHANGED <<pc, looked>> PROVE LookedInv'
  BY <1>4 DEF LookedInv
<1>5. QED
  BY <1>1, <1>2, <1>3, <1>4
  DEF Next, vars, Start, Upsert, SetPassword, CreateProject, CreateTasks, Change, Delete, DeleteProject,
      SignUp

-----------------------------------------------------------------------------
IInv == TypeOK /\ Behind /\ LookedInv

LEMMA Invariance == Spec => []IInv
<1>1. Init => IInv
  BY InitialType, InitialBehind DEF IInv
<1>2. IInv /\ [Next]_vars => IInv'
  BY StepType, StepBehind, StepLooked DEF IInv
<1>3. QED
  BY <1>1, <1>2, PTL DEF Spec

\* The rows and the runs of prisma/seed.ts stay within their values, and no task
\* is without its project.
THEOREM TypeCorrect == Spec => []TypeOK
BY Invariance, PTL DEF IInv

\* A run of the seed that reports success leaves every row, the seed's passwords
\* and its own projects with their tasks, but for what people have changed or
\* deleted since, whatever was half done before it and whatever ran beside it.
THEOREM SuccessIsComplete == Spec => []Complete
<1>1. IInv => Complete
  <2> SUFFICES ASSUME IInv, NEW r \in Runs, state[r] = "done"
               PROVE  Finished(r) /\ \A k \in Keys : AsLeft(k) \/ k \in touched
    BY DEF Complete, Finished, Dropped
  <2>1. pc[r] = 23
    BY DEF IInv, Behind
  <2>2. Finished(r)
    BY <2>1 DEF IInv, Behind
  <2>3. ASSUME NEW k \in Keys PROVE AsLeft(k) \/ k \in touched
    BY <2>1, KeysAreScripted DEF IInv, Behind, Passed
  <2>4. QED
    BY <2>2, <2>3
<1>2. QED
  BY <1>1, Invariance, PTL
=============================================================================
