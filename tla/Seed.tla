-------------------------------- MODULE Seed --------------------------------
(***************************************************************************)
(* The development seed (prisma/seed.ts): one script of awaited writes     *)
(* without a transaction, which may be stopped anywhere, run again, or run *)
(* twice at once, on a database people work with meanwhile.                *)
(*                                                                         *)
(* A row is its key and who had the last word on it; what a person wrote   *)
(* into it is left out.  Users, organizations, members, the invitation and *)
(* the subscriptions are upserts that leave an existing row alone; the     *)
(* credentials are looked up first and then updated or inserted; projects  *)
(* have no key, so every run makes its own copies.  Whoever may delete a   *)
(* row in the application, or in the database, is one of the people.       *)
(***************************************************************************)
EXTENDS Integers, Sequences

CONSTANTS
    Runs,           \* executions of the script
    MaxEdits        \* bound on what people do to the rows

ASSUME BoundAssumption == MaxEdits \in Nat

VARIABLES
    row,        \* [Keys -> who wrote the row last, or "absent"]
    copies,     \* project rows: which project, by which run
    tasked,     \* those that have their tasks
    pc,         \* [Runs -> the next step of the script]
    state,      \* [Runs -> "idle", "running", "failed" or "done"]
    looked,     \* [Runs -> what the lookup of a credential found]
    lost,       \* [Runs -> keys the run has the id of, and that are touched]
    edits,      \* number of edits so far
    \* history, for the properties only
    touched,    \* keys people have changed or deleted since a run wrote them
    dropped     \* project rows people have deleted

vars == <<row, copies, tasked, pc, state, looked, lost, edits, touched, dropped>>

User(u) == <<"user", u>>
Credential(u) == <<"credential", u>>
Organization(o) == <<"organization", o>>
Member(o, u) == <<"member", o, u>>
Invitation(o) == <<"invitation", o>>
Subscription(o) == <<"subscription", o>>
Project(p) == <<"project", p>>
Tasks == <<"tasks">>

People == {"admin", "user1", "user2", "user3"}
Tenants == {"acme", "techStartup"}
Teams == {Member(o, u) : o \in Tenants, u \in {"user1", "user2"}}
Keys == {User(u) : u \in People} \cup {Credential(u) : u \in People}
        \cup {Organization(o) : o \in Tenants} \cup Teams
        \cup {Subscription(o) : o \in Tenants} \cup {Invitation("acme")}

\* The project's organization; the last project is personal.
HomeOf == [project1 |-> "acme", project2 |-> "acme", project3 |-> "techStartup",
           project4 |-> "none"]
Projects == DOMAIN HomeOf

\* The rows whose ids a row holds: foreign keys, all with onDelete: Cascade.
Needs(k) ==
    CASE k[1] = "credential"                      -> {User(k[2])}
      [] k[1] = "member"                          -> {Organization(k[2]), User(k[3])}
      [] k[1] \in {"invitation", "subscription"}  -> {Organization(k[2])}
      [] OTHER                                    -> {}

Script ==
    << User("admin"), Credential("admin"), User("user1"), Credential("user1"),
       User("user2"), Credential("user2"), User("user3"), Credential("user3"),
       Organization("acme"), Member("acme", "user1"), Member("acme", "user2"),
       Organization("techStartup"), Member("techStartup", "user2"), Member("techStartup", "user1"),
       Invitation("acme"), Project("project1"), Project("project2"), Project("project3"),
       Project("project4"), Tasks,
       Subscription("acme"), Subscription("techStartup") >>

TypeOK ==
    /\ row \in [Keys -> {"absent", "seed", "people"}]
    /\ copies \subseteq Projects \X Runs /\ tasked \subseteq copies
    /\ pc \in [Runs -> 1..(Len(Script) + 1)]
    /\ state \in [Runs -> {"idle", "running", "failed", "done"}]
    /\ looked \in [Runs -> {"not", "found", "missing"}]
    /\ lost \in [Runs -> SUBSET Keys]
    /\ edits \in 0..MaxEdits /\ touched \subseteq Keys /\ dropped \subseteq Projects \X Runs

\* A fresh database, or one where people have signed up under seeded emails.
Init ==
    /\ row \in [Keys -> {"absent", "people"}]
    /\ \A k \in Keys : row[k] = "people" => k \in {User("user1"), Credential("user1")}
    /\ row[User("user1")] = row[Credential("user1")]
    /\ copies = {} /\ tasked = {}
    /\ pc = [r \in Runs |-> 1] /\ state = [r \in Runs |-> "idle"]
    /\ looked = [r \in Runs |-> "not"] /\ lost = [r \in Runs |-> {}]
    /\ edits = 0 /\ touched = {} /\ dropped = {}

-----------------------------------------------------------------------------
(***************************************************************************)
(* The script.                                                             *)
(***************************************************************************)
At(r, step) == state[r] = "running" /\ pc[r] <= Len(Script) /\ Script[pc[r]] = step

Start(r) ==
    /\ state[r] = "idle"
    /\ state' = [state EXCEPT ![r] = "running"]
    /\ UNCHANGED <<row, copies, tasked, pc, looked, lost, edits, touched, dropped>>

Advance(r) ==
    /\ pc' = [pc EXCEPT ![r] = @ + 1]
    /\ looked' = [looked EXCEPT ![r] = "not"]
    /\ state' = [state EXCEPT ![r] = IF pc[r] = Len(Script) THEN "done" ELSE "running"]

Write(k) == row' = [row EXCEPT ![k] = "seed"] /\ touched' = touched \ {k}

\* The ids the run holds still name rows.
Holds(r, k) == Needs(k) \cap lost[r] = {}

\* upsert with update: {}.  The id it returns is the present row's.
Upsert(r, k) ==
    /\ k[1] # "credential" /\ At(r, k) /\ Holds(r, k)
    /\ IF row[k] = "absent" THEN Write(k) ELSE UNCHANGED <<row, touched>>
    /\ lost' = [lost EXCEPT ![r] = @ \ {k}]
    /\ Advance(r)
    /\ UNCHANGED <<copies, tasked, edits, dropped>>

\* setCredentialPassword: hash, look the account up, then update or create.
FindCredential(r, k) ==
    /\ At(r, k) /\ k[1] = "credential" /\ looked[r] = "not"
    /\ looked' = [looked EXCEPT ![r] =
         IF row[k] # "absent" /\ Holds(r, k) THEN "found" ELSE "missing"]
    /\ UNCHANGED <<row, copies, tasked, pc, state, lost, edits, touched, dropped>>

\* Mutant: like the other rows, an existing password is left alone.
KeepPassword(r, k) ==
    /\ At(r, k) /\ looked[r] # "not" /\ Holds(r, k)
    /\ looked[r] = "found" <=> row[k] # "absent"
    /\ IF looked[r] = "missing" THEN Write(k) ELSE UNCHANGED <<row, touched>>
    /\ Advance(r)
    /\ UNCHANGED <<copies, tasked, lost, edits, dropped>>

\* An update needs the row found; an insert, that there be none (unique on
\* issuer and accountId) and that the user is still there.
SetPassword(r, k) ==
    /\ At(r, k) /\ looked[r] # "not" /\ Holds(r, k)
    /\ looked[r] = "found" <=> row[k] # "absent"
    /\ Write(k)
    /\ Advance(r)
    /\ UNCHANGED <<copies, tasked, lost, edits, dropped>>

CreateProject(r, p) ==
    /\ At(r, Project(p))
    /\ HomeOf[p] # "none" => Organization(HomeOf[p]) \notin lost[r]
    /\ copies' = copies \cup {<<p, r>>}
    /\ Advance(r)
    /\ UNCHANGED <<row, tasked, lost, edits, touched, dropped>>

\* Mutant: no foreign key from tasks to projects.
CreateTasksBlindly(r) ==
    /\ At(r, Tasks)
    /\ tasked' = tasked \cup (Projects \X {r})
    /\ Advance(r)
    /\ UNCHANGED <<row, copies, lost, edits, touched, dropped>>

\* One createMany: all the tasks or none, and none if a project has gone.
CreateTasks(r) ==
    /\ At(r, Tasks) /\ \A p \in Projects : <<p, r>> \in copies
    /\ tasked' = tasked \cup (Projects \X {r})
    /\ Advance(r)
    /\ UNCHANGED <<row, copies, lost, edits, touched, dropped>>

\* A failed write ends the script, and so does whoever stops it.  Nothing is
\* undone.
Fail(r) ==
    /\ state[r] = "running"
    /\ state' = [state EXCEPT ![r] = "failed"]
    /\ looked' = [looked EXCEPT ![r] = "not"]
    /\ UNCHANGED <<row, copies, tasked, pc, lost, edits, touched, dropped>>

-----------------------------------------------------------------------------
(***************************************************************************)
(* People at work on the same database.                                    *)
(***************************************************************************)
Edit == edits < MaxEdits /\ edits' = edits + 1

Change(k) ==
    /\ Edit /\ row[k] = "seed"
    /\ row' = [row EXCEPT ![k] = "people"]
    /\ touched' = touched \cup {k}
    /\ UNCHANGED <<copies, tasked, pc, state, looked, lost, dropped>>

Delete(k) ==
    LET taken == {j \in Keys : j = k \/ k \in Needs(j)}
        spared == {c \in copies : Organization(HomeOf[c[1]]) # k} IN
    /\ Edit /\ row[k] # "absent"
    /\ row' = [j \in Keys |-> IF j \in taken THEN "absent" ELSE row[j]]
    /\ touched' = touched \cup taken
    /\ lost' = [r \in Runs |-> lost[r] \cup taken]
    /\ copies' = spared /\ tasked' = tasked \cap spared
    /\ dropped' = dropped \cup (copies \ spared)
    /\ UNCHANGED <<pc, state, looked>>

\* Any project, and with it its tasks: by an owner of its organization, and if it
\* is personal, by its creator or an administrator.
DeleteProject(c) ==
    /\ Edit /\ c \in copies
    /\ copies' = copies \ {c} /\ tasked' = tasked \ {c}
    /\ dropped' = dropped \cup {c}
    /\ UNCHANGED <<row, pc, state, looked, lost, touched>>

\* A sign-up under a seeded address: a new user with another id.
SignUp(u) ==
    /\ Edit /\ row[User(u)] = "absent"
    /\ row' = [row EXCEPT ![User(u)] = "people", ![Credential(u)] = "people"]
    /\ touched' = touched \cup {User(u), Credential(u)}
    /\ UNCHANGED <<copies, tasked, pc, state, looked, lost, dropped>>

Next ==
    \/ \E r \in Runs :
         \/ Start(r) \/ CreateTasks(r) \/ Fail(r)
         \/ \E k \in Keys : Upsert(r, k) \/ FindCredential(r, k) \/ SetPassword(r, k)
         \/ \E p \in Projects : CreateProject(r, p)
    \/ \E k \in Keys : Change(k) \/ Delete(k)
    \/ \E c \in Projects \X Runs : DeleteProject(c)
    \/ \E u \in People : SignUp(u)

Spec == Init /\ [][Next]_vars

-----------------------------------------------------------------------------
(***************************************************************************)
(* Properties.                                                             *)
(***************************************************************************)

\* The row as every run leaves it; a password is set whatever it was.
AsLeft(k) == row[k] # "absent" /\ (k[1] = "credential" => row[k] = "seed")

\* A run that reports success leaves the whole data set, whatever earlier runs
\* left half done and whatever ran beside it: every row, the passwords as
\* README.md:122 has them, and each of its own projects with its tasks, except
\* for what people have changed or deleted since.
Complete ==
    \A r \in Runs : state[r] = "done" =>
        /\ \A k \in Keys : AsLeft(k) \/ k \in touched
        /\ \A p \in Projects :
             IF <<p, r>> \in copies THEN <<p, r>> \in tasked ELSE <<p, r>> \in dropped
=============================================================================
