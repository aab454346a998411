---------------------------- MODULE Entitlement ----------------------------
(***************************************************************************)
(* What the paywall promises about one organization, whatever sits between *)
(* it and the database: an answer to "is this org paid up?" may lag behind *)
(* the Subscription row and the trial window, by a bounded time and never  *)
(* in a way no recent state supports.                                      *)
(*                                                                         *)
(* Time is counted in ticks.  The row's recent past is kept as the time    *)
(* since it was last live and the time since it was last not live: 0 for   *)
(* what holds now, and neither is counted past the window.                 *)
(***************************************************************************)
EXTENDS Integers

CONSTANTS
    Readers,        \* calls of getOrgSubscriptionInfo that may be in progress
    Window,         \* how many ticks an answer may lag
    TrialLength     \* ticks from the start to Organization.trialEndsAt

VARIABLES
    live,           \* the organization's row has a live status
    trialLeft,      \* ticks until trialEndsAt; 0 or less once it is past
    sinceLive,      \* ticks since the row was last live
    sinceDead,      \* ticks since the row was last not live
    answer          \* what each call has just answered, or "none"

vars == <<live, trialLeft, sinceLive, sinceDead, answer>>

Answers == {"paid", "trial", "expired"}

TypeOK ==
    /\ live \in BOOLEAN
    /\ trialLeft \in (-Window)..TrialLength
    /\ sinceLive \in 0..(Window + 1)
    /\ sinceDead \in 0..(Window + 1)
    /\ answer \in [Readers -> Answers \cup {"none"}]

(***************************************************************************)
(* The answers the last Window ticks support.  A trial that has ended      *)
(* never comes back: a refusal requires that it is over now.               *)
(***************************************************************************)
Supported(a) ==
    CASE a = "paid"    -> sinceLive <= Window
      [] a = "trial"   -> sinceDead <= Window /\ trialLeft > -Window
      [] a = "expired" -> sinceDead <= Window /\ trialLeft <= 0

Older(n) == IF n > Window THEN n ELSE n + 1

Init ==
    /\ live = FALSE
    /\ trialLeft = TrialLength
    /\ sinceLive = Window + 1
    /\ sinceDead = 0
    /\ answer = [r \in Readers |-> "none"]

\* The webhook writes the row.
ChangeRow ==
    /\ live' = ~live
    /\ sinceLive' = IF live' THEN 0 ELSE sinceLive
    /\ sinceDead' = IF live' THEN sinceDead ELSE 0
    /\ UNCHANGED <<trialLeft, answer>>

\* A call returns: any supported answer will do.
Answer(r) ==
    /\ answer[r] = "none"
    /\ \E a \in Answers : Supported(a) /\ answer' = [answer EXCEPT ![r] = a]
    /\ UNCHANGED <<live, trialLeft, sinceLive, sinceDead>>

\* Requests end, one by one or all together when the process dies.
Forget(S) ==
    /\ answer' = [r \in Readers |-> IF r \in S THEN "none" ELSE answer[r]]
    /\ UNCHANGED <<live, trialLeft, sinceLive, sinceDead>>

\* An answer is of its own tick: the next one finds it delivered.
Tick ==
    /\ trialLeft' = IF trialLeft > -Window THEN trialLeft - 1 ELSE trialLeft
    /\ sinceLive' = IF live THEN 0 ELSE Older(sinceLive)
    /\ sinceDead' = IF live THEN Older(sinceDead) ELSE 0
    /\ answer' = [r \in Readers |-> "none"]
    /\ UNCHANGED live

Next ==
    \/ ChangeRow
    \/ Tick
    \/ \E r \in Readers : Answer(r)
    \/ \E S \in SUBSET Readers : Forget(S)

Spec == Init /\ [][Next]_vars

=============================================================================
