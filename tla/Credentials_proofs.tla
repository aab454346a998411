------------------------- MODULE Credentials_proofs -------------------------
(***************************************************************************)
(* Proofs about Credentials, for any inputs and any number of visits: type *)
(* correctness, that what a form reports as done has been done, and that   *)
(* what was done through a form used once is reported; and, from           *)
(* BillingPage on, about the billing page.  The two share no variable; a   *)
(* proof about one uses nothing of the other.                              *)
(***************************************************************************)
EXTENDS Credentials, BillingPage, TLAPS

USE InputAssumption, VisitAssumption

-----------------------------------------------------------------------------
(***************************************************************************)
(* The inductive invariant speaks of one form at a time: as long as a call *)
(* is under way the form shows what it sent, and a form used once is ready *)
(* for a call only if the server has done nothing, an answer was lost, or  *)
(* an account was made without its email.                                  *)
(***************************************************************************)
WaitsWithItsInput(f) ==
    /\ call[f] # "none" =>
           form[f].pending /\ form[f].sent # None /\ form[f].sent = form[f].field
    /\ call[f] = "taken" => done[f] = form[f].sent
    /\ f \in Replaced /\ form[f].success => call[f] = "none"

Truthful(f) ==
    /\ form[f].success => Shown(f) = done[f] /\ done[f] # None
    /\ f = "change" /\ form[f].success => form[f].field = None

Excused(f) == lost[f] \/ (f = "signup" /\ unsent[f])

Reported(f) ==
    f \in UsedOnce =>
        /\ call[f] \in {"out", "refused"} => done[f] = None \/ Excused(f)
        /\ done[f] # None => form[f].pending \/ form[f].success \/ Excused(f)

Sound(f) == WaitsWithItsInput(f) /\ Truthful(f) /\ Reported(f)

IInv == TypeOK /\ \A f \in Forms : Sound(f)

-----------------------------------------------------------------------------
(***************************************************************************)
(* One form at a time.                                                     *)
(***************************************************************************)
LEMMA FreshIsComponent ==
    ASSUME NEW field \in Inputs \cup {None}
    PROVE  Fresh(field) \in Components
BY Zenon DEF Fresh, Components

\* A form nothing has happened to is sound.
LEMMA FreshIsSound ==
    ASSUME NEW f \in Forms, form[f].pending = FALSE, form[f].success = FALSE,
           call[f] = "none", done[f] = None
    PROVE  Sound(f)
BY DEF Sound, WaitsWithItsInput, Truthful, Reported, Excused

LEMMA UntouchedStaysSound ==
    ASSUME NEW f \in Forms, Sound(f), form'[f] = form[f], call'[f] = call[f],
           done'[f] = done[f], lost'[f] = lost[f], unsent'[f] = unsent[f]
    PROVE  Sound(f)'
BY DEF Sound, WaitsWithItsInput, Truthful, Reported, Excused, Shown

\* A step of form f leaves the other forms alone, and f too unless its page is open.
OnlyForm(f) ==
    /\ form' \in [Forms -> Components] /\ call' \in [Forms -> Calls]
    /\ done' \in [Forms -> Inputs \cup {None}] /\ lost' \in [Forms -> BOOLEAN]
    /\ unsent' \in [Forms -> BOOLEAN]
    /\ \A g \in Forms \ {f} : /\ form'[g] = form[g] /\ call'[g] = call[g]
                              /\ done'[g] = done[g] /\ lost'[g] = lost[g]
                              /\ unsent'[g] = unsent[g]
    /\ f \in at \/ (form'[f] = form[f] /\ call'[f] = call[f])
    /\ UNCHANGED <<visits, at>>
    /\ name' \in Inputs /\ store' \in Inputs /\ mailed' \in BOOLEAN /\ usedUp' \in BOOLEAN

LEMMA OneFormSteps ==
    ASSUME IInv, NEW f \in Forms, OnlyForm(f), Sound(f)'
    PROVE  IInv'
<1>1. \A g \in Forms \ {f} : Sound(g)'
  BY UntouchedStaysSound DEF IInv, OnlyForm
<1>2. \A g \in Forms \ at : form'[g] = Fresh(None) /\ call'[g] = "none"
  BY DEF IInv, TypeOK, OnlyForm
<1>3. TypeOK'
  BY <1>2 DEF IInv, TypeOK, OnlyForm, Fresh
<1>4. QED
  BY <1>1, <1>3 DEF IInv

\* A call under way belongs to a form on the page.
LEMMA CallIsOnThePage ==
    ASSUME IInv, NEW f \in Forms, call[f] # "none"
    PROVE  f \in at
BY DEF IInv, TypeOK

\* Sending: the form waits, with its input on the way.
LEMMA SendIsSound ==
    ASSUME IInv, NEW f \in Forms, NEW state \in Components, Ready(f),
           state.field = form[f].field,
           state.success => form[f].success /\ state.sent = form[f].sent /\ f # "change",
           Send(f, state)
    PROVE  IInv'
<1> DEFINE sending == [state EXCEPT !.pending = TRUE, !.error = FALSE, !.sent = state.field]
<1>1. sending \in Components
  BY DEF Components
<1>2. /\ form'[f] = sending /\ call'[f] = "out" /\ done'[f] = done[f] /\ lost'[f] = lost[f]
      /\ unsent'[f] = unsent[f] /\ OnlyForm(f)
  BY <1>1 DEF Send, OnlyForm, IInv, TypeOK, Calls, Ready, Open, server, history, visit
<1>3. Sound(f) /\ state.field # None
  BY DEF IInv, Ready
<1>4. WaitsWithItsInput(f)'
  <2>1. f \in Replaced => ~state.success
    BY DEF Ready, Open
  <2>2. QED
    BY <1>2, <1>3, <2>1 DEF WaitsWithItsInput, Components
<1>5. Truthful(f)'
  BY <1>2, <1>3 DEF Sound, Truthful, Shown, Components
<1>6. f \in UsedOnce => done[f] = None \/ Excused(f)
  BY <1>3 DEF Sound, Reported, Ready, Open, UsedOnce, Replaced
<1>7. Reported(f)'
  BY <1>2, <1>6 DEF Reported, Excused, Components
<1>8. QED
  BY <1>2, <1>4, <1>5, <1>7, OneFormSteps DEF Sound

-----------------------------------------------------------------------------
(***************************************************************************)
(* The invariant holds at first and is kept by every step.                 *)
(***************************************************************************)
LEMMA Initially == Init => IInv
<1> SUFFICES ASSUME Init PROVE IInv
  OBVIOUS
<1>1. Fresh(None) \in Components
  BY FreshIsComponent
<1>2. {"signup"} \in Pages
  BY DEF Pages, Replaced
<1>3. TypeOK
  <2>1. form \in [Forms -> Components] /\ call \in [Forms -> Calls]
    BY <1>1 DEF Init, Calls
  <2>2. /\ done \in [Forms -> Inputs \cup {None}] /\ lost \in [Forms -> BOOLEAN]
        /\ unsent \in [Forms -> BOOLEAN]
    BY DEF Init
  <2>3. \A f \in Forms \ at : form[f] = Fresh(None) /\ call[f] = "none"
    BY DEF Init
  <2>4. visits \in 0..MaxVisits /\ name \in Inputs /\ store \in Inputs
    BY DEF Init
  <2>5. at \in Pages /\ mailed \in BOOLEAN /\ usedUp \in BOOLEAN
    BY <1>2, Zenon DEF Init
  <2>6. QED
    BY <2>1, <2>2, <2>3, <2>4, <2>5, Zenon DEF TypeOK
<1>4. \A f \in Forms : Sound(f)
  BY FreshIsSound DEF Init, Fresh
<1>5. QED
  BY <1>3, <1>4 DEF IInv

LEMMA TakeKeeps ==
    ASSUME IInv, NEW f \in Forms, Take(f)
    PROVE  IInv'
<1>1. /\ Sound(f) /\ call[f] = "out" /\ form[f] \in Components
      /\ form[f].sent \in Inputs
  BY DEF IInv, TypeOK, Take, Takeable, Sound, WaitsWithItsInput, Components
<1>2. /\ OnlyForm(f) /\ form'[f] = form[f] /\ call'[f] = "taken" /\ lost'[f] = lost[f]
      /\ done'[f] = form[f].sent
  BY <1>1, CallIsOnThePage DEF Take, Takeable, OnlyForm, IInv, TypeOK, Calls
<1>3. Sound(f)'
  BY <1>1, <1>2 DEF Sound, WaitsWithItsInput, Truthful, Reported, Excused, Shown
<1>4. QED
  BY <1>2, <1>3, OneFormSteps

LEMMA RefuseKeeps ==
    ASSUME IInv, NEW f \in Forms, Refuse(f)
    PROVE  IInv'
<1>1. Sound(f) /\ call[f] = "out"
  BY DEF IInv, Refuse
<1>2. /\ OnlyForm(f) /\ form'[f] = form[f] /\ call'[f] = "refused" /\ lost'[f] = lost[f]
      /\ done'[f] = done[f] /\ unsent'[f] = unsent[f]
  BY <1>1, CallIsOnThePage DEF Refuse, OnlyForm, IInv, TypeOK, Calls, server, history
<1>3. Sound(f)'
  BY <1>1, <1>2 DEF Sound, WaitsWithItsInput, Truthful, Reported, Excused, Shown
<1>4. QED
  BY <1>2, <1>3, OneFormSteps

LEMMA TakeWithoutEmailKeeps ==
    ASSUME IInv, TakeWithoutEmail
    PROVE  IInv'
<1> DEFINE f == "signup"
<1>1. /\ f \in Forms /\ Sound(f) /\ call[f] = "out" /\ form[f] \in Components
      /\ form[f].sent \in Inputs
  BY DEF IInv, TypeOK, TakeWithoutEmail, Takeable, Sound, WaitsWithItsInput, Components, Forms
<1>2. /\ OnlyForm(f) /\ form'[f] = form[f] /\ call'[f] = "refused"
      /\ done'[f] = form[f].sent /\ unsent'[f] = TRUE
  BY <1>1, CallIsOnThePage
  DEF TakeWithoutEmail, Takeable, OnlyForm, IInv, TypeOK, Calls, server
<1>3. Excused(f)'
  BY <1>2 DEF Excused
<1>4. Sound(f)'
  BY <1>1, <1>2, <1>3 DEF Sound, WaitsWithItsInput, Truthful, Reported, Replaced
<1>5. QED
  BY <1>1, <1>2, <1>4, OneFormSteps

LEMMA AnswerKeeps ==
    ASSUME IInv, NEW f \in Forms, Answer(f)
    PROVE  IInv'
<1>1. Sound(f) /\ call[f] \in {"taken", "refused"} /\ form[f] \in Components
  BY DEF IInv, TypeOK, Answer
<1>2. /\ call'[f] = "none" /\ lost'[f] = lost[f] /\ done'[f] = done[f]
      /\ unsent'[f] = unsent[f]
  BY DEF Answer, IInv, TypeOK, history
<1>3. CASE call[f] = "refused"
  <2>1. form'[f] = [form[f] EXCEPT !.pending = FALSE, !.error = TRUE]
    BY <1>3 DEF Answer, IInv, TypeOK
  <2>2. form'[f] \in Components
    BY <1>1, <2>1 DEF Components
  <2>3. OnlyForm(f)
    BY <1>1, <2>2, CallIsOnThePage
    DEF Answer, OnlyForm, IInv, TypeOK, Calls, server, history, visit
  <2>4. Sound(f)'
    BY <1>1, <1>2, <1>3, <2>1
    DEF Sound, WaitsWithItsInput, Truthful, Reported, Excused, Shown, Components
  <2>5. QED
    BY <2>3, <2>4, OneFormSteps
<1>4. CASE call[f] = "taken"
  <2> DEFINE kept == IF f = "change" THEN None ELSE form[f].field
  <2>1. form'[f] = [form[f] EXCEPT !.pending = FALSE, !.success = TRUE, !.field = kept]
    BY <1>4 DEF Answer, IInv, TypeOK
  <2>2. form'[f] \in Components
    BY <1>1, <2>1 DEF Components
  <2>3. OnlyForm(f)
    BY <1>1, <2>2, CallIsOnThePage
    DEF Answer, OnlyForm, IInv, TypeOK, Calls, server, history, visit
  <2>4. Sound(f)'
    BY <1>1, <1>2, <1>4, <2>1
    DEF Sound, WaitsWithItsInput, Truthful, Reported, Excused, Shown, Components
  <2>5. QED
    BY <2>3, <2>4, OneFormSteps
<1>5. QED
  BY <1>1, <1>3, <1>4

LEMMA LoseAnswerKeeps ==
    ASSUME IInv, NEW f \in Forms, LoseAnswer(f)
    PROVE  IInv'
<1>1. Sound(f) /\ call[f] # "none" /\ form[f] \in Components
  BY DEF IInv, TypeOK, LoseAnswer
<1>2. call'[f] = "none" /\ lost'[f] = TRUE /\ done'[f] = done[f]
  BY DEF LoseAnswer, IInv, TypeOK
<1>3. CASE form' = [form EXCEPT ![f].pending = FALSE, ![f].error = TRUE]
  <2>1. form'[f] = [form[f] EXCEPT !.pending = FALSE, !.error = TRUE]
    BY <1>3 DEF IInv, TypeOK
  <2>2. form'[f] \in Components
    BY <1>1, <2>1 DEF Components
  <2>3. OnlyForm(f)
    BY <1>1, <1>3, <2>2, CallIsOnThePage
    DEF LoseAnswer, OnlyForm, IInv, TypeOK, Calls, server, visit
  <2>4. Sound(f)'
    BY <1>1, <1>2, <2>1
    DEF Sound, WaitsWithItsInput, Truthful, Reported, Excused, Shown, Components
  <2>5. QED
    BY <2>3, <2>4, OneFormSteps
<1>4. CASE UNCHANGED form
  <2>1. OnlyForm(f)
    BY <1>1, <1>4, CallIsOnThePage
    DEF LoseAnswer, OnlyForm, IInv, TypeOK, Calls, server, visit
  <2>2. Sound(f)'
    BY <1>1, <1>2, <1>4 DEF Sound, WaitsWithItsInput, Truthful, Reported, Excused, Shown
  <2>3. QED
    BY <2>1, <2>2, OneFormSteps
<1>5. QED
  BY <1>3, <1>4 DEF LoseAnswer

LEMMA TypeKeeps ==
    ASSUME IInv, NEW f \in Forms, NEW input \in Inputs, NEW agrees \in BOOLEAN,
           Type(f, input, agrees)
    PROVE  IInv'
<1> DEFINE typed == [form[f] EXCEPT !.field = input, !.agrees = agrees]
           state == IF f \in {"change", "name"}
                    THEN [typed EXCEPT !.invalid = FALSE, !.error = FALSE, !.success = FALSE]
                    ELSE typed
<1>1. /\ Sound(f) /\ form[f] \in Components
      /\ f \in at /\ ~form[f].pending /\ f # "verify"
      /\ f \in Replaced => ~form[f].success
  BY DEF IInv, TypeOK, Type, Editable, Open
<1>2. /\ form'[f] = state /\ call'[f] = call[f] /\ done'[f] = done[f] /\ lost'[f] = lost[f]
      /\ unsent'[f] = unsent[f]
  BY DEF Type, IInv, TypeOK, history
<1>3. typed \in Components
  BY <1>1 DEF Components
<1>4. state \in Components
  BY <1>3 DEF Components
<1>5. OnlyForm(f)
  BY <1>1, <1>2, <1>4 DEF Type, OnlyForm, IInv, TypeOK, server, history, visit
<1>6. ~state.success
  BY <1>1, <1>3 DEF Forms, Replaced, Components
<1>7. ~state.pending /\ call[f] = "none"
  BY <1>1, <1>3 DEF Components, Sound, WaitsWithItsInput
<1>8. f \in UsedOnce => done[f] = None \/ Excused(f)
  BY <1>1 DEF Sound, Reported, UsedOnce, Replaced
<1>9. Sound(f)'
  <2> HIDE DEF state
  <2> QED
    BY <1>2, <1>6, <1>7, <1>8 DEF Sound, WaitsWithItsInput, Truthful, Reported, Excused
<1>10. QED
  BY <1>5, <1>9, OneFormSteps

LEMMA SubmissionsKeep ==
    ASSUME IInv, (\E f \in Mutations : Mutate(f)) \/ SignUp \/ ChangePassword \/ UpdateUser
    PROVE  IInv'
<1>1. form \in [Forms -> Components]
  BY DEF IInv, TypeOK
<1>2. ASSUME NEW f \in Mutations, Mutate(f) PROVE IInv'
  <2>1. f \in Forms
    BY DEF Mutations, Forms
  <2>2. [form[f] EXCEPT !.success = FALSE] \in Components
    BY <1>1, <2>1 DEF Components
  <2>3. QED
    BY <1>1, <1>2, <2>1, <2>2, SendIsSound DEF Mutate, Components
<1>3. CASE SignUp
  BY <1>1, <1>3, SendIsSound DEF SignUp, Forms
<1>4. CASE UpdateUser
  BY <1>1, <1>4, SendIsSound DEF UpdateUser, Forms
<1>5. CASE ChangePassword
  <2>1. "change" \in Forms /\ form["change"] \in Components /\ Ready("change")
    BY <1>1, <1>5 DEF Forms, ChangePassword
  <2>2. CASE form["change"].field \in Weak
    <3>1. form'["change"] = [form["change"] EXCEPT !.invalid = TRUE]
      BY <1>1, <1>5, <2>1, <2>2 DEF ChangePassword
    <3>2. form'["change"] \in Components
      BY <2>1, <3>1 DEF Components
    <3>3. OnlyForm("change")
      BY <1>5, <2>1, <2>2, <3>2
      DEF ChangePassword, OnlyForm, IInv, TypeOK, server, history, visit, Ready, Open
    <3>4. Sound("change") /\ call'["change"] = call["change"] /\ done'["change"] = done["change"]
          /\ lost'["change"] = lost["change"] /\ unsent'["change"] = unsent["change"]
      BY <1>5, <2>1, <2>2 DEF ChangePassword, IInv, history
    <3>5. Sound("change")'
      BY <2>1, <3>1, <3>4
      DEF Sound, WaitsWithItsInput, Truthful, Reported, Excused, Shown, Components
    <3>6. QED
      BY <2>1, <3>3, <3>5, OneFormSteps
  <2>3. CASE form["change"].field \notin Weak
    <3>1. [form["change"] EXCEPT !.invalid = FALSE] \in Components
      BY <2>1 DEF Components
    <3>2. ~form["change"].success
      BY <2>1 DEF IInv, Sound, Truthful, Ready
    <3>3. QED
      BY <1>5, <2>1, <2>3, <3>1, <3>2, SendIsSound DEF ChangePassword, Components
  <2>4. QED
    BY <2>2, <2>3
<1>6. QED
  BY <1>2, <1>3, <1>4, <1>5

LEMMA VisitKeeps ==
    ASSUME IInv, NEW page \in Pages, NEW link \in Inputs, Visit(page, link)
    PROVE  IInv'
<1>1. \A f \in Forms : Given(f, link) \in Inputs \cup {None}
  BY DEF Given, IInv, TypeOK
<1>2. \A f \in Forms : /\ form'[f] = Fresh(IF f \in page THEN Given(f, link) ELSE None)
                       /\ call'[f] = "none" /\ done'[f] = None
  BY DEF Visit
<1>3. \A f \in Forms : form'[f] \in Components
  BY <1>1, <1>2, FreshIsComponent
<1>4. form' \in [Forms -> Components] /\ call' \in [Forms -> Calls]
  BY <1>3 DEF Visit, Calls
<1>5. name' \in Inputs
  <2>1. CASE call["name"] = "out"
    <3>1. form["name"].sent \in Inputs
      BY <2>1 DEF IInv, TypeOK, Forms, Sound, WaitsWithItsInput, Components
    <3>2. QED
      BY <3>1 DEF Visit, IInv, TypeOK
  <2>2. CASE call["name"] # "out"
    BY <2>2 DEF Visit, IInv, TypeOK
  <2>3. QED
    BY <2>1, <2>2
<1>6. mailed' \in BOOLEAN /\ usedUp' \in BOOLEAN
  BY DEF Visit, IInv, TypeOK
<1>7. visits' \in 0..MaxVisits
  BY DEF Visit, IInv, TypeOK
<1>8. TypeOK'
  BY <1>2, <1>4, <1>5, <1>6, <1>7 DEF Visit, IInv, TypeOK
<1>9. \A f \in Forms : Sound(f)'
  <2> TAKE f \in Forms
  <2> DEFINE given == IF f \in page THEN Given(f, link) ELSE None
  <2>1. form'[f].pending = FALSE /\ form'[f].success = FALSE
    <3>1. form'[f] = Fresh(given)
      BY <1>2
    <3> HIDE DEF given
    <3>2. QED
      BY <3>1 DEF Fresh
  <2>2. call'[f] = "none" /\ done'[f] = None
    BY <1>2
  <2>3. QED
    BY <2>1, <2>2 DEF Sound, WaitsWithItsInput, Truthful, Reported, Excused
<1>10. QED
  BY <1>8, <1>9 DEF IInv

LEMMA TryAnotherEmailKeeps ==
    ASSUME IInv, TryAnotherEmail
    PROVE  IInv'
<1>1. "forgot" \in Forms /\ Fresh(None) \in Components
  BY FreshIsComponent DEF Forms
<1>2. /\ form'["forgot"] = Fresh(None) /\ call'["forgot"] = call["forgot"]
      /\ done'["forgot"] = done["forgot"] /\ lost'["forgot"] = lost["forgot"]
      /\ unsent'["forgot"] = unsent["forgot"]
  BY <1>1 DEF TryAnotherEmail, IInv, TypeOK, history
<1>3. OnlyForm("forgot")
  BY <1>1, <1>2 DEF TryAnotherEmail, OnlyForm, IInv, TypeOK, server, history, visit
<1>4. call["forgot"] = "none"
  BY <1>1 DEF TryAnotherEmail, IInv, Sound, WaitsWithItsInput, Replaced
<1>5. Sound("forgot")'
  BY <1>2, <1>4 DEF Sound, WaitsWithItsInput, Truthful, Reported, Excused, Fresh, UsedOnce
<1>6. QED
  BY <1>1, <1>3, <1>5, OneFormSteps

LEMMA StutterKeeps ==
    ASSUME IInv, RefetchSession \/ UNCHANGED vars
    PROVE  IInv'
<1>1. UNCHANGED <<visits, at, form, call, name, mailed, usedUp, done, lost, unsent>>
  BY DEF RefetchSession, vars, visit, server, history
<1>2. store' \in Inputs
  BY DEF RefetchSession, vars, IInv, TypeOK
<1>3. TypeOK'
  BY <1>1, <1>2 DEF IInv, TypeOK
<1>4. \A f \in Forms : Sound(f)'
  BY <1>1, UntouchedStaysSound DEF IInv
<1>5. QED
  BY <1>3, <1>4 DEF IInv

LEMMA StepKeeps == IInv /\ [Next]_vars => IInv'
<1> SUFFICES ASSUME IInv, [Next]_vars PROVE IInv'
  OBVIOUS
<1>1. ASSUME NEW f \in Forms, Take(f) \/ Refuse(f) \/ Answer(f) \/ LoseAnswer(f)
      PROVE  IInv'
  BY <1>1, TakeKeeps, RefuseKeeps, AnswerKeeps, LoseAnswerKeeps
<1>2. ASSUME NEW f \in Forms, NEW input \in Inputs, NEW agrees \in BOOLEAN,
             Type(f, input, agrees)
      PROVE  IInv'
  BY <1>2, TypeKeeps
<1>3. ASSUME NEW page \in Pages, NEW link \in Inputs, Visit(page, link) PROVE IInv'
  BY <1>3, VisitKeeps
<1>4. QED
  BY <1>1, <1>2, <1>3, TakeWithoutEmailKeeps, SubmissionsKeep, TryAnotherEmailKeeps,
     StutterKeeps DEF Next

LEMMA Invariance == Spec => []IInv
BY Initially, StepKeeps, PTL DEF Spec

-----------------------------------------------------------------------------
(***************************************************************************)
(* The theorems.                                                           *)
(***************************************************************************)

\* Forms, calls, the account's name and the links keep their types, and a page
\* that is not open keeps nothing.
THEOREM TypeCorrect == Spec => []TypeOK
<1>1. IInv => TypeOK
  BY DEF IInv
<1>2. QED
  BY <1>1, Invariance, PTL

\* A form says that something is done only if the server did it with what the
\* form shows, or sent last: nobody is told of a password that is not set.
THEOREM SuccessesAreTrue == Spec => []SuccessIsTrue
<1>1. IInv => SuccessIsTrue
  BY DEF IInv, Sound, Truthful, SuccessIsTrue
<1>2. QED
  BY <1>1, Invariance, PTL

\* Nothing done through a sign-up, a verification or a reset goes unreported,
\* unless an answer is lost, or an account was made without its email.
THEOREM DeedsAreReported == Spec => []NothingDoneUnsaid
<1>1. IInv => NothingDoneUnsaid
  BY DEF IInv, Sound, Reported, Excused, NothingDoneUnsaid, UsedOnce, Forms
<1>2. QED
  BY <1>1, Invariance, PTL

-----------------------------------------------------------------------------
(***************************************************************************)
(* BillingPage, the page that shows the row and the usage counted in its   *)
(* period, for any subscriptions, times and bounds: type correctness, that *)
(* the overview agrees with itself, that an offer to subscribe is          *)
(* explained, and that the running period's usage is counted.              *)
(***************************************************************************)
USE TimeAssumption, BoundAssumption, NullAssumption

(***************************************************************************)
(* The steps of Next in three groups, by what they may touch: Stripe's,    *)
(* which emit an event, those of the page, and the two reads.              *)
(***************************************************************************)
StripeStep ==
    \E s \in Subs :
        \/ OthersSubscribe(s) \/ Pay(s)
        \/ \E status \in SubStatuses : Renew(s, status) \/ Change(s, status)

PageStep ==
    \/ OpenPage \/ ShowOverview \/ OverviewFails \/ UpgradeToPro \/ CheckoutFails
    \/ GoToCheckout \/ ManageSubscription \/ Return

\* A subscription that is over stays so, and what runs after the step runs to
\* the end it had, or for a period from now.
Emits(s, status, start, end) ==
    /\ Emit(s, status, start, end)
    /\ stripe[s].status # "canceled"
    /\ \/ status = "canceled"
       \/ end = now + Period
       \/ end = stripe[s].end /\ Running(s)

LEMMA StripeSteps ==
    ASSUME PageTypeOK, StripeStep
    PROVE  /\ \E s \in Subs, status \in SubStatuses, start, end \in Times :
                Emits(s, status, start, end)
           /\ UNCHANGED <<now, row, view, paying, records, heardVars>>
           /\ \/ UNCHANGED <<place, read, news>>
              \/ place' = "page" /\ read' = Loading /\ news' = FALSE
<1>1. now \in Times /\ now + Period \in Times
  BY DEF PageTypeOK, Times
<1>2. \A s \in Subs : stripe[s].start \in Times /\ stripe[s].end \in Times
  BY DEF PageTypeOK, Stripes
<1>3. ASSUME NEW s \in Subs, OthersSubscribe(s) \/ Pay(s)
      PROVE  Emits(s, "active", now, now + Period)
  BY <1>3 DEF OthersSubscribe, Pay, Emits
<1>4. ASSUME NEW s \in Subs, NEW status \in SubStatuses, Renew(s, status)
      PROVE  \E start, end \in Times : Emits(s, status, start, end)
  BY <1>1, <1>2, <1>4 DEF Renew, Running, Emits
<1>5. ASSUME NEW s \in Subs, NEW status \in SubStatuses, Change(s, status)
      PROVE  Emits(s, status, stripe[s].start, stripe[s].end)
  BY <1>5 DEF Change, Running, Emits
<1>6. \E s \in Subs, status \in SubStatuses, start, end \in Times :
         Emits(s, status, start, end)
  <2>1. "active" \in SubStatuses
    BY DEF SubStatuses
  <2>2. QED
    BY <1>1, <1>2, <1>3, <1>4, <1>5, <2>1 DEF StripeStep
<1>7. QED
  BY <1>6 DEF StripeStep, OthersSubscribe, Pay, Renew, Change

LEMMA PageSteps ==
    ASSUME PageStep
    PROVE  /\ UNCHANGED <<now, stripeVars, row, records, heardVars>>
           /\ place' \in {place, "page", "checkout", "portal"} /\ paying' \in {paying, TRUE, FALSE}
           /\ view' = view \/ view' = Null \/ (view' = read.got /\ read.left = {})
           /\ \/ UNCHANGED <<read, news>>
              \/ read' = NoRead /\ UNCHANGED news
              \/ read' = Loading /\ news' = FALSE
<1> USE DEF elsewhere
<1>1. CASE OpenPage \/ Return
  BY <1>1 DEF OpenPage, Return
<1>2. CASE ShowOverview \/ OverviewFails
  BY <1>2 DEF ShowOverview, OverviewFails
<1>3. CASE UpgradeToPro \/ CheckoutFails
  BY <1>3 DEF UpgradeToPro, CheckoutFails
<1>4. CASE GoToCheckout \/ ManageSubscription
  BY <1>4 DEF GoToCheckout, ManageSubscription, Leave
<1>5. QED
  BY <1>1, <1>2, <1>3, <1>4 DEF PageStep

-----------------------------------------------------------------------------
(***************************************************************************)
(* Types.                                                                  *)
(***************************************************************************)
Reads == [left : SUBSET {"subscription", "usage"}, asked : BOOLEAN, got : Views]

LEMMA NothingRead == NoRead \in Reads /\ Loading \in Reads
<1>1. NoRead.got \in Views
  BY Zenon DEF NoRead, Views
<1>2. NoRead \in Reads
  BY <1>1, Zenon DEF NoRead, Reads
<1>3. QED
  BY <1>2, Zenon DEF Loading, Reads

LEMMA EmitType ==
    ASSUME PageTypeOK, NEW s \in Subs, NEW status \in SubStatuses,
           NEW start \in Times, NEW end \in Times, Emit(s, status, start, end)
    PROVE  /\ stripe' \in [Subs -> Stripes] /\ events' \subseteq Events
           /\ sent' = sent + 1 /\ sent' \in 0..MaxEvents
           /\ stripe'[s].status = status /\ stripe'[s].start = start /\ stripe'[s].end = end
           /\ stripe'[s].n = sent'
           /\ \A t \in Subs : t # s => stripe'[t] = stripe[t]
           /\ \A e \in events' : \/ e \in events
                                 \/ /\ e.n = sent' /\ e.sub = s /\ e.status = status
                                    /\ e.start = start /\ e.end = end
<1> DEFINE sub == [n |-> sent + 1, status |-> status, start |-> start, end |-> end]
           event == [n |-> sent + 1, sub |-> s, status |-> status, start |-> start,
                     end |-> end]
<1>1. sent' = sent + 1 /\ sent' \in 0..MaxEvents /\ sent + 1 \in 1..MaxEvents
  BY DEF Emit, PageTypeOK
<1>2. sub \in Stripes /\ event \in Events
  BY <1>1 DEF Stripes, Events
<1>3. stripe' = [stripe EXCEPT ![s] = sub] /\ events' = events \cup {event}
  BY DEF Emit
<1>4. /\ sub.n = sent + 1 /\ sub.status = status /\ sub.start = start /\ sub.end = end
      /\ event.n = sent + 1 /\ event.sub = s /\ event.status = status
      /\ event.start = start /\ event.end = end
  OBVIOUS
<1> HIDE DEF sub, event
<1>5. QED
  BY <1>1, <1>2, <1>3, <1>4 DEF PageTypeOK

LEMMA PageInitialType == PageInit => PageTypeOK
<1> SUFFICES ASSUME PageInit PROVE PageTypeOK
  OBVIOUS
<1>1. 0 \in Times /\ 0 \in 0..MaxTime
  BY DEF Times
<1>2. stripe \in [Subs -> Stripes]
  BY <1>1 DEF PageInit, Stripes
<1>3. row \in Rows
  BY DEF PageInit, Rows
<1>4. read \in Reads
  BY NothingRead DEF PageInit
<1>5. paying \in BOOLEAN /\ crossed \in BOOLEAN /\ news \in BOOLEAN
  BY Zenon DEF PageInit
<1>6. sent \in 0..MaxEvents /\ last \in 0..MaxEvents
  BY SMT DEF PageInit
<1>7. events \subseteq Events /\ told \subseteq Subs
  BY DEF PageInit
<1>8. QED
  BY <1>1, <1>2, <1>3, <1>4, <1>5, <1>6, <1>7 DEF PageInit, PageTypeOK, Reads

\* What a read leaves.
LEMMA GetSubscriptionReads ==
    ASSUME PageTypeOK, GetSubscription
    PROVE  /\ read' \in Reads /\ news' \in BOOLEAN
           /\ read'.left = read.left \ {"subscription"} /\ "subscription" \in read.left
           /\ read'.got.plan = row.plan /\ read'.got.limits = read.got.limits
           /\ read'.got.sub = row.sub /\ read'.got.told = told
           /\ (read'.got.crossed <=> crossed)
           /\ (read'.got.torn <=> ~FirstRead /\ news)
           /\ (news' <=> news /\ ~FirstRead)
<1> DEFINE torn == ~FirstRead /\ news
           got == [read.got EXCEPT !.sub = row.sub, !.status = row.status, !.plan = row.plan,
                                   !.told = told, !.crossed = crossed,
                                   !.torn = torn]
<1>1. read' = [read EXCEPT !.left = @ \ {"subscription"}, !.got = got]
  BY DEF GetSubscription
<1>2. read.got \in Views
  BY DEF PageTypeOK
<1>3. row.sub \in Subs \cup {Null} /\ row.status \in SubStatuses \cup {"inactive"}
      /\ row.plan \in {"free", "pro"} /\ told \subseteq Subs
  BY DEF PageTypeOK, Rows
<1>4. crossed \in BOOLEAN /\ torn \in BOOLEAN
  BY Zenon DEF PageTypeOK
<1>t. torn <=> ~FirstRead /\ news
  BY Zenon
<1> HIDE DEF torn
<1>5. got \in Views
  BY <1>2, <1>3, <1>4, Zenon DEF Views
<1>6. /\ got.plan = row.plan /\ got.limits = read.got.limits
      /\ got.sub = row.sub /\ got.told = told
  BY <1>2 DEF Views
<1>7. got.crossed = crossed /\ got.torn = torn
  BY <1>2 DEF Views
<1>8. news' \in BOOLEAN /\ (news' <=> news /\ ~FirstRead)
  BY Zenon DEF GetSubscription
<1> HIDE DEF got
<1>9. "subscription" \in read.left
  BY Zenon DEF GetSubscription
<1>10. read \in Reads
  BY Zenon DEF PageTypeOK, Reads
<1>11. read' \in Reads /\ read'.left = read.left \ {"subscription"} /\ read'.got = got
  BY <1>1, <1>5, <1>10 DEF Reads
<1>12. QED
  BY <1>6, <1>7, <1>8, <1>9, <1>11, <1>t, Zenon

LEMMA GetPlanUsageReads ==
    ASSUME PageTypeOK, GetPlanUsage
    PROVE  /\ read' \in Reads /\ news' \in BOOLEAN
           /\ read'.left = read.left \ {"usage"} /\ "usage" \in read.left
           /\ read'.got.limits = row.plan /\ read'.got.plan = read.got.plan
           /\ read'.got.sub = read.got.sub /\ read'.got.told = read.got.told
           /\ (read'.got.crossed <=> read.got.crossed)
           /\ (read'.got.torn <=> ~FirstRead /\ news)
           /\ (news' <=> news /\ ~FirstRead)
<1> DEFINE torn == ~FirstRead /\ news
           got == [read.got EXCEPT !.limits = row.plan, !.torn = torn]
<1>1. read' = [read EXCEPT !.left = @ \ {"usage"}, !.got = got]
  BY DEF GetPlanUsage
<1>2. read.got \in Views
  BY DEF PageTypeOK
<1>3. row.plan \in {"free", "pro"}
  BY DEF PageTypeOK, Rows
<1>4. torn \in BOOLEAN
  BY Zenon
<1>t. torn <=> ~FirstRead /\ news
  BY Zenon
<1> HIDE DEF torn
<1>5. got \in Views
  BY <1>2, <1>3, <1>4, Zenon DEF Views
<1>6. /\ got.limits = row.plan /\ got.plan = read.got.plan
      /\ got.sub = read.got.sub /\ got.told = read.got.told
  BY <1>2 DEF Views
<1>7. got.crossed = read.got.crossed /\ got.torn = torn
  BY <1>2 DEF Views
<1>8. news' \in BOOLEAN /\ (news' <=> news /\ ~FirstRead)
  BY Zenon DEF GetPlanUsage
<1> HIDE DEF got
<1>9. "usage" \in read.left
  BY Zenon DEF GetPlanUsage
<1>10. read \in Reads
  BY Zenon DEF PageTypeOK, Reads
<1>11. read' \in Reads /\ read'.left = read.left \ {"usage"} /\ read'.got = got
  BY <1>1, <1>5, <1>10 DEF Reads
<1>12. QED
  BY <1>6, <1>7, <1>8, <1>9, <1>11, <1>t, Zenon

\* The webhook takes an event and leaves a row of it.
LEMMA WebhookType ==
    ASSUME PageTypeOK, NEW e \in events, HandleWebhookEvent(e)
    PROVE  /\ e \in Events /\ e.sub \in Subs
           /\ row' \in Rows /\ told' \subseteq Subs
           /\ crossed' \in BOOLEAN /\ last' \in 0..MaxEvents
<1>1. e \in Events /\ e.sub \in Subs /\ e.n \in 0..MaxEvents
  BY DEF PageTypeOK, Events
<1>2. Deleted \in Rows
  BY DEF PageTypeOK, Rows, Deleted, SubStatuses
<1>3. Synced(e) \in Rows
  BY <1>1 DEF Rows, Events, Synced
<1>4. row' \in Rows
  BY <1>2, <1>3 DEF HandleWebhookEvent
<1>5. crossed' \in BOOLEAN
  BY Zenon DEF HandleWebhookEvent
<1>6. told' \subseteq Subs /\ last' \in 0..MaxEvents
  BY <1>1 DEF HandleWebhookEvent, PageTypeOK
<1>7. QED
  BY <1>1, <1>4, <1>5, <1>6

LEMMA PageStepType ==
    PageTypeOK /\ [PageNext]_pageVars => PageTypeOK'
<1> SUFFICES ASSUME PageTypeOK, [PageNext]_pageVars PROVE PageTypeOK'
  OBVIOUS
<1>1. CASE StripeStep
  <2>1. stripe' \in [Subs -> Stripes] /\ events' \subseteq Events /\ sent' \in 0..MaxEvents
    BY <1>1, StripeSteps, EmitType DEF Emits
  <2>2. read' \in Reads /\ place' \in {"page", "checkout", "portal"}
    BY <1>1, StripeSteps, NothingRead DEF PageTypeOK, Reads
  <2>3. news' \in BOOLEAN
    BY <1>1, StripeSteps, Zenon DEF PageTypeOK
  <2>4. UNCHANGED <<now, row, view, paying, records, heardVars>>
    BY <1>1, StripeSteps
  <2>5. QED
    BY <2>1, <2>2, <2>3, <2>4 DEF PageTypeOK, Reads, heardVars
<1>2. CASE PageStep
  <2>1. UNCHANGED <<now, stripeVars, row, records, heardVars>>
    BY <1>2, PageSteps
  <2>2. read' \in Reads /\ place' \in {"page", "checkout", "portal"}
    BY <1>2, PageSteps, NothingRead DEF PageTypeOK, Reads
  <2>3. view' \in Views \cup {Null}
    BY <1>2, PageSteps DEF PageTypeOK
  <2>4. news' \in BOOLEAN /\ paying' \in BOOLEAN
    BY <1>2, PageSteps, Zenon DEF PageTypeOK
  <2>5. QED
    BY <2>1, <2>2, <2>3, <2>4 DEF PageTypeOK, Reads, stripeVars, heardVars
<1>3. CASE GetSubscription
  BY <1>3, GetSubscriptionReads DEF GetSubscription, PageTypeOK, Reads, stripeVars, heardVars
<1>4. CASE GetPlanUsage
  BY <1>4, GetPlanUsageReads DEF GetPlanUsage, PageTypeOK, Reads, stripeVars, heardVars
<1>5. ASSUME NEW e \in events, HandleWebhookEvent(e) PROVE PageTypeOK'
  <2>1. news' \in BOOLEAN
    BY <1>5, Zenon DEF HandleWebhookEvent
  <2>2. QED
    BY <1>5, <2>1, WebhookType DEF HandleWebhookEvent, PageTypeOK, stripeVars
<1>6. CASE Tick
  <2>1. now' \in 0..MaxTime
    BY <1>6 DEF PageTypeOK, Tick
  <2>2. QED
    BY <1>6, <2>1 DEF Tick, PageTypeOK, stripeVars, heardVars
<1>7. CASE RecordUsage
  BY <1>7 DEF RecordUsage, PageTypeOK, stripeVars, heardVars
<1>8. CASE UNCHANGED pageVars
  BY <1>8 DEF pageVars, PageTypeOK, stripeVars, heardVars
<1>9. QED
  BY <1>1, <1>2, <1>3, <1>4, <1>5, <1>6, <1>7, <1>8 DEF PageNext, StripeStep, PageStep

\* The page, the webhook, Stripe and the clock keep every variable of
\* BillingPage in its type.
THEOREM PageTypeCorrect == PageSpec => []PageTypeOK
<1>1. PageInit => PageTypeOK
  BY PageInitialType
<1>2. PageTypeOK /\ [PageNext]_pageVars => PageTypeOK'
  BY PageStepType
<1>3. QED
  BY <1>1, <1>2, PTL DEF PageSpec

-----------------------------------------------------------------------------
(***************************************************************************)
(* The overview.  What is shown follows from what a fetch holds half-way:  *)
(* the first of its two reads is of the row that is there now, unless the  *)
(* webhook has written since.                                              *)
(***************************************************************************)
HalfWay ==
    /\ read.left = {"subscription"} /\ ~news => read.got.limits = row.plan
    /\ read.left = {"usage"} /\ ~news => read.got.plan = row.plan
    /\ read.left = {} /\ ~read.got.torn => read.got.limits = read.got.plan

OverviewInv == HalfWay /\ OverviewAgrees

\* A fetch that has not begun, and one that has just begun, hold nothing.
LEMMA FreshFetch ==
    /\ NoRead.left = {} /\ Loading.left = {"subscription", "usage"}
    /\ NoRead.got.limits = NoRead.got.plan
    /\ NoRead.got.told = {} /\ Loading.got.told = {}
BY DEF NoRead, Loading

LEMMA FreshHalfWay ==
    ASSUME read' = NoRead \/ read' = Loading PROVE HalfWay'
BY FreshFetch DEF HalfWay

LEMMA GetSubscriptionHalfWay ==
    ASSUME PageTypeOK, OverviewInv, GetSubscription PROVE OverviewInv'
<1>1. UNCHANGED <<row, view>>
  BY DEF GetSubscription
<1>2. /\ read'.left = read.left \ {"subscription"} /\ "subscription" \in read.left
      /\ read'.got.plan = row.plan /\ read'.got.limits = read.got.limits
  BY GetSubscriptionReads
<1>3. OverviewAgrees'
  BY <1>1 DEF OverviewInv, OverviewAgrees
<1>4. CASE FirstRead
  <2>1. read'.left = {"usage"}
    BY <1>2, <1>4 DEF FirstRead
  <2>2. QED
    BY <1>1, <1>2, <1>3, <2>1 DEF OverviewInv, HalfWay
<1>5. CASE ~FirstRead
  <2>1. read.left \subseteq {"subscription", "usage"}
    BY DEF PageTypeOK
  <2>2. read.left = {"subscription"} /\ read'.left = {}
    BY <1>2, <1>5, <2>1 DEF FirstRead
  <2>3. ~read'.got.torn => ~news
    BY <1>5, GetSubscriptionReads, Zenon
  <2>4. ~news => read.got.limits = row.plan
    BY <2>2 DEF OverviewInv, HalfWay
  <2>5. ~read'.got.torn => read'.got.limits = read'.got.plan
    BY <1>2, <2>3, <2>4
  <2>6. QED
    BY <1>3, <2>2, <2>5 DEF OverviewInv, HalfWay
<1>6. QED
  BY <1>4, <1>5

LEMMA GetPlanUsageHalfWay ==
    ASSUME PageTypeOK, OverviewInv, GetPlanUsage PROVE OverviewInv'
<1>1. UNCHANGED <<row, view>>
  BY DEF GetPlanUsage
<1>2. /\ read'.left = read.left \ {"usage"} /\ "usage" \in read.left
      /\ read'.got.limits = row.plan /\ read'.got.plan = read.got.plan
  BY GetPlanUsageReads
<1>3. OverviewAgrees'
  BY <1>1 DEF OverviewInv, OverviewAgrees
<1>4. CASE FirstRead
  <2>1. read'.left = {"subscription"}
    BY <1>2, <1>4 DEF FirstRead
  <2>2. QED
    BY <1>1, <1>2, <1>3, <2>1 DEF OverviewInv, HalfWay
<1>5. CASE ~FirstRead
  <2>1. read.left \subseteq {"subscription", "usage"}
    BY DEF PageTypeOK
  <2>2. read.left = {"usage"} /\ read'.left = {}
    BY <1>2, <1>5, <2>1 DEF FirstRead
  <2>3. ~read'.got.torn => ~news
    BY <1>5, GetPlanUsageReads, Zenon
  <2>4. ~news => read.got.plan = row.plan
    BY <2>2 DEF OverviewInv, HalfWay
  <2>5. ~read'.got.torn => read'.got.limits = read'.got.plan
    BY <1>2, <2>3, <2>4
  <2>6. QED
    BY <1>3, <2>2, <2>5 DEF OverviewInv, HalfWay
<1>6. QED
  BY <1>4, <1>5

LEMMA OverviewStep ==
    PageTypeOK /\ OverviewInv /\ [PageNext]_pageVars => OverviewInv'
<1> SUFFICES ASSUME PageTypeOK, OverviewInv, [PageNext]_pageVars PROVE OverviewInv'
  OBVIOUS
<1>1. CASE StripeStep
  <2>1. UNCHANGED <<row, view>>
    BY <1>1, StripeSteps
  <2>2. UNCHANGED <<read, news>> \/ read' = Loading
    BY <1>1, StripeSteps
  <2>3. HalfWay'
    BY <2>1, <2>2, FreshHalfWay DEF OverviewInv, HalfWay
  <2>4. QED
    BY <2>1, <2>3 DEF OverviewInv, OverviewAgrees
<1>2. CASE PageStep
  <2>1. UNCHANGED row /\ (UNCHANGED <<read, news>> \/ read' = NoRead \/ read' = Loading)
    BY <1>2, PageSteps
  <2>2. HalfWay'
    BY <2>1, FreshHalfWay DEF OverviewInv, HalfWay
  <2>3. view' = view \/ view' = Null \/ (view' = read.got /\ read.left = {})
    BY <1>2, PageSteps
  <2>4. OverviewAgrees'
    BY <2>3 DEF OverviewInv, HalfWay, OverviewAgrees
  <2>5. QED
    BY <2>2, <2>4 DEF OverviewInv
<1>3. ASSUME NEW e \in events, HandleWebhookEvent(e) PROVE OverviewInv'
  <2>1. UNCHANGED <<read, view>> /\ news'
    BY <1>3 DEF HandleWebhookEvent
  <2>2. QED
    BY <2>1 DEF OverviewInv, HalfWay, OverviewAgrees
<1>4. CASE Tick \/ RecordUsage \/ UNCHANGED pageVars
  <2>1. UNCHANGED <<row, view, read, news>>
    BY <1>4 DEF Tick, RecordUsage, pageVars
  <2>2. QED
    BY <2>1 DEF OverviewInv, HalfWay, OverviewAgrees
<1>5. QED
  BY <1>1, <1>2, <1>3, <1>4, GetSubscriptionHalfWay, GetPlanUsageHalfWay
     DEF PageNext, StripeStep, PageStep

LEMMA OverviewInitially == PageInit => OverviewInv
BY FreshFetch DEF PageInit, OverviewInv, HalfWay, OverviewAgrees

\* However the two reads, the webhook and new fetches interleave, the overview
\* shows one plan and its limits, unless the webhook wrote between the reads.
THEOREM OverviewsAgree == PageSpec => []OverviewAgrees
<1>1. OverviewInv => OverviewAgrees
  BY DEF OverviewInv
<1>2. QED
  BY <1>1, PageInitialType, PageStepType, OverviewInitially, OverviewStep, PTL DEF PageSpec

-----------------------------------------------------------------------------
(***************************************************************************)
(* The offer.  An overview is older than what it is compared with, so the  *)
(* invariant is of what stays true of the past: a subscription that is     *)
(* over never runs again, the row names every running subscription the     *)
(* webhook has heard of as long as no other has been through it, and so    *)
(* did the row that was read.                                              *)
(***************************************************************************)
Heard ==
    /\ \A s \in told : stripe[s].status # "none"
    /\ \A e \in events :
         /\ stripe[e.sub].status # "none"
         /\ e.status = "canceled" => stripe[e.sub].status = "canceled"

RowNames == crossed \/ \A s \in told : Running(s) => row.sub = s

Explained(v) ==
    /\ \A s \in v.told : stripe[s].status # "none"
    /\ v.sub = Null => v.crossed \/ \A s \in v.told : ~Running(s)

OfferInv == Heard /\ RowNames /\ Explained(read.got) /\ (view # Null => Explained(view))

LEMMA EventsAreOfSubs ==
    ASSUME PageTypeOK PROVE \A e \in events : e \in Events /\ e.sub \in Subs
BY DEF PageTypeOK, Events

\* What has begun has begun, what is over is over, and only Stripe's steps
\* change anything.
LEMMA NothingRevives ==
    ASSUME PageTypeOK, StripeStep \/ UNCHANGED stripe
    PROVE  \A s \in Subs : stripe[s].status # "none" =>
               /\ stripe'[s].status # "none"
               /\ stripe[s].status = "canceled" => stripe'[s].status = "canceled"
               /\ Running(s)' => Running(s)
<1>1. CASE UNCHANGED stripe
  BY <1>1 DEF Running
<1>2. CASE StripeStep
  <2>1. PICK s \in Subs, status \in SubStatuses, start, end \in Times :
           Emits(s, status, start, end)
    BY <1>2, StripeSteps
  <2>2. stripe'[s].status = status /\ \A t \in Subs : t # s => stripe'[t] = stripe[t]
    BY <2>1, EmitType DEF Emits
  <2>3. stripe[s].status # "none" => Running(s)
    BY <2>1 DEF Emits, PageTypeOK, Stripes, SubStatuses, Running
  <2>4. status # "none" /\ stripe[s].status # "canceled"
    BY <2>1 DEF Emits, SubStatuses
  <2>5. QED
    BY <2>2, <2>3, <2>4 DEF Running
<1>3. QED
  BY <1>1, <1>2

\* What was explained stays so.
LEMMA ExplainedStays ==
    ASSUME PageTypeOK, StripeStep \/ UNCHANGED stripe, NEW v \in Views, Explained(v)
    PROVE  Explained(v)'
<1>1. v.told \subseteq Subs
  BY DEF Views
<1>2. QED
  BY <1>1, NothingRevives, Zenon DEF Explained

\* The overview and the fetch after a step that reads nothing.
LEMMA ViewsStayExplained ==
    ASSUME PageTypeOK, OfferInv, StripeStep \/ UNCHANGED stripe,
           read'.got = read.got \/ read'.got.told = {},
           view' = view \/ view' = Null \/ view' = read.got
    PROVE  Explained(read.got)' /\ (view # Null => Explained(view))'
<1>1. PICK got \in Views : got = read.got /\ Explained(got)
  BY DEF PageTypeOK, OfferInv
<1>2. Explained(got)'
  BY <1>1, ExplainedStays
<1>3. Explained(read.got)'
  BY <1>1, <1>2 DEF Explained
<1>4. CASE view' = view /\ view # Null
  <2>1. PICK v \in Views : v = view /\ Explained(v)
    BY <1>4 DEF PageTypeOK, OfferInv
  <2>2. Explained(v)'
    BY <2>1, ExplainedStays
  <2>3. QED
    BY <1>3, <1>4, <2>1, <2>2 DEF Explained
<1>5. CASE view' = read.got
  BY <1>1, <1>2, <1>3, <1>5 DEF Explained
<1>6. CASE view' = Null
  BY <1>3, <1>6
<1>7. QED
  BY <1>4, <1>5, <1>6

LEMMA StripeKeepsOffers ==
    ASSUME PageTypeOK, OfferInv, StripeStep PROVE OfferInv'
<1>1. PICK s \in Subs, status \in SubStatuses, start, end \in Times :
         Emits(s, status, start, end)
  BY StripeSteps
<1>2. UNCHANGED <<row, view, told, crossed>>
  BY StripeSteps DEF heardVars
<1>3. Emit(s, status, start, end) /\ stripe[s].status # "canceled"
  BY <1>1 DEF Emits
<1>4. stripe'[s].status = status /\ status # "none"
  BY <1>3, EmitType DEF SubStatuses
<1>5. \A e \in events : e.sub \in Subs
  BY EventsAreOfSubs
<1>6. Heard'
  <2>1. \A t \in told : stripe'[t].status # "none"
    BY NothingRevives DEF PageTypeOK, OfferInv, Heard
  <2>2. ASSUME NEW e \in events'
        PROVE  /\ stripe'[e.sub].status # "none"
               /\ e.status = "canceled" => stripe'[e.sub].status = "canceled"
    <3>1. CASE e \in events
      BY <1>5, <3>1, NothingRevives DEF OfferInv, Heard
    <3>2. CASE e \notin events
      <4>1. e.sub = s /\ e.status = status
        BY <1>3, <3>2, EmitType
      <4>2. QED
        BY <1>4, <4>1
    <3>3. QED
      BY <3>1, <3>2
  <2>3. QED
    BY <1>2, <2>1, <2>2 DEF Heard
<1>7. RowNames'
  <2>1. \A t \in told : Running(t)' => Running(t)
    BY NothingRevives DEF PageTypeOK, OfferInv, Heard
  <2>2. QED
    BY <1>2, <2>1, Zenon DEF OfferInv, RowNames
<1>8. read'.got = read.got \/ read'.got.told = {}
  <2>1. read' = read \/ read' = Loading
    BY StripeSteps
  <2>2. QED
    BY <2>1, FreshFetch
<1>9. Explained(read.got)' /\ (view # Null => Explained(view))'
  BY <1>2, <1>8, ViewsStayExplained
<1>10. QED
  BY <1>6, <1>7, <1>9 DEF OfferInv

\* Handling an event: the row comes to name the event's subscription, or, at
\* its end, none; if the row named another, that is noted.
LEMMA WebhookKeepsOffers ==
    ASSUME PageTypeOK, OfferInv, NEW e \in events, HandleWebhookEvent(e) PROVE OfferInv'
<1>1. /\ UNCHANGED <<stripe, events, view, read>>
      /\ row' = IF e.status = "canceled" THEN Deleted ELSE Synced(e)
      /\ told' = told \cup {e.sub}
  BY DEF HandleWebhookEvent, stripeVars
<1>2. ~crossed' => ~crossed /\ row.sub \in {Null, e.sub}
  BY Zenon DEF HandleWebhookEvent
<1>3. e.sub \in Subs /\ stripe[e.sub].status # "none"
      /\ (e.status = "canceled" => stripe[e.sub].status = "canceled")
  BY EventsAreOfSubs DEF OfferInv, Heard
<1>4. Heard'
  BY <1>1, <1>3 DEF OfferInv, Heard
<1>5. RowNames'
  <2> SUFFICES ASSUME ~crossed', NEW s \in told', Running(s)'
               PROVE  row'.sub = s
    BY Zenon DEF RowNames
  <2>1. Running(s)
    BY <1>1 DEF Running
  <2>2. s \in told => row.sub = s /\ s \in Subs
    BY <1>2, <2>1 DEF OfferInv, RowNames, PageTypeOK
  <2>3. s = e.sub
    BY <1>1, <1>2, <2>2, NullAssumption
  <2>4. e.status # "canceled"
    BY <1>3, <2>1, <2>3 DEF Running
  <2>5. QED
    BY <1>1, <2>3, <2>4 DEF Synced
<1>6. Explained(read.got)' /\ (view # Null => Explained(view))'
  BY <1>1, ViewsStayExplained
<1>7. QED
  BY <1>4, <1>5, <1>6 DEF OfferInv

\* Reading the subscription: what is read is explained by the row it is read from.
LEMMA GetSubscriptionKeepsOffers ==
    ASSUME PageTypeOK, OfferInv, GetSubscription PROVE OfferInv'
<1>1. UNCHANGED <<stripe, events, row, view, told, crossed>>
  BY DEF GetSubscription, stripeVars, heardVars
<1>2. /\ read'.got.sub = row.sub /\ read'.got.told = told /\ (read'.got.crossed <=> crossed)
  BY GetSubscriptionReads
<1>3. row.sub = Null => crossed \/ \A s \in told : ~Running(s)
  BY NullAssumption DEF PageTypeOK, OfferInv, RowNames
<1>4. Explained(read.got)'
  BY <1>1, <1>2, <1>3, Zenon DEF OfferInv, Heard, Explained, Running
<1>5. Heard' /\ RowNames' /\ (view # Null => Explained(view))'
  BY <1>1 DEF OfferInv, Heard, RowNames, Explained, Running
<1>6. QED
  BY <1>4, <1>5 DEF OfferInv

LEMMA GetPlanUsageKeepsOffers ==
    ASSUME PageTypeOK, OfferInv, GetPlanUsage PROVE OfferInv'
<1>1. UNCHANGED <<stripe, events, row, view, told, crossed>>
  BY DEF GetPlanUsage, stripeVars, heardVars
<1>2. /\ read'.got.sub = read.got.sub /\ read'.got.told = read.got.told
      /\ (read'.got.crossed <=> read.got.crossed)
  BY GetPlanUsageReads
<1>3. Explained(read.got)'
  BY <1>1, <1>2, Zenon DEF OfferInv, Explained, Running
<1>4. Heard' /\ RowNames' /\ (view # Null => Explained(view))'
  BY <1>1 DEF OfferInv, Heard, RowNames, Explained, Running
<1>5. QED
  BY <1>3, <1>4 DEF OfferInv

LEMMA OfferStep ==
    PageTypeOK /\ OfferInv /\ [PageNext]_pageVars => OfferInv'
<1> SUFFICES ASSUME PageTypeOK, OfferInv, [PageNext]_pageVars PROVE OfferInv'
  OBVIOUS
<1>1. CASE PageStep \/ Tick \/ RecordUsage \/ UNCHANGED pageVars
  <2>1. UNCHANGED <<stripe, events, row, told, crossed>>
    BY <1>1, PageSteps DEF Tick, RecordUsage, pageVars, stripeVars, heardVars
  <2>2. view' = view \/ view' = Null \/ view' = read.got
    BY <1>1, PageSteps DEF Tick, RecordUsage, pageVars
  <2>3. read' = read \/ read' = NoRead \/ read' = Loading
    BY <1>1, PageSteps DEF Tick, RecordUsage, pageVars
  <2>4. Explained(read.got)' /\ (view # Null => Explained(view))'
    BY <2>1, <2>2, <2>3, FreshFetch, ViewsStayExplained
  <2>5. Heard' /\ RowNames'
    BY <2>1 DEF OfferInv, Heard, RowNames, Running
  <2>6. QED
    BY <2>4, <2>5 DEF OfferInv
<1>2. QED
  BY <1>1, StripeKeepsOffers, WebhookKeepsOffers, GetSubscriptionKeepsOffers,
     GetPlanUsageKeepsOffers DEF PageNext, StripeStep, PageStep

LEMMA OffersInitially == PageInit => OfferInv
BY FreshFetch DEF PageInit, OfferInv, Heard, RowNames, Explained

\* The page offers a subscription to an organization that has one only if its
\* overview was read before the webhook heard of it, or after events of two have
\* crossed, in whatever order events are handled.
THEOREM OffersAreExplained == PageSpec => []OfferExplained
<1>1. PageTypeOK /\ OfferInv => OfferExplained
  BY Zenon DEF OfferInv, Explained, OfferExplained, IsFreePlan
<1>2. QED
  BY <1>1, PageInitialType, PageStepType, OffersInitially, OfferStep, PTL DEF PageSpec

-----------------------------------------------------------------------------
(***************************************************************************)
(* The period.  The row tells the period of its subscription whenever the  *)
(* youngest event of that one was handled last, because of all events of a *)
(* subscription that one tells what Stripe has; a period that runs has not *)
(* ended, and usage is never of the future.                                *)
(***************************************************************************)
YoungestTells ==
    /\ \A e \in events :
         /\ e.n <= sent
         /\ e.n = stripe[e.sub].n =>
                e.start = stripe[e.sub].start /\ e.end = stripe[e.sub].end
    /\ \A s \in Subs : stripe[s].n <= sent
    /\ last <= sent

RowTells ==
    \A s \in Subs : row.sub = s /\ last = stripe[s].n =>
        row.start = stripe[s].start /\ row.end = stripe[s].end

UsageInv ==
    /\ \A t \in records : t <= now
    /\ \A s \in Subs : Running(s) => now <= stripe[s].end
    /\ YoungestTells /\ RowTells
    /\ row.start = Null <=> row.end = Null

\* The month of a time is the one multiple of the month's length it follows by
\* less than that length.
LEMMA MonthOf ==
    ASSUME NEW t \in Nat, NEW u \in Nat
    PROVE  /\ Month(t) \in Int /\ Month(t) <= t /\ t < Month(t) + MonthLength
           /\ Month(u) <= t /\ t < Month(u) + MonthLength => Month(t) = Month(u)
<1>1. MonthLength \in Nat \ {0}
  BY TimeAssumption
<1>2. ASSUME NEW v \in Nat
      PROVE  /\ v \div MonthLength \in Int /\ v % MonthLength \in 0..(MonthLength - 1)
             /\ Month(v) = MonthLength * (v \div MonthLength)
  <2>1. v \div MonthLength \in Int
    BY <1>1
  <2>2. v % MonthLength \in 0..(MonthLength - 1)
    BY <1>1
  <2>3. v = MonthLength * (v \div MonthLength) + (v % MonthLength)
    BY <1>1
  <2>4. MonthLength * (v \div MonthLength) \in Int
    BY <1>1, <2>1
  <2>5. Month(v) = MonthLength * (v \div MonthLength)
    BY <2>2, <2>3, <2>4 DEF Month
  <2>6. QED
    BY <2>1, <2>2, <2>5
<1>3. PICK q \in Int : Month(t) = MonthLength * q
  BY <1>2, Zenon
<1>4. PICK p \in Int : Month(u) = MonthLength * p
  BY <1>2, Zenon
<1>5. Month(t) \in Int /\ Month(t) <= t /\ t < Month(t) + MonthLength
  BY <1>1, <1>2 DEF Month
<1>6. ASSUME Month(u) <= t, t < Month(u) + MonthLength PROVE Month(t) = Month(u)
  <2>1. MonthLength * q < MonthLength * (p + 1) /\ MonthLength * p < MonthLength * (q + 1)
    BY <1>1, <1>3, <1>4, <1>5, <1>6
  <2>2. q < p + 1 /\ p < q + 1
    BY <1>1, <2>1
  <2>3. q = p
    BY <2>2
  <2>4. QED
    BY <1>3, <1>4, <2>3
<1>7. QED
  BY <1>5, <1>6

LEMMA StripeKeepsPeriods ==
    ASSUME PageTypeOK, UsageInv, StripeStep, UNCHANGED records PROVE UsageInv'
<1>1. PICK s \in Subs, status \in SubStatuses, start, end \in Times :
         Emits(s, status, start, end)
  BY StripeSteps
<1>2. UNCHANGED <<now, row, last>>
  BY StripeSteps DEF heardVars
<1>3. Emit(s, status, start, end)
  BY <1>1 DEF Emits
<1>4. /\ stripe'[s].status = status /\ stripe'[s].start = start /\ stripe'[s].end = end
      /\ stripe'[s].n = sent' /\ sent' = sent + 1
      /\ \A t \in Subs : t # s => stripe'[t] = stripe[t]
  BY <1>3, EmitType
<1>5. sent \in Nat /\ last \in Nat /\ \A t \in Subs : stripe[t].n \in Nat
  BY DEF PageTypeOK, Stripes
<1>6. \A t \in Subs : Running(t)' => now' <= stripe'[t].end
  <2>1. Running(s)' => now <= end
    <3>1. now \in Nat /\ Period \in Nat
      BY TimeAssumption DEF PageTypeOK
    <3>2. Running(s)' => status # "canceled"
      BY <1>4 DEF Running
    <3>3. end = now + Period \/ (end = stripe[s].end /\ Running(s)) => now <= end
      BY <3>1 DEF UsageInv
    <3>4. QED
      BY <1>1, <3>2, <3>3 DEF Emits
  <2>2. QED
    BY <1>2, <1>4, <2>1 DEF UsageInv, Running
<1>7. YoungestTells'
  <2>1. ASSUME NEW e \in events'
        PROVE  /\ e.n <= sent'
               /\ e.n = stripe'[e.sub].n =>
                      e.start = stripe'[e.sub].start /\ e.end = stripe'[e.sub].end
    <3>1. CASE e \in events
      <4>1. e.n \in Nat /\ e.sub \in Subs /\ e.n <= sent
        BY <3>1 DEF PageTypeOK, Events, UsageInv, YoungestTells
      <4>2. CASE e.sub = s
        BY <1>4, <1>5, <4>1, <4>2
      <4>3. CASE e.sub # s
        BY <1>4, <1>5, <3>1, <4>1, <4>3 DEF UsageInv, YoungestTells
      <4>4. QED
        BY <4>2, <4>3
    <3>2. CASE e \notin events
      <4>1. e.n = sent' /\ e.sub = s /\ e.start = start /\ e.end = end
        BY <1>3, <3>2, EmitType
      <4>2. QED
        BY <1>4, <1>5, <4>1
    <3>3. QED
      BY <3>1, <3>2
  <2>2. last' <= sent' /\ \A t \in Subs : stripe'[t].n <= sent'
    BY <1>2, <1>4, <1>5 DEF UsageInv, YoungestTells
  <2>3. QED
    BY <2>1, <2>2 DEF YoungestTells
<1>8. RowTells'
  <2> SUFFICES ASSUME NEW t \in Subs, row.sub = t, last = stripe'[t].n
               PROVE  row.start = stripe'[t].start /\ row.end = stripe'[t].end
    BY <1>2 DEF RowTells
  <2>1. t # s
    BY <1>4, <1>5 DEF UsageInv, YoungestTells
  <2>2. QED
    BY <1>4, <2>1 DEF UsageInv, RowTells
<1>9. QED
  BY <1>2, <1>6, <1>7, <1>8 DEF UsageInv

\* Handling an event: if it is the youngest of its subscription, the row now
\* tells what Stripe has; a deletion leaves the period and names no subscription.
LEMMA WebhookKeepsPeriods ==
    ASSUME PageTypeOK, UsageInv, NEW e \in events, HandleWebhookEvent(e) PROVE UsageInv'
<1>1. /\ UNCHANGED <<now, stripe, events, sent, records>>
      /\ row' = IF e.status = "canceled" THEN Deleted ELSE Synced(e)
      /\ last' = e.n
  BY DEF HandleWebhookEvent, stripeVars
<1>2. e.sub \in Subs /\ e.start \in Int /\ e.end \in Int
  BY TimeAssumption DEF PageTypeOK, Events, Times
<1>3. YoungestTells'
  BY <1>1 DEF UsageInv, YoungestTells
<1>4. CASE e.status = "canceled"
  <2>1. row'.sub = Null /\ row'.start = row.start /\ row'.end = row.end
    BY <1>1, <1>4 DEF Deleted, PageTypeOK, Rows
  <2>2. RowTells'
    BY <2>1, NullAssumption DEF RowTells
  <2>3. QED
    BY <1>1, <1>3, <2>1, <2>2 DEF UsageInv, Running
<1>5. CASE e.status # "canceled"
  <2>1. row'.sub = e.sub /\ row'.start = e.start /\ row'.end = e.end
    BY <1>1, <1>5 DEF Synced
  <2>2. row'.start # Null /\ row'.end # Null
    BY <1>2, <2>1, NullAssumption
  <2>3. e.n = stripe[e.sub].n => e.start = stripe[e.sub].start /\ e.end = stripe[e.sub].end
    BY DEF UsageInv, YoungestTells
  <2>4. RowTells'
    BY <1>1, <2>1, <2>3 DEF RowTells
  <2>5. QED
    BY <1>1, <1>3, <2>2, <2>4 DEF UsageInv, Running
<1>6. QED
  BY <1>4, <1>5

LEMMA UsageStep ==
    PageTypeOK /\ UsageInv /\ [PageNext]_pageVars => UsageInv'
<1> SUFFICES ASSUME PageTypeOK, UsageInv, [PageNext]_pageVars PROVE UsageInv'
  OBVIOUS
<1>1. CASE StripeStep
  <2>1. UNCHANGED records
    BY <1>1, StripeSteps
  <2>2. QED
    BY <1>1, <2>1, StripeKeepsPeriods
<1>2. CASE Tick
  <2>1. UNCHANGED <<stripe, events, sent, row, last, records>>
    BY <1>2 DEF Tick, stripeVars, heardVars
  <2>2. YoungestTells' /\ RowTells' /\ (row'.start = Null <=> row'.end = Null)
    BY <2>1 DEF UsageInv, YoungestTells, RowTells
  <2>3. now \in Nat /\ now' = now + 1 /\ \A t \in records : t \in Nat
    BY <1>2 DEF Tick, PageTypeOK
  <2>4. \A t \in records' : t <= now'
    BY <2>1, <2>3 DEF UsageInv
  <2>5. \A s \in Subs : stripe[s].end \in Nat
    BY TimeAssumption DEF PageTypeOK, Stripes, Times
  <2>6. \A s \in Subs : Running(s)' => now' <= stripe'[s].end
    BY <1>2, <2>1, <2>3, <2>5 DEF Tick, Running
  <2>7. QED
    BY <2>2, <2>4, <2>6 DEF UsageInv
<1>3. CASE PageStep \/ GetSubscription \/ GetPlanUsage \/ RecordUsage \/ UNCHANGED pageVars
  <2>1. /\ UNCHANGED <<now, stripeVars, row, heardVars>>
        /\ records' = records \/ records' = records \cup {now}
    BY <1>3, PageSteps DEF GetSubscription, GetPlanUsage, RecordUsage, pageVars
  <2>2. UNCHANGED <<now, stripe, events, sent, row, last>>
    BY <2>1 DEF stripeVars, heardVars
  <2>3. YoungestTells' /\ RowTells' /\ (row'.start = Null <=> row'.end = Null)
    BY <2>2 DEF UsageInv, YoungestTells, RowTells
  <2>4. \A t \in records' : t <= now
    <3>1. now \in Nat
      BY DEF PageTypeOK
    <3>2. QED
      BY <2>1, <3>1 DEF UsageInv
  <2>5. QED
    BY <2>2, <2>3, <2>4 DEF UsageInv, Running
<1>4. QED
  BY <1>1, <1>2, <1>3, WebhookKeepsPeriods DEF PageNext, StripeStep, PageStep

LEMMA UsageInitially == PageInit => UsageInv
<1> SUFFICES ASSUME PageInit PROVE UsageInv
  OBVIOUS
<1>1. \A s \in Subs : ~Running(s) /\ stripe[s].n = 0
  BY DEF PageInit, Running
<1>2. /\ events = {} /\ sent = 0 /\ last = 0
      /\ row.sub = Null /\ row.start = Null /\ row.end = Null /\ records = {}
  BY DEF PageInit
<1>3. QED
  BY <1>1, <1>2, NullAssumption DEF UsageInv, YoungestTells, RowTells

\* The total of a subscription's period counts what was used in it, no more.
LEMMA PeriodCounts ==
    ASSUME PageTypeOK, UsageInv, NEW t \in records, NEW s \in Subs, Follows(s)
    PROVE  Counted(t) <=> stripe[s].start <= t
<1>1. row.start = stripe[s].start /\ row.end = stripe[s].end
  BY DEF Follows, UsageInv, RowTells
<1>2. stripe[s].start \in Int /\ stripe[s].end \in Int
  BY TimeAssumption DEF PageTypeOK, Stripes, Times
<1>3. PeriodStart = stripe[s].start /\ PeriodEnd = stripe[s].end
  BY <1>1, <1>2, NullAssumption DEF PeriodStart, PeriodEnd
<1>4. t \in Int /\ now \in Int /\ t <= now /\ now <= stripe[s].end
  BY DEF Follows, PageTypeOK, UsageInv
<1>5. QED
  BY <1>2, <1>3, <1>4 DEF Counted

\* Without a period, the total counts the month up to its last midnight, no more.
LEMMA MonthCounts ==
    ASSUME PageTypeOK, UsageInv, NEW t \in records, row.start = Null
    PROVE  Counted(t) <=> Month(t) = Month(now) /\ t <= LastMidnight(t)
<1>1. PeriodStart = Month(now) /\ PeriodEnd = Month(now) + MonthLength - 2
  BY DEF UsageInv, PeriodStart, PeriodEnd, LastMidnight
<1>2. t \in Nat /\ now \in Nat /\ MonthLength \in Nat
  BY TimeAssumption DEF PageTypeOK
<1>3. /\ Month(t) \in Int /\ Month(t) <= t /\ Month(now) \in Int
      /\ Month(now) <= t /\ t < Month(now) + MonthLength => Month(t) = Month(now)
  BY <1>2, MonthOf
<1>4. LastMidnight(t) = Month(t) + MonthLength - 2
  BY DEF LastMidnight
<1>5. QED
  BY <1>1, <1>2, <1>3, <1>4 DEF Counted

\* However renewals, late and repeated events and the calendar fall: the total
\* shown is exactly the usage of the period that runs whenever the youngest event
\* of its subscription was handled last, and that of the month up to the moment
\* its last day begins while the organization never had a period.
THEOREM RunningUsageIsCounted == PageSpec => []UsageIsCounted
<1>1. PageTypeOK /\ UsageInv => UsageIsCounted
  BY PeriodCounts, MonthCounts DEF UsageIsCounted
<1>2. QED
  BY <1>1, PageInitialType, PageStepType, UsageInitially, UsageStep, PTL DEF PageSpec

=============================================================================
