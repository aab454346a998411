---------------------------- MODULE Credentials ----------------------------
(***************************************************************************)
(* The forms through which a person makes an account and keeps its         *)
(* credentials: SignupPage, VerifyEmailPage, ForgotPasswordPage,           *)
(* ResetPasswordPage and the two forms of ProfilePage, against Better Auth *)
(* as auth.config.ts sets it up.                                           *)
(*                                                                         *)
(* One person in one tab, so one page at a time.  What is typed into a     *)
(* form is one input: the address, the new password, the name.  Better     *)
(* Auth may refuse any call (a taken address, a wrong password, the rate   *)
(* limit, a fault, a reset link that could not be sent), an answer may be  *)
(* lost after the work was done, and a sign-up may fail after it: the user *)
(* is there before the verification email is sent.  A page that is left    *)
(* loses its state.                                                        *)
(* Left out: what the messages say, pages opened without their link, the   *)
(* sessions of the account, and what an approval does with it (Accounts,   *)
(* UserManagement).                                                        *)
(***************************************************************************)
EXTENDS Integers

CONSTANTS
    Inputs,     \* what may be typed
    Weak,       \* the inputs changePasswordSchema does not accept
    MaxVisits,  \* bound on the pages visited
    None

ASSUME InputAssumption == Weak \subseteq Inputs /\ Inputs # {} /\ None \notin Inputs
ASSUME VisitAssumption == MaxVisits \in Nat

VARIABLES
    visits,     \* pages visited so far
    at,         \* the page's forms
    form,       \* [Forms -> the state a form's component keeps]
    call,       \* [Forms -> the call the form waits for]
    name,       \* the account's name
    store,      \* the name the session store has
    mailed,     \* a reset link waits in the mailbox
    usedUp,     \* the reset link that is open has been used
    \* history, for the properties only
    done,       \* [Forms -> the last input the server took from the visit]
    lost,       \* [Forms -> an answer to the visit was lost]
    unsent      \* [Forms -> done, but the email that belongs to it was not sent]

visit == <<visits, at>>
server == <<name, mailed, usedUp>>
history == <<done, lost, unsent>>
vars == <<visits, at, form, call, name, store, mailed, usedUp, done, lost, unsent>>

------------------------------------------------------------------------------

Forms == {"signup", "verify", "forgot", "reset", "change", "name"}

\* Forms whose request is a React Query mutation sent with axios: one state
\* instead of the flags, which mutate() clears, and a timeout.
Mutations == {"verify", "forgot", "reset"}

\* Forms whose success takes the form's place.
Replaced == {"signup", "verify", "forgot", "reset"}

\* What a page mounts together.
Pages == {{f} : f \in Replaced} \cup {{"change", "name"}}

Fresh(field) == [field |-> field, agrees |-> TRUE, invalid |-> FALSE, error |-> FALSE,
                 pending |-> FALSE, success |-> FALSE, sent |-> None]

Components == [field : Inputs \cup {None}, agrees : BOOLEAN, invalid : BOOLEAN, error : BOOLEAN,
               pending : BOOLEAN, success : BOOLEAN, sent : Inputs \cup {None}]

Calls == {"none", "out", "taken", "refused"}

TypeOK ==
    /\ visits \in 0..MaxVisits
    /\ at \in Pages
    /\ form \in [Forms -> Components]
    /\ call \in [Forms -> Calls]
    /\ name \in Inputs /\ store \in Inputs
    /\ mailed \in BOOLEAN /\ usedUp \in BOOLEAN
    /\ done \in [Forms -> Inputs \cup {None}]
    /\ lost \in [Forms -> BOOLEAN] /\ unsent \in [Forms -> BOOLEAN]
    /\ \A f \in Forms \ at : form[f] = Fresh(None) /\ call[f] = "none"

Init ==
    /\ visits = 0
    /\ at = {"signup"}
    /\ form = [f \in Forms |-> Fresh(None)]
    /\ call = [f \in Forms |-> "none"]
    /\ name \in Inputs /\ store = name
    /\ mailed = FALSE /\ usedUp = FALSE
    /\ done = [f \in Forms |-> None]
    /\ lost = [f \in Forms |-> FALSE] /\ unsent = [f \in Forms |-> FALSE]

------------------------------------------------------------------------------
(***************************************************************************)
(* Better Auth.  A reset link works once; any link may have expired.  An   *)
(* address has one account.                                                *)
(***************************************************************************)
Takeable(f) ==
    /\ call[f] = "out"
    /\ f = "reset" => ~usedUp
    /\ f = "signup" => done[f] # form[f].sent

Take(f) ==
    /\ Takeable(f)
    /\ call' = [call EXCEPT ![f] = "taken"]
    /\ done' = [done EXCEPT ![f] = form[f].sent]
    /\ usedUp' = (usedUp \/ f = "reset")
    /\ mailed' = (mailed \/ f = "forgot")
    /\ name' = IF f = "name" THEN form[f].sent ELSE name
    /\ unsent' = [unsent EXCEPT ![f] = FALSE]
    /\ UNCHANGED <<visits, at, form, store, lost>>

\* sendVerificationEmail throws when Postmark does: the call fails, with the
\* user already created.
TakeWithoutEmail ==
    /\ Takeable("signup")
    /\ call' = [call EXCEPT !["signup"] = "refused"]
    /\ done' = [done EXCEPT !["signup"] = form["signup"].sent]
    /\ unsent' = [unsent EXCEPT !["signup"] = TRUE]
    /\ UNCHANGED <<visits, at, form, store, server, lost>>

Refuse(f) ==
    /\ call[f] = "out"
    /\ call' = [call EXCEPT ![f] = "refused"]
    /\ UNCHANGED <<visits, at, form, store, server, history>>

\* updateUser wakes the session store, which asks for the session again.
RefetchSession ==
    /\ store # name
    /\ store' = name
    /\ UNCHANGED <<visit, form, call, server, history>>

------------------------------------------------------------------------------
(***************************************************************************)
(* What every page does.  Inputs are disabled while a call is pending; a   *)
(* form that success has replaced has none.                                *)
(***************************************************************************)

Open(f) == f \in at /\ ~(f \in Replaced /\ form[f].success)

Editable(f) == Open(f) /\ f # "verify" /\ ~form[f].pending

\* A form the browser and the button let through.
Ready(f) == Open(f) /\ form[f].field # None /\ form[f].agrees /\ ~form[f].pending

\* What the page of f takes from the address or the session as it mounts.
Given(f, link) == CASE f = "verify" -> link [] f = "name" -> store [] OTHER -> None

\* Mutant: a form left with a call under way is still waiting when it is shown again.
VisitWaiting(page, link) ==
    /\ visits < MaxVisits
    /\ page # at
    /\ page = {"reset"} => mailed
    /\ visits' = visits + 1
    /\ at' = page
    /\ form' = [f \in Forms |-> IF f \in page THEN Fresh(Given(f, link))
                               ELSE [Fresh(None) EXCEPT !.pending = form[f].pending]]
    /\ call' = [f \in Forms |-> "none"]
    /\ mailed' = (mailed /\ page # {"reset"})
    /\ usedUp' = FALSE
    /\ done' = [f \in Forms |-> None]
    /\ lost' = [f \in Forms |-> FALSE] /\ unsent' = [f \in Forms |-> FALSE]
    /\ UNCHANGED <<name, store>>

\* Another page, which a reset link from the mailbox may lead to.  A call that
\* is out goes its way unobserved.
Visit(page, link) ==
    /\ visits < MaxVisits
    /\ page # at
    /\ page = {"reset"} => mailed
    /\ visits' = visits + 1
    /\ at' = page
    /\ form' = [f \in Forms |-> IF f \in page THEN Fresh(Given(f, link)) ELSE Fresh(None)]
    /\ call' = [f \in Forms |-> "none"]
    /\ name' \in {name} \cup {form[f].sent : f \in {g \in {"name"} : call[g] = "out"}}
    /\ \E late \in {FALSE, call["forgot"] = "out"} :
           mailed' = (late \/ (mailed /\ page # {"reset"}))
    /\ usedUp' = FALSE
    /\ done' = [f \in Forms |-> None]
    /\ lost' = [f \in Forms |-> FALSE] /\ unsent' = [f \in Forms |-> FALSE]
    /\ UNCHANGED store

\* Mutant: handleChange leaves the messages of the last call in place.
TypeUnder(f, input, agrees) ==
    /\ Editable(f)
    /\ form' = [form EXCEPT ![f].field = input, ![f].agrees = agrees]
    /\ UNCHANGED <<visit, call, store, server, history>>

\* handleChange: the forms of the profile page clear their messages.  The second
\* password field, where there is one, may differ.
Type(f, input, agrees) ==
    /\ Editable(f)
    /\ agrees \/ f \in {"reset", "change"}
    /\ LET typed == [form[f] EXCEPT !.field = input, !.agrees = agrees]
       IN  form' = [form EXCEPT ![f] =
                       IF f \in {"change", "name"}
                       THEN [typed EXCEPT !.invalid = FALSE, !.error = FALSE, !.success = FALSE]
                       ELSE typed]
    /\ UNCHANGED <<visit, call, store, server, history>>

Send(f, state) ==
    /\ form' = [form EXCEPT ![f] = [state EXCEPT !.pending = TRUE, !.error = FALSE,
                                                 !.sent = state.field]]
    /\ call' = [call EXCEPT ![f] = "out"]
    /\ UNCHANGED <<visit, store, server, history>>

\* Mutant: the button of a reset stays enabled while a reset is pending.
MutateAgain(f) ==
    /\ Open(f) /\ form[f].field # None /\ form[f].agrees
    /\ call[f] # "out"
    /\ f = "verify" => ~form[f].pending /\ ~form[f].error
    /\ Send(f, [form[f] EXCEPT !.success = FALSE])

\* handleSubmit of ForgotPasswordPage and ResetPasswordPage, and the effect of
\* VerifyEmailPage, which only starts a mutation nothing has been heard of.
Mutate(f) ==
    /\ Ready(f)
    /\ f = "verify" => ~form[f].error
    /\ Send(f, [form[f] EXCEPT !.success = FALSE])

SignUp ==
    /\ Ready("signup")
    /\ Send("signup", form["signup"])

\* handleSubmit of ChangePasswordCard.  The button is disabled over a mismatch.
ChangePassword ==
    /\ Ready("change")
    /\ IF form["change"].field \in Weak
       THEN /\ form' = [form EXCEPT !["change"].invalid = TRUE]
            /\ UNCHANGED <<visit, call, store, server, history>>
       ELSE Send("change", [form["change"] EXCEPT !.invalid = FALSE])

\* handleSubmit of ProfilePage: the success of an earlier call is not cleared.
UpdateUser ==
    /\ Ready("name") /\ form["name"].field # store
    /\ Send("name", form["name"])

\* The answer is back.  A password that was changed empties its form.
Answer(f) ==
    /\ call' = [call EXCEPT ![f] = "none"]
    /\ \/ /\ call[f] = "refused"
          /\ form' = [form EXCEPT ![f].pending = FALSE, ![f].error = TRUE]
       \/ /\ call[f] = "taken"
          /\ form' = [form EXCEPT ![f].pending = FALSE, ![f].success = TRUE,
                                  ![f].field = IF f = "change" THEN None ELSE @]
    /\ UNCHANGED <<visit, store, server, history>>

\* No answer comes.  axios gives up and the mutation fails; fetch may throw, and
\* then nothing after the await of handleSubmit runs.
LoseAnswer(f) ==
    /\ call[f] # "none"
    /\ call' = [call EXCEPT ![f] = "none"]
    /\ lost' = [lost EXCEPT ![f] = TRUE]
    /\ \/ form' = [form EXCEPT ![f].pending = FALSE, ![f].error = TRUE]
       \/ f \notin Mutations /\ UNCHANGED form
    /\ UNCHANGED <<visit, store, server, done, unsent>>

TryAnotherEmail ==
    /\ "forgot" \in at /\ form["forgot"].success
    /\ form' = [form EXCEPT !["forgot"] = Fresh(None)]
    /\ UNCHANGED <<visit, call, store, server, history>>

Next ==
    \/ \E f \in Forms : Take(f) \/ Refuse(f) \/ Answer(f) \/ LoseAnswer(f)
    \/ \E f \in Mutations : Mutate(f)
    \/ \E f \in Forms, input \in Inputs, agrees \in BOOLEAN : Type(f, input, agrees)
    \/ \E page \in Pages, link \in Inputs : Visit(page, link)
    \/ TakeWithoutEmail \/ RefetchSession
    \/ SignUp \/ ChangePassword \/ UpdateUser \/ TryAnotherEmail

Spec == Init /\ [][Next]_vars

------------------------------------------------------------------------------
(***************************************************************************)
(* Properties.                                                             *)
(***************************************************************************)

Shown(f) == IF f = "change" THEN form[f].sent ELSE form[f].field

\* What a form reports as done, the server has done with the input the form
\* shows, or sent last before it emptied itself: the address a link was sent to,
\* the password or the name that is now the account's.
SuccessIsTrue ==
    \A f \in Forms : form[f].success => Shown(f) = done[f] /\ done[f] # None

UsedOnce == {"signup", "verify", "reset"}

\* A form that is there to be used once (a sign-up, a verification, a reset whose
\* link works once) reports what the server has done for it, or still waits for
\* the answer, unless an answer was lost, or the account was made and the email
\* to verify it could not be sent: the form then shows an error, and sending it
\* again with the same address cannot succeed.
NothingDoneUnsaid ==
    \A f \in UsedOnce : done[f] # None =>
        \/ form[f].pending \/ form[f].success
        \/ lost[f]
        \/ f = "signup" /\ unsent[f]
=============================================================================
