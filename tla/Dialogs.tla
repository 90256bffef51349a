------------------------------ MODULE Dialogs ------------------------------
(***************************************************************************)
(* The dialogs that end in a session, AuthModal and EnrollmentModal        *)
(* (ui/src/components), and what opens and closes them in App.tsx.         *)
(*                                                                         *)
(* A step is a handler from one await to the next, with the render after   *)
(* it and the effects of that render.  The services and the browser's      *)
(* passkey prompt answer in any way, the form's definitions in any order.  *)
(* Answers to a dialog that is gone change nothing, but an enrollment that *)
(* succeeds signs in even so.                                              *)
(*                                                                         *)
(* A definition followed by its namesake (SwitchedAsItIs before Switched)  *)
(* is a mutation of it, used only to see that a property would notice it.  *)
(***************************************************************************)
EXTENDS Naturals

CONSTANT MaxFetches  \* bound of the requests of one kind in flight

ASSUME DialogsAssumption == MaxFetches \in Nat \ {0}

VARIABLES
  standing,   \* the page is there: a render that throws takes all of it away
  signedIn,   \* the page has a session
  exchanging, \* the code of a verification link is being exchanged
  auth,       \* the sign-in dialog
  fetching,   \* its requests for the definition of a form
  enroll,     \* the enrollment dialog
  crossed     \* the definition of another form came

dialogVars == <<standing, signedIn, exchanging, auth, fetching, enroll, crossed>>
signIn     == <<auth, fetching, crossed>>

Actions == {"login", "register"}

\* fields: whose definition the form has; filled: an address is typed;
\* flow: the request or the prompt that handleSubmit waits for.
NoAuth == [shown |-> FALSE, action |-> "login", state |-> "form", fields |-> "none", filled |-> FALSE,
           fieldErrors |-> FALSE, submitError |-> FALSE, loading |-> FALSE, flow |-> "none"]

NoEnrollment == [shown |-> FALSE, state |-> "prompt", flow |-> "none"]

-----------------------------------------------------------------------------
(* AuthModal *)

\* A render that throws: there is nothing to catch it.
Blank ==
  /\ standing' = FALSE
  /\ auth' = NoAuth /\ enroll' = NoEnrollment
  /\ fetching' = [a \in Actions |-> 0]
  /\ UNCHANGED crossed

\* The form is rendered with what it had, and throws if that has no fields;
\* then the effect of a change of action or state empties it and fetches.
Formed(form) ==
  IF form.fields = "unreadable"
    THEN Blank
    ELSE /\ fetching[form.action] < MaxFetches
         /\ fetching' = [fetching EXCEPT ![form.action] = @ + 1]
         /\ auth' = [form EXCEPT !.state = "form", !.fields = "none", !.filled = FALSE,
                                 !.fieldErrors = FALSE, !.submitError = FALSE]
         /\ crossed' = FALSE
         /\ UNCHANGED <<standing, enroll>>

OpenModal ==
  /\ ~ signedIn /\ ~ auth.shown
  /\ Formed([NoAuth EXCEPT !.shown = TRUE])
  /\ UNCHANGED <<signedIn, exchanging>>

\* By the backdrop even while loading; there is no way out of the prompt.
CloseModal ==
  /\ auth.shown /\ auth.state # "passkey-pending"
  /\ auth' = NoAuth
  /\ fetching' = [a \in Actions |-> 0]
  /\ UNCHANGED <<standing, signedIn, exchanging, enroll, crossed>>

FieldsAnswered(action) ==
  /\ fetching[action] > 0
  /\ fetching' = [fetching EXCEPT ![action] = @ - 1]
  /\ auth' = [auth EXCEPT !.fields = action, !.filled = FALSE]
  /\ crossed' = (crossed \/ action # auth.action)
  /\ UNCHANGED <<standing, signedIn, exchanging, enroll>>

FieldsFailed(action) ==
  /\ fetching[action] > 0
  /\ fetching' = [fetching EXCEPT ![action] = @ - 1]
  /\ auth' = [auth EXCEPT !.submitError = TRUE]
  /\ UNCHANGED <<standing, signedIn, exchanging, enroll, crossed>>

\* JSON that defines no form, such as the gateway's answer for a service
\* that is down, is kept before its fields are looked for.
FieldsUnreadable(action) ==
  /\ fetching[action] > 0
  /\ IF auth.state = "form"
       THEN Blank
       ELSE /\ fetching' = [fetching EXCEPT ![action] = @ - 1]
            /\ auth' = [auth EXCEPT !.fields = "unreadable", !.submitError = TRUE]
            /\ UNCHANGED <<standing, enroll, crossed>>
  /\ UNCHANGED <<signedIn, exchanging>>

Typing ==
  /\ auth.shown /\ auth.state = "form" /\ auth.fields # "none" /\ ~ auth.loading
  /\ auth' = [auth EXCEPT !.filled = ~ @]
  /\ UNCHANGED <<standing, signedIn, exchanging, enroll, fetching, crossed>>

SwitchedAsItIs(action) ==
  /\ auth' = [auth EXCEPT !.action = action, !.state = "form"]
  /\ UNCHANGED <<standing, enroll, fetching, crossed>>

\* The tab that is open already has no effect but to clear the error.
Switched(action) ==
  IF auth.state = "form" /\ auth.action = action
    THEN /\ auth' = [auth EXCEPT !.submitError = FALSE]
         /\ UNCHANGED <<standing, enroll, fetching, crossed>>
    ELSE Formed([auth EXCEPT !.action = action])

SwitchAction(action) ==
  /\ auth.shown
  /\ auth.state = "form" \/ (auth.state = "check-email" /\ action = "login")
  /\ Switched(action)
  /\ UNCHANGED <<signedIn, exchanging>>

HandleSubmit ==
  /\ auth.shown /\ auth.state = "form" /\ auth.fields # "none" /\ ~ auth.loading
  /\ auth' =
       IF auth.action = "register"
         THEN [auth EXCEPT !.submitError = FALSE, !.fieldErrors = FALSE, !.loading = TRUE, !.flow = "submit"]
       ELSE IF auth.filled
         THEN [auth EXCEPT !.submitError = FALSE, !.loading = TRUE, !.flow = "begin",
                           !.state = "passkey-pending"]
       ELSE [auth EXCEPT !.fieldErrors = TRUE]
  /\ UNCHANGED <<standing, signedIn, exchanging, enroll, fetching, crossed>>

\* From the options to the prompt, from the prompt to the verification.
After == [begin |-> "prompt", prompt |-> "complete"]

PasskeyAccepted ==
  /\ auth.flow \in DOMAIN After
  /\ auth' = [auth EXCEPT !.flow = After[@]]
  /\ UNCHANGED <<standing, signedIn, exchanging, enroll, fetching, crossed>>

LeftPending ==
  /\ auth' = [auth EXCEPT !.submitError = TRUE, !.flow = "none"]
  /\ UNCHANGED <<standing, enroll, fetching, crossed>>

\* The error is set together with the state, and the effect clears it.
BackToForm == Formed([auth EXCEPT !.loading = FALSE, !.flow = "none"])

PasskeyRefused ==
  /\ auth.flow \in {"begin", "prompt", "complete"}
  /\ BackToForm
  /\ UNCHANGED <<signedIn, exchanging>>

\* onSuccess closes the dialog.
PasskeyVerified ==
  /\ auth.flow = "complete"
  /\ signedIn' = TRUE
  /\ auth' = NoAuth
  /\ fetching' = [a \in Actions |-> 0]
  /\ UNCHANGED <<standing, exchanging, enroll, crossed>>

\* Whatever tab is open by now.
RegisterAnswered ==
  /\ auth.flow = "submit"
  /\ LET done == [auth EXCEPT !.loading = FALSE, !.flow = "none"]
     IN  auth' \in {[done EXCEPT !.state = "check-email"], [done EXCEPT !.fieldErrors = TRUE],
                   [done EXCEPT !.submitError = TRUE]}
  /\ UNCHANGED <<standing, signedIn, exchanging, enroll, fetching, crossed>>

-----------------------------------------------------------------------------
(* EnrollmentModal *)

\* The code may have expired; it may bring a session, or ask for a passkey.
ExchangeAnswered ==
  /\ exchanging
  /\ exchanging' = FALSE
  /\ \/ enroll' = [NoEnrollment EXCEPT !.shown = TRUE] /\ UNCHANGED signedIn
     \/ signedIn' = TRUE /\ UNCHANGED enroll
     \/ UNCHANGED <<enroll, signedIn>>
  /\ UNCHANGED <<standing, signIn>>

HandleEnroll ==
  /\ enroll.shown /\ enroll.state \in {"prompt", "error"}
  /\ enroll' = [enroll EXCEPT !.state = "enrolling", !.flow = "begin"]
  /\ UNCHANGED <<standing, signedIn, exchanging, signIn>>

EnrollAccepted ==
  /\ enroll.flow \in DOMAIN After
  /\ enroll' = [enroll EXCEPT !.flow = After[@]]
  /\ UNCHANGED <<standing, signedIn, exchanging, signIn>>

EnrollError == [enroll EXCEPT !.state = "error", !.flow = "none"]

EnrollRefused ==
  /\ enroll.flow \in {"begin", "prompt", "complete"}
  /\ enroll' = EnrollError
  /\ UNCHANGED <<standing, signedIn, exchanging, signIn>>

EnrollVerified ==
  /\ enroll.flow = "complete"
  /\ enroll' = [enroll EXCEPT !.state = "success", !.flow = "timer"]
  /\ UNCHANGED <<standing, signedIn, exchanging, signIn>>

\* onSuccess, after the pause.
EnrollDone ==
  /\ enroll.flow = "timer"
  /\ enroll' = NoEnrollment
  /\ signedIn' = TRUE
  /\ UNCHANGED <<standing, exchanging, signIn>>

-----------------------------------------------------------------------------
(* The page *)

\* Sign-out, or the end of the session; dialogs stay.
SessionEnds ==
  /\ signedIn
  /\ signedIn' = FALSE
  /\ UNCHANGED <<standing, exchanging, signIn, enroll>>

\* The development reset takes the enrollment off the screen only.
EnrollmentReset ==
  /\ signedIn' = FALSE
  /\ enroll' = [enroll EXCEPT !.shown = FALSE]
  /\ UNCHANGED <<standing, exchanging, signIn>>

\* The page is loaded again, from a link perhaps, with the session that is
\* stored by then.
Reload ==
  /\ standing' = TRUE
  /\ exchanging' \in BOOLEAN
  /\ auth' = NoAuth /\ enroll' = NoEnrollment
  /\ fetching' = [a \in Actions |-> 0]
  /\ crossed' = FALSE
  /\ signedIn' \in BOOLEAN

DialogsInit ==
  /\ standing = TRUE
  /\ signedIn = FALSE
  /\ exchanging \in BOOLEAN
  /\ auth = NoAuth /\ enroll = NoEnrollment
  /\ fetching = [a \in Actions |-> 0]
  /\ crossed = FALSE

PasskeyStep  == standing /\ (PasskeyAccepted \/ PasskeyRefused \/ PasskeyVerified)
RegisterStep == standing /\ RegisterAnswered
EnrollStep   == standing /\ (EnrollAccepted \/ EnrollRefused \/ EnrollVerified \/ EnrollDone)

DialogsNext ==
  \/ PasskeyStep \/ RegisterStep \/ EnrollStep
  \/ /\ standing
     /\ \/ OpenModal \/ CloseModal \/ Typing \/ HandleSubmit
        \/ \E action \in Actions : \/ FieldsAnswered(action) \/ FieldsFailed(action)
                                   \/ FieldsUnreadable(action) \/ SwitchAction(action)
        \/ ExchangeAnswered \/ HandleEnroll
        \/ SessionEnds \/ EnrollmentReset
  \/ Reload

\* Requests are answered or fail, and the browser's prompt times out; players
\* need not do anything.
DialogsFairness ==
  /\ WF_dialogVars(PasskeyStep) /\ WF_dialogVars(RegisterStep) /\ WF_dialogVars(EnrollStep)

DialogsSpec == DialogsInit /\ [][DialogsNext]_dialogVars /\ DialogsFairness

-----------------------------------------------------------------------------
\* Neither dialog waits for ever, although neither can be closed while the
\* passkey is awaited: whatever fails, a player can go on.
SignInEnds ==
  /\ auth.loading ~> ~ auth.loading
  /\ enroll.state \in {"enrolling", "success"} ~> enroll.state \notin {"enrolling", "success"}

\* However fast the tabs are switched, the form that is there when all
\* answers are is that of the open tab, unless an answer for the other came
\* after the switch.
FormFits ==
  auth.shown /\ auth.state = "form" /\ auth.fields # "none"
    /\ (\A a \in Actions : fetching[a] = 0) /\ ~ crossed
  => auth.fields = auth.action
=============================================================================
