-------------------------------- MODULE Forms --------------------------------
(***************************************************************************)
(* The form hook of frontend/src/hooks/useForm.ts in the three forms that     *)
(* use it: TaskForm.tsx, ApiKeyForm.tsx and EmailNotificationForm.tsx, whose *)
(* Button is disabled while a submission is under way.  One form is open at  *)
(* a time.                                                                  *)
(***************************************************************************)
EXTENDS Integers, Sequences, FiniteSets

CONSTANTS
    MaxTyped,     \* bound: changes of fields
    MaxSubmitted  \* bound: submissions

ASSUME FormsAssumption == MaxTyped \in Nat /\ MaxSubmitted \in Nat

VARIABLES
    form,        \* the form that is open
    values,      \* every field: whether its content passes, and who wrote it last
    errors,      \* the fields that show an error
    formError,   \* whether the error of the form is shown
    isSubmitting,
    inFlight,    \* the submissions under way, with the values they took
    accepted,    \* history: the values of the submissions that succeeded
    typed, submitted,
    sendStatus,      \* of the email form
    timers       \* its timers back to idle that are still to fire

formVars == <<form, values, errors, formError, isSubmitting, inFlight, accepted,
              typed, submitted, sendStatus, timers>>

\* The fields with rules, and one without; "late" is a client id or secret of
\* ApiKeyForm, whose name is a path that the change handler does not follow.
Fields == [task  |-> {"platform", "taskText"},
           key   |-> {"keyName", "label", "late"},
           email |-> {"email"}]
Ruled == {"platform", "taskText", "keyName", "email"}
AllFields == UNION {Fields[f] : f \in DOMAIN Fields}

\* A content is empty (or blank: the inputs are required, which blanks pass), one
\* that the rules refuse, or good; by is the change.
Content(what, by) == [what |-> what, by |-> by]
Passes(field, content) ==
    field \in Ruled => content.what = "good"

FormsInit ==
    /\ form = "none"
    /\ values = [f \in AllFields |-> Content("empty", 0)]
    /\ errors = {}
    /\ formError = FALSE /\ isSubmitting = FALSE
    /\ inFlight = {} /\ accepted = {}
    /\ typed = 0 /\ submitted = 0
    /\ sendStatus = "idle" /\ timers = 0

\* The first values of a form.  The platform of a task is the first credential's
\* if they are there by now, and stays empty when they come later.
InitialValues(credentials) ==
    [f \in AllFields |-> IF f = "taskText" \/ (f = "platform" /\ credentials)
                         THEN Content("good", 0) ELSE Content("empty", 0)]

OpenForm ==
    /\ form = "none"
    /\ form' \in DOMAIN Fields
    /\ \E credentials \in BOOLEAN : values' = InitialValues(credentials)
    /\ UNCHANGED <<errors, formError, isSubmitting, inFlight, accepted, typed, submitted,
                   sendStatus, timers>>

-----------------------------------------------------------------------------
(* useForm                                                                  *)

\* handleChange: the field loses its error, and the form its own.  While a
\* submission is under way the fields stay open.
HandleChange(f) ==
    /\ form # "none" /\ f \in Fields[form]
    /\ typed < MaxTyped
    /\ typed' = typed + 1
    /\ \E what \in {"empty", "bad", "good"} :
         values' = [values EXCEPT ![f] = Content(what, typed + 1)]
    /\ errors' = errors \ {f}
    /\ formError' = FALSE
    /\ UNCHANGED <<form, isSubmitting, inFlight, accepted, submitted, sendStatus, timers>>

\* validateForm
Invalid == {f \in Fields[form] : ~ Passes(f, values[f])}

\* The submit button of each form.  A disabled button also keeps Enter from
\* submitting.
ButtonEnabled == ~ isSubmitting /\ sendStatus # "sending"

\* handleSubmit, up to the await of onSubmit; the email form sets its status.
HandleSubmit ==
    /\ form # "none" /\ ButtonEnabled
    /\ submitted < MaxSubmitted
    /\ errors' = Invalid
    /\ \/ /\ Invalid # {}
          /\ UNCHANGED <<formError, isSubmitting, inFlight, submitted, sendStatus>>
       \/ /\ Invalid = {}
          /\ isSubmitting' = TRUE /\ formError' = FALSE
          /\ submitted' = submitted + 1
          /\ inFlight' = inFlight \cup {[id |-> submitted + 1, values |-> values]}
          /\ sendStatus' = IF form = "email" THEN "sending" ELSE sendStatus
    /\ UNCHANGED <<form, values, accepted, typed, timers>>

\* resetForm, with the values of the first render of the form that submitted.
FormReset == [f \in AllFields |-> Content("empty", 0)]

\* onSubmit returns.  ApiKeyForm empties its fields, whatever was typed since;
\* the email form shows that it has sent, and takes that back later.
SubmissionSucceeds(s) ==
    /\ s \in inFlight
    /\ inFlight' = inFlight \ {s} /\ accepted' = accepted \cup {s}
    /\ isSubmitting' = FALSE
    /\ IF form = "key"
       THEN values' = FormReset /\ errors' = {} /\ formError' = FALSE
       ELSE UNCHANGED <<values, errors, formError>>
    /\ sendStatus' = IF form = "email" THEN "sent" ELSE sendStatus
    /\ timers' = IF form = "email" THEN timers + 1 ELSE timers
    /\ UNCHANGED <<form, typed, submitted>>

\* onSubmit throws, as those of the other two forms may.
SubmissionFails(s) ==
    /\ s \in inFlight /\ form # "email"
    /\ inFlight' = inFlight \ {s}
    /\ isSubmitting' = FALSE /\ formError' = TRUE
    /\ UNCHANGED <<form, values, errors, accepted, typed, submitted, sendStatus, timers>>

\* A timer of an earlier submission does not know of a later one.
StatusTimerFires ==
    /\ timers > 0
    /\ timers' = timers - 1
    /\ sendStatus' = "idle"
    /\ UNCHANGED <<form, values, errors, formError, isSubmitting, inFlight, accepted,
                   typed, submitted>>

FormsNext ==
    \/ OpenForm
    \/ \E f \in AllFields : HandleChange(f)
    \/ HandleSubmit
    \/ \E s \in inFlight : SubmissionSucceeds(s) \/ SubmissionFails(s)
    \/ StatusTimerFires

-----------------------------------------------------------------------------
FormsTypeOK ==
    /\ form \in DOMAIN Fields \cup {"none"}
    /\ DOMAIN values = AllFields
    /\ errors \subseteq AllFields
    /\ formError \in BOOLEAN /\ isSubmitting \in BOOLEAN
    /\ sendStatus \in {"idle", "sending", "sent"}
    /\ timers \in 0 .. MaxSubmitted

(* At most one submission is under way, exactly while the form says so, and  *)
(* what it took had passed every rule, whatever is typed meanwhile; an error  *)
(* stands only at a field whose content is still the refused one; the form's  *)
(* error never stands beside a submission under way; the email form says      *)
(* that it is sending only while it is, though a timer of an earlier          *)
(* submission may take that back early.                                     *)
FormsHonest ==
    /\ Cardinality(inFlight) <= 1
    /\ isSubmitting <=> inFlight # {}
    /\ \A s \in inFlight \cup accepted : \A f \in Fields[form] : Passes(f, s.values[f])
    /\ \A f \in errors : ~ Passes(f, values[f])
    /\ formError => inFlight = {}
    /\ sendStatus = "sending" => inFlight # {}

=============================================================================
