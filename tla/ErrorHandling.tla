---------------------------- MODULE ErrorHandling ----------------------------
(***************************************************************************)
(* A call that is retried by one of the three helpers of src/utils/retry.ts, *)
(* src/utils/errorHandling.ts and src/shared/errorHandler.ts, and the way of  *)
(* the error it ends with, an error of src/shared/errorTypes.ts or any other, *)
(* through the wrappers of src/shared/errorHandler.ts and                    *)
(* src/utils/apiErrorHandler.ts to the answer of the server.                 *)
(***************************************************************************)
EXTENDS Integers, Sequences

CONSTANTS
    MaxRetries,  \* bound: retries a caller asks for; 3 by default in the code
    MaxDelay,    \* maxTimeout and maxDelay, the first delay being 1; 30 in the code
    MaxWraps     \* bound: wrappers an error passes through

ASSUME ErrorHandlingAssumption ==
    MaxRetries \in Nat /\ MaxDelay \in Nat \ {0} /\ MaxWraps \in Nat

VARIABLES
    retryCall, \* the helper, what its caller asked for, where it is, the delay it has
               \* come to and the time it waits
    outcomes,  \* history: how every call of the function ended
    thrown,    \* history: the kind of error it threw last
    error,     \* the error on its way: status, isOperational and code
    wraps,     \* wrappers passed
    answer     \* the answer of the server

errorVars == <<retryCall, outcomes, thrown, error, wraps, answer>>

\* The classes of errorTypes.ts; "coded" is a CodedError made with no error code.
Class(status, operational, code) == [status |-> status, operational |-> operational, code |-> code]
Classes ==
    [validation     |-> Class(400, TRUE, "VALIDATION_ERROR"),
     authentication |-> Class(401, TRUE, "AUTHENTICATION_FAILED"),
     authorization  |-> Class(403, TRUE, "AUTHORIZATION_FAILED"),
     notFound       |-> Class(404, TRUE, "NOT_FOUND"),
     database       |-> Class(500, TRUE, "DATABASE_ERROR"),
     external       |-> Class(502, TRUE, "EXTERNAL_SERVICE_ERROR"),
     rateLimit      |-> Class(429, TRUE, "RATE_LIMIT_EXCEEDED"),
     workflow       |-> Class(500, TRUE, "WORKFLOW_ERROR"),
     email          |-> Class(500, TRUE, "EMAIL_ERROR"),
     taskParsing    |-> Class(400, TRUE, "TASK_PARSING_ERROR"),
     scheduler      |-> Class(500, TRUE, "SCHEDULER_ERROR"),
     configuration  |-> Class(500, FALSE, "CONFIGURATION_ERROR"),
     internal       |-> Class(500, FALSE, "INTERNAL_ERROR"),
     coded          |-> Class(500, TRUE, "UNEXPECTED_ERROR")]

\* Errors of other kinds: an Error, and the one of express.json for a body it
\* cannot parse, which has a status and neither of the other two.
OtherErrors == [plain |-> Class(0, FALSE, "none"), parse |-> Class(400, FALSE, "none")]
NoError == Class(0, TRUE, "none")

Thrown(kind) == IF kind \in DOMAIN Classes THEN Classes[kind] ELSE OtherErrors[kind]
ErrorKinds == DOMAIN Classes \cup DOMAIN OtherErrors

\* isAppError
IsAppError(e) == e.code # "none"

ToAppError(e) == IF IsAppError(e) THEN e ELSE Classes.internal

ErrorsInit ==
    /\ retryCall = [helper |-> "none", limit |-> 0, attempt |-> 0, delay |-> 1, wait |-> 0,
                   noted |-> 0, at |-> "idle", broken |-> FALSE]
    /\ outcomes = <<>> /\ thrown = "none"
    /\ error = NoError /\ wraps = 0
    /\ answer = NoError

-----------------------------------------------------------------------------
(* The helpers.  "result" is retryWithResult, around retry.                  *)

Helpers == {"direct", "retry", "result", "executeWithRetry", "retryWithBackoff"}

BeginRetrying ==
    /\ retryCall.at = "idle"
    /\ \E h \in Helpers, n \in 0 .. MaxRetries :
         /\ h = "direct" => n = 0
         /\ retryCall' = [retryCall EXCEPT !.helper = h, !.limit = n, !.at = "calling"]
    /\ UNCHANGED <<outcomes, thrown, error, wraps, answer>>

CallReturns ==
    /\ retryCall.at = "calling"
    /\ outcomes' = Append(outcomes, "returned")
    /\ retryCall' = [retryCall EXCEPT !.at = "returned"]
    /\ UNCHANGED <<thrown, error, wraps, answer>>

\* Mutant: the helpers count alike.
RetriesUsedUpEarly(h, failed) == failed >= retryCall.limit

\* retry and executeWithRetry count retries, retryWithBackoff counts calls.
RetriesUsedUp(h, failed) ==
    IF h = "retryWithBackoff" THEN failed >= retryCall.limit ELSE failed > retryCall.limit

Capped(delay) == IF delay > MaxDelay THEN MaxDelay ELSE delay

\* The delay that doubles is capped in retry and retryWithBackoff.
NextDelay(h) == IF h = "executeWithRetry" THEN retryCall.delay * 2 ELSE Capped(retryCall.delay * 2)

\* The time to wait.  retry adds its jitter to the capped delay, from a half of
\* it to one and a half, rounded down; the others wait for the delay itself.
TimeToWait(h) ==
    LET d == retryCall.delay
    IN  IF h \in {"retry", "result"} THEN {w \in 0 .. 2 * d : d <= 2 * w + 1 /\ 2 * w < 3 * d}
                                    ELSE {d}

\* The function fails.  The caller's condition takes the error for one to be
\* retried or not, or the time of retry is up; retryWithBackoff throws what it
\* has converted, the others what they caught.
CallThrows ==
    /\ retryCall.at = "calling"
    /\ \E kind \in ErrorKinds, again \in BOOLEAN :
         LET h == retryCall.helper
             failed == retryCall.attempt + 1
             ends == h = "direct" \/ RetriesUsedUp(h, failed) \/ ~ again
         IN
         /\ outcomes' = Append(outcomes, IF again THEN "failed" ELSE "refused")
         /\ thrown' = kind
         /\ error' = IF h = "retryWithBackoff" THEN ToAppError(Thrown(kind)) ELSE Thrown(kind)
         /\ retryCall' = [retryCall EXCEPT !.attempt = failed,
                                         !.at = IF ends THEN "threw" ELSE "noting"]
    /\ UNCHANGED <<wraps, answer>>

\* The callback onRetry, which may itself throw; retryWithResult notes the
\* attempt first.
NoteRetry ==
    /\ retryCall.at = "noting"
    /\ LET noted == [retryCall EXCEPT !.noted = retryCall.attempt] IN
         \/ \E w \in TimeToWait(retryCall.helper) :
                retryCall' = [noted EXCEPT !.at = "waiting", !.wait = w]
         \/ /\ retryCall.helper \in {"retry", "result"}
            /\ retryCall' = [noted EXCEPT !.at = "threw", !.broken = TRUE]
    /\ UNCHANGED <<outcomes, thrown, error, wraps, answer>>

DelayEnds ==
    /\ retryCall.at = "waiting"
    /\ retryCall' = [retryCall EXCEPT !.at = "calling", !.wait = 0,
                                      !.delay = NextDelay(retryCall.helper)]
    /\ UNCHANGED <<outcomes, thrown, error, wraps, answer>>

-----------------------------------------------------------------------------
(* The wrappers                                                             *)

Wrap(e) ==
    /\ retryCall.at = "threw" /\ answer = NoError /\ wraps < MaxWraps
    /\ error' = e
    /\ wraps' = wraps + 1
    /\ UNCHANGED <<retryCall, outcomes, thrown, answer>>

\* tryCatch: an error that is not operational gets the code of its caller.
TryCatch ==
    LET e == ToAppError(error)
    IN  Wrap(IF e.operational THEN e ELSE [e EXCEPT !.code = "UNEXPECTED_ERROR"])

\* handleApiError: the code that says nothing is replaced.
HandleApiError ==
    LET e == ToAppError(error)
    IN  Wrap(IF e.code = "UNEXPECTED_ERROR" THEN [e EXCEPT !.code = "INTERNAL_ERROR"] ELSE e)

AsyncHandler == Wrap(ToAppError(error))

\* tryCatchWithContext logs and throws on.
TryCatchWithContext == Wrap(error)

\* errorHandlerMiddleware, or createErrorResponse.
ErrorHandlerMiddleware ==
    /\ retryCall.at = "threw" /\ answer = NoError
    /\ answer' = ToAppError(error)
    /\ UNCHANGED <<retryCall, outcomes, thrown, error, wraps>>

ErrorsNext ==
    \/ BeginRetrying \/ CallReturns \/ CallThrows \/ NoteRetry \/ DelayEnds
    \/ TryCatch \/ HandleApiError \/ AsyncHandler \/ TryCatchWithContext
    \/ ErrorHandlerMiddleware

-----------------------------------------------------------------------------
ErrorsTypeOK ==
    /\ retryCall.helper \in Helpers \cup {"none"}
    /\ retryCall.at \in {"idle", "calling", "noting", "waiting", "returned", "threw"}
    /\ retryCall.delay \in Nat \ {0} /\ retryCall.wait \in Nat
    /\ outcomes \in Seq({"returned", "failed", "refused"})
    /\ thrown \in ErrorKinds \cup {"none"}
    /\ wraps \in 0 .. MaxWraps

Calls == Len(outcomes)
\* retryWithResult: one more than the last attempt that was noted.
Reported == retryCall.noted + 1

(* A helper calls as often as its caller allows and no more, ends with the   *)
(* first success or refusal, and gives up before the last call only for a    *)
(* refusal or a callback that throws; the attempts that retryWithResult       *)
(* reports are the calls, one more if its callback threw; and the time it     *)
(* waits never passes the maximum by half or more, but in executeWithRetry.  *)
RetriesHonest ==
    LET h == retryCall.helper
        allowed == IF h = "retryWithBackoff" THEN IF retryCall.limit = 0 THEN 1 ELSE retryCall.limit
                                             ELSE retryCall.limit + 1
    IN
    /\ retryCall.at # "idle" => Calls <= allowed
    /\ \A i \in 1 .. Calls :
         outcomes[i] # "failed" => i = Calls /\ retryCall.at \in {"returned", "threw"}
    /\ retryCall.at = "returned" => outcomes[Calls] = "returned"
    /\ retryCall.at = "threw" =>
         Calls = allowed \/ outcomes[Calls] = "refused" \/ retryCall.broken
    /\ h = "result" /\ retryCall.at \in {"returned", "threw"} =>
         Reported = Calls + (IF retryCall.broken THEN 1 ELSE 0)
    /\ h # "executeWithRetry" => 2 * retryCall.wait < 3 * MaxDelay

(* Whatever wrappers an error has passed, the client gets the status of its  *)
(* class, 500 for any error without one, and its code, unless the error was   *)
(* not operational or its code said nothing.                                *)
ErrorsHonest ==
    LET class == ToAppError(Thrown(thrown)) IN
    answer # NoError =>
        /\ answer.status = class.status /\ answer.operational = class.operational
        /\ class.operational /\ class.code # "UNEXPECTED_ERROR" => answer.code = class.code
        /\ thrown \in DOMAIN OtherErrors => answer.status = 500

=============================================================================
