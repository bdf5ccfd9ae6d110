--------------------------- MODULE CircuitBreaker ---------------------------
(***************************************************************************)
(* Completions asked of OpenAI: generateWithFallback of                     *)
(* src/core/ai/modelFallback.ts goes through the models, generateCompletion *)
(* of src/core/ai/openai.ts through its attempts, and every attempt through *)
(* execute of src/utils/circuitBreaker.ts, whose circuit is a row of        *)
(* circuit_breaker_state that all requests read and write in statements of  *)
(* their own.                                                              *)
(*                                                                         *)
(* The circuit is the one kept in the table; the code makes no other.  Its  *)
(* row is there from the start: the first getState inserts it, and reads no *)
(* row as what it inserts.  The capabilities of the models are left out:    *)
(* any two of the default ones share one.                                  *)
(***************************************************************************)
EXTENDS Integers

CONSTANTS
    Completions,        \* requests for a completion
    NumModels,          \* the models, numbered in the order of their tiers
    FailureThreshold, SuccessThreshold,
    MaxAttemptsAtModel, \* maxRetries of the OpenAI service
    MaxBreakerEvents    \* bound: failed statements, resets and changes of models together

Models == 1 .. NumModels

ASSUME BreakerAssumption ==
    /\ NumModels \in Nat \ {0} /\ MaxAttemptsAtModel \in Nat \ {0}
    /\ FailureThreshold \in Nat /\ SuccessThreshold \in Nat

VARIABLES
    breaker,     \* the row: state, failures, successes and last_failure_ms
    enabled,     \* the models that are enabled
    completion,  \* where each request is, its attempts, the models it has left, to be
                 \* tried in order, and whether it will look for others
    failedCalls, \* history: calls that failed or timed out, up to one beyond the threshold
    okCalls,     \* history: calls that succeeded, likewise
    opened,      \* history: the circuit has been opened since it was last reset
    breakerUsed  \* how much of the bound has been used

breakerVars == <<breaker, enabled, completion,
                 failedCalls, okCalls, opened, breakerUsed>>

-----------------------------------------------------------------------------
CompletionAt == {"idle",
                 "state", "age", "halfState", "halfWrite",       \* execute
                 "call",                                         \* executeWithTimeout
                 "okRead", "closeState", "closeWrite", "okWrite", \* recordSuccess
                 "failState", "failRead", "openState", "openWrite",
                 "stamp", "failWrite",                           \* recordFailure
                 "log",                                          \* logCompletion
                 "answered", "refused"}                          \* over

CompletionOver == {"answered", "refused"}

BreakerInit ==
    /\ breaker = [state |-> "closed", failures |-> 0, successes |-> 0, failedAt |-> "past"]
    /\ enabled = Models
    /\ completion = [c \in Completions |-> [at |-> "idle", attempts |-> 0, models |-> {},
                                            fallback |-> FALSE]]
    /\ failedCalls = 0 /\ okCalls = 0
    /\ opened = FALSE
    /\ breakerUsed = 0

Asks(c, label) == completion[c].at = label

\* Where a request goes on; "failed" is execute throwing, the end of an attempt:
\* the last one is logged, another waits and follows.
CompletionGoto(c, label) ==
    LET n == completion[c].attempts + 1
        k == IF label = "failed" THEN n ELSE completion[c].attempts
        l == IF label # "failed" THEN label
             ELSE IF n >= MaxAttemptsAtModel THEN "log" ELSE "state"
    IN  completion' = [completion EXCEPT ![c] = [@ EXCEPT !.at = l, !.attempts = k]]

-----------------------------------------------------------------------------
(* generateFromTemplate and generateWithFallback                            *)

\* getFallbackModels: none when the model asked for has been disabled since.
FallbackModels(m) == IF m \in enabled THEN enabled \ {m} ELSE {}

\* A request names a model; the fallback manager looks whether it is enabled.
AskModel(c, m, fallback) ==
    /\ Asks(c, "idle")
    /\ LET found == fallback => m \in enabled IN
         completion' = [completion EXCEPT ![c] =
             [@ EXCEPT !.at = IF found THEN "state" ELSE "refused",
                       !.models = {m}, !.fallback = fallback]]
    /\ UNCHANGED <<breaker, enabled, failedCalls, okCalls, opened,
                   breakerUsed>>

\* What follows when every attempt of generateCompletion at a model has failed.
AfterModel(c) ==
    LET left  == completion[c].models
        tried == CHOOSE m \in left : \A n \in left : m <= n
        next  == IF completion[c].fallback THEN FallbackModels(tried) ELSE left \ {tried}
    IN  [at |-> IF next = {} THEN "refused" ELSE "state",
         attempts |-> 0, models |-> next, fallback |-> FALSE]

\* The row in the audit log, whose failure is swallowed.
LogFailure(c) ==
    /\ Asks(c, "log")
    /\ completion' = [completion EXCEPT ![c] = AfterModel(c)]
    /\ UNCHANGED <<breaker, enabled, failedCalls, okCalls, opened, breakerUsed>>

-----------------------------------------------------------------------------
(* execute: reading the circuit                                             *)

\* Mutant: any count of failures will do.
FailuresIgnored(n) == n >= 0
FailuresReached(n) == n >= FailureThreshold
SuccessesReached(n) == n >= SuccessThreshold

\* What a read finds, and where it leads.
AfterRead(c) ==
    CASE Asks(c, "state")      -> IF breaker.state = "open" THEN "age" ELSE "call"
      [] Asks(c, "age")        -> IF breaker.failedAt = "now" THEN "failed" ELSE "halfState"
      [] Asks(c, "halfState")  -> IF breaker.state = "half-open" THEN "call" ELSE "halfWrite"
      [] Asks(c, "okRead")     -> IF SuccessesReached(breaker.successes)
                                  THEN "closeState" ELSE "okWrite"
      [] Asks(c, "closeState") -> IF breaker.state = "closed" THEN "answered" ELSE "closeWrite"
      [] Asks(c, "failState")  -> IF breaker.state = "open" THEN "failed" ELSE "failRead"
      [] Asks(c, "failRead")   -> IF FailuresReached(breaker.failures)
                                  THEN "openState" ELSE "failWrite"
      [] Asks(c, "openState")  -> IF breaker.state = "open" THEN "stamp" ELSE "openWrite"

\* A read that fails counts as a closed circuit, or as no failure so far; the
\* reads of the counters end the recording.
AfterFailedRead(c) ==
    CASE Asks(c, "state")      -> "call"
      [] Asks(c, "age")        -> "halfState"
      [] Asks(c, "halfState")  -> "halfWrite"
      [] Asks(c, "okRead")     -> "answered"
      [] Asks(c, "closeState") -> "answered"
      [] Asks(c, "failState")  -> "failRead"
      [] Asks(c, "failRead")   -> "failed"
      [] Asks(c, "openState")  -> "openWrite"

BreakerReads == {"state", "age", "halfState", "okRead", "closeState",
                 "failState", "failRead", "openState"}

ReadBreaker(c) ==
    /\ completion[c].at \in BreakerReads
    /\ CompletionGoto(c, AfterRead(c))
    /\ UNCHANGED <<breaker, enabled, failedCalls, okCalls, opened,
                   breakerUsed>>

-----------------------------------------------------------------------------
(* execute: writing it                                                      *)

AfterWrite(c) ==
    CASE Asks(c, "halfWrite") -> "call"
      [] Asks(c, "openWrite") -> "stamp"
      [] completion[c].at \in {"stamp", "failWrite"} -> "failed"
      [] completion[c].at \in {"closeWrite", "okWrite"} -> "answered"

\* No transition touches the counters.
BreakerWritten(c) ==
    CASE Asks(c, "halfWrite")  -> [breaker EXCEPT !.state = "half-open"]
      [] Asks(c, "openWrite")  -> [breaker EXCEPT !.state = "open"]
      [] Asks(c, "closeWrite") -> [breaker EXCEPT !.state = "closed"]
      [] Asks(c, "stamp")      -> [breaker EXCEPT !.failedAt = "now"]
      [] Asks(c, "failWrite")  -> [breaker EXCEPT !.failures = @ + 1]
      [] Asks(c, "okWrite")    -> [breaker EXCEPT !.successes = @ + 1]

BreakerWrites == {"halfWrite", "openWrite", "closeWrite", "stamp", "failWrite", "okWrite"}

WriteBreaker(c) ==
    /\ completion[c].at \in BreakerWrites
    /\ breaker' = BreakerWritten(c)
    /\ opened' = (opened \/ Asks(c, "openWrite"))
    /\ CompletionGoto(c, AfterWrite(c))
    /\ UNCHANGED <<enabled, failedCalls, okCalls, breakerUsed>>

\* A statement fails: every error of the circuit's own is swallowed.
BreakerStatementFails(c) ==
    /\ breakerUsed < MaxBreakerEvents
    /\ breakerUsed' = breakerUsed + 1
    /\ \/ /\ completion[c].at \in BreakerReads
          /\ CompletionGoto(c, AfterFailedRead(c))
       \/ /\ completion[c].at \in BreakerWrites
          /\ CompletionGoto(c, AfterWrite(c))
       \/ /\ Asks(c, "log")
          /\ completion' = [completion EXCEPT ![c] = AfterModel(c)]
    /\ UNCHANGED <<breaker, enabled, failedCalls, okCalls, opened>>

-----------------------------------------------------------------------------
(* executeWithTimeout                                                       *)

\* An answer; its audit row, whose failure would be swallowed, is left out.
CallSucceeds(c) ==
    /\ Asks(c, "call")
    /\ okCalls' = IF okCalls > SuccessThreshold THEN okCalls ELSE okCalls + 1
    /\ CompletionGoto(c, "okRead")
    /\ UNCHANGED <<breaker, enabled, failedCalls, opened, breakerUsed>>

\* An error, an empty answer, or a timeout; an answer that comes later is dropped.
CallFails(c) ==
    /\ Asks(c, "call")
    /\ failedCalls' = IF failedCalls > FailureThreshold THEN failedCalls ELSE failedCalls + 1
    /\ CompletionGoto(c, "failState")
    /\ UNCHANGED <<breaker, enabled, okCalls, opened, breakerUsed>>

-----------------------------------------------------------------------------
(* The rest                                                                 *)

\* resetTimeout goes by.
CircuitCools ==
    /\ breaker.failedAt = "now"
    /\ breaker' = [breaker EXCEPT !.failedAt = "past"]
    /\ UNCHANGED <<enabled, completion, failedCalls, okCalls, opened,
                   breakerUsed>>

ResetBreaker ==
    /\ breakerUsed < MaxBreakerEvents
    /\ breakerUsed' = breakerUsed + 1
    /\ breaker' = [state |-> "closed", failures |-> 0, successes |-> 0, failedAt |-> "past"]
    /\ opened' = FALSE
    /\ UNCHANGED <<enabled, completion, failedCalls, okCalls>>

SetModelEnabled(m) ==
    /\ breakerUsed < MaxBreakerEvents
    /\ breakerUsed' = breakerUsed + 1
    /\ enabled' = IF m \in enabled THEN enabled \ {m} ELSE enabled \cup {m}
    /\ UNCHANGED <<breaker, completion, failedCalls, okCalls, opened>>

-----------------------------------------------------------------------------
CompletionStep(c) ==
    \/ ReadBreaker(c) \/ WriteBreaker(c) \/ CallSucceeds(c) \/ CallFails(c)
    \/ LogFailure(c)

BreakerNext ==
    \/ \E c \in Completions :
         \/ CompletionStep(c) \/ BreakerStatementFails(c)
         \/ \E m \in Models, fallback \in BOOLEAN : AskModel(c, m, fallback)
    \/ CircuitCools \/ ResetBreaker
    \/ \E m \in Models : SetModelEnabled(m)

-----------------------------------------------------------------------------
BreakerTypeOK ==
    /\ breaker \in [state : {"closed", "open", "half-open"}, failures : Nat, successes : Nat,
                    failedAt : {"now", "past"}]
    /\ enabled \subseteq Models
    /\ \A c \in Completions :
         /\ completion[c].at \in CompletionAt
         /\ completion[c].attempts \in 0 .. MaxAttemptsAtModel
         /\ completion[c].models \subseteq Models
         /\ completion[c].at \notin CompletionOver \cup {"idle"} => completion[c].models # {}
    /\ failedCalls \in Nat /\ okCalls \in Nat

(* Requests that interleave their statements on the row, and statements     *)
(* that fail, never open the circuit on fewer failed calls than the         *)
(* threshold, nor close one that was opened, other than by reset, on fewer  *)
(* successful calls than theirs.  How many more it takes, and how long ago  *)
(* they may have been, is left open: the comments on the options and the    *)
(* code differ in it.                                                      *)
BreakerHonest ==
    /\ breaker.state = "open" => failedCalls >= FailureThreshold
    /\ breaker.state = "closed" /\ opened => okCalls >= SuccessThreshold

=============================================================================
