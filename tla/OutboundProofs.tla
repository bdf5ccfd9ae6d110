---------------------------- MODULE OutboundProofs ----------------------------
(***************************************************************************)
(* Theorems about five of the components that MCOutbound runs one at a     *)
(* time: the circuit breaker, the email queue, the rate limiter, the typed *)
(* queue and the ingestion of reports, for every value of their constants. *)
(* Each is proved of the component's own steps; the last section takes the *)
(* results over to MCOutbound, whose behaviors are those of a component.   *)
(***************************************************************************)
EXTENDS MCOutbound, FiniteSetTheorems, SequenceTheorems, TLAPS

-----------------------------------------------------------------------------
(* The circuit breaker.                                                     *)

BreakerSpec == BreakerInit /\ [][BreakerNext]_breakerVars

\* What a request keeps; one that is under way has a model left, and an attempt
\* unless it is about to log that it has had its last.
Completion == [at : CompletionAt, attempts : 0 .. MaxAttemptsAtModel,
               models : SUBSET Models, fallback : BOOLEAN]

MayGoOn(request) ==
    /\ request.at \notin CompletionOver \cup {"idle"} => request.models # {}
    /\ request.at \notin CompletionOver \cup {"log"} => request.attempts < MaxAttemptsAtModel

CompletionsTyped ==
    /\ completion \in [Completions -> Completion]
    /\ \A c \in Completions : MayGoOn(completion[c])

BreakerTyped ==
    /\ breaker \in [state : {"closed", "open", "half-open"}, failures : Nat, successes : Nat,
                    failedAt : {"now", "past"}]
    /\ enabled \subseteq Models
    /\ failedCalls \in Nat /\ okCalls \in Nat
    /\ opened \in BOOLEAN
    /\ CompletionsTyped

\* The requests whose call has failed, or succeeded, and that may still count it.
Failing == {c \in Completions : completion[c].at \in {"failState", "failRead", "failWrite"}}
Succeeding == {c \in Completions : completion[c].at \in {"okRead", "okWrite"}}

\* Every failure the row counts, or that a request is about to count, is one of
\* the calls that failed; and a request goes to open the circuit only when more
\* of them have failed than the threshold.
FailuresCounted ==
    /\ IsFiniteSet(Failing)
    /\ \/ failedCalls > FailureThreshold
       \/ breaker.failures + Cardinality(Failing) <= failedCalls
    /\ breaker.state = "open" => failedCalls > FailureThreshold
    /\ \A c \in Completions :
         completion[c].at \in {"openState", "openWrite"} => failedCalls > FailureThreshold

\* The same of successes and of the circuit's closing.
SuccessesCounted ==
    /\ IsFiniteSet(Succeeding)
    /\ \/ okCalls > SuccessThreshold
       \/ breaker.successes + Cardinality(Succeeding) <= okCalls
    /\ breaker.state = "closed" /\ opened => okCalls > SuccessThreshold
    /\ \A c \in Completions :
         completion[c].at \in {"closeState", "closeWrite"} => okCalls > SuccessThreshold

BreakerInv == BreakerTyped /\ FailuresCounted /\ SuccessesCounted

-----------------------------------------------------------------------------
(* The email queue.                                                         *)

EmailStatuses == {"none", "pending", "processing", "completed", "failed"}
EmailLogs == {"none", "pending", "sent", "failed"}

\* A row that is pending has attempts left, one that is not there yet too.
MailTyped ==
    /\ mail \in [Emails -> EmailStatuses]
    /\ mailAttempts \in [Emails -> 0 .. EmailMaxAttempts]
    /\ mailLog \in [Emails -> EmailLogs]
    /\ \A e \in Emails : mail[e] \in {"none", "pending"} => mailAttempts[e] < EmailMaxAttempts

EnqueuingTyped ==
    /\ enqueuing \in [Emails -> {"new", "insert", "answer", "over"}]
    /\ \A e \in Emails : enqueuing[e] \in {"new", "insert"} => mail[e] = "none"

RetryingTyped ==
    /\ retrying \in [Retriers -> [at : {"new", "update", "answer", "over"},
                                  email : 0 .. NumEmails]]
    /\ \A r \in Retriers : retrying[r].at = "update" =>
           retrying[r].email \in Emails /\ mail[retrying[r].email] # "none"

\* The loop has a row wherever it uses one.
LoopTyped ==
    /\ draining \in BOOLEAN
    /\ loop \in [at : LoopAt, email : 0 .. NumEmails, attempts : 0 .. EmailMaxAttempts]
    /\ draining <=> loop.at # "off"
    /\ loop.attempts < EmailMaxAttempts
    /\ loop.at \in EmailStatements \cup {"send"} => loop.email \in Emails
    /\ loop.email \in Emails => mail[loop.email] # "none"

HistoryTyped ==
    /\ mailSends \in [Emails -> Nat] /\ mailRetried \in [Emails -> Nat]
    /\ mailIgnored \in BOOLEAN
    /\ mailUsed \in [dbErrors : Nat, crashes : Nat]

EmailTyped == MailTyped /\ EnqueuingTyped /\ RetryingTyped /\ LoopTyped /\ HistoryTyped

\* The attempts at sending e that are still due: one for a row that is, or will
\* be, pending, or that the loop has selected and not marked; and one for the
\* loop that has marked it, or gives it back.
Selected(e) == loop.email = e /\ loop.at \in {"selected", "mark"}
Sending(e) == loop.email = e /\ loop.at \in {"log", "send", "giveBack"}
SendsDue(e) ==
    (IF mail[e] \in {"none", "pending"} \/ Selected(e) THEN 1 ELSE 0)
      + (IF Sending(e) THEN 1 ELSE 0)

\* Each is accounted for by the email itself, a failed statement or a retry.
Accounted(e) == mailSends[e] + SendsDue(e) <= 1 + mailUsed.dbErrors + mailRetried[e]

SendsAccounted == \A e \in Emails : Accounted(e)

\* The log says sent only after the provider took the email, which it has when
\* the loop is about to say so.
SentIsSent ==
    \A e \in Emails :
        mailLog[e] = "sent" \/ (loop.email = e /\ loop.at = "logSent") => mailSends[e] > 0

\* While no statement has failed, no email fails and none is retried: what the
\* log and the provider say of each follows from its row and the loop.
Logged(e, status, sent) == mailLog[e] = status /\ (mailSends[e] > 0 <=> sent)

LoggedInLoop(e) ==
    /\ loop.at = "log" => Logged(e, "none", FALSE)
    /\ loop.at \in {"send", "logFailed"} => Logged(e, "pending", FALSE)
    /\ loop.at = "logSent" => Logged(e, "pending", TRUE)
    /\ loop.at = "readSent" => Logged(e, "sent", TRUE)
    /\ loop.at = "readFailed" => Logged(e, "failed", FALSE)
    /\ loop.at = "complete" => Logged(e, "sent", TRUE) \/ Logged(e, "failed", FALSE)
    /\ loop.at \in EmailStatements \cup {"send"} =>
           mail[e] = IF loop.at = "mark" THEN "pending" ELSE "processing"
    /\ loop.at = "selected" => mail[e] = "pending"

FaultlessEmail(e) ==
    /\ mail[e] # "failed"
    /\ mail[e] \in {"none", "pending"} => Logged(e, "none", FALSE)
    /\ mail[e] = "completed" => Logged(e, "sent", TRUE) \/ Logged(e, "failed", FALSE)
    /\ loop.email = e => LoggedInLoop(e)

FaultlessEmails ==
    mailUsed.dbErrors = 0 =>
        /\ \A r \in Retriers : retrying[r].at # "update"
        /\ loop.at # "giveBack"
        /\ \A e \in Emails : FaultlessEmail(e)

EmailInv == EmailTyped /\ SendsAccounted /\ SentIsSent /\ FaultlessEmails

-----------------------------------------------------------------------------
(* The rate limiter.                                                        *)

LimiterSpec == LimiterInit /\ [][LimiterNext]_limiterVars

\* Callers whose request has been counted, or who gave up.
Counted == {c \in LimitedCallers : limited[c] \in {"running", "over"}}

WaitersKept ==
    /\ waiters \in Seq(LimitedCallers)
    /\ IsInjective(waiters)
    /\ \A i \in 1 .. Len(waiters) : limited[waiters[i]] \in {"waiting", "timedOut"}
    /\ \A c \in LimitedCallers :
         limited[c] = "waiting" => \E i \in 1 .. Len(waiters) : waiters[i] = c

CallersKept ==
    /\ inWindow \in Nat /\ inWindow <= Cardinality(Counted)
    /\ paused \in BOOLEAN /\ crossed \in BOOLEAN
    /\ limited \in [LimitedCallers -> LimitedAt]
    /\ ~ crossed => inWindow + Cardinality(LetGo) <= MaxRequests

LimiterInv == WaitersKept /\ CallersKept

-----------------------------------------------------------------------------
(* The typed queue.                                                         *)

TypedSpec == TypedInit /\ [][TypedNext]_typedVars

\* A tick that is under way has a job, which like those left in its snapshot has
\* been added.
TicksTyped ==
    /\ tick \in [TypedTicks -> [at : {"idle", "run"} \cup TypedStatements,
                                job : 0 .. NumTypedJobs, rest : SUBSET TypedJobs]]
    /\ \A t \in TypedTicks : tick[t].at # "idle" =>
           /\ tick[t].job \in TypedJobs
           /\ \A j \in tick[t].rest \cup {tick[t].job} : adding[j] # "idle"

TypedTyped ==
    /\ queueMode \in {"starting", "redis", "memory"}
    /\ inRedis \subseteq TypedJobs /\ backingOff \subseteq TypedJobs
    /\ typedStatus \in [TypedJobs -> {"new", "pending", "running", "completed", "failed", "gone"}]
    /\ typedRow \in [TypedJobs -> {"none", "pending", "completed", "failed"}]
    /\ adding \in [TypedJobs -> {"idle", "insert", "over"}]
    /\ typedTries \in [TypedJobs -> Nat] /\ typedRuns \in [TypedJobs -> Nat]
    /\ unrecorded \in [TypedJobs -> Nat] /\ shared \in [TypedJobs -> Nat]
    /\ typedUsed \in [errors : 0 .. MaxTypedErrors, crashes : Nat]
    /\ \A j \in TypedJobs : typedTries[j] <= typedUsed.errors
    /\ \A j \in TypedJobs : adding[j] = "idle" => typedStatus[j] = "new"

\* A job that may be taken up has a start due beyond those there were; tries
\* count the completions that were not recorded; a tick has started its job, and
\* gives it up only after as many of those as it has attempts.
JobCounted(j) ==
    /\ typedTries[j] = unrecorded[j]
    /\ typedRuns[j] <= 1 + unrecorded[j] + shared[j]
    /\ typedStatus[j] \in {"new", "pending"} => typedRuns[j] <= unrecorded[j] + shared[j]
    /\ typedStatus[j] = "failed" => unrecorded[j] >= TypedMaxAttempts

RowHonest(j) ==
    /\ typedRow[j] = "completed" => typedRuns[j] > 0
    /\ typedRow[j] = "failed" => unrecorded[j] >= TypedMaxAttempts

TickCounted(t) ==
    /\ tick[t].at # "idle" => typedRuns[tick[t].job] > 0
    /\ tick[t].at = "failed" => unrecorded[tick[t].job] >= TypedMaxAttempts

RunningHasTick(j) ==
    typedStatus[j] = "running" => \E t \in TypedTicks : tick[t].at = "run" /\ tick[t].job = j

TypedInv ==
    /\ TypedTyped /\ TicksTyped
    /\ \A j \in TypedJobs : JobCounted(j) /\ RowHonest(j) /\ RunningHasTick(j)
    /\ \A t \in TypedTicks : TickCounted(t)

-----------------------------------------------------------------------------
(* Ingestion.                                                               *)

IngestSpec == IngestInit /\ [][IngestNext]_ingestVars

Ingest == [at : IngestAt, file : 1 .. NumAttachments + 1, any : BOOLEAN]

\* A call that has attachments to take is at one of them.
AtAttachment(call) ==
    /\ call.at \notin {"idle", "fetch", "success", "failure"} => call.file \in Attachments
    /\ call.at \in {"idle", "fetch"} => call.file = 1

IngestTyped ==
    /\ jsonFiles \in [Attachments -> Nat] /\ sourceRows \in [Attachments -> Nat]
    /\ reportRows \in [Attachments -> Nat]
    /\ storedAtOnce \subseteq Attachments
    /\ ingest \in [Ingests -> Ingest]
    /\ \A i \in Ingests : AtAttachment(ingest[i])

\* The calls that have written the file of an attachment and not its source row,
\* and those that have written that and not its report.
SourcesDue(a) == {i \in Ingests : ingest[i].at = "source" /\ ingest[i].file = a}
ReportsDue(a) == {i \in Ingests : ingest[i].at \in {"select", "report"} /\ ingest[i].file = a}

CallsCounted(a) ==
    /\ IsFiniteSet(SourcesDue(a)) /\ IsFiniteSet(ReportsDue(a))
    /\ sourceRows[a] + Cardinality(SourcesDue(a)) <= jsonFiles[a]
    /\ reportRows[a] + Cardinality(ReportsDue(a)) <= sourceRows[a]

\* An attachment that no two calls were storing at once has no report while one
\* is about to insert it, and no other call is; and one report at most.
StoredAlone ==
    /\ \A i \in Ingests : Ingesting(i, "report") /\ ingest[i].file \notin storedAtOnce =>
           reportRows[ingest[i].file] = 0 /\ ~ StoringElsewhere(i)
    /\ \A a \in Attachments : reportRows[a] > 1 => a \in storedAtOnce

\* What a call has stored, or found, is there.
CallStored(i) ==
    /\ Ingesting(i, "insights") => reportRows[ingest[i].file] > 0
    /\ ingest[i].any => \E a \in Attachments : reportRows[a] > 0

IngestInv ==
    /\ IngestTyped /\ StoredAlone
    /\ \A a \in Attachments : CallsCounted(a)
    /\ \A i \in Ingests : CallStored(i)

-----------------------------------------------------------------------------
(* The steps of the circuit breaker.                                        *)

\* Where execute may go on, "failed" being the end of an attempt.
Going == {"state", "age", "halfState", "halfWrite", "call", "okRead", "closeState",
          "closeWrite", "okWrite", "failState", "failRead", "openState", "openWrite",
          "stamp", "failWrite", "answered", "failed"}

LEMMA OneCompletion ==
    ASSUME CompletionsTyped, NEW c \in Completions, NEW request \in Completion,
           MayGoOn(request), completion' = [completion EXCEPT ![c] = request]
    PROVE  /\ CompletionsTyped' /\ completion'[c] = request
           /\ \A d \in Completions \ {c} : completion'[d] = completion[d]
  BY DEF CompletionsTyped

(* A request that goes on keeps its models, and has an attempt left unless  *)
(* it is over.                                                              *)
LEMMA CompletionGoes ==
    ASSUME CompletionsTyped, NEW c \in Completions, NEW label \in Going,
           completion[c].at \notin CompletionOver \cup {"idle", "log"},
           CompletionGoto(c, label)
    PROVE  /\ CompletionsTyped'
           /\ \/ label # "failed" /\ completion'[c].at = label
              \/ label = "failed" /\ completion'[c].at \in {"log", "state"}
           /\ \A d \in Completions \ {c} : completion'[d] = completion[d]
<1> DEFINE n == completion[c].attempts + 1
           place == IF label # "failed" THEN label
                    ELSE IF n >= MaxAttemptsAtModel THEN "log" ELSE "state"
           request == [completion[c] EXCEPT !.at = place,
                           !.attempts = IF label = "failed" THEN n ELSE completion[c].attempts]
<1>1. completion' = [completion EXCEPT ![c] = request]
  BY DEF CompletionGoto
<1>2. /\ completion[c] \in Completion /\ completion[c].models # {}
      /\ completion[c].attempts \in Nat /\ MaxAttemptsAtModel \in Nat
      /\ completion[c].attempts < MaxAttemptsAtModel
  BY BreakerAssumption DEF CompletionsTyped, Completion, MayGoOn, CompletionOver
<1>3. /\ place \in CompletionAt /\ n \in 0 .. MaxAttemptsAtModel
      /\ \/ label # "failed" /\ place = label
         \/ label = "failed" /\ place \in {"log", "state"}
      /\ label = "failed" /\ place # "log" => n < MaxAttemptsAtModel
  BY <1>2 DEF Going, CompletionAt
<1> HIDE DEF place, n
<1>4. request \in Completion /\ MayGoOn(request) /\ request.at = place
  BY <1>2, <1>3 DEF Completion, MayGoOn
<1>5. QED
  BY <1>1, <1>3, <1>4, OneCompletion

(* What a request does in execute, apart from the row.                      *)
LEMMA ExecuteGoes ==
    ASSUME CompletionsTyped, NEW c \in Completions
    PROVE  /\ completion[c].at \in BreakerReads =>
                AfterRead(c) \in Going /\ AfterFailedRead(c) \in Going
           /\ completion[c].at \in BreakerWrites =>
                /\ AfterWrite(c) \in Going
                /\ AfterWrite(c) \in {"call", "stamp", "failed", "answered"}
  BY DEF BreakerReads, BreakerWrites, AfterRead, AfterFailedRead, AfterWrite, Asks, Going

(* When every attempt at a model has failed, the next is tried, if any.     *)
LEMMA ModelGoes ==
    ASSUME CompletionsTyped, NEW c \in Completions, enabled \subseteq Models,
           completion' = [completion EXCEPT ![c] = AfterModel(c)]
    PROVE  /\ CompletionsTyped'
           /\ completion'[c].at \in {"refused", "state"}
           /\ \A d \in Completions \ {c} : completion'[d] = completion[d]
<1> DEFINE tried == CHOOSE m \in completion[c].models : \A n \in completion[c].models : m <= n
           next == IF completion[c].fallback THEN FallbackModels(tried)
                                             ELSE completion[c].models \ {tried}
<1>1. next \in SUBSET Models
  BY DEF CompletionsTyped, Completion, FallbackModels
<1>2. AfterModel(c) = [at |-> IF next = {} THEN "refused" ELSE "state",
                       attempts |-> 0, models |-> next, fallback |-> FALSE]
  BY DEF AfterModel
<1> HIDE DEF next
<1>3. 0 \in 0 .. MaxAttemptsAtModel /\ 0 < MaxAttemptsAtModel
  BY BreakerAssumption
<1>4. /\ AfterModel(c) \in Completion /\ MayGoOn(AfterModel(c))
      /\ AfterModel(c).at \in {"refused", "state"}
  BY <1>1, <1>2, <1>3 DEF Completion, MayGoOn, CompletionAt, CompletionOver
<1>5. QED
  BY <1>4, OneCompletion

(* Every step of a request takes it to a place where it is typed.           *)
LEMMA BreakerTypeStep ==
    ASSUME BreakerTyped, [BreakerNext]_breakerVars
    PROVE  BreakerTyped'
<1> USE DEF BreakerTyped
<1>1. ASSUME NEW c \in Completions, ReadBreaker(c)
      PROVE  BreakerTyped'
  BY <1>1, CompletionGoes, ExecuteGoes DEF ReadBreaker, BreakerReads, CompletionOver
<1>2. ASSUME NEW c \in Completions, WriteBreaker(c)
      PROVE  BreakerTyped'
  <2>1. CompletionsTyped'
    BY <1>2, CompletionGoes, ExecuteGoes DEF WriteBreaker, BreakerWrites, CompletionOver
  <2>2. breaker' \in [state : {"closed", "open", "half-open"}, failures : Nat,
                      successes : Nat, failedAt : {"now", "past"}]
    BY <1>2 DEF WriteBreaker, BreakerWrites, BreakerWritten, Asks
  <2>3. QED
    BY <1>2, <2>1, <2>2 DEF WriteBreaker
<1>3. ASSUME NEW c \in Completions, CallSucceeds(c) \/ CallFails(c)
      PROVE  BreakerTyped'
  <2>1. CompletionsTyped'
    BY <1>3, CompletionGoes DEF CallSucceeds, CallFails, Asks, Going, CompletionOver
  <2>2. QED
    BY <1>3, <2>1, BreakerAssumption DEF CallSucceeds, CallFails
<1>4. ASSUME NEW c \in Completions, LogFailure(c)
      PROVE  BreakerTyped'
  BY <1>4, ModelGoes DEF LogFailure
<1>5. ASSUME NEW c \in Completions, BreakerStatementFails(c)
      PROVE  BreakerTyped'
  <2>1. CompletionsTyped'
    BY <1>5, CompletionGoes, ExecuteGoes, ModelGoes
       DEF BreakerStatementFails, BreakerReads, BreakerWrites, CompletionOver
  <2>2. QED
    BY <1>5, <2>1 DEF BreakerStatementFails
<1>6. ASSUME NEW c \in Completions, NEW m \in Models, NEW fallback \in BOOLEAN,
             AskModel(c, m, fallback)
      PROVE  BreakerTyped'
  <2>1. 0 \in 0 .. MaxAttemptsAtModel /\ 0 < MaxAttemptsAtModel
    BY BreakerAssumption
  <2> DEFINE request == [completion[c] EXCEPT
                              !.at = IF fallback => m \in enabled THEN "state" ELSE "refused",
                              !.models = {m}, !.fallback = fallback]
  <2>2. completion[c] \in Completion /\ completion[c].attempts < MaxAttemptsAtModel
    BY <1>6 DEF AskModel, Asks, CompletionsTyped, MayGoOn, CompletionOver
  <2>3. request \in Completion /\ MayGoOn(request)
    BY <2>2 DEF Completion, MayGoOn, CompletionAt, CompletionOver
  <2>4. completion' = [completion EXCEPT ![c] = request]
    BY <1>6 DEF AskModel
  <2>5. QED
    BY <1>6, <2>3, <2>4, OneCompletion DEF AskModel
<1>7. ASSUME UNCHANGED completion
      PROVE  CompletionsTyped'
  BY <1>7 DEF CompletionsTyped
<1>8. CASE CircuitCools
  BY <1>7, <1>8 DEF CircuitCools
<1>9. CASE ResetBreaker
  BY <1>7, <1>9 DEF ResetBreaker
<1>10. ASSUME NEW m \in Models, SetModelEnabled(m)
       PROVE  BreakerTyped'
  BY <1>7, <1>10 DEF SetModelEnabled
<1>11. CASE UNCHANGED breakerVars
  BY <1>7, <1>11 DEF breakerVars
<1>12. QED
  BY <1>1, <1>2, <1>3, <1>4, <1>5, <1>6, <1>8, <1>9, <1>10, <1>11
     DEF BreakerNext, CompletionStep

(* A step that changes neither count, and after which the request it is of  *)
(* is to count a failure only if it already was, keeps the failures counted.*)
LEMMA FailuresKept ==
    ASSUME BreakerTyped, FailuresCounted, NEW c \in Completions,
           \A d \in Completions \ {c} : completion'[d] = completion[d],
           completion'[c].at \in {"failState", "failRead", "failWrite"} => c \in Failing,
           completion'[c].at \in {"openState", "openWrite"} => failedCalls > FailureThreshold,
           breaker'.state = "open" => failedCalls > FailureThreshold,
           breaker'.failures = breaker.failures, UNCHANGED failedCalls
    PROVE  FailuresCounted'
<1>1. Failing' \subseteq Failing
  BY DEF Failing
<1>2. /\ IsFiniteSet(Failing') /\ Cardinality(Failing') <= Cardinality(Failing)
      /\ Cardinality(Failing') \in Nat /\ Cardinality(Failing) \in Nat
  BY <1>1, FS_Subset, FS_CardinalityType DEF FailuresCounted
<1>3. \/ failedCalls > FailureThreshold
      \/ breaker.failures + Cardinality(Failing') <= failedCalls
  BY <1>2 DEF FailuresCounted, BreakerTyped
<1>4. QED
  BY <1>2, <1>3 DEF FailuresCounted

LEMMA SuccessesKept ==
    ASSUME BreakerTyped, SuccessesCounted, NEW c \in Completions,
           \A d \in Completions \ {c} : completion'[d] = completion[d],
           completion'[c].at \in {"okRead", "okWrite"} => c \in Succeeding,
           completion'[c].at \in {"closeState", "closeWrite"} => okCalls > SuccessThreshold,
           breaker'.state = "closed" /\ opened' => okCalls > SuccessThreshold,
           breaker'.successes = breaker.successes, UNCHANGED okCalls
    PROVE  SuccessesCounted'
<1>1. Succeeding' \subseteq Succeeding
  BY DEF Succeeding
<1>2. /\ IsFiniteSet(Succeeding') /\ Cardinality(Succeeding') <= Cardinality(Succeeding)
      /\ Cardinality(Succeeding') \in Nat /\ Cardinality(Succeeding) \in Nat
  BY <1>1, FS_Subset, FS_CardinalityType DEF SuccessesCounted
<1>3. \/ okCalls > SuccessThreshold
      \/ breaker.successes + Cardinality(Succeeding') <= okCalls
  BY <1>2 DEF SuccessesCounted, BreakerTyped
<1>4. QED
  BY <1>2, <1>3 DEF SuccessesCounted

(* A request about to count one is among the calls that failed, so the row  *)
(* reaches the threshold only with one call more.                           *)
LEMMA OneMoreFailed ==
    ASSUME BreakerTyped, FailuresCounted, NEW c \in Failing,
           breaker.failures >= FailureThreshold
    PROVE  failedCalls > FailureThreshold
<1>1. Cardinality(Failing) \in Nat /\ Cardinality(Failing) # 0
  BY FS_CardinalityType, FS_EmptySet DEF FailuresCounted
<1>2. QED
  BY <1>1, BreakerAssumption DEF FailuresCounted, BreakerTyped

LEMMA OneMoreSucceeded ==
    ASSUME BreakerTyped, SuccessesCounted, NEW c \in Succeeding,
           breaker.successes >= SuccessThreshold
    PROVE  okCalls > SuccessThreshold
<1>1. Cardinality(Succeeding) \in Nat /\ Cardinality(Succeeding) # 0
  BY FS_CardinalityType, FS_EmptySet DEF SuccessesCounted
<1>2. QED
  BY <1>1, BreakerAssumption DEF SuccessesCounted, BreakerTyped

(* The steps that do not count: where each leaves the request.              *)
LEMMA ReadCounts ==
    ASSUME BreakerInv, NEW c \in Completions, ReadBreaker(c)
    PROVE  FailuresCounted' /\ SuccessesCounted'
<1>1. /\ AfterRead(c) \in Going
      /\ completion[c].at \notin CompletionOver \cup {"idle", "log"}
  BY ExecuteGoes DEF ReadBreaker, BreakerReads, CompletionOver, BreakerInv, BreakerTyped
<1>2. /\ \/ AfterRead(c) # "failed" /\ completion'[c].at = AfterRead(c)
         \/ AfterRead(c) = "failed" /\ completion'[c].at \in {"log", "state"}
      /\ \A d \in Completions \ {c} : completion'[d] = completion[d]
  BY <1>1, CompletionGoes DEF ReadBreaker, BreakerInv, BreakerTyped
<1>3. /\ completion'[c].at \in {"failState", "failRead", "failWrite"} => c \in Failing
      /\ completion'[c].at \in {"okRead", "okWrite"} => c \in Succeeding
  BY <1>2 DEF ReadBreaker, BreakerReads, AfterRead, Asks, Failing, Succeeding
<1>4. completion'[c].at \in {"openState", "openWrite"} => failedCalls > FailureThreshold
  BY <1>2, OneMoreFailed
     DEF ReadBreaker, BreakerReads, AfterRead, Asks, Failing, FailuresReached, BreakerInv,
         FailuresCounted
<1>5. completion'[c].at \in {"closeState", "closeWrite"} => okCalls > SuccessThreshold
  BY <1>2, OneMoreSucceeded
     DEF ReadBreaker, BreakerReads, AfterRead, Asks, Succeeding, SuccessesReached, BreakerInv,
         SuccessesCounted
<1>6. UNCHANGED <<breaker, failedCalls, okCalls, opened>>
  BY DEF ReadBreaker
<1>7. FailuresCounted'
  BY <1>2, <1>3, <1>4, <1>6, FailuresKept DEF BreakerInv, FailuresCounted
<1>8. SuccessesCounted'
  BY <1>2, <1>3, <1>5, <1>6, SuccessesKept DEF BreakerInv, SuccessesCounted
<1>9. QED
  BY <1>7, <1>8

(* The write of a counter takes its request from those about to count.      *)
LEMMA WriteCounts ==
    ASSUME BreakerInv, NEW c \in Completions, WriteBreaker(c)
    PROVE  FailuresCounted' /\ SuccessesCounted'
<1> USE DEF BreakerInv
<1>1. /\ AfterWrite(c) \in Going
      /\ completion[c].at \notin CompletionOver \cup {"idle", "log"}
  BY ExecuteGoes DEF WriteBreaker, BreakerWrites, CompletionOver, BreakerTyped
<1>2. /\ \/ AfterWrite(c) # "failed" /\ completion'[c].at = AfterWrite(c)
         \/ AfterWrite(c) = "failed" /\ completion'[c].at \in {"log", "state"}
      /\ \A d \in Completions \ {c} : completion'[d] = completion[d]
  BY <1>1, CompletionGoes DEF WriteBreaker, BreakerTyped
<1>3. completion'[c].at \in {"call", "stamp", "log", "state", "answered"}
  BY <1>2, ExecuteGoes DEF WriteBreaker, BreakerInv, BreakerTyped
<1>4. /\ breaker'.state = "open" => failedCalls > FailureThreshold
      /\ breaker'.state = "closed" /\ opened' => okCalls > SuccessThreshold
  <2>1. /\ completion[c].at = "openWrite" => failedCalls > FailureThreshold
        /\ completion[c].at = "closeWrite" => okCalls > SuccessThreshold
        /\ breaker.state = "open" => failedCalls > FailureThreshold
        /\ breaker.state = "closed" /\ opened => okCalls > SuccessThreshold
    BY DEF FailuresCounted, SuccessesCounted
  <2>2. /\ breaker'.state = "open" => Asks(c, "openWrite") \/ breaker.state = "open"
        /\ breaker'.state = "closed" /\ opened' =>
               Asks(c, "closeWrite") \/ (breaker.state = "closed" /\ opened)
    BY DEF WriteBreaker, BreakerWrites, BreakerWritten, Asks, BreakerTyped
  <2>3. QED
    BY <2>1, <2>2 DEF Asks
<1>5. CASE Asks(c, "failWrite")
  <2>1. /\ breaker'.failures = breaker.failures + 1 /\ breaker'.successes = breaker.successes
        /\ UNCHANGED <<failedCalls, okCalls>>
    BY <1>5 DEF WriteBreaker, BreakerWritten, Asks, BreakerTyped
  <2>2. Failing' = Failing \ {c} /\ c \in Failing
    BY <1>2, <1>3, <1>5 DEF Failing, Asks
  <2>3. /\ IsFiniteSet(Failing') /\ Cardinality(Failing') = Cardinality(Failing) - 1
        /\ Cardinality(Failing) \in Nat
    BY <2>2, FS_RemoveElement, FS_CardinalityType DEF FailuresCounted
  <2>4. \/ failedCalls' > FailureThreshold
        \/ breaker'.failures + Cardinality(Failing') <= failedCalls'
    BY <2>1, <2>3 DEF FailuresCounted, BreakerTyped
  <2>5. FailuresCounted'
    BY <1>2, <1>3, <1>4, <2>1, <2>3, <2>4 DEF FailuresCounted
  <2>6. SuccessesCounted'
    BY <1>2, <1>3, <1>4, <2>1, SuccessesKept
  <2>7. QED
    BY <2>5, <2>6
<1>6. CASE Asks(c, "okWrite")
  <2>1. /\ breaker'.successes = breaker.successes + 1 /\ breaker'.failures = breaker.failures
        /\ UNCHANGED <<failedCalls, okCalls>>
    BY <1>6 DEF WriteBreaker, BreakerWritten, Asks, BreakerTyped
  <2>2. Succeeding' = Succeeding \ {c} /\ c \in Succeeding
    BY <1>2, <1>3, <1>6 DEF Succeeding, Asks
  <2>3. /\ IsFiniteSet(Succeeding') /\ Cardinality(Succeeding') = Cardinality(Succeeding) - 1
        /\ Cardinality(Succeeding) \in Nat
    BY <2>2, FS_RemoveElement, FS_CardinalityType DEF SuccessesCounted
  <2>4. \/ okCalls' > SuccessThreshold
        \/ breaker'.successes + Cardinality(Succeeding') <= okCalls'
    BY <2>1, <2>3 DEF SuccessesCounted, BreakerTyped
  <2>5. SuccessesCounted'
    BY <1>2, <1>3, <1>4, <2>1, <2>3, <2>4 DEF SuccessesCounted
  <2>6. FailuresCounted'
    BY <1>2, <1>3, <1>4, <2>1, FailuresKept
  <2>7. QED
    BY <2>5, <2>6
<1>7. CASE ~ Asks(c, "failWrite") /\ ~ Asks(c, "okWrite")
  <2>1. /\ breaker'.failures = breaker.failures /\ breaker'.successes = breaker.successes
        /\ UNCHANGED <<failedCalls, okCalls>>
    BY <1>7 DEF WriteBreaker, BreakerWrites, BreakerWritten, Asks, BreakerTyped
  <2>2. QED
    BY <1>2, <1>3, <1>4, <2>1, FailuresKept, SuccessesKept
<1>8. QED
  BY <1>5, <1>6, <1>7

(* The outcome of a call is counted before a request records it.            *)
LEMMA CallCounts ==
    ASSUME BreakerInv, NEW c \in Completions, CallSucceeds(c) \/ CallFails(c)
    PROVE  FailuresCounted' /\ SuccessesCounted'
<1> USE DEF BreakerInv
<1>1. FailureThreshold \in Nat /\ SuccessThreshold \in Nat
  BY BreakerAssumption
<1>2. /\ completion'[c].at = IF CallSucceeds(c) THEN "okRead" ELSE "failState"
      /\ \A d \in Completions \ {c} : completion'[d] = completion[d]
  BY CompletionGoes DEF CallSucceeds, CallFails, Asks, Going, CompletionOver, BreakerTyped
<1>3. UNCHANGED <<breaker, opened>>
  BY DEF CallSucceeds, CallFails
<1>4. /\ breaker.state = "open" => failedCalls > FailureThreshold
      /\ breaker.state = "closed" /\ opened => okCalls > SuccessThreshold
  BY DEF FailuresCounted, SuccessesCounted
<1>5. CASE CallSucceeds(c)
  <2>1. /\ UNCHANGED failedCalls
        /\ okCalls' = IF okCalls > SuccessThreshold THEN okCalls ELSE okCalls + 1
    BY <1>5 DEF CallSucceeds
  <2>2. Succeeding' = Succeeding \cup {c} /\ c \notin Succeeding
    BY <1>2, <1>5 DEF Succeeding, CallSucceeds, Asks
  <2>3. /\ IsFiniteSet(Succeeding') /\ Cardinality(Succeeding') = Cardinality(Succeeding) + 1
        /\ Cardinality(Succeeding) \in Nat
    BY <2>2, FS_AddElement, FS_CardinalityType DEF SuccessesCounted
  <2>4. /\ \/ okCalls' > SuccessThreshold
           \/ breaker.successes + Cardinality(Succeeding') <= okCalls'
        /\ okCalls > SuccessThreshold => okCalls' > SuccessThreshold
    BY <1>1, <2>1, <2>3 DEF SuccessesCounted, BreakerTyped
  <2>5. SuccessesCounted'
    BY <1>2, <1>3, <1>4, <1>5, <2>3, <2>4 DEF SuccessesCounted
  <2>6. FailuresCounted'
    BY <1>2, <1>3, <1>4, <1>5, <2>1, FailuresKept
  <2>7. QED
    BY <2>5, <2>6
<1>6. CASE CallFails(c)
  <2>1. /\ UNCHANGED okCalls
        /\ failedCalls' = IF failedCalls > FailureThreshold THEN failedCalls
                                                            ELSE failedCalls + 1
    BY <1>6 DEF CallFails
  <2>2. completion'[c].at = "failState"
    BY <1>6, CompletionGoes DEF CallFails, Asks, Going, CompletionOver, BreakerTyped
  <2>3. Failing' = Failing \cup {c} /\ c \notin Failing
    BY <1>2, <1>6, <2>2 DEF Failing, CallFails, Asks
  <2>4. /\ IsFiniteSet(Failing') /\ Cardinality(Failing') = Cardinality(Failing) + 1
        /\ Cardinality(Failing) \in Nat
    BY <2>3, FS_AddElement, FS_CardinalityType DEF FailuresCounted
  <2>5. /\ \/ failedCalls' > FailureThreshold
           \/ breaker.failures + Cardinality(Failing') <= failedCalls'
        /\ failedCalls > FailureThreshold => failedCalls' > FailureThreshold
    BY <1>1, <2>1, <2>4 DEF FailuresCounted, BreakerTyped
  <2>6. FailuresCounted'
    BY <1>2, <1>3, <1>4, <2>2, <2>4, <2>5 DEF FailuresCounted
  <2>7. SuccessesCounted'
    BY <1>2, <1>3, <1>4, <2>1, <2>2, SuccessesKept
  <2>8. QED
    BY <2>6, <2>7
<1>7. QED
  BY <1>5, <1>6

(* A failed statement counts nothing, and goes on as if none had been.      *)
LEMMA FailedStatementCounts ==
    ASSUME BreakerInv, NEW c \in Completions, BreakerStatementFails(c) \/ LogFailure(c)
    PROVE  FailuresCounted' /\ SuccessesCounted'
<1> USE DEF BreakerInv
<1>1. UNCHANGED <<breaker, failedCalls, okCalls, opened>>
  BY DEF BreakerStatementFails, LogFailure
<1>2. /\ breaker.state = "open" => failedCalls > FailureThreshold
      /\ breaker.state = "closed" /\ opened => okCalls > SuccessThreshold
  BY DEF FailuresCounted, SuccessesCounted
<1>3. CASE completion[c].at \in BreakerReads /\ CompletionGoto(c, AfterFailedRead(c))
  <2>1. /\ \/ AfterFailedRead(c) # "failed" /\ completion'[c].at = AfterFailedRead(c)
           \/ AfterFailedRead(c) = "failed" /\ completion'[c].at \in {"log", "state"}
        /\ \A d \in Completions \ {c} : completion'[d] = completion[d]
    BY <1>3, ExecuteGoes, CompletionGoes DEF BreakerReads, CompletionOver, BreakerTyped
  <2>2. /\ completion'[c].at \in {"failState", "failRead", "failWrite"} => c \in Failing
        /\ completion'[c].at \in {"okRead", "okWrite"} => c \in Succeeding
    BY <1>3, <2>1 DEF BreakerReads, AfterFailedRead, Asks, Failing, Succeeding
  <2>3. /\ completion'[c].at \in {"openState", "openWrite"} => failedCalls > FailureThreshold
        /\ completion'[c].at \notin {"closeState", "closeWrite"}
    BY <1>3, <2>1 DEF BreakerReads, AfterFailedRead, Asks, FailuresCounted
  <2>4. QED
    BY <1>1, <1>2, <2>1, <2>2, <2>3, FailuresKept, SuccessesKept
<1>4. CASE completion[c].at \in BreakerWrites /\ CompletionGoto(c, AfterWrite(c))
  <2>1. /\ \/ AfterWrite(c) # "failed" /\ completion'[c].at = AfterWrite(c)
           \/ AfterWrite(c) = "failed" /\ completion'[c].at \in {"log", "state"}
        /\ \A d \in Completions \ {c} : completion'[d] = completion[d]
    BY <1>4, ExecuteGoes, CompletionGoes DEF BreakerWrites, CompletionOver, BreakerTyped
  <2>2. completion'[c].at \in {"call", "stamp", "log", "state", "answered"}
    BY <1>4, <2>1, ExecuteGoes DEF BreakerTyped
  <2>3. QED
    BY <1>1, <1>2, <2>1, <2>2, FailuresKept, SuccessesKept
<1>5. CASE Asks(c, "log") /\ completion' = [completion EXCEPT ![c] = AfterModel(c)]
  <2>1. /\ completion'[c].at \in {"refused", "state"}
        /\ \A d \in Completions \ {c} : completion'[d] = completion[d]
    BY <1>5, ModelGoes DEF BreakerTyped
  <2>2. QED
    BY <1>1, <1>2, <2>1, FailuresKept, SuccessesKept
<1>6. QED
  BY <1>3, <1>4, <1>5 DEF BreakerStatementFails, LogFailure

LEMMA BreakerInvStep ==
    ASSUME BreakerInv, [BreakerNext]_breakerVars
    PROVE  BreakerInv'
<1>1. BreakerTyped'
  BY BreakerTypeStep DEF BreakerInv
<1> SUFFICES FailuresCounted' /\ SuccessesCounted'
  BY <1>1 DEF BreakerInv
<1>2. ASSUME NEW c \in Completions, CompletionStep(c) \/ BreakerStatementFails(c)
      PROVE  FailuresCounted' /\ SuccessesCounted'
  BY <1>2, ReadCounts, WriteCounts, CallCounts, FailedStatementCounts DEF CompletionStep
<1>3. ASSUME NEW c \in Completions, NEW m \in Models, NEW fallback \in BOOLEAN,
             AskModel(c, m, fallback)
      PROVE  FailuresCounted' /\ SuccessesCounted'
  <2>1. /\ completion'[c].at \in {"state", "refused"}
        /\ \A d \in Completions \ {c} : completion'[d] = completion[d]
    BY <1>3 DEF AskModel, BreakerInv, BreakerTyped, CompletionsTyped, Completion
  <2>2. UNCHANGED <<breaker, failedCalls, okCalls, opened>>
    BY <1>3 DEF AskModel
  <2>3. /\ breaker.state = "open" => failedCalls > FailureThreshold
        /\ breaker.state = "closed" /\ opened => okCalls > SuccessThreshold
    BY DEF BreakerInv, FailuresCounted, SuccessesCounted
  <2>4. QED
    BY <2>1, <2>2, <2>3, FailuresKept, SuccessesKept DEF BreakerInv
<1>4. ASSUME UNCHANGED <<completion, failedCalls, okCalls>>
      PROVE  Failing' = Failing /\ Succeeding' = Succeeding
  BY <1>4 DEF Failing, Succeeding
<1>5. CASE CircuitCools
  BY <1>4, <1>5 DEF CircuitCools, BreakerInv, BreakerTyped, FailuresCounted, SuccessesCounted
<1>6. CASE ResetBreaker
  <2>1. /\ breaker'.failures = 0 /\ breaker'.successes = 0 /\ breaker'.state = "closed"
        /\ opened' = FALSE /\ UNCHANGED <<completion, failedCalls, okCalls>>
    BY <1>6 DEF ResetBreaker
  <2>2. /\ Cardinality(Failing) \in Nat /\ Cardinality(Succeeding) \in Nat
        /\ breaker.failures \in Nat /\ breaker.successes \in Nat
    BY FS_CardinalityType DEF BreakerInv, BreakerTyped, FailuresCounted, SuccessesCounted
  <2>3. QED
    BY <1>4, <2>1, <2>2 DEF BreakerInv, BreakerTyped, FailuresCounted, SuccessesCounted
<1>7. ASSUME NEW m \in Models, SetModelEnabled(m)
      PROVE  FailuresCounted' /\ SuccessesCounted'
  BY <1>4, <1>7 DEF SetModelEnabled, BreakerInv, FailuresCounted, SuccessesCounted
<1>8. CASE UNCHANGED breakerVars
  BY <1>4, <1>8 DEF breakerVars, BreakerInv, FailuresCounted, SuccessesCounted
<1>9. QED
  BY <1>2, <1>3, <1>5, <1>6, <1>7, <1>8 DEF BreakerNext

LEMMA BreakerInvInit == BreakerInit => BreakerInv
<1> SUFFICES ASSUME BreakerInit
             PROVE  BreakerInv
  OBVIOUS
<1> USE DEF BreakerInit
<1>1. BreakerTyped
  <2>1. 0 \in 0 .. MaxAttemptsAtModel /\ 0 < MaxAttemptsAtModel
    BY BreakerAssumption
  <2> DEFINE request == [at |-> "idle", attempts |-> 0, models |-> {}, fallback |-> FALSE]
  <2>2. request \in Completion /\ MayGoOn(request)
    BY <2>1 DEF Completion, MayGoOn, CompletionAt, CompletionOver
  <2>3. CompletionsTyped
    BY <2>2 DEF CompletionsTyped
  <2>4. QED
    BY <2>3 DEF BreakerTyped
<1>2. Failing = {} /\ Succeeding = {}
  BY DEF Failing, Succeeding
<1>3. FailuresCounted /\ SuccessesCounted
  BY <1>2, FS_EmptySet DEF FailuresCounted, SuccessesCounted
<1>4. QED
  BY <1>1, <1>3 DEF BreakerInv

(* The row stays a circuit's row, and every request that is under way has a *)
(* model left to ask and no more attempts behind it than maxRetries of      *)
(* openai.ts, whatever interleaves with it.                                 *)
THEOREM BreakerTypeCorrect == BreakerSpec => []BreakerTypeOK
<1>1. BreakerInv => BreakerTypeOK
  BY DEF BreakerInv, BreakerTyped, BreakerTypeOK, CompletionsTyped, Completion, MayGoOn
<1>2. QED
  BY <1>1, BreakerInvInit, BreakerInvStep, PTL DEF BreakerSpec

(* However requests interleave their statements on the one row, execute of  *)
(* circuitBreaker.ts opens the circuit only with a failure beyond the       *)
(* threshold and closes one that was opened only with a success beyond its  *)
(* own.                                                                     *)
THEOREM CircuitHonest == BreakerSpec => []BreakerHonest
<1>1. BreakerInv => BreakerHonest
  BY BreakerAssumption
     DEF BreakerInv, BreakerTyped, BreakerHonest, FailuresCounted, SuccessesCounted
<1>2. QED
  BY <1>1, BreakerInvInit, BreakerInvStep, PTL DEF BreakerSpec

-----------------------------------------------------------------------------
(* The steps of the email queue.                                            *)

(* Where the statements of the loop lead, and what they write.              *)
LEMMA StatementLeads ==
    ASSUME loop.at \in EmailStatements
    PROVE  /\ AfterStatement \in {"log", "send", "readSent", "complete", "readFailed", "select"}
           /\ IF loop.at = "mark" THEN AfterRejection = "off"
                                  ELSE AfterRejection \in {"logFailed", "giveBack", "off"}
<1>1. AfterStatement \in {"log", "send", "readSent", "complete", "readFailed", "select"}
  BY DEF EmailStatements, AfterStatement
<1>2. loop.at = "mark" => AfterRejection = "off"
  BY DEF AfterRejection
<1>3. AfterRejection \in {"logFailed", "giveBack", "off"}
  BY DEF AfterRejection
<1>4. QED
  BY <1>1, <1>2, <1>3

LEMMA StatementWrites ==
    ASSUME MailTyped, LoopTyped, loop.at \in EmailStatements, EmailStatement(loop.email)
    PROVE  /\ MailTyped'
           /\ loop.email \in Emails
           /\ mail'[loop.email] = EmailWritten(loop.email)
           /\ mailLog'[loop.email] = LogWritten(loop.email)
           /\ mail[loop.email] # "none" => mail'[loop.email] # "none"
           /\ \A e \in Emails \ {loop.email} :
                mail'[e] = mail[e] /\ mailLog'[e] = mailLog[e]
<1> DEFINE e == loop.email
           attempts == IF loop.at = "giveBack" THEN loop.attempts + 1 ELSE mailAttempts[e]
<1>1. e \in Emails /\ mail[e] \in EmailStatuses /\ mailLog[e] \in EmailLogs
  BY DEF LoopTyped, MailTyped
<1>2. /\ EmailWritten(e) \in EmailStatuses
      /\ mail[e] # "none" => EmailWritten(e) # "none"
  BY <1>1 DEF EmailWritten, EmailStatuses
<1>3. LogWritten(e) \in EmailLogs
  BY <1>1 DEF LogWritten, EmailLogs
<1>4. attempts \in 0 .. EmailMaxAttempts
  BY <1>1, EmailAssumption DEF LoopTyped, MailTyped
<1>5. EmailWritten(e) \in {"none", "pending"} => attempts < EmailMaxAttempts
  <2>1. CASE loop.at = "giveBack"
    <3>1. loop.attempts + 1 \in Nat /\ loop.attempts \in Nat
      BY DEF LoopTyped
    <3>2. EmailWritten(e) = IF LastAttempt(loop.attempts) THEN "failed" ELSE "pending"
      BY <2>1 DEF EmailWritten
    <3>3. LastAttempt(loop.attempts) <=> ~ (loop.attempts + 1 < EmailMaxAttempts)
      BY <3>1, EmailAssumption DEF LastAttempt
    <3>4. QED
      BY <2>1, <3>2, <3>3
  <2>2. CASE loop.at # "giveBack"
    BY <1>1, <2>2 DEF EmailWritten, EmailStatuses, MailTyped
  <2>3. QED
    BY <2>1, <2>2
<1>6. /\ mail' = [mail EXCEPT ![e] = EmailWritten(e)]
      /\ mailAttempts' = [mailAttempts EXCEPT ![e] = attempts]
      /\ mailLog' = [mailLog EXCEPT ![e] = LogWritten(e)]
  BY DEF EmailStatement
<1> HIDE DEF attempts
<1>7. MailTyped'
  BY <1>1, <1>2, <1>3, <1>4, <1>5, <1>6 DEF MailTyped
<1>8. QED
  BY <1>1, <1>2, <1>6, <1>7 DEF MailTyped

(* Starting the loop, or moving it, keeps it typed.                         *)
LEMMA StartKeepsLoop ==
    ASSUME LoopTyped, StartUnlessDraining, mailIgnored \in BOOLEAN, UNCHANGED mail
    PROVE  LoopTyped' /\ mailIgnored' \in BOOLEAN
<1>1. CASE draining
  BY <1>1 DEF StartUnlessDraining, LoopTyped
<1>2. CASE ~ draining
  <2>1. draining' = TRUE /\ loop' = LoopBegun /\ mailIgnored' = FALSE
    BY <1>2 DEF StartUnlessDraining
  <2>2. LoopTyped'
    BY <2>1, EmailAssumption DEF LoopTyped, LoopBegun, LoopAt, EmailStatements, Emails
  <2>3. QED
    BY <2>1, <2>2
<1>3. QED
  BY <1>1, <1>2

LEMMA MovedLoop ==
    ASSUME LoopTyped, NEW label \in LoopAt \ {"off"}, LoopGoto(label), loop.at # "off",
           UNCHANGED draining,
           label \in EmailStatements \cup {"send"} => loop.email \in Emails,
           loop.email \in Emails => mail'[loop.email] # "none"
    PROVE  LoopTyped'
<1>1. /\ loop' \in [at : LoopAt, email : 0 .. NumEmails, attempts : 0 .. EmailMaxAttempts]
      /\ loop'.at = label /\ loop'.email = loop.email /\ loop'.attempts = loop.attempts
  BY DEF LoopTyped, LoopGoto
<1>2. QED
  BY <1>1 DEF LoopTyped

LEMMA EndedLoop ==
    ASSUME draining' = FALSE, loop' = NoLoop
    PROVE  LoopTyped'
<1>1. 0 \in 0 .. NumEmails /\ 0 \in 0 .. EmailMaxAttempts /\ 0 < EmailMaxAttempts /\ 0 \notin Emails
  BY EmailAssumption DEF Emails
<1>2. loop' \in [at : LoopAt, email : 0 .. NumEmails, attempts : 0 .. EmailMaxAttempts]
  BY <1>1 DEF NoLoop, LoopAt
<1>3. loop'.at = "off" /\ loop'.email = 0 /\ loop'.attempts = 0
  BY DEF NoLoop
<1>4. draining' \in BOOLEAN /\ ~ draining'
  OBVIOUS
<1>5. QED
  BY <1>1, <1>2, <1>3, <1>4 DEF LoopTyped, EmailStatements

LEMMA EmailTypeStep ==
    ASSUME EmailTyped, [EmailNext]_emailVars
    PROVE  EmailTyped'
<1> USE DEF EmailTyped
<1>1. ASSUME NEW e \in Emails, EnqueueEmail(e)
      PROVE  EmailTyped'
  BY <1>1 DEF EnqueueEmail, MailTyped, EnqueuingTyped, RetryingTyped, LoopTyped, HistoryTyped
<1>2. ASSUME NEW e \in Emails, InsertEmail(e)
      PROVE  EmailTyped'
  <2>1. mail[e] = "none" /\ mailAttempts[e] < EmailMaxAttempts
    BY <1>2 DEF InsertEmail, EnqueuingTyped, MailTyped
  <2>2. MailTyped' /\ EnqueuingTyped' /\ HistoryTyped'
    BY <1>2, <2>1
       DEF InsertEmail, MailTyped, EnqueuingTyped, HistoryTyped, EmailStatuses
  <2>3. \A d \in Emails : mail[d] # "none" => mail'[d] # "none"
    BY <1>2 DEF InsertEmail, MailTyped
  <2>4. RetryingTyped' /\ LoopTyped'
    BY <1>2, <2>3 DEF InsertEmail, RetryingTyped, LoopTyped
  <2>5. QED
    BY <2>2, <2>4
<1>3. ASSUME NEW e \in Emails, EmailEnqueued(e)
      PROVE  EmailTyped'
  <2>1. LoopTyped' /\ mailIgnored' \in BOOLEAN
    BY <1>3, StartKeepsLoop DEF EmailEnqueued, HistoryTyped
  <2>2. QED
    BY <1>3, <2>1 DEF EmailEnqueued, MailTyped, EnqueuingTyped, RetryingTyped, HistoryTyped
<1>4. ASSUME NEW r \in Retriers, NEW e \in Emails, ReadFailedEmail(r, e)
      PROVE  EmailTyped'
  <2>1. RetryingTyped'
    BY <1>4 DEF ReadFailedEmail, RetryingTyped, Emails
  <2>2. QED
    BY <1>4, <2>1 DEF ReadFailedEmail, MailTyped, EnqueuingTyped, LoopTyped, HistoryTyped
<1>5. ASSUME NEW r \in Retriers, ResetEmail(r)
      PROVE  EmailTyped'
  <2> DEFINE e == retrying[r].email
  <2>1. e \in Emails /\ mail[e] # "none"
    BY <1>5 DEF ResetEmail, RetryingTyped
  <2>2. 0 \in 0 .. EmailMaxAttempts /\ 0 < EmailMaxAttempts
    BY EmailAssumption
  <2>3. MailTyped' /\ EnqueuingTyped' /\ HistoryTyped'
    BY <1>5, <2>1, <2>2
       DEF ResetEmail, MailTyped, EnqueuingTyped, HistoryTyped, EmailStatuses
  <2>4. \A d \in Emails : mail[d] # "none" => mail'[d] # "none"
    BY <1>5 DEF ResetEmail, MailTyped
  <2>5. RetryingTyped' /\ LoopTyped'
    BY <1>5, <2>4 DEF ResetEmail, RetryingTyped, LoopTyped
  <2>6. QED
    BY <2>3, <2>5
<1>6. ASSUME NEW r \in Retriers, EmailRetried(r)
      PROVE  EmailTyped'
  <2>1. LoopTyped' /\ mailIgnored' \in BOOLEAN
    BY <1>6, StartKeepsLoop DEF EmailRetried, HistoryTyped
  <2>2. QED
    BY <1>6, <2>1 DEF EmailRetried, MailTyped, EnqueuingTyped, RetryingTyped, HistoryTyped
<1>7. CASE SelectEmail
  <2>1. CASE loop' = [LoopBegun EXCEPT !.at = "selected"]
    <3>1. loop' = [at |-> "selected", email |-> 0, attempts |-> 0]
      BY <2>1 DEF LoopBegun
    <3>2. LoopTyped'
      BY <1>7, <3>1, EmailAssumption
         DEF SelectEmail, LoopTyped, LoopAt, EmailStatements, Emails
    <3>3. QED
      BY <1>7, <3>2
         DEF SelectEmail, MailTyped, EnqueuingTyped, RetryingTyped, HistoryTyped
  <2>2. ASSUME NEW e \in PendingEmails,
               loop' = [at |-> "selected", email |-> e, attempts |-> mailAttempts[e]]
        PROVE  EmailTyped'
    <3>1. e \in Emails /\ e \in 0 .. NumEmails /\ mail[e] = "pending"
      BY DEF PendingEmails, Emails
    <3>2. mailAttempts[e] \in 0 .. EmailMaxAttempts /\ mailAttempts[e] < EmailMaxAttempts
      BY <3>1 DEF MailTyped
    <3>3. LoopTyped'
      BY <1>7, <2>2, <3>1, <3>2 DEF SelectEmail, LoopTyped, LoopAt, EmailStatements
    <3>4. QED
      BY <1>7, <3>3
         DEF SelectEmail, MailTyped, EnqueuingTyped, RetryingTyped, HistoryTyped
  <2>3. QED
    BY <1>7, <2>1, <2>2 DEF SelectEmail
<1>8. CASE EmailSelected
  <2>1. LoopTyped'
    <3>1. CASE loop.email = 0
      BY <1>8, <3>1, EndedLoop DEF EmailSelected, StillDraining
    <3>2. CASE loop.email # 0
      <4>1. loop.email \in Emails /\ mail[loop.email] # "none"
        BY <3>2, EmailAssumption DEF LoopTyped, Emails
      <4>2. UNCHANGED draining /\ UNCHANGED mail /\ LoopGoto("mark")
        BY <1>8, <3>2 DEF EmailSelected, StillDraining, LoopTyped
      <4>3. QED
        BY <1>8, <4>1, <4>2, MovedLoop DEF EmailSelected, LoopAt
    <3>3. QED
      BY <3>1, <3>2
  <2>2. QED
    BY <1>8, <2>1
       DEF EmailSelected, MailTyped, EnqueuingTyped, RetryingTyped, HistoryTyped
<1>9. CASE ProviderAnswers
  <2>1. loop.email \in Emails /\ mail[loop.email] # "none"
    BY <1>9 DEF ProviderAnswers, LoopTyped
  <2>2. LoopTyped'
    BY <1>9, <2>1, MovedLoop DEF ProviderAnswers, LoopAt
  <2>3. QED
    BY <1>9, <2>1, <2>2
       DEF ProviderAnswers, MailTyped, EnqueuingTyped, RetryingTyped, HistoryTyped
<1>10. ASSUME loop.at \in EmailStatements \cup {"select"},
              \/ UNCHANGED <<mail, mailAttempts, mailLog>>
              \/ loop.at # "select" /\ EmailStatement(loop.email),
              UNCHANGED <<enqueuing, retrying>>
       PROVE  /\ MailTyped' /\ EnqueuingTyped' /\ RetryingTyped'
              /\ loop.email \in Emails => mail'[loop.email] # "none"
  <2>1. /\ MailTyped'
        /\ \A e \in Emails : mail[e] # "none" => mail'[e] # "none"
        /\ \A e \in Emails : mail[e] = "none" => mail'[e] = "none"
    BY <1>10, StatementWrites DEF MailTyped, LoopTyped, EmailStatements
  <2>2. QED
    BY <1>10, <2>1 DEF EnqueuingTyped, RetryingTyped, LoopTyped
<1>11. CASE LoopStatement
  <2>1. /\ MailTyped' /\ EnqueuingTyped' /\ RetryingTyped'
        /\ loop.email \in Emails => mail'[loop.email] # "none"
    BY <1>10, <1>11 DEF LoopStatement, EmailStatements
  <2>2. LoopTyped'
    BY <1>11, <2>1, StatementLeads, MovedLoop
       DEF LoopStatement, LoopAt, EmailStatements, LoopTyped
  <2>3. QED
    BY <1>11, <2>1, <2>2 DEF LoopStatement, HistoryTyped
<1>12. CASE LoopStatementFails
  <2>1. /\ MailTyped' /\ EnqueuingTyped' /\ RetryingTyped'
        /\ loop.email \in Emails => mail'[loop.email] # "none"
    BY <1>10, <1>12 DEF LoopStatementFails
  <2>2. LoopTyped'
    <3>1. CASE AfterRejection = "off"
      BY <1>12, <3>1, EndedLoop DEF LoopStatementFails
    <3>2. CASE AfterRejection # "off"
      <4>1. loop.at # "select"
        BY <3>2 DEF AfterRejection
      <4>2. loop.at \in EmailStatements /\ loop.email \in Emails
        BY <1>12, <4>1 DEF LoopStatementFails, LoopTyped
      <4>3. AfterRejection \in {"logFailed", "giveBack"}
        BY <3>2, <4>2, StatementLeads
      <4>4. LoopGoto(AfterRejection) /\ UNCHANGED draining
        BY <1>12, <3>2 DEF LoopStatementFails
      <4>5. loop.at # "off"
        BY <4>2 DEF EmailStatements
      <4>6. QED
        BY <2>1, <4>2, <4>3, <4>4, <4>5, MovedLoop DEF LoopAt
    <3>3. QED
      BY <3>1, <3>2
  <2>3. mailIgnored' \in BOOLEAN
    <3>1. mailIgnored \in BOOLEAN
      BY DEF HistoryTyped
    <3>2. mailIgnored' = TRUE \/ mailIgnored' = mailIgnored
      BY <1>12 DEF LoopStatementFails
    <3>3. QED
      BY <3>1, <3>2
  <2>4. /\ mailUsed' = [mailUsed EXCEPT !.dbErrors = @ + 1]
        /\ mailSends' = mailSends /\ mailRetried' = mailRetried
    BY <1>12 DEF LoopStatementFails
  <2>5. HistoryTyped'
    BY <2>3, <2>4 DEF HistoryTyped
  <2>6. QED
    BY <2>1, <2>2, <2>5
<1>13. CASE CallerLosesReply
  <2>1. EnqueuingTyped' /\ RetryingTyped'
    BY <1>13 DEF CallerLosesReply, EnqueuingTyped, RetryingTyped
  <2>2. QED
    BY <1>13, <2>1 DEF CallerLosesReply, MailTyped, LoopTyped, HistoryTyped
<1>14. CASE EmailCrash
  <2>1. EnqueuingTyped' /\ RetryingTyped'
    BY <1>14 DEF EmailCrash, EnqueuingTyped, RetryingTyped
  <2>2. LoopTyped'
    BY <1>14, EndedLoop DEF EmailCrash
  <2>3. QED
    BY <1>14, <2>1, <2>2 DEF EmailCrash, MailTyped, HistoryTyped
<1>15. CASE UNCHANGED emailVars
  BY <1>15 DEF emailVars, MailTyped, EnqueuingTyped, RetryingTyped, LoopTyped, HistoryTyped
<1>16. QED
  BY <1>1, <1>2, <1>3, <1>4, <1>5, <1>6, <1>7, <1>8, <1>9, <1>11, <1>12, <1>13, <1>14, <1>15
     DEF EmailNext, LoopStep, EmailCallStep

(* A step that sends e no more often than it takes away from what is due    *)
(* keeps e accounted for.                                                   *)
LEMMA AccountKept ==
    ASSUME EmailTyped, NEW e \in Emails, Accounted(e),
           NEW m \in Nat, NEW n \in Nat, NEW k \in Nat,
           mailSends'[e] = mailSends[e] + m, mailUsed'.dbErrors = mailUsed.dbErrors + n,
           mailRetried'[e] = mailRetried[e] + k,
           m + SendsDue(e)' <= SendsDue(e) + n + k
    PROVE  Accounted(e)'
<1>1. /\ mailSends[e] \in Nat /\ mailRetried[e] \in Nat /\ mailUsed.dbErrors \in Nat
  BY DEF EmailTyped, HistoryTyped
<1>2. SendsDue(e) \in Nat /\ SendsDue(e)' \in Nat
  BY DEF SendsDue
<1>3. QED
  BY <1>1, <1>2 DEF Accounted

(* What a statement of the loop does to the row the loop is on.             *)
LEMMA LoopWrites ==
    ASSUME EmailTyped, loop.at \in EmailStatements, EmailStatement(loop.email),
           NEW e \in Emails
    PROVE  /\ loop.email # e => mail'[e] = mail[e] /\ mailLog'[e] = mailLog[e]
           /\ loop.email = e =>
                /\ loop.at = "mark" => mail'[e] = "processing" /\ mailLog'[e] = "none"
                /\ loop.at = "complete" => mail'[e] = "completed"
                /\ loop.at = "giveBack" => mail'[e] \in {"failed", "pending"}
                /\ loop.at \notin {"mark", "complete", "giveBack"} => mail'[e] = mail[e]
                /\ loop.at = "log" => mailLog'[e] = "pending"
                /\ loop.at = "logSent" => mailLog'[e] = "sent"
                /\ loop.at = "logFailed" =>
                     mailLog'[e] = IF mailLog[e] # "none" THEN "failed" ELSE "none"
                /\ loop.at \notin {"mark", "log", "logSent", "logFailed"} =>
                     mailLog'[e] = mailLog[e]
<1>1. /\ loop.email \in Emails
      /\ mail'[loop.email] = EmailWritten(loop.email)
      /\ mailLog'[loop.email] = LogWritten(loop.email)
      /\ \A d \in Emails \ {loop.email} : mail'[d] = mail[d] /\ mailLog'[d] = mailLog[d]
  BY StatementWrites DEF EmailTyped
<1>2. CASE loop.email # e
  BY <1>1, <1>2
<1>3. CASE loop.email = e
  <2>1. /\ loop.at = "mark" => mail'[e] = "processing"
        /\ loop.at = "complete" => mail'[e] = "completed"
        /\ loop.at = "giveBack" => mail'[e] \in {"failed", "pending"}
        /\ loop.at \notin {"mark", "complete", "giveBack"} => mail'[e] = mail[e]
    BY <1>1, <1>3 DEF EmailWritten
  <2>2. /\ loop.at = "mark" => mailLog'[e] = "none"
        /\ loop.at = "log" => mailLog'[e] = "pending"
        /\ loop.at = "logSent" => mailLog'[e] = "sent"
        /\ loop.at = "logFailed" =>
             mailLog'[e] = IF mailLog[e] # "none" THEN "failed" ELSE "none"
        /\ loop.at \notin {"mark", "log", "logSent", "logFailed"} =>
             mailLog'[e] = mailLog[e]
    BY <1>1, <1>3 DEF LogWritten
  <2>3. QED
    BY <1>3, <2>1, <2>2
<1>4. QED
  BY <1>2, <1>3

LEMMA GotoMoves ==
    ASSUME EmailTyped, NEW label, LoopGoto(label)
    PROVE  loop'.at = label /\ loop'.email = loop.email
  BY DEF LoopGoto, EmailTyped, LoopTyped

LEMMA StartMoves ==
    ASSUME EmailTyped, StartUnlessDraining
    PROVE  \/ UNCHANGED loop
           \/ loop.at = "off" /\ loop'.at = "select" /\ loop'.email = 0
<1>1. draining \in BOOLEAN /\ (draining <=> loop.at # "off")
  BY DEF EmailTyped, LoopTyped
<1>2. QED
  BY <1>1 DEF StartUnlessDraining, LoopBegun

LEMMA SendsStep ==
    ASSUME EmailTyped, SendsAccounted, [EmailNext]_emailVars
    PROVE  SendsAccounted'
<1> SUFFICES ASSUME NEW e \in Emails
             PROVE  Accounted(e)'
  BY DEF SendsAccounted
<1>0. /\ Accounted(e) /\ e # 0 /\ mail[e] \in EmailStatuses
      /\ mailSends[e] \in Nat /\ mailRetried[e] \in Nat /\ mailUsed.dbErrors \in Nat
  BY DEF SendsAccounted, EmailTyped, MailTyped, HistoryTyped, Emails
<1> DEFINE wanted == mail[e] \in {"none", "pending"} \/ Selected(e)
           wanted2 == mail'[e] \in {"none", "pending"} \/ Selected(e)'
<1>1. /\ SendsDue(e) = (IF wanted THEN 1 ELSE 0) + (IF Sending(e) THEN 1 ELSE 0)
      /\ SendsDue(e)' = (IF wanted2 THEN 1 ELSE 0) + (IF Sending(e)' THEN 1 ELSE 0)
  BY DEF SendsDue
<1>2. ASSUME wanted2 => wanted, Sending(e)' => Sending(e),
             UNCHANGED <<mailSends, mailUsed, mailRetried>>
      PROVE  Accounted(e)'
  <2>1. 0 + SendsDue(e)' <= SendsDue(e) + 0 + 0
    BY <1>1, <1>2
  <2>2. /\ mailSends'[e] = mailSends[e] + 0 /\ mailRetried'[e] = mailRetried[e] + 0
        /\ mailUsed'.dbErrors = mailUsed.dbErrors + 0
    BY <1>0, <1>2
  <2>3. QED
    BY <1>0, <2>1, <2>2, AccountKept
<1>3. ASSUME UNCHANGED mail, UNCHANGED loop \/ (loop'.email = 0)
      PROVE  (wanted2 => wanted) /\ (Sending(e)' => Sending(e))
  BY <1>0, <1>3 DEF Selected, Sending
<1>4. ASSUME NEW d \in Emails, EnqueueEmail(d)
      PROVE  Accounted(e)'
  BY <1>2, <1>3, <1>4 DEF EnqueueEmail
<1>5. ASSUME NEW d \in Emails, InsertEmail(d)
      PROVE  Accounted(e)'
  <2>1. mail[d] = "none" /\ mail' = [mail EXCEPT ![d] = "pending"] /\ UNCHANGED loop
    BY <1>5 DEF InsertEmail, EmailTyped, EnqueuingTyped
  <2>2. (wanted2 => wanted) /\ (Sending(e)' => Sending(e))
    BY <2>1 DEF Selected, Sending, EmailTyped, MailTyped
  <2>3. QED
    BY <1>2, <1>5, <2>2 DEF InsertEmail
<1>6. ASSUME StartUnlessDraining, UNCHANGED <<mail, mailSends, mailUsed, mailRetried>>
      PROVE  Accounted(e)'
  BY <1>2, <1>3, <1>6, StartMoves
<1>7. ASSUME NEW r \in Retriers, NEW d \in Emails, ReadFailedEmail(r, d)
      PROVE  Accounted(e)'
  BY <1>2, <1>3, <1>7 DEF ReadFailedEmail
<1>8. ASSUME NEW r \in Retriers, ResetEmail(r)
      PROVE  Accounted(e)'
  <2>1. /\ retrying[r].email \in Emails /\ UNCHANGED <<loop, mailSends, mailUsed>>
        /\ mail' = [mail EXCEPT ![retrying[r].email] = "pending"]
        /\ mailRetried' = [mailRetried EXCEPT ![retrying[r].email] = @ + 1]
    BY <1>8 DEF ResetEmail, EmailTyped, RetryingTyped
  <2>2. Sending(e)' <=> Sending(e)
    BY <2>1 DEF Sending
  <2>3. CASE retrying[r].email # e
    <3>1. mail'[e] = mail[e] /\ mailRetried'[e] = mailRetried[e]
      BY <2>1, <2>3 DEF EmailTyped, MailTyped, HistoryTyped
    <3>2. SendsDue(e)' = SendsDue(e)
      BY <2>1, <3>1 DEF SendsDue, Selected, Sending
    <3>3. QED
      BY <1>0, <2>1, <3>1, <3>2 DEF Accounted
  <2>4. CASE retrying[r].email = e
    <3>1. mailRetried'[e] = mailRetried[e] + 1
      BY <2>1, <2>4 DEF EmailTyped, HistoryTyped
    <3>2. 0 + SendsDue(e)' <= SendsDue(e) + 0 + 1
      BY <1>1, <2>2
    <3>3. mailSends'[e] = mailSends[e] + 0 /\ mailUsed'.dbErrors = mailUsed.dbErrors + 0
      BY <1>0, <2>1
    <3>4. QED
      BY <1>0, <3>1, <3>2, <3>3, AccountKept
  <2>5. QED
    BY <2>3, <2>4
<1>9. CASE SelectEmail
  <2>1. /\ loop.at = "select" /\ loop'.at = "selected"
        /\ loop'.email = e => mail[e] = "pending"
        /\ UNCHANGED <<mail, mailSends, mailUsed, mailRetried>>
    BY <1>0, <1>9 DEF SelectEmail, PendingEmails, LoopBegun
  <2>2. (wanted2 => wanted) /\ (Sending(e)' => Sending(e))
    BY <2>1 DEF Selected, Sending
  <2>3. QED
    BY <1>2, <2>1, <2>2
<1>10. CASE EmailSelected
  <2>1. /\ loop.at = "selected" /\ UNCHANGED <<mail, mailSends, mailUsed, mailRetried>>
        /\ \/ loop'.at = "off" /\ loop'.email = 0
           \/ loop'.at = "mark" /\ loop'.email = loop.email
    BY <1>10, GotoMoves DEF EmailSelected, NoLoop
  <2>2. (wanted2 => wanted) /\ (Sending(e)' => Sending(e))
    BY <1>0, <2>1 DEF Selected, Sending
  <2>3. QED
    BY <1>2, <2>1, <2>2
<1>11. CASE ProviderAnswers
  <2>1. /\ loop.at = "send" /\ UNCHANGED <<mail, mailUsed, mailRetried>>
        /\ loop'.at \in {"logSent", "logFailed"} /\ loop'.email = loop.email
        /\ \/ mailSends' = [mailSends EXCEPT ![loop.email] = @ + 1]
           \/ UNCHANGED mailSends
    BY <1>11, GotoMoves DEF ProviderAnswers
  <2>2. (wanted2 <=> wanted) /\ ~ Sending(e)'
    BY <2>1 DEF Selected, Sending
  <2>3. CASE UNCHANGED mailSends
    BY <1>2, <2>1, <2>2, <2>3
  <2>4. CASE mailSends' = [mailSends EXCEPT ![loop.email] = @ + 1] /\ loop.email # e
    <3>1. mailSends'[e] = mailSends[e] + 0
      BY <1>0, <2>4 DEF EmailTyped, HistoryTyped
    <3>2. 0 + SendsDue(e)' <= SendsDue(e) + 0 + 0
      BY <1>1, <2>2
    <3>3. mailRetried'[e] = mailRetried[e] + 0 /\ mailUsed'.dbErrors = mailUsed.dbErrors + 0
      BY <1>0, <2>1
    <3>4. QED
      BY <1>0, <3>1, <3>2, <3>3, AccountKept
  <2>5. CASE mailSends' = [mailSends EXCEPT ![loop.email] = @ + 1] /\ loop.email = e
    <3>1. mailSends'[e] = mailSends[e] + 1
      BY <1>0, <2>5 DEF EmailTyped, HistoryTyped
    <3>2. Sending(e)
      BY <2>1, <2>5 DEF Sending
    <3>3. 1 + SendsDue(e)' <= SendsDue(e) + 0 + 0
      BY <1>1, <2>2, <3>2
    <3>4. mailRetried'[e] = mailRetried[e] + 0 /\ mailUsed'.dbErrors = mailUsed.dbErrors + 0
      BY <1>0, <2>1
    <3>5. QED
      BY <1>0, <3>1, <3>3, <3>4, AccountKept
  <2>6. QED
    BY <2>1, <2>3, <2>4, <2>5
<1>12. CASE LoopStatement
  <2>1. /\ loop.at \in EmailStatements /\ EmailStatement(loop.email)
        /\ loop'.at = AfterStatement /\ loop'.email = loop.email
        /\ UNCHANGED <<mailSends, mailUsed, mailRetried>>
    BY <1>12, GotoMoves DEF LoopStatement
  <2>2. /\ loop.at = "mark" => loop'.at = "log" /\ mail'[loop.email] = "processing"
        /\ loop.at = "log" => loop'.at = "send"
        /\ loop.at \notin {"mark", "log"} =>
             loop'.at \in {"readSent", "complete", "readFailed", "select"}
    BY <2>1, LoopWrites DEF AfterStatement, EmailStatements, EmailTyped, LoopTyped
  <2>3. /\ loop.email # e => mail'[e] = mail[e]
        /\ loop.email = e =>
             /\ loop.at = "mark" => mail'[e] = "processing"
             /\ loop.at \notin {"mark", "giveBack"} =>
                  mail'[e] = mail[e] \/ mail'[e] = "completed"
    BY <2>1, LoopWrites
  <2>4. SendsDue(e)' <= SendsDue(e)
    BY <1>1, <2>1, <2>2, <2>3 DEF Selected, Sending
  <2>5. SendsDue(e) \in Nat /\ SendsDue(e)' \in Nat
    BY <1>1
  <2>6. QED
    BY <1>0, <2>1, <2>4, <2>5 DEF Accounted
<1>13. CASE LoopStatementFails
  <2>1. /\ mailUsed'.dbErrors = mailUsed.dbErrors + 1
        /\ UNCHANGED <<mailSends, mailRetried>>
    BY <1>13 DEF LoopStatementFails, EmailTyped, HistoryTyped
  <2>2. /\ loop.at \in EmailStatements \cup {"select"}
        /\ \/ UNCHANGED mail
           \/ loop.at \in EmailStatements /\ EmailStatement(loop.email)
        /\ \/ loop'.email = 0
           \/ /\ loop'.email = loop.email
              /\ loop'.at = AfterRejection
              /\ loop.at \notin {"mark", "select"} /\ AfterRejection # "off"
    BY <1>13, GotoMoves DEF LoopStatementFails, NoLoop, AfterRejection, EmailStatements
  <2>4. /\ loop'.at = AfterRejection /\ AfterRejection # "off" =>
             /\ loop'.at \notin {"selected", "mark"}
             /\ loop.at \in {"log", "giveBack"} => loop'.at = "logFailed"
    BY <2>2 DEF AfterRejection, EmailStatements
  <2>5. /\ loop.email # e => mail'[e] = mail[e]
        /\ loop.email = e =>
             \/ mail'[e] = mail[e]
             \/ mail'[e] \in {"processing", "completed", "failed"}
             \/ loop.at = "giveBack"
    BY <2>2, LoopWrites
  <2>6. SendsDue(e)' <= SendsDue(e) + 1
    BY <1>0, <1>1, <2>2, <2>4, <2>5 DEF Selected, Sending
  <2>7. SendsDue(e) \in Nat /\ SendsDue(e)' \in Nat
    BY <1>1
  <2>8. QED
    BY <1>0, <2>1, <2>6, <2>7 DEF Accounted
<1>14. CASE CallerLosesReply
  <2>1. /\ mailUsed'.dbErrors = mailUsed.dbErrors + 1
        /\ UNCHANGED <<mail, loop, mailSends, mailRetried>>
    BY <1>14 DEF CallerLosesReply, EmailTyped, HistoryTyped
  <2>2. SendsDue(e)' = SendsDue(e) /\ SendsDue(e) \in Nat
    BY <2>1 DEF SendsDue, Selected, Sending
  <2>3. QED
    BY <1>0, <2>1, <2>2 DEF Accounted
<1>15. CASE EmailCrash
  <2>1. /\ UNCHANGED <<mail, mailSends, mailRetried>> /\ loop'.email = 0
        /\ mailUsed'.dbErrors = mailUsed.dbErrors
    BY <1>15 DEF EmailCrash, NoLoop, EmailTyped, HistoryTyped
  <2>2. (wanted2 => wanted) /\ (Sending(e)' => Sending(e))
    BY <1>3, <2>1
  <2>3. SendsDue(e)' <= SendsDue(e) /\ SendsDue(e) \in Nat /\ SendsDue(e)' \in Nat
    BY <1>1, <2>2
  <2>4. QED
    BY <1>0, <2>1, <2>3 DEF Accounted
<1>16. CASE UNCHANGED emailVars
  BY <1>2, <1>3, <1>16 DEF emailVars
<1>17. QED
  BY <1>4, <1>5, <1>6, <1>7, <1>8, <1>9, <1>10, <1>11, <1>12, <1>13, <1>14, <1>15, <1>16
     DEF EmailNext, LoopStep, EmailCallStep, EmailEnqueued, EmailRetried

(* Where each statement of the loop leaves it.                              *)
LEMMA LoopStatementMoves ==
    ASSUME EmailTyped, LoopStatement
    PROVE  /\ loop'.email = loop.email /\ mailSends' = mailSends
           /\ loop.at = "mark" => loop'.at = "log"
           /\ loop.at = "log" => loop'.at = "send"
           /\ loop.at = "logSent" => loop'.at = "readSent"
           /\ loop.at \in {"readSent", "readFailed"} => loop'.at = "complete"
           /\ loop.at = "logFailed" => loop'.at = "readFailed"
           /\ loop.at \in {"complete", "giveBack"} => loop'.at = "select"
<1>1. /\ loop.at \in EmailStatements /\ mailSends' = mailSends
      /\ loop'.at = AfterStatement /\ loop'.email = loop.email
  BY GotoMoves DEF LoopStatement
<1>2. QED
  BY <1>1 DEF AfterStatement

LEMMA SentStep ==
    ASSUME EmailTyped, SentIsSent, [EmailNext]_emailVars
    PROVE  SentIsSent'
<1> DEFINE saysSent(e) == mailLog[e] = "sent" \/ (loop.email = e /\ loop.at = "logSent")
           saysSent2(e) == mailLog'[e] = "sent" \/ (loop'.email = e /\ loop'.at = "logSent")
<1> SUFFICES ASSUME NEW e \in Emails
             PROVE  saysSent2(e) => mailSends'[e] > 0
  BY DEF SentIsSent
<1>0. /\ saysSent(e) => mailSends[e] > 0
      /\ mailSends \in [Emails -> Nat]
  BY DEF SentIsSent, EmailTyped, HistoryTyped
<1>1. ASSUME UNCHANGED <<mailLog, mailSends>>, UNCHANGED loop \/ loop'.at # "logSent"
      PROVE  saysSent2(e) => mailSends'[e] > 0
  BY <1>0, <1>1
<1>2. CASE \/ \E d \in Emails : EnqueueEmail(d) \/ InsertEmail(d)
           \/ \E r \in Retriers, d \in Emails : ReadFailedEmail(r, d)
           \/ \E r \in Retriers : ResetEmail(r)
           \/ CallerLosesReply \/ UNCHANGED emailVars
  BY <1>1, <1>2 DEF EnqueueEmail, InsertEmail, ReadFailedEmail, ResetEmail, CallerLosesReply,
                    emailVars
<1>3. CASE SelectEmail \/ EmailSelected \/ EmailCrash
  <2>1. UNCHANGED <<mailLog, mailSends>>
    BY <1>3 DEF SelectEmail, EmailSelected, EmailCrash
  <2>2. loop'.at \in {"selected", "off", "mark"}
    BY <1>3, GotoMoves DEF SelectEmail, EmailSelected, EmailCrash, NoLoop, LoopBegun
  <2>3. QED
    BY <1>1, <2>1, <2>2
<1>4. CASE \/ \E d \in Emails : EmailEnqueued(d)
           \/ \E r \in Retriers : EmailRetried(r)
  BY <1>1, <1>4, StartMoves DEF EmailEnqueued, EmailRetried
<1>5. CASE ProviderAnswers
  <2>1. /\ mailLog' = mailLog /\ loop.at = "send" /\ loop.email \in Emails
        /\ loop'.email = loop.email
        /\ \/ mailSends' = [mailSends EXCEPT ![loop.email] = @ + 1]
           \/ loop'.at = "logFailed" /\ UNCHANGED mailSends
    BY <1>5, GotoMoves DEF ProviderAnswers, EmailTyped, LoopTyped
  <2>2. CASE mailSends' = [mailSends EXCEPT ![loop.email] = @ + 1]
    <3>1. mailSends'[e] = IF loop.email = e THEN mailSends[e] + 1 ELSE mailSends[e]
      BY <1>0, <2>2
    <3>2. QED
      BY <1>0, <2>1, <3>1
  <2>3. QED
    BY <1>1, <2>1, <2>2
<1>6. CASE LoopStatement
  <2>1. /\ loop'.email = loop.email /\ mailSends' = mailSends /\ loop'.at # "logSent"
        /\ loop.at \in EmailStatements /\ EmailStatement(loop.email)
    BY <1>6, LoopStatementMoves DEF LoopStatement, EmailStatements
  <2>2. mailLog'[e] = "sent" => saysSent(e)
    BY <2>1, LoopWrites
  <2>3. QED
    BY <1>0, <2>1, <2>2
<1>7. CASE LoopStatementFails
  <2>1. /\ mailSends' = mailSends
        /\ \/ UNCHANGED mailLog
           \/ loop.at \in EmailStatements /\ EmailStatement(loop.email)
        /\ loop'.at \in {"off", "logFailed", "giveBack"}
    BY <1>7, GotoMoves
       DEF LoopStatementFails, NoLoop, AfterRejection, EmailStatements
  <2>2. mailLog'[e] = "sent" => saysSent(e)
    BY <2>1, LoopWrites
  <2>3. QED
    BY <1>0, <2>1, <2>2
<1>8. QED
  BY <1>2, <1>3, <1>4, <1>5, <1>6, <1>7 DEF EmailNext, LoopStep, EmailCallStep

(* While nothing fails, each email goes from one step of the loop to the    *)
(* next with its log.                                                       *)
LEMMA FaultlessStep ==
    ASSUME EmailTyped, FaultlessEmails, [EmailNext]_emailVars
    PROVE  FaultlessEmails'
<1> SUFFICES ASSUME mailUsed'.dbErrors = 0
             PROVE  /\ \A r \in Retriers : retrying'[r].at # "update"
                    /\ loop'.at # "giveBack"
                    /\ \A e \in Emails : FaultlessEmail(e)'
  BY DEF FaultlessEmails
<1>0. mailUsed.dbErrors \in Nat /\ mailUsed \in [dbErrors : Nat, crashes : Nat]
  BY DEF EmailTyped, HistoryTyped
<1>1. ~ LoopStatementFails /\ ~ CallerLosesReply
  <2>1. ASSUME mailUsed' = [mailUsed EXCEPT !.dbErrors = @ + 1]
        PROVE  FALSE
    BY <1>0, <2>1
  <2>2. QED
    BY <2>1 DEF LoopStatementFails, CallerLosesReply
<1>2. mailUsed.dbErrors = 0
  BY <1>0, <1>1
     DEF EmailNext, LoopStep, EmailCallStep, EnqueueEmail, InsertEmail, EmailEnqueued,
         ReadFailedEmail, ResetEmail, EmailRetried, SelectEmail, EmailSelected, LoopStatement,
         ProviderAnswers, EmailCrash, emailVars
<1>3. /\ \A r \in Retriers : retrying[r].at # "update"
      /\ loop.at # "giveBack"
      /\ \A e \in Emails : FaultlessEmail(e)
  BY <1>2 DEF FaultlessEmails
<1>4. \A r \in Retriers : ~ ResetEmail(r)
  BY <1>3 DEF ResetEmail
<1>5. \A r \in Retriers, e \in Emails : ~ ReadFailedEmail(r, e)
  BY <1>3 DEF ReadFailedEmail, FaultlessEmail
<1>6. \A r \in Retriers : retrying'[r].at # "update"
  <2>1. UNCHANGED retrying \/ (\E r \in Retriers : EmailRetried(r)) \/ EmailCrash
    BY <1>1, <1>4, <1>5
       DEF EmailNext, LoopStep, EmailCallStep, EnqueueEmail, InsertEmail, EmailEnqueued,
           SelectEmail, EmailSelected, LoopStatement, ProviderAnswers, emailVars
  <2>2. QED
    BY <1>3, <2>1 DEF EmailRetried, EmailCrash, EmailTyped, RetryingTyped
<1>7. ASSUME UNCHANGED <<mail, mailLog, mailSends>>,
             \/ UNCHANGED loop
             \/ loop'.email = 0 /\ loop'.at # "giveBack"
      PROVE  loop'.at # "giveBack" /\ \A e \in Emails : FaultlessEmail(e)'
  <2>1. ASSUME NEW e \in Emails
        PROVE  FaultlessEmail(e)'
    BY <1>3, <1>7, <2>1 DEF FaultlessEmail, LoggedInLoop, Logged, Emails
  <2>2. QED
    BY <1>3, <1>7, <2>1
<1>8. CASE \/ \E d \in Emails : EnqueueEmail(d)
           \/ UNCHANGED emailVars
  BY <1>6, <1>7, <1>8 DEF EnqueueEmail, emailVars
<1>9. CASE \/ \E d \in Emails : EmailEnqueued(d)
           \/ \E r \in Retriers : EmailRetried(r)
  BY <1>6, <1>7, <1>9, StartMoves DEF EmailEnqueued, EmailRetried
<1>10. CASE EmailCrash
  BY <1>6, <1>7, <1>10 DEF EmailCrash, NoLoop
<1>11. ASSUME NEW d \in Emails, InsertEmail(d)
       PROVE  loop'.at # "giveBack" /\ \A e \in Emails : FaultlessEmail(e)'
  <2>1. /\ mail[d] = "none" /\ mail' = [mail EXCEPT ![d] = "pending"]
        /\ UNCHANGED <<loop, mailLog, mailSends>>
    BY <1>11 DEF InsertEmail, EmailTyped, EnqueuingTyped
  <2>2. loop.email # d
    BY <2>1 DEF EmailTyped, LoopTyped
  <2>3. ASSUME NEW e \in Emails
        PROVE  FaultlessEmail(e)'
    BY <1>3, <2>1, <2>2, <2>3
       DEF FaultlessEmail, LoggedInLoop, Logged, EmailTyped, MailTyped
  <2>4. QED
    BY <1>3, <2>1, <2>3
<1>12. CASE SelectEmail
  <2>1. /\ loop'.at = "selected" /\ UNCHANGED <<mail, mailLog, mailSends>>
        /\ \A e \in Emails : loop'.email = e => mail[e] = "pending"
    BY <1>12 DEF SelectEmail, PendingEmails, LoopBegun, Emails
  <2>2. ASSUME NEW e \in Emails
        PROVE  FaultlessEmail(e)'
    BY <1>3, <2>1, <2>2 DEF FaultlessEmail, LoggedInLoop, Logged, EmailStatements
  <2>3. QED
    BY <1>6, <2>1, <2>2
<1>13. CASE EmailSelected
  <2>1. CASE loop.email = 0
    BY <1>6, <1>7, <1>13, <2>1 DEF EmailSelected, NoLoop
  <2>2. CASE loop.email # 0
    <3>1. /\ loop.at = "selected" /\ loop'.at = "mark" /\ loop'.email = loop.email
          /\ UNCHANGED <<mail, mailLog, mailSends>>
      BY <1>13, <2>2, GotoMoves DEF EmailSelected
    <3>2. ASSUME NEW e \in Emails
          PROVE  FaultlessEmail(e)'
      BY <1>3, <3>1, <3>2 DEF FaultlessEmail, LoggedInLoop, Logged, EmailStatements
    <3>3. QED
      BY <1>6, <3>1, <3>2
  <2>3. QED
    BY <2>1, <2>2
<1>14. CASE ProviderAnswers
  <2>1. /\ loop.at = "send" /\ loop.email \in Emails /\ UNCHANGED <<mail, mailLog>>
        /\ loop'.email = loop.email
        /\ \/ /\ mailSends' = [mailSends EXCEPT ![loop.email] = @ + 1]
              /\ loop'.at = "logSent"
           \/ loop'.at = "logFailed" /\ UNCHANGED mailSends
    BY <1>14, GotoMoves DEF ProviderAnswers, EmailTyped, LoopTyped
  <2>2. mailSends \in [Emails -> Nat]
    BY DEF EmailTyped, HistoryTyped
  <2>3. ASSUME NEW e \in Emails, loop.email # e
        PROVE  FaultlessEmail(e)'
    BY <1>3, <2>1, <2>2, <2>3 DEF FaultlessEmail, Logged
  <2>4. ASSUME NEW e \in Emails, loop.email = e
        PROVE  FaultlessEmail(e)'
    <3>1. mail[e] = "processing" /\ Logged(e, "pending", FALSE)
      BY <1>3, <2>1, <2>4 DEF FaultlessEmail, LoggedInLoop
    <3>2. \/ loop'.at = "logSent" /\ mailSends'[e] > 0
          \/ loop'.at = "logFailed" /\ mailSends'[e] = mailSends[e]
      BY <2>1, <2>2, <2>4
    <3>3. QED
      BY <2>1, <2>4, <3>1, <3>2 DEF FaultlessEmail, LoggedInLoop, Logged, EmailStatements
  <2>5. QED
    BY <1>6, <2>1, <2>3, <2>4
<1>15. CASE LoopStatement
  <2>1. /\ loop.at \in EmailStatements /\ EmailStatement(loop.email) /\ loop.email \in Emails
        /\ loop'.email = loop.email /\ mailSends' = mailSends
    BY <1>15, LoopStatementMoves DEF LoopStatement, EmailTyped, LoopTyped
  <2>2. /\ loop.at = "mark" => loop'.at = "log"
        /\ loop.at = "log" => loop'.at = "send"
        /\ loop.at = "logSent" => loop'.at = "readSent"
        /\ loop.at \in {"readSent", "readFailed"} => loop'.at = "complete"
        /\ loop.at = "logFailed" => loop'.at = "readFailed"
        /\ loop.at \in {"complete", "giveBack"} => loop'.at = "select"
    BY <1>15, LoopStatementMoves
  <2>3. loop'.at # "giveBack"
    BY <2>1, <2>2 DEF EmailStatements
  <2>4. ASSUME NEW e \in Emails, loop.email # e
        PROVE  FaultlessEmail(e)'
    <3>1. mail'[e] = mail[e] /\ mailLog'[e] = mailLog[e]
      BY <2>1, <2>4, LoopWrites
    <3>2. QED
      BY <1>3, <2>1, <2>4, <3>1 DEF FaultlessEmail, Logged
  <2>5. ASSUME NEW e \in Emails, loop.email = e
        PROVE  FaultlessEmail(e)'
    <3>1. /\ loop.at = "mark" => mail'[e] = "processing" /\ mailLog'[e] = "none"
          /\ loop.at = "complete" => mail'[e] = "completed"
          /\ loop.at \notin {"mark", "complete", "giveBack"} => mail'[e] = mail[e]
          /\ loop.at = "log" => mailLog'[e] = "pending"
          /\ loop.at = "logSent" => mailLog'[e] = "sent"
          /\ loop.at = "logFailed" =>
               mailLog'[e] = IF mailLog[e] # "none" THEN "failed" ELSE "none"
          /\ loop.at \notin {"mark", "log", "logSent", "logFailed"} =>
               mailLog'[e] = mailLog[e]
      BY <2>1, <2>5, LoopWrites
    <3>2. LoggedInLoop(e) /\ mailSends'[e] = mailSends[e] /\ loop.at # "giveBack"
      BY <1>3, <2>1, <2>5 DEF FaultlessEmail
    <3>3. loop.at = "mark" => Logged(e, "none", FALSE)
      BY <1>3, <2>1, <3>2 DEF FaultlessEmail, LoggedInLoop
    <3>4. /\ mail'[e] = IF loop.at = "complete" THEN "completed" ELSE "processing"
          /\ loop.at = "mark" => mailLog'[e] = "none" /\ ~ (mailSends'[e] > 0)
          /\ loop.at = "log" => mailLog'[e] = "pending" /\ ~ (mailSends'[e] > 0)
          /\ loop.at = "logSent" => mailLog'[e] = "sent" /\ mailSends'[e] > 0
          /\ loop.at = "readSent" => mailLog'[e] = "sent" /\ mailSends'[e] > 0
          /\ loop.at = "logFailed" => mailLog'[e] = "failed" /\ ~ (mailSends'[e] > 0)
          /\ loop.at = "readFailed" => mailLog'[e] = "failed" /\ ~ (mailSends'[e] > 0)
          /\ loop.at = "complete" => \/ mailLog'[e] = "sent" /\ mailSends'[e] > 0
                                     \/ mailLog'[e] = "failed" /\ ~ (mailSends'[e] > 0)
      BY <2>1, <3>1, <3>2, <3>3 DEF LoggedInLoop, Logged
    <3>5. LoggedInLoop(e)'
      BY <2>1, <2>2, <2>5, <3>4 DEF LoggedInLoop, Logged, EmailStatements
    <3>6. QED
      BY <2>1, <2>5, <3>4, <3>5 DEF FaultlessEmail, Logged
  <2>6. QED
    BY <1>6, <2>3, <2>4, <2>5
<1>16. QED
  BY <1>1, <1>4, <1>5, <1>6, <1>8, <1>9, <1>10, <1>11, <1>12, <1>13, <1>14, <1>15
     DEF EmailNext, LoopStep, EmailCallStep

LEMMA EmailInvInit == EmailInit => EmailInv
<1> SUFFICES ASSUME EmailInit
             PROVE  EmailInv
  OBVIOUS
<1>1. /\ 0 \in 0 .. EmailMaxAttempts /\ 0 < EmailMaxAttempts
      /\ 0 \in 0 .. NumEmails /\ 0 \notin Emails
  BY EmailAssumption DEF Emails
<1>2. MailTyped /\ EnqueuingTyped /\ RetryingTyped /\ HistoryTyped
  BY <1>1
     DEF EmailInit, MailTyped, EnqueuingTyped, RetryingTyped, HistoryTyped, EmailStatuses,
         EmailLogs
<1>3. LoopTyped
  BY <1>1 DEF EmailInit, NoLoop, LoopTyped, LoopAt, EmailStatements
<1>4. SendsAccounted
  BY <1>1 DEF EmailInit, NoLoop, SendsAccounted, Accounted, SendsDue, Selected, Sending
<1>5. SentIsSent
  BY DEF EmailInit, NoLoop, SentIsSent
<1>6. FaultlessEmails
  BY <1>1 DEF EmailInit, NoLoop, FaultlessEmails, FaultlessEmail, Logged
<1>7. QED
  BY <1>2, <1>3, <1>4, <1>5, <1>6 DEF EmailInv, EmailTyped

LEMMA EmailInvStep ==
    ASSUME EmailInv, [EmailNext]_emailVars
    PROVE  EmailInv'
  BY EmailTypeStep, SendsStep, SentStep, FaultlessStep DEF EmailInv

(* The rows, the loop and the callers of the queue stay what the code makes *)
(* them: in particular isProcessing is set exactly while the loop runs, over *)
(* statements that fail, processes that die and callers that overlap.       *)
THEOREM EmailTypeCorrect == EmailSpec => []EmailTypeOK
<1>1. EmailInv => EmailTypeOK
  BY DEF EmailInv, EmailTyped, EmailTypeOK, MailTyped, EnqueuingTyped, RetryingTyped,
         LoopTyped, HistoryTyped, EmailStatuses, EmailLogs
<1>2. QED
  BY <1>1, EmailInvInit, EmailInvStep, PTL DEF EmailSpec

(* processQueue and sendEmail hand an email to the provider once, plus once *)
(* for every failed statement and every retryEmail; a completed email has a *)
(* log that tells what happened, and sent is never said of one the provider *)
(* did not take.                                                            *)
THEOREM EmailOnce == EmailSpec => []EmailSentOnce
<1>1. EmailInv => EmailSentOnce
  <2> SUFFICES ASSUME EmailInv, NEW e \in Emails
               PROVE  /\ mailSends[e] <= 1 + mailUsed.dbErrors + mailRetried[e]
                      /\ mail[e] = "completed" /\ mailUsed.dbErrors = 0 =>
                             mailLog[e] = (IF mailSends[e] > 0 THEN "sent" ELSE "failed")
                      /\ mailLog[e] = "sent" => mailSends[e] > 0
    BY DEF EmailSentOnce
  <2>1. mailSends[e] \in Nat /\ mailRetried[e] \in Nat /\ mailUsed.dbErrors \in Nat
    BY DEF EmailInv, EmailTyped, HistoryTyped
  <2>2. SendsDue(e) \in Nat /\ Accounted(e)
    BY DEF EmailInv, SendsAccounted, SendsDue
  <2>3. mailSends[e] <= 1 + mailUsed.dbErrors + mailRetried[e]
    BY <2>1, <2>2 DEF Accounted
  <2>4. mail[e] = "completed" /\ mailUsed.dbErrors = 0 =>
            mailLog[e] = (IF mailSends[e] > 0 THEN "sent" ELSE "failed")
    BY DEF EmailInv, FaultlessEmails, FaultlessEmail, Logged
  <2>5. mailLog[e] = "sent" => mailSends[e] > 0
    BY DEF EmailInv, SentIsSent
  <2>6. QED
    BY <2>3, <2>4, <2>5
<1>2. QED
  BY <1>1, EmailInvInit, EmailInvStep, PTL DEF EmailSpec

-----------------------------------------------------------------------------
(* The steps of the rate limiter.                                           *)

LEMMA LimiterSets ==
    /\ IsFiniteSet(LetGo) /\ Cardinality(LetGo) \in Nat
    /\ IsFiniteSet(Counted) /\ Cardinality(Counted) \in Nat
    /\ Cardinality(LimitedCallers) \in Nat
    /\ Cardinality(Counted) <= Cardinality(LimitedCallers)
  BY LimiterAssumption, FS_Subset, FS_CardinalityType DEF LetGo, Counted

(* The same sets after a step.                                              *)
LEMMA LimiterSets2 ==
    /\ IsFiniteSet(LetGo') /\ Cardinality(LetGo') \in Nat
    /\ IsFiniteSet(Counted') /\ Cardinality(Counted') \in Nat
    /\ Cardinality(Counted') <= Cardinality(LimitedCallers)
  BY LimiterAssumption, FS_Subset, FS_CardinalityType DEF LetGo, Counted

(* No more callers are at the front of the list than places there.          *)
LEMMA FrontIsNoLarger ==
    ASSUME NEW S, NEW s \in Seq(S), NEW n \in 0 .. Len(s),
           NEW T \in SUBSET {s[i] : i \in 1 .. n}
    PROVE  IsFiniteSet(T) /\ Cardinality(T) <= n
<1> DEFINE front == {s[i] : i \in 1 .. n}
           f == [i \in 1 .. n |-> s[i]]
<1>1. f \in Surjection(1 .. n, front)
  BY DEF Surjection
<1>2. IsFiniteSet(1 .. n) /\ Cardinality(1 .. n) = n
  BY FS_Interval
<1>3. IsFiniteSet(front) /\ Cardinality(front) <= n
  BY <1>1, <1>2, FS_Surjection
<1> HIDE DEF front
<1>4. IsFiniteSet(T) /\ Cardinality(T) <= Cardinality(front)
  BY <1>3, FS_Subset DEF front
<1>5. Cardinality(T) \in Nat /\ Cardinality(front) \in Nat /\ n \in Nat
  BY <1>3, <1>4, FS_CardinalityType
<1>6. QED
  BY <1>3, <1>4, <1>5

(* Resolving the waiters there is room for, where a caller may just have    *)
(* returned, keeps the list and the limit.                                  *)
LEMMA NotifyStep ==
    ASSUME LimiterInv, NEW callers \in [LimitedCallers -> LimitedAt],
           \A d \in LimitedCallers :
               IF limited[d] = "running" THEN callers[d] \in {"running", "over"}
                                         ELSE callers[d] = limited[d],
           NotifyWaiting(callers), UNCHANGED inWindow, paused' \in BOOLEAN
    PROVE  LimiterInv'
<1> DEFINE room == Available(inWindow)
           n == IF room < Len(waiters) THEN room ELSE Len(waiters)
           freed == {waiters[i] : i \in 1 .. n}
<1> USE DEF LimiterInv
<1>1. /\ waiters' = SubSeq(waiters, n + 1, Len(waiters))
      /\ limited' = [c \in LimitedCallers |-> IF c \in freed /\ callers[c] = "waiting"
                                              THEN "letGo" ELSE callers[c]]
      /\ crossed' = (crossed \/ (n > 0 /\ LetGo # {}))
  BY DEF NotifyWaiting
<1>2. /\ MaxRequests \in Nat /\ inWindow \in Nat /\ room \in Nat
      /\ room + inWindow <= MaxRequests \/ room = 0
  BY LimiterAssumption DEF CallersKept, Available
<1>3. Len(waiters) \in Nat /\ n \in 0 .. Len(waiters) /\ n <= room
  BY <1>2 DEF WaitersKept
<1> HIDE DEF room, n
<1>4. WaitersKept'
  <2> DEFINE rest == SubSeq(waiters, n + 1, Len(waiters))
  <2>1. /\ rest \in Seq(LimitedCallers) /\ Len(rest) = Len(waiters) - n
        /\ \A i \in 1 .. Len(waiters) - n : rest[i] = waiters[n + i]
    <3>1. \A i \in n + 1 .. Len(waiters) : waiters[i] \in LimitedCallers
      BY <1>3 DEF WaitersKept
    <3>2. /\ rest \in Seq(LimitedCallers)
          /\ Len(rest) = IF n + 1 <= Len(waiters) THEN Len(waiters) - (n + 1) + 1 ELSE 0
          /\ \A i \in 1 .. Len(waiters) - (n + 1) + 1 : rest[i] = waiters[n + 1 + i - 1]
      BY <1>3, <3>1, SubSeqProperties
    <3>3. /\ Len(waiters) - (n + 1) + 1 = Len(waiters) - n
          /\ \A i \in 1 .. Len(waiters) - n : n + 1 + i - 1 = n + i
          /\ n + 1 <= Len(waiters) \/ Len(waiters) - n = 0
      BY <1>3
    <3>4. QED
      BY <3>2, <3>3
  <2> HIDE DEF rest
  <2>2. waiters' = rest
    BY <1>1 DEF rest
  <2>3. DOMAIN waiters = 1 .. Len(waiters) /\ DOMAIN rest = 1 .. Len(rest)
    BY <2>1 DEF WaitersKept
  <2>4. IsInjective(rest)
    <3> SUFFICES ASSUME NEW i \in 1 .. Len(waiters) - n, NEW j \in 1 .. Len(waiters) - n,
                        rest[i] = rest[j]
                 PROVE  i = j
      BY <2>1, <2>3 DEF IsInjective
    <3>1. n + i \in 1 .. Len(waiters) /\ n + j \in 1 .. Len(waiters)
      BY <1>3
    <3>2. waiters[n + i] = waiters[n + j]
      BY <2>1
    <3>3. n + i = n + j
      BY <2>3, <3>1, <3>2 DEF WaitersKept, IsInjective
    <3>4. QED
      BY <1>3, <3>3
  <2>5. ASSUME NEW i \in 1 .. Len(waiters) - n
        PROVE  limited'[rest[i]] \in {"waiting", "timedOut"}
    <3>1. n + i \in 1 .. Len(waiters) /\ ~ (n + i \in 1 .. n)
      BY <1>3
    <3>2. /\ rest[i] = waiters[n + i] /\ rest[i] \in LimitedCallers
          /\ limited[rest[i]] \in {"waiting", "timedOut"}
      BY <2>1, <3>1 DEF WaitersKept
    <3>3. rest[i] \notin freed
      <4>1. ASSUME NEW k \in 1 .. n, waiters[k] = waiters[n + i]
            PROVE  FALSE
        <5>1. k \in 1 .. Len(waiters)
          BY <1>3
        <5>2. k = n + i
          BY <2>3, <3>1, <4>1, <5>1 DEF WaitersKept, IsInjective
        <5>3. QED
          BY <3>1, <5>2
      <4>2. QED
        BY <3>2, <4>1
    <3> HIDE DEF freed
    <3>4. QED
      BY <1>1, <3>2, <3>3
  <2>6. ASSUME NEW c \in LimitedCallers, limited'[c] = "waiting"
        PROVE  \E i \in 1 .. Len(waiters) - n : rest[i] = c
    <3>1. c \notin freed /\ callers[c] = "waiting"
      BY <1>1, <2>6 DEF CallersKept
    <3>2. limited[c] = "waiting"
      BY <3>1
    <3>3. PICK k \in 1 .. Len(waiters) : waiters[k] = c
      BY <3>2 DEF WaitersKept
    <3>4. k \notin 1 .. n
      BY <3>1, <3>3
    <3>5. k - n \in 1 .. Len(waiters) - n /\ n + (k - n) = k
      BY <1>3, <3>4
    <3>6. rest[k - n] = c
      BY <2>1, <3>3, <3>5
    <3>7. QED
      BY <3>5, <3>6
  <2>7. QED
    BY <2>1, <2>2, <2>4, <2>5, <2>6 DEF WaitersKept
<1>5. limited' \in [LimitedCallers -> LimitedAt]
  BY <1>1 DEF CallersKept, LimitedAt
<1>6. Counted' = Counted
  BY <1>1 DEF Counted, CallersKept
<1>7. crossed' \in BOOLEAN /\ (~ crossed' => ~ crossed /\ (n = 0 \/ LetGo = {}))
  <2>1. n > 0 <=> n # 0
    BY <1>3
  <2>2. crossed' = (crossed \/ (n # 0 /\ LetGo # {}))
    BY <1>1, <2>1, Zenon
  <2>3. QED
    BY <2>2, Zenon
<1>8. ~ crossed' => inWindow + Cardinality(LetGo') <= MaxRequests
  <2>1. CASE n = 0
    <3>1. freed = {}
      BY <2>1
    <3>2. LetGo' = LetGo
      BY <1>1, <3>1 DEF LetGo, CallersKept
    <3>3. QED
      BY <1>7, <3>2 DEF CallersKept
  <2>2. CASE LetGo = {} /\ n # 0
    <3>1. LetGo' \in SUBSET freed
      BY <1>1, <2>2 DEF LetGo, CallersKept
    <3>2. Cardinality(LetGo') <= n
      BY <1>3, <3>1, FrontIsNoLarger DEF WaitersKept
    <3>3. Cardinality(LetGo') \in Nat
      BY LimiterSets2
    <3>4. QED
      BY <1>2, <1>3, <2>2, <3>2, <3>3
  <2>3. QED
    BY <1>7, <2>1, <2>2
<1>9. CallersKept'
  BY <1>5, <1>6, <1>7, <1>8 DEF CallersKept
<1>10. QED
  BY <1>4, <1>9

LEMMA LimiterInvStep ==
    ASSUME LimiterInv, [LimiterNext]_limiterVars
    PROVE  LimiterInv'
<1> USE DEF LimiterInv
<1>0. MaxRequests \in Nat /\ inWindow \in Nat
  BY LimiterAssumption DEF CallersKept
<1>1. ASSUME NEW c \in LimitedCallers, NEW wait \in BOOLEAN, ExecuteLimited(c, wait)
      PROVE  LimiterInv'
  <2>1. limited[c] = "idle"
    BY <1>1 DEF ExecuteLimited
  <2>2. \A i \in 1 .. Len(waiters) : waiters[i] # c /\ waiters[i] \in LimitedCallers
    BY <2>1 DEF WaitersKept
  <2>3. CASE ~ paused /\ ~ LimitExceeded
    <3>1. /\ inWindow' = inWindow + 1 /\ limited' = [limited EXCEPT ![c] = "running"]
          /\ crossed' = (crossed \/ LetGo # {}) /\ UNCHANGED <<waiters, paused>>
      BY <1>1, <2>3 DEF ExecuteLimited
    <3>2. WaitersKept'
      BY <2>2, <3>1 DEF WaitersKept, CallersKept
    <3>3. Counted' = Counted \cup {c} /\ c \notin Counted /\ LetGo' = LetGo
      BY <2>1, <3>1 DEF Counted, LetGo, CallersKept
    <3>4. Cardinality(Counted') = Cardinality(Counted) + 1
      BY <3>3, LimiterSets, FS_AddElement
    <3>5. inWindow < MaxRequests
      BY <1>0, <2>3 DEF LimitExceeded
    <3>6. crossed' \in BOOLEAN /\ (~ crossed' => LetGo = {})
      BY <3>1, Zenon
    <3>7. limited' \in [LimitedCallers -> LimitedAt]
      BY <3>1 DEF CallersKept, LimitedAt
    <3>8. ~ crossed' => inWindow' + Cardinality(LetGo') <= MaxRequests
      BY <1>0, <3>1, <3>3, <3>5, <3>6, FS_EmptySet
    <3>9. /\ inWindow' \in Nat /\ inWindow' <= Cardinality(Counted')
          /\ paused' \in BOOLEAN
      BY <1>0, <3>1, <3>4, LimiterSets DEF CallersKept
    <3>10. CallersKept'
      BY <3>6, <3>7, <3>8, <3>9 DEF CallersKept
    <3>11. QED
      BY <3>2, <3>10
  <2>4. CASE paused \/ LimitExceeded
    <3>1. /\ limited' = [limited EXCEPT ![c] = IF wait THEN "waiting" ELSE "over"]
          /\ waiters' = IF wait THEN Append(waiters, c) ELSE waiters
          /\ UNCHANGED <<inWindow, crossed, paused>>
      BY <1>1, <2>4 DEF ExecuteLimited
    <3>2. /\ LetGo' = LetGo /\ Counted \subseteq Counted'
          /\ limited' \in [LimitedCallers -> LimitedAt]
      BY <2>1, <3>1 DEF LetGo, Counted, CallersKept, LimitedAt
    <3>3. Cardinality(Counted) <= Cardinality(Counted')
      BY <3>2, LimiterSets2, FS_Subset
    <3>4. CallersKept'
      BY <3>1, <3>2, <3>3, LimiterSets, LimiterSets2 DEF CallersKept
    <3>5. CASE wait
      <4>1. waiters' = Append(waiters, c) /\ limited' = [limited EXCEPT ![c] = "waiting"]
        BY <3>1, <3>5
      <4>2. /\ waiters' \in Seq(LimitedCallers) /\ Len(waiters') = Len(waiters) + 1
            /\ \A i \in 1 .. Len(waiters) : waiters'[i] = waiters[i]
            /\ waiters'[Len(waiters) + 1] = c
            /\ Len(waiters) \in Nat
        BY <4>1 DEF WaitersKept
      <4>3. IsInjective(waiters')
        <5>1. /\ DOMAIN waiters = 1 .. Len(waiters)
              /\ DOMAIN waiters' = 1 .. Len(waiters) + 1
          BY <4>2 DEF WaitersKept
        <5>2. ASSUME NEW i \in DOMAIN waiters', NEW j \in DOMAIN waiters',
                     waiters'[i] = waiters'[j]
              PROVE  i = j
          BY <2>2, <4>2, <5>1, <5>2 DEF WaitersKept, IsInjective
        <5>3. QED
          BY <5>2 DEF IsInjective
      <4>4. \A i \in 1 .. Len(waiters') : limited'[waiters'[i]] \in {"waiting", "timedOut"}
        BY <2>2, <4>1, <4>2 DEF WaitersKept, CallersKept
      <4>5. \A d \in LimitedCallers :
              limited'[d] = "waiting" => \E i \in 1 .. Len(waiters') : waiters'[i] = d
        BY <4>1, <4>2 DEF WaitersKept, CallersKept
      <4>6. QED
        BY <3>4, <4>2, <4>3, <4>4, <4>5 DEF WaitersKept
    <3>6. CASE ~ wait
      <4>1. waiters' = waiters /\ limited' = [limited EXCEPT ![c] = "over"]
        BY <3>1, <3>6
      <4>2. WaitersKept'
        BY <2>2, <4>1 DEF WaitersKept, CallersKept
      <4>3. QED
        BY <3>4, <4>2
    <3>7. QED
      BY <3>5, <3>6
  <2>5. QED
    BY <2>3, <2>4
<1>2. ASSUME NEW c \in LimitedCallers, WaitOver(c)
      PROVE  LimiterInv'
  <2>1. /\ limited[c] = "letGo" /\ inWindow' = inWindow + 1
        /\ limited' = [limited EXCEPT ![c] = "running"]
        /\ UNCHANGED <<waiters, paused, crossed>>
    BY <1>2 DEF WaitOver
  <2>2. WaitersKept'
    BY <2>1 DEF WaitersKept, CallersKept
  <2>3. /\ Counted' = Counted \cup {c} /\ c \notin Counted
        /\ LetGo' = LetGo \ {c} /\ c \in LetGo
        /\ limited' \in [LimitedCallers -> LimitedAt]
    BY <2>1 DEF Counted, LetGo, CallersKept, LimitedAt
  <2>4. /\ Cardinality(Counted') = Cardinality(Counted) + 1
        /\ Cardinality(LetGo') = Cardinality(LetGo) - 1
    BY <2>3, LimiterSets, FS_AddElement, FS_RemoveElement
  <2>5. /\ inWindow' \in Nat /\ inWindow' <= Cardinality(Counted')
        /\ inWindow' + Cardinality(LetGo') = inWindow + Cardinality(LetGo)
    BY <1>0, <2>1, <2>4, LimiterSets DEF CallersKept
  <2>6. QED
    BY <2>1, <2>2, <2>3, <2>5 DEF CallersKept
<1>3. ASSUME NEW c \in LimitedCallers, WaitTimesOut(c)
      PROVE  LimiterInv'
  <2>1. /\ limited[c] = "waiting" /\ limited' = [limited EXCEPT ![c] = "timedOut"]
        /\ UNCHANGED <<inWindow, waiters, paused, crossed>>
    BY <1>3 DEF WaitTimesOut
  <2>2. WaitersKept'
    BY <2>1 DEF WaitersKept, CallersKept
  <2>3. /\ Counted' = Counted /\ LetGo' = LetGo
        /\ limited' \in [LimitedCallers -> LimitedAt]
    BY <2>1 DEF Counted, LetGo, CallersKept, LimitedAt
  <2>4. QED
    BY <2>1, <2>2, <2>3 DEF CallersKept
<1>4. ASSUME NEW c \in LimitedCallers, LimitedReturns(c)
      PROVE  LimiterInv'
  <2> DEFINE callers == [limited EXCEPT ![c] = "over"]
  <2>1. limited[c] = "running" /\ UNCHANGED <<inWindow, paused>>
    BY <1>4 DEF LimitedReturns
  <2>2. /\ callers \in [LimitedCallers -> LimitedAt]
        /\ \A d \in LimitedCallers :
             IF limited[d] = "running" THEN callers[d] \in {"running", "over"}
                                       ELSE callers[d] = limited[d]
    BY <2>1 DEF CallersKept, LimitedAt
  <2>3. CASE paused
    <3>1. limited' = callers /\ UNCHANGED <<waiters, crossed>>
      BY <1>4, <2>3 DEF LimitedReturns
    <3>2. WaitersKept'
      BY <2>1, <3>1 DEF WaitersKept, CallersKept
    <3>3. Counted' = Counted /\ LetGo' = LetGo
      BY <2>1, <3>1 DEF Counted, LetGo, CallersKept
    <3>4. QED
      BY <2>1, <2>2, <3>1, <3>2, <3>3 DEF CallersKept
  <2>4. CASE ~ paused
    <3>1. NotifyWaiting(callers)
      BY <1>4, <2>4 DEF LimitedReturns
    <3>2. UNCHANGED inWindow /\ paused' \in BOOLEAN
      BY <2>1 DEF CallersKept
    <3> HIDE DEF callers
    <3>3. QED
      BY <2>2, <3>1, <3>2, NotifyStep
  <2>5. QED
    BY <2>3, <2>4
<1>5. CASE PauseLimiter
  <2>1. paused' \in BOOLEAN /\ UNCHANGED <<inWindow, waiters, limited, crossed>>
    BY <1>5 DEF PauseLimiter
  <2>2. Counted' = Counted /\ LetGo' = LetGo
    BY <2>1 DEF Counted, LetGo
  <2>3. QED
    BY <2>1, <2>2 DEF WaitersKept, CallersKept
<1>6. CASE ResumeLimiter
  <2>1. /\ paused' \in BOOLEAN /\ UNCHANGED inWindow /\ NotifyWaiting(limited)
        /\ limited \in [LimitedCallers -> LimitedAt]
    BY <1>6 DEF ResumeLimiter, CallersKept
  <2>2. \A d \in LimitedCallers :
          IF limited[d] = "running" THEN limited[d] \in {"running", "over"}
                                    ELSE limited[d] = limited[d]
    OBVIOUS
  <2>3. QED
    BY <2>1, <2>2, NotifyStep
<1>7. CASE RequestAges
  <2>1. /\ inWindow' = inWindow - 1 /\ inWindow > 0
        /\ UNCHANGED <<waiters, paused, limited, crossed>>
    BY <1>7 DEF RequestAges
  <2>2. Counted' = Counted /\ LetGo' = LetGo
    BY <2>1 DEF Counted, LetGo
  <2>3. QED
    BY <1>0, <2>1, <2>2, LimiterSets DEF WaitersKept, CallersKept
<1>8. CASE UNCHANGED limiterVars
  <2>1. UNCHANGED <<inWindow, waiters, paused, limited, crossed>>
    BY <1>8 DEF limiterVars
  <2>2. Counted' = Counted /\ LetGo' = LetGo
    BY <2>1 DEF Counted, LetGo
  <2>3. QED
    BY <2>1, <2>2 DEF WaitersKept, CallersKept
<1>9. QED
  BY <1>1, <1>2, <1>3, <1>4, <1>5, <1>6, <1>7, <1>8 DEF LimiterNext

LEMMA LimiterInvInit == LimiterInit => LimiterInv
<1> SUFFICES ASSUME LimiterInit
             PROVE  LimiterInv
  OBVIOUS
<1>1. LetGo = {} /\ Cardinality(LetGo) = 0
  BY FS_EmptySet DEF LimiterInit, LetGo
<1>2. WaitersKept
  BY DEF LimiterInit, WaitersKept, IsInjective
<1>3. CallersKept
  <2>1. limited \in [LimitedCallers -> LimitedAt]
    BY DEF LimiterInit, LimitedAt
  <2>2. inWindow = 0 /\ paused = FALSE /\ crossed = FALSE
    BY DEF LimiterInit
  <2>3. MaxRequests \in Nat /\ Cardinality(Counted) \in Nat
    BY LimiterAssumption, LimiterSets
  <2>4. inWindow \in Nat /\ inWindow <= Cardinality(Counted)
    BY <2>2, <2>3
  <2>5. inWindow + Cardinality(LetGo) <= MaxRequests
    BY <1>1, <2>2, <2>3
  <2>6. paused \in BOOLEAN /\ crossed \in BOOLEAN
    BY <2>2, Zenon
  <2>7. QED
    BY <2>1, <2>4, <2>5, <2>6 DEF CallersKept
<1>4. QED
  BY <1>2, <1>3 DEF LimiterInv

(* The window of the limiter never counts more requests than there were     *)
(* callers, and a caller that waits is in the list it waits in.             *)
THEOREM LimiterTypeCorrect == LimiterSpec => []LimiterTypeOK
<1>1. LimiterInv => LimiterTypeOK
  <2> SUFFICES ASSUME LimiterInv
               PROVE  LimiterTypeOK
    OBVIOUS
  <2>1. inWindow \in 0 .. Cardinality(LimitedCallers)
    BY LimiterSets DEF LimiterInv, CallersKept
  <2>2. DOMAIN waiters = 1 .. Len(waiters)
    BY DEF LimiterInv, WaitersKept
  <2>3. QED
    BY <2>1, <2>2 DEF LimiterInv, WaitersKept, CallersKept, LimiterTypeOK, ToSet
<1>2. QED
  BY <1>1, LimiterInvInit, LimiterInvStep, PTL DEF LimiterSpec

(* execute and _notifyWaiting of rateLimiter.ts keep to the limit, callers  *)
(* let go included, as long as nobody is counted while one of those has yet *)
(* to push its timestamp, and list a caller once, while it waits.           *)
THEOREM LimitKept == LimiterSpec => []LimitHolds
<1>1. LimiterInv => LimitHolds
  BY DEF LimiterInv, WaitersKept, CallersKept, LimitHolds
<1>2. QED
  BY <1>1, LimiterInvInit, LimiterInvStep, PTL DEF LimiterSpec

-----------------------------------------------------------------------------
(* The steps of the typed queue.                                            *)

\* What the steps of ticks leave alone.
TypedFrame == UNCHANGED <<queueMode, inRedis, adding>>

(* A tick that is not running a job starts the next of the jobs it took, or *)
(* is over, having set a row or none.                                       *)
LEMMA StartStep ==
    ASSUME TypedInv, NEW t \in TypedTicks, NEW jobs \in SUBSET TypedJobs,
           \A j \in jobs : adding[j] # "idle", tick[t].at # "run",
           StartTyped(t, jobs, typedStatus),
           TypedFrame, UNCHANGED <<typedTries, backingOff, unrecorded, typedUsed>>,
           typedRow' \in [TypedJobs -> {"none", "pending", "completed", "failed"}],
           \A j \in TypedJobs : /\ typedRow'[j] = "completed" => typedRuns[j] > 0
                                /\ typedRow'[j] = "failed" => unrecorded[j] >= TypedMaxAttempts
    PROVE  TypedInv'
<1> USE DEF TypedInv, TypedFrame
<1>1. CASE jobs = {}
  <2>1. /\ tick' = [tick EXCEPT ![t] = IdleTick]
        /\ UNCHANGED <<typedStatus, typedRuns, shared>>
    BY <1>1 DEF StartTyped
  <2>2. TypedTyped'
    BY <2>1 DEF TypedTyped
  <2>3. TicksTyped'
    <3>1. IdleTick \in [at : {"idle", "run"} \cup TypedStatements, job : 0 .. NumTypedJobs,
                        rest : SUBSET TypedJobs]
      BY TypedQueueAssumption DEF IdleTick
    <3>2. IdleTick.at = "idle"
      BY DEF IdleTick
    <3>3. QED
      BY <2>1, <3>1, <3>2 DEF TicksTyped
  <2>4. \A s \in TypedTicks : s # t => tick'[s] = tick[s]
    BY <2>1 DEF TicksTyped
  <2>5. tick'[t].at = "idle"
    BY <2>1 DEF TicksTyped, IdleTick
  <2>6. ASSUME NEW s \in TypedTicks
        PROVE  TickCounted(s)'
    BY <2>1, <2>4, <2>5 DEF TickCounted
  <2>7. ASSUME NEW j \in TypedJobs
        PROVE  JobCounted(j)' /\ RowHonest(j)' /\ RunningHasTick(j)'
    BY <2>1, <2>4 DEF JobCounted, RowHonest, RunningHasTick
  <2>8. QED
    BY <2>2, <2>3, <2>6, <2>7
<1>2. CASE jobs # {}
  <2>1. PICK k \in jobs :
          /\ tick' = [tick EXCEPT ![t] = [at |-> "run", job |-> k, rest |-> jobs \ {k}]]
          /\ typedStatus' = [typedStatus EXCEPT ![k] = "running"]
          /\ typedRuns' = [typedRuns EXCEPT ![k] = @ + 1]
          /\ shared' = [shared EXCEPT ![k] = IF typedStatus[k] = "pending" THEN @ ELSE @ + 1]
    BY <1>2 DEF StartTyped
  <2>2. k \in TypedJobs /\ k \in 0 .. NumTypedJobs /\ jobs \ {k} \in SUBSET TypedJobs
    <3>1. k \in TypedJobs /\ jobs \ {k} \in SUBSET TypedJobs
      OBVIOUS
    <3>2. QED
      BY <3>1, TypedQueueAssumption DEF TypedJobs
  <2>3. TypedTyped'
    BY <2>1, <2>2 DEF TypedTyped
  <2>4. /\ \A s \in TypedTicks : s # t => tick'[s] = tick[s]
        /\ tick'[t] = [at |-> "run", job |-> k, rest |-> jobs \ {k}]
        /\ tick' \in [TypedTicks -> [at : {"idle", "run"} \cup TypedStatements,
                                     job : 0 .. NumTypedJobs, rest : SUBSET TypedJobs]]
    BY <2>1, <2>2 DEF TicksTyped
  <2>5. TicksTyped'
    BY <2>2, <2>4 DEF TicksTyped
  <2>6. /\ \A j \in TypedJobs : /\ typedRuns[j] \in Nat /\ shared[j] \in Nat
                                /\ unrecorded[j] \in Nat
        /\ \A j \in TypedJobs : typedRuns'[j] = IF j = k THEN typedRuns[j] + 1 ELSE typedRuns[j]
        /\ \A j \in TypedJobs \ {k} : shared'[j] = shared[j] /\ typedStatus'[j] = typedStatus[j]
        /\ shared'[k] = IF typedStatus[k] = "pending" THEN shared[k] ELSE shared[k] + 1
        /\ typedStatus'[k] = "running"
    BY <2>1, <2>2 DEF TypedTyped
  <2>7. ASSUME NEW s \in TypedTicks
        PROVE  TickCounted(s)'
    <3>1. TickCounted(s) /\ (tick[s].at # "idle" => tick[s].job \in TypedJobs)
      BY DEF TicksTyped
    <3>2. CASE s = t
      BY <2>2, <2>4, <2>6, <3>2 DEF TickCounted
    <3>3. CASE s # t
      <4>1. tick'[s] = tick[s]
        BY <2>4, <3>3
      <4>2. tick[s].at # "idle" => typedRuns'[tick[s].job] > 0
        BY <2>6, <3>1 DEF TickCounted
      <4>3. QED
        BY <3>1, <4>1, <4>2 DEF TickCounted
    <3>4. QED
      BY <3>2, <3>3
  <2>8. ASSUME NEW j \in TypedJobs
        PROVE  JobCounted(j)' /\ RowHonest(j)' /\ RunningHasTick(j)'
    <3>1. JobCounted(j) /\ RunningHasTick(j)
      OBVIOUS
    <3>2. JobCounted(j)'
      BY <2>6, <3>1 DEF JobCounted
    <3>3. RowHonest(j)'
      BY <2>6 DEF RowHonest
    <3>4. RunningHasTick(j)'
      BY <2>4, <2>6, <3>1 DEF RunningHasTick
    <3>5. QED
      BY <3>2, <3>3, <3>4
  <2>9. QED
    BY <2>3, <2>5, <2>7, <2>8
<1>3. QED
  BY <1>1, <1>2

(* The process takes its jobs and ticks with it.                            *)
LEMMA TypedDeathStep ==
    ASSUME TypedInv, TypedProcessDies,
           typedUsed' \in [errors : 0 .. MaxTypedErrors, crashes : Nat],
           typedUsed'.errors >= typedUsed.errors,
           typedRow' \in [TypedJobs -> {"none", "pending", "completed", "failed"}],
           \A j \in TypedJobs : /\ typedRow'[j] = "completed" => typedRuns[j] > 0
                                /\ typedRow'[j] = "failed" => unrecorded[j] >= TypedMaxAttempts
    PROVE  TypedInv'
<1> USE DEF TypedInv
<1>1. /\ \A j \in TypedJobs : typedStatus'[j] = IF typedStatus[j] = "new" THEN "new" ELSE "gone"
      /\ \A j \in TypedJobs : adding'[j] = IF adding[j] = "insert" THEN "over" ELSE adding[j]
      /\ tick' = [t \in TypedTicks |-> IdleTick]
      /\ UNCHANGED <<inRedis, typedTries, typedRuns, unrecorded, shared>>
  BY DEF TypedProcessDies, typedHistory
<1>2. TypedTyped'
  <2>1. /\ queueMode' = "starting" /\ backingOff' = {}
        /\ typedStatus' \in [TypedJobs -> {"new", "pending", "running", "completed", "failed", "gone"}]
        /\ adding' \in [TypedJobs -> {"idle", "insert", "over"}]
    BY DEF TypedProcessDies, TypedTyped
  <2>2. \A j \in TypedJobs : typedTries[j] <= typedUsed'.errors
    <3>1. /\ \A j \in TypedJobs : typedTries[j] \in Nat /\ typedTries[j] <= typedUsed.errors
          /\ typedUsed.errors \in Nat /\ typedUsed'.errors \in Nat
      BY DEF TypedTyped
    <3>2. QED
      BY <3>1
  <2>3. QED
    BY <1>1, <2>1, <2>2 DEF TypedTyped
<1>3. /\ IdleTick \in [at : {"idle", "run"} \cup TypedStatements, job : 0 .. NumTypedJobs,
                       rest : SUBSET TypedJobs]
      /\ IdleTick.at = "idle"
  BY TypedQueueAssumption DEF IdleTick
<1>4. TicksTyped'
  BY <1>1, <1>3 DEF TicksTyped
<1>5. \A t \in TypedTicks : TickCounted(t)'
  BY <1>1, <1>3 DEF TickCounted
<1>6. \A j \in TypedJobs : JobCounted(j)' /\ RowHonest(j)' /\ RunningHasTick(j)'
  BY <1>1 DEF JobCounted, RowHonest, RunningHasTick
<1>7. QED
  BY <1>2, <1>4, <1>5, <1>6

LEMMA TypedInvStep ==
    ASSUME TypedInv, [TypedNext]_typedVars
    PROVE  TypedInv'
<1> USE DEF TypedInv
<1>0. \A j \in TypedJobs :
        /\ typedRow[j] = "completed" => typedRuns[j] > 0
        /\ typedRow[j] = "failed" => unrecorded[j] >= TypedMaxAttempts
  BY DEF RowHonest
<1>1. CASE InitializeQueueManager
  <2>1. /\ queueMode' \in {"starting", "redis", "memory"}
        /\ UNCHANGED <<inRedis, typedStatus, typedTries, backingOff, typedRow, adding, tick,
                       typedRuns, unrecorded, shared, typedUsed>>
    BY <1>1 DEF InitializeQueueManager, typedHistory
  <2>2. QED
    BY <2>1 DEF TypedTyped, TicksTyped, JobCounted, RowHonest, RunningHasTick, TickCounted
<1>2. ASSUME NEW j \in TypedJobs, AddTypedJob(j)
      PROVE  TypedInv'
  <2>1. /\ adding[j] = "idle" /\ typedStatus[j] = "new"
        /\ UNCHANGED <<queueMode, typedTries, backingOff, typedRow, tick, typedRuns, unrecorded,
                       shared, typedUsed>>
    BY <1>2 DEF AddTypedJob, typedHistory, TypedTyped
  <2>2. /\ \E a \in {"insert", "over"} : adding' = [adding EXCEPT ![j] = a]
        /\ typedStatus' = typedStatus \/ typedStatus' = [typedStatus EXCEPT ![j] = "pending"]
        /\ inRedis' = inRedis \/ inRedis' = inRedis \cup {j}
    BY <1>2 DEF AddTypedJob, TypedTyped
  <2>3. TypedTyped'
    BY <2>1, <2>2 DEF TypedTyped
  <2>4. TicksTyped'
    BY <2>1, <2>2 DEF TicksTyped, TypedTyped
  <2>5. \A k \in TypedJobs : JobCounted(k)' /\ RowHonest(k)' /\ RunningHasTick(k)'
    <3> TAKE k \in TypedJobs
    <3>1. /\ JobCounted(k) /\ RowHonest(k) /\ RunningHasTick(k)
          /\ typedStatus'[k] = typedStatus[k]
               \/ (k = j /\ typedStatus[k] = "new" /\ typedStatus'[k] = "pending")
      BY <2>1, <2>2 DEF TypedTyped
    <3>2. QED
      BY <2>1, <3>1 DEF JobCounted, RowHonest, RunningHasTick
  <2>6. \A t \in TypedTicks : TickCounted(t)'
    BY <2>1 DEF TickCounted
  <2>7. QED
    BY <2>3, <2>4, <2>5, <2>6
<1>3. ASSUME NEW j \in TypedJobs, InsertTypedJob(j) \/ InsertTypedJobFails(j)
      PROVE  TypedInv'
  <2>1. /\ adding[j] = "insert" /\ adding' = [adding EXCEPT ![j] = "over"]
        /\ typedRow' = typedRow \/ typedRow' = [typedRow EXCEPT ![j] = "pending"]
        /\ UNCHANGED <<queueMode, inRedis, typedStatus, typedTries, backingOff, tick, typedRuns,
                       unrecorded, shared>>
    BY <1>3 DEF InsertTypedJob, InsertTypedJobFails, typedHistory
  <2>2. /\ typedUsed' \in [errors : 0 .. MaxTypedErrors, crashes : Nat]
        /\ typedUsed'.errors >= typedUsed.errors
    <3>1. typedUsed \in [errors : 0 .. MaxTypedErrors, crashes : Nat]
      BY DEF TypedTyped
    <3>2. \/ typedUsed' = typedUsed
          \/ /\ typedUsed' = [typedUsed EXCEPT !.errors = @ + 1]
             /\ typedUsed.errors < MaxTypedErrors
      BY <1>3 DEF InsertTypedJob, InsertTypedJobFails
    <3>3. QED
      BY <3>1, <3>2, TypedQueueAssumption
  <2>3. \A k \in TypedJobs : typedTries[k] <= typedUsed'.errors
    <3>1. /\ \A k \in TypedJobs : typedTries[k] \in Nat /\ typedTries[k] <= typedUsed.errors
          /\ typedUsed.errors \in Nat /\ typedUsed'.errors \in Nat
      BY <2>2 DEF TypedTyped
    <3>2. QED
      BY <2>2, <3>1
  <2>4. TypedTyped'
    BY <2>1, <2>2, <2>3 DEF TypedTyped
  <2>5. TicksTyped'
    BY <2>1 DEF TicksTyped, TypedTyped
  <2>6. \A k \in TypedJobs : JobCounted(k)' /\ RowHonest(k)' /\ RunningHasTick(k)'
    BY <2>1 DEF JobCounted, RowHonest, RunningHasTick, TypedTyped
  <2>7. \A t \in TypedTicks : TickCounted(t)'
    BY <2>1 DEF TickCounted
  <2>8. QED
    BY <2>4, <2>5, <2>6, <2>7
<1>4. ASSUME NEW j \in TypedJobs, BackoffOver(j)
      PROVE  TypedInv'
  <2>1. /\ backingOff' \subseteq TypedJobs
        /\ UNCHANGED <<queueMode, inRedis, typedStatus, typedTries, typedRow, adding, tick,
                       typedRuns, unrecorded, shared, typedUsed>>
    BY <1>4 DEF BackoffOver, typedHistory, TypedTyped
  <2>2. QED
    BY <2>1 DEF TypedTyped, TicksTyped, JobCounted, RowHonest, RunningHasTick, TickCounted
<1>5. ASSUME NEW t \in TypedTicks, ProcessTypedJobs(t)
      PROVE  TypedInv'
  <2>1. /\ DueTypedJobs \in SUBSET TypedJobs
        /\ \A j \in DueTypedJobs : adding[j] # "idle"
    BY DEF DueTypedJobs, TypedTyped
  <2>2. /\ tick[t].at # "run" /\ StartTyped(t, DueTypedJobs, typedStatus)
        /\ TypedFrame
        /\ UNCHANGED <<typedTries, backingOff, unrecorded, typedUsed, typedRow>>
    BY <1>5 DEF ProcessTypedJobs, TypedFrame
  <2>3. typedRow' \in [TypedJobs -> {"none", "pending", "completed", "failed"}]
    BY <2>2 DEF TypedTyped
  <2>4. QED
    BY <1>0, <2>1, <2>2, <2>3, StartStep
<1>6. ASSUME NEW t \in TypedTicks, TypedJobReturns(t)
      PROVE  TypedInv'
  <2> DEFINE j == tick[t].job
  <2>1. /\ tick[t].at = "run" /\ typedStatus' = [typedStatus EXCEPT ![j] = "completed"]
        /\ tick' = [tick EXCEPT ![t] = [tick[t] EXCEPT !.at = "complete"]]
        /\ UNCHANGED <<queueMode, inRedis, typedTries, backingOff, typedRow, adding, typedRuns,
                       unrecorded, shared, typedUsed>>
    BY <1>6 DEF TypedJobReturns, typedHistory
  <2>2. j \in TypedJobs /\ adding[j] # "idle"
    BY <2>1 DEF TicksTyped
  <2>3. TypedTyped'
    BY <2>1, <2>2 DEF TypedTyped
  <2>4. /\ \A s \in TypedTicks : s # t => tick'[s] = tick[s]
        /\ tick'[t] = [tick[t] EXCEPT !.at = "complete"]
        /\ tick'[t].at = "complete" /\ tick'[t].job = j /\ tick'[t].rest = tick[t].rest
        /\ tick' \in [TypedTicks -> [at : {"idle", "run"} \cup TypedStatements,
                                     job : 0 .. NumTypedJobs, rest : SUBSET TypedJobs]]
    BY <2>1 DEF TicksTyped, TypedStatements
  <2>5. TicksTyped'
    BY <2>1, <2>4 DEF TicksTyped
  <2>6. \A s \in TypedTicks : TickCounted(s)'
    BY <2>1, <2>4 DEF TickCounted
  <2>7. \A k \in TypedJobs : JobCounted(k)' /\ RowHonest(k)' /\ RunningHasTick(k)'
    BY <2>1, <2>2, <2>4 DEF JobCounted, RowHonest, RunningHasTick, TypedTyped
  <2>8. QED
    BY <2>3, <2>5, <2>6, <2>7
<1>7. ASSUME NEW t \in TypedTicks, tick[t].at \in TypedStatements,
             NEW row \in {typedRow, [typedRow EXCEPT ![tick[t].job] = TypedRowSet(t)]}
      PROVE  /\ row \in [TypedJobs -> {"none", "pending", "completed", "failed"}]
             /\ \A j \in TypedJobs : /\ row[j] = "completed" => typedRuns[j] > 0
                                     /\ row[j] = "failed" => unrecorded[j] >= TypedMaxAttempts
  <2>1. /\ tick[t].job \in TypedJobs /\ typedRuns[tick[t].job] > 0
        /\ tick[t].at = "failed" => unrecorded[tick[t].job] >= TypedMaxAttempts
    BY <1>7 DEF TicksTyped, TickCounted, TypedStatements
  <2>2. /\ TypedRowSet(t) \in {"none", "pending", "completed", "failed"}
        /\ TypedRowSet(t) = "failed" => tick[t].at = "failed"
    BY <1>7 DEF TypedRowSet, TypedStatements
  <2>3. QED
    BY <1>0, <1>7, <2>1, <2>2 DEF TypedTyped
<1>8. ASSUME NEW t \in TypedTicks, TypedRowUpdated(t)
      PROVE  TypedInv'
  <2>1. /\ tick[t].at \in TypedStatements
        /\ typedRow' = [typedRow EXCEPT ![tick[t].job] = TypedRowSet(t)]
        /\ StartTyped(t, tick[t].rest, typedStatus)
        /\ TypedFrame /\ UNCHANGED <<typedTries, backingOff, unrecorded, typedUsed>>
    BY <1>8 DEF TypedRowUpdated, TypedFrame
  <2>2. /\ tick[t].rest \in SUBSET TypedJobs /\ tick[t].at # "run"
        /\ \A j \in tick[t].rest : adding[j] # "idle"
    BY <2>1 DEF TicksTyped, TypedStatements
  <2>3. /\ typedRow' \in [TypedJobs -> {"none", "pending", "completed", "failed"}]
        /\ \A j \in TypedJobs : /\ typedRow'[j] = "completed" => typedRuns[j] > 0
                                /\ typedRow'[j] = "failed" => unrecorded[j] >= TypedMaxAttempts
    BY <1>7, <2>1
  <2>4. QED
    BY <2>1, <2>2, <2>3, StartStep
<1>9. ASSUME NEW t \in TypedTicks, CompletionFails(t)
      PROVE  TypedInv'
  <2> DEFINE j == tick[t].job
             last == GivenUpAt(typedTries[j] + 1)
  <2>1. /\ tick[t].at = "complete" /\ typedUsed.errors < MaxTypedErrors
        /\ typedUsed' = [typedUsed EXCEPT !.errors = @ + 1]
        /\ typedRow' \in {typedRow, [typedRow EXCEPT ![j] = TypedRowSet(t)]}
        /\ typedTries' = [typedTries EXCEPT ![j] = @ + 1]
        /\ unrecorded' = [unrecorded EXCEPT ![j] = @ + 1]
        /\ typedStatus' = [typedStatus EXCEPT ![j] = IF last THEN "failed" ELSE "pending"]
        /\ backingOff' = IF last THEN backingOff ELSE backingOff \cup {j}
        /\ tick' = [tick EXCEPT ![t] = [tick[t] EXCEPT !.at = IF last THEN "failed" ELSE "again"]]
        /\ UNCHANGED <<queueMode, inRedis, adding, typedRuns, shared>>
    BY <1>9 DEF CompletionFails
  <2>2. /\ j \in TypedJobs /\ adding[j] # "idle" /\ typedRuns[j] > 0
        /\ typedTries[j] \in Nat /\ typedTries[j] = unrecorded[j]
        /\ typedRuns[j] \in Nat /\ shared[j] \in Nat
        /\ typedRuns[j] <= 1 + unrecorded[j] + shared[j]
    BY <2>1 DEF TicksTyped, TypedTyped, TickCounted, JobCounted
  <2>3. last => unrecorded[j] + 1 >= TypedMaxAttempts
    BY <2>2 DEF GivenUpAt
  <2> HIDE DEF last
  <2>4. /\ typedRow' \in [TypedJobs -> {"none", "pending", "completed", "failed"}]
        /\ \A k \in TypedJobs : /\ typedRow'[k] = "completed" => typedRuns[k] > 0
                                /\ typedRow'[k] = "failed" => unrecorded[k] >= TypedMaxAttempts
    BY <1>7, <2>1 DEF TypedStatements
  <2>5. /\ typedUsed \in [errors : 0 .. MaxTypedErrors, crashes : Nat]
        /\ typedUsed' \in [errors : 0 .. MaxTypedErrors, crashes : Nat]
        /\ typedUsed'.errors = typedUsed.errors + 1
    BY <2>1, TypedQueueAssumption DEF TypedTyped
  <2>6. /\ typedTries' \in [TypedJobs -> Nat] /\ unrecorded' \in [TypedJobs -> Nat]
        /\ \A k \in TypedJobs : typedTries'[k] = IF k = j THEN typedTries[k] + 1 ELSE typedTries[k]
        /\ \A k \in TypedJobs : unrecorded'[k] = IF k = j THEN unrecorded[k] + 1 ELSE unrecorded[k]
    BY <2>1, <2>2 DEF TypedTyped
  <2>7. /\ typedStatus' \in [TypedJobs -> {"new", "pending", "running", "completed", "failed", "gone"}]
        /\ \A k \in TypedJobs : k # j => typedStatus'[k] = typedStatus[k]
        /\ typedStatus'[j] = IF last THEN "failed" ELSE "pending"
        /\ backingOff' \subseteq TypedJobs
    BY <2>1, <2>2 DEF TypedTyped
  <2>8. \A k \in TypedJobs : typedTries'[k] <= typedUsed'.errors
    <3>1. /\ \A k \in TypedJobs : typedTries[k] \in Nat /\ typedTries[k] <= typedUsed.errors
          /\ typedUsed.errors \in Nat
      BY <2>5 DEF TypedTyped
    <3>2. QED
      BY <2>5, <2>6, <3>1
  <2>9. TypedTyped'
    BY <2>1, <2>2, <2>4, <2>5, <2>6, <2>7, <2>8 DEF TypedTyped
  <2>10. /\ \A s \in TypedTicks : s # t => tick'[s] = tick[s]
         /\ tick'[t].at = (IF last THEN "failed" ELSE "again")
         /\ tick'[t].job = j /\ tick'[t].rest = tick[t].rest
         /\ tick' \in [TypedTicks -> [at : {"idle", "run"} \cup TypedStatements,
                                      job : 0 .. NumTypedJobs, rest : SUBSET TypedJobs]]
    BY <2>1 DEF TicksTyped, TypedStatements
  <2>11. TicksTyped'
    BY <2>1, <2>10 DEF TicksTyped
  <2>12. ASSUME NEW s \in TypedTicks
         PROVE  TickCounted(s)'
    <3>1. CASE s = t
      BY <2>1, <2>2, <2>3, <2>6, <2>10, <3>1 DEF TickCounted
    <3>2. CASE s # t
      <4>1. tick'[s] = tick[s] /\ TickCounted(s)
        BY <2>10, <3>2
      <4>2. tick[s].at # "idle" => tick[s].job \in TypedJobs
        BY DEF TicksTyped
      <4>3. tick[s].at = "failed" => unrecorded'[tick[s].job] >= TypedMaxAttempts
        <5>1. \A k \in TypedJobs : unrecorded[k] \in Nat
          BY DEF TypedTyped
        <5>2. QED
          BY <2>6, <4>1, <4>2, <5>1, TypedQueueAssumption DEF TickCounted
      <4>4. QED
        BY <2>1, <4>1, <4>3 DEF TickCounted
    <3>3. QED
      BY <3>1, <3>2
  <2>13. ASSUME NEW k \in TypedJobs
         PROVE  JobCounted(k)' /\ RowHonest(k)' /\ RunningHasTick(k)'
    <3>1. /\ JobCounted(k) /\ RunningHasTick(k)
          /\ unrecorded[k] \in Nat /\ typedRuns[k] \in Nat /\ shared[k] \in Nat
      BY DEF TypedTyped
    <3>2. JobCounted(k)'
      BY <2>1, <2>2, <2>3, <2>6, <2>7, <3>1 DEF JobCounted
    <3>3. RowHonest(k)'
      BY <2>1, <2>4, <2>6, <3>1, TypedQueueAssumption DEF RowHonest
    <3>4. RunningHasTick(k)'
      BY <2>1, <2>7, <2>10, <3>1 DEF RunningHasTick
    <3>5. QED
      BY <3>2, <3>3, <3>4
  <2>14. QED
    BY <2>9, <2>11, <2>12, <2>13
<1>10. ASSUME NEW t \in TypedTicks, CatchRejects(t)
       PROVE  TypedInv'
  <2>1. /\ tick[t].at \in TypedStatements /\ typedUsed.errors < MaxTypedErrors
        /\ typedUsed' = [typedUsed EXCEPT !.errors = @ + 1]
        /\ typedRow' \in {typedRow, [typedRow EXCEPT ![tick[t].job] = TypedRowSet(t)]}
        /\ TypedProcessDies
    BY <1>10 DEF CatchRejects, TypedStatements
  <2>2. /\ typedUsed' \in [errors : 0 .. MaxTypedErrors, crashes : Nat]
        /\ typedUsed'.errors >= typedUsed.errors
    BY <2>1, TypedQueueAssumption DEF TypedTyped
  <2>3. /\ typedRow' \in [TypedJobs -> {"none", "pending", "completed", "failed"}]
        /\ \A j \in TypedJobs : /\ typedRow'[j] = "completed" => typedRuns[j] > 0
                                /\ typedRow'[j] = "failed" => unrecorded[j] >= TypedMaxAttempts
    BY <1>7, <2>1
  <2>4. QED
    BY <2>1, <2>2, <2>3, TypedDeathStep
<1>11. CASE TypedCrash
  <2>1. /\ typedUsed' = [typedUsed EXCEPT !.crashes = @ + 1] /\ TypedProcessDies
        /\ UNCHANGED typedRow
    BY <1>11 DEF TypedCrash
  <2>2. /\ typedUsed' \in [errors : 0 .. MaxTypedErrors, crashes : Nat]
        /\ typedUsed'.errors >= typedUsed.errors
    BY <2>1 DEF TypedTyped
  <2>3. typedRow' \in [TypedJobs -> {"none", "pending", "completed", "failed"}]
    BY <2>1 DEF TypedTyped
  <2>4. QED
    BY <1>0, <2>1, <2>2, <2>3, TypedDeathStep
<1>12. CASE UNCHANGED typedVars
  BY <1>12 DEF typedVars, TypedTyped, TicksTyped, JobCounted, RowHonest, RunningHasTick,
               TickCounted
<1>13. QED
  BY <1>1, <1>2, <1>3, <1>4, <1>5, <1>6, <1>8, <1>9, <1>10, <1>11, <1>12 DEF TypedNext

LEMMA TypedInvInit == TypedInit => TypedInv
<1> SUFFICES ASSUME TypedInit
             PROVE  TypedInv
  OBVIOUS
<1> USE DEF TypedInit
<1>1. TypedTyped
  BY TypedQueueAssumption DEF TypedTyped
<1>2. TicksTyped /\ \A t \in TypedTicks : TickCounted(t)
  BY TypedQueueAssumption DEF TicksTyped, TickCounted, IdleTick
<1>3. \A j \in TypedJobs : JobCounted(j) /\ RowHonest(j) /\ RunningHasTick(j)
  BY DEF JobCounted, RowHonest, RunningHasTick
<1>4. QED
  BY <1>1, <1>2, <1>3 DEF TypedInv

(* The in-memory jobs, their rows and the ticks that work through them stay *)
(* what the code makes them, and no job has been tried more often than      *)
(* statements failed.                                                       *)
THEOREM TypedTypeCorrect == TypedSpec => []TypedTypeOK
<1>1. TypedInv => TypedTypeOK
  <2> SUFFICES ASSUME TypedInv
               PROVE  TypedTypeOK
    OBVIOUS
  <2>1. typedTries \in [TypedJobs -> 0 .. MaxTypedErrors]
    BY TypedQueueAssumption DEF TypedInv, TypedTyped
  <2>2. QED
    BY <2>1 DEF TypedInv, TypedTyped, TicksTyped, TypedTypeOK
<1>2. QED
  BY <1>1, TypedInvInit, TypedInvStep, PTL DEF TypedSpec

(* However many ticks of queueManager.ts overlap, and whatever statements   *)
(* fail under them, a job is started again only after its completion could  *)
(* not be recorded or by a tick that took it along, its row says no more    *)
(* than what happened, and a running job has a tick that runs it.           *)
THEOREM TypedHonest == TypedSpec => []TypedJobsHonest
<1>1. TypedInv => TypedJobsHonest
  BY DEF TypedInv, TypedJobsHonest, JobCounted, RowHonest, RunningHasTick
<1>2. QED
  BY <1>1, TypedInvInit, TypedInvStep, PTL DEF TypedSpec

-----------------------------------------------------------------------------
(* The steps of ingestion.                                                  *)

(* Where a call goes, nobody else does.                                     *)
LEMMA CallGoes ==
    ASSUME IngestTyped, NEW i \in Ingests, NEW label \in IngestAt, IngestGoto(i, label),
           label \notin {"idle", "fetch", "success", "failure"} => ingest[i].file \in Attachments,
           label \in {"idle", "fetch"} => ingest[i].file = 1
    PROVE  /\ ingest' \in [Ingests -> Ingest]
           /\ \A k \in Ingests : AtAttachment(ingest'[k])
           /\ ingest'[i].at = label /\ ingest'[i].file = ingest[i].file
           /\ ingest'[i].any = ingest[i].any
           /\ \A k \in Ingests \ {i} : ingest'[k] = ingest[k]
<1> DEFINE call == [ingest[i] EXCEPT !.at = label]
<1>1. ingest' = [ingest EXCEPT ![i] = call]
  BY DEF IngestGoto
<1>2. /\ call \in Ingest /\ call.at = label /\ call.file = ingest[i].file
      /\ call.any = ingest[i].any
  BY DEF IngestTyped, Ingest
<1> HIDE DEF call
<1>3. AtAttachment(call)
  BY <1>2 DEF AtAttachment
<1>4. QED
  BY <1>1, <1>2, <1>3 DEF IngestTyped

LEMMA NextGoes ==
    ASSUME IngestTyped, NEW i \in Ingests, ingest[i].file \in Attachments,
           NEW ok \in BOOLEAN, NextAttachment(i, ok)
    PROVE  /\ ingest' \in [Ingests -> Ingest]
           /\ \A k \in Ingests : AtAttachment(ingest'[k])
           /\ ingest'[i].at \in {"parse", "success", "failure"}
           /\ ingest'[i].any => ingest[i].any \/ ok
           /\ \A k \in Ingests \ {i} : ingest'[k] = ingest[k]
<1> DEFINE any == ingest[i].any \/ ok
           call == IF ingest[i].file < NumAttachments
                   THEN [at |-> "parse", file |-> ingest[i].file + 1, any |-> any]
                   ELSE [ingest[i] EXCEPT !.at = IF any THEN "success" ELSE "failure",
                                          !.any = any]
<1>1. ingest' = [ingest EXCEPT ![i] = call]
  BY DEF NextAttachment
<1>2. any \in BOOLEAN /\ (any => ingest[i].any \/ ok)
  BY Zenon
<1>3. ingest[i] \in Ingest /\ NumAttachments \in Nat
  BY IngestAssumption DEF IngestTyped
<1> HIDE DEF any
<1>4. CASE ingest[i].file < NumAttachments
  <2>1. call = [at |-> "parse", file |-> ingest[i].file + 1, any |-> any]
    BY <1>4
  <2>2. ingest[i].file + 1 \in 1 .. NumAttachments + 1 /\ ingest[i].file + 1 \in Attachments
    BY <1>3, <1>4 DEF Attachments
  <2> HIDE DEF call
  <2>3. call \in Ingest /\ call.at = "parse" /\ call.any = any /\ call.file \in Attachments
    BY <1>2, <2>1, <2>2 DEF Ingest, IngestAt
  <2>4. AtAttachment(call)
    BY <2>3 DEF AtAttachment
  <2>5. QED
    BY <1>1, <1>2, <2>3, <2>4 DEF IngestTyped
<1>5. CASE ~ (ingest[i].file < NumAttachments)
  <2>1. call = [ingest[i] EXCEPT !.at = IF any THEN "success" ELSE "failure", !.any = any]
    BY <1>5
  <2> HIDE DEF call
  <2>2. call \in Ingest /\ call.at \in {"success", "failure"} /\ call.any = any
    BY <1>2, <1>3, <2>1 DEF Ingest, IngestAt
  <2>3. AtAttachment(call)
    BY <2>2 DEF AtAttachment
  <2>4. QED
    BY <1>1, <1>2, <2>2, <2>3 DEF IngestTyped
<1>6. QED
  BY <1>4, <1>5

(* Sets that differ in one element only.                                    *)
LEMMA OneElementCounts ==
    ASSUME NEW S, NEW T, NEW x, IsFiniteSet(S), T \ {x} = S \ {x}
    PROVE  /\ IsFiniteSet(T) /\ Cardinality(S) \in Nat /\ Cardinality(T) \in Nat
           /\ Cardinality(T) + (IF x \in S THEN 1 ELSE 0)
                = Cardinality(S) + (IF x \in T THEN 1 ELSE 0)
<1>1. T \in SUBSET (S \cup {x})
  OBVIOUS
<1>2. IsFiniteSet(S \cup {x})
  BY FS_AddElement
<1>3. IsFiniteSet(T)
  BY <1>1, <1>2, FS_Subset
<1>4. Cardinality(S) \in Nat /\ Cardinality(T) \in Nat
  BY <1>3, FS_CardinalityType
<1>5. /\ Cardinality(S \ {x}) = IF x \in S THEN Cardinality(S) - 1 ELSE Cardinality(S)
      /\ Cardinality(T \ {x}) = IF x \in T THEN Cardinality(T) - 1 ELSE Cardinality(T)
  BY <1>3, FS_RemoveElement
<1>6. QED
  BY <1>3, <1>4, <1>5

(* A step of one call, which stores j files, s sources and r reports of a,  *)
(* and leaves no more due than that and what was due before.                *)
LEMMA CountsMoved ==
    ASSUME NEW a \in Attachments, NEW i \in Ingests, IngestTyped, CallsCounted(a),
           \A k \in Ingests \ {i} : ingest'[k] = ingest[k],
           NEW j \in Nat, NEW s \in Nat, NEW r \in Nat,
           jsonFiles'[a] = jsonFiles[a] + j, sourceRows'[a] = sourceRows[a] + s,
           reportRows'[a] = reportRows[a] + r,
           s + (IF i \in SourcesDue(a)' THEN 1 ELSE 0) <= j + (IF i \in SourcesDue(a) THEN 1 ELSE 0),
           r + (IF i \in ReportsDue(a)' THEN 1 ELSE 0) <= s + (IF i \in ReportsDue(a) THEN 1 ELSE 0)
    PROVE  CallsCounted(a)'
<1>1. /\ SourcesDue(a)' \ {i} = SourcesDue(a) \ {i}
      /\ ReportsDue(a)' \ {i} = ReportsDue(a) \ {i}
  BY DEF SourcesDue, ReportsDue
<1>2. /\ IsFiniteSet(SourcesDue(a)')
      /\ Cardinality(SourcesDue(a)) \in Nat /\ Cardinality(SourcesDue(a)') \in Nat
      /\ Cardinality(SourcesDue(a)') + (IF i \in SourcesDue(a) THEN 1 ELSE 0)
           = Cardinality(SourcesDue(a)) + (IF i \in SourcesDue(a)' THEN 1 ELSE 0)
  BY <1>1, OneElementCounts DEF CallsCounted
<1>3. /\ IsFiniteSet(ReportsDue(a)')
      /\ Cardinality(ReportsDue(a)) \in Nat /\ Cardinality(ReportsDue(a)') \in Nat
      /\ Cardinality(ReportsDue(a)') + (IF i \in ReportsDue(a) THEN 1 ELSE 0)
           = Cardinality(ReportsDue(a)) + (IF i \in ReportsDue(a)' THEN 1 ELSE 0)
  BY <1>1, OneElementCounts DEF CallsCounted
<1>4. jsonFiles[a] \in Nat /\ sourceRows[a] \in Nat /\ reportRows[a] \in Nat
  BY DEF IngestTyped
<1>5. QED
  BY <1>2, <1>3, <1>4 DEF CallsCounted

(* A step after which no report is about to be inserted that was not, and   *)
(* that inserts none, keeps the reports apart.                              *)
LEMMA AloneKept ==
    ASSUME IngestTyped, StoredAlone, NEW i \in Ingests, UNCHANGED <<reportRows, storedAtOnce>>,
           \A k \in Ingests \ {i} : ingest'[k] = ingest[k],
           ingest'[i].at # "report"
    PROVE  StoredAlone'
  BY DEF StoredAlone, StoringElsewhere, Ingesting

(* A report inserted by a call that was about to: of an attachment no two   *)
(* calls were storing at once it is the only one.                           *)
LEMMA AloneInserted ==
    ASSUME IngestTyped, StoredAlone, NEW i \in Ingests, Ingesting(i, "report"),
           UNCHANGED storedAtOnce,
           reportRows' = [reportRows EXCEPT ![ingest[i].file] = @ + 1],
           \A k \in Ingests \ {i} : ingest'[k] = ingest[k],
           ingest'[i].at # "report"
    PROVE  StoredAlone'
<1> DEFINE f == ingest[i].file
<1>1. f \in Attachments /\ reportRows[f] \in Nat
  BY DEF IngestTyped, AtAttachment, Ingesting
<1>2. \A a \in Attachments : reportRows'[a] = IF a = f THEN reportRows[a] + 1 ELSE reportRows[a]
  BY <1>1 DEF IngestTyped
<1>3. f \notin storedAtOnce => reportRows[f] = 0 /\ ~ StoringElsewhere(i)
  BY DEF StoredAlone
<1>4. \A a \in Attachments : reportRows'[a] > 1 => a \in storedAtOnce'
  BY <1>1, <1>2, <1>3 DEF StoredAlone
<1>5. ASSUME NEW k \in Ingests, Ingesting(k, "report")', ingest'[k].file \notin storedAtOnce
      PROVE  reportRows'[ingest'[k].file] = 0 /\ ~ StoringElsewhere(k)'
  <2>1. k # i /\ ingest'[k] = ingest[k] /\ Ingesting(k, "report")
    BY <1>5 DEF Ingesting
  <2>2. ingest[k].file # f
    BY <1>3, <1>5, <2>1 DEF StoringElsewhere
  <2>3. /\ reportRows[ingest[k].file] = 0 /\ ~ StoringElsewhere(k)
        /\ ingest[k].file \in Attachments
    BY <1>5, <2>1 DEF StoredAlone, IngestTyped, AtAttachment, Ingesting
  <2>4. ~ StoringElsewhere(k)'
    BY <2>1, <2>3 DEF StoringElsewhere, Ingesting
  <2>5. QED
    BY <1>2, <2>1, <2>2, <2>3, <2>4
<1>6. QED
  BY <1>4, <1>5 DEF StoredAlone

(* Calls that do not move keep what they stored.                            *)
LEMMA StoredKept ==
    ASSUME IngestTyped, NEW i \in Ingests, \A k \in Ingests : CallStored(k),
           \A k \in Ingests \ {i} : ingest'[k] = ingest[k],
           \A a \in Attachments : reportRows'[a] >= reportRows[a],
           reportRows' \in [Attachments -> Nat],
           ingest'[i].at = "insights" =>
               ingest'[i].file \in Attachments /\ reportRows'[ingest'[i].file] > 0,
           ingest'[i].any => ingest[i].any \/ \E a \in Attachments : reportRows'[a] > 0
    PROVE  \A k \in Ingests : CallStored(k)'
<1>1. \A a \in Attachments : reportRows[a] > 0 => reportRows'[a] > 0
  BY DEF IngestTyped
<1>2. ASSUME NEW k \in Ingests
      PROVE  CallStored(k)'
  <2>1. CallStored(k) /\ AtAttachment(ingest[k])
    BY DEF IngestTyped
  <2>2. CASE k = i
    BY <1>1, <2>1, <2>2 DEF CallStored, Ingesting
  <2>3. CASE k # i
    BY <1>1, <2>1, <2>3 DEF CallStored, Ingesting, AtAttachment
  <2>4. QED
    BY <2>2, <2>3
<1>3. QED
  BY <1>2

(* A step that stores nothing and leaves nothing more due.                  *)
LEMMA QuietStep ==
    ASSUME IngestInv, NEW i \in Ingests, ingest' \in [Ingests -> Ingest],
           \A k \in Ingests : AtAttachment(ingest'[k]),
           \A k \in Ingests \ {i} : ingest'[k] = ingest[k],
           ingest'[i].at \notin {"source", "select", "report"},
           ingest'[i].at = "insights" => reportRows[ingest'[i].file] > 0,
           ingest'[i].any => ingest[i].any \/ \E a \in Attachments : reportRows[a] > 0,
           UNCHANGED <<tables, storedAtOnce>>
    PROVE  IngestInv'
<1> USE DEF IngestInv
<1>1. jsonFiles' = jsonFiles /\ sourceRows' = sourceRows /\ reportRows' = reportRows
  BY DEF tables
<1>2. IngestTyped'
  BY <1>1 DEF IngestTyped
<1>3. StoredAlone'
  BY <1>1, AloneKept
<1>4. ASSUME NEW a \in Attachments
      PROVE  CallsCounted(a)'
  <2>1. jsonFiles[a] \in Nat /\ sourceRows[a] \in Nat /\ reportRows[a] \in Nat
    BY DEF IngestTyped
  <2>2. i \notin SourcesDue(a)' /\ i \notin ReportsDue(a)'
    BY DEF SourcesDue, ReportsDue
  <2>3. /\ jsonFiles'[a] = jsonFiles[a] + 0 /\ sourceRows'[a] = sourceRows[a] + 0
        /\ reportRows'[a] = reportRows[a] + 0
        /\ 0 + (IF i \in SourcesDue(a)' THEN 1 ELSE 0) <= 0 + (IF i \in SourcesDue(a) THEN 1 ELSE 0)
        /\ 0 + (IF i \in ReportsDue(a)' THEN 1 ELSE 0) <= 0 + (IF i \in ReportsDue(a) THEN 1 ELSE 0)
    BY <1>1, <2>1, <2>2
  <2>4. QED
    BY <2>3, CountsMoved
<1>5. \A k \in Ingests : CallStored(k)'
  <2>1. /\ \A a \in Attachments : reportRows'[a] >= reportRows[a]
        /\ reportRows' \in [Attachments -> Nat]
    BY <1>1 DEF IngestTyped
  <2>2. ingest'[i].at = "insights" =>
          ingest'[i].file \in Attachments /\ reportRows'[ingest'[i].file] > 0
    BY <1>1 DEF AtAttachment
  <2>3. ingest'[i].any => ingest[i].any \/ \E a \in Attachments : reportRows'[a] > 0
    BY <1>1
  <2>4. QED
    BY <2>1, <2>2, <2>3, StoredKept
<1>6. QED
  BY <1>2, <1>3, <1>4, <1>5

(* A call that stores its source, or its report, and has no more to do with *)
(* it than what comes after.                                                *)
LEMMA SourceStep ==
    ASSUME IngestInv, NEW i \in Ingests, Ingesting(i, "source"),
           ingest' \in [Ingests -> Ingest],
           \A k \in Ingests : AtAttachment(ingest'[k]),
           \A k \in Ingests \ {i} : ingest'[k] = ingest[k],
           \/ ingest'[i].at = "select" /\ ingest'[i].file = ingest[i].file
           \/ ingest'[i].at \in {"parse", "success", "failure"},
           ingest'[i].any => ingest[i].any,
           sourceRows' = [sourceRows EXCEPT ![ingest[i].file] = @ + 1],
           UNCHANGED <<jsonFiles, reportRows, storedAtOnce>>
    PROVE  IngestInv'
<1> USE DEF IngestInv
<1> DEFINE f == ingest[i].file
<1>1. f \in Attachments
  BY DEF IngestTyped, AtAttachment, Ingesting
<1>2. /\ sourceRows' \in [Attachments -> Nat]
      /\ \A a \in Attachments :
           sourceRows'[a] = IF a = f THEN sourceRows[a] + 1 ELSE sourceRows[a] + 0
  BY <1>1 DEF IngestTyped
<1>3. IngestTyped'
  BY <1>2 DEF IngestTyped
<1>4. StoredAlone'
  BY AloneKept
<1>5. ASSUME NEW a \in Attachments
      PROVE  CallsCounted(a)'
  <2>1. /\ jsonFiles'[a] = jsonFiles[a] + 0 /\ reportRows'[a] = reportRows[a] + 0
        /\ i \notin SourcesDue(a)'
        /\ i \in SourcesDue(a) <=> a = f
        /\ i \in ReportsDue(a)' => a = f
    BY DEF IngestTyped, SourcesDue, ReportsDue, Ingesting
  <2> DEFINE due(S) == IF i \in S THEN 1 ELSE 0
  <2>2. CASE a = f
    <3>1. sourceRows'[a] = sourceRows[a] + 1
      BY <1>2, <2>2
    <3>2. /\ 1 + due(SourcesDue(a)') <= 0 + due(SourcesDue(a))
          /\ 0 + due(ReportsDue(a)') <= 1 + due(ReportsDue(a))
      BY <2>1, <2>2
    <3>3. QED
      BY <2>1, <3>1, <3>2, CountsMoved
  <2>3. CASE a # f
    <3>1. sourceRows'[a] = sourceRows[a] + 0
      BY <1>2, <2>3
    <3>2. /\ 0 + due(SourcesDue(a)') <= 0 + due(SourcesDue(a))
          /\ 0 + due(ReportsDue(a)') <= 0 + due(ReportsDue(a))
      BY <2>1, <2>3
    <3>3. QED
      BY <2>1, <3>1, <3>2, CountsMoved
  <2>4. QED
    BY <2>2, <2>3
<1>6. \A k \in Ingests : CallStored(k)'
  BY StoredKept DEF IngestTyped
<1>7. QED
  BY <1>3, <1>4, <1>5, <1>6

LEMMA ReportStep ==
    ASSUME IngestInv, NEW i \in Ingests, Ingesting(i, "report"),
           ingest' \in [Ingests -> Ingest],
           \A k \in Ingests : AtAttachment(ingest'[k]),
           \A k \in Ingests \ {i} : ingest'[k] = ingest[k],
           \/ ingest'[i].at = "insights" /\ ingest'[i].file = ingest[i].file
           \/ ingest'[i].at \in {"parse", "success", "failure"},
           ingest'[i].any => ingest[i].any,
           reportRows' = [reportRows EXCEPT ![ingest[i].file] = @ + 1],
           UNCHANGED <<jsonFiles, sourceRows, storedAtOnce>>
    PROVE  IngestInv'
<1> USE DEF IngestInv
<1> DEFINE f == ingest[i].file
<1>1. f \in Attachments
  BY DEF IngestTyped, AtAttachment, Ingesting
<1>2. /\ reportRows' \in [Attachments -> Nat]
      /\ \A a \in Attachments :
           /\ reportRows[a] \in Nat
           /\ reportRows'[a] = IF a = f THEN reportRows[a] + 1 ELSE reportRows[a] + 0
  BY <1>1 DEF IngestTyped
<1>3. IngestTyped'
  BY <1>2 DEF IngestTyped
<1>4. StoredAlone'
  BY AloneInserted
<1>5. ASSUME NEW a \in Attachments
      PROVE  CallsCounted(a)'
  <2>1. /\ jsonFiles'[a] = jsonFiles[a] + 0 /\ sourceRows'[a] = sourceRows[a] + 0
        /\ i \notin SourcesDue(a)' /\ i \notin SourcesDue(a)
        /\ i \notin ReportsDue(a)'
        /\ i \in ReportsDue(a) <=> a = f
    BY DEF IngestTyped, SourcesDue, ReportsDue, Ingesting
  <2> DEFINE due(S) == IF i \in S THEN 1 ELSE 0
  <2>2. CASE a = f
    <3>1. reportRows'[a] = reportRows[a] + 1
      BY <1>2, <2>2
    <3>2. /\ 0 + due(SourcesDue(a)') <= 0 + due(SourcesDue(a))
          /\ 1 + due(ReportsDue(a)') <= 0 + due(ReportsDue(a))
      BY <2>1, <2>2
    <3>3. QED
      BY <2>1, <3>1, <3>2, CountsMoved
  <2>3. CASE a # f
    <3>1. reportRows'[a] = reportRows[a] + 0
      BY <1>2, <2>3
    <3>2. /\ 0 + due(SourcesDue(a)') <= 0 + due(SourcesDue(a))
          /\ 0 + due(ReportsDue(a)') <= 0 + due(ReportsDue(a))
      BY <2>1, <2>3
    <3>3. QED
      BY <2>1, <3>1, <3>2, CountsMoved
  <2>4. QED
    BY <2>2, <2>3
<1>6. \A k \in Ingests : CallStored(k)'
  <2>1. \A a \in Attachments : reportRows'[a] >= reportRows[a]
    BY <1>2
  <2>2. reportRows'[f] > 0
    BY <1>1, <1>2
  <2>3. QED
    BY <1>1, <1>2, <2>1, <2>2, StoredKept
<1>7. QED
  BY <1>3, <1>4, <1>5, <1>6

LEMMA IngestInvStep ==
    ASSUME IngestInv, [IngestNext]_ingestVars
    PROVE  IngestInv'
<1> USE DEF IngestInv
<1>1. ASSUME NEW i \in Ingests, BeginIngest(i)
      PROVE  IngestInv'
  <2>1. /\ Ingesting(i, "idle") /\ IngestGoto(i, "fetch")
        /\ UNCHANGED <<tables, storedAtOnce>>
    BY <1>1 DEF BeginIngest
  <2>2. ingest[i].file = 1
    BY <2>1 DEF IngestTyped, AtAttachment, Ingesting
  <2>3. QED
    BY <2>1, <2>2, CallGoes, QuietStep DEF IngestAt
<1>2. ASSUME NEW i \in Ingests, FetchAttachments(i)
      PROVE  IngestInv'
  <2>1. /\ Ingesting(i, "fetch") /\ UNCHANGED <<tables, storedAtOnce>>
        /\ \/ IngestGoto(i, "failure")
           \/ NumAttachments > 0 /\ IngestGoto(i, "parse")
    BY <1>2 DEF FetchAttachments
  <2>2. ingest[i].file = 1
    BY <2>1 DEF IngestTyped, AtAttachment, Ingesting
  <2>3. NumAttachments > 0 => ingest[i].file \in Attachments
    BY <2>2, IngestAssumption DEF Attachments
  <2>4. QED
    BY <2>1, <2>3, CallGoes, QuietStep DEF IngestAt
<1>3. ASSUME NEW i \in Ingests, NEW ok \in BOOLEAN, NextAttachment(i, ok),
             ingest[i].file \in Attachments, ok => reportRows[ingest[i].file] > 0,
             UNCHANGED <<tables, storedAtOnce>>
      PROVE  IngestInv'
  <2>1. /\ ingest' \in [Ingests -> Ingest]
        /\ \A k \in Ingests : AtAttachment(ingest'[k])
        /\ ingest'[i].at \in {"parse", "success", "failure"}
        /\ ingest'[i].any => ingest[i].any \/ ok
        /\ \A k \in Ingests \ {i} : ingest'[k] = ingest[k]
    BY <1>3, NextGoes
  <2>2. ingest'[i].any => ingest[i].any \/ \E a \in Attachments : reportRows[a] > 0
    BY <1>3, <2>1
  <2>3. QED
    BY <1>3, <2>1, <2>2, QuietStep
<1>4. ASSUME NEW i \in Ingests, ParseAttachment(i)
      PROVE  IngestInv'
  <2> DEFINE f == ingest[i].file
  <2>1. Ingesting(i, "parse") /\ f \in Attachments
    BY <1>4 DEF ParseAttachment, IngestTyped, AtAttachment, Ingesting
  <2>2. CASE NextAttachment(i, FALSE) /\ UNCHANGED jsonFiles
    <3>1. UNCHANGED <<tables, storedAtOnce>>
      BY <1>4, <2>2 DEF ParseAttachment, tables
    <3>2. QED
      BY <1>3, <2>1, <2>2, <3>1
  <2>3. CASE jsonFiles' = [jsonFiles EXCEPT ![f] = @ + 1] /\ IngestGoto(i, "source")
    <3>1. UNCHANGED <<sourceRows, reportRows, storedAtOnce>>
      BY <1>4 DEF ParseAttachment
    <3>2. /\ ingest' \in [Ingests -> Ingest] /\ \A k \in Ingests : AtAttachment(ingest'[k])
          /\ ingest'[i].at = "source" /\ ingest'[i].file = f /\ ingest'[i].any = ingest[i].any
          /\ \A k \in Ingests \ {i} : ingest'[k] = ingest[k]
      BY <2>1, <2>3, CallGoes DEF IngestAt
    <3>3. /\ jsonFiles' \in [Attachments -> Nat]
          /\ \A a \in Attachments :
               jsonFiles'[a] = IF a = f THEN jsonFiles[a] + 1 ELSE jsonFiles[a] + 0
      BY <2>1, <2>3 DEF IngestTyped
    <3>4. IngestTyped'
      BY <3>1, <3>2, <3>3 DEF IngestTyped
    <3>5. StoredAlone'
      BY <3>1, <3>2, AloneKept
    <3>6. ASSUME NEW a \in Attachments
          PROVE  CallsCounted(a)'
      <4> DEFINE due(S) == IF i \in S THEN 1 ELSE 0
                 j == IF a = f THEN 1 ELSE 0
      <4>1. /\ sourceRows'[a] = sourceRows[a] + 0 /\ reportRows'[a] = reportRows[a] + 0
            /\ jsonFiles'[a] = jsonFiles[a] + j
        BY <3>1, <3>3 DEF IngestTyped
      <4>2. /\ i \notin SourcesDue(a) /\ i \notin ReportsDue(a) /\ i \notin ReportsDue(a)'
            /\ i \in SourcesDue(a)' <=> a = f
        BY <2>1, <3>2 DEF SourcesDue, ReportsDue, Ingesting
      <4>3. /\ 0 + due(SourcesDue(a)') <= j + due(SourcesDue(a))
            /\ 0 + due(ReportsDue(a)') <= 0 + due(ReportsDue(a)) /\ j \in Nat
        BY <4>2
      <4> HIDE DEF j
      <4>4. QED
        BY <3>2, <4>1, <4>3, CountsMoved
    <3>7. \A k \in Ingests : CallStored(k)'
      BY <3>1, <3>2, StoredKept DEF IngestTyped
    <3>8. QED
      BY <3>4, <3>5, <3>6, <3>7
  <2>4. QED
    BY <1>4, <2>2, <2>3 DEF ParseAttachment
<1>5. ASSUME NEW i \in Ingests, StoreReportSource(i)
      PROVE  IngestInv'
  <2>1. /\ Ingesting(i, "source") /\ IngestGoto(i, "select")
        /\ sourceRows' = [sourceRows EXCEPT ![ingest[i].file] = @ + 1]
        /\ UNCHANGED <<jsonFiles, reportRows, storedAtOnce>>
    BY <1>5 DEF StoreReportSource
  <2>2. ingest[i].file \in Attachments
    BY <2>1 DEF IngestTyped, AtAttachment, Ingesting
  <2>3. /\ ingest' \in [Ingests -> Ingest] /\ \A k \in Ingests : AtAttachment(ingest'[k])
        /\ ingest'[i].at = "select" /\ ingest'[i].file = ingest[i].file
        /\ ingest'[i].any = ingest[i].any
        /\ \A k \in Ingests \ {i} : ingest'[k] = ingest[k]
    BY <2>1, <2>2, CallGoes DEF IngestAt
  <2>4. QED
    BY <2>1, <2>3, SourceStep
<1>6. ASSUME NEW i \in Ingests, CheckForDuplicate(i)
      PROVE  IngestInv'
  <2> DEFINE f == ingest[i].file
  <2>1. /\ Ingesting(i, "select")
        /\ IngestGoto(i, IF DuplicateReport(f) THEN "insights" ELSE "report")
        /\ storedAtOnce' = IF StoringElsewhere(i) THEN storedAtOnce \cup {f} ELSE storedAtOnce
        /\ UNCHANGED tables
    BY <1>6 DEF CheckForDuplicate
  <2>2. f \in Attachments
    BY <2>1 DEF IngestTyped, AtAttachment, Ingesting
  <2>3. /\ ingest' \in [Ingests -> Ingest] /\ \A k \in Ingests : AtAttachment(ingest'[k])
        /\ ingest'[i].at = IF DuplicateReport(f) THEN "insights" ELSE "report"
        /\ ingest'[i].file = f /\ ingest'[i].any = ingest[i].any
        /\ \A k \in Ingests \ {i} : ingest'[k] = ingest[k]
    <3> DEFINE label == IF DuplicateReport(f) THEN "insights" ELSE "report"
    <3>1. label \in IngestAt \ {"idle", "fetch"}
      BY DEF IngestAt
    <3>2. IngestGoto(i, label)
      BY <2>1
    <3> HIDE DEF label
    <3>3. /\ ingest' \in [Ingests -> Ingest] /\ \A k \in Ingests : AtAttachment(ingest'[k])
          /\ ingest'[i].at = label
          /\ ingest'[i].file = f /\ ingest'[i].any = ingest[i].any
          /\ \A k \in Ingests \ {i} : ingest'[k] = ingest[k]
      BY <2>2, <3>1, <3>2, CallGoes
    <3>4. QED
      BY <3>3 DEF label
  <2>4. jsonFiles' = jsonFiles /\ sourceRows' = sourceRows /\ reportRows' = reportRows
    BY <2>1 DEF tables
  <2>5. storedAtOnce \subseteq storedAtOnce' /\ storedAtOnce' \subseteq Attachments
    BY <2>1, <2>2 DEF IngestTyped
  <2>6. IngestTyped'
    BY <2>3, <2>4, <2>5 DEF IngestTyped
  <2>7. ASSUME NEW a \in Attachments
        PROVE  CallsCounted(a)'
    <3> DEFINE due(S) == IF i \in S THEN 1 ELSE 0
    <3>1. /\ jsonFiles'[a] = jsonFiles[a] + 0 /\ sourceRows'[a] = sourceRows[a] + 0
          /\ reportRows'[a] = reportRows[a] + 0
      BY <2>4 DEF IngestTyped
    <3>2. /\ i \notin SourcesDue(a)' /\ (i \in ReportsDue(a)' => i \in ReportsDue(a))
      BY <2>1, <2>3 DEF SourcesDue, ReportsDue, Ingesting
    <3>3. /\ 0 + due(SourcesDue(a)') <= 0 + due(SourcesDue(a))
          /\ 0 + due(ReportsDue(a)') <= 0 + due(ReportsDue(a))
      BY <3>2
    <3>4. QED
      BY <2>3, <3>1, <3>3, CountsMoved
  <2>8. StoredAlone'
    <3>1. \A a \in Attachments : reportRows'[a] > 1 => a \in storedAtOnce'
      BY <2>4, <2>5 DEF StoredAlone
    <3>2. ASSUME NEW k \in Ingests, Ingesting(k, "report")', ingest'[k].file \notin storedAtOnce'
          PROVE  reportRows'[ingest'[k].file] = 0 /\ ~ StoringElsewhere(k)'
      <4>1. CASE k = i
        <5>1. ~ DuplicateReport(f) /\ ingest'[i].file = f
          BY <2>3, <3>2, <4>1 DEF Ingesting
        <5>2. reportRows[f] = 0
          BY <2>2, <5>1 DEF DuplicateReport, IngestTyped
        <5>3. ~ StoringElsewhere(i)
          BY <2>1, <3>2, <4>1, <5>1
        <5>4. ~ StoringElsewhere(i)'
          BY <2>3, <5>1, <5>3 DEF StoringElsewhere, Ingesting
        <5>5. QED
          BY <2>4, <4>1, <5>1, <5>2, <5>4
      <4>2. CASE k # i
        <5>1. ingest'[k] = ingest[k] /\ Ingesting(k, "report")
          BY <2>3, <3>2, <4>2 DEF Ingesting
        <5>2. reportRows[ingest[k].file] = 0 /\ ~ StoringElsewhere(k)
          BY <2>5, <3>2, <5>1 DEF StoredAlone
        <5>3. ingest[k].file # f
          BY <2>1, <3>2, <4>2, <5>1 DEF StoringElsewhere
        <5>4. ~ StoringElsewhere(k)'
          BY <2>3, <5>1, <5>2, <5>3 DEF StoringElsewhere, Ingesting
        <5>5. QED
          BY <2>4, <5>1, <5>2, <5>4
      <4>3. QED
        BY <4>1, <4>2
    <3>3. QED
      BY <3>1, <3>2 DEF StoredAlone
  <2>9. \A k \in Ingests : CallStored(k)'
    <3>1. /\ \A a \in Attachments : reportRows'[a] >= reportRows[a]
          /\ reportRows' \in [Attachments -> Nat]
      BY <2>4 DEF IngestTyped
    <3>2. ingest'[i].at = "insights" =>
            ingest'[i].file \in Attachments /\ reportRows'[ingest'[i].file] > 0
      BY <2>2, <2>3, <2>4 DEF DuplicateReport
    <3>3. QED
      BY <2>3, <3>1, <3>2, StoredKept
  <2>10. QED
    BY <2>6, <2>7, <2>8, <2>9
<1>7. ASSUME NEW i \in Ingests, StoreReportData(i)
      PROVE  IngestInv'
  <2>1. /\ Ingesting(i, "report") /\ IngestGoto(i, "insights")
        /\ reportRows' = [reportRows EXCEPT ![ingest[i].file] = @ + 1]
        /\ UNCHANGED <<jsonFiles, sourceRows, storedAtOnce>>
    BY <1>7 DEF StoreReportData
  <2>2. ingest[i].file \in Attachments
    BY <2>1 DEF IngestTyped, AtAttachment, Ingesting
  <2>3. /\ ingest' \in [Ingests -> Ingest] /\ \A k \in Ingests : AtAttachment(ingest'[k])
        /\ ingest'[i].at = "insights" /\ ingest'[i].file = ingest[i].file
        /\ ingest'[i].any = ingest[i].any
        /\ \A k \in Ingests \ {i} : ingest'[k] = ingest[k]
    BY <2>1, <2>2, CallGoes DEF IngestAt
  <2>4. QED
    BY <2>1, <2>3, ReportStep
<1>8. ASSUME NEW i \in Ingests, GenerateInsights(i)
      PROVE  IngestInv'
  <2>1. /\ Ingesting(i, "insights") /\ UNCHANGED <<tables, storedAtOnce>>
        /\ \E ok \in BOOLEAN : NextAttachment(i, ok)
    BY <1>8 DEF GenerateInsights
  <2>2. ingest[i].file \in Attachments /\ reportRows[ingest[i].file] > 0
    BY <2>1 DEF IngestTyped, AtAttachment, Ingesting, CallStored
  <2>3. QED
    BY <1>3, <2>1, <2>2
<1>9. ASSUME NEW i \in Ingests, StoreFails(i)
      PROVE  IngestInv'
  <2>1. /\ ingest[i].at \in {"source", "select", "report"}
        /\ NextAttachment(i, FALSE) /\ UNCHANGED <<jsonFiles, storedAtOnce>>
    BY <1>9 DEF StoreFails
  <2>2. ingest[i].file \in Attachments
    BY <2>1 DEF IngestTyped, AtAttachment
  <2>3. /\ ingest' \in [Ingests -> Ingest] /\ \A k \in Ingests : AtAttachment(ingest'[k])
        /\ ingest'[i].at \in {"parse", "success", "failure"}
        /\ ingest'[i].any => ingest[i].any
        /\ \A k \in Ingests \ {i} : ingest'[k] = ingest[k]
    BY <2>1, <2>2, NextGoes
  <2>4. CASE UNCHANGED <<sourceRows, reportRows>>
    <3>1. UNCHANGED <<tables, storedAtOnce>>
      BY <2>1, <2>4 DEF tables
    <3>2. QED
      BY <1>3, <2>1, <2>2, <3>1
  <2>5. CASE /\ Ingesting(i, "source")
             /\ sourceRows' = [sourceRows EXCEPT ![ingest[i].file] = @ + 1]
             /\ UNCHANGED reportRows
    BY <2>1, <2>3, <2>5, SourceStep
  <2>6. CASE /\ Ingesting(i, "report")
             /\ reportRows' = [reportRows EXCEPT ![ingest[i].file] = @ + 1]
             /\ UNCHANGED sourceRows
    BY <2>1, <2>3, <2>6, ReportStep
  <2>7. QED
    BY <1>9, <2>4, <2>5, <2>6 DEF StoreFails
<1>10. CASE UNCHANGED ingestVars
  <2>1. /\ jsonFiles' = jsonFiles /\ sourceRows' = sourceRows /\ reportRows' = reportRows
        /\ ingest' = ingest /\ storedAtOnce' = storedAtOnce
    BY <1>10 DEF ingestVars
  <2>2. \A a \in Attachments : SourcesDue(a)' = SourcesDue(a) /\ ReportsDue(a)' = ReportsDue(a)
    BY <2>1 DEF SourcesDue, ReportsDue
  <2>3. \A k \in Ingests : StoringElsewhere(k)' = StoringElsewhere(k)
    BY <2>1 DEF StoringElsewhere, Ingesting
  <2>4. QED
    BY <2>1, <2>2, <2>3 DEF IngestTyped, StoredAlone, CallsCounted, CallStored, Ingesting
<1>11. QED
  BY <1>1, <1>2, <1>4, <1>5, <1>6, <1>7, <1>8, <1>9, <1>10 DEF IngestNext

LEMMA IngestInvInit == IngestInit => IngestInv
<1> SUFFICES ASSUME IngestInit
             PROVE  IngestInv
  OBVIOUS
<1>1. NumAttachments \in Nat /\ 1 \in 1 .. NumAttachments + 1
  BY IngestAssumption
<1>2. /\ jsonFiles = [a \in Attachments |-> 0] /\ sourceRows = [a \in Attachments |-> 0]
      /\ reportRows = [a \in Attachments |-> 0] /\ storedAtOnce = {}
      /\ ingest = [i \in Ingests |-> [at |-> "idle", file |-> 1, any |-> FALSE]]
  BY DEF IngestInit
<1>3. [at |-> "idle", file |-> 1, any |-> FALSE] \in Ingest
  BY <1>1 DEF Ingest, IngestAt
<1>4. IngestTyped
  BY <1>2, <1>3 DEF IngestTyped, AtAttachment
<1>5. StoredAlone
  BY <1>2 DEF StoredAlone, Ingesting
<1>6. ASSUME NEW a \in Attachments
      PROVE  CallsCounted(a)
  <2>1. SourcesDue(a) = {} /\ ReportsDue(a) = {}
    BY <1>2 DEF SourcesDue, ReportsDue
  <2>2. IsFiniteSet({}) /\ Cardinality({}) = 0
    BY FS_EmptySet
  <2>3. jsonFiles[a] = 0 /\ sourceRows[a] = 0 /\ reportRows[a] = 0
    BY <1>2
  <2>4. QED
    BY <2>1, <2>2, <2>3 DEF CallsCounted
<1>7. \A i \in Ingests : CallStored(i)
  BY <1>2 DEF CallStored, Ingesting
<1>8. QED
  BY <1>4, <1>5, <1>6, <1>7 DEF IngestInv

LEMMA IngestInvAlways == IngestSpec => []IngestInv
<1>1. IngestInv /\ [IngestNext]_ingestVars => IngestInv'
  BY IngestInvStep
<1>2. QED
  BY <1>1, IngestInvInit, PTL DEF IngestSpec

(* Ingestion keeps to its types: a call that goes on has an attachment of   *)
(* its mailbox to take, and only attachments are marked as stored at once.  *)
THEOREM IngestTypeCorrect == IngestSpec => []IngestTypeOK
<1>1. IngestInv => IngestTypeOK
  BY DEF IngestInv, IngestTyped, Ingest, IngestTypeOK
<1>2. QED
  BY <1>1, IngestInvAlways, PTL

(* However many calls of ingestReportFromEmail overlap for however many      *)
(* attachments, and whichever statements fail, storeResults keeps no more    *)
(* reports of an attachment than sources and no more sources than files, a   *)
(* second report only where two calls checked for duplicates at once, and no *)
(* call succeeds without a report that is kept.                             *)
THEOREM ReportsOnce == IngestSpec => []ReportsKeptOnce
<1>1. ASSUME IngestInv
      PROVE  ReportsKeptOnce
  <2>1. ASSUME NEW a \in Attachments
        PROVE  reportRows[a] <= sourceRows[a] /\ sourceRows[a] <= jsonFiles[a]
    <3>1. jsonFiles[a] \in Nat /\ sourceRows[a] \in Nat /\ reportRows[a] \in Nat
      BY <1>1 DEF IngestInv, IngestTyped
    <3>2. Cardinality(SourcesDue(a)) \in Nat /\ Cardinality(ReportsDue(a)) \in Nat
      BY <1>1, FS_CardinalityType DEF IngestInv, CallsCounted
    <3>3. QED
      BY <1>1, <3>1, <3>2 DEF IngestInv, CallsCounted
  <2>2. QED
    BY <1>1, <2>1 DEF IngestInv, StoredAlone, CallStored, ReportsKeptOnce
<1>2. QED
  BY <1>1, IngestInvAlways, PTL

-----------------------------------------------------------------------------
(* The components together: a step of MCOutbound is a step of one of them,  *)
(* and no step of any other.                                                *)

LEMMA PartsBegin ==
    Init => EmailInit /\ BreakerInit /\ LimiterInit /\ TypedInit /\ IngestInit
  BY DEF Init

LEMMA PartsStep ==
    ASSUME [Next]_vars
    PROVE  /\ [EmailNext]_emailVars /\ [BreakerNext]_breakerVars /\ [LimiterNext]_limiterVars
           /\ [TypedNext]_typedVars /\ [IngestNext]_ingestVars
<1>1. CASE UNCHANGED vars
  BY <1>1 DEF vars
<1>2. CASE Next
  BY <1>2 DEF Next, Choose
<1>3. QED
  BY <1>1, <1>2

LEMMA PartsImplemented ==
    Init /\ [][Next]_vars => EmailSpec /\ BreakerSpec /\ LimiterSpec /\ TypedSpec /\ IngestSpec
  BY PartsBegin, PartsStep, PTL DEF EmailSpec, BreakerSpec, LimiterSpec, TypedSpec, IngestSpec

(* In every behavior of MCOutbound, whichever component it is of and with    *)
(* whatever constants: an email is sent again only for a failed statement or *)
(* a retry, the circuit opens and closes only after the calls that say so,   *)
(* no window lets through more requests than the limit, a job's row says no  *)
(* more than what its handler did, and an attachment is kept once.          *)
THEOREM OutboundCorrect ==
    FairSpec => [](EmailSentOnce /\ BreakerHonest /\ LimitHolds /\ TypedJobsHonest
                     /\ ReportsKeptOnce)
<1>1. FairSpec => Init /\ [][Next]_vars
  BY PTL DEF FairSpec
<1>2. QED
  BY <1>1, PartsImplemented, EmailOnce, CircuitHonest, LimitKept, TypedHonest, ReportsOnce, PTL

=============================================================================
