----------------------------- MODULE TypedQueue -----------------------------
(***************************************************************************)
(* The typed queue manager of src/services/queueManager.ts on the           *)
(* connection of src/services/bullmqService.ts: Redis queues when the ping   *)
(* succeeds, an array that ticks of a five second timer work through when   *)
(* it does not.  Nothing keeps ticks apart: each goes through the jobs that  *)
(* were pending when it began, whatever other ticks do to them meanwhile.   *)
(***************************************************************************)
EXTENDS Integers, FiniteSets

CONSTANTS
    NumTypedJobs,      \* bound: calls of addJob and addRepeatedJob
    TypedTicks,        \* ticks that may be under way at a time
    TypedMaxAttempts,
    MaxTypedErrors,    \* bound: statements that fail or whose reply is lost
    MaxTypedCrashes    \* bound: deaths of the process other than by a rejection

TypedJobs == 1 .. NumTypedJobs

ASSUME TypedQueueAssumption ==
    NumTypedJobs \in Nat /\ TypedMaxAttempts \in Nat \ {0} /\ MaxTypedErrors \in Nat

VARIABLES
    queueMode,    \* "starting", "redis" or "memory"
    inRedis,      \* the jobs in a Redis queue
    typedStatus,  \* the status of each job, "new" before it is added, "gone" with its process
    typedTries,   \* its attempts
    backingOff,   \* the jobs whose nextRunAt is ahead
    typedRow,     \* the status of its row in the jobs table
    adding,       \* where the call that adds it is
    tick,         \* where each tick is, its job and the rest of its snapshot
    typedRuns,    \* history: how often the job was started
    unrecorded,   \* history: how often its completion failed to be recorded
    shared,       \* history: how often it was started while another tick had it
    typedUsed

typedVars == <<queueMode, inRedis, typedStatus, typedTries, backingOff, typedRow, adding, tick,
               typedRuns, unrecorded, shared, typedUsed>>
typedHistory == <<typedRuns, unrecorded, shared>>

IdleTick == [at |-> "idle", job |-> 0, rest |-> {}]

TypedInit ==
    /\ queueMode = "starting"
    /\ inRedis = {}
    /\ typedStatus = [j \in TypedJobs |-> "new"]
    /\ typedTries = [j \in TypedJobs |-> 0]
    /\ backingOff = {}
    /\ typedRow = [j \in TypedJobs |-> "none"]
    /\ adding = [j \in TypedJobs |-> "idle"]
    /\ tick = [t \in TypedTicks |-> IdleTick]
    /\ typedRuns = [j \in TypedJobs |-> 0]
    /\ unrecorded = [j \in TypedJobs |-> 0]
    /\ shared = [j \in TypedJobs |-> 0]
    /\ typedUsed = [errors |-> 0, crashes |-> 0]

\* initializeQueueManager, whether initializeRedis pings or gives up.
InitializeQueueManager ==
    /\ queueMode = "starting"
    /\ queueMode' \in {"redis", "memory"}
    /\ UNCHANGED <<inRedis, typedStatus, typedTries, backingOff, typedRow, adding, tick,
                   typedHistory, typedUsed>>

-----------------------------------------------------------------------------
(* addJob; addRepeatedJob differs from it in what it asks of Redis only.    *)

\* There is no queue before the manager is initialized.
AddTypedJob(j) ==
    /\ adding[j] = "idle"
    /\ CASE queueMode = "starting" ->
              adding' = [adding EXCEPT ![j] = "over"] /\ UNCHANGED <<inRedis, typedStatus>>
         [] queueMode = "memory" ->
              /\ typedStatus' = [typedStatus EXCEPT ![j] = "pending"]
              /\ adding' = [adding EXCEPT ![j] = "insert"]
              /\ UNCHANGED inRedis
         [] queueMode = "redis" ->
              /\ \/ /\ inRedis' = inRedis \cup {j}
                    /\ adding' = [adding EXCEPT ![j] = "insert"]
                 \/ adding' = [adding EXCEPT ![j] = "over"] /\ UNCHANGED inRedis
              /\ UNCHANGED typedStatus
    /\ UNCHANGED <<queueMode, typedTries, backingOff, typedRow, tick, typedHistory, typedUsed>>

InsertTypedJob(j) ==
    /\ adding[j] = "insert"
    /\ typedRow' = [typedRow EXCEPT ![j] = "pending"]
    /\ adding' = [adding EXCEPT ![j] = "over"]
    /\ UNCHANGED <<queueMode, inRedis, typedStatus, typedTries, backingOff, tick,
                   typedHistory, typedUsed>>

\* The caller is told of an error for a job that is in the queue all the same.
InsertTypedJobFails(j) ==
    /\ adding[j] = "insert"
    /\ typedUsed.errors < MaxTypedErrors
    /\ typedUsed' = [typedUsed EXCEPT !.errors = @ + 1]
    /\ adding' = [adding EXCEPT ![j] = "over"]
    /\ typedRow' \in {typedRow, [typedRow EXCEPT ![j] = "pending"]}
    /\ UNCHANGED <<queueMode, inRedis, typedStatus, typedTries, backingOff, tick, typedHistory>>

-----------------------------------------------------------------------------
(* processInMemoryJobs                                                      *)

DueTypedJobs == {j \in TypedJobs \ backingOff : typedStatus[j] = "pending"}

\* The synchronous code that starts the next job of a tick, given the statuses.
StartTyped(t, jobs, statuses) ==
    IF jobs = {}
    THEN /\ tick' = [tick EXCEPT ![t] = IdleTick]
         /\ typedStatus' = statuses
         /\ UNCHANGED <<typedRuns, shared>>
    ELSE \E j \in jobs :
         /\ \A k \in jobs : j <= k
         /\ tick' = [tick EXCEPT ![t] = [at |-> "run", job |-> j, rest |-> jobs \ {j}]]
         /\ typedStatus' = [statuses EXCEPT ![j] = "running"]
         /\ typedRuns' = [typedRuns EXCEPT ![j] = @ + 1]
         /\ shared' = [shared EXCEPT ![j] = IF statuses[j] = "pending" THEN @ ELSE @ + 1]

ProcessTypedJobs(t) ==
    /\ queueMode = "memory"
    /\ tick[t].at = "idle"
    /\ DueTypedJobs # {}
    /\ StartTyped(t, DueTypedJobs, typedStatus)
    /\ UNCHANGED <<queueMode, inRedis, typedTries, backingOff, typedRow, adding,
                   unrecorded, typedUsed>>

\* processInMemoryJob, a stub that waits, returns.
TypedJobReturns(t) ==
    /\ tick[t].at = "run"
    /\ typedStatus' = [typedStatus EXCEPT ![tick[t].job] = "completed"]
    /\ tick' = [tick EXCEPT ![t].at = "complete"]
    /\ UNCHANGED <<queueMode, inRedis, typedTries, backingOff, typedRow, adding,
                   typedHistory, typedUsed>>

\* What the statement a tick is about to issue sets the row to, if there is one.
TypedRowSet(t) ==
    IF typedRow[tick[t].job] = "none" THEN "none"
    ELSE CASE tick[t].at = "complete" -> "completed"
           [] tick[t].at = "failed"   -> "failed"
           [] tick[t].at = "again"    -> "pending"

TypedStatements == {"complete", "failed", "again"}

\* The row is updated and the tick goes on.
TypedRowUpdated(t) ==
    /\ tick[t].at \in TypedStatements
    /\ typedRow' = [typedRow EXCEPT ![tick[t].job] = TypedRowSet(t)]
    /\ StartTyped(t, tick[t].rest, typedStatus)
    /\ UNCHANGED <<queueMode, inRedis, typedTries, backingOff, adding, unrecorded, typedUsed>>

\* Mutant: an attempt too few before a job is given up.
GivenUpBefore(n) == n + 1 >= TypedMaxAttempts
GivenUpAt(n) == n >= TypedMaxAttempts

\* Recording a completion fails, executed or not: the job that has just run
\* counts as failed, and is pending again unless that was its last attempt.
CompletionFails(t) ==
    /\ tick[t].at = "complete"
    /\ typedUsed.errors < MaxTypedErrors
    /\ typedUsed' = [typedUsed EXCEPT !.errors = @ + 1]
    /\ LET j    == tick[t].job
           last == GivenUpAt(typedTries[j] + 1)
       IN  /\ typedRow' \in {typedRow, [typedRow EXCEPT ![j] = TypedRowSet(t)]}
           /\ typedTries' = [typedTries EXCEPT ![j] = @ + 1]
           /\ unrecorded' = [unrecorded EXCEPT ![j] = @ + 1]
           /\ typedStatus' = [typedStatus EXCEPT ![j] = IF last THEN "failed" ELSE "pending"]
           /\ backingOff' = IF last THEN backingOff ELSE backingOff \cup {j}
           /\ tick' = [tick EXCEPT ![t].at = IF last THEN "failed" ELSE "again"]
    /\ UNCHANGED <<queueMode, inRedis, adding, typedRuns, shared>>

BackoffOver(j) ==
    /\ j \in backingOff
    /\ backingOff' = backingOff \ {j}
    /\ UNCHANGED <<queueMode, inRedis, typedStatus, typedTries, typedRow, adding, tick,
                   typedHistory, typedUsed>>

-----------------------------------------------------------------------------
\* The array and every call under way are lost with the process.
TypedProcessDies ==
    /\ queueMode' = "starting"
    /\ typedStatus' = [j \in TypedJobs |-> IF typedStatus[j] = "new" THEN "new" ELSE "gone"]
    /\ adding' = [j \in TypedJobs |-> IF adding[j] = "insert" THEN "over" ELSE adding[j]]
    /\ backingOff' = {}
    /\ tick' = [t \in TypedTicks |-> IdleTick]
    /\ UNCHANGED <<inRedis, typedTries, typedHistory>>

\* An UPDATE of the catch rejects, executed or not: nothing handles it, which
\* ends the process.
CatchRejects(t) ==
    /\ tick[t].at \in {"failed", "again"}
    /\ typedUsed.errors < MaxTypedErrors
    /\ typedUsed' = [typedUsed EXCEPT !.errors = @ + 1]
    /\ typedRow' \in {typedRow, [typedRow EXCEPT ![tick[t].job] = TypedRowSet(t)]}
    /\ TypedProcessDies

TypedCrash ==
    /\ typedUsed.crashes < MaxTypedCrashes
    /\ typedUsed' = [typedUsed EXCEPT !.crashes = @ + 1]
    /\ TypedProcessDies
    /\ UNCHANGED typedRow

TypedNext ==
    \/ InitializeQueueManager
    \/ \E j \in TypedJobs :
         AddTypedJob(j) \/ InsertTypedJob(j) \/ InsertTypedJobFails(j) \/ BackoffOver(j)
    \/ \E t \in TypedTicks :
         \/ ProcessTypedJobs(t) \/ TypedJobReturns(t) \/ TypedRowUpdated(t)
         \/ CompletionFails(t) \/ CatchRejects(t)
    \/ TypedCrash

-----------------------------------------------------------------------------
TypedTypeOK ==
    /\ queueMode \in {"starting", "redis", "memory"}
    /\ inRedis \subseteq TypedJobs /\ backingOff \subseteq TypedJobs
    /\ typedStatus \in [TypedJobs -> {"new", "pending", "running", "completed", "failed", "gone"}]
    /\ typedTries \in [TypedJobs -> 0 .. MaxTypedErrors]
    /\ typedRow \in [TypedJobs -> {"none", "pending", "completed", "failed"}]
    /\ adding \in [TypedJobs -> {"idle", "insert", "over"}]
    /\ tick \in [TypedTicks -> [at : {"idle", "run"} \cup TypedStatements,
                                job : 0 .. NumTypedJobs, rest : SUBSET TypedJobs]]

(* A job is started again only after recording its completion failed or in   *)
(* a tick that had it in its snapshot when another started it; its row says  *)
(* completed only when it has run, and failed, like the job itself, only     *)
(* when as many completions as it has attempts were not recorded; and a job  *)
(* that is running has a tick that runs it.                                 *)
TypedJobsHonest ==
    \A j \in TypedJobs :
        /\ typedRuns[j] <= 1 + unrecorded[j] + shared[j]
        /\ typedRow[j] = "completed" => typedRuns[j] > 0
        /\ "failed" \in {typedRow[j], typedStatus[j]} => unrecorded[j] >= TypedMaxAttempts
        /\ typedStatus[j] = "running" =>
             \E t \in TypedTicks : tick[t].at = "run" /\ tick[t].job = j

=============================================================================
