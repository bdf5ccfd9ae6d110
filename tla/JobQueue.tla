------------------------------ MODULE JobQueue ------------------------------
(***************************************************************************)
(* The in-memory job queue of src/services/jobQueue.ts, the mode the        *)
(* service is in whenever Redis is off or the BullMQ package does not       *)
(* export QueueScheduler: enqueueJob pushes onto an array, an interval      *)
(* timer starts processInMemoryJobs every five seconds whether or not the   *)
(* previous ticks have ended, and each tick runs the jobs of the snapshot   *)
(* it took, one after the other, through processJob.                        *)
(*                                                                         *)
(* Jobs are numbered in the order they are pushed; nothing is ever removed  *)
(* from the array while the process lives.  A tick's synchronous code is    *)
(* one step; each statement and each call it awaits is another, and between *)
(* them every other tick may run.                                           *)
(***************************************************************************)
EXTENDS Integers

CONSTANTS
    NumJobs,         \* bound: calls of enqueueJob
    Tasks,           \* the rows of task_logs; none is ever deleted
    ScheduledTasks,  \* those of type scheduledWorkflow, all of which have task data
    Ticks,           \* ticks that may be under way at a time
    MaxAttempts,     \* maxAttempts of every job (3 in the code)
    MaxDbErrors,     \* bound: statements that fail or whose reply is lost
    MaxCrashes       \* bound: deaths of the process

ASSUME JobQueueAssumption ==
    /\ NumJobs \in Nat
    /\ ScheduledTasks \subseteq Tasks
    /\ MaxAttempts \in Nat \ {0}
    /\ MaxDbErrors \in Nat /\ MaxCrashes \in Nat

VARIABLES
    pushed,    \* how many jobs enqueueJob has pushed
    lost,      \* how many of them went with a process that died
    task,      \* the task of each job
    workflowless, \* the scheduled tasks whose data names no workflow: their schedule has none
    status,    \* the status of each job object
    attempts,  \* its count of failed attempts
    taskLog,   \* the status column of each task's row in task_logs
    current,   \* the job each tick is running, 0 for none
    rest,      \* the jobs of its snapshot that it has not come to
    at,        \* where its processJob is
    started,   \* history: how often each job was started
    failures,  \* history: how often processJob threw for it
    executed,  \* history: the jobs whose executeWorkflowById has returned
    used       \* how much of each bound has been used

queueVars   == <<pushed, lost, task, workflowless, status, attempts>>
historyVars == <<started, failures, executed>>
vars == <<queueVars, taskLog, current, rest, at, historyVars, used>>

-----------------------------------------------------------------------------
Jobs == 1 .. NumJobs

\* The jobs in the array.
Queue == lost + 1 .. pushed

JobStatuses == {"pending", "processing", "completed", "failed"}

LogStatuses == {"pending", "processing", "completed", "failed"}

Labels == {"idle",      \* the tick is not under way
           "mark",      \* about to mark the task as processing
           "load",      \* about to select the task
           "run",       \* awaiting executeWorkflowById
           "complete",  \* about to mark the task as completed
           "fail",      \* catch: about to mark the task as failed
           "resolved",  \* processJob has returned
           "rejected"}  \* processJob has thrown

\* Mutants of the filter: every unfinished job; none while one is in processing.
DueUnfinished == {j \in Queue : status[j] # "completed"}
DueUnlessBusy ==
    {j \in Queue : status[j] = "pending" /\ \A k \in Queue : status[k] # "processing"}

\* The filter of processInMemoryJobs.  nextRunAt is never ahead of a pending
\* job: it is only moved for jobs that a failure leaves in processing.
Due == {j \in Queue : status[j] = "pending"}

\* Mutant: the job pushed last comes first.
LastOf(j, jobs) == j \in jobs /\ \A k \in jobs : k <= j

FirstOf(j, jobs) == j \in jobs /\ \A k \in jobs : j <= k

\* The synchronous code that starts a tick's next job, or ends the tick, given
\* what the statuses are by then.
StartNext(t, jobs, statuses) ==
    \/ /\ jobs = {}
       /\ status' = statuses
       /\ current' = [current EXCEPT ![t] = 0]
       /\ rest' = [rest EXCEPT ![t] = {}]
       /\ at' = [at EXCEPT ![t] = "idle"]
       /\ UNCHANGED started
    \/ \E j \in jobs :
       /\ FirstOf(j, jobs)
       /\ status' = [statuses EXCEPT ![j] = "processing"]
       /\ current' = [current EXCEPT ![t] = j]
       /\ rest' = [rest EXCEPT ![t] = jobs \ {j}]
       /\ at' = [at EXCEPT ![t] = "mark"]
       /\ started' = [started EXCEPT ![j] = @ + 1]

Goto(t, label) == at' = [at EXCEPT ![t] = label]

-----------------------------------------------------------------------------
Init ==
    /\ pushed = 0
    /\ lost = 0
    /\ task \in [Jobs -> Tasks] /\ workflowless \in SUBSET ScheduledTasks
    /\ status = [j \in Jobs |-> "pending"]
    /\ attempts = [j \in Jobs |-> 0]
    /\ taskLog = [k \in Tasks |-> "pending"]
    /\ current = [t \in Ticks |-> 0]
    /\ rest = [t \in Ticks |-> {}]
    /\ at = [t \in Ticks |-> "idle"]
    /\ started = [j \in Jobs |-> 0]
    /\ failures = [j \in Jobs |-> 0]
    /\ executed = {}
    /\ used = [dbErrors |-> 0, crashes |-> 0]

\* enqueueJob pushes the job (of any task: a task may be enqueued again).  The
\* row it then inserts into the jobs table is never read in this mode, by
\* getJobById, listJobs or anyone, nor changed, but by a retryJob that writes
\* the values it already has: the row is left out.
EnqueueJob ==
    /\ pushed < NumJobs
    /\ pushed' = pushed + 1
    /\ UNCHANGED <<lost, task, workflowless, status, attempts, taskLog, current, rest, at>>
    /\ UNCHANGED <<historyVars, used>>

\* The interval timer fires and finds jobs that are due.
ProcessInMemoryJobs(t) ==
    /\ at[t] = "idle"
    /\ Due # {}
    /\ StartNext(t, Due, status)
    /\ UNCHANGED <<pushed, lost, task, workflowless, attempts, taskLog, failures, executed, used>>

\* What each statement of processJob sets the task's status to.  Mutant: the
\* catch does not report the failure.
StatusUnlessFailed(t) ==
    CASE at[t] = "mark"     -> "processing"
      [] at[t] = "complete" -> "completed"
      [] OTHER              -> taskLog[task[current[t]]]

StatusSet(t) ==
    CASE at[t] = "mark"     -> "processing"
      [] at[t] = "complete" -> "completed"
      [] at[t] = "fail"     -> "failed"
      [] OTHER              -> taskLog[task[current[t]]]

UpdateTaskLog(t) == taskLog' = [taskLog EXCEPT ![task[current[t]]] = StatusSet(t)]

MarkProcessing(t) ==
    /\ at[t] = "mark"
    /\ UpdateTaskLog(t)
    /\ Goto(t, "load")
    /\ UNCHANGED <<queueVars, current, rest, historyVars, used>>

\* Mutant: the workflow is not awaited.
NotAwaited(k) == FALSE

IsWorkflow(k) == k \in ScheduledTasks

HasWorkflow(k) == k \notin workflowless

\* The task is selected.  A scheduled workflow is executed, if the task names it:
\* if not, processJob returns without another statement.  For a task of another
\* type there is nothing to do.
LoadTask(t) ==
    /\ at[t] = "load"
    /\ LET k == task[current[t]]
       IN  \/ ~ IsWorkflow(k) /\ Goto(t, "complete")
           \/ IsWorkflow(k) /\ HasWorkflow(k) /\ Goto(t, "run")
           \/ IsWorkflow(k) /\ ~ HasWorkflow(k) /\ Goto(t, "resolved")
    /\ UNCHANGED <<queueVars, taskLog, current, rest, historyVars, used>>

WorkflowReturns(t) ==
    /\ at[t] = "run"
    /\ Goto(t, "complete")
    /\ executed' = executed \cup {current[t]}
    /\ UNCHANGED <<queueVars, taskLog, current, rest, started, failures, used>>

WorkflowThrows(t) ==
    /\ at[t] = "run"
    /\ Goto(t, "fail")
    /\ UNCHANGED <<queueVars, taskLog, current, rest, historyVars, used>>

MarkCompleted(t) ==
    /\ at[t] = "complete"
    /\ UpdateTaskLog(t)
    /\ Goto(t, "resolved")
    /\ UNCHANGED <<queueVars, current, rest, historyVars, used>>

MarkFailed(t) ==
    /\ at[t] = "fail"
    /\ UpdateTaskLog(t)
    /\ Goto(t, "rejected")
    /\ UNCHANGED <<queueVars, current, rest, historyVars, used>>

\* A statement of processJob rejects, executed or not.
StatementFails(t) ==
    /\ used.dbErrors < MaxDbErrors
    /\ used' = [used EXCEPT !.dbErrors = @ + 1]
    /\ at[t] \in {"mark", "load", "complete", "fail"}
    /\ UNCHANGED taskLog \/ UpdateTaskLog(t)
    /\ Goto(t, IF at[t] = "fail" THEN "rejected" ELSE "fail")
    /\ UNCHANGED <<queueVars, current, rest, historyVars>>

\* The tick goes on after processJob has returned ...
JobCompletes(t) ==
    /\ at[t] = "resolved"
    /\ StartNext(t, rest[t], [status EXCEPT ![current[t]] = "completed"])
    /\ UNCHANGED <<pushed, lost, task, workflowless, attempts, taskLog, failures, executed, used>>

\* Mutants: an attempt too few or too many before a job is given up.
GivenUpEarly(j) == attempts[j] >= MaxAttempts - 1
GivenUpLate(j) == attempts[j] > MaxAttempts

GivenUp(j) == attempts[j] >= MaxAttempts

\* ... or thrown: the attempt is counted or the job given up.  A job that is
\* not given up keeps the status it has.
JobFails(t) ==
    /\ at[t] = "rejected"
    /\ LET j == current[t]
       IN  /\ StartNext(t, rest[t], IF GivenUp(j) THEN [status EXCEPT ![j] = "failed"]
                                                  ELSE status)
           /\ attempts' = IF GivenUp(j) THEN attempts ELSE [attempts EXCEPT ![j] = @ + 1]
           /\ failures' = [failures EXCEPT ![j] = @ + 1]
    /\ UNCHANGED <<pushed, lost, task, workflowless, taskLog, executed, used>>

\* The process dies and another starts, with an empty array.
Crash ==
    /\ used.crashes < MaxCrashes
    /\ used' = [used EXCEPT !.crashes = @ + 1]
    /\ lost' = pushed
    /\ current' = [t \in Ticks |-> 0]
    /\ rest' = [t \in Ticks |-> {}]
    /\ at' = [t \in Ticks |-> "idle"]
    /\ UNCHANGED <<pushed, task, workflowless, status, attempts, taskLog, historyVars>>

-----------------------------------------------------------------------------
TickStep(t) ==
    \/ ProcessInMemoryJobs(t)
    \/ MarkProcessing(t)
    \/ LoadTask(t)
    \/ WorkflowReturns(t)
    \/ WorkflowThrows(t)
    \/ MarkCompleted(t)
    \/ MarkFailed(t)
    \/ JobCompletes(t)
    \/ JobFails(t)

Next ==
    \/ EnqueueJob
    \/ \E t \in Ticks : TickStep(t) \/ StatementFails(t)
    \/ Crash

Spec == Init /\ [][Next]_vars

\* The timer keeps firing, statements answer and workflows settle.
FairSpec == Spec /\ \A t \in Ticks : WF_vars(TickStep(t))

-----------------------------------------------------------------------------
(* Type invariant.  A job never counts more attempts than it may have, and  *)
(* a tick only has jobs that are in the array.                              *)
TypeOK ==
    /\ pushed \in 0 .. NumJobs /\ lost \in 0 .. pushed
    /\ task \in [Jobs -> Tasks] /\ workflowless \subseteq ScheduledTasks
    /\ status \in [Jobs -> JobStatuses]
    /\ attempts \in [Jobs -> 0 .. MaxAttempts]
    /\ taskLog \in [Tasks -> LogStatuses]
    /\ current \in [Ticks -> 0 .. NumJobs]
    /\ rest \in [Ticks -> SUBSET Jobs]
    /\ at \in [Ticks -> Labels]
    /\ started \in [Jobs -> Nat]
    /\ failures \in [Jobs -> Nat]
    /\ executed \in SUBSET Jobs
    /\ used \in [dbErrors : Nat, crashes : Nat]
    /\ \A t \in Ticks : /\ rest[t] \subseteq Queue
                        /\ IF at[t] = "idle" THEN current[t] = 0 ELSE current[t] \in Queue

(* Jobs are started in the order they were enqueued, although ticks overlap *)
(* and each works through a snapshot of its own: when a job has been        *)
(* started, so has every job pushed before it.                              *)
StartedInOrder ==
    \A j, k \in Queue : j < k /\ started[k] > 0 => started[j] > 0

(* A tick that begins takes up no job that another tick is running and none *)
(* that has been completed or given up, however many ticks are under way: a *)
(* job is only run beside itself, or once more after its end, by a tick that *)
(* had it in its snapshot before.                                           *)
RunningNotTaken ==
    [][ \A t \in Ticks : at[t] = "idle" /\ at'[t] # "idle" =>
            \A j \in rest'[t] \cup {current'[t]} :
                /\ status[j] \notin {"completed", "failed"}
                /\ \A u \in Ticks : current[u] # j ]_vars

(* The attempts of a job count what processJob threw for it, up to          *)
(* maxAttempts, and a job is only given up when one more attempt than that  *)
(* has failed, however many ticks ran it.                                   *)
AttemptsCounted ==
    \A j \in Jobs :
        /\ attempts[j] = IF failures[j] <= MaxAttempts THEN failures[j] ELSE MaxAttempts
        /\ status[j] = "failed" => failures[j] > MaxAttempts

(* A scheduled workflow is only reported as completed when it was executed: *)
(* a job's status says so only when its own executeWorkflowById returned    *)
(* (which it also does when it skips a workflow that is running), the       *)
(* task's only when that of one of the task's jobs did.  A task that names   *)
(* no workflow is never reported as completed, but its job is.              *)
CompletedWasExecuted ==
    /\ \A j \in Jobs : status[j] = "completed" /\ task[j] \in ScheduledTasks
                         => j \in executed \/ task[j] \in workflowless
    /\ \A k \in ScheduledTasks : taskLog[k] = "completed"
                         => k \notin workflowless /\ \E j \in executed : task[j] = k

(* A task is not left as processing by a live process and a working         *)
(* database: some tick is still in processJob with a job of that task.  The *)
(* exception is a task that names no workflow, of which processJob reports    *)
(* neither success nor failure.                                             *)
LogNotAbandoned ==
    \A k \in Tasks \ workflowless : taskLog[k] = "processing" =>
        \/ used.dbErrors > 0 \/ used.crashes > 0
        \/ \E t \in Ticks : /\ at[t] \in {"load", "run", "complete", "fail"}
                            /\ task[current[t]] = k

(* Liveness: while the process lives, every job is started.                 *)
EveryJobStarts ==
    \A j \in Jobs : j \in Queue ~> started[j] > 0 \/ used.crashes > 0

-----------------------------------------------------------------------------
(* Refuted: "Retry Mechanism: Implements exponential backoff for failed     *)
(* jobs".  A job that still has attempts left does not stay for ever with   *)
(* a failed attempt behind it and no tick to run it.                        *)
AwaitsRetry(j) ==
    /\ j \in Queue /\ failures[j] \in 1 .. MaxAttempts
    /\ status[j] # "completed"
    /\ \A t \in Ticks : current[t] # j /\ j \notin rest[t]

FailedAttemptRetried == \A j \in Jobs : AwaitsRetry(j) ~> ~AwaitsRetry(j)

=============================================================================
