--------------------------- MODULE WorkflowService ---------------------------
(***************************************************************************)
(* One row of the workflows table and everything that executes or edits it *)
(* (src/services/workflowService.ts): concurrent jobs that call            *)
(* executeWorkflowById, which calls runWorkflow once or twice, the routes   *)
(* that reset the workflow or configure its notifications, and its          *)
(* deletion.  Statements name their row by id and touch no other, so one    *)
(* row stands for all of them.                                              *)
(*                                                                         *)
(* Each SQL statement is one step; between two statements of one job (an    *)
(* await) every other actor may run.  Steps are numbered from 0 as in the   *)
(* code.  The time in lockedAt is kept as its age.                          *)
(***************************************************************************)
EXTENDS Integers, FiniteSets

CONSTANTS
    Runners,       \* jobs that may be inside executeWorkflowById at a time
    Clients,       \* requests that may be configuring notifications at a time
    NumSteps,      \* steps.length
    MaxRetries,    \* maxRetries of each step; 0 when it or retries is not set
    MaxCrashes,    \* bound: crashes of a process under a job
    MaxDbErrors,   \* bound: statements that fail or whose reply is lost
    MaxResets,     \* bound: calls of resetWorkflow
    MayDelete      \* whether deleteWorkflow may be called

Steps == 0 .. NumSteps - 1

ASSUME WorkflowAssumption ==
    /\ NumSteps \in Nat \ {0}          \* createWorkflow refuses an empty list
    /\ MaxRetries \in [Steps -> Nat]
    /\ MaxCrashes \in Nat /\ MaxDbErrors \in Nat /\ MaxResets \in Nat
    /\ MayDelete \in BOOLEAN

VARIABLES
    exists,     \* whether the row is in the table
    row,        \* the columns of the row
    pc,         \* where each runner is: the statement or call it awaits
    local,      \* what each runner holds in its own variables
    request,    \* what each configuring request has read, while it is in flight
    performed,  \* history: the steps whose handler has ever succeeded
    lapsed,     \* history: runners at work whose lock was released by a statement
    used        \* how much of each bound has been used

vars == <<exists, row, pc, local, request, performed, lapsed, used>>

-----------------------------------------------------------------------------
Statuses == {"pending", "running", "paused", "failed", "completed"}

\* lockedAt against now: less than five minutes old, or older (also never set).
\* The backoff that a failure writes there is never read: the row is unlocked.
Ages == {"fresh", "stale"}

Row == [status : Statuses, locked : BOOLEAN, lockedAt : Ages,
        currentStep : 0 .. NumSteps, retries : [Steps -> Nat],
        results : SUBSET Steps]    \* context: the steps whose result it holds

Local == [call : 1 .. 2, currentStep : 0 .. NumSteps, retries : [Steps -> Nat],
          results : SUBSET Steps]

\* The row as createWorkflow leaves it.
CreatedRow == [status |-> "pending", locked |-> FALSE, lockedAt |-> "stale",
               currentStep |-> 0, retries |-> [s \in Steps |-> 0],
               results |-> {}]

Blank == [call |-> 1, currentStep |-> 0, retries |-> [s \in Steps |-> 0],
          results |-> {}]

NoRequest == [active |-> FALSE, results |-> {}]

Labels == {"idle",         \* not in a job
           "read",         \* runWorkflow: about to select the row
           "lock",         \* about to lock it
           "handler",      \* awaiting the handler of the current step
           "store",        \* about to store the step's result
           "stepError",    \* about to store the step's failure
           "finish",       \* all steps done: about to mark it completed
           "unlock"}       \* outer catch: about to clear the lock

\* Between taking the lock and the statement that is to release it.
AtWork == {"handler", "store", "stepError", "finish"}

-----------------------------------------------------------------------------
(* What each statement writes.  The UPDATEs after the lock have the id as   *)
(* their whole WHERE clause: none asks who holds the lock.                  *)

LockedRow == [row EXCEPT !.locked = TRUE, !.lockedAt = "fresh",
                         !.status = "running"]

\* Mutant: without the condition on locked.
CanLockAlways == exists

\* WHERE id = ... AND locked = false.
CanLock == exists /\ ~row.locked

LockStatement == IF CanLock THEN LockedRow ELSE row

\* Mutants: off by one either way.
AllDoneLate(step) == step > NumSteps
AllDoneEarly(step) == step >= NumSteps - 1

AllDone(step) == step >= NumSteps

\* Mutant: the context is replaced by the result, not merged with it.
StoredRowForgets(r) ==
    LET step == local[r].currentStep
    IN  [row EXCEPT !.currentStep = step + 1,
                    !.results = {step},
                    !.status = IF AllDone(step + 1) THEN "completed" ELSE "paused",
                    !.locked = FALSE]

StoredRow(r) ==
    LET step == local[r].currentStep
    IN  [row EXCEPT !.currentStep = step + 1,
                    !.results = local[r].results \cup {step},
                    !.status = IF AllDone(step + 1) THEN "completed" ELSE "paused",
                    !.locked = FALSE]

\* Mutant: one retry too many.
MayRetryOnce(step, retries) == retries[step] <= MaxRetries[step]

MayRetry(step, retries) == retries[step] < MaxRetries[step]

\* Mutants: a failed step is passed over, the whole workflow starts again, the
\* lock is kept until the retry.
FailedRowSkips(r) ==
    [row EXCEPT !.status = "paused", !.locked = FALSE,
                !.currentStep = local[r].currentStep + 1]

FailedRowRewinds(r) ==
    [row EXCEPT !.status = "paused", !.locked = FALSE, !.currentStep = 0]

FailedRowKeepsLock(r) ==
    [row EXCEPT !.status = "paused",
                !.retries = [local[r].retries EXCEPT ![local[r].currentStep] = @ + 1]]

FailedRow(r) ==
    LET step == local[r].currentStep
        retry == MayRetry(step, local[r].retries)
    IN  [row EXCEPT !.retries = IF retry THEN [local[r].retries EXCEPT ![step] = @ + 1]
                                         ELSE local[r].retries,
                    !.status = IF retry THEN "paused" ELSE "failed",
                    !.locked = FALSE]

FinishedRow == [row EXCEPT !.status = "completed", !.locked = FALSE]

UnlockedRow == [row EXCEPT !.locked = FALSE]

\* The row after the statement runner r is about to issue.
Written(r) ==
    CASE pc[r] = "lock"      -> LockStatement
      [] pc[r] = "store"     -> StoredRow(r)
      [] pc[r] = "stepError" -> FailedRow(r)
      [] pc[r] = "finish"    -> FinishedRow
      [] pc[r] = "unlock"    -> UnlockedRow
      [] OTHER               -> row

\* An UPDATE of a deleted row changes nothing.
Update(new) == row' = IF exists THEN new ELSE row

\* The lock a runner took lapses when a statement clears it (or the row is
\* gone) and the runner goes on working; it ends when the runner stops.
NoteLapses ==
    lapsed' = {q \in Runners : /\ pc'[q] \in AtWork
                               /\ \/ q \in lapsed
                                  \/ row.locked /\ ~row'.locked
                                  \/ exists /\ ~exists'}

Goto(r, label) == pc' = [pc EXCEPT ![r] = label]

\* runWorkflow and executeWorkflowById end, by return or by throw.
Leave(r) == Goto(r, "idle") /\ local' = [local EXCEPT ![r] = Blank]

-----------------------------------------------------------------------------
Init ==
    /\ exists = TRUE
    /\ row = CreatedRow
    /\ pc = [r \in Runners |-> "idle"]
    /\ local = [r \in Runners |-> Blank]
    /\ request = [c \in Clients |-> NoRequest]
    /\ performed = {}
    /\ lapsed = {}
    /\ used = [crashes |-> 0, dbErrors |-> 0, resets |-> 0]

\* A job starts: getWorkflow, then the check that skips a workflow that is
\* running or locked.  A skip, or a workflow not found, ends the job at once
\* and changes nothing.
ExecuteWorkflowById(r) ==
    /\ pc[r] = "idle"
    /\ exists
    /\ row.status # "running" /\ ~row.locked
    /\ Goto(r, "read")
    /\ UNCHANGED <<exists, row, local, request, performed, lapsed, used>>

\* runWorkflow selects the row and decides: not found or freshly locked is an
\* error, a finished workflow is returned as it is, anything else (an unlocked
\* row, a lock that has gone stale) goes on to lock it.
ReadWorkflow(r) ==
    /\ pc[r] = "read"
    /\ \/ /\ ~exists \/ (row.locked /\ row.lockedAt # "stale")
          /\ Goto(r, "unlock") /\ local' = [local EXCEPT ![r] = Blank]
       \/ /\ exists /\ ~(row.locked /\ row.lockedAt # "stale")
          /\ row.status \in {"completed", "failed"}
          /\ Leave(r)
       \/ /\ exists /\ ~(row.locked /\ row.lockedAt # "stale")
          /\ row.status \notin {"completed", "failed"}
          /\ Goto(r, "lock") /\ UNCHANGED local
    /\ UNCHANGED <<exists, row, request, performed, lapsed, used>>

\* The conditional UPDATE takes the lock only of an unlocked row, and looks at
\* nothing else; the returned row is the snapshot the rest of the call uses.
LockWorkflow(r) ==
    /\ pc[r] = "lock"
    /\ Update(LockStatement)
    /\ IF CanLock
       THEN /\ Goto(r, IF AllDone(row.currentStep) THEN "finish" ELSE "handler")
            /\ local' = [local EXCEPT ![r] =
                   [call |-> local[r].call, currentStep |-> row.currentStep,
                    retries |-> row.retries, results |-> row.results]]
       ELSE Goto(r, "unlock") /\ local' = [local EXCEPT ![r] = Blank]
    /\ UNCHANGED <<exists, request, performed, used>>
    /\ NoteLapses

\* The handler of the current step resolves.
HandlerReturns(r) ==
    /\ pc[r] = "handler"
    /\ Goto(r, "store")
    /\ performed' = performed \cup {local[r].currentStep}
    /\ UNCHANGED <<exists, row, local, request, lapsed, used>>

\* It rejects, or there is no handler for the step's type.
HandlerThrows(r) ==
    /\ pc[r] = "handler"
    /\ Goto(r, "stepError")
    /\ UNCHANGED <<exists, row, local, request, performed, lapsed, used>>

\* executeWorkflowById calls runWorkflow a second time when the first call
\* returned a paused workflow.
AfterCall(r, status) ==
    IF exists /\ local[r].call = 1 /\ status = "paused"
    THEN Goto(r, "read") /\ local' = [local EXCEPT ![r] = [Blank EXCEPT !.call = 2]]
    ELSE Leave(r)

\* The UPDATE that advances the cursor, merges the result into the context
\* read at the lock and releases the lock.
StoreResult(r) ==
    /\ pc[r] = "store"
    /\ Update(StoredRow(r))
    /\ AfterCall(r, StoredRow(r).status)
    /\ UNCHANGED <<exists, request, performed, used>>
    /\ NoteLapses

\* The UPDATE of the inner catch: a retry is counted and the workflow paused,
\* or it has failed.
StoreFailure(r) ==
    /\ pc[r] = "stepError"
    /\ Update(FailedRow(r))
    /\ AfterCall(r, FailedRow(r).status)
    /\ UNCHANGED <<exists, request, performed, used>>
    /\ NoteLapses

\* The branch for a cursor past the last step (and the only one that sends the
\* completion email, whose failure it swallows).
FinishWorkflow(r) ==
    /\ pc[r] = "finish"
    /\ Update(FinishedRow)
    /\ Leave(r)
    /\ UNCHANGED <<exists, request, performed, used>>
    /\ NoteLapses

\* The outer catch clears the lock whatever the error was, then rethrows.
UnlockAfterError(r) ==
    /\ pc[r] = "unlock"
    /\ Update(UnlockedRow)
    /\ Leave(r)
    /\ UNCHANGED <<exists, request, performed, used>>
    /\ NoteLapses

\* A statement rejects: it was not executed, or it was and the reply is lost.
\* A failed store lands in the inner catch, a failed unlock is swallowed, any
\* other lands in the outer catch.
StatementFails(r) ==
    /\ used.dbErrors < MaxDbErrors
    /\ used' = [used EXCEPT !.dbErrors = @ + 1]
    /\ pc[r] \in {"read", "lock", "store", "stepError", "finish", "unlock"}
    /\ \/ UNCHANGED row
       \/ Update(Written(r))
    /\ \/ pc[r] = "store" /\ Goto(r, "stepError") /\ UNCHANGED local
       \/ pc[r] = "unlock" /\ Leave(r)
       \/ /\ pc[r] \notin {"store", "unlock"}
          /\ Goto(r, "unlock") /\ local' = [local EXCEPT ![r] = Blank]
    /\ UNCHANGED <<exists, request, performed>>
    /\ NoteLapses

\* The process dies under a job; another process may run the next one.
Crash(r) ==
    /\ used.crashes < MaxCrashes
    /\ used' = [used EXCEPT !.crashes = @ + 1]
    /\ pc[r] # "idle"
    /\ Leave(r)
    /\ lapsed' = lapsed \ {r}
    /\ UNCHANGED <<exists, row, request, performed>>

\* lockedAt grows older.
TimePasses ==
    /\ exists
    /\ row.lockedAt = "fresh"
    /\ row' = [row EXCEPT !.lockedAt = "stale"]
    /\ UNCHANGED <<exists, pc, local, request, performed, lapsed, used>>

\* resetWorkflow: the lock is cleared too; retries and context stay.
ResetWorkflow ==
    /\ exists
    /\ used.resets < MaxResets
    /\ used' = [used EXCEPT !.resets = @ + 1]
    /\ row' = [row EXCEPT !.currentStep = 0, !.status = "pending", !.locked = FALSE]
    /\ UNCHANGED <<exists, pc, local, request, performed>>
    /\ NoteLapses

DeleteWorkflow ==
    /\ MayDelete
    /\ exists
    /\ exists' = FALSE
    /\ UNCHANGED <<row, pc, local, request, performed, used>>
    /\ NoteLapses

\* configureWorkflowNotifications reads the context ...
ConfigureRead(c) ==
    /\ exists
    /\ ~request[c].active
    /\ request' = [request EXCEPT ![c] = [active |-> TRUE, results |-> row.results]]
    /\ UNCHANGED <<exists, row, pc, local, performed, lapsed, used>>

\* ... and later writes the whole of it back with notifyEmail added.
ConfigureWrite(c) ==
    /\ request[c].active
    /\ Update([row EXCEPT !.results = request[c].results])
    /\ request' = [request EXCEPT ![c] = NoRequest]
    /\ UNCHANGED <<exists, pc, local, performed, lapsed, used>>

-----------------------------------------------------------------------------
\* What a live process does for its job without a fault.
RunnerStep(r) ==
    \/ ExecuteWorkflowById(r)
    \/ ReadWorkflow(r)
    \/ LockWorkflow(r)
    \/ HandlerReturns(r)
    \/ HandlerThrows(r)
    \/ StoreResult(r)
    \/ StoreFailure(r)
    \/ FinishWorkflow(r)
    \/ UnlockAfterError(r)

Next ==
    \/ \E r \in Runners : RunnerStep(r) \/ StatementFails(r) \/ Crash(r)
    \/ \E c \in Clients : ConfigureRead(c) \/ ConfigureWrite(c)
    \/ TimePasses
    \/ ResetWorkflow
    \/ DeleteWorkflow

Spec == Init /\ [][Next]_vars

\* Jobs keep being started (the cron schedule fires again) and a process that
\* does not crash goes on with its job: statements answer and handlers settle.
FairSpec == Spec /\ \A r \in Runners : WF_vars(RunnerStep(r))

-----------------------------------------------------------------------------
(* Type invariant: every variable keeps the shape the code gives it.        *)
TypeOK ==
    /\ exists \in BOOLEAN
    /\ row \in Row
    /\ pc \in [Runners -> Labels]
    /\ local \in [Runners -> Local]
    /\ request \in [Clients -> [active : BOOLEAN, results : SUBSET Steps]]
    /\ performed \in SUBSET Steps
    /\ lapsed \in SUBSET Runners
    /\ used \in [crashes : Nat, dbErrors : Nat, resets : Nat]

HoldsLock(r) == pc[r] \in AtWork /\ r \notin lapsed

\* What runner r read when it took the lock is still what the row says.
SnapshotIsCurrent(r) ==
    /\ local[r].currentStep = row.currentStep
    /\ local[r].retries = row.retries

(* The lock column protects a runner as long as nobody clears it under the  *)
(* runner: it is then the only one at work, the row is locked and running,  *)
(* and the cursor and retry counts it works from are the row's.             *)
LockProtects ==
    \A r \in Runners : HoldsLock(r) =>
        /\ exists /\ row.locked /\ row.status = "running"
        /\ SnapshotIsCurrent(r)
        /\ \A q \in Runners : HoldsLock(q) => q = r

(* Steps are executed in order: whatever jobs, faults, resets and stolen    *)
(* locks do, a handler only starts when every earlier step has succeeded at *)
(* least once.                                                              *)
NoStepSkipped ==
    \A r \in Runners : pc[r] = "handler" =>
        \A s \in 0 .. local[r].currentStep - 1 : s \in performed

(* A workflow is reported completed only when the handler of every step has *)
(* succeeded, even when the last write came from a runner that had lost its *)
(* lock.                                                                    *)
CompletedOnlyWhenPerformed ==
    row.status = "completed" => \A s \in Steps : s \in performed

(* No step is retried more often than its maxRetries allows, although every *)
(* failure writes back the whole steps array of the runner's snapshot.      *)
RetriesBounded == \A s \in Steps : row.retries[s] <= MaxRetries[s]

(* The cursor goes back to 0 by a reset or forward by one; any other change *)
(* is made by a runner whose lock was released while it worked.             *)
CursorMovesUnderLock ==
    [][ row'.currentStep # row.currentStep =>
          \/ used'.resets = used.resets + 1 /\ row'.currentStep = 0
          \/ row'.currentStep = row.currentStep + 1 /\ row.status = "running"
          \/ \E r \in lapsed : pc[r] = "store" /\ pc'[r] # "store" ]_vars

(* A lock is only left behind by a crash or a failed statement: otherwise   *)
(* some runner is at work while the row is locked, although a runner may    *)
(* release another's lock and every error path has to release its own.      *)
LockHasWorker ==
    exists /\ row.locked =>
        \/ used.crashes > 0 \/ used.dbErrors > 0
        \/ \E r \in Runners : pc[r] \in AtWork

(* Liveness: while jobs keep coming and nothing crashes, a workflow that is *)
(* waiting to be run is eventually completed or failed (or deleted): jobs   *)
(* that get in each other's way never block it for good.                    *)
WorkflowSettles ==
    row.status \in {"pending", "paused"} ~>
        (row.status \in {"completed", "failed"} \/ ~exists)

(* Tasks run "in order, with the output of one task feeding into the next": *)
(* a handler gets a context with the result of every earlier step, although *)
(* every store rewrites the whole context from the runner's snapshot.  It   *)
(* holds while nobody configures notifications.                             *)
InputsComplete ==
    \A r \in Runners : pc[r] = "handler" =>
        0 .. local[r].currentStep - 1 \subseteq local[r].results

-----------------------------------------------------------------------------
(* What comments and documents of the repository say and the code does not  *)
(* do.  Each is refuted by a run of its own.                                *)

(* The lock keeps a second process out ("If we couldn't update (lock),      *)
(* another process might be running this"): at most one runner at work.     *)
LockIsExclusive ==
    \A q, r \in Runners : pc[q] \in AtWork /\ pc[r] \in AtWork => q = r

(* "If locked for more than 5 minutes, consider it stale and continue": a   *)
(* stale lock does not stay for ever while jobs keep coming.                *)
StaleLockTakenOver ==
    exists /\ row.locked /\ row.lockedAt = "stale" ~>
        ~(exists /\ row.locked /\ row.lockedAt = "stale")

=============================================================================
