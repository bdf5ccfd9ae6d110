------------------------------ MODULE Scheduler ------------------------------
(***************************************************************************)
(* The cron scheduler of src/services/schedulerService.ts: the row of one   *)
(* schedule, the map activeSchedules from schedule ids to node-cron tasks,  *)
(* and the calls that keep the two in step.  Calls on different schedules   *)
(* share nothing, so one schedule stands for all of them.                   *)
(*                                                                         *)
(* A statement is sent, executed by the database, and answered, each at a   *)
(* time of its own; the answers that arrive in one read of the socket are   *)
(* handled together.  The code after an answer runs to its next await.  An  *)
(* await of stopSchedule, which waits for nothing, only queues the rest of  *)
(* the call behind the continuations that are already ready.                *)
(*                                                                         *)
(* What a task does when it fires (executeScheduledWorkflow) neither reads  *)
(* nor changes the state modelled here.                                     *)
(***************************************************************************)
EXTENDS Integers, Sequences

CONSTANTS
    Calls,         \* calls of createSchedule, updateSchedule and deleteSchedule
    Startup,       \* the call of initializeScheduler
    Crons,         \* cron expressions a row may hold
    ValidCrons,    \* those that cron.validate and cron.schedule accept
    MaxReplies,    \* bound: answers handled in one turn of the event loop
    MaxDbErrors,   \* bound: statements that fail or whose reply is lost
    MaxCrashes,    \* bound: deaths of the process
    MayCascade     \* whether the schedule's workflow may be deleted

ASSUME SchedulerAssumption ==
    /\ Startup \notin Calls
    /\ ValidCrons \subseteq Crons
    /\ MaxReplies \in Nat \ {0}
    /\ MaxDbErrors \in Nat /\ MaxCrashes \in Nat
    /\ MayCascade \in BOOLEAN

VARIABLES
    table,      \* whether the row is "absent" (not created), "present", "deleted"
    row,        \* its columns
    pc,         \* where each call is
    reply,      \* the rows its last statement returned: {} or {row}
    active,     \* the map: {} or {h}, h the call that created the task
    running,    \* the node-cron tasks that fire, each named by its creator
    ready,      \* the calls whose continuation is ready to run, in order
    disturbed,  \* history: what has happened besides calls one at a time
    used        \* how much of each bound has been used

rows  == <<table, row>>
tasks == <<active, running>>
vars  == <<rows, pc, reply, tasks, ready, disturbed, used>>

-----------------------------------------------------------------------------
Handlers == Calls \cup {Startup}

Row == [enabled : BOOLEAN, cron : Crons]

Labels == {"idle",      \* not called
           "insert", "find", "update", "delete", "select", "disable",
                        \* that statement is sent and not yet executed
           "inserted", "updated", "selected",
                        \* it is executed, the answer not yet handled
           "restart",   \* updateSchedule: awaiting stopSchedule
           "schedule",  \* startSchedule: awaiting stopSchedule
           "done"}      \* returned or thrown

\* Calls overlapped, a statement failed, the row was deleted with its workflow,
\* several answers were handled in one turn.
Disturbances == {"overlap", "failure", "cascade", "batch"}

Present == table = "present"

Busy(h) == pc[h] \notin {"idle", "done"}

Goto(h, label) == pc' = [pc EXCEPT ![h] = label]

\* The continuation that runs, runs to an await of something slow or the end;
\* or it awaits a stopSchedule and its rest goes to the end of the queue.
Leave(h, label) == Goto(h, label) /\ ready' = Tail(ready)

Yield(h, label) == Goto(h, label) /\ ready' = Append(Tail(ready), h)

\* Mutant: stopped, but left in the map.
StopTaskOnly == running' = running \ active /\ UNCHANGED active

\* stopSchedule of the active task.
StopTask == running' = running \ active /\ active' = {}

\* Mutant: the map gets an entry per call.
CreateTaskOfItsOwn(h) ==
    /\ active' = active \cup {h}
    /\ running' = running \cup {h}
    /\ Leave(h, "done")

\* cron.schedule and the map's set, or the catch that disables the row.
CreateTask(h) ==
    \E r \in reply[h] :
        IF r.cron \in ValidCrons
        THEN /\ active' = {h}
             /\ running' = running \cup {h}
             /\ Leave(h, "done")
        ELSE /\ Leave(h, "disable")
             /\ UNCHANGED tasks

\* Mutant: the old task is not looked for.
StartAnyway(h) == CreateTask(h)

StartSchedule(h) ==
    IF active # {} THEN StopTask /\ Yield(h, "schedule") ELSE CreateTask(h)

\* Mutant: the schedule is started whether it is enabled or not.
StartDisabled(h) == StartSchedule(h)

StartIfEnabled(h) ==
    \E r \in reply[h] :
        IF r.enabled THEN StartSchedule(h) ELSE Leave(h, "done") /\ UNCHANGED tasks

-----------------------------------------------------------------------------
(* What the statements do to the row.                                       *)

Insert == table' = "present" /\ row' \in {r \in Row : r.cron \in ValidCrons}

\* Any of the columns, or none; a new cron expression is validated before.
Update ==
    /\ UNCHANGED table
    /\ IF Present THEN row' \in {r \in Row : r.cron \in ValidCrons \cup {row.cron}}
                  ELSE UNCHANGED row

Delete == table' = (IF Present THEN "deleted" ELSE table) /\ UNCHANGED row

Disable ==
    /\ UNCHANGED table
    /\ row' = IF Present THEN [row EXCEPT !.enabled = FALSE] ELSE row

Statement(h) ==
    CASE pc[h] = "insert"  -> Insert
      [] pc[h] = "update"  -> Update
      [] pc[h] = "delete"  -> Delete
      [] pc[h] = "disable" -> Disable
      [] OTHER             -> UNCHANGED rows

-----------------------------------------------------------------------------
Init ==
    /\ table \in {"absent", "present"}
    /\ row \in Row
    /\ pc = [h \in Handlers |-> IF h = Startup THEN "select" ELSE "idle"]
    /\ reply = [h \in Handlers |-> {}]
    /\ active = {}
    /\ running = {}
    /\ ready = <<>>
    /\ disturbed = {}
    /\ used = [dbErrors |-> 0, crashes |-> 0]

\* A call comes in, once initializeScheduler has ended and the routes are
\* registered, and runs to its first statement.
Begin(h, label) ==
    /\ ready = <<>>
    /\ ~Busy(Startup)
    /\ pc[h] = "idle"
    /\ Goto(h, label)
    /\ disturbed' = IF \E g \in Handlers : Busy(g) THEN disturbed \cup {"overlap"}
                                                 ELSE disturbed
    /\ UNCHANGED <<rows, reply, ready, used>>

\* The id is new: this is the only call that creates the schedule.
CreateSchedule(h) ==
    /\ table = "absent"
    /\ \A g \in Handlers : pc[g] # "insert"
    /\ Begin(h, "insert")
    /\ UNCHANGED tasks

UpdateSchedule(h) == table # "absent" /\ Begin(h, "find") /\ UNCHANGED tasks

\* The task is stopped before the row is deleted.
DeleteSchedule(h) == table # "absent" /\ Begin(h, "delete") /\ StopTask

\* The database executes a statement.
InsertSchedule(h) ==
    /\ pc[h] = "insert"
    /\ Insert
    /\ reply' = [reply EXCEPT ![h] = {row'}]
    /\ Goto(h, "inserted")
    /\ UNCHANGED <<tasks, ready, disturbed, used>>

GetSchedule(h) ==
    /\ pc[h] = "find"
    /\ Goto(h, IF Present THEN "update" ELSE "done")
    /\ UNCHANGED <<rows, reply, tasks, ready, disturbed, used>>

UpdateRow(h) ==
    /\ pc[h] = "update"
    /\ Update
    /\ reply' = [reply EXCEPT ![h] = IF Present THEN {row'} ELSE {}]
    /\ Goto(h, "updated")
    /\ UNCHANGED <<tasks, ready, disturbed, used>>

DeleteRow(h) ==
    /\ pc[h] = "delete"
    /\ Delete
    /\ Goto(h, "done")
    /\ UNCHANGED <<reply, tasks, ready, disturbed, used>>

DisableRow(h) ==
    /\ pc[h] = "disable"
    /\ Disable
    /\ Goto(h, "done")
    /\ UNCHANGED <<reply, tasks, ready, disturbed, used>>

SelectEnabled(h) ==
    /\ pc[h] = "select"
    /\ reply' = [reply EXCEPT ![h] = IF Present /\ row.enabled THEN {row} ELSE {}]
    /\ Goto(h, "selected")
    /\ UNCHANGED <<rows, tasks, ready, disturbed, used>>

\* A statement rejects, executed or not, and the call throws.
StatementFails(h) ==
    /\ used.dbErrors < MaxDbErrors
    /\ used' = [used EXCEPT !.dbErrors = @ + 1]
    /\ pc[h] \in {"insert", "find", "update", "delete", "disable", "select"}
    /\ UNCHANGED rows \/ Statement(h)
    /\ Goto(h, "done")
    /\ disturbed' = disturbed \cup {"failure"}
    /\ UNCHANGED <<reply, tasks, ready>>

\* Answers arrive.
RepliesArrive ==
    /\ ready = <<>>
    /\ \E n \in 1 .. MaxReplies : \E s \in [1 .. n -> Handlers] :
          /\ \A i \in 1 .. n : pc[s[i]] \in {"inserted", "updated", "selected"}
          /\ \A i, j \in 1 .. n : s[i] = s[j] => i = j
          /\ ready' = s
          /\ disturbed' = IF n > 1 THEN disturbed \cup {"batch"} ELSE disturbed
    /\ UNCHANGED <<rows, pc, reply, tasks, used>>

\* The first continuation in the queue runs.
Runs(h) ==
    /\ ready # <<>>
    /\ h = Head(ready)
    /\ UNCHANGED <<rows, reply, disturbed, used>>

AfterInsert(h) == Runs(h) /\ pc[h] = "inserted" /\ StartIfEnabled(h)

AfterUpdate(h) ==
    /\ Runs(h)
    /\ pc[h] = "updated"
    /\ \/ reply[h] = {} /\ Leave(h, "done") /\ UNCHANGED tasks
       \/ reply[h] # {} /\ active # {} /\ StopTask /\ Yield(h, "restart")
       \/ reply[h] # {} /\ active = {} /\ StartIfEnabled(h)

AfterStop(h) == Runs(h) /\ pc[h] = "restart" /\ StartIfEnabled(h)

AfterStopInStart(h) == Runs(h) /\ pc[h] = "schedule" /\ CreateTask(h)

\* initializeScheduler disables a row whose cron expression is not valid.
AfterSelect(h) ==
    /\ Runs(h)
    /\ pc[h] = "selected"
    /\ \/ reply[h] = {} /\ Leave(h, "done") /\ UNCHANGED tasks
       \/ \E r \in reply[h] : r.cron \notin ValidCrons /\ Leave(h, "disable") /\ UNCHANGED tasks
       \/ \E r \in reply[h] : r.cron \in ValidCrons /\ StartSchedule(h)

\* The process dies; the next one calls initializeScheduler.
Crash ==
    /\ used.crashes < MaxCrashes
    /\ used' = [used EXCEPT !.crashes = @ + 1]
    /\ pc' = [h \in Handlers |-> IF h = Startup THEN "select"
                                 ELSE IF Busy(h) THEN "done" ELSE pc[h]]
    /\ reply' = [h \in Handlers |-> {}]
    /\ active' = {}
    /\ running' = {}
    /\ ready' = <<>>
    /\ disturbed' = {}
    /\ UNCHANGED rows

\* deleteWorkflow deletes the schedule's row too (ON DELETE CASCADE).
WorkflowDeleted ==
    /\ MayCascade
    /\ Present
    /\ table' = "deleted"
    /\ disturbed' = disturbed \cup {"cascade"}
    /\ UNCHANGED <<row, pc, reply, tasks, ready, used>>

-----------------------------------------------------------------------------
CallBegins(h) == CreateSchedule(h) \/ UpdateSchedule(h) \/ DeleteSchedule(h)

StatementExecutes(h) ==
    \/ InsertSchedule(h) \/ GetSchedule(h) \/ UpdateRow(h) \/ DeleteRow(h)
    \/ DisableRow(h) \/ SelectEnabled(h)

Continues(h) ==
    \/ AfterInsert(h) \/ AfterUpdate(h) \/ AfterStop(h) \/ AfterStopInStart(h)
    \/ AfterSelect(h)

Next ==
    \/ \E h \in Calls : CallBegins(h)
    \/ \E h \in Handlers : StatementExecutes(h) \/ StatementFails(h) \/ Continues(h)
    \/ RepliesArrive
    \/ Crash
    \/ WorkflowDeleted

Spec == Init /\ [][Next]_vars

-----------------------------------------------------------------------------
(* Type invariant.  The map has one entry at most, and a call that is ready *)
(* to run is in the queue once.                                             *)
TypeOK ==
    /\ table \in {"absent", "present", "deleted"}
    /\ row \in Row
    /\ pc \in [Handlers -> Labels]
    /\ reply \in [Handlers -> SUBSET Row]
    /\ active \in SUBSET Handlers
    /\ \A g, h \in active : g = h
    /\ running \in SUBSET Handlers
    /\ ready \in Seq(Handlers)
    /\ disturbed \in SUBSET Disturbances
    /\ used \in [dbErrors : Nat, crashes : Nat]
    /\ \A h \in Handlers : \A q, r \in reply[h] : q = r

(* Whatever calls overlap, the task in the map fires: no call stops a task  *)
(* that another has just put there and leaves the map pointing at it.       *)
MappedTaskRuns == active \subseteq running

(* As long as the event loop handles one answer in a turn, no call puts a   *)
(* task in the map over one that fires: however calls overlap, every task   *)
(* that fires can still be stopped.                                         *)
EveryTaskIsMapped == "batch" \notin disturbed => running \subseteq active

(* When calls do not overlap and no statement fails, the task that fires    *)
(* after each call is the one the row asks for: none for a disabled or a    *)
(* deleted schedule, one with the row's cron expression for an enabled one, *)
(* after a restart too.                                                     *)
TasksMatchRow ==
    disturbed = {} /\ (\A h \in Handlers : ~Busy(h)) =>
        /\ running = active
        /\ active # {} <=> Present /\ row.enabled
        /\ \A h \in active : reply[h] = {row}

-----------------------------------------------------------------------------
(* Refuted: deleteSchedule is to "Stop the schedule if it's active" and to  *)
(* "Delete the schedule from the database".  Once the row is deleted and    *)
(* every call has ended, no task fires for it.                              *)
DeletedIsStopped ==
    table = "deleted" /\ (\A h \in Handlers : ~Busy(h)) => running = {}

=============================================================================
