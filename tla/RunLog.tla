------------------------------- MODULE RunLog -------------------------------
(***************************************************************************)
(* What the rows of task_logs promise a reader: a run appears as pending,   *)
(* its status changes only while an attempt at it is under way, and it is   *)
(* reported as completed only after its work has been done.  Attempts may   *)
(* overlap, and an attempt may end, or its process die, without a report.   *)
(***************************************************************************)
EXTENDS Integers

CONSTANTS
    Runs,       \* the rows
    WorkRuns    \* those whose completion stands for work: scheduled workflows

VARIABLES
    log,    \* what each row says, "absent" before it is inserted
    open,   \* how many attempts at each run are under way
    done    \* the runs whose work some attempt has done

vars == <<log, open, done>>

Reports == {"processing", "completed", "failed"}

Init ==
    /\ log = [k \in Runs |-> "absent"]
    /\ open = [k \in Runs |-> 0]
    /\ done = {}

\* The row is inserted.
Record(k) ==
    /\ log[k] = "absent"
    /\ log' = [log EXCEPT ![k] = "pending"]
    /\ UNCHANGED <<open, done>>

\* An attempt begins, and may say so.
Begin(k) ==
    /\ log[k] # "absent"
    /\ open' = [open EXCEPT ![k] = @ + 1]
    /\ log' \in {log, [log EXCEPT ![k] = "processing"]}
    /\ UNCHANGED done

\* An attempt does the work.
Work(k) ==
    /\ open[k] > 0
    /\ done' = done \cup {k}
    /\ UNCHANGED <<log, open>>

\* An attempt reports, and may end with the report.
Report(k, outcome) ==
    /\ open[k] > 0
    /\ outcome = "completed" /\ k \in WorkRuns => k \in done
    /\ log' = [log EXCEPT ![k] = outcome]
    /\ open' \in {open, [open EXCEPT ![k] = @ - 1]}
    /\ UNCHANGED done

\* An attempt ends without a report.
GiveUp(k) ==
    /\ open[k] > 0
    /\ open' = [open EXCEPT ![k] = @ - 1]
    /\ UNCHANGED <<log, done>>

\* All attempts end with their process, which may leave rows for runs that it
\* did not live to begin.
Crash ==
    /\ open' = [k \in Runs |-> 0]
    /\ \E S \in SUBSET {k \in Runs : log[k] = "absent"} :
          log' = [k \in Runs |-> IF k \in S THEN "pending" ELSE log[k]]
    /\ UNCHANGED done

Next ==
    \/ \E k \in Runs : \/ Record(k) \/ Begin(k) \/ Work(k) \/ GiveUp(k)
                       \/ \E outcome \in {"completed", "failed"} : Report(k, outcome)
    \/ Crash

Spec == Init /\ [][Next]_vars

=============================================================================
