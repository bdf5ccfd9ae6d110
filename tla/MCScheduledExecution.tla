----------------------- MODULE MCScheduledExecution -----------------------
(* A small instance of ScheduledExecution for TLC.                          *)
EXTENDS ScheduledExecution

\* No step is retried: a failure of a step is a failure of the workflow.
NoRetries == [s \in 0 .. NumSteps - 1 |-> 0]
=============================================================================
