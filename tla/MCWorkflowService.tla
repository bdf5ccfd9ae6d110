------------------------- MODULE MCWorkflowService -------------------------
(* Small instances of WorkflowService for TLC.                              *)
EXTENDS WorkflowService, TLC

\* The first step may be retried once; a failure of another is final.
RetryFirstStep == [s \in Steps |-> IF s = 0 THEN 1 ELSE 0]

RunnerSymmetry == Permutations(Runners)
=============================================================================
