----------------------------- MODULE MCScheduler -----------------------------
(* Small instances of Scheduler for TLC.                                    *)
EXTENDS Scheduler, TLC

CallSymmetry == Permutations(Calls)
=============================================================================
