-------------------------- MODULE MCTaskExecution --------------------------
(* TaskExecution for TLC: which executions are scheduled, which clean up. *)
EXTENDS TaskExecutionInv, TLC

CONSTANTS sync, nightly, sweep, p1, p2

Symmetry == Permutations({p1, p2})
============================================================================
