-------------------------- MODULE MCExecutionFence --------------------------
(* ExecutionFence on small instances: two worker processes.                *)
EXTENDS ExecutionFence, TLC

Symmetry == Permutations(Process)
=============================================================================
