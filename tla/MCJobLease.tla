----------------------------- MODULE MCJobLease -----------------------------
(* JobLease on small instances: two worker processes.                      *)
EXTENDS JobLease, TLC

Symmetry == Permutations(Process)
=============================================================================
