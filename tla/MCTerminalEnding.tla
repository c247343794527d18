-------------------------- MODULE MCTerminalEnding --------------------------
(* TerminalEnding on small instances: two deliveries of one job.           *)
EXTENDS TerminalEnding, TLC

Symmetry == Permutations(Run)
=============================================================================
