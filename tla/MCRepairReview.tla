--------------------------- MODULE MCRepairReview ---------------------------
(* Model-checking instances of RepairReview.                               *)
EXTENDS RepairReview, TLC

\* Requests are told apart by nothing but who sent them.
Symmetry == Permutations(Client) \cup Permutations(Runner)
=============================================================================
