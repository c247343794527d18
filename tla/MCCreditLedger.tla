--------------------------- MODULE MCCreditLedger ---------------------------
(* CreditLedger on small instances: two runs, the first the cheaper one.   *)
EXTENDS CreditLedger, TLC

CONSTANTS j1, j2

PlansIncluded == [p \in Plans |-> 2]
Prices == (j1 :> 2) @@ (j2 :> 3)

Symmetry == Permutations(Approver) \cup Permutations(Sweeper)
              \cup Permutations(Handlers)
=============================================================================
