--------------------------- MODULE CreditContract ---------------------------
(***************************************************************************)
(* What a tenant's account promises, whoever charges, grants and reports,  *)
(* in whatever order, and however often a report is retried.               *)
(*                                                                         *)
(* A run is charged at most once.  Its whole price is paid, part from the  *)
(* credits at once and the rest in money: that rest is due until the       *)
(* provider's meter bills it, exactly once.  Nothing else lowers the       *)
(* balance or reaches the meter.                                           *)
(***************************************************************************)
EXTENDS Integers

CONSTANTS Job, Price

VARIABLES
  credits,    \* the balance
  charged,    \* the runs that have been charged
  due,        \* per run, what is still to be billed
  billed      \* per run, what the meter has billed

accountVars == <<credits, charged, due, billed>>

AccountInit ==
  /\ credits \in Nat
  /\ charged = {}
  /\ due = [j \in Job |-> 0]
  /\ billed = [j \in Job |-> 0]

Grant == credits' > credits /\ UNCHANGED <<charged, due, billed>>

Charge(j) ==
  /\ j \notin charged
  /\ charged' = charged \cup {j}
  /\ due' = [due EXCEPT ![j] = due'[j]]
  /\ due'[j] \in 0..Price[j]
  /\ credits' = credits - (Price[j] - due'[j])
  /\ UNCHANGED billed

Bill(j) ==
  /\ due[j] > 0
  /\ due' = [due EXCEPT ![j] = 0]
  /\ billed' = [billed EXCEPT ![j] = due[j]]
  /\ UNCHANGED <<credits, charged>>

AccountNext == Grant \/ \E j \in Job : Charge(j) \/ Bill(j)

AccountSpec == AccountInit /\ [][AccountNext]_accountVars

\* Whatever is retried, a run's bill and what is still due of it are one part
\* of its price: never both, never more than the price, and nothing at all
\* before the run is charged.
BilledWithinPrice ==
  /\ due \in [Job -> Nat] /\ billed \in [Job -> Nat]
  /\ \A j \in Job :
       /\ due[j] + billed[j] <= Price[j]
       /\ due[j] = 0 \/ billed[j] = 0
       /\ j \notin charged => due[j] + billed[j] = 0
=============================================================================
