---------------------------- MODULE CreditLedger ----------------------------
(***************************************************************************)
(* One tenant's credits: the gate that admits a run, the charge at its     *)
(* end, and the sweep that reports what credits did not cover.             *)
(*                                                                         *)
(* Admissions, charges, webhook deliveries and sweeps are transactions of  *)
(* different processes over the same ledger.  PostgreSQL runs them at READ *)
(* COMMITTED, so each statement sees what has committed by then, and only  *)
(* the two advisory locks order them: one admission of the tenant at a     *)
(* time, and one charge of a billed tenant at a time.                      *)
(***************************************************************************)
EXTENDS BillingEvents

CONSTANTS
  Job,           \* the runs the tenant may start
  Price,         \* what each run costs if it succeeds (credits_for_job)
  PerJob,        \* max(JOB_BASE_CREDITS, 1): what the gate holds back per run
  Metered,       \* the plans with an overage price
  Approver,      \* approvals that can be under way at once
  Sweeper,       \* sweeps that can overlap: Beat's, the operator's
  SweepBatch,    \* rows one sweep takes
  Poison         \* the runs whose report the provider always rejects

ASSUME PriceAssumption ==
  /\ Price \in [Job -> Nat \ {0}] /\ PerJob \in Nat \ {0}
  /\ IsFiniteSet(Job)
ASSUME SweepAssumption ==
  /\ Metered \subseteq Plans /\ Poison \subseteq Job
  /\ SweepBatch \in Nat /\ Cardinality(Poison) < SweepBatch

VARIABLES
  run,           \* per run: new, active, parked, or ended
  gated,         \* the runs the gate holds credits back for
  admission,     \* per approval: how far its transaction is, what it has read
  charge,        \* per run: how far its terminal transaction is, what it read
  charged,       \* the runs with a debit in the ledger
  overage,       \* per debit, the part the plan bills
  ledger,        \* per debit, its place in the ledger
  stamped,       \* the debits with metered_at set
  sweep,         \* per sweep: the rows it has still to report, and those it did
  accepted,      \* the idempotency keys the provider has seen
  meter,         \* per key, what the provider's meter has counted
  unbilled,      \* history: credits debited while no plan billed the tenant
  excess         \* history: credits debited beyond what the gate held back

runVars == <<run, gated, admission>>
chargeVars == <<charge, charged, overage, ledger, unbilled, excess>>
sweepVars == <<stamped, sweep, accepted, meter>>
vars == <<billingVars, runVars, chargeVars, sweepVars>>

Active == {j \in Job : run[j] = "active"}

NoSweep == [busy |-> FALSE, todo |-> {}, reported |-> {}]

Init ==
  /\ BillingInit
  /\ run = [j \in Job |-> "new"]
  /\ gated = {}
  /\ admission = [a \in Approver |-> [at |-> "idle", running |-> 0]]
  /\ charge = [j \in Job |-> [at |-> "none", funds |-> 0]]
  /\ charged = {}
  /\ overage = [j \in Job |-> 0]
  /\ ledger = [j \in Job |-> 0]
  /\ stamped = {}
  /\ sweep = [s \in Sweeper |-> NoSweep]
  /\ accepted = {}
  /\ meter = [j \in Job |-> 0]
  /\ unbilled = 0
  /\ excess = 0

----------------------------------------------------------------------------
(* spend_gate.admit, and the job created in its transaction.               *)

At(a, step) == admission' = [admission EXCEPT ![a].at = step]

ReadPlan(a) ==
  /\ admission[a].at = "idle"
  /\ At(a, IF PayingPlan(org) = None THEN "gate" ELSE "paying")
  /\ UNCHANGED <<billingVars, run, gated, chargeVars, sweepVars>>

\* Mutant of GateFree: approvals of one tenant do not wait for each other.
GateOpen == TRUE

\* No other approval holds the credit-admission lock.
GateFree == \A a \in Approver : admission[a].at \notin {"counted", "funded"}

CountRunning(a) ==
  /\ admission[a].at = "gate" /\ GateFree
  /\ admission' = [admission EXCEPT
       ![a] = [at |-> "counted", running |-> Cardinality(Active)]]
  /\ UNCHANGED <<billingVars, run, gated, chargeVars, sweepVars>>

Covered(running) == balance - running * PerJob >= PerJob

ReadBalance(a) ==
  /\ admission[a].at = "counted"
  /\ admission' = [admission EXCEPT ![a] =
       IF Covered(admission[a].running)
       THEN [at |-> "funded", running |-> 0]
       ELSE [at |-> "idle", running |-> 0]]
  /\ UNCHANGED <<billingVars, run, gated, chargeVars, sweepVars>>

CreateJob(a, j) ==
  /\ admission[a].at \in {"paying", "funded"}
  /\ run[j] = "new"
  /\ run' = [run EXCEPT ![j] = "active"]
  /\ gated' = IF admission[a].at = "funded" THEN gated \cup {j} ELSE gated
  /\ At(a, "idle")
  /\ UNCHANGED <<billingVars, chargeVars, sweepVars>>

\* The quota, or the session's geometry, refuses; or the request dies.
ApprovalRefused(a) ==
  /\ admission[a].at # "idle"
  /\ admission' = [admission EXCEPT ![a] = [at |-> "idle", running |-> 0]]
  /\ UNCHANGED <<billingVars, run, gated, chargeVars, sweepVars>>

----------------------------------------------------------------------------
(* A run's life, and charge_for_job inside its terminal transaction.       *)

Unsettled(j) == charge[j].at = "none"

\* Failed or cancelled, running or parked: nothing is charged.
EndUncharged(j) ==
  /\ run[j] \in {"active", "parked"} /\ Unsettled(j)
  /\ run' = [run EXCEPT ![j] = "ended"]
  /\ gated' = gated \ {j}
  /\ UNCHANGED <<billingVars, admission, chargeVars, sweepVars>>

\* A parked run is not counted as running; its re-run is not admitted again.
Park(j) ==
  /\ run[j] = "active" /\ Unsettled(j)
  /\ run' = [run EXCEPT ![j] = "parked"]
  /\ gated' = gated \ {j}
  /\ UNCHANGED <<billingVars, admission, chargeVars, sweepVars>>

Rerun(j) ==
  /\ run[j] = "parked"
  /\ run' = [run EXCEPT ![j] = "active"]
  /\ UNCHANGED <<billingVars, gated, admission, chargeVars, sweepVars>>

Billable(row) == row.customer /\ PayingPlan(row) \in Metered

ChargeReadsPlan(j) ==
  /\ run[j] = "active" /\ Unsettled(j)
  /\ charge' = [charge EXCEPT
       ![j].at = IF Billable(org) THEN "billed" ELSE "free"]
  /\ UNCHANGED <<billingVars, runVars, charged, overage, ledger, unbilled,
                 excess, sweepVars>>

\* Mutant of LedgerFree: two endings of one tenant read the same balance.
LedgerOpen == TRUE

\* No other charge of the tenant holds the credit-ledger lock.
LedgerFree == \A j \in Job : charge[j].at # "locked"

ChargeLocks(j) ==
  /\ charge[j].at = "billed" /\ LedgerFree
  /\ charge' = [charge EXCEPT ![j] = [at |-> "locked", funds |-> balance]]
  /\ UNCHANGED <<billingVars, runVars, charged, overage, ledger, unbilled,
                 excess, sweepVars>>

Positive(n) == IF n > 0 THEN n ELSE 0
Least(a, b) == IF a < b THEN a ELSE b

\* _overage_of: what the credits there were do not pay.
OverageOf(j) ==
  IF charge[j].at = "locked"
  THEN Price[j] - Least(Positive(charge[j].funds), Price[j])
  ELSE 0

\* The debit of the price and the refund of the overage.
Spent(j) == Price[j] - OverageOf(j)

\* The debit, the refund and the run's status, in one transaction.
ChargeCommits(j) ==
  LET over == OverageOf(j)
      spent == Spent(j)
      reserved == IF j \in gated THEN PerJob ELSE 0
  IN /\ charge[j].at \in {"free", "locked"}
     /\ run' = [run EXCEPT ![j] = "ended"]
     /\ gated' = gated \ {j}
     /\ charge' = [charge EXCEPT ![j] = [at |-> "none", funds |-> 0]]
     /\ charged' = charged \cup {j}
     /\ overage' = [overage EXCEPT ![j] = over]
     /\ ledger' = [ledger EXCEPT ![j] = Cardinality(charged)]
     /\ balance' = balance - spent
     /\ unbilled' = unbilled + IF charge[j].at = "free" THEN spent ELSE 0
     /\ excess' = excess + Positive(spent - reserved)
     /\ UNCHANGED <<org, provider, sessions, events, claimed, handler, grants,
                    admission, sweepVars>>

\* _charge_fail_open: the savepoint rolls back, and the lock with it; the run
\* succeeds uncharged.
ChargeFailsOpen(j) ==
  /\ ~Unsettled(j)
  /\ charge' = [charge EXCEPT ![j] = [at |-> "none", funds |-> 0]]
  /\ run' = [run EXCEPT ![j] = "ended"]
  /\ gated' = gated \ {j}
  /\ UNCHANGED <<billingVars, admission, charged, overage, ledger, unbilled,
                 excess, sweepVars>>

\* The terminal transaction is lost with its process; the run goes on.
EndingLost(j) ==
  /\ ~Unsettled(j)
  /\ charge' = [charge EXCEPT ![j] = [at |-> "none", funds |-> 0]]
  /\ UNCHANGED <<billingVars, runVars, charged, overage, ledger, unbilled,
                 excess, sweepVars>>

----------------------------------------------------------------------------
(* report_pending_usage.                                                   *)

Pending == {j \in Job : overage[j] > 0 /\ j \notin stamped}

\* The oldest rows, as many as one sweep takes.
Batch ==
  {j \in Pending :
     Cardinality({k \in Pending : ledger[k] < ledger[j]}) < SweepBatch}

SweepStarts(s) ==
  /\ ~sweep[s].busy /\ Pending # {}
  /\ sweep' = [sweep EXCEPT ![s] =
       [busy |-> TRUE, todo |-> Batch, reported |-> {}]]
  /\ UNCHANGED <<billingVars, runVars, chargeVars, stamped, accepted, meter>>

\* The rows are gone through oldest first.
NextRow(s, j) ==
  j \in sweep[s].todo /\ \A k \in sweep[s].todo : ledger[j] <= ledger[k]

\* Mutant of Count: every call is a new meter event.
CountAlways(j) == meter' = [meter EXCEPT ![j] = @ + overage[j]]

\* The key is the ledger row's id: a repeated one is replayed, not added.
Count(j) ==
  meter' = IF j \in accepted THEN meter
           ELSE [meter EXCEPT ![j] = @ + overage[j]]

SweepReports(s, j) ==
  /\ NextRow(s, j) /\ j \notin Poison
  /\ Count(j)
  /\ accepted' = accepted \cup {j}
  /\ sweep' = [sweep EXCEPT ![s].todo = @ \ {j}, ![s].reported = @ \cup {j}]
  /\ UNCHANGED <<billingVars, runVars, chargeVars, stamped>>

\* The provider counted the event, and the call timed out.
AnswerLost(s, j) ==
  /\ NextRow(s, j) /\ j \notin Poison
  /\ Count(j)
  /\ accepted' = accepted \cup {j}
  /\ sweep' = [sweep EXCEPT ![s].todo = @ \ {j}]
  /\ UNCHANGED <<billingVars, runVars, chargeVars, stamped>>

\* Mutant of Skipped: a row that cannot be reported stops the sweep.
StopSweep(todo, j) == {}

Skipped(todo, j) == todo \ {j}

\* Mutant of SweepSkips: a row that was not accepted is stamped all the same.
SkipsAndStamps(s, j) ==
  /\ NextRow(s, j)
  /\ sweep' = [sweep EXCEPT ![s].todo = @ \ {j}, ![s].reported = @ \cup {j}]
  /\ UNCHANGED <<billingVars, runVars, chargeVars, stamped, accepted, meter>>

SweepSkips(s, j) ==
  /\ NextRow(s, j)
  /\ sweep' = [sweep EXCEPT ![s].todo = Skipped(@, j)]
  /\ UNCHANGED <<billingVars, runVars, chargeVars, stamped, accepted, meter>>

SweepStamps(s) ==
  /\ sweep[s].busy /\ sweep[s].todo = {}
  /\ stamped' = stamped \cup sweep[s].reported
  /\ sweep' = [sweep EXCEPT ![s] = NoSweep]
  /\ UNCHANGED <<billingVars, runVars, chargeVars, accepted, meter>>

\* With rows left to report, or to stamp.
SweepDies(s) ==
  /\ sweep[s].todo # {} \/ ~(sweep[s].reported \subseteq stamped)
  /\ sweep' = [sweep EXCEPT ![s] = NoSweep]
  /\ UNCHANGED <<billingVars, runVars, chargeVars, stamped, accepted, meter>>

----------------------------------------------------------------------------

BillingStep ==
  BillingNext /\ UNCHANGED <<runVars, chargeVars, sweepVars>>

Next ==
  \/ BillingStep
  \/ \E a \in Approver :
       \/ ReadPlan(a) \/ CountRunning(a) \/ ReadBalance(a)
       \/ \E j \in Job : CreateJob(a, j)
       \/ ApprovalRefused(a)
  \/ \E j \in Job :
       \/ EndUncharged(j) \/ Park(j) \/ Rerun(j)
       \/ ChargeReadsPlan(j) \/ ChargeLocks(j) \/ ChargeCommits(j)
       \/ ChargeFailsOpen(j) \/ EndingLost(j)
  \/ \E s \in Sweeper :
       \/ SweepStarts(s)
       \/ \E j \in Job : SweepReports(s, j) \/ AnswerLost(s, j) \/ SweepSkips(s, j)
       \/ SweepStamps(s) \/ SweepDies(s)

Spec == Init /\ [][Next]_vars

\* The schedule runs a sweep again and again, and it goes through its rows;
\* no row's call fails every time, and sweeps do not die for ever.
SweepFairness ==
  \A s \in Sweeper :
    /\ WF_vars(SweepStarts(s)) /\ WF_vars(SweepStamps(s))
    /\ WF_vars(\E j \in Job : SweepSkips(s, j))
    /\ \A j \in Job : SF_vars(SweepReports(s, j))
    /\ <>[][~SweepDies(s)]_vars

FairSpec == Spec /\ SweepFairness

----------------------------------------------------------------------------
(* What must hold of the tenant's credits.                                 *)

Step == {"idle", "gate", "counted", "funded", "paying"}
Ending == {"none", "free", "billed", "locked"}
Sweep == [busy : BOOLEAN, todo : SUBSET Job, reported : SUBSET Job]

\* Type correctness.  A row under report or stamped is an overage of the
\* ledger, and the credits held back are those of active runs.
CreditTypeOK ==
  /\ BillingTypeOK
  /\ run \in [Job -> {"new", "active", "parked", "ended"}]
  /\ gated \subseteq Active
  /\ admission \in [Approver -> [at : Step, running : Nat]]
  /\ charge \in [Job -> [at : Ending, funds : Int]]
  /\ charged \subseteq Job
  /\ overage \in [Job -> Nat]
  /\ ledger \in [Job -> Nat]
  /\ stamped \subseteq Job
  /\ sweep \in [Sweeper -> Sweep]
  /\ accepted \subseteq Job
  /\ meter \in [Job -> Nat]
  /\ unbilled \in Nat /\ excess \in Nat

\* spend_gate.admit: however approvals, endings, grants and plan changes
\* interleave, the balance covers the base charge of every run the gate let
\* in.  What may take it lower is only what the gate cannot see: the minutes
\* of a run, and the charges of runs a plan or a review let in.
GateHoldsEnoughBack == balance + excess >= PerJob * Cardinality(gated)

\* charge_for_job, metering_service.py:91: a subscriber's balance bottoms out
\* at zero.  Charges a plan bills never spend the same credits twice: a
\* balance below zero is the doing of charges no plan billed.
BilledChargesStopAtZero == balance + unbilled >= 0

\* report_pending_usage: a row with metered_at set has been counted by the
\* provider, whatever was lost, skipped or retried, so no charge is lost.
StampedIsCounted == \A j \in stamped : meter[j] = overage[j]

\* The tenant's account: each run charged once and in full, and what credits
\* did not pay counted once by the meter.
Account == INSTANCE CreditContract WITH
  credits <- balance, billed <- meter,
  due <- [j \in Job |-> IF j \in accepted THEN 0 ELSE overage[j]]

\* The admissions, charges, deliveries and sweeps together keep the account.
KeepsTheAccount == Account!AccountSpec

\* report_pending_usage, runtime/meter_sweep.main: every overage the provider
\* would take is stamped in the end, with rejected rows in front of it and
\* sweeps that fail, die or overlap.
OverageIsMetered ==
  \A j \in Job \ Poison : overage[j] > 0 ~> j \in stamped
=============================================================================
