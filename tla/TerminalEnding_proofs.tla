------------------------ MODULE TerminalEnding_proofs -----------------------
(***************************************************************************)
(* What the ending of a job keeps, for any number of deliveries, parks and *)
(* faults.  DataInv speaks of what the transactions write; Planned is what *)
(* it needs to know of the runs: which status a finalizing run intends,    *)
(* and that a parked job's owner is the run that parked it - without which *)
(* a success could overtake a park and leave it open.                      *)
(***************************************************************************)
EXTENDS TerminalEnding, FiniteSetTheorems, SequenceTheorems, TLAPS

Ending == {"succeeded", "failed", "pending_review"}
OutboxRow == [key : Nat, says : Status, told : BOOLEAN]

Planned ==
  /\ pc \in [Run -> Places] /\ plan \in [Run -> Word]
  /\ \A r \in Run : pc[r] = "finalizing" => plan[r] \in Ending

DataInv ==
  /\ status \in Status /\ charged \in Nat
  /\ park \in [n : Nat, open : BOOLEAN] /\ outbox \in Seq(OutboxRow)
  /\ OutboxTellsTheRecord /\ ChargeFollowsSuccess /\ OpenParkIsUndecided

ParkedByOwner ==
  /\ status = "pending" => owner = None
  /\ \A r \in Run :
       status = "pending_review" /\ owner = r
         => /\ pc[r] # "claimed"
            /\ pc[r] = "finalizing" => plan[r] = "pending_review"

EndingInv == DataInv /\ Planned /\ ParkedByOwner

\* One step: the invariant is kept and a finished ending is left alone.
Kept == DataInv' /\ (status \in Terminal => UNCHANGED <<status, record, charged>>)

----------------------------------------------------------------------------
(* What the transactions keep.                                             *)

\* A step that leaves the record, charge, park and outbox alone keeps DataInv.
LEMMA UntouchedKept ==
  ASSUME DataInv, UNCHANGED <<status, record, charged, park, outbox>>
  PROVE  Kept
BY DEF Kept, DataInv, OutboxTellsTheRecord, ChargeFollowsSuccess, OpenParkIsUndecided

\* An unfinished job has nothing in the outbox under its own key, and has not
\* been charged.
LEMMA UnfinishedIsOpen ==
  ASSUME DataInv, status \notin Terminal
  PROVE  charged = 0 /\ \A i \in DOMAIN outbox : outbox[i].key # EndKey
BY DEF DataInv, OutboxTellsTheRecord, ChargeFollowsSuccess, Terminal

\* Moving an unfinished job, its outbox untouched, to a status that needs no
\* park of its own.
LEMMA MoveKept ==
  ASSUME DataInv, status \notin Terminal, status' \in Status,
         UNCHANGED <<charged, outbox>>,
         park' \in [n : Nat, open : BOOLEAN],
         park'.open => status' \in {"pending_review", "failed"}
  PROVE  Kept
<1>1. charged' = 0 /\ \A i \in DOMAIN outbox' : outbox'[i].key # EndKey
  BY UnfinishedIsOpen
<1> QED
  BY <1>1 DEF Kept, DataInv, OutboxTellsTheRecord, ChargeFollowsSuccess,
              OpenParkIsUndecided

\* A failure written without a claim - refusal, redelivery guard, launch -
\* moves an unfinished job only and announces nothing through the outbox.
LEMMA FailRowKept ==
  ASSUME DataInv, NEW S, FailRow(S), UNCHANGED endVars
  PROVE  Kept
<1>1. CASE status \in LegalSources["failed"] /\ status' = "failed"
  <2>1. status \notin Terminal
    BY <1>1 DEF LegalSources, Terminal
  <2>2. park' \in [n : Nat, open : BOOLEAN] /\ UNCHANGED <<charged, outbox>>
    BY DEF DataInv, endVars
  <2> QED
    BY <1>1, <2>1, <2>2, MoveKept DEF Status, Terminal
<1>2. CASE UNCHANGED <<status, record>>
  BY <1>2, UntouchedKept DEF endVars
<1> QED
  BY <1>1, <1>2 DEF FailRow

\* Telling marks rows and changes none of them.
LEMMA TellKept ==
  ASSUME DataInv, Tell, UNCHANGED <<rowVars, charged, park>>
  PROVE  Kept
<1>1. CASE UNCHANGED outbox
  BY <1>1, UntouchedKept DEF rowVars
<1>2. ASSUME NEW said, outbox' = [i \in DOMAIN outbox |-> Told(outbox[i], said)]
      PROVE  Kept
  <2>0. outbox \in Seq(OutboxRow)
    BY DEF DataInv
  <2>1. \A e \in OutboxRow : /\ Told(e, said) \in OutboxRow
                            /\ Told(e, said).key = e.key /\ Told(e, said).says = e.says
    BY DEF Told, OutboxRow
  <2>2. outbox' \in Seq(OutboxRow) /\ DOMAIN outbox' = DOMAIN outbox
    BY <1>2, <2>0, <2>1
  <2>3. OutboxTellsTheRecord'
    BY <1>2, <2>1, <2>2 DEF DataInv, OutboxTellsTheRecord, rowVars, EndKey
  <2> QED
    BY <2>2, <2>3 DEF Kept, DataInv, ChargeFollowsSuccess, OpenParkIsUndecided, rowVars
<1> QED
  BY <1>1, <1>2 DEF Tell

\* A row for an unfinished job: appended, or already there under a park's key.
LEMMA EnqueueEffect ==
  ASSUME DataInv, status \notin Terminal,
         NEW key \in Nat, NEW says \in Status, Enqueue(key, says)
  PROVE  /\ outbox' \in Seq(OutboxRow)
         /\ \A i \in DOMAIN outbox' :
              outbox'[i].key = EndKey => outbox'[i].says = says /\ key = EndKey
<1>0. /\ outbox \in Seq(OutboxRow)
      /\ \A i \in DOMAIN outbox : outbox[i].key # EndKey
  BY UnfinishedIsOpen DEF DataInv
<1>1. CASE outbox' = outbox
  BY <1>0, <1>1
<1>2. CASE outbox' = Append(outbox, [key |-> key, says |-> says, told |-> FALSE])
  <2>1. [key |-> key, says |-> says, told |-> FALSE] \in OutboxRow
    BY DEF OutboxRow
  <2> QED
    BY <1>0, <1>2, <2>1
<1> QED
  BY <1>1, <1>2 DEF Enqueue

\* The terminal transaction keeps DataInv, provided no success is written over
\* a parked job.
LEMMA SettleKept ==
  ASSUME DataInv, NEW to \in Ending, Settle(to),
         status = "pending_review" => to # "succeeded"
  PROVE  Kept
<1>1. CASE status \in LegalSources[to]
  <2>1. status \notin Terminal
    BY <1>1 DEF LegalSources, Terminal, Ending
  <2>2. status' = to /\ record' = to /\ Charge(to) /\ Enqueue(KeyOf(to), to)
    BY <1>1 DEF Settle
  <2>3. park.n \in Nat /\ park.open \in BOOLEAN
    BY DEF DataInv
  <2>4. KeyOf(to) \in Nat /\ to \in Status
        /\ (KeyOf(to) = EndKey => to # "pending_review")
    BY <2>3 DEF KeyOf, EndKey, Ending, Status, Terminal
  <2>5. /\ outbox' \in Seq(OutboxRow)
        /\ \A i \in DOMAIN outbox' :
             outbox'[i].key = EndKey => outbox'[i].says = to /\ KeyOf(to) = EndKey
    BY <2>1, <2>2, <2>4, EnqueueEffect
  <2>6. OutboxTellsTheRecord'
    BY <2>2, <2>4, <2>5 DEF OutboxTellsTheRecord, Ending, Terminal, EndKey
  <2>7. charged' \in Nat /\ ChargeFollowsSuccess'
    BY <2>1, <2>2, UnfinishedIsOpen DEF Charge, ChargeFollowsSuccess
  <2>8. park' = IF to = "pending_review" THEN [n |-> park.n + 1, open |-> TRUE] ELSE park
    BY <1>1 DEF Settle
  <2>9. park' \in [n : Nat, open : BOOLEAN] /\ OpenParkIsUndecided'
    <3>1. CASE to = "pending_review"
      BY <2>2, <2>3, <2>8, <3>1 DEF OpenParkIsUndecided
    <3>2. CASE to = "failed"
      BY <2>2, <2>8, <3>2 DEF OpenParkIsUndecided, DataInv
    <3>3. CASE to = "succeeded"
      <4>1. status = "running"
        BY <1>1, <3>3 DEF LegalSources
      <4> QED
        BY <2>2, <2>8, <3>3, <4>1 DEF OpenParkIsUndecided, DataInv
    <3> QED
      BY <3>1, <3>2, <3>3 DEF Ending
  <2> QED
    BY <2>1, <2>2, <2>4, <2>5, <2>6, <2>7, <2>9 DEF Kept, DataInv
<1>2. CASE status \notin LegalSources[to]
  BY <1>2, UntouchedKept DEF Settle
<1> QED
  BY <1>1, <1>2

\* A park open on a job nobody has claimed is impossible.
LEMMA UnparkedIsShut ==
  ASSUME DataInv, status \in {"pending", "running"}
  PROVE  ~park.open /\ status \notin Terminal
BY DEF DataInv, OpenParkIsUndecided, Terminal

\* The owner's cancel closes the park and announces what it records.
LEMMA CancelKept ==
  ASSUME DataInv, Cancel
  PROVE  Kept
<1>1. status \notin Terminal /\ status' = "cancelled" /\ record' = "cancelled"
      /\ Enqueue(EndKey, "cancelled") /\ UNCHANGED charged /\ park' = ClosedBy(status)
  BY DEF Cancel
<1>2. /\ outbox' \in Seq(OutboxRow)
      /\ \A i \in DOMAIN outbox' : outbox'[i].key = EndKey => outbox'[i].says = "cancelled"
  <2>1. EndKey \in Nat /\ "cancelled" \in Status
    BY DEF EndKey, Status, Terminal
  <2> QED
    BY <1>1, <2>1, EnqueueEffect
<1>3. park' \in [n : Nat, open : BOOLEAN] /\ ~park'.open
  BY <1>1 DEF DataInv, OpenParkIsUndecided, ClosedBy, Status, Terminal
<1>4. charged' = 0
  BY <1>1, UnfinishedIsOpen
<1> QED
  BY <1>1, <1>2, <1>3, <1>4 DEF Kept, DataInv, OutboxTellsTheRecord,
     ChargeFollowsSuccess, OpenParkIsUndecided, Status, Terminal

----------------------------------------------------------------------------
(* One step.                                                               *)

\* Every step of a delivery keeps DataInv and a finished ending.
LEMMA DeliverKept ==
  ASSUME EndingInv, NEW r \in Run, Deliver(r)
  PROVE  Kept
<1>0. DataInv /\ Planned /\ ParkedByOwner
  BY DEF EndingInv
<1>1. CASE GuardReads(r) \/ ClaimRefused(r) \/ ClaimRaises(r) \/ RefusalSaid(r)
           \/ Decide(r) \/ Crash(r) \/ Die(r)
  BY <1>0, <1>1, UntouchedKept DEF GuardReads, ClaimRefused, ClaimRaises, RefusalSaid,
     Decide, Crash, Die, rowVars, endVars
<1>2. CASE GuardFails(r)
  BY <1>0, <1>2, FailRowKept DEF GuardFails
<1>3. CASE Refuse(r)
  BY <1>0, <1>3, FailRowKept DEF Refuse
<1>4. CASE Claim(r) \/ ClaimUnanswered(r)
  <2>1. status \notin Terminal /\ ~park.open
    BY <1>0, <1>4, UnparkedIsShut DEF Claim, ClaimUnanswered
  <2>2. park' \in [n : Nat, open : BOOLEAN] /\ ~park'.open /\ UNCHANGED <<charged, outbox>>
    BY <1>0, <1>4, <2>1 DEF Claim, ClaimUnanswered, endVars, DataInv
  <2>3. status' \in Status
    BY <1>4 DEF Claim, ClaimUnanswered, Status
  <2> QED
    BY <1>0, <2>1, <2>2, <2>3, MoveKept
<1>5. CASE Finalize(r)
  <2>1. CASE owner # r
    BY <1>0, <1>5, <2>1, UntouchedKept DEF Finalize, endVars
  <2>2. CASE owner = r
    <3>1. PICK to \in Recordable(plan[r]) : Settle(to)
      BY <1>5, <2>2 DEF Finalize
    <3>2. plan[r] \in Ending
      BY <1>0, <1>5 DEF Finalize, At, Planned
    <3>3. to \in Ending /\ (to = "succeeded" => plan[r] = "succeeded")
      BY <3>2 DEF Recordable, Ending
    <3>4. status = "pending_review" => plan[r] = "pending_review"
      BY <1>0, <1>5, <2>2 DEF Finalize, At, ParkedByOwner
    <3> QED
      BY <1>0, <3>1, <3>3, <3>4, SettleKept
  <2> QED
    BY <2>1, <2>2
<1>6. CASE DeliverOwn(r) \/ LastWord(r)
  BY <1>0, <1>6, TellKept DEF DeliverOwn, LastWord
<1>7. CASE FinalizeCrash(r)
  <2>1. CASE Settle("failed")
    BY <1>0, <2>1, SettleKept DEF Ending
  <2>2. CASE UNCHANGED <<status, record, endVars>>
    BY <1>0, <2>2, UntouchedKept DEF endVars
  <2> QED
    BY <1>7, <2>1, <2>2 DEF FinalizeCrash
<1> QED
  BY <1>1, <1>2, <1>3, <1>4, <1>5, <1>6, <1>7 DEF Deliver

\* So does every step of the API, the reaper, the cancel and the viewer.
LEMMA OthersKept ==
  ASSUME EndingInv, Others \/ View
  PROVE  Kept
<1>0. DataInv
  BY DEF EndingInv
<1>1. CASE View \/ Launched \/ Dispatched \/ ApiDies
  BY <1>0, <1>1, UntouchedKept DEF View, Open, Replay, Listen, Disconnect, Watching,
     Launched, Dispatched, ApiDies, rowVars, endVars
<1>2. CASE Released
  <2>1. status \notin Terminal /\ ~park.open
    BY <1>0, <1>2, UnparkedIsShut DEF Released
  <2>2. /\ status' \in Status /\ UNCHANGED <<charged, outbox>>
        /\ park' \in [n : Nat, open : BOOLEAN] /\ ~park'.open
    BY <1>0, <1>2, <2>1 DEF Released, endVars, DataInv, Status
  <2> QED
    BY <1>0, <2>1, <2>2, MoveKept
<1>3. CASE Reap
  <2>1. CASE UNCHANGED <<status, record>>
    BY <1>0, <1>3, <2>1, UntouchedKept DEF Reap, endVars
  <2>2. CASE status' = "failed"
    <3>1. status \notin Terminal
      BY <1>3 DEF Reap, Terminal
    <3>2. /\ status' \in Status /\ UNCHANGED <<charged, outbox>>
          /\ park' \in [n : Nat, open : BOOLEAN]
      BY <1>0, <1>3, <2>2 DEF Reap, endVars, DataInv, Status, Terminal
    <3> QED
      BY <1>0, <2>2, <3>1, <3>2, MoveKept
  <2> QED
    BY <1>3, <2>1, <2>2 DEF Reap
<1>4. CASE MarkLaunchFailed
  BY <1>0, <1>4, FailRowKept DEF MarkLaunchFailed
<1>5. CASE Cancel
  BY <1>0, <1>5, CancelKept
<1>6. CASE CancelTells
  BY <1>0, <1>6, TellKept DEF CancelTells
<1>7. CASE RunReview
  <2>1. /\ status \notin Terminal /\ status' \in Status /\ UNCHANGED <<charged, outbox>>
        /\ park' \in [n : Nat, open : BOOLEAN] /\ ~park'.open
    BY <1>0, <1>7 DEF RunReview, DataInv, Status, Terminal
  <2> QED
    BY <1>0, <2>1, MoveKept
<1>8. CASE Compensate
  <2>1. CASE UNCHANGED <<status, park>>
    BY <1>0, <1>8, <2>1, UntouchedKept DEF Compensate
  <2>2. CASE Reparkable /\ status' = "pending_review"
             /\ park' = [park EXCEPT !.open = TRUE]
    <3>1. /\ status \notin Terminal /\ status' \in Status /\ UNCHANGED <<charged, outbox>>
          /\ park' \in [n : Nat, open : BOOLEAN]
      BY <1>0, <1>8, <2>2 DEF Compensate, Reparkable, DataInv, Status, Terminal
    <3> QED
      BY <1>0, <2>2, <3>1, MoveKept
  <2> QED
    BY <1>8, <2>1, <2>2 DEF Compensate
<1> QED
  BY <1>1, <1>2, <1>3, <1>4, <1>5, <1>6, <1>7, <1>8 DEF Others

\* The runs: a finalizing run has a plan, and a parked job's owner parked it.
RunsInv == Planned /\ ParkedByOwner

\* A step that moves one run to a place where it neither decides nor commits,
\* and does not park the job.
LEMMA RunLeavesKept ==
  ASSUME RunsInv, NEW r \in Run, NEW place \in Places \ {"claimed", "finalizing"},
         Go(r, place), UNCHANGED <<owner, plan>>,
         status' = status \/ status' \in Terminal
  PROVE  RunsInv'
<1>1. pc' \in [Run -> Places] /\ pc'[r] = place
      /\ \A s \in Run \ {r} : pc'[s] = pc[s]
  BY DEF RunsInv, Planned, Go
<1>2. Planned'
  BY <1>1 DEF RunsInv, Planned
<1>3. ParkedByOwner'
  BY <1>1 DEF RunsInv, ParkedByOwner, Terminal
<1> QED
  BY <1>2, <1>3 DEF RunsInv

\* A step of somebody else that parks nothing.
LEMMA RowMovesKept ==
  ASSUME RunsInv, UNCHANGED runVars,
         status' = "pending" => owner' = None,
         status' = "pending_review" => status = "pending_review" /\ owner' = owner
  PROVE  RunsInv'
BY DEF RunsInv, Planned, ParkedByOwner, runVars

\* A delivery's steps keep the parked job's owner the run that parked it.
LEMMA DeliverRuns ==
  ASSUME EndingInv, NEW r \in Run, Deliver(r)
  PROVE  RunsInv'
<1>0. RunsInv
  BY DEF EndingInv, RunsInv
<1>1. CASE GuardReads(r) \/ ClaimRefused(r) \/ ClaimRaises(r)
  BY <1>0, <1>1, RunLeavesKept DEF GuardReads, ClaimRefused, ClaimRaises, rowVars, Places
<1>2. CASE GuardFails(r) \/ Refuse(r)
  <2>1. /\ status' = status \/ status' \in Terminal
        /\ Go(r, "refusing") /\ UNCHANGED <<owner, plan>>
    BY <1>2 DEF GuardFails, Refuse, FailRow, Terminal
  <2> QED
    BY <1>0, <2>1, RunLeavesKept DEF Places
<1>3. CASE RefusalSaid(r) \/ DeliverOwn(r) \/ Crash(r) \/ LastWord(r) \/ Die(r)
  <2>1. /\ Go(r, "gone") \/ Go(r, "crashed")
        /\ UNCHANGED <<status, owner, plan>>
    BY <1>3 DEF RefusalSaid, DeliverOwn, Crash, LastWord, Die, rowVars
  <2> QED
    BY <1>0, <2>1, RunLeavesKept DEF Places
<1>4. CASE Claim(r)
  <2>1. /\ pc' \in [Run -> Places] /\ pc'[r] = "claimed"
        /\ \A s \in Run \ {r} : pc'[s] = pc[s]
    BY <1>0, <1>4 DEF RunsInv, Planned, Claim, Go, Places
  <2>2. plan' = plan /\ status' = "running"
    BY <1>4 DEF Claim
  <2> QED
    BY <1>0, <2>1, <2>2 DEF RunsInv, Planned, ParkedByOwner
<1>5. CASE Decide(r)
  <2>1. /\ pc' \in [Run -> Places] /\ pc'[r] = "finalizing" /\ pc[r] = "claimed"
        /\ \A s \in Run \ {r} : pc'[s] = pc[s]
    BY <1>0, <1>5 DEF RunsInv, Planned, Decide, At, Go, Places
  <2>2. PICK p \in {"succeeded", "failed"} \cup
                   (IF park.n < MaxParks THEN {"pending_review"} ELSE {}) :
          plan' = [plan EXCEPT ![r] = p]
    BY <1>5 DEF Decide
  <2>3. p \in Ending /\ p \in Word
    BY <2>2 DEF Ending, Word, Status, Terminal
  <2>4. /\ plan' \in [Run -> Word] /\ plan'[r] \in Ending
        /\ \A s \in Run \ {r} : plan'[s] = plan[s]
    BY <1>0, <2>2, <2>3 DEF RunsInv, Planned
  <2>5. UNCHANGED <<status, owner>>
    BY <1>5 DEF Decide, rowVars
  <2>6. Planned'
    BY <1>0, <2>1, <2>4 DEF RunsInv, Planned
  <2>7. ParkedByOwner'
    BY <1>0, <2>1, <2>4, <2>5 DEF RunsInv, ParkedByOwner
  <2> QED
    BY <2>6, <2>7 DEF RunsInv
<1>6. CASE Finalize(r)
  <2>1. CASE owner # r
    BY <1>0, <1>6, <2>1, RunLeavesKept DEF Finalize, Places
  <2>2. CASE owner = r
    <3>1. PICK to \in Recordable(plan[r]) :
            /\ Settle(to)
            /\ Go(r, "delivering") \/ Go(r, "finalizing") \/ Go(r, "crashed")
      BY <1>6, <2>2 DEF Finalize
    <3>2. plan[r] \in Ending /\ pc[r] = "finalizing" /\ UNCHANGED <<owner, plan>>
      BY <1>0, <1>6 DEF Finalize, At, RunsInv, Planned
    <3>3. /\ to \in Ending /\ (to = "pending_review" => plan[r] = "pending_review")
          /\ status' = status \/ status' = to
      BY <3>1, <3>2 DEF Recordable, Ending, Settle
    <3>4. /\ pc' \in [Run -> Places] /\ pc'[r] \in {"delivering", "finalizing", "crashed"}
          /\ \A s \in Run \ {r} : pc'[s] = pc[s]
      BY <1>0, <3>1 DEF RunsInv, Planned, Go, Places
    <3>5. Planned'
      BY <1>0, <3>2, <3>4 DEF RunsInv, Planned
    <3>6. ParkedByOwner'
      BY <1>0, <2>2, <3>2, <3>3, <3>4 DEF RunsInv, ParkedByOwner, Ending
    <3> QED
      BY <3>5, <3>6 DEF RunsInv
  <2> QED
    BY <2>1, <2>2
<1>7. CASE FinalizeCrash(r)
  <2>1. /\ Go(r, "gone") \/ Go(r, "lastword") \/ Go(r, "refusing")
        /\ UNCHANGED <<owner, plan>> /\ (status' = status \/ status' = "failed")
    BY <1>7 DEF FinalizeCrash, Settle
  <2> QED
    BY <1>0, <2>1, RunLeavesKept DEF Places, Terminal
<1>8. CASE ClaimUnanswered(r)
  BY <1>0, <1>8, RowMovesKept DEF ClaimUnanswered, runVars
<1> QED
  BY <1>1, <1>2, <1>3, <1>4, <1>5, <1>6, <1>7, <1>8 DEF Deliver

\* So do everybody else's: they only take the owner away.
LEMMA OthersRuns ==
  ASSUME EndingInv, Others \/ View
  PROVE  RunsInv'
<1>0. RunsInv
  BY DEF EndingInv, RunsInv
<1>1. CASE View \/ Launched \/ Dispatched \/ ApiDies \/ CancelTells
  <2>1. UNCHANGED <<runVars, status, owner>>
    BY <1>1 DEF View, Open, Replay, Listen, Disconnect, Watching, Launched, Dispatched,
       ApiDies, CancelTells, rowVars
  <2> QED
    BY <1>0, <2>1, RowMovesKept DEF RunsInv, ParkedByOwner
<1>2. CASE Released \/ RunReview
  BY <1>0, <1>2, RowMovesKept DEF Released, RunReview
<1>3. CASE Reap \/ MarkLaunchFailed
  <2>1. UNCHANGED <<runVars, owner>> /\ (status' = status \/ status' = "failed")
    BY <1>3 DEF Reap, MarkLaunchFailed, FailRow
  <2> QED
    BY <1>0, <2>1, RowMovesKept DEF RunsInv, ParkedByOwner
<1>4. CASE Cancel
  BY <1>0, <1>4, RowMovesKept DEF Cancel
<1>5. CASE Compensate
  <2>1. UNCHANGED <<runVars, owner>>
    BY <1>5 DEF Compensate
  <2>2. CASE status' = status
    BY <1>0, <2>1, <2>2, RowMovesKept DEF RunsInv, ParkedByOwner
  <2>3. CASE status = "pending" /\ status' = "pending_review"
    <3>1. owner' = None /\ None \notin Run
      BY <1>0, <2>1, <2>3, NoneAssumption DEF RunsInv, ParkedByOwner
    <3> QED
      BY <1>0, <2>1, <2>3, <3>1 DEF RunsInv, Planned, ParkedByOwner, runVars
  <2> QED
    BY <1>5, <2>2, <2>3 DEF Compensate, Reparkable
<1> QED
  BY <1>1, <1>2, <1>3, <1>4, <1>5 DEF Others

----------------------------------------------------------------------------
(* The keys.  A job has one announcement for its end and one for each park, *)
(* and a closing is in the log once: the publisher says rows of distinct   *)
(* keys, in their order, and none the log has.                             *)

OutboxKeyed ==
  /\ \A i \in DOMAIN outbox : outbox[i].key \in 0..MaxParks
  /\ \A i, j \in DOMAIN outbox : outbox[i].key = outbox[j].key => i = j

LogKeyed ==
  /\ log \in Seq(Closings)
  /\ \A i, j \in DOMAIN log : log[i].key = log[j].key => i = j

\* A run that means to park has a number left to park under, or will find a
\* park open: whoever has parked the job since has taken it from the run.
ParkRoom ==
  /\ park.n \in 0..MaxParks
  /\ \A r \in Run :
       owner = r /\ pc[r] = "finalizing" /\ plan[r] = "pending_review"
         => park.n < MaxParks \/ park.open

Around ==
  /\ owner \in Run \cup {None} /\ record \in Word
  /\ api \in {"idle", "launching", "rerunning"} /\ cancel \in {"idle", "delivering"}
  /\ viewer \in [at : {"away", "replaying", "live"}, cursor : Nat, shown : Word]

KeysInv == OutboxKeyed /\ LogKeyed /\ ParkRoom /\ Around

\* A number of elements in a finite set of rows is a length.
LEMMA RowsCounted ==
  ASSUME NEW S, outbox \in Seq(S), NEW rows \in SUBSET DOMAIN outbox
  PROVE  Cardinality(rows) \in Nat
<1>1. DOMAIN outbox = 1..Len(outbox) /\ Len(outbox) \in Nat
  OBVIOUS
<1>2. IsFiniteSet(1..Len(outbox))
  BY <1>1, FS_Interval
<1> QED
  BY <1>1, <1>2, FS_Subset, FS_CardinalityType

\* Saying one more event keeps the log's keys apart.
LEMMA EmitKeyed ==
  ASSUME LogKeyed, NEW key \in 0..MaxParks, NEW says \in Status, Emit(key, says)
  PROVE  LogKeyed'
<1>1. CASE UNCHANGED log
  BY <1>1 DEF LogKeyed
<1>2. CASE key \notin Keys(log) /\ log' = Append(log, [key |-> key, says |-> says])
  <2> DEFINE e == [key |-> key, says |-> says]
  <2>1. e \in Closings BY DEF Closings
  <2>2. \A i \in DOMAIN log : log[i].key # key BY <1>2 DEF Keys
  <2>3. log \in Seq(Closings) /\ log' = Append(log, e) /\ e.key = key
    BY <1>2 DEF LogKeyed
  <2> HIDE DEF e
  <2>4. /\ log' \in Seq(Closings) /\ DOMAIN log' = 1..(Len(log) + 1)
        /\ \A i \in DOMAIN log : log'[i] = log[i]
        /\ log'[Len(log) + 1] = e /\ DOMAIN log = 1..Len(log) /\ Len(log) \in Nat
    BY <2>1, <2>3
  <2>5. \A i \in DOMAIN log' : i \in DOMAIN log \/ i = Len(log) + 1
    BY <2>4
  <2> QED BY <2>2, <2>3, <2>4, <2>5 DEF LogKeyed
<1> QED BY <1>1, <1>2 DEF Emit

\* Telling says each row once.
LEMMA TellKeyed ==
  ASSUME DataInv, OutboxKeyed, LogKeyed, Tell
  PROVE  OutboxKeyed' /\ LogKeyed'
<1>0. outbox \in Seq(OutboxRow) /\ log \in Seq(Closings)
  BY DEF DataInv, LogKeyed
<1>1. PICK said :
        /\ \E order \in InOrder({i \in DOMAIN outbox :
                                 outbox[i].key \in said /\ ~Spoken(outbox[i])}) :
             log' = log \o [k \in DOMAIN order |-> Closing(outbox[order[k]])]
        /\ \/ outbox' = [i \in DOMAIN outbox |-> Told(outbox[i], said)]
           \/ UNCHANGED outbox
  BY DEF Tell
<1>2. OutboxKeyed'
  <2>1. CASE UNCHANGED outbox BY <2>1 DEF OutboxKeyed
  <2>2. CASE outbox' = [i \in DOMAIN outbox |-> Told(outbox[i], said)]
    <3>1. DOMAIN outbox' = DOMAIN outbox
          /\ \A i \in DOMAIN outbox : outbox'[i].key = outbox[i].key
      BY <2>2 DEF Told
    <3> QED BY <3>1 DEF OutboxKeyed
  <2> QED BY <1>1, <2>1, <2>2
<1> DEFINE rows == {i \in DOMAIN outbox : outbox[i].key \in said /\ ~Spoken(outbox[i])}
<1>3. PICK order \in InOrder(rows) :
        log' = log \o [k \in DOMAIN order |-> Closing(outbox[order[k]])]
  BY <1>1
<1> DEFINE n == Cardinality(rows)
           news == [k \in DOMAIN order |-> Closing(outbox[order[k]])]
<1>4. n \in Nat
  BY <1>0, RowsCounted
<1>5. /\ order \in [1..n -> rows]
      /\ \A j, k \in 1..n : j < k => order[j] < order[k]
  BY DEF InOrder
<1>6. \A i \in rows : /\ i \in DOMAIN outbox /\ i \in Nat
                      /\ outbox[i].key \notin Keys(log)
                      /\ outbox[i].key \in 0..MaxParks /\ outbox[i].says \in Status
  <2>1. DOMAIN outbox \subseteq Nat /\ \A i \in DOMAIN outbox : outbox[i] \in OutboxRow
    BY <1>0
  <2> QED BY <2>1 DEF Spoken, OutboxKeyed, OutboxRow
<1>7. log' = log \o news BY <1>3
<1> HIDE DEF n, rows
<1>8. /\ news \in [1..n -> Closings]
      /\ \A k \in 1..n : news[k].key = outbox[order[k]].key /\ order[k] \in rows
  BY <1>5, <1>6 DEF Closing, Closings
<1>9. \A j, k \in 1..n : j # k => order[j] # order[k]
  <2> SUFFICES ASSUME NEW j \in 1..n, NEW k \in 1..n, j < k PROVE order[j] # order[k]
    BY <1>4
  <2>1. order[j] < order[k] /\ order[j] \in Nat /\ order[k] \in Nat
    BY <1>5, <1>6
  <2> QED BY <2>1
<1>10. \A j, k \in 1..n : news[j].key = news[k].key => j = k
  BY <1>6, <1>8, <1>9 DEF OutboxKeyed
<1>11. \A k \in 1..n, i \in DOMAIN log : news[k].key # log[i].key
  BY <1>6, <1>8 DEF Keys
<1> HIDE DEF news
<1>12. news \in Seq(Closings) /\ Len(news) = n /\ DOMAIN news = 1..n
  BY <1>4, <1>8
<1>13. /\ log' \in Seq(Closings) /\ DOMAIN log' = 1..(Len(log) + n)
       /\ DOMAIN log = 1..Len(log) /\ Len(log) \in Nat
       /\ \A i \in 1..(Len(log) + n) :
            log'[i] = IF i <= Len(log) THEN log[i] ELSE news[i - Len(log)]
  <2>1. /\ log \o news \in Seq(Closings) /\ Len(log \o news) = Len(log) + Len(news)
        /\ \A i \in 1..(Len(log) + Len(news)) :
             (log \o news)[i] = IF i <= Len(log) THEN log[i] ELSE news[i - Len(log)]
    BY <1>0, <1>12, ConcatProperties
  <2>2. Len(log) \in Nat /\ DOMAIN log = 1..Len(log) BY <1>0
  <2>3. DOMAIN (log \o news) = 1..Len(log \o news) BY <2>1
  <2> QED BY <1>7, <1>12, <2>1, <2>2, <2>3
<1>14. ASSUME NEW i \in DOMAIN log', NEW j \in DOMAIN log', log'[i].key = log'[j].key
       PROVE  i = j
  <2>1. CASE i <= Len(log) /\ j <= Len(log)
    <3>1. i \in DOMAIN log /\ j \in DOMAIN log /\ log'[i] = log[i] /\ log'[j] = log[j]
      BY <1>4, <1>13, <2>1
    <3> QED BY <1>14, <3>1 DEF LogKeyed
  <2>2. CASE i > Len(log) /\ j > Len(log)
    <3>1. /\ i - Len(log) \in 1..n /\ j - Len(log) \in 1..n
          /\ log'[i] = news[i - Len(log)] /\ log'[j] = news[j - Len(log)]
      BY <1>4, <1>13, <2>2
    <3>2. i - Len(log) = j - Len(log)
      BY <1>10, <1>14, <3>1
    <3> QED BY <1>4, <1>13, <3>2
  <2>3. CASE i <= Len(log) /\ j > Len(log)
    <3>1. /\ i \in DOMAIN log /\ j - Len(log) \in 1..n
          /\ log'[i] = log[i] /\ log'[j] = news[j - Len(log)]
      BY <1>4, <1>13, <2>3
    <3> QED BY <1>11, <1>14, <3>1
  <2>4. CASE i > Len(log) /\ j <= Len(log)
    <3>1. /\ j \in DOMAIN log /\ i - Len(log) \in 1..n
          /\ log'[j] = log[j] /\ log'[i] = news[i - Len(log)]
      BY <1>4, <1>13, <2>4
    <3> QED BY <1>11, <1>14, <3>1
  <2> QED BY <1>4, <1>13, <2>1, <2>2, <2>3, <2>4
<1> QED BY <1>2, <1>13, <1>14 DEF LogKeyed

\* A new row has a key no row has.
LEMMA EnqueueKeyed ==
  ASSUME DataInv, OutboxKeyed, NEW key \in 0..MaxParks, NEW says, Enqueue(key, says)
  PROVE  OutboxKeyed'
<1>0. outbox \in Seq(OutboxRow) BY DEF DataInv
<1>1. CASE UNCHANGED outbox
  BY <1>1 DEF OutboxKeyed
<1>2. CASE key \notin Keys(outbox)
           /\ outbox' = Append(outbox, [key |-> key, says |-> says, told |-> FALSE])
  <2> DEFINE e == [key |-> key, says |-> says, told |-> FALSE]
  <2>1. \A i \in DOMAIN outbox : outbox[i].key # key BY <1>2 DEF Keys
  <2>2. outbox' = Append(outbox, e) /\ e.key = key BY <1>2
  <2> HIDE DEF e
  <2>3. /\ DOMAIN outbox' = 1..(Len(outbox) + 1)
        /\ \A i \in DOMAIN outbox : outbox'[i] = outbox[i]
        /\ outbox'[Len(outbox) + 1] = e
        /\ DOMAIN outbox = 1..Len(outbox) /\ Len(outbox) \in Nat
    BY <1>0, <2>2
  <2>4. \A i \in DOMAIN outbox' : i \in DOMAIN outbox \/ i = Len(outbox) + 1
    BY <2>3
  <2> QED BY <2>1, <2>2, <2>3, <2>4 DEF OutboxKeyed
<1> QED BY <1>1, <1>2 DEF Enqueue

\* Which key the terminal transaction announces under.
LEMMA SettleKeyed ==
  ASSUME DataInv, OutboxKeyed, park.n \in 0..MaxParks, NEW to \in Ending, Settle(to),
         to = "pending_review" => park.n < MaxParks
  PROVE  OutboxKeyed' /\ park'.n \in 0..MaxParks
<1>1. CASE status \in LegalSources[to]
  <2>1. KeyOf(to) \in 0..MaxParks
    BY ParkAssumption DEF KeyOf, EndKey
  <2>2. OutboxKeyed'
    BY <1>1, <2>1, EnqueueKeyed DEF Settle
  <2>3. park'.n \in 0..MaxParks
    BY <1>1, ParkAssumption DEF Settle
  <2> QED BY <2>2, <2>3
<1>2. CASE status \notin LegalSources[to]
  BY <1>2 DEF Settle, OutboxKeyed
<1> QED BY <1>1, <1>2

\* A finalizing run that may still park finds room.
LEMMA RoomToPark ==
  ASSUME EndingInv, ParkRoom, NEW r \in Run, owner = r, pc[r] = "finalizing",
         NEW to \in Recordable(plan[r]), to = "pending_review"
  PROVE  park.n < MaxParks
BY DEF ParkRoom, Recordable

\* The outbox and the log across a step of a delivery.
LEMMA DeliverKeyed ==
  ASSUME EndingInv, KeysInv, NEW r \in Run, Deliver(r)
  PROVE  OutboxKeyed' /\ LogKeyed'
<1>0. /\ DataInv /\ Planned /\ OutboxKeyed /\ LogKeyed /\ park.n \in 0..MaxParks
      /\ EndKey \in 0..MaxParks /\ "failed" \in Status
  BY ParkAssumption DEF EndingInv, KeysInv, ParkRoom, EndKey, Status, Terminal
<1>1. CASE \/ GuardReads(r) \/ GuardFails(r) \/ Claim(r) \/ ClaimUnanswered(r)
           \/ ClaimRefused(r) \/ ClaimRaises(r) \/ Refuse(r) \/ Decide(r) \/ Crash(r)
           \/ Die(r)
  <2>1. UNCHANGED <<outbox, log>>
    BY <1>1 DEF GuardReads, GuardFails, Claim, ClaimUnanswered, ClaimRefused, ClaimRaises,
       Refuse, Decide, Crash, Die, endVars
  <2> QED BY <1>0, <2>1 DEF OutboxKeyed, LogKeyed
<1>2. CASE RefusalSaid(r)
  <2>1. UNCHANGED outbox /\ (Emit(EndKey, "failed") \/ UNCHANGED log)
    BY <1>2 DEF RefusalSaid, SayDirectly, endVars
  <2>2. LogKeyed'
    BY <1>0, <2>1, EmitKeyed DEF LogKeyed
  <2> QED BY <1>0, <2>1, <2>2 DEF OutboxKeyed
<1>3. CASE DeliverOwn(r) \/ LastWord(r)
  BY <1>0, <1>3, TellKeyed DEF DeliverOwn, LastWord
<1>4. CASE Finalize(r)
  <2>0. LogKeyed' BY <1>0, <1>4 DEF Finalize, LogKeyed
  <2>1. CASE owner # r
    BY <1>0, <1>4, <2>0, <2>1 DEF Finalize, endVars, OutboxKeyed
  <2>2. CASE owner = r
    <3>1. PICK to \in Recordable(plan[r]) : Settle(to)
      BY <1>4, <2>2 DEF Finalize
    <3>2. plan[r] \in Ending /\ pc[r] = "finalizing"
      BY <1>0, <1>4 DEF Finalize, At, Planned
    <3>3. to \in Ending
      BY <3>2 DEF Recordable, Ending
    <3>4. to = "pending_review" => park.n < MaxParks
      BY <2>2, <3>2, RoomToPark DEF KeysInv
    <3> QED BY <1>0, <2>0, <3>1, <3>3, <3>4, SettleKeyed
  <2> QED BY <2>1, <2>2
<1>5. CASE FinalizeCrash(r)
  <2>0. LogKeyed' BY <1>0, <1>5 DEF FinalizeCrash, LogKeyed
  <2>1. CASE Settle("failed")
    BY <1>0, <2>0, <2>1, SettleKeyed DEF Ending
  <2>2. CASE UNCHANGED <<status, record, endVars>>
    BY <1>0, <2>0, <2>2 DEF endVars, OutboxKeyed
  <2> QED BY <1>5, <2>1, <2>2 DEF FinalizeCrash
<1> QED BY <1>1, <1>2, <1>3, <1>4, <1>5 DEF Deliver

\* And across everybody else's.
LEMMA OthersKeyed ==
  ASSUME EndingInv, KeysInv, Others \/ View
  PROVE  OutboxKeyed' /\ LogKeyed'
<1>0. /\ DataInv /\ OutboxKeyed /\ LogKeyed
      /\ EndKey \in 0..MaxParks /\ "failed" \in Status
  BY ParkAssumption DEF EndingInv, KeysInv, EndKey, Status, Terminal
<1>1. CASE \/ View \/ Released \/ Launched \/ MarkLaunchFailed \/ RunReview
           \/ Dispatched \/ Compensate \/ ApiDies
  <2>1. UNCHANGED <<outbox, log>>
    BY <1>1 DEF View, Open, Replay, Listen, Disconnect, Watching, Released, Launched,
       MarkLaunchFailed, RunReview, Dispatched, Compensate, ApiDies, endVars
  <2> QED BY <1>0, <2>1 DEF OutboxKeyed, LogKeyed
<1>2. CASE Reap
  <2>1. UNCHANGED outbox /\ (Emit(EndKey, "failed") \/ UNCHANGED log)
    BY <1>2 DEF Reap, SayDirectly, endVars
  <2>2. LogKeyed'
    BY <1>0, <2>1, EmitKeyed DEF LogKeyed
  <2> QED BY <1>0, <2>1, <2>2 DEF OutboxKeyed
<1>3. CASE Cancel
  <2>1. Enqueue(EndKey, "cancelled") /\ UNCHANGED log
    BY <1>3 DEF Cancel
  <2> QED BY <1>0, <2>1, EnqueueKeyed DEF LogKeyed
<1>4. CASE CancelTells
  BY <1>0, <1>4, TellKeyed DEF CancelTells
<1> QED BY <1>1, <1>2, <1>3, <1>4 DEF Others

\* A step that takes no number and gives no run the row or a plan to park.
LEMMA RoomKept ==
  ASSUME ParkRoom, park'.n = park.n,
         \A r \in Run :
           owner' = r /\ pc'[r] = "finalizing" /\ plan'[r] = "pending_review"
             => /\ owner = r /\ pc[r] = "finalizing" /\ plan[r] = "pending_review"
                /\ park.open => park'.open
  PROVE  ParkRoom'
BY DEF ParkRoom

\* A run that means to park has room to, until it has parked.
LEMMA DeliverRoom ==
  ASSUME EndingInv, KeysInv, NEW r \in Run, Deliver(r)
  PROVE  ParkRoom'
<1>0. DataInv /\ Planned /\ ParkRoom /\ OutboxKeyed
  BY DEF EndingInv, KeysInv
<1>g. ASSUME NEW place \in Places, Go(r, place)
      PROVE  pc'[r] = place /\ \A s \in Run \ {r} : pc'[s] = pc[s]
  BY <1>0, <1>g DEF Go, Planned
<1>1. CASE \/ GuardReads(r) \/ GuardFails(r) \/ ClaimRefused(r) \/ ClaimRaises(r)
           \/ Refuse(r) \/ RefusalSaid(r) \/ DeliverOwn(r) \/ LastWord(r) \/ Crash(r)
           \/ Die(r)
  <2>1. \E place \in Places \ {"finalizing"} : Go(r, place)
    BY <1>1 DEF GuardReads, GuardFails, ClaimRefused, ClaimRaises, Refuse, RefusalSaid,
       DeliverOwn, LastWord, Crash, Die, Places
  <2>2. UNCHANGED <<owner, park, plan>>
    BY <1>1 DEF GuardReads, GuardFails, ClaimRefused, ClaimRaises, Refuse, RefusalSaid,
       DeliverOwn, LastWord, Crash, Die, rowVars, endVars
  <2> QED BY <1>0, <1>g, <2>1, <2>2, RoomKept
<1>2. CASE Claim(r)
  <2>1. pc'[r] = "claimed" /\ owner' = r /\ UNCHANGED park
    BY <1>2, <1>g DEF Claim, Places, endVars
  <2> QED BY <1>0, <2>1, RoomKept
<1>3. CASE Decide(r)
  <2>1. PICK p \in {"succeeded", "failed"} \cup
                   (IF park.n < MaxParks THEN {"pending_review"} ELSE {}) :
          plan' = [plan EXCEPT ![r] = p]
    BY <1>3 DEF Decide
  <2>2. plan'[r] = p /\ \A s \in Run \ {r} : plan'[s] = plan[s]
    BY <1>0, <2>1 DEF Planned
  <2>3. UNCHANGED <<owner, park>> /\ \A s \in Run \ {r} : pc'[s] = pc[s]
    BY <1>3, <1>g DEF Decide, Places, rowVars, endVars
  <2> QED BY <1>0, <2>1, <2>2, <2>3 DEF ParkRoom
<1>4. CASE Finalize(r)
  <2>1. CASE owner # r
    BY <1>0, <1>4, <2>1, <1>g, RoomKept DEF Finalize, endVars, Places
  <2>2. CASE owner = r
    <3>1. PICK to \in Recordable(plan[r]) : Settle(to)
      BY <1>4, <2>2 DEF Finalize
    <3>2. plan[r] \in Ending /\ pc[r] = "finalizing" /\ UNCHANGED <<owner, plan>>
      BY <1>0, <1>4 DEF Finalize, At, Planned
    <3>3. to \in Ending
      BY <3>2 DEF Recordable, Ending
    <3>4. to = "pending_review" => park.n < MaxParks
      BY <2>2, <3>2, RoomToPark DEF KeysInv, EndingInv
    <3>5. park' = park \/ park' = [n |-> park.n + 1, open |-> TRUE]
      BY <3>1 DEF Settle
    <3>6. CASE park' = park
      BY <1>0, <2>2, <3>2, <3>6 DEF ParkRoom
    <3>7. CASE park' = [n |-> park.n + 1, open |-> TRUE]
      <4>1. park'.n \in 0..MaxParks
        BY <1>0, <3>1, <3>3, <3>4, SettleKeyed DEF ParkRoom
      <4> QED BY <3>7, <4>1 DEF ParkRoom
    <3> QED BY <3>5, <3>6, <3>7
  <2> QED BY <2>1, <2>2
<1>5. CASE FinalizeCrash(r)
  <2>1. UNCHANGED <<owner, plan, park>>
    BY <1>5 DEF FinalizeCrash, Settle, endVars
  <2>2. Go(r, "gone") \/ Go(r, "lastword") \/ Go(r, "refusing")
    BY <1>5 DEF FinalizeCrash
  <2> QED BY <1>0, <1>g, <2>1, <2>2, RoomKept DEF Places
<1>6. CASE ClaimUnanswered(r)
  <2>1. pc[r] = "idle" /\ owner' = r /\ UNCHANGED <<pc, park>>
    BY <1>6 DEF ClaimUnanswered, At, endVars
  <2> QED BY <1>0, <2>1, RoomKept
<1> QED BY <1>1, <1>2, <1>3, <1>4, <1>5, <1>6 DEF Deliver

\* Whoever closes a park takes the row from the run that opened it.
LEMMA OthersRoom ==
  ASSUME EndingInv, KeysInv, Others \/ View
  PROVE  ParkRoom'
<1>0. DataInv /\ ParkRoom /\ park.n \in Nat /\ UNCHANGED runVars
  BY DEF EndingInv, KeysInv, DataInv, Others, View, Open, Replay, Listen, Disconnect,
     Watching, Released, Reap, Launched, MarkLaunchFailed, Cancel, CancelTells, RunReview,
     Dispatched, Compensate, ApiDies
<1>1. CASE \/ View \/ Reap \/ Launched \/ MarkLaunchFailed \/ CancelTells \/ Dispatched
           \/ ApiDies
  <2>1. UNCHANGED <<owner, park>>
    BY <1>1 DEF View, Open, Replay, Listen, Disconnect, Watching, Reap, Launched,
       MarkLaunchFailed, CancelTells, Dispatched, ApiDies, rowVars, endVars
  <2> QED BY <1>0, <2>1, RoomKept DEF runVars
<1>2. CASE Released \/ Cancel \/ RunReview
  <2>1. owner' = None /\ park'.n = park.n
    BY <1>0, <1>2 DEF Released, Cancel, RunReview, ClosedBy, endVars, DataInv
  <2> QED BY <1>0, <2>1, NoneAssumption, RoomKept
<1>3. CASE Compensate
  <2>1. UNCHANGED owner /\ park'.n = park.n /\ (park.open => park'.open)
    BY <1>0, <1>3 DEF Compensate, DataInv
  <2> QED BY <1>0, <2>1, RoomKept DEF runVars
<1> QED BY <1>1, <1>2, <1>3 DEF Others

\* The types of what surrounds them.
LEMMA AroundKept ==
  ASSUME EndingInv, KeysInv, Next
  PROVE  Around'
<1>0. /\ DataInv /\ Planned /\ LogKeyed /\ Around
      /\ Status \subseteq Word /\ {"failed", "cancelled"} \subseteq Status /\ Ending \subseteq Status
  BY DEF EndingInv, KeysInv, Word, Status, Terminal, Ending
<1>1. owner' \in Run \cup {None}
  <2>1. UNCHANGED owner \/ owner' = None \/ \E r \in Run : owner' = r
    BY DEF Next, Deliver, Others, View, GuardReads, GuardFails, Claim, ClaimUnanswered,
       ClaimRefused, ClaimRaises, Refuse, RefusalSaid, Decide, Finalize, DeliverOwn, Crash,
       FinalizeCrash, LastWord, Die, Open, Replay, Listen, Disconnect, Watching, Released, Reap, Launched,
       MarkLaunchFailed, Cancel, CancelTells, RunReview, Dispatched, Compensate, ApiDies,
       rowVars
  <2> QED BY <1>0, <2>1 DEF Around
<1>2. record' \in Word
  <2>1. ASSUME NEW r \in Run, Deliver(r) PROVE record' \in Word
    <3>1. CASE GuardFails(r) \/ Refuse(r)
      BY <1>0, <3>1 DEF GuardFails, Refuse, FailRow, Around
    <3>2. CASE Finalize(r)
      <4>1. plan[r] \in Ending BY <1>0, <3>2 DEF Finalize, At, Planned
      <4>2. Recordable(plan[r]) \subseteq Ending BY <4>1 DEF Recordable, Ending
      <4>3. record' = record \/ record' \in Recordable(plan[r])
        BY <3>2 DEF Finalize, Settle
      <4> QED BY <1>0, <4>2, <4>3 DEF Around
    <3>3. CASE FinalizeCrash(r)
      BY <1>0, <3>3 DEF FinalizeCrash, Settle, Around
    <3>4. CASE ~ (GuardFails(r) \/ Refuse(r) \/ Finalize(r) \/ FinalizeCrash(r))
      BY <1>0, <2>1, <3>4 DEF Deliver, GuardReads, Claim, ClaimUnanswered, ClaimRefused,
         ClaimRaises, RefusalSaid, Decide, DeliverOwn, Crash, LastWord, Die, rowVars, Around
    <3> QED BY <3>1, <3>2, <3>3, <3>4
  <2>2. CASE Others \/ View
    BY <1>0, <2>2 DEF Others, View, Open, Replay, Listen, Disconnect, Watching, Released,
       Reap, Launched, MarkLaunchFailed, FailRow, Cancel, CancelTells, RunReview,
       Dispatched, Compensate, ApiDies, rowVars, Around
  <2> QED BY <2>1, <2>2 DEF Next
<1>3. /\ api' \in {"idle", "launching", "rerunning"} /\ cancel' \in {"idle", "delivering"}
  <2>1. ASSUME NEW r \in Run, Deliver(r) PROVE UNCHANGED <<api, cancel>>
    BY <2>1 DEF Deliver, GuardReads, GuardFails, Claim, ClaimUnanswered, ClaimRefused,
       ClaimRaises, Refuse, RefusalSaid, Decide, Finalize, DeliverOwn, Crash, FinalizeCrash, LastWord, Die, At,
       webVars
  <2>2. CASE Others \/ View
    BY <1>0, <2>2 DEF Others, View, Open, Replay, Listen, Disconnect, Watching, Released,
       Reap, Launched, MarkLaunchFailed, Cancel, CancelTells, RunReview, Dispatched,
       Compensate, ApiDies, webVars, Around
  <2> QED BY <1>0, <2>1, <2>2 DEF Next, Around
<1>4. viewer' \in [at : {"away", "replaying", "live"}, cursor : Nat, shown : Word]
  <2>0. viewer \in [at : {"away", "replaying", "live"}, cursor : Nat, shown : Word]
    BY <1>0 DEF Around
  <2>1. CASE UNCHANGED viewer BY <2>0, <2>1
  <2>2. ASSUME NEW at \in {"away", "replaying", "live"}, NEW cursor \in Nat,
               NEW shown \in Word, Sees(at, cursor, shown)
        PROVE  viewer' \in [at : {"away", "replaying", "live"}, cursor : Nat, shown : Word]
    BY <2>2 DEF Sees
  <2>3. CASE Open \/ Disconnect
    <3>1. None \in Word /\ 0 \in Nat BY DEF Word
    <3> QED BY <2>0, <2>2, <2>3, <3>1 DEF Open, Disconnect
  <2>4. ASSUME viewer.cursor < Len(log), HearsNext
        PROVE  viewer' \in [at : {"away", "replaying", "live"}, cursor : Nat, shown : Word]
    <3>1. viewer.cursor + 1 \in DOMAIN log
      BY <1>0, <2>0, <2>4 DEF LogKeyed
    <3>2. log[viewer.cursor + 1] \in Closings
      BY <1>0, <3>1 DEF LogKeyed
    <3>3. log[viewer.cursor + 1].says \in Word /\ viewer.cursor + 1 \in Nat
      BY <1>0, <2>0, <3>2 DEF Closings
    <3> QED BY <2>2, <2>4, <3>3 DEF HearsNext
  <2>5. ASSUME HearsRow
        PROVE  viewer' \in [at : {"away", "replaying", "live"}, cursor : Nat, shown : Word]
    <3>1. (IF record = None THEN status ELSE record) \in Word
      BY <1>0 DEF Around, DataInv
    <3> QED BY <2>0, <2>2, <2>5, <3>1 DEF HearsRow
  <2>6. CASE Replay \/ Listen
    BY <2>0, <2>2, <2>4, <2>5, <2>6 DEF Replay, Listen
  <2>7. ASSUME NEW r \in Run, Deliver(r) PROVE UNCHANGED viewer
    BY <2>7 DEF Deliver, GuardReads, GuardFails, Claim, ClaimUnanswered, ClaimRefused,
       ClaimRaises, Refuse, RefusalSaid, Decide, Finalize, DeliverOwn, Crash, FinalizeCrash, LastWord, Die, At
  <2>8. CASE Others
    BY <2>8, <2>1 DEF Others, Released, Reap, Launched, MarkLaunchFailed, Cancel,
       CancelTells, RunReview, Dispatched, Compensate, ApiDies
  <2> QED BY <2>1, <2>3, <2>6, <2>7, <2>8 DEF Next, View
<1> QED BY <1>1, <1>2, <1>3, <1>4 DEF Around

----------------------------------------------------------------------------
(* The theorems.                                                           *)

\* EndingInv is inductive, and a finished ending is left alone.
LEMMA EndingStep ==
  ASSUME EndingInv, [Next]_vars
  PROVE  EndingInv' /\ Kept
<1>1. CASE Next
  <2>1. Kept /\ RunsInv'
    BY <1>1, DeliverKept, OthersKept, DeliverRuns, OthersRuns DEF Next
  <2> QED
    BY <2>1 DEF Kept, EndingInv, RunsInv
<1>2. CASE UNCHANGED vars
  <2>1. Kept
    BY <1>2, UntouchedKept DEF EndingInv, vars
  <2>2. RunsInv'
    BY <1>2 DEF EndingInv, RunsInv, Planned, ParkedByOwner, vars
  <2> QED
    BY <2>1, <2>2 DEF Kept, EndingInv, RunsInv
<1> QED
  BY <1>1, <1>2

\* EndingInv holds of a fresh job.
LEMMA EndingInit ==
  ASSUME Init
  PROVE  EndingInv
<1>1. DataInv
  BY DEF Init, DataInv, OutboxTellsTheRecord, ChargeFollowsSuccess,
     OpenParkIsUndecided, Status
<1>2. Planned
  BY DEF Init, Planned, Places, Word
<1>3. ParkedByOwner
  BY DEF Init, ParkedByOwner
<1> QED
  BY <1>1, <1>2, <1>3 DEF EndingInv

\* The inductive invariant of the ending.
THEOREM EndingInvariant == Spec => []EndingInv
<1>1. Init => EndingInv
  BY EndingInit
<1>2. EndingInv /\ [Next]_vars => EndingInv'
  BY EndingStep
<1> QED
  BY <1>1, <1>2, PTL DEF Spec

\* Whatever crashes, repeats or overtakes, the announcement queued under the
\* job's own key is the ending its row records.
THEOREM OutboxTruthful == Spec => []OutboxTellsTheRecord
<1>1. EndingInv => OutboxTellsTheRecord
  BY DEF EndingInv, DataInv
<1> QED
  BY <1>1, EndingInvariant, PTL

\* However often a job parks and is re-run, it is charged at most once, and
\* only if it succeeded.
THEOREM ChargedOnce == Spec => []ChargeFollowsSuccess
<1>1. EndingInv => ChargeFollowsSuccess
  BY DEF EndingInv, DataInv
<1> QED
  BY <1>1, EndingInvariant, PTL

\* An open park stands beside a parked job, or one a crash has failed: never
\* beside a job that runs, has succeeded or was cancelled.
THEOREM ParksUndecided == Spec => []OpenParkIsUndecided
<1>1. EndingInv => OpenParkIsUndecided
  BY DEF EndingInv, DataInv
<1> QED
  BY <1>1, EndingInvariant, PTL

\* A finished job's status, record and charge are final.
THEOREM RecordFinal == Spec => FinishedRecordIsFinal
<1>1. EndingInv /\ [Next]_vars
        => [(status \in Terminal) => UNCHANGED <<status, record, charged>>]_vars
  BY EndingStep DEF Kept
<1> QED
  BY <1>1, EndingInvariant, PTL DEF Spec, FinishedRecordIsFinal

\* The keys and the room to park hold beside it.
THEOREM KeysInvariant == Spec => []KeysInv
<1>1. Init => KeysInv
  <2> SUFFICES ASSUME Init PROVE KeysInv OBVIOUS
  <2>1. OutboxKeyed /\ LogKeyed
    BY DEF Init, OutboxKeyed, LogKeyed
  <2>2. ParkRoom
    BY ParkAssumption DEF Init, ParkRoom
  <2>3. Around
    BY DEF Init, Around, Word
  <2> QED BY <2>1, <2>2, <2>3 DEF KeysInv
<1>2. EndingInv /\ KeysInv /\ [Next]_vars => KeysInv'
  <2> SUFFICES ASSUME EndingInv, KeysInv, [Next]_vars PROVE KeysInv' OBVIOUS
  <2>1. CASE Next
    <3>1. OutboxKeyed' /\ LogKeyed'
      BY <2>1, DeliverKeyed, OthersKeyed DEF Next
    <3>2. ParkRoom'
      BY <2>1, DeliverRoom, OthersRoom DEF Next
    <3>3. Around'
      BY <2>1, AroundKept
    <3> QED BY <3>1, <3>2, <3>3 DEF KeysInv
  <2>2. CASE UNCHANGED vars
    BY <2>2 DEF vars, KeysInv, OutboxKeyed, LogKeyed, ParkRoom, Around
  <2> QED BY <2>1, <2>2
<1> QED
  BY <1>1, <1>2, EndingInvariant, PTL DEF Spec

\* Every variable keeps its type, the job waits for no more reviews than its
\* runs decided to park for, and no closing is in the log twice - whoever of
\* worker, reaper, cancel and publisher says it, and however often.
THEOREM EndingTyped == Spec => []EndingTypeOK
<1>1. EndingInv /\ KeysInv => EndingTypeOK
  <2> SUFFICES ASSUME EndingInv, KeysInv PROVE EndingTypeOK OBVIOUS
  <2>1. outbox \in Seq([key : 0..MaxParks, says : Status, told : BOOLEAN])
    <3>1. outbox \in Seq(OutboxRow) /\ \A i \in DOMAIN outbox : outbox[i].key \in 0..MaxParks
      BY DEF EndingInv, DataInv, KeysInv, OutboxKeyed
    <3>2. \A i \in 1..Len(outbox) :
            outbox[i] \in [key : 0..MaxParks, says : Status, told : BOOLEAN]
      <4>1. ASSUME NEW i \in 1..Len(outbox)
            PROVE  outbox[i] \in OutboxRow /\ outbox[i].key \in 0..MaxParks
        BY <3>1
      <4> QED BY <4>1 DEF OutboxRow
    <3>3. /\ outbox = [i \in 1..Len(outbox) |-> outbox[i]] /\ Len(outbox) \in Nat
      BY <3>1
    <3> DEFINE T == [key : 0..MaxParks, says : Status, told : BOOLEAN]
    <3>4. \A i \in 1..Len(outbox) : outbox[i] \in T BY <3>2
    <3> HIDE DEF T
    <3>5. outbox \in [1..Len(outbox) -> T] BY <3>3, <3>4
    <3>6. outbox \in Seq(T) BY <3>3, <3>5, SeqDef
    <3> QED BY <3>6 DEF T
  <2>2. park \in [n : 0..MaxParks, open : BOOLEAN]
    BY DEF EndingInv, DataInv, KeysInv, ParkRoom
  <2> QED
    BY <2>1, <2>2 DEF EndingTypeOK, EndingInv, DataInv, Planned, KeysInv, LogKeyed, Around
<1> QED
  BY <1>1, EndingInvariant, KeysInvariant, PTL

\* The re-run's request puts its job back in review only while nobody has
\* claimed it: a running job is parked by the run that owns it, in its own
\* terminal commit.
THEOREM OnlyOwnerParks == Spec => OnlyItsRunParksARunningJob
<1> DEFINE Act == status = "running" /\ status' = "pending_review"
                    => \E r \in Run : owner = r /\ pc[r] = "finalizing"
<1>1. ASSUME EndingInv, Next, status = "running", status' = "pending_review"
      PROVE  \E r \in Run : owner = r /\ pc[r] = "finalizing"
  <2>1. CASE Others \/ View
    BY <1>1, <2>1 DEF Others, View, Open, Replay, Listen, Disconnect, Watching, Released,
       Reap, Launched, MarkLaunchFailed, FailRow, Cancel, CancelTells, RunReview,
       Dispatched, Compensate, Reparkable, ApiDies, rowVars
  <2>2. ASSUME NEW r \in Run, Deliver(r)
        PROVE  owner = r /\ pc[r] = "finalizing"
    <3>1. CASE Finalize(r)
      BY <1>1, <3>1 DEF Finalize, At
    <3>2. CASE ~Finalize(r)
      BY <1>1, <2>2, <3>2 DEF Deliver, GuardReads, GuardFails, FailRow, Claim,
         ClaimUnanswered, ClaimRefused, ClaimRaises, Refuse, RefusalSaid, Decide, DeliverOwn,
         Crash, FinalizeCrash, Settle, LastWord, Die, rowVars
    <3> QED BY <3>1, <3>2
  <2> QED BY <1>1, <2>1, <2>2 DEF Next
<1>2. EndingInv /\ [Next]_vars => [Act]_vars
  BY <1>1
<1>3. OnlyItsRunParksARunningJob <=> [][Act]_vars
  BY DEF OnlyItsRunParksARunningJob, Act
<1> HIDE DEF Act
<1> QED
  BY <1>2, <1>3, EndingInvariant, PTL DEF Spec

\* finalize_terminal_atomic and the failures by status alone consult the table;
\* the claim, the releases, cancel and the review compare the status, and what
\* a run means to end with is an ending: the job moves along the table.
THEOREM EndingKeepsTheLifecycle == Spec => KeepsTheLifecycle
<1>1. Init => Lifecycle!LifeInit
  BY DEF Init, Lifecycle!LifeInit
<1>2. EndingInv /\ [Next]_vars =>
        [\E to \in Lifecycle!Status : Lifecycle!Move(to)]_status
  <2> DEFINE Moves == UNCHANGED status \/ \E to \in Lifecycle!Status : Lifecycle!Move(to)
  <2> SUFFICES ASSUME EndingInv, [Next]_vars PROVE Moves
    OBVIOUS
  <2> USE DEF rowVars, endVars, Terminal
  <2>1. /\ \A to : Lifecycle!Move(to) <=> status \in LegalSources[to] /\ status' = to
        /\ Lifecycle!Status = Status
    BY DEF Lifecycle!Move, Lifecycle!LegalSources, LegalSources, Lifecycle!Status,
           Lifecycle!Terminal, Status
  <2>m. ASSUME NEW to \in Status, status \in LegalSources[to], status' = to PROVE Moves
    BY <2>1, <2>m
  <2>f. ASSUME NEW S, FailRow(S) PROVE Moves
    BY <2>f, <2>m DEF FailRow, Status
  <2>s. ASSUME NEW to \in Status, Settle(to) PROVE Moves
    BY <2>s, <2>m DEF Settle
  <2>2. ASSUME NEW r \in Run, Deliver(r) PROVE Moves
    <3>1. CASE GuardFails(r) \/ Refuse(r)
      BY <3>1, <2>f DEF GuardFails, Refuse
    <3>2. CASE Claim(r) \/ ClaimUnanswered(r)
      BY <3>2, <2>m DEF Claim, ClaimUnanswered, LegalSources, Status
    <3>3. CASE Finalize(r)
      <4>1. pc[r] = "finalizing" => plan[r] \in Ending
        BY DEF EndingInv, Planned
      <4>2. \A to \in Recordable(plan[r]) : pc[r] = "finalizing" => to \in Status
        BY <4>1 DEF Recordable, Ending, Status
      <4> QED BY <3>3, <4>2, <2>s DEF Finalize, At
    <3>4. CASE FinalizeCrash(r)
      BY <3>4, <2>s DEF FinalizeCrash, Status
    <3>5. CASE \/ GuardReads(r) \/ ClaimRefused(r) \/ ClaimRaises(r) \/ RefusalSaid(r)
               \/ Decide(r) \/ DeliverOwn(r) \/ Crash(r) \/ LastWord(r) \/ Die(r)
      BY <3>5 DEF GuardReads, ClaimRefused, ClaimRaises, RefusalSaid, Decide,
                  DeliverOwn, Crash, LastWord, Die
    <3> QED BY <2>2, <3>1, <3>2, <3>3, <3>4, <3>5 DEF Deliver
  <2>3. CASE Others
    <3>1. CASE MarkLaunchFailed BY <3>1, <2>f DEF MarkLaunchFailed
    <3>2. CASE Released \/ RunReview \/ Reap \/ Cancel
      <4>1. status \in Status BY DEF EndingInv, DataInv
      <4> QED
        BY <3>2, <4>1, <2>m DEF Released, RunReview, Reap, Cancel, LegalSources, Status
    <3>3. CASE Compensate
      BY <3>3, <2>m DEF Compensate, Reparkable, LegalSources, Status
    <3>4. CASE Launched \/ CancelTells \/ Dispatched \/ ApiDies
      BY <3>4 DEF Launched, CancelTells, Dispatched, ApiDies
    <3> QED BY <2>3, <3>1, <3>2, <3>3, <3>4 DEF Others
  <2>4. CASE View \/ UNCHANGED vars
    BY <2>4 DEF View, Open, Replay, Listen, Disconnect, Watching, vars
  <2> QED BY <2>2, <2>3, <2>4 DEF Next
<1> QED
  BY <1>1, <1>2, EndingInvariant, PTL DEF Spec, KeepsTheLifecycle, Lifecycle!LifeSpec
=============================================================================
