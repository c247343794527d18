--------------------------- MODULE JobLease_proofs ---------------------------
(***************************************************************************)
(* What JobLease guarantees for every set of processes, every length of    *)
(* lease, budget, grace and ceiling, and every bound.                      *)
(***************************************************************************)
EXTENDS JobLease, TLAPS

(* What each update of the row leaves behind.                              *)

\* Writing the status, as transition() and the reaper do, leaves the claim and
\* the clocks of the row alone.
LEMMA StatusUpdate ==
  ASSUME NEW r \in Row, NEW s \in Status
  PROVE  LET q == [r EXCEPT !.status = s] IN
         /\ q \in Row
         /\ q.status = s
         /\ q.gen = r.gen /\ q.epoch = r.epoch /\ q.token = r.token
         /\ q.exec = r.exec /\ q.lease = r.lease
         /\ q.deadline = r.deadline /\ q.started = r.started
BY DEF Row

\* Clearing the release mark (confirm_requeued) touches the lease only.
LEMMA MarkCleared ==
  ASSUME NEW r \in Row
  PROVE  LET q == [r EXCEPT !.lease = NULL] IN
         /\ q \in Row
         /\ q.status = r.status
         /\ q.gen = r.gen /\ q.epoch = r.epoch /\ q.token = r.token
         /\ q.exec = r.exec /\ q.lease = NULL
         /\ q.deadline = r.deadline /\ q.started = r.started
BY DEF Row, Time, NULL

\* A hand-back leaves a pending row without a token, marked with its time, and
\* keeps generation, deadline and start.
LEMMA ReleasedRow ==
  ASSUME NEW r \in Row, NEW t \in Nat
  PROVE  LET q == Released(r, t) IN
         /\ q \in Row
         /\ q.status = "pending" /\ q.token = 0 /\ q.lease = t
         /\ q.gen = r.gen /\ q.epoch = r.epoch /\ q.exec = r.exec
         /\ q.deadline = r.deadline /\ q.started = r.started
BY DEF Row, Time, Released, Status

\* The reaper's re-run is a release that also remembers the re-run.
LEMMA RerunRow ==
  ASSUME NEW r \in Row, NEW t \in Nat, NEW b \in BOOLEAN
  PROVE  LET m == [Released(r, t) EXCEPT !.rerun = @ \/ b] IN
         /\ m \in Row
         /\ m.status = "pending" /\ m.token = 0 /\ m.lease = t
         /\ m.gen = r.gen /\ m.epoch = r.epoch /\ m.exec = r.exec
         /\ m.deadline = r.deadline /\ m.started = r.started
BY DEF Row, Time, Released, Status

\* A cancel evicts the owner and keeps the generation and the deadline.
LEMMA CancelledRow ==
  ASSUME NEW r \in Row, NEW t \in Nat
  PROVE  LET q == [Evicted(r, t) EXCEPT !.status = "cancelled"] IN
         /\ q \in Row
         /\ q.status = "cancelled" /\ q.token = 0
         /\ q.lease \in {r.lease, t}
         /\ q.gen = r.gen /\ q.epoch = r.epoch /\ q.exec = r.exec
         /\ q.deadline = r.deadline /\ q.started = r.started
<1>1. CASE r.token = 0
  BY <1>1 DEF Row, Time, Evicted, Status, Terminal
<1>2. CASE r.token # 0
  BY <1>2 DEF Row, Time, Evicted, Status, Terminal
<1> QED
  BY <1>1, <1>2

\* A claim names a new token, leases the row and gives it a deadline.
LEMMA ClaimedRow ==
  ASSUME NEW r \in Row, NEW t \in Nat, NEW w \in Process
  PROVE  LET q == Claimed(w, r, t) IN
         /\ q \in Row
         /\ q.status = "running" /\ q.token = r.epoch + 1 /\ q.epoch = r.epoch + 1
         /\ q.gen \in {r.gen, r.gen + 1}
         /\ q.gen = r.gen => r.gen > 0 /\ r.exec = w
         /\ q.exec = w /\ q.lease = t + Lease
         /\ q.deadline \in {r.deadline, t + Budget} /\ q.deadline # NULL
         /\ q.started
BY DurationAssumption DEF Row, Time, NULL, Claimed, SameExecution, Status

\* The sweep's resting state is a sweep.
LEMMA RestingSweep == Resting \in Sweep
BY DEF Resting, Sweep, Status, Time, NULL

(* What the shared parts of the actions do.                                *)

\* transition() changes nothing but the status, and nothing of a finished row.
LEMMA TransitionEffect ==
  ASSUME row \in Row, NEW s \in {"failed", "succeeded", "pending_review"},
         Transition(s)
  PROVE  /\ row' \in Row
         /\ row' = row \/ row'.status = s
         /\ row.status \in Terminal => row' = row
         /\ row'.gen = row.gen /\ row'.epoch = row.epoch
         /\ row'.token = row.token /\ row'.exec = row.exec
         /\ row'.lease = row.lease /\ row'.deadline = row.deadline
         /\ row'.started = row.started
<1>1. s \in Status
  BY DEF Status, Terminal
<1>2. CASE row.status \in LegalSources[s]
  <2>1. row' = [row EXCEPT !.status = s]
    BY <1>2 DEF Transition
  <2>2. row.status \notin Terminal
    BY <1>2 DEF LegalSources, Terminal
  <2> QED
    BY <1>1, <2>1, <2>2, StatusUpdate
<1>3. CASE row.status \notin LegalSources[s]
  BY <1>3 DEF Transition
<1> QED
  BY <1>2, <1>3

\* A fail path without a fence changes nothing but the status, and nothing of
\* a finished row.
LEMMA FailEffect ==
  ASSUME row \in Row, FailUnfenced
  PROVE  /\ row' \in Row
         /\ row' = row \/ row'.status = "failed"
         /\ row.status \in Terminal => row' = row
         /\ row'.gen = row.gen /\ row'.epoch = row.epoch
         /\ row'.token = row.token /\ row'.exec = row.exec
         /\ row'.lease = row.lease /\ row'.deadline = row.deadline
         /\ row'.started = row.started
BY TransitionEffect DEF FailUnfenced

\* A confirmation changes only the lease of a pending row.
LEMMA ConfirmEffect ==
  ASSUME row \in Row, NEW t, ConfirmRequeued(t)
  PROVE  /\ row' \in Row
         /\ row' = row \/ row.status = "pending"
         /\ row'.status = row.status
         /\ row'.gen = row.gen /\ row'.epoch = row.epoch
         /\ row'.token = row.token /\ row'.exec = row.exec
         /\ row'.lease \in {row.lease, NULL} /\ row'.deadline = row.deadline
         /\ row'.started = row.started
BY MarkCleared DEF ConfirmRequeued

\* A heartbeat changes only lease and deadline, and only of an unfinished row.
LEMMA BeatEffect ==
  ASSUME row \in Row, clock \in Nat, NEW w, NEW d \in Time, Beat(w, d)
  PROVE  /\ row' \in Row
         /\ row'.status = row.status
         /\ row'.gen = row.gen /\ row'.epoch = row.epoch
         /\ row'.token = row.token /\ row'.exec = row.exec
         /\ row'.lease \in {row.lease, clock + Lease}
         /\ row'.deadline \in {row.deadline, d}
         /\ row'.started = row.started
<1>1. CASE IsCurrentOwner(own[w], row)
  <2>1. PICK l \in {row.lease, clock + Lease} :
          row' = [row EXCEPT !.deadline = d, !.lease = l]
    BY <1>1 DEF Beat
  <2>2. l \in Time
    BY <2>1, DurationAssumption DEF Row, Time
  <2> QED
    BY <2>1, <2>2 DEF Row
<1>2. CASE ~IsCurrentOwner(own[w], row)
  BY <1>2 DEF Beat
<1> QED
  BY <1>1, <1>2

ProcTyped == /\ pc \in [Process -> Place]
             /\ own \in [Process -> Ownership]
             /\ mark \in [Process -> Time] /\ taken \in [Process -> Time]

\* A task that leaves drops its ownership and disturbs no other process.
LEMMA LeaveEffect ==
  ASSUME ProcTyped, NEW w \in Process, NEW place \in Place, Leave(w, place)
  PROVE  /\ ProcTyped'
         /\ \A v \in Process \ {w} : pc'[v] = pc[v] /\ own'[v] = own[v]
         /\ pc'[w] = place /\ own'[w] = NoOwn
BY DEF ProcTyped, Leave, Go, Ownership, NoOwn, Time, NULL

\* A task that moves on keeps its ownership and disturbs no other process.
LEMMA StayEffect ==
  ASSUME ProcTyped, NEW w \in Process, NEW place \in Place, Go(w, place),
         UNCHANGED <<own, mark, taken>>
  PROVE  /\ ProcTyped'
         /\ \A v \in Process \ {w} : pc'[v] = pc[v]
         /\ pc'[w] = place
BY DEF ProcTyped, Go

(* Every step keeps the shape of the state.                                *)

\* Every step of every actor keeps the types.
LEMMA StepType == ASSUME TypeOK, [Next]_vars PROVE TypeOK'
<1> USE DEF TypeOK, procVars, brokerVars, lifeVars
<1>0. ProcTyped
  BY DEF ProcTyped
<1>1. CASE LaunchAccepted
  BY <1>1 DEF LaunchAccepted
<1>2. CASE LaunchRaises
  BY <1>2 DEF LaunchRaises
<1>3. CASE MarkLaunchFailed
  BY <1>3, FailEffect DEF MarkLaunchFailed
<1>4. CASE ApiDies
  BY <1>4 DEF ApiDies
<1>5. CASE Cancel
  BY <1>5, CancelledRow DEF Cancel
<1>6. CASE ReapSelect
  BY <1>6 DEF ReapSelect, Sweep, Row, RerunEligible
<1>7. CASE ReapRerun
  <2>1. CASE RerunAllowed
    <3>1. row' \in Row
      <4>1. PICK b \in BOOLEAN :
              row' = [Released(row, reaper.at) EXCEPT !.rerun = @ \/ b]
        BY <1>7, <2>1 DEF ReapRerun
      <4>2. reaper.at \in Nat
        BY DEF Sweep
      <4> QED
        BY <4>1, <4>2, RerunRow
    <3>2. reaper' \in Sweep
      BY <1>7, <2>1 DEF ReapRerun, Sweep
    <3> QED
      BY <1>7, <3>1, <3>2 DEF ReapRerun
  <2>2. CASE ~RerunAllowed
    BY <1>7, <2>2, RestingSweep DEF ReapRerun
  <2> QED
    BY <2>1, <2>2
<1>8. CASE ReapFail
  <2>1. row' \in Row
    BY <1>8, StatusUpdate DEF ReapFail, Status, Terminal
  <2> QED
    BY <1>8, <2>1, RestingSweep DEF ReapFail
<1>9. CASE ReapRelaunch
  <2>1. reaper' \in Sweep
    <3>1. CASE reaper' = Resting
      BY <3>1, RestingSweep
    <3>2. CASE reaper' = [reaper EXCEPT !.pc = "confirming"]
      BY <3>2 DEF Sweep
    <3> QED
      BY <1>9, <3>1, <3>2 DEF ReapRelaunch
  <2>2. queue' \in Nat
    BY <1>9 DEF ReapRelaunch
  <2> QED
    BY <1>9, <2>1, <2>2 DEF ReapRelaunch
<1>10. CASE ReapConfirm
  <2>1. row' \in Row
    BY <1>10, ConfirmEffect DEF ReapConfirm
  <2> QED
    BY <1>10, <2>1, RestingSweep DEF ReapConfirm
<1>11. CASE ReaperDies
  BY <1>11, RestingSweep DEF ReaperDies
<1>12. CASE Tick
  BY <1>12 DEF Tick
<1>13. ASSUME NEW w \in Process, Deliver(w)
       PROVE  TypeOK'
  <2>1. CASE Take(w)
    BY <2>1, DurationAssumption, BoundAssumption DEF Take, ReturnsAt, Go, Place, Time
  <2>2. CASE GuardReads(w)
    <3>1. CASE Leave(w, "idle")
      BY <1>0, <2>2, <3>1, LeaveEffect DEF GuardReads, ProcTyped, Place
    <3>2. CASE Go(w, "poison") /\ UNCHANGED <<own, mark, taken>>
      BY <1>0, <2>2, <3>2, StayEffect DEF GuardReads, ProcTyped, Place
    <3> QED
      BY <2>2, <3>1, <3>2 DEF GuardReads
  <2>3. CASE GuardFails(w)
    BY <1>0, <2>3, LeaveEffect, FailEffect DEF GuardFails, ProcTyped, Place
  <2>4. CASE Claim(w)
    <3>1. row' \in Row
      BY <2>4, ClaimedRow DEF Claim
    <3>2. own' \in [Process -> Ownership]
      BY <2>4, <3>1 DEF Claim, Row, Ownership
    <3> QED
      BY <2>4, <3>1, <3>2 DEF Claim, Go, Place
  <2>5. CASE ClaimRefused(w)
    BY <1>0, <2>5, LeaveEffect DEF ClaimRefused, ProcTyped, Place
  <2>6. CASE Requeue(w)
    BY <1>0, <2>6, LeaveEffect DEF Requeue, ProcTyped, Place
  <2>7. CASE ClaimRaises(w)
    BY <1>0, <2>7, StayEffect DEF ClaimRaises, Step, ProcTyped, Place
  <2>8. CASE FenceInstalled(w)
    BY <1>0, <2>8, StayEffect DEF FenceInstalled, Step, ProcTyped, Place
  <2>9. CASE FenceUnavailable(w)
    BY <1>0, <2>9, LeaveEffect DEF FenceUnavailable, ProcTyped, Place
  <2>10. CASE Refuse(w)
    BY <1>0, <2>10, LeaveEffect, FailEffect DEF Refuse, ProcTyped, Place
  <2>11. CASE Start(w)
    BY <1>0, <2>11, StayEffect DEF Start, Step, ProcTyped, Place
  <2>12. CASE ClaimUnanswered(w)
    BY <2>12, ClaimedRow DEF ClaimUnanswered
  <2> QED
    BY <1>13, <2>1, <2>2, <2>3, <2>4, <2>5, <2>6, <2>7, <2>8, <2>9, <2>10,
       <2>11, <2>12 DEF Deliver
<1>14. ASSUME NEW w \in Process, Run(w)
       PROVE  TypeOK'
  <2>1. ASSUME NEW d \in Time, Beat(w, d)
        PROVE  TypeOK'
    <3>1. row' \in Row
      BY <2>1, BeatEffect
    <3>2. pc' \in [Process -> Place]
      BY <2>1 DEF Beat, Go, Place
    <3> QED
      BY <2>1, <3>1, <3>2 DEF Beat
  <2>2. CASE Heartbeat(w)
    BY <2>1, <2>2 DEF Heartbeat, Row
  <2>3. CASE HeartbeatWithProgress(w)
    BY <2>1, <2>3, DurationAssumption DEF HeartbeatWithProgress, Time
  <2>4. CASE StillOwner(w)
    <3>1. CASE IsCurrentOwner(own[w], row)
      BY <1>0, <2>4, <3>1, StayEffect DEF StillOwner, ProcTyped, Place
    <3>2. CASE ~IsCurrentOwner(own[w], row)
      BY <1>0, <2>4, <3>2, LeaveEffect DEF StillOwner, ProcTyped, Place
    <3> QED
      BY <3>1, <3>2
  <2>5. CASE Register(w)
    <3>1. CASE IsCurrentOwner(own[w], row)
      BY <1>0, <2>5, <3>1, StayEffect DEF Register, ProcTyped, Place, Ownership
    <3>2. CASE ~IsCurrentOwner(own[w], row)
      BY <1>0, <2>5, <3>2, LeaveEffect DEF Register, ProcTyped, Place
    <3> QED
      BY <3>1, <3>2
  <2>6. CASE Finalize(w)
    <3>1. PICK s \in {"failed", "pending_review", "succeeded"} : FinalizeAs(w, s)
      BY <2>6 DEF Finalize
    <3>2. CASE Holds(own[w], row)
      BY <1>0, <2>6, <3>1, <3>2, StayEffect, TransitionEffect
         DEF Finalize, FinalizeAs, ProcTyped, Place
    <3>3. CASE ~Holds(own[w], row)
      BY <1>0, <2>6, <3>1, <3>3, LeaveEffect
         DEF Finalize, FinalizeAs, ProcTyped, Place
    <3> QED
      BY <3>2, <3>3
  <2>7. CASE Return(w)
    BY <1>0, <2>7, LeaveEffect DEF Return, ProcTyped, Place
  <2>8. CASE Crash(w)
    BY <1>0, <2>8, StayEffect DEF Crash, Step, ProcTyped, Place
  <2>9. CASE FinalizeCrash(w)
    <3>1. row' \in Row
      BY <2>9, FailEffect DEF FinalizeCrash
    <3> QED
      BY <1>0, <2>9, <3>1, LeaveEffect DEF FinalizeCrash, ProcTyped, Place
  <2> QED
    BY <1>14, <2>2, <2>3, <2>4, <2>5, <2>6, <2>7, <2>8, <2>9 DEF Run
<1>15. ASSUME NEW w \in Process, Move(w)
       PROVE  TypeOK'
  <2>1. CASE Drain(w)
    BY <1>0, <2>1, StayEffect DEF Drain, Step, ProcTyped, Place
  <2>2. CASE HandBack(w)
    <3>1. CASE row' = Released(row, clock) /\ mark' = [mark EXCEPT ![w] = clock]
               /\ Go(w, "relaunching") /\ UNCHANGED <<own, taken>>
      BY <2>2, <3>1, ReleasedRow DEF HandBack, Go, Place, Time
    <3>2. CASE UNCHANGED row /\ Leave(w, "gone")
      BY <1>0, <2>2, <3>2, LeaveEffect DEF HandBack, ProcTyped, Place
    <3> QED
      BY <2>2, <3>1, <3>2 DEF HandBack
  <2>3. CASE Relaunch(w)
    <3>1. deliveries' \in Nat /\ queue' \in Nat
      BY <2>3 DEF Relaunch
    <3>2. ProcTyped'
      BY <1>0, <2>3, LeaveEffect, StayEffect DEF Relaunch, Place
    <3> QED
      BY <2>3, <3>1, <3>2 DEF Relaunch, ProcTyped
  <2>4. CASE Confirm(w)
    BY <1>0, <2>4, ConfirmEffect, LeaveEffect DEF Confirm, ProcTyped, Place
  <2> QED
    BY <1>15, <2>1, <2>2, <2>3, <2>4 DEF Move
<1>16. ASSUME NEW w \in Process, Die(w)
       PROVE  TypeOK'
  BY <1>16 DEF Die, Go, Place, Ownership, NoOwn, Time, NULL
<1>17. ASSUME NEW w \in Process, BrokerReturns(w)
       PROVE  TypeOK'
  BY <1>17 DEF BrokerReturns, Time, NULL
<1>18. CASE UNCHANGED vars
  BY <1>18 DEF vars
<1> QED
  BY <1>1, <1>2, <1>3, <1>4, <1>5, <1>6, <1>7, <1>8, <1>9, <1>10, <1>11, <1>12,
     <1>13, <1>14, <1>15, <1>16, <1>17, <1>18 DEF Next, Reap

\* The type invariant: every reachable state has the shape of the code's.
THEOREM TypeCorrect == Spec => []TypeOK
<1>1. Init => TypeOK
  BY ProcessAssumption
     DEF Init, TypeOK, Row, Ownership, Sweep, Status, Terminal, Place, Time,
         NULL, NoOwn, Resting
<1>2. TypeOK /\ [Next]_vars => TypeOK'
  BY StepType
<1> QED
  BY <1>1, <1>2, PTL DEF Spec

----------------------------------------------------------------------------
(* Everything that can happen to the row in one step.                      *)

SameClaim == row'.gen = row.gen /\ row'.epoch = row.epoch /\ row'.exec = row.exec
SameClock == /\ row'.lease = row.lease /\ row'.deadline = row.deadline
             /\ row'.started = row.started
StatusOnly(s) == /\ row.status \notin Terminal /\ row'.status = s
                 /\ row'.token = row.token /\ SameClaim /\ SameClock
Delivered == \E w \in Process : /\ pc[w] = "registered" /\ Holds(own[w], row)
                                /\ StatusOnly("succeeded")
Unclaimed == /\ row.status \in {"pending", "running"} /\ row'.status = "pending"
             /\ row'.token = 0 /\ row'.lease \in Nat /\ row'.lease <= clock
             /\ row'.deadline = row.deadline /\ row'.started = row.started
             /\ SameClaim
             /\ \/ ~LeaseActive(row, clock)
                \/ \E w \in Process : Holds(own[w], row) /\ pc'[w] = "relaunching"
Cancelled == /\ row.status \notin Terminal /\ row'.status = "cancelled"
             /\ row'.token = 0 /\ row'.lease \in {row.lease, clock}
             /\ row'.deadline = row.deadline /\ row'.started = row.started
             /\ SameClaim
Renewed == /\ row'.status = row.status /\ row'.token = row.token
           /\ row.status \notin Terminal
           /\ row'.lease \in {row.lease, clock + Lease}
           /\ row'.deadline \in {row.deadline, clock + Grace}
           /\ row'.started = row.started /\ SameClaim
           /\ \E w \in Process : /\ pc[w] \in {"running", "unbeating"}
                                 /\ IsCurrentOwner(own[w], row)
Confirmed == /\ row.status = "pending" /\ row'.status = row.status
             /\ row'.token = row.token /\ row'.lease \in {row.lease, NULL}
             /\ row'.deadline = row.deadline /\ row'.started = row.started
             /\ SameClaim

\* A claim, its answer received or lost.
Claims(w) == Claim(w) \/ ClaimUnanswered(w)

RowStep == \/ row' = row
           \/ StatusOnly("failed") \/ StatusOnly("pending_review") \/ Delivered
           \/ Unclaimed \/ Cancelled \/ Renewed \/ Confirmed
           \/ \E w \in Process : Claims(w)

\* A fail path is one of the kinds of row step below.
LEMMA FailStep == ASSUME row \in Row, FailUnfenced
                  PROVE  row' = row \/ StatusOnly("failed")
BY FailEffect DEF StatusOnly, SameClaim, SameClock

\* So is a confirmation ...
LEMMA ConfirmStep == ASSUME row \in Row, NEW t, ConfirmRequeued(t)
                     PROVE  row' = row \/ Confirmed
BY ConfirmEffect DEF Confirmed, SameClaim

\* ... and a heartbeat, its deadline extended or not.
LEMMA BeatStep ==
  ASSUME row \in Row, clock \in Nat, NEW w \in Process,
         NEW d \in {row.deadline, clock + Grace}, Beat(w, d)
  PROVE  row' = row \/ Renewed
<1>1. d \in Time
  BY DurationAssumption DEF Row, Time
<1>2. CASE IsCurrentOwner(own[w], row)
  <2>1. pc[w] \in {"running", "unbeating"}
    BY DEF Beat
  <2> QED
    BY <1>1, <1>2, <2>1, BeatEffect DEF Renewed, SameClaim, IsCurrentOwner
<1>3. CASE ~IsCurrentOwner(own[w], row)
  BY <1>3 DEF Beat
<1> QED
  BY <1>2, <1>3

\* What any step of the system does to the row is one of nine kinds.
LEMMA RowSteps ==
  ASSUME TypeOK, UnfinishedRowHasClock, SweepIsAboutTheExpired, [Next]_vars
  PROVE  RowStep
<1> USE DEF TypeOK
<1>1. CASE LaunchAccepted \/ LaunchRaises \/ ApiDies \/ ReapSelect \/ ReapRelaunch
           \/ ReaperDies \/ Tick
  BY <1>1 DEF LaunchAccepted, LaunchRaises, ApiDies, ReapSelect, ReapRelaunch,
              ReaperDies, Tick, RowStep
<1>2. CASE MarkLaunchFailed
  BY <1>2, FailStep DEF MarkLaunchFailed, RowStep
<1>3. CASE Cancel
  BY <1>3, CancelledRow DEF Cancel, RowStep, Cancelled, SameClaim
<1>4. CASE ReapRerun
  <2>1. CASE RerunAllowed
    <3>1. PICK b \in BOOLEAN :
            row' = [Released(row, reaper.at) EXCEPT !.rerun = @ \/ b]
      BY <1>4, <2>1 DEF ReapRerun
    <3>2. reaper.at \in Nat /\ reaper.at <= clock
      BY DEF Sweep, SweepIsAboutTheExpired
    <3>3. row.status \in {"pending", "running"}
      BY <1>4, <2>1 DEF RerunAllowed, SweepIsAboutTheExpired, ReapRerun
    <3>4. ~LeaseActive(row, clock)
      <4>1. reaper.pc = "selected" /\ reaper.rerun
        BY <1>4 DEF ReapRerun
      <4>2. CASE row.status = "running"
        BY <2>1, <3>2, <4>1, <4>2
           DEF RerunAllowed, SweepIsAboutTheExpired, LeaseActive, Row, Time, NULL
      <4>3. CASE row.status = "pending"
        BY <4>3 DEF UnfinishedRowHasClock, LeaseActive
      <4> QED
        BY <3>3, <4>2, <4>3
    <3>5. Unclaimed
      BY <3>1, <3>2, <3>3, <3>4, RerunRow DEF Unclaimed, SameClaim
    <3> QED
      BY <3>5 DEF RowStep
  <2> QED
    BY <1>4, <2>1 DEF ReapRerun, RowStep
<1>5. CASE ReapFail
  <2>1. CASE row.status = reaper.was
    <3>1. row.status \notin Terminal
      BY <1>5, <2>1 DEF ReapFail, SweepIsAboutTheExpired, Terminal
    <3> QED
      BY <1>5, <2>1, <3>1, StatusUpdate
         DEF ReapFail, RowStep, StatusOnly, SameClaim, SameClock, Status, Terminal
  <2> QED
    BY <1>5, <2>1 DEF ReapFail, RowStep
<1>6. CASE ReapConfirm
  BY <1>6, ConfirmStep DEF ReapConfirm, RowStep
<1>7. ASSUME NEW w \in Process, Deliver(w)
      PROVE  RowStep
  BY <1>7, FailStep
     DEF Deliver, Take, GuardReads, GuardFails, Claims, ClaimRefused, Requeue, ClaimRaises, FenceInstalled,
         FenceUnavailable, Refuse, Start, RowStep
<1>8. ASSUME NEW w \in Process, Run(w)
      PROVE  RowStep
  <2>1. CASE Heartbeat(w) \/ HeartbeatWithProgress(w)
    BY <2>1, BeatStep DEF Heartbeat, HeartbeatWithProgress, RowStep
  <2>2. CASE Finalize(w)
    <3>1. PICK s \in {"failed", "pending_review", "succeeded"} :
            FinalizeAs(w, s) /\ (s = "succeeded" => pc[w] = "registered")
      BY <2>2 DEF Finalize
    <3>2. CASE Holds(own[w], row)
      BY <3>1, <3>2, TransitionEffect
         DEF FinalizeAs, RowStep, StatusOnly, Delivered, SameClaim, SameClock
    <3>3. CASE ~Holds(own[w], row)
      BY <3>1, <3>3 DEF FinalizeAs, RowStep
    <3> QED
      BY <3>2, <3>3
  <2>3. CASE FinalizeCrash(w)
    BY <2>3, FailStep DEF FinalizeCrash, RowStep
  <2>4. CASE StillOwner(w) \/ Register(w) \/ Return(w) \/ Crash(w)
    BY <2>4 DEF StillOwner, Register, Return, Crash, RowStep
  <2> QED
    BY <1>8, <2>1, <2>2, <2>3, <2>4 DEF Run
<1>9. ASSUME NEW w \in Process, Move(w)
      PROVE  RowStep
  <2>1. CASE HandBack(w)
    <3>1. CASE row.status = "running" /\ row' = Released(row, clock)
               /\ Holds(own[w], row) /\ Go(w, "relaunching")
      <4>1. row' = Released(row, clock) /\ clock \in Nat /\ row \in Row
        BY <3>1
      <4>2. pc'[w] = "relaunching"
        BY <3>1 DEF Go
      <4>3. SameClaim /\ row'.status = "pending" /\ row'.token = 0
            /\ row'.lease = clock
            /\ row'.deadline = row.deadline /\ row'.started = row.started
        BY <4>1, ReleasedRow DEF SameClaim
      <4>4. Unclaimed
        BY <3>1, <4>1, <4>2, <4>3 DEF Unclaimed
      <4> QED
        BY <4>4 DEF RowStep
    <3> QED
      BY <2>1, <3>1 DEF HandBack, RowStep
  <2>2. CASE Confirm(w)
    BY <2>2, ConfirmStep DEF Confirm, RowStep
  <2> QED
    BY <1>9, <2>1, <2>2 DEF Move, Drain, Relaunch, RowStep
<1>10. ASSUME NEW w \in Process, Die(w) \/ BrokerReturns(w)
       PROVE  RowStep
  BY <1>10 DEF Die, BrokerReturns, RowStep
<1>11. CASE UNCHANGED vars
  BY <1>11 DEF vars, RowStep
<1> QED
  BY <1>1, <1>2, <1>3, <1>4, <1>5, <1>6, <1>7, <1>8, <1>9, <1>10, <1>11
     DEF Next, Reap

----------------------------------------------------------------------------
(* Who owns what: every step but a claim and a registration is quiet.      *)

QuietProcess(w) ==
  \/ own'[w] = NoOwn /\ pc'[w] \notin Owning
  \/ own'[w] = own[w] /\ pc'[w] = pc[w]
  \/ /\ own'[w] = own[w] /\ pc[w] \in Owning
     /\ pc'[w] \in (Owning \cup {"crashing"}) \ {"registered"}

QuietRow == SameClaim /\ row'.token \in {row.token, 0}

QuietStep == /\ QuietRow /\ registered' = registered
             /\ \A w \in Process : QuietProcess(w)

Registers(w) ==
  /\ pc[w] = "ending" /\ IsCurrentOwner(own[w], row) /\ registered' = own[w].tok
  /\ row' = row /\ Go(w, "registered") /\ UNCHANGED <<own, mark, taken>>

\* Only a claim makes a token: every other step keeps or clears it.
LEMMA QuietRowSteps ==
  ASSUME TypeOK, UnfinishedRowHasClock, SweepIsAboutTheExpired,
         [Next]_vars
  PROVE  QuietRow \/ \E w \in Process : Claims(w)
BY RowSteps DEF RowStep, StatusOnly, Delivered, Unclaimed, Cancelled, Renewed,
                Confirmed, SameClaim, QuietRow

\* Processes that do not move are quiet.
LEMMA QuietStay == ASSUME UNCHANGED <<pc, own>>
                   PROVE  \A w \in Process : QuietProcess(w)
BY DEF QuietProcess

\* A process that leaves is quiet: it holds nothing afterwards.
LEMMA QuietLeave ==
  ASSUME ProcTyped, NEW w \in Process, NEW place \in {"idle", "gone"},
         Leave(w, place)
  PROVE  \A v \in Process : QuietProcess(v)
BY LeaveEffect DEF QuietProcess, Owning, Place

\* A process that keeps its ownership, or has none, is quiet unless it has just
\* registered its artifacts.
LEMMA QuietGo ==
  ASSUME ProcTyped, NEW w \in Process, NEW place \in Place, Go(w, place),
         UNCHANGED own,
         \/ pc[w] \in Owning /\ place \in (Owning \cup {"crashing"}) \ {"registered"}
         \/ own[w] = NoOwn /\ place \notin Owning
  PROVE  \A v \in Process : QuietProcess(v)
BY DEF ProcTyped, Go, QuietProcess

\* Every step is quiet, a claim, or a registration under the row lock.
LEMMA QuietSteps ==
  ASSUME TypeOK, ClaimsAreOrdered, UnfinishedRowHasClock, SweepIsAboutTheExpired,
         [Next]_vars
  PROVE  QuietStep \/ \E w \in Process : Claims(w) \/ Registers(w)
<1> DEFINE Procs == \A w \in Process : QuietProcess(w)
<1>0. ProcTyped
  BY DEF ProcTyped, TypeOK
<1>a. \A w \in Process : pc[w] \notin Owning \cup {"crashing"} => own[w] = NoOwn
  BY DEF ClaimsAreOrdered
<1>1. CASE LaunchAccepted \/ LaunchRaises \/ MarkLaunchFailed \/ ApiDies \/ Cancel
           \/ Reap \/ ReaperDies \/ Tick \/ UNCHANGED vars
  <2>1. UNCHANGED <<pc, own>> /\ registered' = registered
    BY <1>1 DEF LaunchAccepted, LaunchRaises, MarkLaunchFailed, ApiDies, Cancel,
                Reap, ReapSelect, ReapRerun, ReapFail, ReapRelaunch, ReapConfirm,
                ReaperDies, Tick, vars, procVars, lifeVars
  <2> QED
    BY <2>1, QuietStay, QuietRowSteps DEF QuietStep
<1>2. ASSUME NEW w \in Process, Deliver(w)
      PROVE  (Procs /\ registered' = registered) \/ Claims(w)
  <2>1. CASE Take(w)
    BY <1>0, <1>a, <2>1, QuietGo DEF Take, lifeVars, Owning, Place
  <2>2. CASE GuardReads(w)
    BY <1>0, <1>a, <2>2, QuietGo, QuietLeave DEF GuardReads, lifeVars, Owning, Place
  <2>3. CASE ClaimRaises(w)
    BY <1>0, <1>a, <2>3, QuietGo DEF ClaimRaises, Step, lifeVars, Owning, Place
  <2>4. CASE FenceInstalled(w) \/ Start(w)
    BY <1>0, <2>4, QuietGo DEF FenceInstalled, Start, Step, lifeVars, Owning, Place
  <2>5. CASE GuardFails(w) \/ ClaimRefused(w) \/ Requeue(w) \/ FenceUnavailable(w)
             \/ Refuse(w)
    BY <1>0, <2>5, QuietLeave
       DEF GuardFails, ClaimRefused, Requeue, FenceUnavailable, Refuse, lifeVars
  <2> QED
    BY <1>2, <2>1, <2>2, <2>3, <2>4, <2>5 DEF Deliver, Claims
<1>3. ASSUME NEW w \in Process, Run(w)
      PROVE  (Procs /\ registered' = registered) \/ Registers(w)
  <2>1. ASSUME NEW d, Beat(w, d)
        PROVE  Procs /\ registered' = registered
    <3>1. CASE UNCHANGED pc
      BY <2>1, <3>1, QuietStay DEF Beat, lifeVars
    <3>2. ASSUME NEW place \in {"unbeating", "unkept"}, Go(w, place)
          PROVE  Procs /\ registered' = registered
      BY <1>0, <2>1, <3>2, QuietGo DEF Beat, lifeVars, Owning, Place
    <3> QED
      BY <2>1, <3>1, <3>2 DEF Beat
  <2>2. CASE Heartbeat(w) \/ HeartbeatWithProgress(w)
    BY <2>1, <2>2 DEF Heartbeat, HeartbeatWithProgress
  <2>3. CASE StillOwner(w)
    <3>1. CASE Leave(w, "idle")
      BY <1>0, <2>3, <3>1, QuietLeave DEF StillOwner, lifeVars
    <3>2. CASE Go(w, "ending") /\ UNCHANGED <<own, mark, taken>>
      BY <1>0, <2>3, <3>2, QuietGo DEF StillOwner, lifeVars, InGraph, Owning, Place
    <3> QED
      BY <2>3, <3>1, <3>2 DEF StillOwner
  <2>4. CASE Register(w)
    BY <1>0, <2>4, QuietLeave DEF Register, Registers
  <2>5. CASE Finalize(w)
    <3>1. PICK s : FinalizeAs(w, s)
      BY <2>5 DEF Finalize
    <3>2. pc[w] \in {"ending", "registered"}
      BY <2>5 DEF Finalize
    <3>3. CASE Leave(w, "idle")
      BY <1>0, <2>5, <3>3, QuietLeave DEF Finalize, lifeVars
    <3>4. CASE Go(w, "finalized") /\ UNCHANGED <<own, mark, taken>>
      BY <1>0, <2>5, <3>2, <3>4, QuietGo DEF Finalize, lifeVars, Owning, Place
    <3> QED
      BY <3>1, <3>3, <3>4 DEF FinalizeAs
  <2>6. CASE Crash(w)
    BY <1>0, <2>6, QuietGo DEF Crash, Step, lifeVars, InGraph, Owning, Place
  <2>7. CASE Return(w) \/ FinalizeCrash(w)
    BY <1>0, <2>7, QuietLeave DEF Return, FinalizeCrash, lifeVars
  <2> QED
    BY <1>3, <2>2, <2>3, <2>4, <2>5, <2>6, <2>7 DEF Run
<1>4. ASSUME NEW w \in Process, Move(w)
      PROVE  Procs /\ registered' = registered
  <2>1. CASE Drain(w)
    BY <1>0, <2>1, QuietGo DEF Drain, Step, lifeVars, InGraph, Owning, Place
  <2>2. CASE HandBack(w)
    BY <1>0, <2>2, QuietGo, QuietLeave DEF HandBack, lifeVars, Owning, Place
  <2>3. CASE Relaunch(w)
    BY <1>0, <2>3, QuietGo, QuietLeave DEF Relaunch, lifeVars, Owning, Place
  <2>4. CASE Confirm(w)
    BY <1>0, <2>4, QuietLeave DEF Confirm, lifeVars
  <2> QED
    BY <1>4, <2>1, <2>2, <2>3, <2>4 DEF Move
<1>5. ASSUME NEW w \in Process, Die(w)
      PROVE  Procs /\ registered' = registered
  BY <1>0, <1>5 DEF Die, Go, lifeVars, QuietProcess, ProcTyped, Owning, Place
<1>6. ASSUME NEW w \in Process, BrokerReturns(w)
      PROVE  Procs /\ registered' = registered
  BY <1>6, QuietStay DEF BrokerReturns, lifeVars
<1>7. CASE \E w \in Process : Deliver(w) \/ Run(w) \/ Move(w) \/ Die(w) \/ BrokerReturns(w)
  BY <1>2, <1>3, <1>4, <1>5, <1>6, <1>7, QuietRowSteps DEF QuietStep
<1> QED
  BY <1>1, <1>7 DEF Next

----------------------------------------------------------------------------
(* The parts of the inductive invariant, one by one.                       *)

\* A claim keeps the order of claims: only the process that held the generation
\* before may keep it.
LEMMA ClaimKeepsOrder ==
  ASSUME TypeOK, TypeOK', ClaimsAreOrdered, GenerationHasOneProcess,
         RegisteredByHolder, NEW w \in Process, Claim(w)
  PROVE  ClaimsAreOrdered' /\ GenerationHasOneProcess' /\ RegisteredByHolder'
<1>1. /\ row' \in Row
      /\ row'.token = row.epoch + 1 /\ row'.epoch = row.epoch + 1
      /\ row'.gen \in {row.gen, row.gen + 1}
      /\ row'.gen = row.gen => row.gen > 0 /\ row.exec = w
      /\ row'.exec = w
  <2>1. row' = Claimed(w, row, clock) /\ row \in Row /\ clock \in Nat
    BY DEF Claim, TypeOK
  <2> QED
    BY <2>1, ClaimedRow
<1>2. /\ pc[w] = "claiming" /\ own[w] = NoOwn
      /\ pc'[w] = "claimed" /\ own'[w].gen = row'.gen /\ own'[w].tok = row'.token
      /\ \A v \in Process \ {w} : pc'[v] = pc[v] /\ own'[v] = own[v]
      /\ registered' = registered
  BY DEF Claim, Go, TypeOK, lifeVars, ClaimsAreOrdered, Owning
<1>3. /\ row.gen \in Nat /\ row.epoch \in Nat /\ registered \in Nat
      /\ \A v \in Process : own[v].gen \in Nat /\ own[v].tok \in Nat
  BY DEF TypeOK, Row, Ownership
<1>4. ClaimsAreOrdered'
  <2>1. ASSUME NEW v \in Process
        PROVE  /\ own'[v].tok <= row'.epoch /\ own'[v].gen <= row'.gen
               /\ own'[v].tok = 0 <=> own'[v].gen = 0
               /\ pc'[v] \in Owning => own'[v].tok > 0
               /\ pc'[v] \notin Owning \cup {"crashing"} => own'[v] = NoOwn
               /\ own'[v].gen = row'.gen /\ row'.gen > 0 => row'.exec = v
    <3>1. CASE v = w
      BY <1>1, <1>2, <1>3, <3>1 DEF Owning
    <3>2. CASE v # w
      BY <1>1, <1>2, <1>3, <3>2 DEF ClaimsAreOrdered
    <3> QED
      BY <3>1, <3>2
  <2> QED
    BY <1>1, <1>2, <1>3, <2>1 DEF ClaimsAreOrdered
<1>5. GenerationHasOneProcess'
  <2>1. \A v \in Process \ {w} : own[v].gen # row'.gen
    BY <1>1, <1>2, <1>3 DEF ClaimsAreOrdered
  <2> QED
    BY <1>2, <2>1 DEF GenerationHasOneProcess
<1>6. RegisteredByHolder'
  BY <1>1, <1>2, <1>3 DEF RegisteredByHolder, ClaimsAreOrdered
<1> QED
  BY <1>4, <1>5, <1>6

\* So does a claim whose answer is lost: it ends what was owned and is nobody's.
LEMMA UnansweredKeepsOrder ==
  ASSUME TypeOK, ClaimsAreOrdered, GenerationHasOneProcess, RegisteredByHolder,
         NEW w \in Process, ClaimUnanswered(w)
  PROVE  ClaimsAreOrdered' /\ GenerationHasOneProcess' /\ RegisteredByHolder'
<1>1. /\ row'.token = row.epoch + 1 /\ row'.epoch = row.epoch + 1
      /\ row'.gen \in {row.gen, row.gen + 1}
      /\ row'.gen = row.gen => row.gen > 0 /\ row.exec = w
      /\ row'.exec = w
  <2>1. row' = Claimed(w, row, clock) /\ row \in Row /\ clock \in Nat
    BY DEF ClaimUnanswered, TypeOK
  <2> QED
    BY <2>1, ClaimedRow
<1>2. UNCHANGED <<pc, own, registered>>
  BY DEF ClaimUnanswered, procVars, lifeVars
<1>3. /\ row.gen \in Nat /\ row.epoch \in Nat /\ registered \in Nat
      /\ \A v \in Process : own[v].gen \in Nat /\ own[v].tok \in Nat
  BY DEF TypeOK, Row, Ownership
<1>4. ASSUME NEW v \in Process
      PROVE  /\ own[v].tok <= row'.epoch /\ own[v].gen <= row'.gen
             /\ own[v].gen = row'.gen /\ row'.gen > 0 => row'.exec = v
  BY <1>1, <1>3 DEF ClaimsAreOrdered
<1> QED
  BY <1>1, <1>2, <1>3, <1>4
     DEF ClaimsAreOrdered, GenerationHasOneProcess, RegisteredByHolder

\* A registration is the current claim's own.
LEMMA RegistrationKeepsOrder ==
  ASSUME TypeOK, ClaimsAreOrdered, GenerationHasOneProcess, RegisteredByHolder,
         NEW w \in Process, Registers(w)
  PROVE  ClaimsAreOrdered' /\ GenerationHasOneProcess' /\ RegisteredByHolder'
<1>1. /\ own' = own /\ row' = row /\ pc[w] = "ending" /\ pc'[w] = "registered"
      /\ \A v \in Process \ {w} : pc'[v] = pc[v]
      /\ registered' = own[w].tok
  BY DEF Registers, Go, TypeOK
<1>2. own[w].tok = row.epoch
  BY DEF Registers, IsCurrentOwner, Holds, ClaimsAreOrdered, Owning, TypeOK, Row,
         Ownership
<1>3. row.epoch \in Nat
  BY DEF TypeOK, Row
<1>4. ClaimsAreOrdered'
  BY <1>1, <1>2, <1>3 DEF ClaimsAreOrdered, Owning
<1> QED
  BY <1>1, <1>2, <1>4 DEF GenerationHasOneProcess, RegisteredByHolder

\* A quiet step neither raises a claim nor lets a process into a generation.
LEMMA QuietKeepsOrder ==
  ASSUME TypeOK, TypeOK', ClaimsAreOrdered, GenerationHasOneProcess,
         RegisteredByHolder, QuietStep
  PROVE  ClaimsAreOrdered' /\ GenerationHasOneProcess' /\ RegisteredByHolder'
<1> USE DEF QuietStep, QuietRow, SameClaim
<1>1. /\ row.gen \in Nat /\ row.epoch \in Nat
      /\ \A v \in Process : own[v].gen \in Nat /\ own[v].tok \in Nat
  BY DEF TypeOK, Row, Ownership
<1>2. \A v \in Process : own'[v] \in {own[v], NoOwn}
  BY DEF QuietProcess
<1>3. ClaimsAreOrdered'
  <2>1. ASSUME NEW v \in Process
        PROVE  /\ own'[v].tok <= row'.epoch /\ own'[v].gen <= row'.gen
               /\ own'[v].tok = 0 <=> own'[v].gen = 0
               /\ own'[v].gen = row'.gen /\ row'.gen > 0 => row'.exec = v
    BY <1>1, <1>2 DEF ClaimsAreOrdered, NoOwn
  <2>2. ASSUME NEW v \in Process
        PROVE  /\ pc'[v] \in Owning => own'[v].tok > 0
               /\ pc'[v] \notin Owning \cup {"crashing"} => own'[v] = NoOwn
    <3>1. QuietProcess(v)
      OBVIOUS
    <3> QED
      BY <3>1 DEF ClaimsAreOrdered, QuietProcess
  <2> QED
    BY <2>1, <2>2 DEF ClaimsAreOrdered
<1>4. GenerationHasOneProcess'
  BY <1>2 DEF GenerationHasOneProcess, NoOwn
<1>5. RegisteredByHolder'
  <2>1. ASSUME NEW v \in Process, pc'[v] = "registered"
        PROVE  pc[v] = "registered" /\ own'[v] = own[v]
    <3>1. QuietProcess(v)
      OBVIOUS
    <3> QED
      BY <2>1, <3>1 DEF QuietProcess, Owning
  <2> QED
    BY <2>1 DEF RegisteredByHolder
<1> QED
  BY <1>3, <1>4, <1>5

\* Registration is fenced, so what a finished job shows stays what it was.
LEMMA FetchableStep ==
  ASSUME TypeOK, ClaimsAreOrdered, RegisteredByHolder, SucceededIsFetchable,
         UnfinishedRowHasClock, SweepIsAboutTheExpired,
         [Next]_vars
  PROVE  SucceededIsFetchable'
<1>1. CASE \E w \in Process : Claims(w)
  <2>1. row'.status = "running"
    BY <1>1, ClaimedRow DEF Claims, Claim, ClaimUnanswered, TypeOK
  <2> QED
    BY <2>1 DEF SucceededIsFetchable
<1>2. CASE \E w \in Process : Registers(w)
  BY <1>2 DEF Registers, IsCurrentOwner, Terminal, SucceededIsFetchable
<1>3. CASE QuietStep
  <2>1. CASE Delivered
    <3>1. PICK w \in Process : pc[w] = "registered" /\ Holds(own[w], row)
      BY <2>1 DEF Delivered
    <3>2. own[w].tok = row.epoch /\ own[w].tok > 0
      BY <3>1 DEF Holds, ClaimsAreOrdered, Owning
    <3> QED
      BY <1>3, <3>1, <3>2
         DEF QuietStep, QuietRow, SameClaim, RegisteredByHolder, SucceededIsFetchable
  <2>2. CASE row'.status = "succeeded" => row.status = "succeeded"
    BY <1>3, <2>2 DEF QuietStep, QuietRow, SameClaim, SucceededIsFetchable
  <2>3. CASE \E w \in Process : Claims(w)
    BY <1>1, <2>3
  <2> QED
    BY <2>1, <2>2, <2>3, RowSteps
       DEF RowStep, StatusOnly, Unclaimed, Cancelled, Renewed, Confirmed
<1> QED
  BY <1>1, <1>2, <1>3, QuietSteps

\* No step moves time back, and only Tick moves it.
LEMMA ClockAdvances == ASSUME TypeOK, [Next]_vars
                       PROVE  clock \in Nat /\ clock' \in {clock, clock + 1}
<1>1. CASE Tick
  BY <1>1 DEF Tick, TypeOK
<1>2. CASE UNCHANGED clock
  BY <1>2 DEF TypeOK
<1>3. ASSUME NEW w \in Process, Deliver(w) \/ Run(w) \/ Move(w) \/ Die(w) \/ BrokerReturns(w)
      PROVE  UNCHANGED clock
  BY <1>3 DEF Deliver, Take, GuardReads, GuardFails, Claim, ClaimUnanswered,
     ClaimRefused, Requeue,
     ClaimRaises, FenceInstalled, FenceUnavailable, Refuse, Start, Run, Heartbeat,
     HeartbeatWithProgress, Beat, StillOwner, Register, Finalize, Return, Crash,
     FinalizeCrash, Move, Drain, HandBack, Relaunch, Confirm, Die, BrokerReturns
<1>4. CASE LaunchAccepted \/ LaunchRaises \/ MarkLaunchFailed \/ ApiDies \/ Cancel
  BY <1>2, <1>4 DEF LaunchAccepted, LaunchRaises, MarkLaunchFailed, ApiDies, Cancel
<1>5. CASE Reap \/ ReaperDies
  <2>1. CASE ReapRerun
    BY <1>2, <2>1 DEF ReapRerun
  <2>2. CASE ReapSelect \/ ReapFail \/ ReapRelaunch \/ ReapConfirm \/ ReaperDies
    BY <1>2, <2>2 DEF ReapSelect, ReapFail, ReapRelaunch, ReapConfirm, ReaperDies
  <2> QED
    BY <1>5, <2>1, <2>2 DEF Reap
<1> QED
  BY <1>1, <1>2, <1>3, <1>4, <1>5 DEF Next, vars

\* Every step leaves an unfinished row with a clock the reaper can judge it by.
LEMMA ClockStep ==
  ASSUME TypeOK, TypeOK', UnfinishedRowHasClock, SweepIsAboutTheExpired,
         [Next]_vars
  PROVE  UnfinishedRowHasClock'
<1>1. clock \in Nat /\ clock' \in {clock, clock + 1}
  BY ClockAdvances
<1>2. row \in Row /\ row' \in Row
  BY DEF TypeOK
<1> USE <1>1, <1>2, DurationAssumption DEF UnfinishedRowHasClock, Row, Time, NULL
<1>3. CASE row' = row
  BY <1>3
<1>4. CASE StatusOnly("failed") \/ StatusOnly("pending_review") \/ Delivered
  BY <1>4 DEF Delivered, StatusOnly, SameClock
<1>5. CASE Unclaimed
  BY <1>5 DEF Unclaimed
<1>6. CASE Cancelled
  BY <1>6 DEF Cancelled
<1>7. CASE Renewed
  BY <1>7 DEF Renewed
<1>8. CASE Confirmed
  BY <1>8 DEF Confirmed
<1>9. ASSUME NEW w \in Process, Claims(w)
      PROVE  UnfinishedRowHasClock'
  BY <1>9, ClaimedRow DEF Claims, Claim, ClaimUnanswered
<1> QED
  BY <1>3, <1>4, <1>5, <1>6, <1>7, <1>8, <1>9, RowSteps DEF RowStep

\* What the reaper selected for a re-run had lapsed, and time only adds to that.
LEMMA SweepStep ==
  ASSUME TypeOK, SweepIsAboutTheExpired, [Next]_vars
  PROVE  SweepIsAboutTheExpired'
<1>1. clock \in Nat /\ clock' \in {clock, clock + 1}
  BY ClockAdvances
<1>2. reaper \in Sweep /\ row \in Row
  BY DEF TypeOK
<1>3. CASE UNCHANGED reaper
  BY <1>1, <1>2, <1>3 DEF SweepIsAboutTheExpired, Sweep, Time, NULL
<1>4. CASE reaper' = Resting
  BY <1>1, <1>4 DEF SweepIsAboutTheExpired, Resting
<1>5. CASE ReapSelect
  <2>1. /\ reaper'.at = clock /\ reaper'.was = row.status /\ clock' = clock
        /\ reaper'.lease = row.lease /\ row.status \in {"pending", "running"}
    BY <1>5 DEF ReapSelect, Stalled, LeaseLapsed, NeverPickedUp,
                HandedBackTooLate, ReleasedUnconfirmed
  <2>2. row.status = "running" => row.lease # NULL /\ row.lease < clock - Lease
    BY <1>5 DEF ReapSelect, Stalled, LeaseLapsed, NeverPickedUp,
                HandedBackTooLate, ReleasedUnconfirmed
  <2> QED
    BY <1>1, <1>2, <2>1, <2>2, DurationAssumption
       DEF SweepIsAboutTheExpired, Row, Time, NULL
<1>6. CASE ReapRerun \/ ReapRelaunch
  <2>1. clock' = clock
    BY <1>6 DEF ReapRerun, ReapRelaunch
  <2>2. \/ reaper' = Resting
        \/ \E s \in {"relaunching", "confirming"} : reaper' = [reaper EXCEPT !.pc = s]
    BY <1>6 DEF ReapRerun, ReapRelaunch
  <2>3. ASSUME NEW s \in {"relaunching", "confirming"}, reaper' = [reaper EXCEPT !.pc = s]
        PROVE  SweepIsAboutTheExpired'
    BY <1>2, <2>1, <2>3 DEF SweepIsAboutTheExpired, Sweep
  <2> QED
    BY <1>4, <2>2, <2>3
<1>7. CASE ReapFail \/ ReapConfirm \/ ReaperDies
  BY <1>4, <1>7 DEF ReapFail, ReapConfirm, ReaperDies
<1>8. ASSUME NEW w \in Process, Deliver(w) \/ Run(w) \/ Move(w) \/ Die(w) \/ BrokerReturns(w)
      PROVE  UNCHANGED reaper
  BY <1>8 DEF Deliver, Take, GuardReads, GuardFails, Claim, ClaimUnanswered,
     ClaimRefused, Requeue,
     ClaimRaises, FenceInstalled, FenceUnavailable, Refuse, Start, Run, Heartbeat,
     HeartbeatWithProgress, Beat, StillOwner, Register, Finalize, Return, Crash,
     FinalizeCrash, Move, Drain, HandBack, Relaunch, Confirm, Die, BrokerReturns
<1>9. CASE LaunchAccepted \/ LaunchRaises \/ MarkLaunchFailed \/ ApiDies \/ Cancel
           \/ Tick \/ UNCHANGED vars
  BY <1>3, <1>9 DEF LaunchAccepted, LaunchRaises, MarkLaunchFailed, ApiDies, Cancel,
     Tick, vars
<1> QED
  BY <1>3, <1>5, <1>6, <1>7, <1>8, <1>9 DEF Next, Reap

----------------------------------------------------------------------------
\* Every step of every actor keeps the inductive invariant.
LEMMA LeaseStep == ASSUME LeaseInv, [Next]_vars PROVE LeaseInv'
<1> USE DEF LeaseInv
<1>1. TypeOK'
  BY StepType
<1>2. ClaimsAreOrdered' /\ GenerationHasOneProcess' /\ RegisteredByHolder'
  BY <1>1, QuietSteps, ClaimKeepsOrder, UnansweredKeepsOrder, RegistrationKeepsOrder,
     QuietKeepsOrder DEF Claims
<1>3. SucceededIsFetchable'
  BY FetchableStep
<1>4. UnfinishedRowHasClock'
  BY <1>1, ClockStep
<1>5. SweepIsAboutTheExpired'
  BY SweepStep
<1> QED
  BY <1>1, <1>2, <1>3, <1>4, <1>5

\* The state the system starts in.
LEMMA LeaseInitial == Init => LeaseInv
<1> SUFFICES ASSUME Init PROVE LeaseInv
  OBVIOUS
<1>1. TypeOK
  BY ProcessAssumption
     DEF Init, TypeOK, Row, Ownership, Sweep, Status, Terminal, Place, Time,
         NULL, NoOwn, Resting
<1>2. ClaimsAreOrdered
  BY DEF Init, ClaimsAreOrdered, NoOwn, Owning
<1>3. GenerationHasOneProcess /\ RegisteredByHolder /\ SucceededIsFetchable
  BY DEF Init, GenerationHasOneProcess, RegisteredByHolder, SucceededIsFetchable,
         NoOwn
<1>4. UnfinishedRowHasClock
  BY DurationAssumption DEF Init, UnfinishedRowHasClock, NULL
<1>5. SweepIsAboutTheExpired
  BY DEF Init, SweepIsAboutTheExpired, Resting
<1> QED
  BY <1>1, <1>2, <1>3, <1>4, <1>5 DEF LeaseInv

\* The inductive invariant: claims ordered, generations single, every
\* unfinished row on a clock, and a sweep that only re-runs the expired.
THEOREM LeaseInvariant == Spec => []LeaseInv
<1>1. Init => LeaseInv
  BY LeaseInitial
<1>2. LeaseInv /\ [Next]_vars => LeaseInv'
  BY LeaseStep
<1> QED
  BY <1>1, <1>2, PTL DEF Spec

\* No two live processes ever share a generation, hence a checkpoint thread.
THEOREM OneProcessPerGeneration == Spec => []GenerationHasOneProcess
<1>1. LeaseInv => GenerationHasOneProcess
  BY DEF LeaseInv
<1> QED
  BY <1>1, LeaseInvariant, PTL

\* A succeeded job shows the artifacts of the claim that finalized it.
THEOREM SucceededFetchable == Spec => []SucceededIsFetchable
<1>1. LeaseInv => SucceededIsFetchable
  BY DEF LeaseInv
<1> QED
  BY <1>1, LeaseInvariant, PTL

\* The reaper's clause has no hole: whatever state a row is left in, if it is
\* unfinished the clause comes to cover it, within a bound made of the
\* configured durations alone.
THEOREM ReaperCoversEveryRow == Spec => []ReaperSeesEveryUnfinishedRow
<1>1. LeaseInv => ReaperSeesEveryUnfinishedRow
  <2> SUFFICES ASSUME LeaseInv, row.status \in {"pending", "running"}
               PROVE  \E t \in clock .. clock + Ceiling + Budget + Grace + 2 * Lease + 1 :
                        Stalled(row, t)
    BY DEF ReaperSeesEveryUnfinishedRow
  <2> DEFINE t == clock + Ceiling + Budget + Grace + 2 * Lease + 1
  <2>1. clock \in Nat /\ row \in Row /\ UnfinishedRowHasClock
    BY DEF LeaseInv, TypeOK
  <2>2. t \in clock .. clock + Ceiling + Budget + Grace + 2 * Lease + 1
    BY <2>1, DurationAssumption
  <2>3. CASE row.status = "running"
    <3>1. row.lease \in Int /\ row.lease # NULL /\ row.lease <= clock + Lease
      BY <2>1, <2>3 DEF UnfinishedRowHasClock, Row, Time, NULL
    <3>2. LeaseLapsed(row, t)
      BY <2>1, <2>3, <3>1, DurationAssumption DEF LeaseLapsed
    <3> QED
      BY <2>2, <3>2 DEF Stalled
  <2>4. CASE row.status = "pending" /\ ~row.started
    <3>1. NeverPickedUp(row, t)
      BY <2>1, <2>4, DurationAssumption DEF NeverPickedUp
    <3> QED
      BY <2>2, <3>1 DEF Stalled
  <2>5. CASE row.status = "pending" /\ row.started
    <3>1. row.deadline \in Int /\ row.deadline # NULL
          /\ row.deadline <= clock + Budget + Grace
      BY <2>1, <2>5 DEF UnfinishedRowHasClock, Row, Time, NULL
    <3>2. HandedBackTooLate(row, t)
      BY <2>1, <2>5, <3>1, DurationAssumption DEF HandedBackTooLate
    <3> QED
      BY <2>2, <3>2 DEF Stalled
  <2> QED
    BY <2>3, <2>4, <2>5
<1> QED
  BY <1>1, LeaseInvariant, PTL

\* No late process, message or sweep moves a finished job.
THEOREM FinishedIsInert == Spec => FinishedJobIsInert
<1>1. LeaseInv /\ [Next]_vars =>
        [row.status \in Terminal => /\ row'.status = row.status
                                    /\ registered' = registered]_vars
  <2> SUFFICES ASSUME LeaseInv, [Next]_vars, row.status \in Terminal
               PROVE  row'.status = row.status /\ registered' = registered
    OBVIOUS
  <2>1. ~ \E w \in Process : Claims(w) \/ Registers(w)
    BY DEF Claims, Claim, ClaimUnanswered, Claimable, Registers, IsCurrentOwner, Terminal
  <2>2. registered' = registered
    BY <2>1, QuietSteps DEF QuietStep, LeaseInv
  <2>3. row' = row
    BY <2>1, RowSteps
       DEF LeaseInv, RowStep, StatusOnly, Delivered, Unclaimed, Cancelled, Renewed,
           Confirmed, Terminal
  <2> QED
    BY <2>2, <2>3
<1> QED
  BY <1>1, LeaseInvariant, PTL DEF Spec, FinishedJobIsInert

\* Ownership under a live lease ends by cancel or by the holder's own release.
THEOREM LiveLeaseSafe == Spec => LiveLeaseIsNotTaken
<1>1. LeaseInv /\ [Next]_vars =>
        [LeaseActive(row, clock) /\ row'.token # row.token =>
           \/ row'.status = "cancelled"
           \/ \E w \in Process : Holds(own[w], row) /\ pc'[w] = "relaunching"]_vars
  <2> SUFFICES ASSUME LeaseInv, [Next]_vars, LeaseActive(row, clock),
                      row'.token # row.token
               PROVE  \/ row'.status = "cancelled"
                      \/ \E w \in Process : Holds(own[w], row)
                                           /\ pc'[w] = "relaunching"
    OBVIOUS
  <2>1. ~ \E w \in Process : Claims(w)
    BY DEF Claims, Claim, ClaimUnanswered, Claimable
  <2> QED
    BY <2>1, RowSteps
       DEF LeaseInv, RowStep, StatusOnly, Delivered, Unclaimed, Cancelled, Renewed,
           Confirmed
<1> QED
  BY <1>1, LeaseInvariant, PTL DEF Spec, LiveLeaseIsNotTaken

\* claim_execution, transition(), the releases, the reaper and cancel, some of
\* which compare the status themselves: the job moves along the table.  Only a
\* pending row has no token, so who succeeds finds its job running or parked.
THEOREM LeaseKeepsTheLifecycle == Spec => KeepsTheLifecycle
<1>1. Init => Lifecycle!LifeInit
  BY DEF Init, Lifecycle!LifeInit
<1>2. LeaseInv /\ [Next]_vars =>
        [\E to \in Lifecycle!Status : Lifecycle!Move(to)]_(row.status)
  <2> SUFFICES ASSUME LeaseInv, [Next]_vars, row'.status # row.status
               PROVE  \E to \in Lifecycle!Status : Lifecycle!Move(to)
    OBVIOUS
  <2> USE DEF Lifecycle!Move, Lifecycle!LegalSources, Lifecycle!Status,
              Lifecycle!Terminal
  <2>1. row \in Row BY DEF LeaseInv, TypeOK
  <2>2. CASE \E w \in Process : Claims(w)
    BY <2>1, <2>2 DEF Claims, Claim, ClaimUnanswered, Claimable, Claimed
  <2>3. CASE StatusOnly("failed") \/ StatusOnly("pending_review")
    BY <2>1, <2>3 DEF StatusOnly, Row, Status, Terminal
  <2>4. CASE Delivered
    <3>1. PICK w \in Process : /\ pc[w] = "registered" /\ Holds(own[w], row)
                               /\ StatusOnly("succeeded")
      BY <2>4 DEF Delivered
    <3>2. row.token # 0
      BY <3>1 DEF Holds, Owning, LeaseInv, ClaimsAreOrdered, TypeOK, Ownership
    <3>3. row.status \in {"running", "pending_review"}
      BY <2>1, <3>1, <3>2
         DEF StatusOnly, Row, Status, Terminal, LeaseInv, UnfinishedRowHasClock
    <3> QED BY <3>1, <3>3 DEF StatusOnly
  <2>5. CASE Unclaimed \/ Cancelled
    BY <2>1, <2>5 DEF Unclaimed, Cancelled, Row, Status, Terminal
  <2>6. ~(row' = row \/ Renewed \/ Confirmed)
    BY DEF Renewed, Confirmed
  <2> QED
    BY <2>2, <2>3, <2>4, <2>5, <2>6, RowSteps DEF LeaseInv, RowStep
<1> QED
  BY <1>1, <1>2, LeaseInvariant, PTL DEF Spec, KeepsTheLifecycle, Lifecycle!LifeSpec
=============================================================================
