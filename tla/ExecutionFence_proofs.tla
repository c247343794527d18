------------------------ MODULE ExecutionFence_proofs ------------------------
(***************************************************************************)
(* What the fence mirror guarantees, for every set of processes, every     *)
(* duration and every bound.  Each of its steps is a step of JobLease, so  *)
(* everything proved of the lease holds with the mirror in place; what the *)
(* mirror adds rests on a writer never being renewed once it was overtaken.*)
(***************************************************************************)
EXTENDS ExecutionFence, JobLease_proofs

(* A step of the fence is a step of the lease.                             *)

\* The recovery is a heartbeat of a process that still has one.
LEMMA HealIsHeartbeat ==
  ASSUME TypeOK, PublishesFromGraph, UnkeptIsRefused, NEW w \in Process, Heal(w)
  PROVE  Heartbeat(w) \/ UNCHANGED vars
<1>1. CASE HealAllowed(w) /\ row' = [row EXCEPT !.lease = clock + Lease]
  <2>1. pc[w] \in {"running", "unbeating"}
    BY <1>1 DEF Heal, PublishesFromGraph, UnkeptIsRefused, InGraph, HealAllowed
  <2>2. row' = [row EXCEPT !.deadline = row.deadline, !.lease = clock + Lease]
    BY <1>1 DEF TypeOK, Row
  <2>3. IsCurrentOwner(own[w], row) /\ BeatAccepted(own[w], row, row.deadline, clock)
    BY <1>1 DEF HealAllowed, BeatAccepted
  <2>4. UNCHANGED <<clock, lifeVars, brokerVars, reaper, pc, own, mark, taken>>
    BY DEF Heal, procVars
  <2> QED
    BY <2>1, <2>2, <2>3, <2>4 DEF Heartbeat, Beat
<1>2. CASE UNCHANGED row
  BY <1>2 DEF Heal, vars, procVars, lifeVars, brokerVars
<1> QED
  BY <1>1, <1>2 DEF Heal

\* With the mirror in place the system makes the lease's steps or none.
LEMMA FenceStepIsLeaseStep ==
  ASSUME TypeOK, PublishesFromGraph, UnkeptIsRefused, [FNext]_fvars
  PROVE  [Next]_vars
<1>1. CASE CancelMirrored \/ Outside
  BY <1>1 DEF CancelMirrored, Outside, Next
<1>2. ASSUME NEW w \in Process, Mirrored(w)
      PROVE  [Next]_vars
  BY <1>2 DEF Mirrored, ClaimMirrored, ClaimAborted, FenceSet, FenceNotSet,
     BeatMirrored, BeatLost, HandBackMirrored, Next, Deliver, Run, Move
<1>3. ASSUME NEW w \in Process, Publish(w)
      PROVE  [Next]_vars
  <2>1. CASE Heal(w)
    BY <2>1, HealIsHeartbeat DEF Next, Run
  <2>2. CASE Authorize(w) \/ Write(w)
    BY <2>2 DEF Authorize, Write
  <2> QED
    BY <1>3, <2>1, <2>2 DEF Publish
<1>4. ASSUME NEW w \in Process,
             Elsewhere(w) \/ CrashSilent(w) \/ GraphEnds(w) \/ GraphCut(w)
      PROVE  [Next]_vars
  BY <1>4 DEF Elsewhere, CrashSilent, GraphEnds, GraphCut, Next, Deliver, Run, Move
<1> QED
  BY <1>1, <1>2, <1>3, <1>4 DEF FNext, fvars

----------------------------------------------------------------------------
(* What a step does to the mirror, the publications and the log.           *)

MirrorSet(w) == mirror' = [tok |-> own[w].tok, until |-> clock + Lease]

\* A claim that has just committed sets the mirror whatever it holds; later
\* only the current owner does, and never over another's.
MirrorStep ==
  \/ mirror' \in {mirror, NoMirror}
  \/ \E w \in Process : MirrorSet(w) /\ pc[w] = "claimed" /\ pc'[w] # "claimed"
  \/ \E w \in Process : /\ MirrorSet(w) /\ pc[w] \in InGraph
                        /\ IsCurrentOwner(own[w], row)
                        /\ mirror.tok = own[w].tok \/ ~Live

\* A process starts to write only on a read that found it the owner.
WriterStep ==
  \A w \in Process : Writing(w)' =>
    \/ Writing(w)
    \/ /\ IsCurrentOwner(own[w], row) /\ pc[w] \in InGraph
       /\ UNCHANGED <<vars, mirror, spoken, ended>>

SpokenStep ==
  \/ spoken' = spoken
  \/ \E w \in Process : /\ Writing(w) /\ Names(own[w].tok) /\ spoken' = own[w].tok
                        /\ UNCHANGED <<vars, mirror, ended>>

EndedStep ==
  \/ ended' = ended
  \/ /\ Cancel /\ ended' = clock /\ spoken' = spoken
     /\ mirror' \in {mirror, NoMirror}

\* A revoke clears the mirror or leaves it ...
LEMMA RevokeEffect == ASSUME NEW tok, Revoke(tok) PROVE mirror' \in {mirror, NoMirror}
BY DEF Revoke

\* ... and a renewal extends the claim it finds there or fills an empty place.
LEMMA RenewEffect ==
  ASSUME NEW w \in Process, Renew(own[w].tok)
  PROVE  \/ mirror' = mirror
         \/ MirrorSet(w) /\ (mirror.tok = own[w].tok \/ ~Live)
BY DEF Renew, MirrorSet

\* Every step on the mirror is one of the three kinds.
LEMMA MirrorSteps ==
  ASSUME FenceTypeOK, PublishesFromGraph, ProcTyped, [FNext]_fvars PROVE MirrorStep
<1>1. CASE CancelMirrored
  BY <1>1, RevokeEffect DEF CancelMirrored, BestEffort, Keep, MirrorStep
<1>2. CASE Outside \/ UNCHANGED fvars
  BY <1>2 DEF Outside, fenceVars, fvars, MirrorStep
<1>3. ASSUME NEW w \in Process, Renew(own[w].tok) \/ Keep, pc[w] \in InGraph,
             Keep \/ IsCurrentOwner(own[w], row)
      PROVE  MirrorStep
  BY <1>3, RenewEffect DEF MirrorStep, Keep
<1>4. ASSUME NEW w \in Process, Mirrored(w)
      PROVE  MirrorStep
  <2>1. CASE ClaimMirrored(w) \/ ClaimAborted(w) \/ HandBackMirrored(w)
    BY <2>1, RevokeEffect
       DEF ClaimMirrored, ClaimAborted, HandBackMirrored, BestEffort, Keep, MirrorStep
  <2>2. CASE FenceSet(w) \/ FenceNotSet(w)
    <3>1. pc[w] = "claimed" /\ pc'[w] # "claimed"
      BY <2>2 DEF FenceSet, FenceNotSet, FenceInstalled, FenceUnavailable, Step,
                  Leave, Go, ProcTyped
    <3>2. mirror' = mirror \/ MirrorSet(w)
      BY <2>2 DEF FenceSet, FenceNotSet, Keep, Install, MirrorSet
    <3> QED
      BY <3>1, <3>2 DEF MirrorStep
  <2>3. CASE BeatMirrored(w) \/ BeatLost(w)
    <3>1. pc[w] \in InGraph
      BY <2>3 DEF BeatMirrored, BeatLost, Heartbeat, HeartbeatWithProgress, Beat, InGraph
    <3>2. /\ Renew(own[w].tok) \/ Keep
          /\ Keep \/ IsCurrentOwner(own[w], row)
      BY <2>3 DEF BeatMirrored, BeatLost, BestEffort, BeatAccepted
    <3> QED
      BY <1>3, <3>1, <3>2
  <2> QED
    BY <1>4, <2>1, <2>2, <2>3 DEF Mirrored
<1>5. ASSUME NEW w \in Process, Publish(w)
      PROVE  MirrorStep
  <2>1. CASE Authorize(w) \/ Write(w)
    BY <2>1 DEF Authorize, Write, MirrorStep
  <2>2. CASE Heal(w)
    <3>1. pc[w] \in InGraph
      BY <2>2 DEF Heal, PublishesFromGraph
    <3>2. /\ Renew(own[w].tok) \/ Keep
          /\ Keep \/ IsCurrentOwner(own[w], row)
      BY <2>2 DEF Heal, BestEffort, HealAllowed, BeatAccepted
    <3> QED
      BY <1>3, <3>1, <3>2
  <2> QED
    BY <1>5, <2>1, <2>2 DEF Publish
<1>6. ASSUME NEW w \in Process,
             Elsewhere(w) \/ CrashSilent(w) \/ GraphEnds(w) \/ GraphCut(w)
      PROVE  MirrorStep
  BY <1>6 DEF Elsewhere, CrashSilent, GraphEnds, GraphCut, fenceVars, MirrorStep
<1> QED
  BY <1>1, <1>2, <1>4, <1>5, <1>6 DEF FNext

\* Only the publishing seam, a crash, a drain and a death move a publication.
LEMMA WriterSteps ==
  ASSUME FenceTypeOK, [FNext]_fvars
  PROVE  WriterStep /\ pub' \in [Process -> Publication]
<1> USE DEF FenceTypeOK, Publication
<1>1. CASE UNCHANGED pub
  BY <1>1 DEF WriterStep, Writing
<1>2. ASSUME NEW w \in Process, NEW what \in Publication, Says(w, what),
             what \notin {"authorized", "reauthorized"}
      PROVE  WriterStep /\ pub' \in [Process -> Publication]
  BY <1>2 DEF WriterStep, Writing, Says
<1>3. CASE CancelMirrored \/ Outside \/ UNCHANGED fvars
  BY <1>1, <1>3 DEF CancelMirrored, Outside, fenceVars, fvars
<1>4. ASSUME NEW w \in Process, Mirrored(w) \/ Elsewhere(w) \/ GraphEnds(w)
      PROVE  UNCHANGED pub
  BY <1>4 DEF Mirrored, ClaimMirrored, ClaimAborted, FenceSet, FenceNotSet,
     BeatMirrored, BeatLost, HandBackMirrored, Elsewhere, GraphEnds, fenceVars
<1>5. ASSUME NEW w \in Process, CrashSilent(w) \/ GraphCut(w)
      PROVE  Says(w, "quiet")
  BY <1>5 DEF CrashSilent, GraphCut, Quiet
<1>6. ASSUME NEW w \in Process, Write(w) \/ Heal(w)
      PROVE  \E what \in Publication \ {"authorized", "reauthorized"} : Says(w, what)
  BY <1>6 DEF Write, Heal, Quiet
<1>7. ASSUME NEW w \in Process, Authorize(w)
      PROVE  WriterStep /\ pub' \in [Process -> Publication]
  <2>1. \/ \E what \in {"refused", "stale"} : Says(w, what)
        \/ /\ IsCurrentOwner(own[w], row) /\ pc[w] \in InGraph
           /\ UNCHANGED <<vars, mirror, spoken, ended>>
           /\ \E what \in {"authorized", "reauthorized"} : Says(w, what)
    BY <1>7 DEF Authorize, Authorized
  <2> QED
    BY <1>2, <2>1 DEF WriterStep, Writing, Says
<1> QED
  BY <1>1, <1>2, <1>3, <1>4, <1>5, <1>6, <1>7 DEF FNext, Publish

\* Only the script writes to the log, and only a cancel is a cancel.
LEMMA LogSteps == ASSUME [FNext]_fvars PROVE SpokenStep /\ EndedStep
<1>1. CASE CancelMirrored
  BY <1>1, RevokeEffect DEF CancelMirrored, BestEffort, Keep, SpokenStep, EndedStep
<1>2. CASE Outside \/ UNCHANGED fvars
  BY <1>2 DEF Outside, fenceVars, fvars, SpokenStep, EndedStep
<1>3. ASSUME NEW w \in Process, Mirrored(w) \/ Elsewhere(w) \/ GraphEnds(w)
                                \/ CrashSilent(w) \/ GraphCut(w)
      PROVE  UNCHANGED <<spoken, ended>>
  BY <1>3 DEF Mirrored, ClaimMirrored, ClaimAborted, FenceSet, FenceNotSet,
     BeatMirrored, BeatLost, HandBackMirrored, Elsewhere, GraphEnds, fenceVars,
     CrashSilent, GraphCut
<1>4. ASSUME NEW w \in Process, Publish(w)
      PROVE  SpokenStep /\ UNCHANGED ended
  BY <1>4 DEF Publish, Authorize, Write, Written, Writing, Heal, SpokenStep
<1> QED
  BY <1>1, <1>2, <1>3, <1>4 DEF FNext, SpokenStep, EndedStep

----------------------------------------------------------------------------
(* The parts of the inductive invariant, one by one.                       *)

\* A process that leaves the graph run has no publication on its way.
LEMMA GraphStep ==
  ASSUME FenceTypeOK, ProcTyped, PublishesFromGraph, [FNext]_fvars
  PROVE  PublishesFromGraph'
<1> USE DEF FenceTypeOK, ProcTyped, PublishesFromGraph
<1>1. CASE UNCHANGED <<pub, pc>>
  BY <1>1
<1>2. ASSUME NEW w \in Process, UNCHANGED pub, pc[w] \notin InGraph,
             \A v \in Process \ {w} : pc'[v] = pc[v]
      PROVE  PublishesFromGraph'
  BY <1>2
<1>3. ASSUME NEW w \in Process, Says(w, "quiet"),
             \A v \in Process \ {w} : pc'[v] = pc[v]
      PROVE  PublishesFromGraph'
  BY <1>3 DEF Says
<1>4. CASE CancelMirrored \/ Outside \/ UNCHANGED fvars
  BY <1>1, <1>4
     DEF CancelMirrored, Outside, Cancel, LaunchAccepted, LaunchRaises,
         MarkLaunchFailed, ApiDies, Reap, ReapSelect, ReapRerun, ReapFail,
         ReapRelaunch, ReapConfirm, ReaperDies, Tick, procVars, fenceVars, fvars, vars
<1>5. ASSUME NEW w \in Process, Mirrored(w) \/ Elsewhere(w)
      PROVE  PublishesFromGraph'
  <2>1. CASE BeatMirrored(w)
    <3>1. \/ UNCHANGED pc
          \/ pc[w] \in InGraph /\ \E p \in {"unbeating", "unkept"} : Go(w, p)
      BY <2>1 DEF BeatMirrored, Heartbeat, HeartbeatWithProgress, Beat, InGraph
    <3> QED
      BY <2>1, <3>1 DEF BeatMirrored, Go, InGraph
  <2>2. CASE BeatLost(w) \/ (BrokerReturns(w) /\ UNCHANGED fenceVars)
    BY <1>1, <2>2 DEF BeatLost, BrokerReturns, fenceVars, vars
  <2>3. CASE ClaimMirrored(w) \/ ClaimAborted(w) \/ FenceSet(w) \/ FenceNotSet(w)
             \/ HandBackMirrored(w)
    BY <1>2, <2>3
       DEF ClaimMirrored, ClaimAborted, FenceSet, FenceNotSet, HandBackMirrored,
           Claim, ClaimUnanswered, procVars, Requeue, ClaimRaises, FenceInstalled, FenceUnavailable, HandBack,
           Step, Leave, Go, InGraph
  <2>4. CASE /\ Take(w) \/ GuardReads(w) \/ GuardFails(w) \/ ClaimRefused(w)
                \/ Refuse(w) \/ Start(w)
             /\ UNCHANGED fenceVars
    BY <1>2, <2>4
       DEF fenceVars, Take, GuardReads, GuardFails, ClaimRefused, Refuse, Start,
           Step, Leave, Go, InGraph
  <2>5. CASE /\ Register(w) \/ Finalize(w) \/ Return(w) \/ FinalizeCrash(w)
                \/ Relaunch(w) \/ Confirm(w)
             /\ UNCHANGED fenceVars
    BY <1>2, <2>5
       DEF fenceVars, Register, Finalize, FinalizeAs, Return, FinalizeCrash,
           Relaunch, Confirm, Step, Leave, Go, InGraph
  <2> QED
    BY <1>5, <2>1, <2>2, <2>3, <2>4, <2>5 DEF Mirrored, Elsewhere
<1>6. ASSUME NEW w \in Process, CrashSilent(w) \/ GraphCut(w)
      PROVE  PublishesFromGraph'
  BY <1>3, <1>6 DEF CrashSilent, GraphCut, Quiet, Crash, Drain, Die, Step, Go
<1>7. ASSUME NEW w \in Process, GraphEnds(w)
      PROVE  PublishesFromGraph'
  <2>1. pub[w] = "quiet" /\ UNCHANGED pub
    BY <1>7 DEF GraphEnds, fenceVars
  <2>2. \A v \in Process \ {w} : pc'[v] = pc[v]
    BY <1>7 DEF GraphEnds, StillOwner, Leave, Go
  <2> QED
    BY <2>1, <2>2
<1>8. ASSUME NEW w \in Process, Publish(w)
      PROVE  PublishesFromGraph'
  <2>1. UNCHANGED pc /\ pc[w] \in InGraph
    BY <1>8 DEF Publish, Authorize, Write, Heal, vars, procVars
  <2>2. \A v \in Process \ {w} : pub'[v] = pub[v]
    BY <1>8 DEF Publish, Authorize, Write, Heal, Quiet, Says
  <2> QED
    BY <2>1, <2>2
<1> QED
  BY <1>4, <1>5, <1>6, <1>7, <1>8 DEF FNext

\* A process is found claimed, or without its heartbeats, only after a claim or
\* a refused beat of its own.
LEMMA PlaceSteps ==
  ASSUME ProcTyped, [Next]_vars, NEW w \in Process
  PROVE  /\ pc'[w] = "claimed" => pc[w] = "claimed" \/ Claim(w)
         /\ pc'[w] = "unkept" =>
              pc[w] = "unkept" \/ Heartbeat(w) \/ HeartbeatWithProgress(w)
<1> DEFINE Same == pc'[w] = pc[w]
           Other == pc'[w] \notin {"claimed", "unkept"}
<1> USE DEF ProcTyped
<1>1. ASSUME \/ LaunchAccepted \/ LaunchRaises \/ MarkLaunchFailed \/ ApiDies
             \/ Cancel \/ Reap \/ ReaperDies \/ Tick \/ UNCHANGED vars
      PROVE  Same
  BY <1>1 DEF LaunchAccepted, LaunchRaises, MarkLaunchFailed, ApiDies, Cancel,
              Reap, ReapSelect, ReapRerun, ReapFail, ReapRelaunch, ReapConfirm,
              ReaperDies, Tick, vars, procVars
<1>2. ASSUME NEW v \in Process, Deliver(v)
      PROVE  Same \/ Other \/ Claim(w)
  <2>1. CASE Claim(v)
    BY <2>1 DEF Claim, Go
  <2>2. CASE Take(v) \/ GuardReads(v) \/ GuardFails(v) \/ ClaimUnanswered(v)
             \/ ClaimRefused(v) \/ Requeue(v) \/ ClaimRaises(v)
    BY <2>2 DEF Take, GuardReads, GuardFails, ClaimUnanswered, ClaimRefused, Requeue,
                ClaimRaises, procVars, Step, Leave, Go
  <2>3. CASE FenceInstalled(v) \/ FenceUnavailable(v) \/ Refuse(v) \/ Start(v)
    BY <2>3 DEF FenceInstalled, FenceUnavailable, Refuse, Start, Step, Leave, Go
  <2> QED
    BY <1>2, <2>1, <2>2, <2>3 DEF Deliver
<1>3. ASSUME NEW v \in Process, Run(v)
      PROVE  Same \/ Other \/ Heartbeat(w) \/ HeartbeatWithProgress(w)
  <2>1. CASE Heartbeat(v) \/ HeartbeatWithProgress(v)
    BY <2>1 DEF Heartbeat, HeartbeatWithProgress, Beat, Go
  <2>2. CASE StillOwner(v) \/ Register(v) \/ Finalize(v)
    BY <2>2 DEF StillOwner, Register, Finalize, FinalizeAs, Leave, Go
  <2>3. CASE Return(v) \/ Crash(v) \/ FinalizeCrash(v)
    BY <2>3 DEF Return, Crash, FinalizeCrash, Step, Leave, Go
  <2> QED
    BY <1>3, <2>1, <2>2, <2>3 DEF Run
<1>4. ASSUME NEW v \in Process, Move(v) \/ Die(v) \/ BrokerReturns(v)
      PROVE  Same \/ Other
  BY <1>4 DEF Move, Drain, HandBack, Relaunch, Confirm, Die, BrokerReturns, Step,
              Leave, Go
<1>5. Same \/ Other \/ Claim(w) \/ Heartbeat(w) \/ HeartbeatWithProgress(w)
  <2> HIDE DEF Same, Other, ProcTyped
  <2> QED
    BY <1>1, <1>2, <1>3, <1>4 DEF Next
<1>6. ~(Claim(w) /\ pc'[w] = "unkept")
  BY DEF Claim, Go
<1>7. ~((Heartbeat(w) \/ HeartbeatWithProgress(w)) /\ pc'[w] = "claimed")
  BY DEF Heartbeat, HeartbeatWithProgress, Beat, Go
<1> QED
  BY <1>5, <1>6, <1>7

\* An ownership is what it was, none, or that of a claim made in this step.
LEMMA OwnSteps ==
  ASSUME LeaseInv, [Next]_vars
  PROVE  /\ \A w \in Process :
              \/ own'[w] \in {own[w], NoOwn}
              \/ Claim(w) /\ own'[w].tok = row.epoch + 1 /\ row'.epoch = row.epoch + 1
         /\ row'.epoch \in Nat /\ row.epoch \in Nat /\ row'.epoch >= row.epoch
<1> USE DEF LeaseInv
<1>1. row \in Row /\ clock \in Nat /\ own \in [Process -> Ownership]
  BY DEF TypeOK
<1>2. CASE QuietStep
  BY <1>1, <1>2 DEF QuietStep, QuietRow, QuietProcess, SameClaim, Row
<1>3. ASSUME NEW v \in Process, Registers(v)
      PROVE  UNCHANGED <<own, row>>
  BY <1>3 DEF Registers
<1>4. ASSUME NEW v \in Process, ClaimUnanswered(v)
      PROVE  UNCHANGED own /\ row'.epoch = row.epoch + 1
  <2>1. row' = Claimed(v, row, clock) /\ UNCHANGED own
    BY <1>4 DEF ClaimUnanswered, procVars
  <2> QED
    BY <1>1, <2>1, ClaimedRow
<1>5. ASSUME NEW v \in Process, Claim(v)
      PROVE  /\ \A w \in Process \ {v} : own'[w] = own[w]
             /\ own'[v].tok = row.epoch + 1 /\ row'.epoch = row.epoch + 1
  <2>1. row' = Claimed(v, row, clock)
    BY <1>5 DEF Claim
  <2>2. row'.token = row.epoch + 1 /\ row'.epoch = row.epoch + 1
    BY <1>1, <2>1, ClaimedRow
  <2> QED
    BY <1>1, <1>5, <2>2 DEF Claim
<1> QED
  BY <1>1, <1>2, <1>3, <1>4, <1>5, QuietSteps DEF Claims, Row

\* No process, once refused its beats, comes to hold the row again: the deadline
\* moves only for the owner, and the owner still beats.
LEMMA UnkeptStep ==
  ASSUME LeaseInv, LeaseInv', UnkeptIsRefused, [Next]_vars
  PROVE  UnkeptIsRefused'
<1> SUFFICES ASSUME NEW w \in Process, pc'[w] = "unkept",
                    BeatAccepted(own'[w], row', row'.deadline, clock')
             PROVE  FALSE
  BY DEF UnkeptIsRefused
<1>1. ProcTyped /\ row \in Row /\ row' \in Row /\ TypeOK
  BY DEF LeaseInv, TypeOK, ProcTyped
<1>2. clock \in Nat /\ clock' \in {clock, clock + 1}
  BY <1>1, ClockAdvances
<1>3. row'.deadline \in Int /\ row.deadline \in Int
  BY <1>1 DEF Row, Time, NULL
<1>4. CASE Heartbeat(w) \/ HeartbeatWithProgress(w)
  <2>1. PICK d : Beat(w, d)
    BY <1>4 DEF Heartbeat, HeartbeatWithProgress
  <2>2. ~BeatAccepted(own[w], row, d, clock) /\ UNCHANGED <<own, clock>>
    BY <2>1 DEF Beat
  <2>3. CASE IsCurrentOwner(own[w], row)
    <3>1. row' = [row EXCEPT !.deadline = d, !.lease = row.lease]
      BY <2>1, <2>2, <2>3 DEF Beat
    <3>2. row'.deadline = d
      BY <1>1, <3>1 DEF Row
    <3> QED
      BY <2>2, <2>3, <3>2 DEF BeatAccepted
  <2>4. CASE ~IsCurrentOwner(own[w], row)
    BY <2>1, <2>2, <2>4 DEF Beat, BeatAccepted
  <2> QED
    BY <2>3, <2>4
<1>5. CASE pc[w] = "unkept"
  <2>1. own'[w] = own[w] /\ own[w].tok > 0 /\ own[w].tok <= row.epoch
        /\ own[w].tok \in Nat /\ row.epoch \in Nat
    <3>1. ~Claim(w)
      BY <1>5 DEF Claim
    <3>2. own'[w] # NoOwn
      BY DEF LeaseInv, ClaimsAreOrdered, Owning, NoOwn
    <3>3. own[w].tok > 0 /\ own[w].tok <= row.epoch
      BY <1>5 DEF LeaseInv, ClaimsAreOrdered, Owning
    <3> QED
      BY <1>1, <3>1, <3>2, <3>3, OwnSteps DEF ProcTyped, Ownership, Row
  <2>2. own[w].gen = row'.gen /\ own[w].tok = row'.token /\ row'.status \notin Terminal
        /\ clock' <= row'.deadline
    BY <2>1 DEF BeatAccepted, IsCurrentOwner, Holds
  <2>3. ASSUME NEW v \in Process, Claims(v)
        PROVE  FALSE
    <3>1. row'.token = row.epoch + 1
      BY <1>1, <1>2, <2>3, ClaimedRow DEF Claims, Claim, ClaimUnanswered
    <3> QED
      BY <2>1, <2>2, <3>1
  <2>4. IsCurrentOwner(own[w], row)
    <3>1. row' = row \/ (SameClaim /\ row'.token \in {row.token, 0}
                         /\ row.status \notin Terminal)
      BY <1>1, <2>3, RowSteps
         DEF LeaseInv, RowStep, StatusOnly, Delivered, Unclaimed, Cancelled, Renewed,
             Confirmed, Terminal
    <3> QED
      BY <2>1, <2>2, <3>1 DEF IsCurrentOwner, Holds, SameClaim
  <2>5. row.deadline < clock
    BY <1>2, <1>3, <1>5, <2>4 DEF UnkeptIsRefused, BeatAccepted
  <2>6. row'.deadline = row.deadline
    <3>1. CASE Renewed
      <4>1. PICK v \in Process : pc[v] \in {"running", "unbeating"}
                                 /\ IsCurrentOwner(own[v], row)
        BY <3>1 DEF Renewed
      <4>2. own[v].gen = own[w].gen /\ own[w].gen # 0
        BY <2>1, <2>4, <4>1 DEF IsCurrentOwner, Holds, LeaseInv, ClaimsAreOrdered
      <4> QED
        BY <1>5, <4>1, <4>2 DEF LeaseInv, GenerationHasOneProcess
    <3> QED
      BY <1>1, <2>3, <3>1, RowSteps
         DEF LeaseInv, RowStep, StatusOnly, Delivered, Unclaimed, Cancelled,
             Confirmed, SameClock
  <2> QED
    BY <1>2, <1>3, <2>2, <2>5, <2>6
<1> QED
  BY <1>1, <1>4, <1>5, PlaceSteps

\* Two claims are not one step.
LEMMA OneClaim ==
  ASSUME ProcTyped, NEW v \in Process, NEW w \in Process, Claim(v), Claim(w)
  PROVE  v = w
BY DEF Claim, Go, ProcTyped

\* The current owner holds the latest claim.
LEMMA OwnerIsLatest ==
  ASSUME LeaseInv, NEW w \in Process, pc[w] \in InGraph, IsCurrentOwner(own[w], row)
  PROVE  own[w].tok = row.epoch /\ row.status \notin Terminal
BY DEF LeaseInv, ClaimsAreOrdered, TypeOK, Row, Ownership, IsCurrentOwner, Holds,
       InGraph, Owning

\* A finished row stays so.
LEMMA FinishedStays ==
  ASSUME LeaseInv, [Next]_vars, row.status \in Terminal
  PROVE  row'.status \in Terminal
<1>1. ~ \E w \in Process : Claims(w)
  BY DEF Claims, Claim, ClaimUnanswered, Claimable, Terminal
<1> QED
  BY <1>1, RowSteps
     DEF LeaseInv, RowStep, StatusOnly, Delivered, Unclaimed, Cancelled, Renewed,
         Confirmed, Terminal

\* The mirror and the log never name a claim that was not made, and a claim is
\* not named before its owner sets the mirror.
LEMMA MirrorFollowsStep ==
  ASSUME LeaseInv, LeaseInv', FenceTypeOK, MirrorFollowsClaims, [Next]_vars,
         MirrorStep, SpokenStep
  PROVE  MirrorFollowsClaims'
<1>1. ProcTyped /\ TypeOK /\ clock \in Nat /\ clock' \in {clock, clock + 1}
  BY ClockAdvances DEF LeaseInv, TypeOK, ProcTyped
<1>2. /\ \A w \in Process : own[w].tok \in Nat /\ own[w].tok <= row.epoch
      /\ mirror.tok \in Nat /\ mirror.until \in Nat /\ spoken \in Nat
      /\ NoMirror.tok = 0 /\ NoMirror.until = 0
  BY <1>1 DEF LeaseInv, ClaimsAreOrdered, ProcTyped, Ownership, FenceTypeOK, NoMirror
<1>3. /\ row.epoch \in Nat /\ row'.epoch \in Nat /\ row'.epoch >= row.epoch
  BY OwnSteps
<1>4. mirror'.tok <= row.epoch /\ mirror'.until <= clock + Lease
  BY <1>1, <1>2, <1>3, DurationAssumption DEF MirrorStep, MirrorSet, MirrorFollowsClaims
<1>5. spoken' <= row.epoch
  BY <1>2 DEF SpokenStep, MirrorFollowsClaims
<1>6. ASSUME NEW w \in Process, pc'[w] = "claimed"
      PROVE  mirror'.tok # own'[w].tok
  <2>1. CASE Claim(w)
    <3>1. own'[w].tok = row.epoch + 1
      <4>1. own'[w].tok = row'.token
        BY <1>1, <2>1 DEF Claim, ProcTyped
      <4> QED
        BY <1>1, <2>1, <4>1, ClaimedRow DEF Claim, TypeOK
    <3> QED
      BY <1>2, <1>3, <1>4, <3>1 DEF MirrorStep, MirrorSet
  <2>2. CASE pc[w] = "claimed"
    <3>1. own'[w] = own[w] /\ own[w].tok > 0
      <4>1. own'[w] # NoOwn /\ own[w].tok > 0
        BY <1>6, <2>2 DEF LeaseInv, ClaimsAreOrdered, Owning, NoOwn
      <4>2. ~Claim(w)
        BY <2>2 DEF Claim
      <4> QED
        BY <4>1, <4>2, OwnSteps
    <3>2. ASSUME NEW v \in Process, MirrorSet(v), v # w
          PROVE  mirror'.tok # own[w].tok
      BY <1>2, <3>1, <3>2 DEF MirrorSet, MirrorFollowsClaims
    <3> QED
      BY <1>2, <1>6, <2>2, <3>1, <3>2 DEF MirrorStep, MirrorFollowsClaims, InGraph
  <2> QED
    BY <1>1, <1>6, <2>1, <2>2, PlaceSteps
<1>7. ASSUME NEW v \in Process, NEW w \in Process, own'[v].tok = own'[w].tok
      PROVE  v = w \/ own'[v].tok = 0
  <2>1. NoOwn.tok = 0
    BY DEF NoOwn
  <2>2. ASSUME NEW u \in Process, ~Claim(u)
        PROVE  own'[u].tok # row.epoch + 1
    <3>1. own'[u] \in {own[u], NoOwn}
      BY <2>2, OwnSteps
    <3> QED
      BY <1>2, <1>3, <2>1, <3>1
  <2>3. CASE own'[v] \in {own[v], NoOwn} /\ own'[w] \in {own[w], NoOwn}
    BY <1>7, <2>1, <2>3 DEF MirrorFollowsClaims
  <2>4. CASE Claim(v) /\ own'[v].tok = row.epoch + 1 /\ ~Claim(w)
    BY <1>7, <2>4, <2>2
  <2>5. CASE Claim(w) /\ own'[w].tok = row.epoch + 1 /\ ~Claim(v)
    BY <1>7, <2>5, <2>2
  <2>6. CASE Claim(v) /\ Claim(w)
    BY <1>1, <2>6, OneClaim
  <2> QED
    BY <2>3, <2>4, <2>5, <2>6, OwnSteps
<1> QED
  BY <1>1, <1>2, <1>3, <1>4, <1>5, <1>6, <1>7, DurationAssumption
     DEF MirrorFollowsClaims, MirrorStep, MirrorSet, SpokenStep

\* A writer whom the mirror names is never overtaken: to be heard, a later claim
\* must first take the mirror, and only the owner of the row gets it back.
LEMMA WritersStep ==
  ASSUME LeaseInv, LeaseInv', FenceTypeOK, PublishesFromGraph, PublishesFromGraph',
         MirrorFollowsClaims, WritersAreLatest, [Next]_vars,
         MirrorStep, WriterStep, SpokenStep, EndedStep
  PROVE  WritersAreLatest'
<1>1. ProcTyped /\ TypeOK /\ clock \in Nat /\ clock' \in {clock, clock + 1}
  BY ClockAdvances DEF LeaseInv, TypeOK, ProcTyped
<1>2. /\ \A w \in Process : own[w].tok \in Nat /\ own[w].tok <= row.epoch
      /\ mirror.tok \in Nat /\ mirror.until \in Nat /\ spoken \in Nat
      /\ spoken <= row.epoch /\ row.epoch \in Nat
      /\ ended \in Int /\ clock # NULL
  BY <1>1 DEF LeaseInv, ClaimsAreOrdered, ProcTyped, Ownership, FenceTypeOK,
              TypeOK, Row, MirrorFollowsClaims, Time, NULL
<1>3. ended' # NULL => row'.status \in Terminal
  <2>1. CASE ended' = ended
    BY <2>1, FinishedStays DEF WritersAreLatest
  <2>2. CASE Cancel
    BY <1>1, <2>2, CancelledRow DEF Cancel, TypeOK, Terminal
  <2> QED
    BY <2>1, <2>2 DEF EndedStep
<1>4. ASSUME NEW w \in Process, Writing(w)', Names(own[w].tok)'
      PROVE  spoken' <= own'[w].tok /\ (ended' # NULL => mirror'.until <= ended' + Lease)
  <2>1. pc'[w] \in InGraph /\ own'[w].tok > 0 /\ own'[w] # NoOwn
    BY <1>4 DEF PublishesFromGraph, Writing, LeaseInv, ClaimsAreOrdered, InGraph,
                Owning, NoOwn
  <2>2. mirror'.tok = own'[w].tok /\ mirror'.until > clock'
    BY <1>4 DEF Names, Live
  <2>3. CASE /\ IsCurrentOwner(own[w], row) /\ pc[w] \in InGraph
             /\ UNCHANGED <<vars, mirror, spoken, ended>>
    BY <1>2, <2>3, OwnerIsLatest DEF WritersAreLatest, vars
  <2>4. CASE Writing(w)
    <3>1. pc[w] \in InGraph
      BY <2>4 DEF PublishesFromGraph, Writing
    <3>2. own'[w] = own[w] /\ own[w].tok > 0
      <4>1. ~Claim(w)
        BY <3>1 DEF Claim, InGraph
      <4> QED
        BY <2>1, <4>1, OwnSteps
    <3>3. CASE mirror' = mirror
      <4>1. Names(own[w].tok) /\ mirror.tok = own[w].tok
        BY <1>1, <1>2, <2>2, <3>2, <3>3 DEF Names, Live
      <4>2. /\ spoken <= own[w].tok
            /\ ended # NULL => mirror.until <= ended + Lease
        BY <2>4, <4>1 DEF WritersAreLatest
      <4>3. spoken' <= own[w].tok
        BY <1>2, <4>1, <4>2 DEF SpokenStep, Names
      <4>4. ended' # NULL => mirror.until <= ended' + Lease
        BY <4>2 DEF EndedStep, MirrorFollowsClaims
      <4> QED
        BY <3>2, <3>3, <4>3, <4>4
    <3>4. CASE mirror' = NoMirror
      BY <2>1, <2>2, <3>4 DEF NoMirror
    <3>5. ASSUME NEW v \in Process, MirrorSet(v)
          PROVE  v = w
      BY <1>2, <2>2, <3>2, <3>5 DEF MirrorSet, MirrorFollowsClaims
    <3>6. CASE MirrorSet(w) /\ IsCurrentOwner(own[w], row)
      <4>1. own[w].tok = row.epoch /\ ended = NULL
        BY <3>1, <3>6, OwnerIsLatest DEF WritersAreLatest
      <4>2. spoken' <= own[w].tok
        BY <1>2, <4>1 DEF SpokenStep
      <4>3. ended' # NULL => mirror'.until <= ended' + Lease
        BY <1>1, <3>6, <4>1, DurationAssumption DEF EndedStep, MirrorSet
      <4> QED
        BY <3>2, <4>2, <4>3
    <3> QED
      BY <3>1, <3>3, <3>4, <3>5, <3>6 DEF MirrorStep, InGraph
  <2> QED
    BY <1>4, <2>3, <2>4 DEF WriterStep
<1> QED
  BY <1>3, <1>4 DEF WritersAreLatest, Writing, Names, Live

\* Every step keeps the shape of the mirror, the log and the publications.
LEMMA FenceTypeStep ==
  ASSUME TypeOK, FenceTypeOK, [FNext]_fvars, MirrorStep, SpokenStep, EndedStep
  PROVE  FenceTypeOK'
<1>1. /\ clock \in Nat /\ Lease \in Nat
      /\ \A w \in Process : own[w].tok \in Nat
  BY DurationAssumption DEF TypeOK, Ownership
<1>2. mirror' \in [tok : Nat, until : Nat]
  BY <1>1 DEF FenceTypeOK, MirrorStep, MirrorSet, NoMirror
<1>3. spoken' \in Nat /\ ended' \in Time
  BY <1>1 DEF FenceTypeOK, SpokenStep, EndedStep, Time
<1> QED
  BY <1>2, <1>3, WriterSteps DEF FenceTypeOK

----------------------------------------------------------------------------
\* Every step of the composed system keeps the invariant of the lease and that
\* of the mirror.
LEMMA FenceStep ==
  ASSUME LeaseInv, FenceInv, [FNext]_fvars
  PROVE  [Next]_vars /\ LeaseInv' /\ FenceInv'
<1> USE DEF FenceInv
<1>0. TypeOK /\ ProcTyped
  BY DEF LeaseInv, TypeOK, ProcTyped
<1>1. [Next]_vars
  BY <1>0, FenceStepIsLeaseStep
<1>2. LeaseInv'
  BY <1>1, LeaseStep
<1>3. MirrorStep /\ WriterStep /\ SpokenStep /\ EndedStep
  BY <1>0, MirrorSteps, WriterSteps, LogSteps
<1>4. FenceTypeOK'
  BY <1>0, <1>3, FenceTypeStep
<1>5. PublishesFromGraph'
  BY <1>0, GraphStep
<1>6. UnkeptIsRefused'
  BY <1>1, <1>2, UnkeptStep
<1>7. MirrorFollowsClaims'
  BY <1>1, <1>2, <1>3, MirrorFollowsStep
<1>8. WritersAreLatest'
  BY <1>1, <1>2, <1>3, <1>5, WritersStep
<1> QED
  BY <1>1, <1>2, <1>4, <1>5, <1>6, <1>7, <1>8

\* The state the system starts in.
LEMMA FenceInitial == FInit => Init /\ LeaseInv /\ FenceInv
<1> SUFFICES ASSUME FInit PROVE LeaseInv /\ FenceInv
  BY DEF FInit
<1>1. LeaseInv
  BY LeaseInitial DEF FInit
<1>2. FenceInv
  BY DurationAssumption
     DEF FInit, Init, FenceInv, FenceTypeOK, Publication, PublishesFromGraph,
         UnkeptIsRefused, MirrorFollowsClaims, WritersAreLatest, Writing, NoMirror,
         NoOwn, Time, NULL
<1> QED
  BY <1>1, <1>2

\* The invariant of the lease and the mirror: a publishing process is in its
\* graph run, a process without heartbeats would be refused one, the mirror
\* names a claim that was made, and a writer it names was not overtaken.
THEOREM FenceInvariant == FSpec => [](LeaseInv /\ FenceInv)
<1>1. FInit => LeaseInv /\ FenceInv
  BY FenceInitial
<1>2. LeaseInv /\ FenceInv /\ [FNext]_fvars => (LeaseInv /\ FenceInv)'
  BY FenceStep
<1> QED
  BY <1>1, <1>2, PTL DEF FSpec

\* The mirror, the log and the publications keep their shape.
THEOREM FenceTypes == FSpec => []FenceTypeOK
<1>1. FenceInv => FenceTypeOK
  BY DEF FenceInv
<1> QED
  BY <1>1, FenceInvariant, PTL

\* Publishing and mirroring add nothing to what may become of the row: every
\* step is one of the lease's, so all that is proved of JobLease holds here.
THEOREM FenceKeepsTheProtocol == FSpec => LeaseProtocol
<1>1. FInit => Init
  BY DEF FInit
<1>2. LeaseInv /\ FenceInv /\ [FNext]_fvars => [Next]_vars
  BY FenceStep
<1> QED
  BY <1>1, <1>2, FenceInvariant, PTL DEF FSpec, Spec, LeaseProtocol

\* With the mirror and the publish seam in place, the execution tasks keep the
\* lease's promises: generations are single, finished jobs inert, a live lease
\* is not taken, the reaper misses no row, and the job moves along its table.
THEOREM PromisesHoldWithMirror ==
  FSpec => /\ [](GenerationHasOneProcess /\ ReaperSeesEveryUnfinishedRow)
           /\ FinishedJobIsInert /\ LiveLeaseIsNotTaken /\ KeepsTheLifecycle
<1>1. LeaseProtocol => Spec
  BY DEF LeaseProtocol
<1> QED
  BY <1>1, FenceKeepsTheProtocol, OneProcessPerGeneration, ReaperCoversEveryRow,
     FinishedIsInert, LiveLeaseSafe, LeaseKeepsTheLifecycle, PTL

\* The job's log is ordered by claim.
THEOREM LogOrdered == FSpec => EventLogOrderedByClaim
<1>1. LeaseInv /\ FenceInv /\ [FNext]_fvars => [spoken' >= spoken]_fvars
  <2> SUFFICES ASSUME FenceInv, [FNext]_fvars PROVE spoken' >= spoken
    OBVIOUS
  <2>1. spoken \in Nat
    BY DEF FenceInv, FenceTypeOK
  <2> QED
    BY <2>1, LogSteps DEF SpokenStep, FenceInv, WritersAreLatest
<1> QED
  BY <1>1, FenceInvariant, PTL DEF FSpec, EventLogOrderedByClaim

\* A mirror whose claim is over is not extended by anyone.
THEOREM OutlivedExpires == FSpec => OutlivedMirrorOnlyExpires
<1>1. LeaseInv /\ FenceInv /\ [FNext]_fvars =>
        [mirror.tok # row.token /\ mirror'.tok = mirror.tok =>
           mirror'.until <= mirror.until]_fvars
  <2> SUFFICES ASSUME LeaseInv, FenceInv, [FNext]_fvars, mirror.tok # row.token,
                      mirror'.tok = mirror.tok
               PROVE  mirror'.until <= mirror.until
    OBVIOUS
  <2>1. mirror.until \in Nat /\ NoMirror.until = 0
    BY DEF FenceInv, FenceTypeOK, NoMirror
  <2>2. MirrorStep
    BY MirrorSteps DEF FenceInv, LeaseInv, TypeOK, ProcTyped
  <2> QED
    BY <2>1, <2>2 DEF MirrorStep, MirrorSet, FenceInv, MirrorFollowsClaims,
                      IsCurrentOwner, Holds
<1> QED
  BY <1>1, FenceInvariant, PTL DEF FSpec, OutlivedMirrorOnlyExpires

\* After a cancel the run is silent once the lease it had is over.
THEOREM CancelSilences == FSpec => CancelledFallsSilent
<1>1. LeaseInv /\ FenceInv /\ [FNext]_fvars =>
        [ended # NULL /\ spoken' # spoken => clock < ended + Lease]_fvars
  <2> SUFFICES ASSUME LeaseInv, FenceInv, [FNext]_fvars, ended # NULL, spoken' # spoken
               PROVE  clock < ended + Lease
    OBVIOUS
  <2>1. clock \in Nat /\ ended \in Int /\ mirror.until \in Nat /\ Lease \in Nat
    BY DurationAssumption DEF LeaseInv, TypeOK, FenceInv, FenceTypeOK, Time, NULL
  <2>2. mirror.until > clock /\ mirror.until <= ended + Lease
    BY LogSteps DEF SpokenStep, FenceInv, WritersAreLatest, Names, Live
  <2> QED
    BY <2>1, <2>2
<1> QED
  BY <1>1, FenceInvariant, PTL DEF FSpec, CancelledFallsSilent
=============================================================================
