------------------------------ MODULE JobLease ------------------------------
(***************************************************************************)
(* One job row of the pipeline and everybody who moves it: the API that    *)
(* launches it, the broker, the worker processes that claim, run, park,    *)
(* finish, hand back or lose it, the owner who cancels it, and the         *)
(* stalled-job reaper.  Job rows are independent of each other, so one row *)
(* is enough.  PostgreSQL row locks make every action on `row' atomic;     *)
(* what is not atomic in the code (a read before a write, a message sent   *)
(* after a commit, a long step between two checks) is two actions here.    *)
(***************************************************************************)
EXTENDS Integers, JobState

CONSTANTS
  Process,        \* worker processes; a replacement process is another member
  None,           \* no process
  Lease,          \* WORKER_LEASE_SECONDS
  Budget,         \* PIPELINE_TOTAL_TIMEOUT_SECONDS, from the first claim
  Grace,          \* PROGRESS_GRACE_S: how far progress moves the deadline
  RerunMin,       \* RERUN_MIN_REMAINING_SECONDS
  Ceiling,        \* STALLED_JOB_TIMEOUT_HOURS, for a job nobody picked up
  Cap,            \* CELERY_MAX_REDELIVERIES
  Visibility,     \* BROKER_VISIBILITY_TIMEOUT_SECONDS
  Faults,         \* TRUE: single database, Redis and broker calls may fail
  MaxClock,       \* bound: the clock stops here
  LastInput,      \* bound: no claim and no sign of progress after this
  MaxDeliveries   \* bound: messages taken from the queue

ASSUME ProcessAssumption == None \notin Process
ASSUME DurationAssumption ==
  /\ Lease \in Nat \ {0} /\ Budget \in Nat /\ Grace \in Nat
  /\ RerunMin \in Nat /\ Ceiling \in Nat /\ Visibility \in Nat
ASSUME BoundAssumption ==
  /\ Cap \in Nat /\ Faults \in BOOLEAN
  /\ MaxClock \in Nat /\ LastInput \in Nat /\ MaxDeliveries \in Nat

VARIABLES
  clock,        \* now, in units the durations above are counted in
  row,          \* the simulation_jobs row
  registered,   \* claim epoch whose artifacts are registered (0: none)
  queue,        \* messages of this job on the broker
  deliveries,   \* the Redis delivery counter
  api,          \* the request that launches the job
  pc,           \* where each process is
  own,          \* the ExecutionOwnership each process holds
  mark,         \* released_at of the hand-back a process is confirming
  taken,        \* per process, when the message it has not acknowledged returns
  reaper        \* the sweep in progress

lifeVars == <<registered, api>>
procVars == <<pc, own, mark, taken>>
brokerVars == <<queue, deliveries>>
vars == <<clock, row, registered, queue, deliveries, api, pc, own, mark,
          taken, reaper>>

----------------------------------------------------------------------------
(* The row.                                                                *)

NULL == -1
Time == Nat \cup {NULL}

\* transition(): a compare-and-set on the status alone.
Transition(target) ==
  row' = IF row.status \in LegalSources[target]
         THEN [row EXCEPT !.status = target] ELSE row

\* A token is fresh for every claim, so the epoch that minted it names it;
\* 0 is "no active_worker_token".
NoOwn == [gen |-> 0, tok |-> 0, until |-> 0]

LeaseActive(r, now) == r.token # 0 /\ r.lease # NULL /\ r.lease > now

\* The generation-and-token comparison of every ownership check.
Holds(o, r) == o.gen = r.gen /\ o.tok = r.token

\* Mutant of IsCurrentOwner: a terminal row still has an owner.
OwnsEvenFinished(o, r) == Holds(o, r)

IsCurrentOwner(o, r) == r.status \notin Terminal /\ Holds(o, r)

\* Mutant of SameExecution: any re-claim keeps the generation.
AlreadyClaimed(w, r) == w \in Process /\ r.gen > 0

SameExecution(w, r) == r.exec = w /\ r.gen > 0

Claimed(w, r, now) ==
  [ status   |-> "running",
    gen      |-> IF SameExecution(w, r) THEN r.gen ELSE r.gen + 1,
    epoch    |-> r.epoch + 1,
    token    |-> r.epoch + 1,
    exec     |-> w,
    lease    |-> now + Lease,
    deadline |-> IF r.deadline = NULL THEN now + Budget ELSE r.deadline,
    started  |-> TRUE,
    rerun    |-> r.rerun ]

----------------------------------------------------------------------------
(* The reaper's two questions about a row.                                 *)

LeaseLapsed(r, now) ==
  r.status = "running" /\ r.lease # NULL /\ r.lease < now - Lease
NeverPickedUp(r, now) ==
  r.status = "pending" /\ ~r.started /\ 0 < now - Ceiling
HandedBackTooLate(r, now) ==
  /\ r.status = "pending" /\ r.started
  /\ r.deadline # NULL /\ r.deadline < now - Lease
ReleasedUnconfirmed(r, now) ==
  /\ r.status = "pending" /\ r.started /\ r.token = 0
  /\ r.lease # NULL /\ r.lease < now - Lease

\* Mutant of Stalled: the clause without the hand-back rule.
StalledUnlessHandedBack(r, now) ==
  LeaseLapsed(r, now) \/ NeverPickedUp(r, now) \/ ReleasedUnconfirmed(r, now)

Stalled(r, now) == \/ LeaseLapsed(r, now)
                   \/ NeverPickedUp(r, now)
                   \/ HandedBackTooLate(r, now)
                   \/ ReleasedUnconfirmed(r, now)

RerunEligible(r, now) ==
  /\ r.lease # NULL
  /\ \/ r.status = "running" /\ ~r.rerun
     \/ r.status = "pending" /\ r.token = 0 /\ r.started
  /\ r.deadline = NULL \/ r.deadline > now + RerunMin

Resting == [pc |-> "idle", was |-> "pending", lease |-> NULL,
            rerun |-> FALSE, at |-> 0]

----------------------------------------------------------------------------
Init ==
  /\ clock = 0
  /\ row = [status |-> "pending", gen |-> 0, epoch |-> 0, token |-> 0,
            exec |-> None, lease |-> NULL, deadline |-> NULL,
            started |-> FALSE, rerun |-> FALSE]
  /\ registered = 0 /\ queue = 0 /\ deliveries = 0 /\ api = "launching"
  /\ pc = [w \in Process |-> "idle"] /\ own = [w \in Process |-> NoOwn]
  /\ mark = [w \in Process |-> NULL] /\ taken = [w \in Process |-> NULL]
  /\ reaper = Resting

Go(w, place) == pc' = [pc EXCEPT ![w] = place]

\* The task returns or raises: its message is acknowledged, its ownership gone.
Leave(w, place) ==
  /\ Go(w, place)
  /\ own' = [own EXCEPT ![w] = NoOwn]
  /\ mark' = [mark EXCEPT ![w] = NULL]
  /\ taken' = [taken EXCEPT ![w] = NULL]

\* The fail paths that do not look at ownership: the status CAS, or - when
\* the database refuses - a warning and no change.
FailUnfenced == Transition("failed") \/ (Faults /\ UNCHANGED row)

\* Only the place of w moves.
Step(w, from, to) ==
  /\ pc[w] \in from /\ Go(w, to)
  /\ UNCHANGED <<own, mark, taken>>

(* The API: the row and its payload are committed, then the launch.        *)

LaunchAccepted ==
  /\ api = "launching" /\ api' = "done" /\ queue' = queue + 1
  /\ UNCHANGED <<clock, row, registered, deliveries, procVars, reaper>>

\* launch() raised: the broker never took the message, or took it and the
\* answer was lost.
LaunchRaises ==
  /\ Faults /\ api = "launching" /\ api' = "raised"
  /\ queue' \in {queue, queue + 1}
  /\ UNCHANGED <<clock, row, registered, deliveries, procVars, reaper>>

MarkLaunchFailed ==
  /\ api = "raised" /\ api' = "done"
  /\ FailUnfenced
  /\ UNCHANGED <<clock, registered, brokerVars, procVars, reaper>>

ApiDies ==
  /\ Faults /\ api # "done" /\ api' = "done"
  /\ UNCHANGED <<clock, row, registered, brokerVars, procVars, reaper>>

(* A delivery, up to the claim.                                            *)

\* The visibility window of a message taken now.  (Bound: the times after the
\* clock's end are one time.)
ReturnsAt(now) ==
  IF now + Visibility > MaxClock THEN MaxClock + 1 ELSE now + Visibility

\* The counter is taken before the claim; an unreachable Redis counts as a
\* first delivery.
Take(w) ==
  /\ pc[w] = "idle" /\ queue > 0 /\ deliveries < MaxDeliveries
  /\ queue' = queue - 1
  /\ \/ /\ deliveries' = deliveries + 1
        /\ Go(w, IF deliveries + 1 > Cap THEN "overcap" ELSE "claiming")
     \/ Faults /\ UNCHANGED deliveries /\ Go(w, "claiming")
  /\ taken' = [taken EXCEPT ![w] = ReturnsAt(clock)]
  /\ UNCHANGED <<clock, row, lifeVars, own, mark, reaper>>

\* guard_redelivery reads the row in a transaction of its own ...
DropStaleCopy(r, now) == r.status \in Terminal \/ LeaseActive(r, now)

GuardReads(w) ==
  /\ pc[w] = "overcap"
  /\ \/ DropStaleCopy(row, clock) /\ Leave(w, "idle")
     \/ /\ Faults \/ ~DropStaleCopy(row, clock)
        /\ Go(w, "poison") /\ UNCHANGED <<own, mark, taken>>
  /\ UNCHANGED <<clock, row, lifeVars, brokerVars, reaper>>

\* ... and fails the job in another.
GuardFails(w) ==
  /\ pc[w] = "poison" /\ FailUnfenced /\ Leave(w, "idle")
  /\ UNCHANGED <<clock, lifeVars, brokerVars, reaper>>

Claimable(r, now) == r.status \in {"pending", "running"} /\ ~LeaseActive(r, now)

Claim(w) ==
  /\ pc[w] = "claiming" /\ clock <= LastInput /\ Claimable(row, clock)
  /\ row' = Claimed(w, row, clock)
  /\ own' = [own EXCEPT ![w] = [gen |-> row'.gen, tok |-> row'.token,
                                  until |-> row'.deadline]]
  /\ Go(w, "claimed")
  /\ UNCHANGED <<clock, lifeVars, brokerVars, mark, taken, reaper>>

\* The commit took effect and its answer was lost.  No ownership is bound, and
\* what the code does next it does for a claim it thinks was not made: it tries
\* again and is refused by its own lease, gives the message back, or crashes.
ClaimUnanswered(w) ==
  /\ Faults /\ pc[w] = "claiming" /\ clock <= LastInput /\ Claimable(row, clock)
  /\ row' = Claimed(w, row, clock)
  /\ UNCHANGED <<clock, lifeVars, brokerVars, procVars, reaper>>

ClaimRefused(w) ==
  /\ pc[w] = "claiming" /\ ~Claimable(row, clock) /\ Leave(w, "idle")
  /\ UNCHANGED <<clock, row, lifeVars, brokerVars, reaper>>

\* The claim raised on a database that was only busy for too long: the message
\* goes back and the delivery is forgiven.
Requeue(w) ==
  /\ Faults /\ pc[w] = "claiming"
  /\ queue' = queue + 1
  /\ deliveries' = IF deliveries > 0 THEN deliveries - 1 ELSE 0
  /\ Leave(w, "idle")
  /\ UNCHANGED <<clock, row, lifeVars, reaper>>

\* It raised anything else (FenceUnavailable among them): the crash handler
\* runs, and no ownership is bound.
ClaimRaises(w) ==
  /\ Faults /\ Step(w, {"claiming"}, "crashing")
  /\ UNCHANGED <<clock, row, lifeVars, brokerVars, reaper>>

\* The fence mirror, then admission, geometry and the start decision.
FenceInstalled(w) ==
  /\ Step(w, {"claimed"}, "preparing")
  /\ UNCHANGED <<clock, row, lifeVars, brokerVars, reaper>>

FenceUnavailable(w) ==
  /\ Faults /\ pc[w] = "claimed" /\ Leave(w, "idle")
  /\ UNCHANGED <<clock, row, lifeVars, brokerVars, reaper>>

\* refuse_admission, _fail_job_row, refuse_before_execution: a transition on
\* the status alone, whoever owns the row by then.
Refuse(w) ==
  /\ pc[w] = "preparing" /\ FailUnfenced /\ Leave(w, "idle")
  /\ UNCHANGED <<clock, lifeVars, brokerVars, reaper>>

Start(w) ==
  /\ clock < own[w].until
  /\ Step(w, {"preparing"}, "running")
  /\ UNCHANGED <<clock, row, lifeVars, brokerVars, reaper>>

(* The graph run and its two heartbeats: the task beside it and the keeper  *)
(* process.  Each ends at its first refusal, and the graph goes on: 2, 1 or *)
(* 0 of them are left in "running", "unbeating" and "unkept".  They beat    *)
(* only during the graph run: preparation and delivery go without.          *)

BeatAccepted(o, r, until, now) ==
  IsCurrentOwner(o, r) /\ now <= until

\* heartbeat(): `until' is the deadline after a progress extension, which
\* reaches the row even when the beat is then refused.
Beat(w, until) ==
  /\ pc[w] \in {"running", "unbeating"}
  /\ IF IsCurrentOwner(own[w], row)
     THEN row' = [row EXCEPT
            !.deadline = until,
            !.lease = IF BeatAccepted(own[w], row, until, clock)
                      THEN clock + Lease ELSE @]
     ELSE UNCHANGED row
  /\ IF BeatAccepted(own[w], row, until, clock)
     THEN UNCHANGED pc
     ELSE Go(w, IF pc[w] = "running" THEN "unbeating" ELSE "unkept")
  /\ UNCHANGED <<clock, lifeVars, brokerVars, own, mark, taken, reaper>>

Heartbeat(w) == Beat(w, row.deadline)

HeartbeatWithProgress(w) ==
  /\ clock <= LastInput /\ clock + Grace > row.deadline
  /\ Beat(w, clock + Grace)

InGraph == {"running", "unbeating", "unkept"}

(* The ending.                                                             *)

\* The read-only check that opens it.
StillOwner(w) ==
  /\ pc[w] \in InGraph
  /\ IF IsCurrentOwner(own[w], row)
     THEN Go(w, "ending") /\ UNCHANGED <<own, mark, taken>>
     ELSE Leave(w, "idle")
  /\ UNCHANGED <<clock, row, lifeVars, brokerVars, reaper>>

\* lock_ownership_for_commit, in the transaction that registers artifacts.
Register(w) ==
  /\ pc[w] = "ending"
  /\ IF IsCurrentOwner(own[w], row)
     THEN /\ registered' = own[w].tok
          /\ Go(w, "registered") /\ UNCHANGED <<own, mark, taken>>
     ELSE Leave(w, "idle") /\ UNCHANGED registered
  /\ UNCHANGED <<clock, row, api, brokerVars, reaper>>

\* finalize_terminal_atomic: ownership under the row lock - not the status,
\* which is the CAS's to judge.
FinalizeAs(w, target) ==
  IF Holds(own[w], row)
  THEN Transition(target) /\ Go(w, "finalized") /\ UNCHANGED <<own, mark, taken>>
  ELSE UNCHANGED row /\ Leave(w, "idle")

Finalize(w) ==
  /\ \/ pc[w] = "ending" /\ FinalizeAs(w, "failed")
     \/ pc[w] = "ending" /\ FinalizeAs(w, "pending_review")
     \/ pc[w] = "registered" /\ FinalizeAs(w, "succeeded")
  /\ UNCHANGED <<clock, lifeVars, brokerVars, reaper>>

\* Post-terminal recording done.
Return(w) ==
  /\ pc[w] = "finalized" /\ Leave(w, "idle")
  /\ UNCHANGED <<clock, row, lifeVars, brokerVars, reaper>>

(* The crash handler.                                                      *)

Crash(w) ==
  /\ Step(w, {"preparing", "ending", "registered", "finalized"} \cup InGraph,
          "crashing")
  /\ UNCHANGED <<clock, row, lifeVars, brokerVars, reaper>>

\* Without an ownership there is no fence; with one the row must match it.
FinalizeCrash(w) ==
  /\ pc[w] = "crashing"
  /\ IF own[w] = NoOwn \/ Holds(own[w], row) THEN FailUnfenced
     ELSE UNCHANGED row
  /\ Leave(w, "idle")
  /\ UNCHANGED <<clock, lifeVars, brokerVars, reaper>>

(* The drain: the worker is being shut down and hands its job back.        *)

Drain(w) ==
  /\ Step(w, InGraph, "draining")
  /\ UNCHANGED <<clock, row, lifeVars, brokerVars, reaper>>

Released(r, now) ==
  [r EXCEPT !.status = "pending", !.token = 0, !.lease = now]

HandBack(w) ==
  /\ pc[w] = "draining"
  /\ \/ /\ row.status = "running" /\ Holds(own[w], row)
        /\ row' = Released(row, clock)
        /\ mark' = [mark EXCEPT ![w] = clock]
        /\ Go(w, "relaunching") /\ UNCHANGED <<own, taken>>
     \/ /\ Faults \/ ~(row.status = "running" /\ Holds(own[w], row))
        /\ UNCHANGED row /\ Leave(w, "gone")
  /\ UNCHANGED <<clock, lifeVars, brokerVars, reaper>>

Relaunch(w) ==
  /\ pc[w] = "relaunching"
  /\ deliveries' = IF deliveries > 0 THEN deliveries - 1 ELSE 0
  /\ \/ queue' = queue + 1 /\ Go(w, "confirming") /\ UNCHANGED <<own, mark, taken>>
     \/ Faults /\ UNCHANGED queue /\ Leave(w, "gone")
  /\ UNCHANGED <<clock, row, lifeVars, reaper>>

\* confirm_requeued: only the row exactly as that release left it.
ConfirmRequeued(releasedAt) ==
  row' = IF row.status = "pending" /\ row.token = 0 /\ row.lease = releasedAt
         THEN [row EXCEPT !.lease = NULL] ELSE row

Confirm(w) ==
  /\ pc[w] = "confirming"
  /\ ConfirmRequeued(mark[w]) \/ (Faults /\ UNCHANGED row)
  /\ Leave(w, "gone")
  /\ UNCHANGED <<clock, lifeVars, brokerVars, reaper>>

(* Losses.                                                                 *)

\* Killed, out of memory, VM deleted: nothing is written, nothing is acked.
Die(w) ==
  /\ pc[w] \notin {"idle", "gone"}
  /\ Go(w, "gone") /\ own' = [own EXCEPT ![w] = NoOwn]
  /\ mark' = [mark EXCEPT ![w] = NULL] /\ UNCHANGED taken
  /\ UNCHANGED <<clock, row, lifeVars, brokerVars, reaper>>

\* An unacknowledged message outlives the visibility timeout.
BrokerReturns(w) ==
  /\ taken[w] # NULL /\ clock >= taken[w]
  /\ taken' = [taken EXCEPT ![w] = NULL] /\ queue' = queue + 1
  /\ UNCHANGED <<clock, row, lifeVars, deliveries, pc, own, mark, reaper>>

(* The owner's cancel: evict_owner, then the terminal CAS, one commit.     *)

Evicted(r, now) == IF r.token = 0 THEN r ELSE [r EXCEPT !.token = 0, !.lease = now]

Cancel ==
  /\ row.status \notin Terminal
  /\ row' = [Evicted(row, clock) EXCEPT !.status = "cancelled"]
  /\ UNCHANGED <<clock, lifeVars, brokerVars, procVars, reaper>>

(* The reaper's sweep: a SELECT without a lock, one UPDATE decided on what  *)
(* it read, and for a re-run the launch and its confirmation.              *)

ReapSelect ==
  /\ reaper.pc = "idle" /\ Stalled(row, clock)
  /\ reaper' = [pc |-> "selected", was |-> row.status, lease |-> row.lease,
                rerun |-> RerunEligible(row, clock), at |-> clock]
  /\ UNCHANGED <<clock, row, lifeVars, brokerVars, procVars>>

\* Mutant of RerunAllowed: the update does not look at the lease again.
RerunAllowedByStatus == row.status = reaper.was

RerunAllowed == row.status = reaper.was /\ row.lease = reaper.lease

ReapRerun ==
  /\ reaper.pc = "selected" /\ reaper.rerun
  /\ IF RerunAllowed
     THEN /\ row' = [Released(row, reaper.at) EXCEPT
                       !.rerun = @ \/ reaper.was = "running"]
          /\ reaper' = [reaper EXCEPT !.pc = "relaunching"]
     ELSE UNCHANGED row /\ reaper' = Resting
  /\ UNCHANGED <<clock, lifeVars, brokerVars, procVars>>

ReapFail ==
  /\ reaper.pc = "selected" /\ ~reaper.rerun
  /\ row' = IF row.status = reaper.was
            THEN [row EXCEPT !.status = "failed"] ELSE row
  /\ reaper' = Resting
  /\ UNCHANGED <<clock, lifeVars, brokerVars, procVars>>

ReapRelaunch ==
  /\ reaper.pc = "relaunching"
  /\ \/ queue' = queue + 1 /\ reaper' = [reaper EXCEPT !.pc = "confirming"]
     \/ Faults /\ UNCHANGED queue /\ reaper' = Resting
  /\ UNCHANGED <<clock, row, lifeVars, deliveries, procVars>>

ReapConfirm ==
  /\ reaper.pc = "confirming"
  /\ ConfirmRequeued(reaper.at) \/ (Faults /\ UNCHANGED row)
  /\ reaper' = Resting
  /\ UNCHANGED <<clock, lifeVars, brokerVars, procVars>>

\* The sweep dies or its commit fails.
ReaperDies ==
  /\ Faults /\ clock <= LastInput
  /\ reaper.pc # "idle" /\ reaper' = Resting
  /\ UNCHANGED <<clock, row, lifeVars, brokerVars, procVars>>

Tick ==
  /\ clock < MaxClock /\ clock' = clock + 1
  /\ UNCHANGED <<row, lifeVars, brokerVars, procVars, reaper>>

----------------------------------------------------------------------------
Reap == ReapSelect \/ ReapRerun \/ ReapFail \/ ReapRelaunch \/ ReapConfirm

Deliver(w) == \/ Take(w) \/ GuardReads(w) \/ GuardFails(w)
              \/ Claim(w) \/ ClaimUnanswered(w) \/ ClaimRefused(w) \/ Requeue(w) \/ ClaimRaises(w)
              \/ FenceInstalled(w) \/ FenceUnavailable(w)
              \/ Refuse(w) \/ Start(w)
Run(w) == \/ Heartbeat(w) \/ HeartbeatWithProgress(w)
          \/ StillOwner(w) \/ Register(w) \/ Finalize(w) \/ Return(w)
          \/ Crash(w) \/ FinalizeCrash(w)
Move(w) == Drain(w) \/ HandBack(w) \/ Relaunch(w) \/ Confirm(w)

Next == \/ LaunchAccepted \/ LaunchRaises \/ MarkLaunchFailed \/ ApiDies
        \/ \E w \in Process : \/ Deliver(w) \/ Run(w) \/ Move(w)
                              \/ Die(w) \/ BrokerReturns(w)
        \/ Cancel \/ Reap \/ ReaperDies \/ Tick

Spec == Init /\ [][Next]_vars

\* Time passes and the beat schedule runs the reaper; nothing else is owed:
\* no worker, launch, message or cancel is fair.
FairSpec == Spec /\ WF_vars(Tick) /\ WF_vars(Reap)

----------------------------------------------------------------------------
Place == {"idle", "overcap", "poison", "claiming", "claimed", "preparing",
          "running", "unbeating", "unkept", "ending", "registered", "finalized",
          "crashing", "draining", "relaunching", "confirming", "gone"}

Row == [status : Status, gen : Nat, epoch : Nat, token : Nat,
        exec : Process \cup {None}, lease : Time, deadline : Time,
        started : BOOLEAN, rerun : BOOLEAN]
Ownership == [gen : Nat, tok : Nat, until : Time]
Sweep == [pc : {"idle", "selected", "relaunching", "confirming"},
          was : Status, lease : Time, rerun : BOOLEAN, at : Nat]

\* Every variable keeps the shape the code gives it.
TypeOK ==
  /\ clock \in Nat /\ registered \in Nat /\ queue \in Nat /\ deliveries \in Nat
  /\ row \in Row
  /\ api \in {"launching", "raised", "done"}
  /\ pc \in [Process -> Place]
  /\ own \in [Process -> Ownership]
  /\ mark \in [Process -> Time] /\ taken \in [Process -> Time]
  /\ reaper \in Sweep

\* The checkpoint thread is named by the generation (pipeline_run), so two
\* live processes must never hold the same one, the superseded included.
GenerationHasOneProcess ==
  \A v, w \in Process : own[v].gen = own[w].gen => v = w \/ own[v].gen = 0

\* "A client must never see succeeded before the mesh is fetchable"
\* (pipeline_run): the artifacts a succeeded job shows were registered by the
\* claim that finalized it, and that claim was the latest one.
SucceededIsFetchable ==
  row.status = "succeeded" => registered = row.epoch /\ registered > 0

\* A row nobody will finish is one the reaper will see: left alone, every
\* pending or running row becomes stalled within a bounded time.
ReaperSeesEveryUnfinishedRow ==
  row.status \in {"pending", "running"} =>
    \E t \in clock .. clock + Ceiling + Budget + Grace + 2 * Lease + 1 :
      Stalled(row, t)

\* A finished job is inert: no step of any actor, however late, changes its
\* status or registers artifacts for it.
FinishedJobIsInert ==
  [][row.status \in Terminal => /\ row'.status = row.status
                                /\ registered' = registered]_vars

\* Nobody takes an unexpired lease from its holder: ownership of a running
\* job under a live lease ends by the owner's cancel or the holder's own
\* hand-back, never by a claim or a re-run.
LiveLeaseIsNotTaken ==
  [][LeaseActive(row, clock) /\ row'.token # row.token =>
       \/ row'.status = "cancelled"
       \/ \E w \in Process : Holds(own[w], row) /\ pc'[w] = "relaunching"]_vars

\* Every job settles, by nothing but the passing of time and the reaper.
EveryJobSettles ==
  <>[](row.status \in Terminal \cup {"pending_review"})

(* The strengthening under which the safety properties are inductive.      *)

\* Between the claim and the return of the task a process holds an ownership.
Owning == {"claimed", "preparing", "running", "unbeating", "unkept", "ending",
           "registered", "finalized", "draining", "relaunching", "confirming"}

ClaimsAreOrdered ==
  /\ row.token \in {0, row.epoch}
  /\ registered <= row.epoch
  /\ \A w \in Process :
       /\ own[w].tok <= row.epoch /\ own[w].gen <= row.gen
       /\ own[w].tok = 0 <=> own[w].gen = 0
       /\ pc[w] \in Owning => own[w].tok > 0
       /\ pc[w] \notin Owning \cup {"crashing"} => own[w] = NoOwn
       /\ own[w].gen = row.gen /\ row.gen > 0 => row.exec = w

RegisteredByHolder ==
  \A w \in Process :
    pc[w] = "registered" /\ own[w].tok = row.epoch => registered = row.epoch

UnfinishedRowHasClock ==
  /\ row.status = "pending" => row.token = 0
  /\ row.status = "running" => row.lease # NULL /\ row.started
  /\ row.lease <= clock + Lease
  /\ row.started => row.deadline # NULL
  /\ row.deadline <= clock + Budget + Grace

SweepIsAboutTheExpired ==
  /\ reaper.at <= clock
  /\ reaper.pc = "selected" => reaper.was \in {"pending", "running"}
  /\ reaper.pc = "selected" /\ reaper.rerun /\ reaper.was = "running" =>
       reaper.lease # NULL /\ reaper.lease < clock

\* The claims, the registration, the row's clocks and the sweep keep to what
\* the safety properties rest on, after every step of claim_execution,
\* lock_ownership_for_commit, finalize_terminal_atomic and the reaper.
LeaseInv ==
  /\ TypeOK
  /\ ClaimsAreOrdered
  /\ GenerationHasOneProcess
  /\ RegisteredByHolder
  /\ SucceededIsFetchable
  /\ UnfinishedRowHasClock
  /\ SweepIsAboutTheExpired

----------------------------------------------------------------------------
(* The row as the transition table sees it.                                *)

Lifecycle == INSTANCE JobLifecycle WITH status <- row.status

\* transition(), claim_execution, finalize_terminal_atomic, the reaper, cancel:
\* a late claim, hand-back, ending or sweep never moves the job off the table.
KeepsTheLifecycle == Lifecycle!LifeSpec
=============================================================================
