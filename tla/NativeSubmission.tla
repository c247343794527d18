-------------------------- MODULE NativeSubmission --------------------------
(***************************************************************************)
(* One meshing pass of a job, run on a machine of its own.                 *)
(*                                                                         *)
(* The worker that holds the job claims the operation, stages its input in *)
(* an exchange whose keys follow from the operation, starts a machine, and *)
(* waits for the result document.  The machine goes on without it: it      *)
(* pulses a beacon while it works, writes its output and then its result,  *)
(* and ends itself.  A worker that takes the job over adopts a run an      *)
(* earlier generation started.  Every worker sweeps the machines.          *)
(***************************************************************************)
EXTENDS Naturals

CONSTANTS
  MaxWorkers,  \* bound: claims of the job
  Payload,     \* what the pass may submit
  None         \* nothing submitted; nothing brought home

ASSUME SubmissionAssumption ==
  /\ MaxWorkers \in Nat \ {0}
  /\ None \notin Payload

Worker == 1..MaxWorkers
Key == Worker          \* an operation, by the first worker of its generation

VARIABLES
  payload,     \* per worker, the payload it stages
  gen,         \* per worker, the generation of its claim on the job
  owner,       \* the worker whose token the job's row holds, or 0
  status,      \* the job's status
  claim,       \* per operation, its row of native_submission_claims
  worker,      \* per worker: how far it is, the operation it waits for, whether
               \* it started that one itself, and the mesh it brought home
  input,       \* per operation, the input staged for its machine
  exchange,    \* per operation, what came back to its exchange
  machine,     \* per operation, the machine started for it
  beacon,      \* per operation: never written, fresh, or stale
  aged,        \* the operations started longer ago than OWNER_GRACE_S
  sweep,       \* the operation whose machine the sweep is about to delete, or 0
  starts,      \* history: machines started, per operation
  home,        \* history: the operations whose mesh a worker brought home
  misjudged    \* history: the operations given up unheard, or with a beacon
               \* that could not be read

jobVars == <<payload, gen, owner, status>>
runVars == <<input, exchange, starts>>
remoteVars == <<machine, beacon, aged>>
pastVars == <<home, misjudged>>
vars == <<jobVars, claim, worker, runVars, remoteVars, sweep, pastVars>>

Claim == [state : {"none", "claimed", "accepted", "failed", "indeterminate"},
          payload : Payload \cup {None}, names : BOOLEAN]
Recorded == {"accepted", "adopted", "indeterminate", "failed"}
Place == {"absent", "claiming", "acquired", "uploading", "uploaded", "waiting",
          "stopping", "timing out", "collecting", "home", "over"}
           \cup Recorded
Waits == Place \ ({"absent", "claiming", "acquired", "uploading", "over"} \cup Recorded)

\* Type correctness.
NativeTypeOK ==
  /\ payload \in [Worker -> Payload \cup {None}]
  /\ gen \in [Worker -> 0..MaxWorkers]
  /\ owner \in 0..MaxWorkers
  /\ status \in {"running", "cancelled", "failed"}
  /\ claim \in [Key -> Claim]
  /\ worker \in [Worker -> [at : Place, key : 0..MaxWorkers, mine : BOOLEAN,
                            brought : Payload \cup {None}]]
  /\ input \in [Key -> Payload \cup {None}]
  /\ exchange \in [Key -> {"empty", "output", "result", "hollow", "deleted"}]
  /\ machine \in [Key -> {"none", "booting", "working", "stopped", "gone"}]
  /\ beacon \in [Key -> {"never", "fresh", "stale"}]
  /\ aged \subseteq Key
  /\ sweep \in 0..MaxWorkers
  /\ starts \in [Key -> Nat]
  /\ home \subseteq Key /\ misjudged \subseteq Key

Init ==
  /\ payload = [w \in Worker |-> None]
  /\ gen = [w \in Worker |-> 0]
  /\ owner = 0 /\ status = "running"
  /\ claim = [k \in Key |-> [state |-> "none", payload |-> None, names |-> FALSE]]
  /\ worker = [w \in Worker |->
                 [at |-> "absent", key |-> 0, mine |-> FALSE, brought |-> None]]
  /\ input = [k \in Key |-> None]
  /\ exchange = [k \in Key |-> "empty"]
  /\ machine = [k \in Key |-> "none"]
  /\ beacon = [k \in Key |-> "never"]
  /\ aged = {} /\ sweep = 0
  /\ starts = [k \in Key |-> 0]
  /\ home = {} /\ misjudged = {}

----------------------------------------------------------------------------
(* The job: claimed, taken over, cancelled by its owner, or failed.        *)

\* A worker that waits for nothing any more remembers only what it brought.
Goes(w, to) ==
  worker' = [worker EXCEPT ![w] =
    IF to \in Waits THEN [@ EXCEPT !.at = to]
    ELSE [at |-> to, key |-> 0, mine |-> FALSE, brought |-> @.brought]]

\* A process that claims again, its last task over, keeps the generation.
Takes(w, g, p) ==
  /\ worker[w].at = "absent" /\ status = "running"
  /\ w > 1 => worker[w - 1].at # "absent"
  /\ g = w \/ (w > 1 /\ g = gen[w - 1] /\ worker[w - 1].at = "over")
  /\ owner' = w
  /\ gen' = [gen EXCEPT ![w] = g] /\ payload' = [payload EXCEPT ![w] = p]
  /\ Goes(w, "claiming")
  /\ UNCHANGED <<status, claim, runVars, remoteVars, sweep, pastVars>>

Cancel ==
  /\ status = "running"
  /\ status' = "cancelled" /\ owner' = 0
  /\ UNCHANGED <<payload, gen, claim, worker, runVars, remoteVars, sweep, pastVars>>

\* The reaper ends the status and leaves the token.
Reap ==
  /\ status = "running"
  /\ status' = "failed"
  /\ UNCHANGED <<payload, gen, owner, claim, worker, runVars, remoteVars, sweep,
                 pastVars>>

StillOwned(w) == owner = w /\ status = "running"

\* The process dies, or the task raises.
Die(w) ==
  /\ worker[w].at \notin {"absent", "over"}
  /\ Goes(w, "over")
  /\ UNCHANGED <<jobVars, claim, runVars, remoteVars, sweep, pastVars>>

----------------------------------------------------------------------------
(* ClaimingMeshExecutor.run: the claim, and a run to adopt.                *)

WaitsFor(w, k, mine) ==
  worker' = [worker EXCEPT ![w].at = "waiting", ![w].key = k, ![w].mine = mine]

\* Mutant of Insertable: a claim nobody has settled may be tried again.
Retryable(c) == c.state \in {"none", "claimed"}

Insertable(c) == c.state = "none"

ClaimOperation(w) ==
  LET k == gen[w]
      c == claim[k]
      inserted == owner = w /\ Insertable(c)
  IN /\ worker[w].at = "claiming"
     /\ claim' = IF inserted
                 THEN [claim EXCEPT ![k].state = "claimed", ![k].payload = payload[w]]
                 ELSE claim
     /\ CASE inserted -> Goes(w, "acquired")
          [] ~inserted /\ owner = w /\ c.payload = payload[w]
               /\ c.state = "accepted" -> WaitsFor(w, k, FALSE)
          [] OTHER -> Goes(w, "over")
     /\ UNCHANGED <<jobVars, runVars, remoteVars, sweep, pastVars>>

\* remote_state: the result document, or a beacon that is not old.
Alive(k) == exchange[k] \in {"result", "hollow"} \/ beacon[k] = "fresh"

\* Mutant of Earlier: the payload is not asked about.
EarlierOfAny(w) ==
  {k \in Key : k < gen[w] /\ claim[k].state \notin {"none", "failed"}}

Earlier(w) ==
  {k \in Key : /\ k < gen[w] /\ claim[k].state \notin {"none", "failed"}
               /\ claim[k].payload = payload[w]}

\* The newest earlier run whose exchange answers; unread ones do not.
Adopt(w, unread) ==
  LET alive == {k \in Earlier(w) : Alive(k)} \ unread
  IN /\ worker[w].at = "acquired"
     /\ IF alive = {} THEN Goes(w, "uploading")
        ELSE \E k \in alive :
               /\ \A j \in alive : j <= k
               /\ WaitsFor(w, k, FALSE)
     /\ UNCHANGED <<jobVars, claim, runVars, remoteVars, sweep, pastVars>>

----------------------------------------------------------------------------
(* _exchange: the input, the start, and the wait.                          *)

Upload(w) ==
  /\ worker[w].at = "uploading"
  /\ input' = [input EXCEPT ![gen[w]] = payload[w]]
  /\ worker' = [worker EXCEPT ![w].at = "uploaded", ![w].key = gen[w]]
  /\ UNCHANGED <<jobVars, claim, exchange, starts, remoteVars, sweep, pastVars>>

\* Not configured, or the store is down: the second is not raised.
UploadFails(w) ==
  /\ worker[w].at = "uploading"
  /\ \E to \in {"failed", "indeterminate"} : Goes(w, to)
  /\ UNCHANGED <<jobVars, claim, runVars, remoteVars, sweep, pastVars>>

\* Accepted, or the answer lost after an acceptance.
Start(w, answered) ==
  LET k == gen[w]
  IN /\ worker[w].at = "uploaded"
     /\ starts' = [starts EXCEPT ![k] = @ + 1]
     /\ machine' = [machine EXCEPT ![k] = "booting"]
     /\ IF answered THEN WaitsFor(w, k, TRUE) ELSE Goes(w, "indeterminate")
     /\ UNCHANGED <<jobVars, claim, input, exchange, beacon, aged, sweep, pastVars>>

\* Refused, or never arrived: neither leaves a reference.
StartFails(w) ==
  /\ worker[w].at = "uploaded"
  /\ Goes(w, "indeterminate")
  /\ UNCHANGED <<jobVars, claim, runVars, remoteVars, sweep, pastVars>>

\* What is recorded: an adopted run is accepted whatever came of it, a run of
\* the worker's own only with its reference, a collected replay not at all.
Outcome(w, reference) ==
  CASE worker[w].mine /\ reference -> "accepted"
    [] worker[w].mine /\ ~reference -> "indeterminate"
    [] ~worker[w].mine /\ worker[w].key = gen[w] -> "over"
    [] OTHER -> "adopted"

NoResult(w) ==
  /\ worker[w].at = "waiting"
  /\ exchange[worker[w].key] \notin {"result", "hollow"}

SeeResult(w) ==
  /\ worker[w].at = "waiting" /\ ~NoResult(w)
  /\ Goes(w, "collecting")
  /\ UNCHANGED <<jobVars, claim, runVars, remoteVars, sweep, pastVars>>

\* Only a run the worker started itself has a reference to stop it by.
GivesUp(w, to) ==
  Goes(w, IF worker[w].mine THEN to ELSE Outcome(w, FALSE))

\* Its own run, half an hour old, has never been heard from; or the deadline
\* of a run that was never heard from.
NeverHeard(w, timedOut) ==
  LET k == worker[w].key
  IN /\ NoResult(w) /\ beacon[k] = "never"
     /\ timedOut \/ (worker[w].mine /\ k \in aged)
     /\ GivesUp(w, IF timedOut THEN "timing out" ELSE "stopping")
     /\ misjudged' = IF worker[w].mine THEN misjudged \cup {k} ELSE misjudged
     /\ UNCHANGED <<jobVars, claim, runVars, remoteVars, sweep, home>>

\* Heard once, and silent for WAIT_STALL_S.
Gone(w) ==
  /\ NoResult(w) /\ beacon[worker[w].key] = "stale"
  /\ GivesUp(w, "stopping")
  /\ UNCHANGED <<jobVars, claim, runVars, remoteVars, sweep, pastVars>>

\* Mutant of LeftToFinish: a run nobody waits for is stopped.
NeverLeft(k) == exchange[k] # "empty"

\* remote_left_running.  A stage it had not heard yet does not count.
LeftToFinish(k) == exchange[k] # "empty" \/ status # "cancelled"

\* The worker drains, or the job is no longer its own: asked before the start
\* and between two polls.
Abandon(w, drained) ==
  LET k == worker[w].key
  IN /\ worker[w].at \in {"uploaded", "waiting"}
     /\ drained \/ ~StillOwned(w)
     /\ IF worker[w].mine /\ ~drained /\ ~LeftToFinish(k) THEN Goes(w, "stopping")
        ELSE Goes(w, IF worker[w].at = "uploaded" THEN "indeterminate"
                     ELSE Outcome(w, FALSE))
     /\ UNCHANGED <<jobVars, claim, runVars, remoteVars, sweep, pastVars>>

Ended(k) ==
  machine' = IF machine[k] = "none" THEN machine ELSE [machine EXCEPT ![k] = "gone"]

\* _stop: best effort.  A run past its deadline keeps its reference.
Stop(w, stopped) ==
  /\ worker[w].at \in {"stopping", "timing out"}
  /\ IF stopped THEN Ended(worker[w].key) ELSE UNCHANGED machine
  /\ Goes(w, Outcome(w, worker[w].at = "timing out"))
  /\ UNCHANGED <<jobVars, claim, runVars, beacon, aged, sweep, pastVars>>

----------------------------------------------------------------------------
(* The collection, and what it leaves.                                     *)

\* Mutant of Bring: the exchange is released once the result was read.
BringOrLose(w, whole) ==
  LET k == worker[w].key
  IN /\ worker' = [worker EXCEPT ![w].at = "home",
                     ![w].brought = IF whole THEN input[k] ELSE None]
     /\ home' = IF whole THEN home \cup {k} ELSE home

\* Downloaded and unpacked to the end; or not, and then nothing is released.
Bring(w, whole) ==
  LET k == worker[w].key
  IN IF whole
     THEN /\ worker' = [worker EXCEPT ![w].at = "home", ![w].brought = input[k]]
          /\ home' = home \cup {k}
     ELSE /\ Goes(w, Outcome(w, FALSE))
          /\ UNCHANGED home

\* The machine is done once its result document is written.
Collect(w, whole, stopped) ==
  LET k == worker[w].key
  IN /\ worker[w].at = "collecting"
     /\ whole => exchange[k] = "result"
     /\ Bring(w, whole)
     /\ IF stopped THEN Ended(k) ELSE UNCHANGED machine
     /\ UNCHANGED <<jobVars, claim, runVars, beacon, aged, sweep, misjudged>>

\* Handed on meanwhile, as far as the last question knew: the exchange stays.
Leave(w, drained) ==
  /\ worker[w].at = "home"
  /\ drained \/ (~StillOwned(w) /\ status # "cancelled")
  /\ Goes(w, Outcome(w, TRUE))
  /\ UNCHANGED <<jobVars, claim, runVars, remoteVars, sweep, pastVars>>

\* Input, output and result, each best effort.
Release(w, to) ==
  LET k == worker[w].key
  IN /\ worker[w].at = "home"
     /\ exchange' = [exchange EXCEPT ![k] =
          IF @ = "deleted" THEN @ ELSE IF @ = "hollow" /\ to = "result" THEN @ ELSE to]
     /\ Goes(w, Outcome(w, TRUE))
     /\ UNCHANGED <<jobVars, claim, input, starts, remoteVars, sweep, pastVars>>

\* _TRANSITION: by the job's owner, from `claimed`.
MayRecord(w) == owner = w /\ claim[gen[w]].state = "claimed"

Record(w) ==
  LET to == worker[w].at
  IN /\ to \in Recorded
     /\ claim' = IF MayRecord(w)
                 THEN [claim EXCEPT ![gen[w]].state = IF to = "adopted" THEN "accepted"
                                                      ELSE to,
                                    ![gen[w]].names = (to = "accepted")]
                 ELSE claim
     /\ Goes(w, "over")
     /\ UNCHANGED <<jobVars, runVars, remoteVars, sweep, pastVars>>

----------------------------------------------------------------------------
(* The machine.                                                            *)

Becomes(k, to) == machine' = [machine EXCEPT ![k] = to]
MachineOnly == UNCHANGED <<jobVars, claim, worker, input, starts, sweep, pastVars>>

Boots(k) ==
  /\ machine[k] = "booting"
  /\ Becomes(k, "working")
  /\ beacon' = [beacon EXCEPT ![k] = "fresh"]
  /\ UNCHANGED <<exchange, aged>> /\ MachineOnly

\* The mesh is made.  upload_result: the output, and the result document after
\* it.
Returns(k) ==
  /\ machine[k] = "working" /\ exchange[k] \in {"empty", "output"}
  /\ exchange' = [exchange EXCEPT ![k] = IF @ = "empty" THEN "output" ELSE "result"]
  /\ UNCHANGED remoteVars /\ MachineOnly

\* The container exits, does not start, or is stopped at its deadline, and the
\* machine deletes itself, or is refused and powers off.  Or it is preempted.
Ends(k) ==
  /\ machine[k] \in {"booting", "working"}
  /\ \E to \in {"stopped", "gone"} : Becomes(k, to)
  /\ UNCHANGED <<exchange, beacon, aged>> /\ MachineOnly

\* A runner that lives pulses every minute.
FallsSilent(k) ==
  /\ beacon[k] = "fresh" /\ machine[k] # "working"
  /\ beacon' = [beacon EXCEPT ![k] = "stale"]
  /\ UNCHANGED <<exchange, machine, aged>> /\ MachineOnly

Ages(k) ==
  /\ machine[k] # "none" /\ k \notin aged
  /\ aged' = aged \cup {k}
  /\ UNCHANGED <<exchange, machine, beacon>> /\ MachineOnly

----------------------------------------------------------------------------
(* vm_sweep.sweep, in every worker.                                        *)

\* owner_live: a claim names the machine, and its job has not ended.
OwnerLive(k) == claim[k].names /\ status = "running"

\* decide; a beacon that cannot be read counts as not heard.
Spent(k, unread) ==
  \/ machine[k] = "stopped"
  \/ /\ beacon[k] # "fresh" \/ unread
     /\ exchange[k] \in {"result", "hollow"} \/ (k \in aged /\ ~OwnerLive(k))

SweepJudges(k, unread) ==
  /\ sweep = 0 /\ machine[k] \notin {"none", "gone"}
  /\ Spent(k, unread)
  /\ sweep' = k
  /\ misjudged' = IF unread \/ beacon[k] = "never" THEN misjudged \cup {k}
                  ELSE misjudged
  /\ UNCHANGED <<jobVars, claim, worker, runVars, remoteVars, home>>

SweepDeletes(k, deleted) ==
  /\ sweep = k
  /\ IF deleted THEN Ended(k) ELSE UNCHANGED machine
  /\ sweep' = 0
  /\ UNCHANGED <<jobVars, claim, worker, runVars, beacon, aged, pastVars>>

----------------------------------------------------------------------------

Submit(w) ==
  \/ \E g \in Key, p \in Payload : Takes(w, g, p)
  \/ ClaimOperation(w) \/ \E unread \in SUBSET Key : Adopt(w, unread)
  \/ Upload(w) \/ UploadFails(w) \/ StartFails(w)
  \/ \E answered \in BOOLEAN : Start(w, answered)
  \/ Record(w) \/ Die(w)

Poll(w) ==
  SeeResult(w) \/ Gone(w) \/ \E timedOut \in BOOLEAN : NeverHeard(w, timedOut)

Await(w) ==
  \/ Poll(w)
  \/ \E b \in BOOLEAN : Abandon(w, b) \/ Stop(w, b) \/ Leave(w, b)
  \/ \E whole, stopped \in BOOLEAN : Collect(w, whole, stopped)
  \/ \E to \in {"deleted", "hollow", "result"} : Release(w, to)

Machine(k) ==
  Boots(k) \/ Returns(k) \/ Ends(k) \/ FallsSilent(k) \/ Ages(k)

Next ==
  \/ \E w \in Worker : Submit(w) \/ Await(w)
  \/ Cancel \/ Reap
  \/ \E k \in Key : \/ Machine(k)
                    \/ \E b \in BOOLEAN : SweepJudges(k, b) \/ SweepDeletes(k, b)

Spec == Init /\ [][Next]_vars

----------------------------------------------------------------------------
(* What the submission must keep.                                          *)

\* native_submission_claims, _CLAIM: however often the job is claimed, handed
\* on, replayed and retried, and whichever answers are lost, an operation's
\* machine is started once - up to the loop of cloud_run_client.py (779-800)
\* that this model leaves out: a machine that answers that it speaks another
\* exchange contract has meshed nothing, and is started again under the key.
StartedOnce == \A k \in Key : starts[k] <= 1

\* workspace_digest, earlier_runs: the mesh a worker goes on with is the mesh
\* of the payload it staged, also when another generation's machine made it.
BringsItsOwnMesh ==
  \A w \in Worker : worker[w].brought \in {None, payload[w]}

\* "THE CLEANUP INVARIANT": a result that was written leaves its exchange only
\* after a worker has brought it home whole.
KeptUntilHome ==
  \A k \in Key : exchange[k] \in {"deleted", "hollow"} => k \in home

\* remote_left_running, vm_sweep.decide: a machine that works, and has not yet
\* written its result, is deleted only for a cancelled job, or by one that had
\* never heard it, half an hour and more after its start, or could not read
\* its beacon.  Neither a worker that lost the job nor the sweep ends its run.
WorkIsNotThrownAway ==
  [][\A k \in Key :
       (/\ machine[k] = "working" /\ machine'[k] = "gone"
        /\ exchange[k] \in {"empty", "output"})
         => \/ status = "cancelled" \/ k \in misjudged
            \/ UNCHANGED <<worker, sweep>>]_vars
=============================================================================
