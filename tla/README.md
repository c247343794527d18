# Hexera platform: specifications of a job's life

TLA+ modules for the part of `meshpipeline` that is a protocol: how a geometry is
uploaded and kept, how a tenant is billed and a run admitted, and how one meshing
job is launched, delivered, claimed, run, meshed on a machine of its own, fenced,
handed back, parked for review and re-run, cancelled, reaped, delivered, finished,
charged for and announced - by an API, a broker, worker processes, machines, the
payment provider, maintenance sweeps, PostgreSQL, Redis and an object store. Paths
below are relative to `src/meshpipeline/` of the repository.

1. [The system](#1-the-system)
2. [Modules](#2-modules-and-the-code)
3. [Runs](#3-runs)
4. [Bounds](#4-bounds-and-why-they-are-enough)
5. [Fairness](#5-fairness)
6. [Proofs](#6-proofs)
7. [Where code and comments disagree](#7-where-code-and-comments-disagree)
8. [What is left out](#8-what-is-left-out)
9. [Plan](#9-plan)

## 1. The system

| Component | State | Operations | What is hard, and what must hold |
|---|---|---|---|
| Execution lease and claim (`persistence/lease.py`, `persistence/job_state.py`, `application/execution_fence.py`, `application/lease_keeper.py`) | the job row: status, `execution_generation`, `active_worker_token`, `execution_id`, `lease_expires_at`, `pipeline_deadline_at`, `started_at` | claim, heartbeat from two processes, evict, lock for commit | A lease lapses under a worker that is only slow. One process per generation, no live lease taken, finished rows inert |
| Fence mirror and publication (`adapters/event_stream/fence.py`, `redis.py`, `application/execution_publisher.py`) | a Redis key with a TTL naming the claim; the event log | install, refresh, heal, revoke; check, write, recover, retry | The row is read and Redis written in two steps. No event of an old claim after the new one's |
| Delivery and hand-back (`application/pipeline_run.py`, `worker_handoff.py`, `unclaimed_requeue.py`, `adapters/pipeline_execution/`, `adapters/delivery_guard/redis.py`) | the queue, unacknowledged messages, a delivery counter; where each worker is | launch, take, guard, claim, prepare, run, end, crash, drain, relaunch, confirm | Late acknowledgement, broker returns, death at every point. No success without the winner's artifacts |
| Reaper (`application/maintenance/cleanup.py`) | rows selected in a sweep | select, fail or re-run, relaunch, confirm | SELECT without lock, UPDATE later. No unfinished row that no rule ever sees |
| Cancel (`application/job_cancel.py`) | - | evict, close the park, record, announce, deliver | Races every other ending |
| Terminal finalize and outbox (`application/terminal_finalize.py`, `outbox_publisher.py`) | `final_result`, `terminal_outbox`, ledger debit | one transaction, its retry, the crash path, direct closings, delivery | A lost answer of a commit. Record, charge and announcement agree |
| Live stream (`api/v1/ws.py`) | a cursor per browser | replay, listen, look at the row | A closing that is never published must not hold a socket for ever |
| Repair review (`api/v1/repair_review.py`, `application/repair_review_park.py`, `persistence/repositories/repair_review_repository.py`) | parks, items, decisions, the row's dispatch payload and release mark | park, answer one, a group or all, run, compensate, re-launch | The model is asked between reading and writing; the status moves before the dispatch; two lock orders. What is dispatched is what was answered |
| Metering and credits (`application/credit_service.py`, `metering_service.py`, `spend_gate.py`, `billing_service.py`, `api/v1/stripe_webhook.py`) | organisation row, ledger, advisory locks, the provider's meter | webhook, admission, charge, meter sweep | Repeated, overlapping, unordered webhooks; READ COMMITTED; sweeps that die. Nothing granted, spent or billed twice |
| Artifact delivery and reconciliation (`application/artifact_uploader.py`, `repair_report.py`, `application/maintenance/reconcile.py`) | objects, artifact rows, orphan records | upload, verify, register, retry, reconcile | Two stores without a common transaction, and a worker that lost the job |
| Sources and retention (`api/v1/upload*.py`, `application/maintenance/geometry_retention.py`, `reconcile.py`) | source row, cleanup intent and its row lock, object, purge claim | upload by two routes, finish, adopt, refuse, reclaim, purge, approve | Deleting what has just been adopted or approved |
| Native submission (`application/native_submission.py`, `adapters/mesh_execution/`, `runtime/mesh_runner.py`) | claims, exchange objects, beacon, machines | claim, adopt, stage, start, wait, collect, release, stop; the machine; the sweep | Machines outlive their workers. Started once, adopted by the right owner, never thrown away |
| Pipeline graph (`pipeline/graph.py`) | graph state, retry budgets | route, retry, fall back | Bounded retries on every path |
| Repair jobs (`persistence/repair_job_state.py`) | rows with a state table of their own | claim, advance | |
| Intake and approval (`agents/intake/approval.py`) | session | propose, approve, launch | Approving twice |
| Model routing and capacity (`adapters/model_capacity/redis.py`, `adapters/model_inference/`) | slots, breakers | acquire, release, trip | Slots of dead holders |
| Idle retirement (`runtime/idle_retire.py`), geometry check, accounts and keys, engines/CAD/rendering/sandbox, capture and traces | | | No protocol between steps, or out of reach: section 8 |

The components of one job meet in two places: the job row, always under PostgreSQL's
row lock or a compare-and-set, and the job's Redis keys (mirror, event log, delivery
counter), which no transaction covers. Messages (Celery over Redis, acknowledged
late) only ever say "look at this job", and may be lost with a launch, duplicated
by the visibility window, or arrive after the job has ended. Three stores stand
beside the database and take part in no transaction: the artifact store, the
exchange bucket of the mesh machines, and the payment provider. Every module about
one of them is about the order in which the database and that store are told.

## 2. Modules and the code

`JobState` is the status table of `job_state.py`: the terminal states and, for
every target, the legal sources.

`JobLifecycle` is the abstract life of a job: one status, moved along that table and
by nothing else. `transition()` consults the table, but the claim, the resets, the
reaper, the review's run route and its compensation name the statuses they expect
themselves, or compare one while they hold the row.
`tests/unit/hygiene/test_architecture_fitness.py` checks that each such update names
*some* status; that together, in any order, they make only legal moves is
`KeepsTheLifecycle`, which JobLease, TerminalEnding and RepairReview each state as the
refinement of this module and each are proved to implement.

### JobLease

One row and everybody who moves it. `row` is the `simulation_jobs` row;
`pc`/`own`/`mark`/`taken` are a worker process's place in `run_pipeline_async`,
its `ExecutionOwnership`, the release mark it is about to confirm and the message
it has not acknowledged; `queue` and `deliveries` the broker and the Redis
counter; `reaper` the sweep in progress; `api` the launching request.

| Actions | Code |
|---|---|
| `LaunchAccepted`, `LaunchRaises`, `MarkLaunchFailed`, `ApiDies` | the launch after the row's commit, and its failure |
| `Take`, `GuardReads`, `GuardFails` | the delivery counter and `guard_redelivery`, which reads the row in one transaction and fails it in another |
| `Claim`, `ClaimUnanswered`, `ClaimRefused`, `Requeue`, `ClaimRaises` | `claim_delivery` / `LeaseRepository.claim_execution`; a busy database sends the message back; a claim may be committed and its answer lost |
| `FenceInstalled`, `FenceUnavailable`, `Refuse`, `Start` | from the claim's commit to the graph |
| `Heartbeat`, `HeartbeatWithProgress` | `heartbeat()`, called by the task and by the keeper process; progress moves the deadline |
| `StillOwner`, `Register`, `Finalize`, `Return` | the ending: the read-only check, the locked registration, the terminal commit |
| `Crash`, `FinalizeCrash`, `Die` | exceptions and lost processes |
| `Drain`, `HandBack`, `Relaunch`, `Confirm` | `worker_handoff` |
| `BrokerReturns` | the visibility window |
| `Cancel` | `cancel_job` |
| `ReapSelect`, `ReapRerun`, `ReapFail`, `ReapRelaunch`, `ReapConfirm`, `ReaperDies` | one sweep of `fail_stalled_jobs` |

Reading notes.
- A token is a fresh uuid per claim, so the number of the claim (`epoch`) names
  it. The branch of the claim for a token the row already holds is unreachable:
  nothing claims twice with one token.
- After a claim whose answer was lost (`ClaimUnanswered`) the row has a lease and
  nobody has its ownership. The worker goes on as after a claim that was not made: it
  tries again and is refused by its own lease, gives the message back, or crashes.
- The two heartbeat sources are counted, not named: `running`, `unbeating` and
  `unkept` are a graph with two, one and no source left, since each stops at its
  first refusal. Preparation and artifact delivery send no heartbeat.
- `created_at` is time 0. The delivery counter's own TTL is longer than any run
  and is ignored.
- `taken` keeps when the broker returns a message rather than when it was taken, and
  all times after the clock's end are one (`ReturnsAt`).
- A call to Redis made while the row lock is held is one step with the row's
  change. A call made after the commit is a step of its own.
- The running-without-a-lease rule of `stalled_jobs_clause` is about rows older
  than leases: in this code a row becomes running by a claim, which leases it.
  The last rule, for a re-run out of review, is in RepairReview.

### ExecutionFence

Extends JobLease with the Redis mirror, the last claim heard in the event log and each
process's publication in progress. Every step of JobLease that touches the mirror is
conjoined with what it does to it: `ClaimMirrored` (a claim, answered or not) revokes
by the outgoing token under the row lock, `ClaimAborted` may have revoked before the
claim failed, `FenceSet` is the unconditional SET after the commit,
`BeatMirrored`/`BeatLost` renew before the beat's commit, which may fail. A
publication is `Authorize` (the row, without a lock), `Write` (the script compares the
mirror and appends), and once, when refused, `Heal` (`reverify_and_heal_fence`). A
refusal that stands is raised out of the graph and ends in the crash handler; an event
lost to a Redis error is dropped.

### TerminalEnding

What the ending writes and who tells it. The row's status, owner and
`final_result`, the debit, the park and the outbox are written by `Settle`, the
transaction of `finalize_terminal_atomic`; `Finalize` adds the fence, the
fall-back of a park that cannot be written, and the lost answer after which it is
repeated. `FinalizeCrash`, `Refuse`/`GuardFails` with `RefusalSaid`, `Reap` and
`Cancel` are the other ways to end; `Tell` is `publish_pending` for the job's
rows. `RunReview`, `Dispatched` and `Compensate` are the run route of the review.
The viewer is one browser with a cursor, connected to `ws.py`.

Leases are not repeated here: a running row may lose its owner (`Released`) or be
claimed by another delivery at any time, which is more than JobLease allows; a claim
whose answer was lost leaves an owner that is not running (`ClaimUnanswered`). A
crashed run of another owner usually goes quietly, but if its crash transaction raises
it announces a failure all the same (`FinalizeCrash`). Each member of `Run` is one
delivery with a token of its own. The log keeps only closing events, since no other
event ends a connection; its TTL is ignored. The API serves one launch or re-run at a
time and one cancel.

### BillingEvents, CreditLedger, CreditContract

`BillingEvents` is one tenant's subscription. `provider`, `sessions` and `events`
are the payment provider's side: the subscriptions, the open checkout pages, and
everything it (or the operator's plan page) has asked for. `org` is the
organisation's row; `handler` a webhook delivery under way with the row it loaded;
`claimed` the primary keys of `stripe_events`; `balance` the ledger's sum.

| Actions | Code |
|---|---|
| `StartCheckout`, `BuyPack`, `SubscriptionMoves`, `AskManualPlan` | `billing_service.start_checkout`, `start_credit_checkout`, `change_plan`; `admin_ops.set_manual_plan` |
| `CompleteCheckout`, `InvoicePaid`, `SubscriptionEnds` | the customer and the provider (external) |
| `BeginEvent`, `ApplyEvent`, `AbortEvent` | `stripe_webhook.receive`, `handle_event`: claim of the id, effect, flush of the changed columns, commit or 500 |

`CreditLedger` extends it. `admission` is an approval inside `spend_gate`, which
reads the plan, the running count and the balance in three statements under an
advisory lock; `charge` a terminal transaction inside `metering_service`, which
locks only when the plan bills overage; `sweep` a meter sweep, with `accepted` the
idempotency keys the provider has seen and `meter` what it counted. Actions:
`ReadPlan`, `CountRunning`, `ReadBalance`, `CreateJob`, `ApprovalRefused`;
`ChargeReadsPlan`, `ChargeLocks`, `ChargeCommits`, `ChargeFailsOpen`,
`EndUncharged`, `EndingLost`, `Park`, `Rerun`; `SweepStarts`, `SweepReports`,
`AnswerLost`, `SweepSkips`, `SweepStamps`, `SweepDies`.

`CreditContract` is the abstract account: each run charged at most once, its price
paid from credits and the rest due, and each due amount billed exactly once.
`KeepsTheAccount` is the ledger under the mapping *credits = balance, due = the
overage the meter has not counted, billed = the meter*.

Reading notes. READ COMMITTED is modelled as it is: a read sees what has committed
by then. A delivery flushes only the columns it changed against the row it loaded
(`Column`), so two overlapping deliveries may mix. One tenant; invoices an operator
draws by hand and pages that read usage change none of this state.

### RepairReview

The reviews of one job's group of defects. `item` holds the answers of each park,
`history` per defect its dated rows in the order of their
dates (which is all the next review asks of them), `paired` the defects with a
pairing key; `request` is a decision request and what it read, `run` a run request
and what its compensation would undo; `parkLock`/`jobLock` the two row locks;
`payload`, `mark`, `queued` the dispatch.

| Actions | Code |
|---|---|
| `RunParks`, `RunEnds` | `repair_review_park`, with `settle_left` (an earlier *leave* is not asked again) |
| `ReadOne`, `ReadAll`, `GiveUp`, `Decide` | `decide`: what is read before the model answers, and what is written under the park's lock after |
| `RunLocks`, `RunCommits`, `Dispatch`, `ConfirmRequeued`, `Compensate`, `RunDies` | `run_review` |
| `CancelLocks`, `CancelCommits`, `CancelDies`, `Victim` | `job_cancel`, which locks the job first; PostgreSQL chooses a victim of the cycle |
| `Claim`, `MessageGone`, `ReapRelaunches`, `ReapFails` | a worker takes the re-run, the message is lost, the reaper's two rules for a released re-run |

Reading notes. Items are one group: groups never interact. The sample settles on any
of the engineer's answers in it that acted (`Direction`), where the code takes the
latest. The wording of questions, the minting of proposals and the recording of
outcomes on earlier items are not modelled.

### ArtifactDelivery

One job's files in the store. `worker` is one execution's way through
`deliver_succeeded_run` with its tries; `store` the object under each key; `row`
the artifact rows; `record` the orphan records; `sweep` the reconciler between its
checks and its delete. `form` is how an execution stores its bundle, because that
decides what `_verify_integrity` and `_verify_streamed` can find out (`Checked`):

| `form` | What the code compares | So a stored object may be |
|---|---|---|
| `plain`: one object, the etag an md5 | the md5 of the file | the file's bytes |
| `multipart`: in parts, the etag no md5 | the local file's size with itself (`minio.py` reports its own stat of it) | anything |
| `streamed` out of the exchange bucket | the length, read back from the store | other bytes of that length |

What the worker was told of its object (`sum`) is what its row and its orphan record
say. Actions: `Claim`, `Cancel`, `Die`, `Finish`; `FileReport`,
`RegisterReport`, `DiscardReport`; `Upload`, `UploadFails`, `RowFails`,
`DeleteOrRecord`, `Register`, `CommitUnknown`, `Fenced`, `Finalize`; `Look`,
`Delete`, `DeleteFails`, `SweepDies`.

Reading notes. The mesh bundle (one key per job) and the repair report (a key made
of its content) stand for all files, which go one of these two ways. A run's small
report is stored in one piece, and the store is trusted with it. An upload that
raised may have stored its object (`UploadFails`, `FileReport`). `hand` is a
history variable: who was last on the bundle's object. The reconciler's own retry
counter only ends in `abandoned` and is not counted. A record's attempt is not kept:
when a row names a record's key, `Look` takes either of the outcomes the attempts
would decide between. A pass commits once, at its end, so `Delete` settles its record
or leaves it pending for the next pass.

### SourceUploads

One uploaded file. `intent`, `held`, `retries`, `lock` are the cleanup intent and
its row lock; `object`, `url`, `puts` the store; `source` the source row; `finish`
the finish requests of a direct upload; `sweep` the reclaim pass; `purge`, `claim`,
`aged`, `purged` the retention; `job` one job on the source. Actions: the multipart
route (`RecordIntent`, `StoreObject`, `CommitSource`, `CommitFails`, `Compensate`),
the direct route (`GiveUrl`, `Put`, `FinishLooks`, `FinishReads`, `Adopt`,
`DiscardLocks`, `DiscardDeletes`, `DiscardCommits`), the sweep (`SweepClaims`,
`SweepLooks`, `SweepDeletes`, `SweepFails`, `SweepCommits`, `SweepDies`), the purge
(`PurgeClaims`, `PurgeDeletes`, `DeleteFails`, `FinalizePurge`, `ReleaseClaim`,
`PurgerDies`) and `Approve`, `ApprovalEnds`, `JobEnds`. The geometry checks of the
bytes are one verdict (`Good` or `Bad`). A write that raised may have landed
(`StoreFails`). `purge` has two purgers: one whose claim has expired while it was
only slow, and the one that takes the claim over.

### NativeSubmission

One meshing pass. `claim` is the row of `native_submission_claims` per operation;
`worker` how far each claim of the job is, which operation it waits for, whether it
started that one itself (only then has it a reference to stop it by) and the mesh it
brought home; `input` and `exchange` the objects under keys derived from the
operation; `machine` and `beacon` the run itself; `sweep` the machine sweep between
judging and deleting; `starts`, `home`, `misjudged` are history.

| Actions | Code |
|---|---|
| `Takes`, `Cancel`, `Reap`, `Die` | the job's claim, owner's cancel, reaper and lost processes, as far as this component asks about them |
| `ClaimOperation`, `Adopt` | `ClaimingMeshExecutor.run`, `_adopt`, `native_submission_repository.claim`, `earlier_runs` |
| `Upload`, `UploadFails`, `Start`, `StartFails` | `_exchange`, `trigger_vm` |
| `SeeResult`, `NeverHeard`, `Gone`, `Abandon`, `Stop` | `_poll_gcs_json`, `remote_left_running`, `_stop` |
| `Collect`, `Leave`, `Release`, `Record` | the collection, its `finally`, and `_TRANSITION` |
| `Boots`, `Returns`, `Ends`, `FallsSilent`, `Ages` | `mesh_runner`, the machine's start-up script, `upload_result` |
| `SweepJudges`, `SweepDeletes` | `vm_sweep` |

Reading notes. An operation is named by the generation that claims it; the retry
count, also part of its name, is constant within a pass. Questions about the job
are answered from a read up to 30 seconds old, so a start, a collection or a release
may follow the moment the job was lost. A runner that lives pulses: writes of the
beacon that fail for twenty minutes on end are not modelled. Left out: resubmission
while the platform updates, big files kept in the bucket, a worker without room for
the result, and the Cloud Run job where it differs from a machine. The resubmission is a
loop (`cloud_run_client.py:779-800`) that starts the same operation again, under its own
key, for as long as the mesh job answers that it speaks another exchange contract and
has meshed nothing: `StartedOnce` is said up to it.

## 3. Runs

| Run | What it shows |
|---|---|
| `lease_safety` | Two processes, faults, claims whose answer is lost, expiring leases, broker returns: one process per generation, no unfinished row out of the reaper's sight, finished jobs inert, live leases not taken |
| `lease_settles` | Every job ends or parks, when only time and the reaper can be relied on |
| `fence_safety` | The event log never returns to an older claim, an outlived mirror only expires, a cancelled run is silent within a lease even if its revoke was lost, and the whole still implements JobLease's `Spec`: recovery at the publish seam is a heartbeat and nothing more |
| `ending_safety` | Outbox, record and charge agree, a finished record is final, an open park is never beside a running, succeeded or cancelled job, only the run that holds a running job parks it, and no socket waits for ever on a finished job |
| `credit_safety` | Purchases are granted once whatever the webhook's deliveries do; the balance covers the base charge of every run the gate let in; billed charges stop at zero; a stamped debit was counted; the ledger implements the account |
| `credit_metered` | Every overage reaches the meter although a row the provider always rejects stays in front of it and sweeps fail and die |
| `review_safety` | The re-run's payload is the answers of the closed review; no group answer reaches a paired defect; a defect left once is not asked again |
| `review_settles` | A review is open exactly while its job is parked; run requests, compensation, cancel, claim and reaper together keep JobLifecycle; nobody waits for ever on the two locks; a released re-run is taken, failed or undone |
| `artifact_safety` | Rows are written by the owner only; a succeeded job was delivered by the execution that ended it, as far as the check of its way of storing reaches; a filed report is not overwritten |
| `source_uploads` | Adopted bytes and the bytes of an approved job stay; every intent settles; every purge is recorded, also when a second purger takes the claim over from a slow one |
| `native_safety` | One machine per operation (up to resubmission, section 2), no mesh of another payload, no exchange released before its mesh is home, no working machine ended by a worker that lost the job |
| `source_kept` (violation) | Section 7: the sweep deletes the object of an upload that is about to commit its source |

Every property of a passing run has a mutant: a definition such as
`StalledUnlessHandedBack` or `Retryable` beside the one it would replace, which is
the bug the property is there to catch. The type invariants of JobLease,
ExecutionFence, CreditLedger, ArtifactDelivery, SourceUploads and NativeSubmission are
proved (section 6) and not repeated in the runs.

Deadlock is not checked: a finished job, an upload purged or a tenant out of bounds
ends every behaviour, as it does in the program.

## 4. Bounds, and why they are enough

- Two of everybody who races: processes, deliveries, approvals, meter sweeps, webhook
  deliveries, answers, finishes, purgers, claims. (One reaper, one reconciler and one
  reclaim pass: each of them races the others' work, and a pass of its own that died.)
  A third would be another loser: rows hold one token, one claim, one lock, and every
  hazard is between a holder and one other. The proofs hold for any number.
- `Lease = 1` is the shortest lease that can be live, lapse and be past the
  reaper's extra lease within a few ticks. `Budget`, `Ceiling`, `Grace` and
  `Visibility` are set so that each expires within `MaxClock` where its run needs
  it: in `lease_safety` the lease, the ceiling and the visibility window, in
  `lease_settles` everything (`MaxClock = 10` exceeds the latest time at which the
  last rule can fire, `LastInput + Budget + Grace + 2 * Lease`).
- `LastInput` stops claims and signs of progress while the clock goes on, so that
  a run can be seen to its end; without it a bounded clock would cut off jobs
  that are still being kept alive.
- In `fence_safety` three ticks and `Budget = 4` are the least: the reaper re-runs a
  lapsed job at the third, if its deadline is not over by then, and the takeover can only
  be heard and contradicted in the log if claims are still accepted at that tick (with
  `LastInput = 2` or `Budget = 3` an unfenced write goes unnoticed). The visibility
  window is longer than its clock; returned copies are in `lease_safety`, where the
  window ends at the last tick that accepts claims.
- `lease_safety` needs `Budget = 4` and `LastInput = 3` for the same reason: the reaper's
  late update can only meet a live lease if the job may still be claimed at the tick at
  which it was selected.
- `Cap` is 1 or 2 and `MaxDeliveries` larger than it, so that the poison branch,
  hand-backs that forgive a delivery and returned copies all happen.
- `MaxParks = 1` in `ending_safety`, with two deliveries: park, re-run, and an
  ending after it. `MaxParks = 2` in `review_safety`, for what a second review
  makes of the first; `MaxAnswers = 2` lets one answer be written over another.
- `credit_safety`: two runs priced 2 and 3 against 2 credits, 2 per admission and
  2 per purchase, so that the balance falls short, is exactly spent, and goes
  negative where the plan is not billed. `MaxEvents = 2` is the shortest history in
  which one event is late for another. `Poison` has one run and a sweep takes two.
- `artifact_safety`: two contents and two tries, so that a retry is the last. Each of the
  three ways of storing is once taken over by another and once takes over (`MCForms`).
- `source_uploads`: three puts are one before each of two finishes and one between; one
  good content and one bad tell an adopted object from a refused one; two purgers, one
  of which may take over the other's claim;
  `MaxRetries = 2` reaches the abandoned state.
- `native_safety`: two claims of the job, in one generation or in two, and two
  payloads; 6.7 million states. Liveness of a submission is beyond that.
- Symmetry is used in safety runs only.

## 5. Fairness

`JobLease!FairSpec` assumes that time passes and that the beat schedule keeps
running the reaper (`celery_app.py`, every ten minutes). No worker, message,
launch or cancel is fair, and `ReaperDies` may interrupt sweeps, though not for
ever (`LastInput`).

`TerminalEnding!FairSpec` assumes only that a connected socket's loop goes round:
`ws.py` waits five seconds at a time for an event and looks at the row when none
came.

`CreditLedger!SweepFairness` assumes that the scheduled sweep is started again and
again, that a report it keeps trying is answered in the end, and that sweeps do not
die for ever; reports may fail and time out any number of times. It needs
`Cardinality(Poison) < SweepBatch`: rows the provider always rejects stay the oldest,
and as many of them as a sweep takes would hide all others.

`RepairReview!Fairness` assumes that a request which keeps getting its locks goes
on to its commit or is chosen as the victim, that a cancel which holds the row
commits, and that the reaper keeps sweeping. Nobody need answer, run or take a job,
and every request may die.

`SourceUploads!FairSpec` assumes that clocks run, requests and jobs end, the reclaim
pass and the retention are scheduled again whatever became of the last, and that the
store is not down for ever. Strong fairness of their steps says that one pass gets
through in the end. For two purgers it says so of the one that holds the claim: it
deletes, and it records, in the end - a claim is taken over only from a purger that was
silent for `CLAIM_EXPIRY`, and not every one is. Nobody need upload or finish anything.

`NativeSubmission` states none: only its safety is checked.

## 6. Proofs

All for any constants that satisfy the named assumptions in the modules. Every
module has one inductive invariant, which adds to the properties what they rest on.

`JobLease_proofs`: `TypeCorrect`, `LeaseInvariant` (`Spec => []LeaseInv`), and from it
`OneProcessPerGeneration`, `SucceededFetchable`, `ReaperCoversEveryRow`, and the
action properties `FinishedIsInert` and `LiveLeaseSafe`. `LeaseInv` has
*ClaimsAreOrdered*: the row's token is its latest claim or none, no process holds a
later one, and a process that holds the row's generation is the row's
`execution_id`; without the last conjunct a re-claim that keeps the generation could
let a second process in. *RegisteredByHolder*: a process about to succeed with the
latest claim has registered with it. *UnfinishedRowHasClock*: a pending row has no
token, a running one has a lease, a started one a deadline, none further away than
the durations allow; it is what makes one of the reaper's rules fire.
*SweepIsAboutTheExpired*: what the reaper selected for a re-run as running had lapsed
when selected, so an unchanged lease is a lapsed lease. The argument classifies every
step by what it does to the row (`RowSteps`, nine kinds) and to the processes
(`QuietSteps`), and then treats the kinds. `LeaseKeepsTheLifecycle` needs one more
fact: a commit that succeeds asks for its token, and a pending row has none.

`ExecutionFence_proofs`: `FenceInvariant` (`FSpec => [](LeaseInv /\ FenceInv)`), and
from it `FenceTypes`, `FenceKeepsTheProtocol` (`FSpec => LeaseProtocol`: initial
states map to initial states, every step to one of JobLease's or a stutter, so all
theorems of the lease hold with the mirror in place, as `PromisesHoldWithMirror`
says), `LogOrdered`, `OutlivedExpires` and `CancelSilences`. The refinement rests on
*PublishesFromGraph* and *UnkeptIsRefused*: a publishing process is in its graph run,
and where both heartbeats have ended no beat would be accepted again, since the
deadline moves only for the owner and the owner still beats; hence an accepted `Heal`
is a beat some process still had to make. The log and the cancel rest on
*MirrorFollowsClaims* (tokens are unique, and a claim is in the mirror only after its
own SET) and *WritersAreLatest*: between the authorizing read and the script, a writer
whom the mirror still names has not been overtaken, because a later claim must
displace it to be heard and only the row's owner gets the mirror back; after a cancel
nobody is the owner, so the mirror lives on the lease it had.

`TerminalEnding_proofs`: `EndingInvariant`, and from it `OutboxTruthful`,
`ChargedOnce`, `ParksUndecided`, `RecordFinal` and `EndingKeepsTheLifecycle`.
`EndingInv` needs `ParkedByOwner`: while a job is parked, the run its row still names
as owner is the one that parked it, and if that run repeats its commit it repeats the
park. `pending_review` is a legal source of `succeeded`, and without this fact a
success could overtake the park and leave it open.

`KeysInvariant`, and from it `EndingTyped` and `OnlyOwnerParks`. The rows of the outbox
and the closings in the log have one key each (*OutboxKeyed*, *LogKeyed*), which bounds
the length of both. A run that means to park has a number left to park under or finds a
park open (*ParkRoom*). What a delivery appends to the log is the pending rows in their
order; `InOrder` says so with increasing functions, because nothing can be proved here
of a filter over a sequence. `OnlyOwnerParks` is the action property that a running job
is parked by the delivery that holds it, however the re-run, its compensation and
another claim overlap.

`CreditLedger_proofs`, first part: `WebhookGrantsOnce`, of BillingEvents alone.
*EventsInv*: exactly one event of a purchase grants it (a pack's session if it was
settled, its delayed payment otherwise). *DeliveriesInv*: an event is in one delivery
at a time, and in none once committed. *CustomerInv*: whoever has subscribed is a
customer in the row, also in the row a delivery loaded earlier, so an invoice finds
its tenant. *GrantsInv*: what was granted is what the committed granting events say.

`CreditLedger_proofs`, second part: `CreditInvariant`, `CreditTypes`,
`PurchasesGrantedOnce`, `GateCovers`, `BilledStopsAtZero`, `StampedWasCounted`, and
`LedgerImplementsAccount`: the initial states map to initial states and every step to
a step of the account or a stutter. Beside the webhook's invariant, *StageInv*: a run
under charge is active and only a charged one has an overage. *FundsInv*: one charge
holds the lock, and what it has read is stale but still covered, since others only add
or are unbilled. *GateInv*: one admission is at the gate, it counted no fewer runs
than are held back for, and once it has read the balance that covers one more.
*MeterInv*: the meter counted a debit's overage exactly if the provider has seen its
key. `NeverOverbilled` follows from the account alone: *BilledWithinPrice* is
inductive in CreditContract, and the refinement carries it over to the meter.

`ArtifactDelivery_proofs`: `DeliveryInvariant`, `ArtifactTypes`,
`LosersRegisterNothing`, `SuccessWasDelivered`, `EvidenceStands`. *WorkersInv*: no
worker is newer than the owner or has spent its tries. *Sound* is what the code's
check is worth, by the way of storing, as long as no other hand was on the object: the
file's bytes for a plain object, its length for a streamed one, and for one in parts
only that the row says what the store said. *OwnBytes* has it of every worker that passed
the check, and that a report's object is what its key says. *RowsInv*: no row is newer
than the owner, and a report's row names the key of its content. *EndInv*: an owner past
its registration has its row, *Sound*, and one that ended the job is gone, so that
nobody's later hand is mistaken for its own. *SweptInv*: the reconciler deletes what has
a record.

`SourceUploads_proofs`: `SourceInvariant`, `SourceTypes`, `CommittedIsSettled`,
`ApprovedJobProtected`, `AdoptedBytesStay`. An intent is open while its lock is held
(*LockedIsOpen*), absent before the upload (*NewIsEmpty*) and retried below the limit
(*BudgetLeft*); what is about to be adopted is good (*CheckedIsGood*) and a source
closes its intent (*SourceIsClosed*), which is why nobody who asks under the lock
deletes an adopted object. Purges are of aged sources (*PurgedIsAged*), jobs are on a
source (*JobHasSource*), and for a job that is safe nobody is about to delete (*Safe*).

`NativeSubmission_proofs`: `SubmissionInvariant`, `SubmissionTyped`,
`OneStartPerOperation`, `MeshOfItsPayload`, `ReleasedWasBroughtHome`,
`NoWorkThrownAway`. As the module leaves the resubmission loop out (section 2),
`OneStartPerOperation` is proved up to it. *ClaimsInv* and *UnclaimedIsEmpty*: nothing
is staged or started under an unclaimed operation, and what is staged is the payload
it was claimed with. *StartingInv*: a worker between its claim and its start is alone
there, and its operation was not started. *WaitingInv*: whoever waits for an operation
staged the payload it was claimed with, which for an adopter is what `earlier_runs`
asks for, and what is home was brought home. `NoWorkThrownAway` is about a machine
stopped some steps after it was judged. *JudgedInv*: whoever is about to end a run has
a reason, namely that the machine has stopped working, its result is there, its
operation was misjudged, or the job was cancelled (*Discharged*). *MachineInv*: a
beacon is silent only after the machine stopped working. `ReasonsStay` then shows that
no step takes a reason back.

`RepairReview_proofs`: `ReviewInvariant`, `OpenWhileParked`, `PayloadMatchesAnswers`,
`PairedAlone`, `ReviewTyped`, `LeftStaysLeft`, `ReviewKeepsTheLifecycle`. *OpenInv*: a
review is open exactly while the job is parked, one at most, and the run request that
holds the lock holds the open one. *PayloadInv*: until the re-run runs, its payload is
the answers of the park it closed; an answer is only written to an open park, and none
is open while the job is released. *PairInv*: a request under way means to cover no
paired defect. *HistoryInv*: the dated rows of a defect are exactly its decided ones
and lie in one order, so a defect that was only ever left has a latest decision, and
it is *leave*; reopening a row takes its date away, and dating it again puts it last.
The lifecycle needs that a cancel which holds the job's lock still finds the job
unfinished (*CancelFoundAlive*).

Every safety invariant and every action property of the passing runs is stated by one of
these theorems. Only model-checked is liveness (`EveryJobSettles`, `WatcherIsReleased`,
`OverageIsMetered`, `NobodyWaitsForEver`, `IntentsSettle`, `PurgeIsRecorded`), which
rests on fairness and `ENABLED`, out of the prover's reach.

## 7. Where code and comments disagree

`source_kept` finds, against "an upload that succeeded must keep its object"
(`maintenance/reconcile.py:142`): a multipart upload's cleanup intent is due at once,
so a sweep between the object's write and the source's commit locks the intent, finds
no source, deletes the object and closes the intent, and the source then commits
without its bytes.

The others were met while modelling; each is a behaviour of the modules, and is why
the corresponding property is not stated or is stated up to it.

Lease, fence and ending
- Refusals before execution fail the row by its status alone: a worker whose lease
  lapsed while it prepared fails the run another has claimed since (`Refuse`).
- The reaper's fail path compares only the status it selected; the re-run path
  compares the lease too (`ReapFail`).
- The visibility window counts from the moment a message is taken while the deadline
  moves with progress: a long, healthy run's message is returned. The claim refuses
  the copy, so the harm is to the delivery counter.
- The reaper clears the token without revoking the mirror, and the next claim has no
  token to revoke by. `EventLogOrderedByClaim` holds because the authorization reads
  the row and the new claim's own SET displaces the mirror (proved: `LogOrdered`).
- The install after the claim's commit is unconditional: a superseded worker
  displaces the owner's mirror, and the owner, refused twice, crashes its own run.
- No sweep drains the outbox; the socket's look at the row is what keeps viewers from
  waiting. A refusal publishes a failure under the job's key even if its transition
  did not apply, and the cancel's announcement is then dropped as a duplicate.
- A superseded run whose crash transaction raises does not learn that it was fenced and
  publishes a failure of a job another is still running (`FinalizeCrash`,
  `terminal_finalize.py:538`).
- A park commit whose answer was lost is repeated, finds its own park open, and fails
  the job with the park still open.

Review
- "Members answered on their own keep their answer" (`repair_review.py:372`): the
  members of a group redirect are chosen before the model answers, and one answered
  meanwhile is overwritten. Paired defects are safe, since the pairing never changes.

Billing
- `billing_service.py:270` says a deletion leaves "exactly what a former customer
  should get: the free behaviour, immediately", and line 362 that "the provider does
  not order its deliveries": an *updated* event applied after the *deleted* one gives
  the former customer the plan back, for good. A deletion of one subscription clears
  the plan of another begun since, and overlapping deliveries can leave a row that
  mixes the columns of both.

Artifacts and sources
- An upload is not fenced: a worker that was taken over overwrites the owner's bundle
  under the same key, and only its row is refused.
- `_verify_integrity` cannot tell a bundle stored in parts from any other object: its
  etag is no md5, and `minio.py:86` reports the local file's own size as the stored one.
  Bundles big enough for that are in effect not checked. A streamed bundle's length is
  read back, its content is not. `SucceededWasDelivered` says what holds of which.
- The checksum on record of a streamed bundle is the md5 of what was sent, which the etag
  of an object in parts never equals: the reconciler takes such an orphan for a newer
  write, records a conflict and leaves it.
- The reconciler may delete a delivered bundle, against "we must not delete someone
  else's object" (`reconcile.py:79`): a failed attempt leaves a record, the pass finds no
  row and the recorded checksum, the retry stores the same content, registers it and the
  job succeeds, and the pass deletes the object. In the model: `DeleteOrRecord`, `Look`,
  `Upload`, `Register`, `Finalize`, `Delete`.
- An upload that raised although its object landed leaves no record (`UploadFails`); for a
  source it closes the intent as deleted (`StoreFails`, `upload.py:318`). Nothing reclaims
  such an object.
- A source commit whose answer was lost is compensated by deleting the object of a source
  that exists (`upload.py:387`; `CommitSource`, `Compensate`). The client was told of a
  failure.
- A repair report refused by the fence leaves its object without a record; a second
  orphan of a key is dropped by the record's unique key.
- The approval reads `purged_at` and not the purge claim: a purge under way deletes
  the bytes of a job approved after its claim.

Native submission
- `_exchange` turns every refusal into a failure document, so a definite refusal is
  recorded `indeterminate`; `failed` is left for a missing configuration.
- `_adopt` records `accepted` whatever came of the run it adopted, and an adopter has
  no reference: an owner's cancel does not stop the machine it waits for.
- A replay within the generation of an accepted, collected operation waits out its
  deadline on a released exchange (against `native_submission.py:276`).
- After a collection the beacon stays fresh for some twenty minutes: a new owner
  adopts a run that is over (against "nothing running and no result").
- `_beacon_age` reads an unreadable beacon as one never heard, so the sweep may delete
  a working machine ("never swept"; "a question that cannot be answered keeps the
  VM"). `misjudged` names these cases in `WorkIsNotThrownAway`.
- A release that fails half way can leave a result document without its output, which
  the next owner adopts and cannot collect (`hollow`).

## 8. What is left out

- Meshing engines, CAD kernel, rendering and the sandbox are numerical and
  geometric code, and most of the repository's lines; capture and traces are
  write-only; accounts, organisations and API keys are single transactions; the
  geometry check is a read with a cache.
- Wording of results, questions and events, post-terminal records, tickets and
  session caps of the socket.
- The platform-contract hold only delays a delivery (a stutter here). Celery's
  revoke after a cancel is left out because a claim refuses the message anyway.
- Checkpoint writes (`fenced_checkpointer.py`) take the row lock and check the
  owner exactly as `Register` does and are not actions of their own.
- The pipeline graph's routing, repair jobs, intake's conversation, model capacity
  and idle retirement: section 9.

## 9. Plan

Done: JobState, JobLifecycle, JobLease, ExecutionFence (composed with JobLease and
shown to implement it), TerminalEnding, BillingEvents, CreditLedger (shown to
implement CreditContract), RepairReview, ArtifactDelivery, SourceUploads,
NativeSubmission, the proofs of all of them, and JobLifecycle as what three of them
implement.

What would add most, in order:

1. **Graph routing**: retry budgets and engine fallback as a function of the graph
   state, checked for an end on every path.
2. **Model capacity slots** (`adapters/model_capacity/redis.py`): slots of dead
   holders, and the breaker's half-open state.
3. **Repair jobs' state table** and claim, a small copy of the lease's.
4. **NativeSubmission liveness**, over a coarser machine.
