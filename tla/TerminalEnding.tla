--------------------------- MODULE TerminalEnding ---------------------------
(***************************************************************************)
(* How a run's ending is decided, recorded, charged for and told.          *)
(*                                                                         *)
(* The status, the final record, the charge, the park and the outbox row   *)
(* are written by one transaction; the closing event reaches the job's log *)
(* in Redis afterwards, from the outbox or from one of the paths that      *)
(* speak directly; the viewer hears it from the log, or from the socket's  *)
(* own look at the row.  Leases are JobLease's matter: here a row may lose *)
(* its owner at any time.                                                  *)
(***************************************************************************)
EXTENDS Integers, Sequences, FiniteSets, JobState

CONSTANTS
  Run,        \* deliveries of the job's message, each with its own token
  None,       \* no owner; nothing recorded; nothing shown
  MaxParks,   \* bound: reviews this job may wait for
  Faults      \* TRUE: single calls may fail, answers be lost, processes die

ASSUME NoneAssumption == None \notin Run \cup Status
ASSUME ParkAssumption == MaxParks \in Nat /\ Faults \in BOOLEAN

VARIABLES
  status, owner,   \* the job row: status, active_worker_token
  record,          \* the job row: final_result, by the status it reports
  charged,         \* debits in the credit ledger for this job
  park,            \* the latest RepairReviewPark: its number, and if it is open
  outbox,          \* terminal_outbox rows, in order of creation
  log,             \* the closing events of the Redis log, in order
  pc, plan,        \* per run: where it is, the status it means to end with
  api,             \* the request that launches, or re-launches, the job
  cancel,          \* the cancel request, after its commit
  viewer           \* the one browser: its socket, cursor and closing shown

rowVars == <<status, owner, record>>
endVars == <<charged, park, outbox>>
runVars == <<pc, plan>>
webVars == <<api, cancel>>
vars == <<status, owner, record, charged, park, outbox, log, pc, plan, api,
          cancel, viewer>>

----------------------------------------------------------------------------
(* The outbox and the log.                                                 *)

EndKey == 0        \* "terminal:<job>"; a park's key is its number

\* Mutant of KeyOf: a park is announced under the job's own key.
KeyAlways(to) == EndKey

KeyOf(to) == IF to = "pending_review" THEN park.n + 1 ELSE EndKey

Keys(events) == {events[i].key : i \in DOMAIN events}

\* INSERT ... ON CONFLICT DO NOTHING on the dedup key.
Enqueue(key, says) ==
  outbox' = IF key \in Keys(outbox) THEN outbox
            ELSE Append(outbox, [key |-> key, says |-> says, told |-> FALSE])

\* Mutant of Spoken: a row that is said again is a new event.
NeverSpoken(event) == FALSE

\* The log script: one event per key, whoever comes first.
Spoken(event) == event.key \in Keys(log)
Emit(key, says) ==
  log' = IF key \in Keys(log) THEN log ELSE Append(log, [key |-> key, says |-> says])

\* A closing said directly; a failure to say it is swallowed.
SayDirectly(says) == Emit(EndKey, says) \/ (Faults /\ UNCHANGED log)

\* A set of rows, read in the order they were created.
InOrder(rows) ==
  {order \in [1..Cardinality(rows) -> rows] :
     \A j, k \in DOMAIN order : j < k => order[j] < order[k]}

\* publish_pending over the job's rows: each row in turn is said and marked,
\* or fails and stays; the marks are committed together, or lost together.
Closing(event) == [key |-> event.key, says |-> event.says]
Told(event, said) ==
  IF event.key \in said
  THEN [key |-> event.key, says |-> event.says, told |-> TRUE] ELSE event
Tell ==
  LET untold == {outbox[i].key : i \in {j \in DOMAIN outbox : ~outbox[j].told}}
  IN \E said \in IF Faults THEN SUBSET untold ELSE {untold} :
       /\ \E order \in InOrder({i \in DOMAIN outbox :
                                 outbox[i].key \in said /\ ~Spoken(outbox[i])}) :
            log' = log \o [k \in DOMAIN order |-> Closing(outbox[order[k]])]
       /\ \/ outbox' = [i \in DOMAIN outbox |-> Told(outbox[i], said)]
          \/ Faults /\ UNCHANGED outbox

----------------------------------------------------------------------------
(* The row.                                                                *)

\* transition() to failed by a path that holds no claim, and the record it
\* writes beside it - some paths write none.  The database call may fail.
FailRow(records) ==
  \/ /\ status \in LegalSources["failed"]
     /\ status' = "failed" /\ record' \in records
  \/ /\ Faults \/ status \notin LegalSources["failed"]
     /\ UNCHANGED <<status, record>>

\* Mutant of Charge: every ending that is not a failure is charged.
ChargeParks(to) ==
  charged' = charged + IF to \in {"succeeded", "pending_review"} THEN 1 ELSE 0

\* Only a success is charged; an error while charging is swallowed.
Charge(to) ==
  \/ to = "succeeded" /\ charged' = charged + 1
  \/ (Faults \/ to # "succeeded") /\ UNCHANGED charged

\* What a run meaning to park may do instead when the park cannot be written:
\* one is open already, or the write fails.
Recordable(intended) ==
  IF intended # "pending_review" THEN {intended}
  ELSE IF park.open THEN {"failed"}
  ELSE IF Faults THEN {intended, "failed"} ELSE {intended}

\* Mutant of Settle: the record is written whether or not the transition was.
SettleAlways(to) ==
  /\ record' = to /\ Charge(to) /\ Enqueue(KeyOf(to), to)
  /\ status' = IF status \in LegalSources[to] THEN to ELSE status
  /\ park' = IF to = "pending_review" THEN [n |-> park.n + 1, open |-> TRUE] ELSE park

\* The transaction of finalize_terminal_atomic once the fence let it through.
Settle(to) ==
  IF status \in LegalSources[to]
  THEN /\ status' = to /\ record' = to /\ Charge(to) /\ Enqueue(KeyOf(to), to)
       /\ park' = IF to = "pending_review" THEN [n |-> park.n + 1, open |-> TRUE]
                  ELSE park
  ELSE UNCHANGED <<status, record, charged, park, outbox>>

----------------------------------------------------------------------------
Init ==
  /\ status = "pending" /\ owner = None /\ record = None
  /\ charged = 0 /\ park = [n |-> 0, open |-> FALSE]
  /\ outbox = <<>> /\ log = <<>>
  /\ pc = [r \in Run |-> "idle"] /\ plan = [r \in Run |-> None]
  /\ api = "launching" /\ cancel = "idle"
  /\ viewer = [at |-> "away", cursor |-> 0, shown |-> None]

Go(r, place) == pc' = [pc EXCEPT ![r] = place]
At(r, place) == pc[r] = place /\ UNCHANGED <<webVars, viewer>>

(* A delivery, from its claim to the end of its run.                       *)

\* The delivery is over the cap, and the row was not seen finished (or could
\* not be read) ...
GuardReads(r) ==
  /\ At(r, "idle") /\ (Faults \/ status \notin Terminal) /\ Go(r, "poison")
  /\ UNCHANGED <<rowVars, endVars, log, plan>>

\* ... so the job is failed, with a record and without a claim.
GuardFails(r) ==
  /\ At(r, "poison") /\ FailRow({"failed"}) /\ Go(r, "refusing")
  /\ UNCHANGED <<owner, endVars, log, plan>>

\* The claim of a pending job, or of a running one whose lease has lapsed.
Claim(r) ==
  /\ At(r, "idle") /\ status \in {"pending", "running"}
  /\ status' = "running" /\ owner' = r /\ Go(r, "claimed")
  /\ UNCHANGED <<record, endVars, log, plan>>

\* The claim's answer is lost after its commit.  The run is not started: it tries
\* again, is refused by its own lease, or crashes.
ClaimUnanswered(r) ==
  /\ At(r, "idle") /\ Faults /\ status \in {"pending", "running"}
  /\ status' = "running" /\ owner' = r
  /\ UNCHANGED <<record, endVars, log, pc, plan>>

\* The claim is refused, or the guard drops the delivery as a stale copy.
ClaimRefused(r) ==
  /\ At(r, "idle") /\ Go(r, "gone")
  /\ UNCHANGED <<rowVars, endVars, log, plan>>

\* The claim raised: the crash handler runs without an ownership.
ClaimRaises(r) ==
  /\ At(r, "idle") /\ Faults /\ Go(r, "stillborn")
  /\ UNCHANGED <<rowVars, endVars, log, plan>>

\* Admission, geometry or budget refuses the run before the graph: failed by
\* status alone, with a record or without.
Refuse(r) ==
  /\ At(r, "claimed") /\ FailRow({"failed", record}) /\ Go(r, "refusing")
  /\ UNCHANGED <<owner, endVars, log, plan>>

\* ... and the closing is said whether or not the row moved.
RefusalSaid(r) ==
  /\ At(r, "refusing") /\ SayDirectly("failed") /\ Go(r, "gone")
  /\ UNCHANGED <<rowVars, endVars, plan>>

\* The graph ends and the run decides how it ended.
Decide(r) ==
  /\ At(r, "claimed") /\ Go(r, "finalizing")
  /\ \E p \in {"succeeded", "failed"} \cup
              (IF park.n < MaxParks THEN {"pending_review"} ELSE {}) :
       plan' = [plan EXCEPT ![r] = p]
  /\ UNCHANGED <<rowVars, endVars, log>>

\* The terminal commit.  Its answer may be lost: it is repeated, with the plan
\* it had, or the crash handler takes over.
Finalize(r) ==
  /\ At(r, "finalizing")
  /\ IF owner # r THEN Go(r, "gone") /\ UNCHANGED <<status, record, endVars>>
     ELSE \E to \in Recordable(plan[r]) :
            /\ Settle(to)
            /\ Go(r, "delivering") \/ (Faults /\ (Go(r, "finalizing") \/ Go(r, "crashed")))
  /\ UNCHANGED <<owner, log, plan>>

\* deliver_own_terminal_event, then nothing left to do - unless a step around
\* it raises.
DeliverOwn(r) ==
  /\ At(r, "delivering") /\ Tell
  /\ Go(r, "gone") \/ (Faults /\ Go(r, "crashed"))
  /\ UNCHANGED <<rowVars, charged, park, plan>>

\* The run raises.
Crash(r) ==
  /\ At(r, pc[r])
  /\ pc[r] = "claimed" \/ (Faults /\ pc[r] \in {"finalizing", "delivering"})
  /\ Go(r, "crashed")
  /\ UNCHANGED <<rowVars, endVars, log, plan>>

\* finalize_crash: fenced when the claim was lost, unfenced when there was none.
\* A transaction that raises - done or not, its fence met or not - is followed
\* by a direct closing.
FinalizeCrash(r) ==
  /\ pc[r] \in {"crashed", "stillborn"} /\ At(r, pc[r])
  /\ \/ Faults /\ Go(r, "refusing") /\ UNCHANGED <<status, record, endVars>>
     \/ IF pc[r] = "crashed" /\ owner # r
        THEN Go(r, "gone") /\ UNCHANGED <<status, record, endVars>>
        ELSE Settle("failed") /\ (Go(r, "lastword") \/ (Faults /\ Go(r, "refusing")))
  /\ UNCHANGED <<owner, log, plan>>

LastWord(r) ==
  /\ At(r, "lastword") /\ Tell /\ Go(r, "gone")
  /\ UNCHANGED <<rowVars, charged, park, plan>>

\* The process is killed.
Die(r) ==
  /\ At(r, pc[r]) /\ pc[r] \notin {"idle", "gone"} /\ Go(r, "gone")
  /\ UNCHANGED <<rowVars, endVars, log, plan>>

----------------------------------------------------------------------------
(* Everybody else who moves the row.                                       *)

\* A hand-back, or the reaper's re-run of a lost worker's job.
Released ==
  /\ status = "running" /\ status' = "pending" /\ owner' = None
  /\ UNCHANGED <<record, endVars, log, runVars, webVars, viewer>>

\* The reaper fails a stalled job.  It speaks before its commit, under the
\* lock of the row it has updated; the commit may fail.
Reap ==
  /\ status \in {"pending", "running"} /\ SayDirectly("failed")
  /\ \/ status' = "failed" /\ record' = "failed"
     \/ Faults /\ UNCHANGED <<status, record>>
  /\ UNCHANGED <<owner, endVars, runVars, webVars, viewer>>

Launched ==
  /\ api = "launching" /\ api' = "idle"
  /\ UNCHANGED <<rowVars, endVars, log, runVars, cancel, viewer>>

\* The launch raised, though the broker may have the message: no record, no
\* closing.
MarkLaunchFailed ==
  /\ Faults /\ api = "launching" /\ api' = "idle" /\ FailRow({record})
  /\ UNCHANGED <<owner, endVars, log, runVars, cancel, viewer>>

\* Mutant of ClosedBy: a cancelled run's park is left as it is.
LeftOpen(was) == park

ClosedBy(was) == IF was = "pending_review" THEN [park EXCEPT !.open = FALSE] ELSE park

Cancel ==
  /\ status \notin Terminal
  /\ status' = "cancelled" /\ owner' = None /\ record' = "cancelled"
  /\ park' = ClosedBy(status) /\ Enqueue(EndKey, "cancelled")
  /\ cancel' = "delivering"
  /\ UNCHANGED <<charged, log, runVars, api, viewer>>

CancelTells ==
  /\ cancel = "delivering" /\ cancel' = "idle" /\ Tell
  /\ UNCHANGED <<rowVars, charged, park, runVars, api, viewer>>

\* The engineer runs the review: back to pending, the park closed, the lease
\* reset - and only then the dispatch.
RunReview ==
  /\ api = "idle" /\ park.open /\ status = "pending_review"
  /\ status' = "pending" /\ owner' = None
  /\ park' = [park EXCEPT !.open = FALSE] /\ api' = "rerunning"
  /\ UNCHANGED <<record, charged, outbox, log, runVars, cancel, viewer>>

Dispatched ==
  /\ api = "rerunning" /\ api' = "idle"
  /\ UNCHANGED <<rowVars, endVars, log, runVars, cancel, viewer>>

\* Mutant of Reparkable: any legal source of pending_review.
ReparkableByTable == status \in LegalSources["pending_review"]

\* PINNED to pending.
Reparkable == status = "pending"

\* The dispatch failed: the job goes back to the review it left, if it is still
\* where the request put it and this transaction does not fail too.
Compensate ==
  /\ Faults /\ api = "rerunning" /\ api' = "idle"
  /\ \/ /\ Reparkable /\ status' = "pending_review"
        /\ park' = [park EXCEPT !.open = TRUE]
     \/ UNCHANGED <<status, park>>
  /\ UNCHANGED <<owner, record, charged, outbox, log, runVars, cancel, viewer>>

\* The API process serving the request dies.
ApiDies ==
  /\ Faults
  /\ \/ api # "idle" /\ api' = "idle" /\ UNCHANGED cancel
     \/ cancel # "idle" /\ cancel' = "idle" /\ UNCHANGED api
  /\ UNCHANGED <<rowVars, endVars, log, runVars, viewer>>

----------------------------------------------------------------------------
(* The viewer.                                                             *)

Sees(at, cursor, shown) == viewer' = [at |-> at, cursor |-> cursor, shown |-> shown]
Watching == UNCHANGED <<rowVars, endVars, log, runVars, webVars>>

\* The next closing after the cursor ends the connection, whatever it says.
HearsNext ==
  Sees("away", viewer.cursor + 1, log[viewer.cursor + 1].says)

\* The rendered record - or the status, when there is no record.
HearsRow ==
  Sees("away", viewer.cursor, IF record = None THEN status ELSE record)

\* The page connects with the cursor it has, or, reloaded, with none.  It stops
\* reconnecting once its own poll of the status says the job has ended.
Open ==
  /\ viewer.at = "away"
  /\ \/ Sees("replaying", viewer.cursor, viewer.shown)
     \/ Sees("replaying", 0, None)
  /\ Watching

\* The backlog, then one look at the row.
Replay ==
  /\ viewer.at = "replaying"
  /\ \/ viewer.cursor < Len(log) /\ HearsNext
     \/ /\ viewer.cursor = Len(log)
        /\ IF status \in Terminal THEN HearsRow
           ELSE Sees("live", viewer.cursor, viewer.shown)
  /\ Watching

\* Mutant of Silent: the row was looked at when the socket opened.
NeverSilent == FALSE

\* Nothing came for a while.
Silent == status \in Terminal

\* The next event; or none in time, and another look at the row.
Listen ==
  /\ viewer.at = "live"
  /\ \/ viewer.cursor < Len(log) /\ HearsNext
     \/ Silent /\ HearsRow
  /\ Watching

Disconnect ==
  /\ viewer.at \in {"replaying", "live"} /\ Sees("away", viewer.cursor, viewer.shown)
  /\ Watching

----------------------------------------------------------------------------
Deliver(r) == \/ GuardReads(r) \/ GuardFails(r)
              \/ Claim(r) \/ ClaimUnanswered(r) \/ ClaimRefused(r) \/ ClaimRaises(r)
              \/ Refuse(r) \/ RefusalSaid(r) \/ Decide(r)
              \/ Finalize(r) \/ DeliverOwn(r)
              \/ Crash(r) \/ FinalizeCrash(r) \/ LastWord(r) \/ Die(r)
Others == \/ Released \/ Reap \/ Launched \/ MarkLaunchFailed
          \/ Cancel \/ CancelTells
          \/ RunReview \/ Dispatched \/ Compensate \/ ApiDies
View == Open \/ Replay \/ Listen \/ Disconnect

Next == (\E r \in Run : Deliver(r)) \/ Others \/ View

Spec == Init /\ [][Next]_vars

\* The socket's loop waits five seconds at a time and has no other way out.
FairSpec == Spec /\ WF_vars(Replay) /\ WF_vars(Listen)

----------------------------------------------------------------------------
(* Properties.                                                             *)

Places == {"idle", "poison", "claimed", "stillborn", "refusing", "finalizing",
           "delivering", "crashed", "lastword", "gone"}
Word == Status \cup {None}
Closings == [key : 0..MaxParks, says : Status]

\* The types of the variables, and a log without two closings of one key.
EndingTypeOK ==
  /\ status \in Status /\ owner \in Run \cup {None} /\ record \in Word
  /\ charged \in Nat /\ park \in [n : 0..MaxParks, open : BOOLEAN]
  /\ outbox \in Seq([key : 0..MaxParks, says : Status, told : BOOLEAN])
  /\ log \in Seq(Closings) /\ \A i, j \in DOMAIN log : log[i].key = log[j].key => i = j
  /\ pc \in [Run -> Places] /\ plan \in [Run -> Word]
  /\ api \in {"idle", "launching", "rerunning"} /\ cancel \in {"idle", "delivering"}
  /\ viewer \in [at : {"away", "replaying", "live"}, cursor : Nat, shown : Word]

\* The announcement in the outbox under the job's own key is the ending the
\* row records, whichever of worker, crash handler and cancel wrote it, and a
\* park before it has not taken its place.
OutboxTellsTheRecord ==
  \A i \in DOMAIN outbox :
    outbox[i].key = EndKey => /\ status \in Terminal
                              /\ outbox[i].says = status /\ record = status

\* Once finished, nothing rewrites the ending: not a repeated commit, a crash
\* after it, a refusal, the reaper or a cancel.
FinishedRecordIsFinal ==
  [][(status \in Terminal) => UNCHANGED <<status, record, charged>>]_vars

\* A job is charged once at most, and only one that succeeded - however often
\* it parked, was re-run or was cancelled on the way.
ChargeFollowsSuccess ==
  charged <= 1 /\ (charged = 1 => status = "succeeded")

\* No run is waiting on a person under a status that has none to wait for:
\* an open park goes with a parked job (or with one a crash has failed).
OpenParkIsUndecided == park.open => status \in {"pending_review", "failed"}

\* A job a worker has taken is never pulled back into review: only the run
\* that holds it parks it.
OnlyItsRunParksARunningJob ==
  [][status = "running" /\ status' = "pending_review"
       => \E r \in Run : owner = r /\ pc[r] = "finalizing"]_vars

\* A socket does not wait for ever on a job that has ended, even when its
\* closing was never said.
WatcherIsReleased ==
  (viewer.at # "away" /\ status \in Terminal) ~> (viewer.at = "away")

----------------------------------------------------------------------------
(* The row as the transition table sees it.                                *)

Lifecycle == INSTANCE JobLifecycle

\* finalize_terminal_atomic, cancel_job, the review's run and its undoing, the
\* reaper: however they overlap, the job moves along the table.
KeepsTheLifecycle == Lifecycle!LifeSpec
=============================================================================
