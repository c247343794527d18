--------------------------- MODULE SourceUploads ---------------------------
(***************************************************************************)
(* One uploaded geometry file, from its cleanup intent to its purge.       *)
(*                                                                         *)
(* The bytes live in the object store under a key of their own; the        *)
(* database holds the intent to clean them up, written before they are,    *)
(* and the source row that adopts them.  A multipart upload passes through *)
(* one request.  A direct upload is begun by one request, put by the       *)
(* client itself, and finished by another, which may be repeated.  Beside  *)
(* them the reconciler reclaims what no row owns, and the retention purge  *)
(* deletes what is old and needed by no job.                               *)
(***************************************************************************)
EXTENDS Naturals

CONSTANTS
  Finisher,    \* finish requests that can be under way at once
  Purger,      \* retention passes that can be under way at once
  Good,        \* contents the checks accept
  Bad,         \* contents they refuse
  None,        \* no object; no row; nobody
  Sweep,       \* the reconciler, as a holder of the intent's row lock
  MaxPuts,     \* bound: objects the client puts
  MaxRetries   \* MAX_CLEANUP_RETRIES

ASSUME UploadAssumption ==
  /\ None \notin Good \cup Bad \cup Finisher \cup Purger
  /\ Good \cap Bad = {}
  /\ Sweep \notin Finisher \cup {None}
  /\ MaxPuts \in Nat /\ MaxRetries \in Nat \ {0}

VARIABLES
  kind,        \* "multipart" or "direct"
  request,     \* the request that stores or begins the upload, and its bytes
  intent,      \* state of the cleanup intent
  held,        \* TRUE while the sweep leaves the intent alone
  retries,     \* its retry_count
  lock,        \* who holds the intent's row lock
  object,      \* what is stored under the key
  puts,        \* how many objects the client has put
  url,         \* TRUE while the signed URL takes a PUT
  finish,      \* per finisher: how far, and the content it saw
  source,      \* the source row: what it says the bytes are
  sweep,       \* the reconciler: how far, and the state it will record
  aged,        \* TRUE once the source is past its retention
  purged,      \* purged_at is set
  claim,       \* purge_claim_id
  purge,       \* per purger: how far it is
  job          \* a job on the source: none, approving, active or ended; safe
               \* is active, and committed when its bytes were in no danger

uploadVars == <<kind, request>>
intentVars == <<intent, held, retries, lock>>
storeVars == <<object, puts, url>>
purgeVars == <<aged, purged, claim, purge>>
vars == <<uploadVars, intentVars, storeVars, finish, source, sweep, purgeVars,
          job>>

Content == Good \cup Bad
Idle == [at |-> "idle", saw |-> None]
NoSweep == [at |-> "idle", to |-> "pending"]
Closed == {"adopted", "deleted", "abandoned"}

\* Type correctness; and the row lock is held exactly by whoever is between
\* its lock and its commit.
SourceTypeOK ==
  /\ kind \in {"multipart", "direct"}
  /\ request \in [at : {"new", "begun", "stored", "failing", "over"},
                  saw : Good \cup {None}]
  /\ intent \in {"none", "pending"} \cup Closed
  /\ held \in BOOLEAN /\ retries \in 0..MaxRetries
  /\ lock \in Finisher \cup {None, Sweep}
  /\ object \in Content \cup {None} /\ puts \in 0..MaxPuts /\ url \in BOOLEAN
  /\ finish \in [Finisher -> [at : {"idle", "looked", "checked", "refused",
                                    "deleting", "deleted"},
                              saw : Content \cup {None}]]
  /\ source \in Good \cup {None}
  /\ sweep \in [at : {"idle", "claimed", "deleting", "done"},
                to : {"pending", "adopted", "deleted", "failed"}]
  /\ aged \in BOOLEAN /\ purged \in BOOLEAN
  /\ claim \in Purger \cup {None}
  /\ purge \in [Purger -> {"idle", "claimed", "deleted", "failed"}]
  /\ job \in {"none", "approving", "active", "safe", "ended"}
  /\ lock = Sweep <=> sweep.at # "idle"
  /\ \A f \in Finisher : lock = f <=> finish[f].at \in {"deleting", "deleted"}

Init ==
  /\ kind \in {"multipart", "direct"}
  /\ request = [at |-> "new", saw |-> None]
  /\ intent = "none" /\ held = FALSE /\ retries = 0 /\ lock = None
  /\ object = None /\ puts = 0 /\ url = FALSE
  /\ finish = [f \in Finisher |-> Idle]
  /\ source = None
  /\ sweep = NoSweep
  /\ aged = FALSE /\ purged = FALSE /\ claim = None
  /\ purge = [p \in Purger |-> "idle"]
  /\ job = "none"

----------------------------------------------------------------------------
(* The cleanup intent's repository.                                        *)

\* resolve: it waits for the row and asks for no state; none keeps a hold.
Resolve(to) ==
  /\ lock = None
  /\ intent' = to
  /\ held' = FALSE
  /\ UNCHANGED <<retries, lock>>

\* A transaction of its own that may fail: the intent is then as it was.
CloseIntent(to) == Resolve(to) \/ UNCHANGED intentVars

\* claim_pending: what is due and nobody holds.
Due == intent = "pending" /\ ~held /\ lock = None

----------------------------------------------------------------------------
(* POST /step-file: the intent, the object, the source's transaction.  The *)
(* first step is POST /direct's too.                                       *)

RecordIntent ==
  /\ request.at = "new"
  /\ intent' = "pending"
  /\ held' = (kind = "direct")
  /\ request' = [request EXCEPT !.at = "begun"]
  /\ UNCHANGED <<kind, retries, lock, storeVars, finish, source, sweep,
                 purgeVars, job>>

\* The bytes were checked before the intent was recorded.
StoreObject(c) ==
  /\ kind = "multipart" /\ request.at = "begun"
  /\ object' = c
  /\ request' = [at |-> "stored", saw |-> c]
  /\ UNCHANGED <<kind, intentVars, puts, url, finish, source, sweep, purgeVars,
                 job>>

\* The write raised, which does not say that the store has nothing of it, or
\* the URL was not signed.
StoreFails ==
  /\ request.at = "begun"
  /\ object' \in {object} \cup {c \in Good : kind = "multipart"}
  /\ CloseIntent("deleted")
  /\ request' = [request EXCEPT !.at = "over"]
  /\ UNCHANGED <<kind, puts, url, finish, source, sweep, purgeVars, job>>

\* The source row and the intent's close, one commit; its answer may be lost.
CommitSource(answered) ==
  /\ kind = "multipart" /\ request.at = "stored"
  /\ source' = request.saw
  /\ Resolve("adopted")
  /\ request' = [request EXCEPT !.at = IF answered THEN "over" ELSE "failing"]
  /\ UNCHANGED <<kind, storeVars, finish, sweep, purgeVars, job>>

CommitFails ==
  /\ kind = "multipart" /\ request.at = "stored"
  /\ request' = [request EXCEPT !.at = "failing"]
  /\ UNCHANGED <<kind, intentVars, storeVars, finish, source, sweep, purgeVars,
                 job>>

\* The compensation: the exact key, then the intent.
Compensate ==
  /\ request.at = "failing"
  /\ object' = None
  /\ CloseIntent("deleted")
  /\ request' = [request EXCEPT !.at = "over"]
  /\ UNCHANGED <<kind, puts, url, finish, source, sweep, purgeVars, job>>

\* The process dies, or the compensation's delete fails.
RequestEnds ==
  /\ request.at \in {"begun", "stored", "failing"}
  /\ request' = [request EXCEPT !.at = "over"]
  /\ UNCHANGED <<kind, intentVars, storeVars, finish, source, sweep, purgeVars,
                 job>>

----------------------------------------------------------------------------
(* POST /direct: the URL, and what the client does with it.                *)

GiveUrl ==
  /\ kind = "direct" /\ request.at = "begun"
  /\ url' = TRUE
  /\ request' = [request EXCEPT !.at = "over"]
  /\ UNCHANGED <<kind, intentVars, object, puts, finish, source, sweep,
                 purgeVars, job>>

Put(c) ==
  /\ url /\ puts < MaxPuts
  /\ object' = c
  /\ puts' = puts + 1
  /\ UNCHANGED <<uploadVars, intentVars, url, finish, source, sweep, purgeVars,
                 job>>

\* UPLOAD_URL_TTL, and the transfers it let begin, are over.
UrlExpires ==
  /\ url
  /\ url' = FALSE
  /\ UNCHANGED <<uploadVars, intentVars, object, puts, finish, source, sweep,
                 purgeVars, job>>

\* UPLOAD_HOLD is longer than both.
HoldPasses ==
  /\ held /\ ~url /\ request.at = "over"
  /\ held' = FALSE
  /\ UNCHANGED <<uploadVars, intent, retries, lock, storeVars, finish, source,
                 sweep, purgeVars, job>>

----------------------------------------------------------------------------
(* POST /direct/{id}/finalize                                              *)

FinishTo(f, at, saw) == finish' = [finish EXCEPT ![f] = [at |-> at, saw |-> saw]]
FinishOnly(f, at, saw) ==
  /\ FinishTo(f, at, saw)
  /\ UNCHANGED <<uploadVars, intentVars, storeVars, source, sweep, purgeVars,
                 job>>

\* An adopted upload is answered with its session, a settled one with 410 and
\* one that has not arrived with 409: only what is here and open goes on.
FinishLooks(f) ==
  /\ kind = "direct" /\ finish[f].at = "idle"
  /\ intent = "pending" /\ object # None
  /\ FinishOnly(f, "looked", object)

\* The bytes are read back.  Another PUT since the size was asked is noticed
\* when the sizes differ.
FinishReads(f) ==
  /\ finish[f].at = "looked" /\ object # None
  /\ \/ /\ object \in Good
        /\ FinishOnly(f, "checked", object)
     \/ /\ object \in Bad \/ object # finish[f].saw
        /\ FinishOnly(f, "refused", None)

\* Mutant of StillOpen: the refusal is not asked again under the lock.
AlwaysOpen == TRUE

\* What _adopt and _discard ask once they hold the row.
StillOpen == intent = "pending"

\* _adopt: one transaction under the row lock.
Adopt(f) ==
  /\ finish[f].at = "checked" /\ lock = None /\ StillOpen
  /\ source' = finish[f].saw
  /\ Resolve("adopted")
  /\ finish' = [finish EXCEPT ![f] = Idle]
  /\ UNCHANGED <<uploadVars, storeVars, sweep, purgeVars, job>>

\* The quota, an upload settled meanwhile, a store or a database that is down,
\* or the process's end: nothing was committed and nothing is deleted.
FinishEnds(f) ==
  /\ finish[f].at # "idle"
  /\ finish' = [finish EXCEPT ![f] = Idle]
  /\ lock' = IF lock = f THEN None ELSE lock
  /\ UNCHANGED <<uploadVars, intent, held, retries, storeVars, source, sweep,
                 purgeVars, job>>

\* _discard: the lock and the question,
DiscardLocks(f) ==
  /\ finish[f].at = "refused" /\ lock = None /\ StillOpen
  /\ lock' = f
  /\ FinishTo(f, "deleting", None)
  /\ UNCHANGED <<uploadVars, intent, held, retries, storeVars, source, sweep,
                 purgeVars, job>>

\* the object,
DiscardDeletes(f) ==
  /\ finish[f].at = "deleting"
  /\ object' = None
  /\ FinishTo(f, "deleted", None)
  /\ UNCHANGED <<uploadVars, intentVars, puts, url, source, sweep, purgeVars,
                 job>>

\* and the intent.
DiscardCommits(f) ==
  /\ finish[f].at = "deleted"
  /\ intent' = "deleted" /\ held' = FALSE /\ lock' = None
  /\ finish' = [finish EXCEPT ![f] = Idle]
  /\ UNCHANGED <<uploadVars, retries, storeVars, source, sweep, purgeVars, job>>

----------------------------------------------------------------------------
(* reclaim_orphan_source_objects: one pass is one transaction.             *)

SweepTo(at, to) == sweep' = [at |-> at, to |-> to]
SweepOnly(at, to) ==
  /\ SweepTo(at, to)
  /\ UNCHANGED <<uploadVars, intentVars, storeVars, finish, source, purgeVars,
                 job>>

SweepClaims ==
  /\ sweep.at = "idle" /\ Due
  /\ lock' = Sweep
  /\ SweepTo("claimed", "pending")
  /\ UNCHANGED <<uploadVars, intent, held, retries, storeVars, finish, source,
                 purgeVars, job>>

\* Does a source own the bytes, and is anything there?
Owned == source # None
SweepLooks ==
  /\ sweep.at = "claimed"
  /\ \/ Owned /\ SweepOnly("done", "adopted")
     \/ ~Owned /\ object = None /\ SweepOnly("done", "deleted")
     \/ ~Owned /\ object # None /\ SweepOnly("deleting", "pending")

SweepDeletes ==
  /\ sweep.at = "deleting"
  /\ object' = None
  /\ SweepTo("done", "deleted")
  /\ UNCHANGED <<uploadVars, intentVars, puts, url, finish, source, purgeVars,
                 job>>

\* The store did not answer, asked or told to delete.
SweepFails ==
  /\ sweep.at \in {"claimed", "deleting"}
  /\ sweep.at = "claimed" => ~Owned
  /\ SweepOnly("done", "failed")

\* record_failure: pending again until the budget is spent.
RecordFailure ==
  /\ retries' = retries + 1
  /\ intent' = IF retries' >= MaxRetries THEN "abandoned" ELSE "pending"

SweepCommits ==
  /\ sweep.at = "done"
  /\ IF sweep.to = "failed" THEN RecordFailure
     ELSE intent' = sweep.to /\ UNCHANGED retries
  /\ lock' = None
  /\ sweep' = NoSweep
  /\ UNCHANGED <<uploadVars, held, storeVars, finish, source, purgeVars, job>>

\* Mutant of SweepDies: a claim of the sweep's outlives it.
SweepDiesHolding ==
  /\ sweep.at # "idle"
  /\ sweep' = NoSweep
  /\ UNCHANGED <<uploadVars, intentVars, storeVars, finish, source, purgeVars,
                 job>>

\* The connection goes, and with it the lock and what was not committed.
SweepDies ==
  /\ sweep.at # "idle"
  /\ lock' = None
  /\ sweep' = NoSweep
  /\ UNCHANGED <<uploadVars, intent, held, retries, storeVars, finish, source,
                 purgeVars, job>>

----------------------------------------------------------------------------
(* purge_expired_geometry_sources, and the jobs that need the bytes.       *)

PurgeTo(p, at) == purge' = [purge EXCEPT ![p] = at]

\* created_at falls behind the retention cutoff.
Ages ==
  /\ source # None /\ ~aged
  /\ aged' = TRUE
  /\ UNCHANGED <<uploadVars, intentVars, storeVars, finish, source, sweep,
                 purged, claim, purge, job>>

\* Mutant of ProtectedByActiveWork: the purge asks about its clock alone.
ProtectedByNothing == FALSE

\* _protected_by_active_work sees the jobs that are committed.
ProtectedByActiveWork == job \in {"active", "safe"}

\* Mutant of PurgeClaims: a claim does not expire.
PurgeClaimsFree(p) ==
  /\ purge[p] = "idle" /\ claim = None
  /\ source # None /\ aged /\ ~purged /\ ~ProtectedByActiveWork
  /\ claim' = p
  /\ PurgeTo(p, "claimed")
  /\ UNCHANGED <<uploadVars, intentVars, storeVars, finish, source, sweep, aged,
                 purged, job>>

\* A claim older than CLAIM_EXPIRY is taken over, its holder dead or slow.
PurgeClaims(p) ==
  /\ purge[p] = "idle"
  /\ source # None /\ aged /\ ~purged /\ ~ProtectedByActiveWork
  /\ claim' = p
  /\ PurgeTo(p, "claimed")
  /\ UNCHANGED <<uploadVars, intentVars, storeVars, finish, source, sweep, aged,
                 purged, job>>

PurgeDeletes(p) ==
  /\ purge[p] = "claimed"
  /\ object' = None
  /\ PurgeTo(p, "deleted")
  /\ UNCHANGED <<uploadVars, intentVars, puts, url, finish, source, sweep, aged,
                 purged, claim, job>>

DeleteFails(p) ==
  /\ purge[p] = "claimed"
  /\ PurgeTo(p, "failed")
  /\ UNCHANGED <<uploadVars, intentVars, storeVars, finish, source, sweep, aged,
                 purged, claim, job>>

Release(p) == claim' = IF claim = p THEN None ELSE claim

FinalizePurge(p) ==
  /\ purge[p] = "deleted"
  /\ purged' = (purged \/ claim = p)
  /\ Release(p)
  /\ PurgeTo(p, "idle")
  /\ UNCHANGED <<uploadVars, intentVars, storeVars, finish, source, sweep, aged,
                 job>>

ReleaseClaim(p) ==
  /\ purge[p] = "failed"
  /\ Release(p)
  /\ PurgeTo(p, "idle")
  /\ UNCHANGED <<uploadVars, intentVars, storeVars, finish, source, sweep, aged,
                 purged, job>>

PurgerDies(p) ==
  /\ purge[p] # "idle"
  /\ PurgeTo(p, "idle")
  /\ UNCHANGED <<uploadVars, intentVars, storeVars, finish, source, sweep, aged,
                 purged, claim, job>>

\* The approval reads purged_at, and asks nothing about a claim,
Approve ==
  /\ job \in {"none", "ended"} /\ source # None /\ ~purged
  /\ job' = "approving"
  /\ UNCHANGED <<uploadVars, intentVars, storeVars, finish, source, sweep,
                 purgeVars>>

\* The bytes are gone, or somebody may be about to delete them: a purger, or the
\* upload's own request compensating.
Endangered ==
  object = None \/ claim # None \/ request.at # "over"
    \/ \E p \in Purger : purge[p] # "idle"

\* and its transaction creates the job, or does not.
ApprovalEnds ==
  /\ job = "approving"
  /\ job' \in {"none", IF Endangered THEN "active" ELSE "safe"}
  /\ UNCHANGED <<uploadVars, intentVars, storeVars, finish, source, sweep,
                 purgeVars>>

JobEnds ==
  /\ job \in {"active", "safe"}
  /\ job' = "ended"
  /\ UNCHANGED <<uploadVars, intentVars, storeVars, finish, source, sweep,
                 purgeVars>>

----------------------------------------------------------------------------

Multipart ==
  \/ RecordIntent \/ StoreFails \/ CommitFails \/ Compensate \/ RequestEnds
  \/ \E c \in Good : StoreObject(c)
  \/ \E answered \in BOOLEAN : CommitSource(answered)

Direct ==
  \/ GiveUrl \/ UrlExpires \/ HoldPasses
  \/ \E c \in Content : Put(c)
  \/ \E f \in Finisher : \/ FinishLooks(f) \/ FinishReads(f) \/ FinishEnds(f)
                         \/ Adopt(f) \/ DiscardLocks(f) \/ DiscardDeletes(f)
                         \/ DiscardCommits(f)

Reclaim ==
  \/ SweepClaims \/ SweepLooks \/ SweepDeletes \/ SweepFails \/ SweepCommits
  \/ SweepDies

Retention ==
  \/ Ages \/ Approve \/ ApprovalEnds \/ JobEnds
  \/ \E p \in Purger : \/ PurgeClaims(p) \/ PurgeDeletes(p) \/ FinalizePurge(p)
                       \/ DeleteFails(p) \/ ReleaseClaim(p) \/ PurgerDies(p)

Next == Multipart \/ Direct \/ Reclaim \/ Retention

Spec == Init /\ [][Next]_vars

\* The reconciler and the purge are scheduled again whatever became of the last
\* pass, so a step a pass keeps coming to is taken in one of them; the store is
\* not down for ever, and a claim is taken over only from a purger that was
\* silent for CLAIM_EXPIRY, which not every one is.  The clocks run and jobs
\* end.  Nobody need put or finish anything.
FairSpec ==
  /\ Spec
  /\ WF_vars(UrlExpires \/ HoldPasses \/ Ages)
  /\ WF_vars(RequestEnds \/ RecordIntent) /\ WF_vars(ApprovalEnds \/ JobEnds)
  /\ \A f \in Finisher : WF_vars(FinishEnds(f))
  /\ SF_vars(SweepClaims) /\ SF_vars(SweepLooks)
  /\ SF_vars(SweepDeletes \/ SweepFails) /\ SF_vars(SweepCommits)
  /\ SF_vars(\E p \in Purger : PurgeClaims(p))
  /\ SF_vars(\E p \in Purger : PurgeDeletes(p) /\ claim = p)
  /\ SF_vars(\E p \in Purger : FinalizePurge(p) /\ claim = p)
  /\ WF_vars(\E p \in Purger : ReleaseClaim(p))

----------------------------------------------------------------------------
(* Properties                                                              *)

\* upload.py and upload_direct.py close the intent in the transaction that adds
\* the source row: a committed source never has an open intent, whichever of
\* two finishes, the sweep and the compensation came first.
CommittedHasNoOpenIntent == source # None => intent # "pending"

\* Within its retention the bytes of a committed source are deleted by nobody,
\* neither a finish that refused them, however late, nor the sweep: _adopt,
\* _discard and the sweep ask under the intent's row lock.  A multipart request
\* that was never told of its commit is the one exception, and compensates.
AdoptedBytesAreNotDeleted ==
  [][source # None /\ ~aged /\ object # None /\ object' = None
       => request.at = "failing"]_vars

\* A job approved while its bytes were there and nobody was deleting them has
\* them for as long as it needs them: the purge asks for active work in the
\* statement that claims the row.
ApprovedJobKeepsItsBytes == job = "safe" => object # None

\* The sweep never leaves an upload undecided: whatever dies, a recorded intent
\* ends adopted, deleted or, after MAX_CLEANUP_RETRIES, abandoned to a person.
IntentsSettle == intent = "pending" ~> intent \in Closed

\* Bytes the purge removed are recorded as purged in the end, also when a
\* purger died between the two or lost its claim to another.
PurgeIsRecorded == source # None /\ aged ~> purged

\* "an upload that succeeded must keep its object" (reconcile.py): a source is
\* committed only with its bytes in the store.
SourceKeepsItsBytes == [][source = None /\ source' # None => object' # None]_vars

============================================================================
