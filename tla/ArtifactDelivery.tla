-------------------------- MODULE ArtifactDelivery --------------------------
(***************************************************************************)
(* What a finished run leaves for its customer: the objects in the store,  *)
(* the artifact rows that name them, and the records by which objects      *)
(* nobody owns are reclaimed.                                              *)
(*                                                                         *)
(* The store is not part of any transaction.  A worker writes an object,   *)
(* then registers its row in a transaction fenced by the job's row; a      *)
(* worker whose lease was taken over goes on until that fence stops it.    *)
(* The mesh bundle is stored under one key per job, the repair report      *)
(* under a key made of its content.  The reconciler looks, verifies and    *)
(* deletes in separate calls.                                              *)
(***************************************************************************)
EXTENDS Naturals

CONSTANTS
  MaxGen,      \* bound: executions of the job
  Forms,       \* how the executions may store their bundles
  Tries,       \* _DELIVERY_ATTEMPTS
  Content,     \* what a run's files may hold
  None         \* no object; no row; no record

Gen == 1..MaxGen
Cut == "cut"                        \* bytes of another length than the file's
Swapped == "swapped"                \* other bytes of the file's length
Bytes == Content \cup {Cut, Swapped}
Bundle == "bundle"                  \* the bundle's key, and its logical key
Report == "report"
Key == Content \cup {Bundle}
Logical == {Bundle, Report}
Sweep == 0                          \* the reconciler, beside the generations

Row == [gen : Gen, key : Key, sum : Bytes]
Record == [state : {"pending", "adopted", "deleted", "conflict", "abandoned"},
           sum : Bytes \cup {None}]

ASSUME DeliveryAssumption ==
  /\ MaxGen \in Nat \ {0} /\ Tries \in Nat \ {0}
  /\ Forms \subseteq [Gen -> {"plain", "multipart", "streamed"}]
  /\ Bundle \notin Content /\ Cut \notin Content /\ Swapped \notin Content
  /\ None \notin Key \cup Bytes /\ None \notin Row /\ None \notin Record

VARIABLES
  made,        \* per execution, the content of its files
  form,        \* per execution, how its bundle is stored: as one object, in
               \* parts, or streamed out of the exchange bucket
  status,      \* the job's status
  owner,       \* the generation that holds the job
  worker,      \* per generation: how far its worker is, its tries, and the
               \* checksum it was told of the bundle it stored
  store,       \* per key, the object
  hand,        \* who last wrote or deleted the bundle's object
  row,         \* per logical key, the artifact row
  record,      \* per key, the reconciliation record
  sweep        \* the key whose object the reconciler is about to delete

jobVars == <<made, form, status, owner>>
vars == <<jobVars, worker, store, hand, row, record, sweep>>

At == {"absent", "building", "reporting", "filed", "unfiled", "delivering",
       "stored", "spoilt", "delivered", "undelivered", "gone"}

Worker == [at : At, tries : 0..Tries, sum : Bytes \cup {None}]

\* Type correctness.
ArtifactTypeOK ==
  /\ made \in [Gen -> Content]
  /\ status \in {"running", "succeeded", "failed", "cancelled"}
  /\ owner \in 0..MaxGen
  /\ form \in Forms
  /\ worker \in [Gen -> Worker]
  /\ store \in [Key -> Bytes \cup {None}]
  /\ hand \in Gen \cup {Sweep}
  /\ row \in [Logical -> Row \cup {None}]
  /\ record \in [Key -> Record \cup {None}]
  /\ sweep \in Key \cup {None}

Init ==
  /\ made \in [Gen -> Content]
  /\ form \in Forms
  /\ status = "running"
  /\ owner = 0
  /\ worker = [g \in Gen |-> [at |-> "absent", tries |-> 0, sum |-> None]]
  /\ store = [k \in Key |-> None]
  /\ hand = Sweep
  /\ row = [a \in Logical |-> None]
  /\ record = [k \in Key |-> None]
  /\ sweep = None

----------------------------------------------------------------------------
(* The job: a worker claims it, another takes it over, its owner cancels.  *)

Claim(g) ==
  /\ status = "running" /\ owner = g - 1
  /\ owner' = g
  /\ worker' = [worker EXCEPT ![g].at = "building"]
  /\ UNCHANGED <<made, form, status, store, hand, row, record, sweep>>

Cancel ==
  /\ status = "running"
  /\ status' = "cancelled"
  /\ UNCHANGED <<made, form, owner, worker, store, hand, row, record, sweep>>

Owns(g) == status = "running" /\ owner = g

\* The checksum is wanted no longer than the object may have to be given up.
Goes(g, to) ==
  worker' = [worker EXCEPT ![g] =
    [at |-> to, tries |-> IF to = "gone" THEN 0 ELSE @.tries,
     sum |-> IF to = "spoilt" THEN @.sum ELSE None]]

Die(g) ==
  /\ worker[g].at \notin {"absent", "gone"}
  /\ Goes(g, "gone")
  /\ UNCHANGED <<jobVars, store, hand, row, record, sweep>>

\* is_current_owner, read once before anything is delivered.  The run may
\* have a report to file, and a mesh to deliver.
Finish(g, files, meshed) ==
  /\ worker[g].at = "building"
  /\ Goes(g, CASE ~Owns(g) -> "gone" [] Owns(g) /\ files -> "reporting"
               [] Owns(g) /\ ~files /\ meshed -> "delivering"
               [] OTHER -> "undelivered")
  /\ UNCHANGED <<jobVars, store, hand, row, record, sweep>>

----------------------------------------------------------------------------
(* The store and the records.                                              *)

Put(g, k, what) ==
  /\ store' = [store EXCEPT ![k] = what]
  /\ hand' = IF k = Bundle THEN g ELSE hand

\* record_orphan: one record per key and attempt, whatever became of it; it
\* is written best effort.  The attempt is the graph's retry_count; it is not
\* kept here, and a key has one record.
RecordOrphan(k, sum) ==
  \/ /\ record[k] = None
     /\ record' = [record EXCEPT ![k] = [state |-> "pending", sum |-> sum]]
  \/ UNCHANGED record

\* deliver_artifact: an older row is replaced, a newer one is left, and one
\* of the same execution is written again if it is the same.
Registered(a, g, k, sum) ==
  IF row[a] = None \/ row[a].gen <= g
  THEN [row EXCEPT ![a] = [gen |-> g, key |-> k, sum |-> sum]]
  ELSE row

\* DeliveryOutcome.conflict.
Conflicts(a, g, sum) ==
  row[a] # None /\ row[a].gen = g /\ row[a].sum # sum

\* Mutant of MayRegister: the registration is not fenced.
Unfenced(g) == TRUE

\* lock_ownership_for_commit.
MayRegister(g) == Owns(g)

----------------------------------------------------------------------------
(* deliver_repair_report.                                                  *)

\* Mutant of ReportKey: one key per job.
SharedKey(g) == made[1]

ReportKey(g) == made[g]

\* An upload that raised may have stored its object all the same.
FileReport(g, ok) ==
  /\ worker[g].at = "reporting"
  /\ Put(g, ReportKey(g), made[g]) \/ (~ok /\ UNCHANGED <<store, hand>>)
  /\ Goes(g, IF ok THEN "filed" ELSE "unfiled")
  /\ UNCHANGED <<jobVars, row, record, sweep>>

\* The row, the fence and the commit; a fenced worker leaves no record.  A
\* commit that raised may have happened all the same.
RegisterReport(g, ok) ==
  /\ worker[g].at = "filed"
  /\ \/ /\ ~ok /\ Goes(g, "unfiled") /\ UNCHANGED row
     \/ /\ ok /\ MayRegister(g)
        /\ row' = Registered(Report, g, ReportKey(g), made[g])
        /\ \E to \in {"delivering", "undelivered", "unfiled"} : Goes(g, to)
     \/ /\ ok /\ ~MayRegister(g) /\ Goes(g, "gone") /\ UNCHANGED row
  /\ UNCHANGED <<jobVars, store, hand, record, sweep>>

\* _discard_orphan, unless a committed row names the key.
DiscardReport(g) ==
  LET k == ReportKey(g)
  IN /\ worker[g].at = "unfiled"
     /\ IF \E a \in Logical : row[a] # None /\ row[a].key = k THEN UNCHANGED record
        ELSE RecordOrphan(k, made[g])
     /\ \E to \in {"delivering", "undelivered"} : Goes(g, to)
     /\ UNCHANGED <<jobVars, store, hand, row, sweep>>

----------------------------------------------------------------------------
(* deliver_succeeded_run: up to Tries attempts.                            *)

\* One attempt failed: the next, or a run that is downgraded.
Retry(g) ==
  worker' = [worker EXCEPT ![g] =
    [tries |-> @.tries + 1, sum |-> None,
     at |-> IF @.tries + 1 < Tries THEN "delivering" ELSE "undelivered"]]

\* Mutant of Checked: the checksum of a plain object is not compared.
Trusted(g, what) == form[g] = "streamed" => what # Cut

\* _verify_integrity knows the length of the local file only, and compares a
\* checksum only if it is an md5: that of an object stored in parts is not.
\* _verify_streamed reads the length back.
Checked(g, what) ==
  /\ form[g] = "plain" => what = made[g]
  /\ form[g] = "streamed" => what # Cut

\* What the store may come to hold; a wrong length matters only where the
\* length is read back.
Stored(g) == {made[g], Swapped} \cup {c \in {Cut} : form[g] = "streamed"}

\* The upload raised: for the code nothing was stored, and it leaves no record.
UploadFails(g) ==
  /\ worker[g].at = "delivering"
  /\ \/ UNCHANGED <<store, hand>>
     \/ \E what \in Stored(g) : Put(g, Bundle, what)
  /\ Retry(g)
  /\ UNCHANGED <<jobVars, row, record, sweep>>

\* StoredObject.checksum: of the object, or of the bytes that were streamed.
Told(g, what) == IF form[g] = "streamed" THEN made[g] ELSE what

Upload(g, what) ==
  /\ worker[g].at = "delivering"
  /\ Put(g, Bundle, what)
  /\ worker' = [worker EXCEPT ![g].sum = Told(g, what),
       ![g].at = IF Checked(g, what) THEN "stored" ELSE "spoilt"]
  /\ UNCHANGED <<jobVars, row, record, sweep>>

\* The length cannot be read back, the row write fails, or the row is this
\* execution's own and another: the object is dealt with at once.
RowFails(g) ==
  /\ worker[g].at = "stored"
  /\ Goes(g, "spoilt")
  /\ UNCHANGED <<jobVars, store, hand, row, record, sweep>>

\* _reconcile_or_delete, and the attempt that ends with it.
DeleteOrRecord(g, ok) ==
  /\ worker[g].at = "spoilt"
  /\ IF ok THEN Put(g, Bundle, None) /\ UNCHANGED record
     ELSE RecordOrphan(Bundle, worker[g].sum) /\ UNCHANGED <<store, hand>>
  /\ Retry(g)
  /\ UNCHANGED <<jobVars, row, sweep>>

\* The row, the fence and the commit.
Register(g) ==
  /\ worker[g].at = "stored" /\ MayRegister(g)
  /\ ~Conflicts(Bundle, g, worker[g].sum)
  /\ row' = Registered(Bundle, g, Bundle, worker[g].sum)
  /\ Goes(g, "delivered")
  /\ UNCHANGED <<jobVars, store, hand, record, sweep>>

\* The commit raises, whether or not the database has it: another attempt.
CommitUnknown(g, committed) ==
  /\ worker[g].at = "stored" /\ ~Conflicts(Bundle, g, worker[g].sum)
  /\ committed => MayRegister(g)
  /\ row' = IF committed THEN Registered(Bundle, g, Bundle, worker[g].sum) ELSE row
  /\ Retry(g)
  /\ UNCHANGED <<jobVars, store, hand, record, sweep>>

\* StaleWorkerFenced: what this worker stored is handed to the reconciler.
Fenced(g) ==
  /\ worker[g].at = "stored" /\ ~MayRegister(g)
  /\ ~Conflicts(Bundle, g, worker[g].sum)
  /\ RecordOrphan(Bundle, worker[g].sum)
  /\ Goes(g, "gone")
  /\ UNCHANGED <<jobVars, store, hand, row, sweep>>

\* apply_delivery.
Verdict(g) == IF worker[g].at = "delivered" THEN "succeeded" ELSE "failed"

\* The one commit of the status, by the job's owner.
Finalize(g) ==
  /\ worker[g].at \in {"delivered", "undelivered"}
  /\ status' = IF Owns(g) THEN Verdict(g) ELSE status
  /\ Goes(g, "gone")
  /\ UNCHANGED <<made, form, owner, store, hand, row, record, sweep>>

----------------------------------------------------------------------------
(* reconcile_orphan_artifacts.                                             *)

\* The checksum of a settled record is not asked for again.
Settle(k, to) ==
  record' = [record EXCEPT ![k] =
    [state |-> to, sum |-> IF to = "pending" THEN @.sum ELSE None]]

Names(k) == {a \in Logical : row[a] # None /\ row[a].key = k}

\* A newer write: both checksums are known, and they differ.  A checksum is
\* also of the way an object was stored, which may be told differently of the
\* same bytes: the store's of a streamed object is not the md5 on record.
Replaced(k, known, alike) == known /\ (alike => store[k] # record[k].sum)

\* exists(), the row of the record's artifact, and the object's checksum if
\* the store can tell it.  A row that names the key at an older attempt than
\* the record's is a conflict.
Look(k, known, alike) ==
  /\ sweep = None /\ record[k] # None /\ record[k].state = "pending"
  /\ ~alike => k = Bundle /\ \E g \in Gen : form[g] # "plain"
  /\ CASE Names(k) # {} -> /\ \E to \in {"adopted", "conflict"} : Settle(k, to)
                           /\ UNCHANGED sweep
       [] Names(k) = {} /\ store[k] = None ->
            Settle(k, "deleted") /\ UNCHANGED sweep
       [] Names(k) = {} /\ store[k] # None /\ Replaced(k, known, alike) ->
            Settle(k, "conflict") /\ UNCHANGED sweep
       [] OTHER -> sweep' = k /\ UNCHANGED record
  /\ UNCHANGED <<jobVars, worker, store, hand, row>>

\* delete_object, a call of its own.  The records are committed at the end of
\* the pass; a pass that dies first leaves them pending.
Delete ==
  /\ sweep # None
  /\ Put(Sweep, sweep, None)
  /\ Settle(sweep, "deleted") \/ UNCHANGED record
  /\ sweep' = None
  /\ UNCHANGED <<jobVars, worker, row>>

\* Retried by a later sweep, or abandoned after RECONCILE_MAX_RETRIES; the
\* retries are not counted here.
DeleteFails ==
  /\ sweep # None
  /\ \E to \in {"pending", "abandoned"} : Settle(sweep, to)
  /\ sweep' = None
  /\ UNCHANGED <<jobVars, worker, store, hand, row>>

\* The sweep's process dies, and its transaction is rolled back.
SweepDies ==
  /\ sweep # None
  /\ sweep' = None
  /\ UNCHANGED <<jobVars, worker, store, hand, row, record>>

----------------------------------------------------------------------------

Work(g) ==
  \/ \E files, meshed \in BOOLEAN : Finish(g, files, meshed)
  \/ \E ok \in BOOLEAN : \/ FileReport(g, ok) \/ RegisterReport(g, ok)
                         \/ DeleteOrRecord(g, ok) \/ CommitUnknown(g, ok)
  \/ DiscardReport(g) \/ UploadFails(g)
  \/ \E what \in Stored(g) : Upload(g, what)
  \/ RowFails(g) \/ Register(g) \/ Fenced(g) \/ Finalize(g)

Next ==
  \/ \E g \in Gen : Claim(g) \/ Die(g) \/ Work(g)
  \/ Cancel
  \/ \E k \in Key, known, alike \in BOOLEAN : Look(k, known, alike)
  \/ Delete \/ DeleteFails \/ SweepDies

Spec == Init /\ [][Next]_vars

----------------------------------------------------------------------------
(* What the delivery must keep.                                            *)

\* lock_ownership_for_commit in the registration: a job that was cancelled or
\* taken over gains no download from the worker that lost it, however far
\* that worker had come.
LoserLeavesNoRow ==
  [][\A a \in Logical : row'[a] # row[a] =>
       /\ status = "running"
       /\ row'[a].gen = owner
       /\ row[a] # None => row[a].gen <= owner]_vars

\* "Deliver FIRST, commit status ONCE afterwards": a succeeded job has its
\* bundle's row, written by the execution that ended it.  As long as no other
\* hand has been on the object, it is that execution's file if it was stored
\* as one object, as long as that file if it was streamed, and otherwise
\* whatever the row's checksum says: nothing compares that with the file.
SucceededWasDelivered ==
  status = "succeeded" =>
    /\ row[Bundle] # None /\ row[Bundle].gen = owner
    /\ form[owner] # "multipart" => row[Bundle].sum = made[owner]
    /\ hand = owner =>
         /\ form[owner] = "plain" => store[Bundle] = made[owner]
         /\ form[owner] = "streamed" => store[Bundle] \in {made[owner], Swapped}
         /\ form[owner] = "multipart" => store[Bundle] = row[Bundle].sum

\* repair_report_key: a writer with other content cannot reach the object a
\* committed report row names.
EvidenceIsNotOverwritten ==
  row[Report] # None =>
    store[row[Report].key] \in {None, row[Report].sum}
=============================================================================
