----------------------- MODULE ArtifactDelivery_proofs ----------------------
(***************************************************************************)
(* What the delivery keeps, for any number of executions and attempts.     *)
(*                                                                         *)
(* A worker may be anywhere when its lease is taken over, so nothing can   *)
(* be said of its objects once another hand has been on them; the          *)
(* invariant says what the check of the upload is worth as long as the     *)
(* hand is its own (OwnBytes), which depends on how the bundle was stored, *)
(* that only the owner of a running job registers rows (RowsInv), and that *)
(* the worker that ended the job is gone (EndInv), so that nobody's hand   *)
(* can be mistaken for its own afterwards.                                 *)
(***************************************************************************)
EXTENDS ArtifactDelivery, TLAPS

WorkersInv ==
  \A g \in Gen :
    /\ worker[g].at \notin {"undelivered", "gone"} => worker[g].tries < Tries
    /\ worker[g].at # "absent" => g <= owner

\* What an execution knows of the checksum and of the object it went on with.
Sound(g, sum) ==
  /\ sum \in Bytes
  /\ form[g] # "multipart" => sum = made[g]
  /\ hand = g =>
       /\ form[g] = "plain" => store[Bundle] = made[g]
       /\ form[g] = "streamed" => store[Bundle] \in {made[g], Swapped}
       /\ form[g] = "multipart" => store[Bundle] = sum

\* Whoever went on after the upload's check; a report's object is what its key
\* says.
OwnBytes ==
  /\ \A g \in Gen : worker[g].at = "stored" => Sound(g, worker[g].sum)
  /\ \A c \in Content : store[c] \in {c, None}

RowsInv ==
  \A a \in Logical : row[a] # None =>
    /\ row[a].gen <= owner
    /\ a = Report => row[a].key = row[a].sum

EndInv ==
  /\ \A g \in Gen : worker[g].at = "delivered" /\ Owns(g)
                      => /\ row[Bundle] # None /\ row[Bundle].gen = g
                         /\ Sound(g, row[Bundle].sum)
  /\ status = "succeeded" => /\ owner \in Gen
                             /\ worker[owner].at = "gone"
                             /\ row[Bundle] # None /\ row[Bundle].gen = owner
                             /\ Sound(owner, row[Bundle].sum)

SweptInv == sweep # None => record[sweep] # None

DeliveryInv ==
  /\ ArtifactTypeOK /\ WorkersInv /\ OwnBytes /\ RowsInv /\ EndInv /\ SweptInv

\* What one step may do to the rows.
RowsFenced ==
  \A a \in Logical : row'[a] # row[a] =>
    /\ status = "running"
    /\ row'[a].gen = owner
    /\ row[a] # None => row[a].gen <= owner

\* One step keeps the invariant and the fence.
Kept == DeliveryInv' /\ RowsFenced

\* A worker's move.
LEMMA GoesMoves ==
  ASSUME DeliveryInv, NEW g \in Gen, NEW to \in At, Goes(g, to)
  PROVE  /\ worker' \in [Gen -> Worker]
         /\ worker'[g].at = to
         /\ worker'[g].tries = IF to = "gone" THEN 0 ELSE worker[g].tries
         /\ \A h \in Gen : h # g => worker'[h] = worker[h]
BY DeliveryAssumption DEF Goes, DeliveryInv, ArtifactTypeOK, Worker

\* A failed attempt: the next one, or none.
LEMMA RetryMoves ==
  ASSUME DeliveryInv, NEW g \in Gen, Retry(g),
         worker[g].at \in {"delivering", "stored", "spoilt"}
  PROVE  /\ worker' \in [Gen -> Worker]
         /\ worker'[g].at \in {"delivering", "undelivered"}
         /\ worker'[g].at = "delivering" => worker'[g].tries < Tries
         /\ \A h \in Gen : h # g => worker'[h] = worker[h]
<1>1. worker[g].tries \in Nat /\ worker[g].tries < Tries
  BY DeliveryAssumption DEF DeliveryInv, ArtifactTypeOK, WorkersInv, Worker
<1> QED
  BY <1>1, DeliveryAssumption DEF Retry, DeliveryInv, ArtifactTypeOK, At, Worker

\* A worker that moves on, leaving store and rows alone, keeps everything as
\* long as it does not claim to have stored or delivered.
LEMMA QuietMoveKept ==
  ASSUME DeliveryInv, NEW g \in Gen,
         worker' \in [Gen -> Worker],
         worker[g].at \notin {"absent", "gone"},
         worker'[g].at \notin {"absent", "stored", "delivered"},
         worker'[g].at \notin {"undelivered", "gone"} => worker'[g].tries < Tries,
         \A h \in Gen : h # g => worker'[h] = worker[h],
         UNCHANGED <<jobVars, store, hand, row, sweep>>,
         record' \in [Key -> Record \cup {None}],
         \A k \in Key : record[k] # None => record'[k] = record[k]
  PROVE  Kept
<1> USE DEF jobVars
<1>1. ArtifactTypeOK'
  BY DEF DeliveryInv, ArtifactTypeOK
<1>2. WorkersInv'
  BY DEF DeliveryInv, WorkersInv
<1>3. OwnBytes'
  BY DEF DeliveryInv, OwnBytes, Sound
<1>4. RowsInv' /\ RowsFenced
  BY DEF DeliveryInv, RowsInv, RowsFenced
<1>5. EndInv'
  BY DEF DeliveryInv, EndInv, Owns, Sound
<1>6. SweptInv'
  BY DEF DeliveryInv, ArtifactTypeOK, SweptInv
<1> QED
  BY <1>1, <1>2, <1>3, <1>4, <1>5, <1>6 DEF Kept, DeliveryInv

----------------------------------------------------------------------------
(* The steps.                                                              *)

\* The job is claimed, taken over or cancelled.
LEMMA ClaimKept ==
  ASSUME DeliveryInv, NEW g \in Gen, Claim(g)
  PROVE  Kept
<1>1. worker[g].at = "absent" /\ status = "running" /\ owner' = g
  BY DEF Claim, DeliveryInv, WorkersInv, ArtifactTypeOK, Gen
<1>2. /\ worker' \in [Gen -> Worker]
      /\ worker'[g].at = "building" /\ worker'[g].tries = worker[g].tries
      /\ \A h \in Gen : h # g => worker'[h] = worker[h]
  BY DEF Claim, DeliveryInv, ArtifactTypeOK, At, Worker
<1>3. ArtifactTypeOK'
  BY <1>1, <1>2 DEF Claim, DeliveryInv, ArtifactTypeOK, Gen
<1>4. WorkersInv'
  BY <1>1, <1>2 DEF Claim, DeliveryInv, ArtifactTypeOK, WorkersInv, Gen
<1>5. OwnBytes'
  BY <1>2 DEF Claim, DeliveryInv, OwnBytes, Sound
<1>6. RowsInv' /\ RowsFenced /\ SweptInv'
  BY DEF Claim, DeliveryInv, ArtifactTypeOK, RowsInv, RowsFenced, SweptInv, Gen,
         Row
<1>7. EndInv'
  BY <1>1, <1>2 DEF Claim, EndInv, Owns, Sound
<1> QED
  BY <1>3, <1>4, <1>5, <1>6, <1>7 DEF Kept, DeliveryInv

\* A cancelled job has no owner, and has not succeeded.
LEMMA CancelKept ==
  ASSUME DeliveryInv, Cancel
  PROVE  Kept
BY DEF Cancel, Kept, DeliveryInv, ArtifactTypeOK, WorkersInv, OwnBytes, RowsInv,
       RowsFenced, EndInv, SweptInv, Owns, Sound

\* Steps that move a worker and touch neither store nor rows.
LEMMA MovesKept ==
  ASSUME DeliveryInv, NEW g \in Gen,
         \/ Die(g) \/ RowFails(g) \/ DiscardReport(g) \/ Fenced(g)
         \/ \E files, meshed \in BOOLEAN : Finish(g, files, meshed)
  PROVE  Kept
<1> USE DEF At
<1>t. /\ record \in [Key -> Record \cup {None}] /\ made[g] \in Content
      /\ worker[g].at \notin {"undelivered", "gone"} => worker[g].tries < Tries
      /\ worker[g].sum \in Bytes \cup {None}
  BY DEF DeliveryInv, ArtifactTypeOK, WorkersInv, Worker
<1>1. CASE Die(g)
  BY <1>1, <1>t, GoesMoves, QuietMoveKept DEF Die, DeliveryInv, ArtifactTypeOK
<1>2. CASE RowFails(g)
  BY <1>2, <1>t, GoesMoves, QuietMoveKept DEF RowFails
<1>3. CASE DiscardReport(g)
  <2>1. /\ record' \in [Key -> Record \cup {None}]
        /\ \A k \in Key : record[k] # None => record'[k] = record[k]
    BY <1>3, <1>t DEF DiscardReport, RecordOrphan, ReportKey, Key, Record, Bytes
  <2>2. PICK to \in {"delivering", "undelivered"} : Goes(g, to)
    BY <1>3 DEF DiscardReport
  <2> QED
    BY <1>3, <1>t, <2>1, <2>2, GoesMoves, QuietMoveKept DEF DiscardReport
<1>4. CASE Fenced(g)
  <2>1. /\ record' \in [Key -> Record \cup {None}]
        /\ \A k \in Key : record[k] # None => record'[k] = record[k]
    BY <1>4, <1>t DEF Fenced, RecordOrphan, Key, Record
  <2> QED
    BY <1>4, <1>t, <2>1, GoesMoves, QuietMoveKept DEF Fenced
<1>5. ASSUME NEW files \in BOOLEAN, NEW meshed \in BOOLEAN,
             Finish(g, files, meshed)
      PROVE  Kept
  <2>1. \E to \in {"gone", "reporting", "delivering", "undelivered"} : Goes(g, to)
    BY <1>5 DEF Finish
  <2>2. PICK to \in {"gone", "reporting", "delivering", "undelivered"} : Goes(g, to)
    BY <2>1
  <2> QED
    BY <1>5, <1>t, <2>2, GoesMoves, QuietMoveKept DEF Finish
<1> QED
  BY <1>1, <1>2, <1>3, <1>4, <1>5

\* The repair report's object is written under its content's key.
LEMMA FileReportKept ==
  ASSUME DeliveryInv, NEW g \in Gen, NEW ok \in BOOLEAN, FileReport(g, ok)
  PROVE  Kept
<1> USE DEF At
<1>t. /\ made[g] \in Content /\ made[g] # Bundle
      /\ worker[g].at \notin {"undelivered", "gone"} => worker[g].tries < Tries
  BY DeliveryAssumption DEF DeliveryInv, ArtifactTypeOK, WorkersInv
<1>1. CASE ~ok /\ UNCHANGED <<store, hand>>
  BY <1>1, <1>t, GoesMoves, QuietMoveKept
     DEF FileReport, DeliveryInv, ArtifactTypeOK
<1>2. CASE Put(g, ReportKey(g), made[g])
  <2> DEFINE to == IF ok THEN "filed" ELSE "unfiled"
  <2>1. /\ store' = [store EXCEPT ![made[g]] = made[g]] /\ hand' = hand
        /\ Goes(g, to)
        /\ UNCHANGED <<made, form, status, owner, row, record, sweep>>
    BY <1>2, <1>t DEF FileReport, Put, ReportKey, jobVars
  <2>2. /\ worker' \in [Gen -> Worker]
        /\ worker'[g].at \in {"filed", "unfiled"} /\ worker'[g].tries < Tries
        /\ worker[g].at = "reporting"
        /\ \A h \in Gen : h # g => worker'[h] = worker[h]
    BY <2>1, <1>t, GoesMoves DEF FileReport
  <2>3. ArtifactTypeOK'
    BY <2>1, <2>2, <1>t DEF DeliveryInv, ArtifactTypeOK, Key, Bytes
  <2>4. WorkersInv'
    BY <2>1, <2>2 DEF DeliveryInv, WorkersInv
  <2>5. OwnBytes'
    BY <2>1, <2>2, <1>t DEF DeliveryInv, ArtifactTypeOK, OwnBytes, Key, Sound
  <2>6. RowsInv' /\ RowsFenced /\ SweptInv'
    BY <2>1 DEF DeliveryInv, RowsInv, RowsFenced, SweptInv
  <2>7. EndInv'
    BY <2>1, <2>2, <1>t DEF DeliveryInv, ArtifactTypeOK, EndInv, Owns, Key, Sound
  <2> QED
    BY <2>3, <2>4, <2>5, <2>6, <2>7 DEF Kept, DeliveryInv
<1> QED
  BY <1>1, <1>2 DEF FileReport

\* deliver_artifact by the owner of a running job.
LEMMA RegisteredRows ==
  ASSUME DeliveryInv, NEW g \in Gen, NEW a \in Logical, NEW k \in Key, Owns(g),
         NEW sum \in Bytes, a = Report => k = made[g] /\ sum = made[g],
         row' = Registered(a, g, k, sum), UNCHANGED <<made, form, owner>>
  PROVE  /\ row' \in [Logical -> Row \cup {None}]
         /\ row'[a] # None /\ row'[a].gen = g /\ row'[a].sum = sum
         /\ \A b \in Logical : b # a => row'[b] = row[b]
         /\ RowsInv' /\ RowsFenced
<1>1. row[a] # None => row[a].gen <= g
  BY DEF DeliveryInv, RowsInv, Owns
<1>2. row' = [row EXCEPT ![a] = [gen |-> g, key |-> k, sum |-> sum]]
  BY <1>1 DEF Registered
<1>3. /\ [gen |-> g, key |-> k, sum |-> sum] \in Row
      /\ [gen |-> g, key |-> k, sum |-> sum] # None
  BY DeliveryAssumption DEF DeliveryInv, ArtifactTypeOK, Row
<1>4. /\ row' \in [Logical -> Row \cup {None}]
      /\ row'[a] = [gen |-> g, key |-> k, sum |-> sum]
      /\ \A b \in Logical : b # a => row'[b] = row[b]
  BY <1>2, <1>3 DEF DeliveryInv, ArtifactTypeOK
<1>5. g <= owner
  BY DEF Owns, Gen
<1>6. RowsInv'
  BY <1>3, <1>4, <1>5 DEF DeliveryInv, RowsInv
<1>7. RowsFenced
  BY <1>1, <1>4 DEF RowsFenced, Owns
<1> QED
  BY <1>3, <1>4, <1>6, <1>7

\* The report's row, its fence and its commit.
LEMMA RegisterReportKept ==
  ASSUME DeliveryInv, NEW g \in Gen, NEW ok \in BOOLEAN, RegisterReport(g, ok)
  PROVE  Kept
<1> USE DEF At
<1>t. /\ made[g] \in Key /\ made[g] \in Bytes /\ worker[g].at = "filed" /\ worker[g].tries < Tries
      /\ record' = record /\ record \in [Key -> Record \cup {None}]
      /\ UNCHANGED <<made, form, status, owner, store, hand, sweep>>
  BY DEF RegisterReport, jobVars, DeliveryInv, ArtifactTypeOK, WorkersInv, Key,
         Bytes
<1>1. CASE ~ok /\ Goes(g, "unfiled") /\ UNCHANGED row
  BY <1>1, <1>t, GoesMoves, QuietMoveKept DEF jobVars
<1>2. CASE ok /\ ~MayRegister(g) /\ Goes(g, "gone") /\ UNCHANGED row
  BY <1>2, <1>t, GoesMoves, QuietMoveKept DEF jobVars
<1>3. CASE /\ MayRegister(g)
           /\ row' = Registered(Report, g, ReportKey(g), made[g])
           /\ \E to \in {"delivering", "undelivered", "unfiled"} : Goes(g, to)
  <2>1. PICK to \in {"delivering", "undelivered", "unfiled"} : Goes(g, to)
    BY <1>3
  <2>2. /\ worker' \in [Gen -> Worker]
        /\ worker'[g].at \in {"delivering", "undelivered", "unfiled"}
        /\ worker'[g].tries < Tries
        /\ \A h \in Gen : h # g => worker'[h] = worker[h]
    BY <2>1, <1>t, GoesMoves
  <2>3. /\ row' \in [Logical -> Row \cup {None}] /\ row'[Bundle] = row[Bundle]
        /\ RowsInv' /\ RowsFenced
    BY <1>3, <1>t, RegisteredRows DEF MayRegister, ReportKey, Logical, Bundle, Report
  <2>4. ArtifactTypeOK'
    BY <2>2, <2>3, <1>t DEF DeliveryInv, ArtifactTypeOK
  <2>5. WorkersInv' /\ OwnBytes' /\ SweptInv'
    BY <2>2, <1>t DEF DeliveryInv, WorkersInv, OwnBytes, SweptInv, Sound
  <2>6. EndInv'
    BY <2>2, <2>3, <1>t DEF DeliveryInv, EndInv, Owns, Sound
  <2> QED
    BY <2>3, <2>4, <2>5, <2>6 DEF Kept, DeliveryInv
<1> QED
  BY <1>1, <1>2, <1>3 DEF RegisterReport

\* The bundle's row, registered or raised over: the worker goes on to the end
\* or to another attempt.
LEMMA RegisterKept ==
  ASSUME DeliveryInv, NEW g \in Gen,
         Register(g) \/ \E committed \in BOOLEAN : CommitUnknown(g, committed)
  PROVE  Kept
<1> USE DEF At
<1>t. /\ worker[g].at = "stored" /\ worker[g].tries < Tries
      /\ worker[g].sum \in Bytes /\ Sound(g, worker[g].sum)
      /\ record' = record /\ record \in [Key -> Record \cup {None}]
      /\ UNCHANGED <<made, form, status, owner, store, hand, sweep>>
  BY DEF Register, CommitUnknown, jobVars, DeliveryInv, ArtifactTypeOK, WorkersInv,
         OwnBytes, Sound
<1>1. CASE row' = row /\ Retry(g)
  BY <1>1, <1>t, RetryMoves, QuietMoveKept DEF jobVars
<1>2. CASE /\ MayRegister(g)
           /\ row' = Registered(Bundle, g, Bundle, worker[g].sum)
           /\ Goes(g, "delivered") \/ Retry(g)
  <2>1. /\ worker' \in [Gen -> Worker]
        /\ worker'[g].at \in {"delivering", "undelivered", "delivered"}
        /\ worker'[g].at # "undelivered" => worker'[g].tries < Tries
        /\ \A h \in Gen : h # g => worker'[h] = worker[h]
    BY <1>2, <1>t, GoesMoves, RetryMoves
  <2>2. /\ row' \in [Logical -> Row \cup {None}]
        /\ row'[Bundle] # None /\ row'[Bundle].gen = g
        /\ row'[Bundle].sum = worker[g].sum
        /\ RowsInv' /\ RowsFenced
    BY <1>2, <1>t, RegisteredRows DEF MayRegister, Key, Logical, Bundle, Report
  <2>3. ArtifactTypeOK'
    BY <2>1, <2>2, <1>t DEF DeliveryInv, ArtifactTypeOK
  <2>4. WorkersInv' /\ OwnBytes' /\ SweptInv'
    BY <2>1, <1>t DEF DeliveryInv, WorkersInv, OwnBytes, SweptInv, Sound
  <2>5. EndInv'
    BY <1>2, <2>1, <2>2, <1>t DEF DeliveryInv, EndInv, MayRegister, Owns, Sound
  <2> QED
    BY <2>2, <2>3, <2>4, <2>5 DEF Kept, DeliveryInv
<1> QED
  BY <1>1, <1>2 DEF Register, CommitUnknown

\* The bundle's object is written: right, and the worker's own, or spoilt.
LEMMA UploadKept ==
  ASSUME DeliveryInv, NEW g \in Gen, NEW what \in Stored(g), Upload(g, what)
  PROVE  Kept
<1> USE DEF At
<1>t. /\ worker[g].at = "delivering" /\ worker[g].tries < Tries
      /\ store' = [store EXCEPT ![Bundle] = what] /\ hand' = g
      /\ UNCHANGED <<made, form, status, owner, row, record, sweep>>
      /\ Bundle \in Key /\ Bundle \notin Content /\ made[g] \in Content
      /\ form[g] \in {"plain", "multipart", "streamed"}
      /\ what \in {made[g], Swapped, Cut} /\ what \in Bytes
  BY DeliveryAssumption
     DEF Upload, Put, jobVars, DeliveryInv, ArtifactTypeOK, WorkersInv, Key, Bytes,
         Stored
<1>1. /\ worker' \in [Gen -> Worker]
      /\ worker'[g].at \in {"stored", "spoilt"} /\ worker'[g].tries < Tries
      /\ worker'[g].at = "stored" => Checked(g, what)
      /\ worker'[g].sum = Told(g, what) /\ Told(g, what) \in Bytes
      /\ \A h \in Gen : h # g => worker'[h] = worker[h]
  BY <1>t DEF Upload, Told, DeliveryInv, ArtifactTypeOK, Worker, Bytes
<1>2. store' \in [Key -> Bytes \cup {None}] /\ store'[Bundle] = what
      /\ \A c \in Content : store'[c] = store[c]
  BY <1>t DEF DeliveryInv, ArtifactTypeOK, Key
<1>3. ArtifactTypeOK'
  BY <1>t, <1>1, <1>2 DEF DeliveryInv, ArtifactTypeOK
<1>4. WorkersInv'
  BY <1>t, <1>1 DEF DeliveryInv, WorkersInv
<1>5. OwnBytes'
  <2>1. ASSUME NEW h \in Gen, worker'[h].at = "stored"
        PROVE  Sound(h, worker[h].sum)'
    <3>1. CASE h = g
      BY <2>1, <3>1, <1>t, <1>1, <1>2 DEF Sound, Checked, Told
    <3>2. CASE h # g
      BY <2>1, <3>2, <1>t, <1>1 DEF DeliveryInv, OwnBytes, Sound
    <3> QED
      BY <3>1, <3>2
  <2> QED
    BY <2>1, <1>2 DEF DeliveryInv, OwnBytes
<1>6. RowsInv' /\ RowsFenced /\ SweptInv'
  BY <1>t DEF DeliveryInv, RowsInv, RowsFenced, SweptInv
<1>7. EndInv'
  BY <1>t, <1>1 DEF DeliveryInv, EndInv, Owns, Sound
<1> QED
  BY <1>3, <1>4, <1>5, <1>6, <1>7 DEF Kept, DeliveryInv

\* An upload that raised, its object stored or not.
LEMMA UploadFailsKept ==
  ASSUME DeliveryInv, NEW g \in Gen, UploadFails(g)
  PROVE  Kept
<1> USE DEF At
<1>t. /\ worker[g].at = "delivering" /\ made[g] \in Content
      /\ Bundle \in Key /\ Bundle \notin Content
      /\ record \in [Key -> Record \cup {None}]
      /\ UNCHANGED <<made, form, status, owner, row, record, sweep>>
  BY DeliveryAssumption
     DEF UploadFails, jobVars, DeliveryInv, ArtifactTypeOK, Key
<1>1. /\ worker' \in [Gen -> Worker]
      /\ worker'[g].at \in {"delivering", "undelivered"}
      /\ worker'[g].at = "delivering" => worker'[g].tries < Tries
      /\ \A h \in Gen : h # g => worker'[h] = worker[h]
  BY <1>t, RetryMoves DEF UploadFails
<1>2. CASE UNCHANGED <<store, hand>>
  BY <1>2, <1>t, <1>1, QuietMoveKept DEF jobVars
<1>3. ASSUME NEW what \in Stored(g), Put(g, Bundle, what)
      PROVE  Kept
  <2>1. /\ store' \in [Key -> Bytes \cup {None}] /\ hand' = g
        /\ \A c \in Content : store'[c] = store[c]
    BY <1>3, <1>t DEF Put, Stored, Bytes, DeliveryInv, ArtifactTypeOK, Key
  <2>2. ArtifactTypeOK' /\ WorkersInv' /\ SweptInv'
    BY <1>t, <1>1, <2>1 DEF DeliveryInv, ArtifactTypeOK, WorkersInv, SweptInv
  <2>3. OwnBytes'
    BY <1>t, <1>1, <2>1 DEF DeliveryInv, OwnBytes, Sound
  <2>4. RowsInv' /\ RowsFenced
    BY <1>t DEF DeliveryInv, RowsInv, RowsFenced
  <2>5. EndInv'
    BY <1>t, <1>1, <2>1 DEF DeliveryInv, EndInv, Owns, Sound
  <2> QED
    BY <2>2, <2>3, <2>4, <2>5 DEF Kept, DeliveryInv
<1> QED
  BY <1>2, <1>3 DEF UploadFails

\* What was spoilt is deleted by its own worker, or recorded.
LEMMA DeleteOrRecordKept ==
  ASSUME DeliveryInv, NEW g \in Gen, NEW ok \in BOOLEAN, DeleteOrRecord(g, ok)
  PROVE  Kept
<1> USE DEF At
<1>t. /\ worker[g].at = "spoilt" /\ worker[g].tries < Tries
      /\ UNCHANGED <<made, form, status, owner, row, sweep>>
      /\ record \in [Key -> Record \cup {None}]
      /\ worker[g].sum \in Bytes \cup {None}
      /\ Bundle \in Key /\ Bundle \notin Content
  BY DeliveryAssumption
     DEF DeleteOrRecord, jobVars, DeliveryInv, ArtifactTypeOK, WorkersInv, Key,
         Worker
<1>1. /\ worker' \in [Gen -> Worker]
      /\ worker'[g].at \in {"delivering", "undelivered"}
      /\ worker'[g].at = "delivering" => worker'[g].tries < Tries
      /\ \A h \in Gen : h # g => worker'[h] = worker[h]
  BY <1>t, RetryMoves DEF DeleteOrRecord
<1>2. CASE ~ok
  <2>1. /\ record' \in [Key -> Record \cup {None}]
        /\ \A k \in Key : record[k] # None => record'[k] = record[k]
    BY <1>2, <1>t
       DEF DeleteOrRecord, RecordOrphan, Record, DeliveryInv, ArtifactTypeOK
  <2> QED
    BY <1>2, <1>t, <1>1, <2>1, QuietMoveKept DEF DeleteOrRecord, jobVars
<1>3. CASE ok
  <2>1. store' = [store EXCEPT ![Bundle] = None] /\ hand' = g /\ record' = record
    BY <1>3 DEF DeleteOrRecord, Put
  <2>2. /\ store' \in [Key -> Bytes \cup {None}]
        /\ \A c \in Content : store'[c] = store[c]
    BY <2>1, <1>t DEF DeliveryInv, ArtifactTypeOK, Key
  <2>3. ArtifactTypeOK'
    BY <1>t, <1>1, <2>1, <2>2 DEF DeliveryInv, ArtifactTypeOK
  <2>4. WorkersInv' /\ OwnBytes' /\ SweptInv'
    BY <1>t, <1>1, <2>1, <2>2 DEF DeliveryInv, WorkersInv, OwnBytes, SweptInv, Sound
  <2>5. RowsInv' /\ RowsFenced /\ SweptInv'
    BY <1>t, <2>1 DEF DeliveryInv, RowsInv, RowsFenced, SweptInv
  <2>6. EndInv'
    BY <1>t, <1>1, <2>1 DEF DeliveryInv, EndInv, Owns, Sound
  <2> QED
    BY <2>3, <2>4, <2>5, <2>6 DEF Kept, DeliveryInv
<1> QED
  BY <1>2, <1>3

\* The status is committed once, by a worker that is then gone.
LEMMA FinalizeKept ==
  ASSUME DeliveryInv, NEW g \in Gen, Finalize(g)
  PROVE  Kept
<1> USE DEF At
<1>t. /\ worker[g].at \in {"delivered", "undelivered"}
      /\ status' \in {status, "succeeded", "failed"}
      /\ status' # status =>
           Owns(g) /\ (status' = "succeeded" => worker[g].at = "delivered")
      /\ UNCHANGED <<made, form, owner, store, hand, row, record, sweep>>
  BY DEF Finalize, Verdict
<1>1. /\ worker' \in [Gen -> Worker]
      /\ worker'[g].at = "gone"
      /\ \A h \in Gen : h # g => worker'[h] = worker[h]
  BY <1>t, GoesMoves DEF Finalize
<1>2. ArtifactTypeOK'
  BY <1>t, <1>1 DEF DeliveryInv, ArtifactTypeOK
<1>3. WorkersInv' /\ OwnBytes'
  BY <1>t, <1>1 DEF DeliveryInv, WorkersInv, OwnBytes, Sound
<1>4. RowsInv' /\ RowsFenced /\ SweptInv'
  BY <1>t DEF DeliveryInv, RowsInv, RowsFenced, SweptInv
<1>5. EndInv'
  BY <1>t, <1>1 DEF DeliveryInv, EndInv, OwnBytes, Owns, Sound
<1> QED
  BY <1>2, <1>3, <1>4, <1>5 DEF Kept, DeliveryInv

\* The reconciler's hand is nobody's.
LEMMA SweepKept ==
  ASSUME DeliveryInv,
         \/ \E k \in Key, known, alike \in BOOLEAN : Look(k, known, alike)
         \/ Delete \/ DeleteFails \/ SweepDies
  PROVE  Kept
<1>1. ASSUME NEW k \in Key, NEW to \in {"adopted", "deleted", "conflict",
                                         "pending", "abandoned"},
             record[k] # None, Settle(k, to)
      PROVE  record' \in [Key -> Record \cup {None}]
  BY <1>1 DEF Settle, DeliveryInv, ArtifactTypeOK, Record
<1>2. ASSUME UNCHANGED <<jobVars, worker, store, hand, row>>,
             record' \in [Key -> Record \cup {None}],
             sweep' \in Key \cup {None},
             sweep' # None => record'[sweep'] # None
      PROVE  Kept
  BY <1>2 DEF Kept, jobVars, DeliveryInv, ArtifactTypeOK, WorkersInv, OwnBytes,
              RowsInv, RowsFenced, EndInv, SweptInv, Owns, Sound
<1>3. ASSUME NEW k \in Key, NEW known \in BOOLEAN, NEW alike \in BOOLEAN,
             Look(k, known, alike)
      PROVE  Kept
  BY <1>3, <1>1, <1>2 DEF Look, DeliveryInv, ArtifactTypeOK
<1>4. ASSUME sweep # None
      PROVE  sweep \in Key /\ record[sweep] # None
  BY <1>4 DEF DeliveryInv, ArtifactTypeOK, SweptInv
<1>5. CASE DeleteFails
  BY <1>5, <1>1, <1>2, <1>4 DEF DeleteFails
<1>6. CASE SweepDies
  BY <1>6, <1>2 DEF SweepDies, DeliveryInv, ArtifactTypeOK
<1>7. CASE Delete
  <2>1. /\ store' = [store EXCEPT ![sweep] = None]
        /\ hand' = IF sweep = Bundle THEN Sweep ELSE hand
        /\ sweep' = None /\ UNCHANGED <<made, form, status, owner, worker, row>>
        /\ record' \in [Key -> Record \cup {None}]
    BY <1>7, <1>1, <1>4 DEF Delete, Put, jobVars, DeliveryInv, ArtifactTypeOK
  <2>2. /\ store' \in [Key -> Bytes \cup {None}]
        /\ \A k \in Key : store'[k] \in {store[k], None}
        /\ store'[Bundle] # store[Bundle] => hand' = Sweep
        /\ hand' \in {hand, Sweep}
    BY <2>1, <1>4, <1>7 DEF Delete, DeliveryInv, ArtifactTypeOK, Key
  <2>3. Sweep \notin Gen
    BY DEF Sweep, Gen
  <2>4. ArtifactTypeOK'
    BY <2>1, <2>2 DEF DeliveryInv, ArtifactTypeOK
  <2>5. WorkersInv' /\ SweptInv'
    BY <2>1 DEF DeliveryInv, WorkersInv, SweptInv
  <2>6. OwnBytes'
    BY <2>1, <2>2, <2>3 DEF DeliveryInv, OwnBytes, Key, Sound
  <2>7. RowsInv' /\ RowsFenced
    BY <2>1 DEF DeliveryInv, RowsInv, RowsFenced
  <2>8. EndInv'
    BY <2>1, <2>2, <2>3 DEF DeliveryInv, EndInv, Owns, Sound
  <2> QED
    BY <2>4, <2>5, <2>6, <2>7, <2>8 DEF Kept, DeliveryInv
<1> QED
  BY <1>3, <1>5, <1>6, <1>7

----------------------------------------------------------------------------
(* The theorems.                                                           *)

\* Every step, and none.
LEMMA DeliveryStep ==
  ASSUME DeliveryInv, [Next]_vars
  PROVE  Kept
<1>1. CASE UNCHANGED vars
  BY <1>1 DEF vars, jobVars, Kept, DeliveryInv, ArtifactTypeOK, WorkersInv,
     OwnBytes, RowsInv, RowsFenced, EndInv, SweptInv, Owns, Sound
<1>2. ASSUME NEW g \in Gen, Work(g)
      PROVE  Kept
  BY <1>2, MovesKept, FileReportKept, RegisterReportKept, RegisterKept,
     UploadKept, UploadFailsKept, DeleteOrRecordKept, FinalizeKept DEF Work
<1> QED
  BY <1>1, <1>2, ClaimKept, CancelKept, MovesKept, SweepKept DEF Next

\* A job nobody has claimed.
LEMMA DeliveryInit ==
  ASSUME Init
  PROVE  DeliveryInv
<1>1. ArtifactTypeOK
  BY DeliveryAssumption DEF Init, ArtifactTypeOK, At, Worker
<1> QED
  BY <1>1, DeliveryAssumption
     DEF Init, DeliveryInv, WorkersInv, OwnBytes, RowsInv, EndInv, SweptInv, Key,
         Bundle, Logical

\* The inductive invariant of the delivery.
THEOREM DeliveryInvariant == Spec => []DeliveryInv
<1>1. Init => DeliveryInv
  BY DeliveryInit
<1>2. DeliveryInv /\ [Next]_vars => DeliveryInv'
  BY DeliveryStep DEF Kept
<1> QED
  BY <1>1, <1>2, PTL DEF Spec

\* Types; no worker makes more than _DELIVERY_ATTEMPTS.
THEOREM ArtifactTypes == Spec => []ArtifactTypeOK
<1>1. DeliveryInv => ArtifactTypeOK
  BY DEF DeliveryInv
<1> QED
  BY <1>1, DeliveryInvariant, PTL

\* A worker that lost its job, to the owner's cancel or to another worker,
\* registers nothing, however many executions there were.
THEOREM LosersRegisterNothing == Spec => LoserLeavesNoRow
<1>1. DeliveryInv /\ [Next]_vars
        => [\A a \in Logical : row'[a] # row[a] =>
              /\ status = "running"
              /\ row'[a].gen = owner
              /\ row[a] # None => row[a].gen <= owner]_vars
  BY DeliveryStep DEF Kept, RowsFenced
<1> QED
  BY <1>1, DeliveryInvariant, PTL DEF Spec, LoserLeavesNoRow

\* A succeeded job was delivered by the execution that ended it, and its object
\* is what the check of its way of storing is worth, while no other hand has
\* touched it.
THEOREM SuccessWasDelivered == Spec => []SucceededWasDelivered
<1>1. DeliveryInv => SucceededWasDelivered
  BY DEF DeliveryInv, EndInv, Sound, SucceededWasDelivered
<1> QED
  BY <1>1, DeliveryInvariant, PTL

\* The object a committed report row names holds that report or nothing.
THEOREM EvidenceStands == Spec => []EvidenceIsNotOverwritten
<1>1. DeliveryInv => EvidenceIsNotOverwritten
  BY DeliveryAssumption
     DEF DeliveryInv, ArtifactTypeOK, Row, RowsInv, OwnBytes, Logical, Key, Bytes,
         Bundle, Cut, Swapped, EvidenceIsNotOverwritten
<1> QED
  BY <1>1, DeliveryInvariant, PTL
=============================================================================
