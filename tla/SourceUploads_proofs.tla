------------------------ MODULE SourceUploads_proofs ------------------------
(***************************************************************************)
(* What an upload keeps, for any number of finishes, purgers and PUTs.     *)
(*                                                                         *)
(* None of the properties is inductive by itself: each needs to know that  *)
(* whoever holds the intent's row lock holds it over an open intent, and   *)
(* so over bytes no source owns yet (LockedIsOpen).  Safe carries what     *)
(* keeps a protected job's bytes: no purger, no claim, and a request that  *)
(* is past its compensation.                                               *)
(***************************************************************************)
EXTENDS SourceUploads, TLAPS

LockedIsOpen == lock # None => intent = "pending"
NewIsEmpty == request.at = "new" => intent = "none"
BudgetLeft == intent \in {"none", "pending"} => retries < MaxRetries
CheckedIsGood ==
  /\ request.at = "stored" => request.saw \in Good
  /\ \A f \in Finisher : finish[f].at = "checked" => finish[f].saw \in Good
SourceIsClosed == source # None => intent \in Closed
PurgedIsAged == \A p \in Purger : purge[p] # "idle" => aged
JobHasSource == job # "none" => source # None
Safe == job = "safe" => ~Endangered

SourceInv ==
  /\ SourceTypeOK /\ LockedIsOpen /\ NewIsEmpty /\ BudgetLeft
  /\ CheckedIsGood /\ SourceIsClosed /\ PurgedIsAged /\ JobHasSource /\ Safe

\* What a step may do to committed bytes.
BytesStay ==
  source # None /\ ~aged /\ object # None /\ object' = None
    => request.at = "failing"

\* One step keeps the invariant, and the bytes.
Kept == SourceInv' /\ BytesStay

USE DEF Closed, Content, Idle, NoSweep

\* The request that stores a multipart upload, or begins a direct one.
LEMMA MultipartKept ==
  ASSUME SourceInv, Multipart
  PROVE  Kept
<1> USE UploadAssumption
    DEF Kept, SourceInv, BytesStay, SourceTypeOK, LockedIsOpen, NewIsEmpty,
        BudgetLeft, CheckedIsGood, SourceIsClosed, PurgedIsAged, JobHasSource,
        Safe, Endangered, intentVars, storeVars, purgeVars
<1>1. CASE RecordIntent
  BY <1>1 DEF RecordIntent
<1>2. CASE StoreFails
  <2>1. held' \in BOOLEAN
    BY <1>2, Zenon DEF StoreFails, CloseIntent, Resolve
  <2> QED
    BY <1>2, <2>1 DEF StoreFails, CloseIntent, Resolve
<1>3. CASE CommitFails
  BY <1>3 DEF CommitFails
<1>4. CASE Compensate
  <2>1. held' \in BOOLEAN
    BY <1>4, Zenon DEF Compensate, CloseIntent, Resolve
  <2> QED
    BY <1>4, <2>1 DEF Compensate, CloseIntent, Resolve
<1>5. CASE RequestEnds
  BY <1>5 DEF RequestEnds
<1>6. ASSUME NEW c \in Good, StoreObject(c)
      PROVE  Kept
  BY <1>6 DEF StoreObject
<1>7. ASSUME NEW answered \in BOOLEAN, CommitSource(answered)
      PROVE  Kept
  <2>1. held' \in BOOLEAN
    BY <1>7, Zenon DEF CommitSource, Resolve
  <2> QED
    BY <1>7, <2>1 DEF CommitSource, Resolve
<1> QED
  BY <1>1, <1>2, <1>3, <1>4, <1>5, <1>6, <1>7 DEF Multipart

\* The URL, what the client puts, and the finishes.
LEMMA DirectKept ==
  ASSUME SourceInv, Direct
  PROVE  Kept
<1> USE UploadAssumption
    DEF Kept, SourceInv, BytesStay, SourceTypeOK, LockedIsOpen, NewIsEmpty,
        BudgetLeft, CheckedIsGood, SourceIsClosed, PurgedIsAged, JobHasSource,
        Safe, Endangered, uploadVars, intentVars, storeVars, purgeVars
<1>1. CASE GiveUrl
  BY <1>1 DEF GiveUrl
<1>2. CASE UrlExpires
  <2>1. url' \in BOOLEAN
    BY <1>2, Zenon DEF UrlExpires
  <2> QED
    BY <1>2, <2>1 DEF UrlExpires
<1>3. CASE HoldPasses
  <2>1. held' \in BOOLEAN
    BY <1>3, Zenon DEF HoldPasses
  <2> QED
    BY <1>3, <2>1 DEF HoldPasses
<1>4. ASSUME NEW c \in Content, Put(c)
      PROVE  Kept
  BY <1>4 DEF Put
<1>5. ASSUME NEW f \in Finisher, FinishLooks(f)
      PROVE  Kept
  BY <1>5 DEF FinishLooks, FinishOnly, FinishTo
<1>6. ASSUME NEW f \in Finisher, FinishReads(f)
      PROVE  Kept
  BY <1>6 DEF FinishReads, FinishOnly, FinishTo
<1>7. ASSUME NEW f \in Finisher, FinishEnds(f)
      PROVE  Kept
  BY <1>7 DEF FinishEnds
<1>8. ASSUME NEW f \in Finisher, Adopt(f)
      PROVE  Kept
  <2>1. held' \in BOOLEAN
    BY <1>8, Zenon DEF Adopt, Resolve, StillOpen
  <2> QED
    BY <1>8, <2>1 DEF Adopt, Resolve, StillOpen
<1>9. ASSUME NEW f \in Finisher, DiscardLocks(f)
      PROVE  Kept
  BY <1>9 DEF DiscardLocks, FinishTo, StillOpen
<1>10. ASSUME NEW f \in Finisher, DiscardDeletes(f)
       PROVE  Kept
  BY <1>10 DEF DiscardDeletes, FinishTo
<1>11. ASSUME NEW f \in Finisher, DiscardCommits(f)
       PROVE  Kept
  <2>1. held' \in BOOLEAN
    BY <1>11, Zenon DEF DiscardCommits
  <2> QED
    BY <1>11, <2>1 DEF DiscardCommits
<1> HIDE DEF Kept, SourceInv
<1> QED
  BY <1>1, <1>2, <1>3, <1>4, <1>5, <1>6, <1>7, <1>8, <1>9, <1>10, <1>11
     DEF Direct

\* The reconciler's pass.
LEMMA ReclaimKept ==
  ASSUME SourceInv, Reclaim
  PROVE  Kept
<1> USE UploadAssumption
    DEF Kept, SourceInv, BytesStay, SourceTypeOK, LockedIsOpen, NewIsEmpty,
        BudgetLeft, CheckedIsGood, SourceIsClosed, PurgedIsAged, JobHasSource,
        Safe, Endangered, uploadVars, intentVars, storeVars, purgeVars
<1>1. CASE SweepClaims
  BY <1>1 DEF SweepClaims, SweepTo, Due
<1>2. CASE SweepLooks
  BY <1>2 DEF SweepLooks, SweepOnly, SweepTo, Owned
<1>3. CASE SweepDeletes
  BY <1>3 DEF SweepDeletes, SweepTo
<1>4. CASE SweepFails
  BY <1>4 DEF SweepFails, SweepOnly, SweepTo
<1>5. CASE SweepCommits
  BY <1>5 DEF SweepCommits, RecordFailure
<1>6. CASE SweepDies
  BY <1>6 DEF SweepDies
<1> HIDE DEF Kept, SourceInv
<1> QED
  BY <1>1, <1>2, <1>3, <1>4, <1>5, <1>6 DEF Reclaim

\* The purge, and the jobs.
LEMMA RetentionKept ==
  ASSUME SourceInv, Retention
  PROVE  Kept
<1> USE UploadAssumption
    DEF Kept, SourceInv, BytesStay, SourceTypeOK, LockedIsOpen, NewIsEmpty,
        BudgetLeft, CheckedIsGood, SourceIsClosed, PurgedIsAged, JobHasSource,
        Safe, Endangered, uploadVars, intentVars, storeVars, purgeVars
<1>1. CASE Ages
  BY <1>1 DEF Ages
<1>2. CASE Approve
  BY <1>2 DEF Approve
<1>3. CASE ApprovalEnds
  BY <1>3 DEF ApprovalEnds
<1>4. CASE JobEnds
  BY <1>4 DEF JobEnds
<1>5. ASSUME NEW p \in Purger, PurgeClaims(p)
      PROVE  Kept
  BY <1>5 DEF PurgeClaims, PurgeTo, ProtectedByActiveWork
<1>6. ASSUME NEW p \in Purger, PurgeDeletes(p)
      PROVE  Kept
  BY <1>6 DEF PurgeDeletes, PurgeTo
<1>7. ASSUME NEW p \in Purger, DeleteFails(p)
      PROVE  Kept
  BY <1>7 DEF DeleteFails, PurgeTo
<1>8. ASSUME NEW p \in Purger, FinalizePurge(p)
      PROVE  Kept
  BY <1>8 DEF FinalizePurge, Release, PurgeTo
<1>9. ASSUME NEW p \in Purger, ReleaseClaim(p)
      PROVE  Kept
  BY <1>9 DEF ReleaseClaim, Release, PurgeTo
<1>10. ASSUME NEW p \in Purger, PurgerDies(p)
       PROVE  Kept
  BY <1>10 DEF PurgerDies, PurgeTo
<1> HIDE DEF Kept, SourceInv
<1> QED
  BY <1>1, <1>2, <1>3, <1>4, <1>5, <1>6, <1>7, <1>8, <1>9, <1>10 DEF Retention

\* Every step, and none.
LEMMA SourceStep ==
  ASSUME SourceInv, [Next]_vars
  PROVE  Kept
<1>1. CASE UNCHANGED vars
  BY <1>1 DEF vars, uploadVars, intentVars, storeVars, purgeVars, Kept,
     SourceInv, BytesStay, SourceTypeOK, LockedIsOpen, NewIsEmpty, BudgetLeft,
     CheckedIsGood, SourceIsClosed, PurgedIsAged, JobHasSource, Safe, Endangered
<1> QED
  BY <1>1, MultipartKept, DirectKept, ReclaimKept, RetentionKept DEF Next

\* The invariant holds before the upload.
LEMMA SourceInit ==
  ASSUME Init
  PROVE  SourceInv
<1>1. held \in BOOLEAN /\ url \in BOOLEAN /\ aged \in BOOLEAN /\ purged \in BOOLEAN
  BY Zenon DEF Init
<1>2. SourceTypeOK
  BY <1>1, UploadAssumption DEF Init, SourceTypeOK
<1> QED
  BY <1>2, UploadAssumption
     DEF Init, SourceInv, LockedIsOpen, NewIsEmpty, BudgetLeft, CheckedIsGood,
         SourceIsClosed, PurgedIsAged, JobHasSource, Safe

\* The inductive invariant of an upload.
THEOREM SourceInvariant == Spec => []SourceInv
<1>1. Init => SourceInv
  BY SourceInit
<1>2. SourceInv /\ [Next]_vars => SourceInv'
  BY SourceStep DEF Kept
<1> QED
  BY <1>1, <1>2, PTL DEF Spec

\* Types, and one holder of the row lock, between its lock and its commit.
THEOREM SourceTypes == Spec => []SourceTypeOK
<1>1. SourceInv => SourceTypeOK
  BY DEF SourceInv
<1> QED
  BY <1>1, SourceInvariant, PTL

\* A committed source never has an open intent, however many finishes race the
\* sweep and each other.
THEOREM CommittedIsSettled == Spec => []CommittedHasNoOpenIntent
<1>1. SourceInv => CommittedHasNoOpenIntent
  BY DEF SourceInv, SourceIsClosed, CommittedHasNoOpenIntent
<1> QED
  BY <1>1, SourceInvariant, PTL

\* A job that was approved while nobody was deleting its bytes keeps them,
\* however many purgers there are and whichever claims they lost.
THEOREM ApprovedJobProtected == Spec => []ApprovedJobKeepsItsBytes
<1>1. SourceInv => ApprovedJobKeepsItsBytes
  BY DEF SourceInv, Safe, Endangered, ApprovedJobKeepsItsBytes
<1> QED
  BY <1>1, SourceInvariant, PTL

\* Nobody but a request that was never told of its commit deletes the bytes of
\* a committed source within its retention.
THEOREM AdoptedBytesStay == Spec => AdoptedBytesAreNotDeleted
<1>1. SourceInv /\ [Next]_vars
        => [source # None /\ ~aged /\ object # None /\ object' = None
              => request.at = "failing"]_vars
  BY SourceStep DEF Kept, BytesStay
<1> QED
  BY <1>1, SourceInvariant, PTL DEF Spec, AdoptedBytesAreNotDeleted
=============================================================================
