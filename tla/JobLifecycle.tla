---------------------------- MODULE JobLifecycle ----------------------------
(***************************************************************************)
(* The life of a job as the transition table tells it: whoever writes the  *)
(* status - worker, API, reaper, review, cancel - and whether it consults  *)
(* the table, names sources of its own, or only compares the status while  *)
(* it holds the row, the job moves along the table and never out of an     *)
(* ending.  The modules of the row implement it.                           *)
(***************************************************************************)
EXTENDS JobState

VARIABLE status

\* Created, or already claimed where a model begins with the run.
LifeInit == status \in {"pending", "running"}

Move(to) == status \in LegalSources[to] /\ status' = to

LifeSpec == LifeInit /\ [][\E to \in Status : Move(to)]_status
=============================================================================
