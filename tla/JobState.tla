------------------------------ MODULE JobState ------------------------------
(***************************************************************************)
(* The job's statuses and the one table of legal moves between them.       *)
(* `queued' is declared by the code and assigned by nothing.               *)
(***************************************************************************)

Terminal == {"succeeded", "failed", "cancelled"}
Status == {"pending", "running", "pending_review"} \cup Terminal

\* LEGAL_SOURCES without `queued'.  A writer may also pass sources of its own,
\* or compare the status itself, as the claim and the resets do.
LegalSources ==
  [ running        |-> {"pending"},
    pending        |-> {"running", "pending_review"},
    pending_review |-> {"running", "pending"},
    succeeded      |-> {"running", "pending_review"},
    failed         |-> {"pending", "running", "pending_review"},
    cancelled      |-> {"pending", "running", "pending_review"} ]
=============================================================================
