----------------------------- MODULE JobStatus -----------------------------
(***************************************************************************)
(* The job states and the transition table of                              *)
(* control-plane/app/services/job_status.py.                               *)
(***************************************************************************)

QUEUED    == "queued"
RUNNING   == "running"
COMPLETED == "completed"
FAILED    == "failed"
CANCELLED == "cancelled"

\* TERMINAL_STATUSES
TerminalStatuses == {COMPLETED, FAILED, CANCELLED}

JobStatuses == {QUEUED, RUNNING} \cup TerminalStatuses

\* ALLOWED_TRANSITIONS
AllowedTransitions ==
  {<<QUEUED, RUNNING>>, <<QUEUED, CANCELLED>>}
    \cup ({RUNNING} \X TerminalStatuses)

\* assert_transition: the caller goes on only where the table has the pair,
\* and answers 409 otherwise.
AssertTransition(from, to) == <<from, to>> \in AllowedTransitions
=============================================================================
