------------------------------ MODULE MCJobLogs ------------------------------
(* Small instances of JobLogs for TLC. *)
EXTENDS JobLogs

\* The first line on stderr is too long for the control plane.
MCOversized == {<<"stderr", 1>>}
NoOversized == {}
=============================================================================
