\* Two jobs, one agent, two faults, one cancel in flight at a time.
SPECIFICATION FairSpec
CONSTANTS
  Jobs = {1, 2}
  Nodes = {n1}
  Cancels = {c1}
  NULL = NULL
  MaxFaults = 2
INVARIANTS
  AgentRunsOneJob
  RunsAreAssigned
PROPERTIES
  RunsEndByReport
  KillsWithCause
  OnlyFaultsStrand
  JobsEnd
