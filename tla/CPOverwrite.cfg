\* A cancellation in flight across a claim and its completion.
SPECIFICATION Spec
CONSTANTS
  NULL = NULL
  Capacity <- MCCapacity
  Users = {u1}
  MaxJobs = 1
  Nodes = {n1}
  n1 = n1
  n2 = n2
  Sessions = {s1, s2}
  GpuCounts = {1}
  Durations = {3600}
  RunTimes = {0}
  Grants = {1}
PROPERTIES
  OutcomeIsFinal
