\* Requests served one at a time: two jobs, two nodes of one and two GPUs.
SPECIFICATION Spec
CONSTANTS
  NULL = NULL
  Capacity <- MCCapacity
  Users = {u1}
  MaxJobs = 2
  Nodes = {n1, n2}
  n1 = n1
  n2 = n2
  Sessions = {s1}
  GpuCounts = {1, 2}
  Durations = {3600}
  RunTimes = {0, 7200}
  Grants = {3}
INVARIANTS
  TypeOK
  OneRunningPerNode
  RunningHasNode
  CreditsReconcile
PROPERTIES
  DrainRespected
  CancelWins
  ImplementsLifecycle
