\* Two requests in flight, one job, two nodes of one and two GPUs.
SPECIFICATION Spec
CONSTANTS
  NULL = NULL
  Capacity <- MCCapacity
  Users = {u1}
  MaxJobs = 1
  Nodes = {n1, n2}
  n1 = n1
  n2 = n2
  Sessions = {s1, s2}
  GpuCounts = {1, 2}
  Durations = {3600}
  RunTimes = {0}
  Grants = {2}
INVARIANTS
  AssignedOnce
  AssignmentFits
PROPERTIES
  EndedStaysEnded
SYMMETRY SessionSymmetry
