\* Two requests in flight, two nodes, two jobs of one user.
SPECIFICATION Spec
SYMMETRY SessionSymmetry
CONSTANTS
  NULL = NULL
  Capacity <- MCCapacity
  Users = {u1}
  MaxJobs = 2
  Nodes = {n1, n2}
  n1 = n1
  n2 = n2
  Sessions = {s1, s2}
  GpuCounts = {1}
  Durations = {3600}
  RunTimes = {0}
  Grants = {2}
PROPERTIES
  BillIsDeducted
