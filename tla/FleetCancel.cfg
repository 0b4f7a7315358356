\* One job, one agent, one fault.
SPECIFICATION FairSpec
CONSTANTS
  Jobs = {1}
  Nodes = {n1}
  Cancels = {c1}
  NULL = NULL
  MaxFaults = 1
PROPERTIES
  CancelIsHonoured
