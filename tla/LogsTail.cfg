\* One scanner, no loss: only pumpCancel interrupts a request.
SPECIFICATION Spec
CONSTANTS
  Scanners = {"stdout"}
  MaxLines = 1
  Oversized <- NoOversized
  PageLimit = 2
  Lossy = FALSE
INVARIANTS
  TailIsStored
CHECK_DEADLOCK FALSE
