\* Two scanners of one line each, one of them too long, on a lossy network.
SPECIFICATION FairSpec
CONSTANTS
  Scanners = {"stdout", "stderr"}
  MaxLines = 1
  Oversized <- MCOversized
  PageLimit = 1
  Lossy = TRUE
INVARIANTS
  LinesAccounted
  StreamsInOrder
  ExitComesLast
  ReaderMissesNothing
PROPERTIES
  RunFinishes
CHECK_DEADLOCK FALSE
