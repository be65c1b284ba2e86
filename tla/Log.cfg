SPECIFICATION FairLog
CONSTANTS
  Threads = {p1, p2, p3}
  Blocks = {b1, b2, b3}
  Vals = {0, 1}
  None = None
  LOGBLOCKS = 2
  MAXOPBLOCKS = 1
  MaxWrites = 1
INVARIANTS QuietIsDurable ReservationSuffices WaitersJustified
PROPERTIES ImplementsAtomicDisk LogWaitEnds
