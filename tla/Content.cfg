SPECIFICATION Spec
CONSTANTS
  Procs = {p1, p2}
  None = None
  Inums = {1, 2}
  Files = {f1, f2}
  NBLOCKS = 4
  NDIRECT = 1
  BSIZE = 2
  BPB = 1
  MAXOPBLOCKS = 6
  Sources <- MCSources
  Lens = {1, 3}
  MaxCalls = 4
INVARIANTS BlocksAccounted TransactionFits WrittenIsThere
PROPERTY OnlyWritesChange
SYMMETRY MCSymmetry
