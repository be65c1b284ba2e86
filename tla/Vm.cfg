SPECIFICATION Spec
CONSTANTS
  Procs = {p1, p2}
  None = None
  NPAGES = 24
  PGSIZE = 4
  FANOUT = 2
  USERSTACK = 1
  MAXARG = 3
  Images <- MCImages
  Args <- MCArgs
  Ends = {0, 1, 4}
  Steps <- MCSteps
  Lefts = {0, 1, 2, 4, 7, 24}
  MaxCalls = 5
INVARIANTS NoVmPanic MemoryAccounted
PROPERTY FailureKeepsMemory
SYMMETRY MCSymmetry
