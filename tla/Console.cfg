SPECIFICATION Spec
CONSTANTS
  Procs = {p1, p2}
  Nobody = Nobody
  SIZE = 2
  UINT = 4
  BATCH = 2
  Lens = {1, 3}
  MaxRx = 1
  Scenes <- MCScenes
INVARIANTS ConsoleSleepersJustified FifoNotOverrun
PROPERTY ImplementsLines
SYMMETRY MCSymmetry
