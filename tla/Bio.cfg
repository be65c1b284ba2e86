SPECIFICATION BioSpec
CONSTANTS
  Procs = {p1, p2, p3}
  NBUF = 2
  Blocks = {k1, k2, k3}
  None = None
  Sizes = {4, 6}
  MaxPins = 1
INVARIANTS CacheAccounted HolderSeesLatest BioSleepersJustified
SYMMETRY BioSymmetry
