SPECIFICATION FsSpec
CONSTANTS
  Procs = {p1, p2}
  None = None
  NINODES = 3
  Names = {"a", "b"}
  Paths <- DotDotPaths
  Images <- DotDotImages
  Files = {f1, f2}
  NOFILE = 2
  Calls = {"chdir", "unlink"}
  MaxCrashes = 0
  MaxCalls = 4
INVARIANT NoIlockPanic
SYMMETRY MCSymmetry
