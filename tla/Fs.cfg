SPECIFICATION FsSpec
CONSTANTS
  Procs = {p1, p2}
  None = None
  NINODES = 3
  Names = {"a", "b"}
  Paths <- MCPaths
  Images <- MCImages
  Files = {f1, f2}
  NOFILE = 2
  Calls = {"open", "create", "mkdir", "mknod", "unlink", "link", "chdir", "pipe"}
  MaxCrashes = 1
  MaxCalls = 3
INVARIANTS ReferencesSound SavedConsistent OrphansReclaimed
SYMMETRY MCSymmetry
