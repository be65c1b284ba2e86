SPECIFICATION Spec
CONSTANTS
  NPROC = 3
  Cpus = {c0, c1}
  Locks = {"kmem", "ticks", "wait"}
  None = None
  STALLMOD = 16
  NPAGES = 9
  KFRAMES = 3
  MaxUser = 2
CHECK_DEADLOCK FALSE
INVARIANTS StallJustified ZombiesNoticed NoLockStranded PagesAccounted
SYMMETRY CpuSymmetry
PROPERTY ImplementsLifecycle
