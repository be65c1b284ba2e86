SPECIFICATION Spec
CONSTANTS
  NPROC = 3
  Cpus = {c0, c1}
  Locks = {"kmem", "ticks", "wait"}
  None = None
  STALLMOD = 16
  NPAGES = 3
  KFRAMES = 1
  MaxUser = 1
CHECK_DEADLOCK FALSE
INVARIANT NoAcquirePanic
SYMMETRY CpuSymmetry
