SPECIFICATION ClockSpec
CONSTANTS
  NPROC = 2
  Cpus = {c0, c1}
  Cpu0 = c0
  Mixes = {{"pause", "fault", "kill"}, {"pause", "fault", "exit"}, {"sbrk"}}
  Locks = {"kmem", "ticks", "wait"}
  None = None
  STALLMOD = 16
  TICKMOD = 4
  StartTick = 2
  MaxPause = 2
  MaxTicks = 2
  NPAGES = 3
  KFRAMES = 1
  MaxUser = 1
CHECK_DEADLOCK FALSE
INVARIANTS PauseNotOverslept FullSampleIdle StallWithinUptime 
