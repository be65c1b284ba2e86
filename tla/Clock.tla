------------------------------- MODULE Clock -------------------------------
(***************************************************************************)
(* The clock: clockintr() on CPU 0 (kernel/trap.c) with the update_psi()   *)
(* scan of kernel/proc.c, and sys_pause() (kernel/sysproc.c), composed     *)
(* with the scheduler, the allocator and the averages of Psi.              *)
(*                                                                         *)
(* clockintr() interrupts CPU 0 whenever it owns no lock, in a process or  *)
(* in the scheduler, and the process it interrupts stays RUNNING until the *)
(* yield() at the end.  The handler holds tickslock over wakeup(&ticks),   *)
(* then locks one slot at a time to take the sample.  The user programs    *)
(* use one of the sets of calls in Mixes, chosen once.                     *)
(***************************************************************************)
EXTENDS Proc, Psi

CONSTANTS
  Mixes,       \* sets of calls that the user programs make
  Cpu0,        \* the hart with cpuid() = 0
  TICKMOD,     \* 2^32, the range of the uint ticks
  StartTick,   \* the value of ticks in the initial state
  MaxPause,    \* bound on the argument of pause()
  MaxTicks     \* bound on the number of clock interrupts

ASSUME ClockAssumption ==
  /\ Mixes \subseteq SUBSET {"pause", "fault", "sbrk", "kill", "exit"}
  /\ Cpu0 \in Cpus
  /\ TICKMOD \in Nat \ {0} /\ StartTick \in 0 .. TICKMOD - 1
  /\ MaxPause \in 0 .. TICKMOD - 1 /\ MaxTicks \in Nat
  /\ NPROC * KFRAMES <= NPAGES
  /\ None # NPROC + 1

VARIABLES
  calls,      \* the calls of this system, never changed
  ticks0,     \* ticks0 of sys_pause()
  n,          \* its argument
  ipc,        \* where the handler is on CPU 0, "none" outside it
  ipos,       \* the slot its loop is at
  stalled,    \* update_psi(): stalled > 0
  runnable,   \* update_psi(): runnable_or_running > 0
  uptime      \* the clock interrupts since the initial state

pauseVars == <<ticks0, n>>
intrVars == <<ipc, ipos, stalled, runnable>>
clockVars == <<calls, pauseVars, intrVars, psiVars, uptime>>
allVars == <<vars, clockVars>>

TICKS == <<"ticks", 0>>

-----------------------------------------------------------------------------
(***************************************************************************)
(* sys_pause().  A negative argument counts as 0.  The test of the loop    *)
(* holds tickslock and, to read p->killed, takes p->lock inside it.        *)
(***************************************************************************)
SysPause(c, p) ==
  /\ "pause" \in calls /\ Syscall(c, p)
  /\ \E k \in 0 .. MaxPause : n' = [n EXCEPT ![p] = k]
  /\ Goto(p, "pause_start")
  /\ UNCHANGED <<schedVars, memVars, iter, tgt, ra, parent, ticks0, intrVars, psiVars, uptime, calls>>

\* acquire(&tickslock), on entry and again in sleep() after a wakeup.
PauseLock(c, p) ==
  /\ Running(c, p) /\ pc[p] \in {"pause_start", "pause_wake"}
  /\ Free("ticks")
  /\ slock' = [slock EXCEPT !["ticks"] = c]
  /\ ticks0' = [ticks0 EXCEPT ![p] = IF pc[p] = "pause_start" THEN ticks ELSE @]
  /\ Goto(p, "pause")
  /\ UNCHANGED <<state, chan, killed, plock, cur, panic, inintr>>
  /\ UNCHANGED <<memVars, iter, tgt, ra, parent, n, intrVars, psiVars, uptime, calls>>

Elapsed(p) == (ticks - ticks0[p]) % TICKMOD

PauseReturn(p) ==
  /\ slock' = [slock EXCEPT !["ticks"] = None]
  /\ Goto(p, "user")
  /\ ticks0' = [ticks0 EXCEPT ![p] = 0]
  /\ n' = [n EXCEPT ![p] = 0]

PauseTest(c, p) ==
  /\ Running(c, p) /\ pc[p] = "pause"
  /\ \/ Elapsed(p) >= n[p] /\ PauseReturn(p)
     \/ Elapsed(p) < n[p] /\ PFree(p) /\ killed[p] /\ PauseReturn(p)
     \/ /\ Elapsed(p) < n[p] /\ PFree(p) /\ ~killed[p]
        /\ Goto(p, "pause_sleep")
        /\ UNCHANGED <<slock, pauseVars>>
  /\ UNCHANGED <<state, chan, killed, plock, cur, panic, inintr>>
  /\ UNCHANGED <<memVars, iter, tgt, ra, parent, intrVars, psiVars, uptime, calls>>

PauseSleep(c, p) ==
  /\ Running(c, p) /\ pc[p] = "pause_sleep"
  /\ SleepOn(c, p, TICKS, "ticks")
  /\ Goto(p, "pause_wake")
  /\ UNCHANGED <<memVars, iter, tgt, ra, parent, clockVars>>

-----------------------------------------------------------------------------
\* Mutant of ClockTick: wakeup(&ticks) is skipped.
ClockTickQuiet ==
  /\ Executing(Cpu0) /\ NoLocks(Cpu0)
  /\ Free("ticks") /\ uptime < MaxTicks
  /\ inintr' = inintr \cup {Cpu0}
  /\ slock' = [slock EXCEPT !["ticks"] = Cpu0]
  /\ ticks' = (ticks + 1) % TICKMOD
  /\ uptime' = uptime + 1
  /\ ipc' = "wakeup" /\ ipos' = NPROC + 1
  /\ UNCHANGED <<state, chan, killed, plock, cur, panic, free, frames, last_stall_start>>
  /\ UNCHANGED <<mem_stall_ticks, threadVars, parent, pauseVars, stalled, runnable, psiVars, calls>>

(***************************************************************************)
(* clockintr() on CPU 0.  wakeup() skips myproc(), the process that is     *)
(* interrupted, if there is one.                                           *)
(***************************************************************************)
ClockTick ==
  /\ Executing(Cpu0) /\ NoLocks(Cpu0)
  /\ Free("ticks") /\ uptime < MaxTicks
  /\ inintr' = inintr \cup {Cpu0}
  /\ slock' = [slock EXCEPT !["ticks"] = Cpu0]
  /\ ticks' = (ticks + 1) % TICKMOD
  /\ uptime' = uptime + 1
  /\ ipc' = "wakeup" /\ ipos' = After(cur[Cpu0], 0)
  /\ UNCHANGED <<state, chan, killed, plock, cur, panic, free, frames, last_stall_start>>
  /\ UNCHANGED <<mem_stall_ticks, threadVars, parent, pauseVars, stalled, runnable, psiVars, calls>>

ClockWakeup ==
  /\ ipc = "wakeup" /\ ipos \in Procs
  /\ WakeupSlot(Cpu0, ipos, TICKS)
  /\ ipos' = After(cur[Cpu0], ipos)
  /\ UNCHANGED <<memVars, threadVars, parent, pauseVars, ipc, stalled, runnable, psiVars, uptime, calls>>

ClockRelease ==
  /\ ipc = "wakeup" /\ ipos \notin Procs
  /\ slock' = [slock EXCEPT !["ticks"] = None]
  /\ ipc' = "update_psi" /\ ipos' = 1
  /\ UNCHANGED <<state, chan, killed, plock, cur, panic, inintr>>
  /\ UNCHANGED <<memVars, threadVars, parent, pauseVars, stalled, runnable, psiVars, uptime, calls>>

\* Mutant of PsiScan: the count of the stalled is set, not increased.
PsiScanForgets ==
  /\ ipc = "update_psi" /\ ipos \in Procs /\ PFree(ipos)
  /\ stalled' = Sleeping(ipos, KMEM)
  /\ runnable' = (runnable \/ state[ipos] \in {"RUNNABLE", "RUNNING"})
  /\ ipos' = ipos + 1
  /\ UNCHANGED <<vars, pauseVars, ipc, psiVars, uptime, calls>>

\* One slot of the scan of update_psi().
PsiScan ==
  /\ ipc = "update_psi" /\ ipos \in Procs /\ PFree(ipos)
  /\ stalled' = (stalled \/ Sleeping(ipos, KMEM))
  /\ runnable' = (runnable \/ state[ipos] \in {"RUNNABLE", "RUNNING"})
  /\ ipos' = ipos + 1
  /\ UNCHANGED <<vars, pauseVars, ipc, psiVars, uptime, calls>>

some == IF stalled THEN 1 ELSE 0

\* Mutant of full: whoever could run is not looked at.
fullAlways == IF stalled THEN 1 ELSE 0

full == IF stalled /\ ~runnable THEN 1 ELSE 0

PsiSample ==
  /\ ipc = "update_psi" /\ ipos \notin Procs
  /\ UpdatePsi(some, full)
  /\ ipc' = "return" /\ ipos' = 1
  /\ stalled' = FALSE /\ runnable' = FALSE
  /\ UNCHANGED <<vars, pauseVars, uptime, calls>>

\* Leaving the handler: yield(), unless CPU 0 was in its scheduler.  A killed
\* process that was in user mode goes to kexit() instead.
ClockReturn ==
  LET p == cur[Cpu0] IN
  /\ ipc = "return"
  /\ inintr' = inintr \ {Cpu0} /\ ipc' = "none"
  /\ IF p = None
       THEN UNCHANGED <<state, cur>>
       ELSE /\ PFree(p)
            /\ IF pc[p] = "user" /\ killed[p]
                 THEN UNCHANGED <<state, cur>>
                 ELSE /\ state' = [state EXCEPT ![p] = "RUNNABLE"]
                      /\ cur' = [cur EXCEPT ![Cpu0] = None]
  /\ UNCHANGED <<chan, killed, plock, slock, panic, memVars, threadVars, parent>>
  /\ UNCHANGED <<pauseVars, ipos, stalled, runnable, psiVars, uptime, calls>>

-----------------------------------------------------------------------------
\* All NPROC processes are alive, as after init has forked them.
ClockInit ==
  /\ calls \in Mixes
  /\ InitFrom(Procs, NPAGES - NPROC * KFRAMES)
  /\ ticks = StartTick
  /\ ticks0 = [p \in Procs |-> 0] /\ n = [p \in Procs |-> 0]
  /\ ipc = "none" /\ ipos = 1 /\ stalled = FALSE /\ runnable = FALSE
  /\ PsiInit
  /\ uptime = 0

PauseStep(c, p) ==
  SysPause(c, p) \/ PauseLock(c, p) \/ PauseTest(c, p) \/ PauseSleep(c, p)

\* The steps of Proc that the processes of this module take; CPU 0 is
\* preempted by ClockReturn.
OtherStep(c, p) ==
  /\ \/ RunProc(c, p) \/ (c # Cpu0 /\ Preempt(c, p))
     \/ "fault" \in calls /\ PageFault(c, p)
     \/ "sbrk" \in calls /\ SysSbrk(c, p)
     \/ "kill" \in calls /\ SysKill(c, p)
     \/ "exit" \in calls /\ SysExit(c, p)
     \/ TrapKilled(c, p) \/ ExitStep(c, p)
     \/ KallocStep(c, p) /\ UNCHANGED parent
  /\ UNCHANGED clockVars

ClockStep ==
  \/ ClockTick \/ ClockWakeup \/ ClockRelease
  \/ PsiScan \/ PsiSample \/ ClockReturn

ClockNext ==
  \/ \E c \in Cpus, p \in Procs : PauseStep(c, p) \/ OtherStep(c, p)
  \/ ClockStep

ClockSpec == ClockInit /\ [][ClockNext]_allVars

-----------------------------------------------------------------------------
ClockTypeOK ==
  /\ calls \in Mixes
  /\ SchedTypeOK(Channels \cup {TICKS})
  /\ free \in 0 .. NPAGES
  /\ ticks \in 0 .. TICKMOD - 1
  /\ last_stall_start \in [Procs -> 0 .. TICKMOD - 1]
  /\ mem_stall_ticks \in [Procs -> 0 .. STALLMOD - 1]
  /\ pc \in [Procs -> Labels \cup {"pause_start", "pause", "pause_sleep", "pause_wake"}]
  /\ ticks0 \in [Procs -> 0 .. TICKMOD - 1]
  /\ n \in [Procs -> 0 .. MaxPause]
  /\ ipc \in {"none", "wakeup", "update_psi", "return"}
  /\ ipos \in 1 .. NPROC + 1
  /\ stalled \in BOOLEAN /\ runnable \in BOOLEAN
  /\ uptime \in 0 .. MaxTicks

(***************************************************************************)
(* No lost tick: when tickslock is free, a process that sleeps in pause()  *)
(* still has ticks to wait, also when ticks has wrapped around.            *)
(***************************************************************************)
PauseNotOverslept ==
  Free("ticks") => \A p \in Procs : Sleeping(p, TICKS) => Elapsed(p) < n[p]

(***************************************************************************)
(* A full sample is never taken on top of a process: update_psi() runs     *)
(* with the process CPU 0 was executing still RUNNING, so it reports full  *)
(* only when the interrupt found CPU 0 in its scheduler.  (Of the other    *)
(* CPUs it says nothing: a process can become RUNNABLE, or start to run,   *)
(* behind the scan.)                                                       *)
(***************************************************************************)
FullSampleIdle ==
  ipc = "update_psi" /\ ipos \notin Procs /\ full = 1 => cur[Cpu0] = None

(***************************************************************************)
(* A stall that began before this tick shows in the sample, although the   *)
(* scan of update_psi() is no snapshot: a process behind the scan that is  *)
(* asleep in kalloc() was counted as stalled, or as able to run if it was  *)
(* awake when the scan came by and has gone back to sleep since.           *)
(***************************************************************************)
StalledIsSeen ==
  ipc = "update_psi" =>
    \A p \in Procs :
      p < ipos /\ Sleeping(p, KMEM) /\ last_stall_start[p] # ticks => stalled \/ runnable

(***************************************************************************)
(* mem_stall_ticks is a time: until ticks wraps, no process was stalled    *)
(* for longer than the system has been up.  (A stall across the wrap adds  *)
(* a difference of a 32-bit and a 64-bit counter.)  Counters keep to their *)
(* widths (ClockTypeOK).                                                   *)
(***************************************************************************)
StallWithinUptime ==
  /\ ClockTypeOK
  /\ StartTick + uptime < TICKMOD => \A p \in Procs : mem_stall_ticks[p] <= uptime
=============================================================================
