----------------------------- MODULE ProcProofs -----------------------------
(***************************************************************************)
(* Proofs about the process table and its sleeping page allocator, for any *)
(* number of slots, CPUs and pages: KernelInv (module ProcInv) is          *)
(* inductive.  The sections follow its conjuncts: the types; who runs      *)
(* where; the slots that fork(), wait() and freeproc() work on; kmem.lock  *)
(* and its sleepers; then the theorems.                                    *)
(***************************************************************************)
EXTENDS ProcInv, TLAPS

Step(c, p) == RunProc(c, p) \/ Preempt(c, p) \/ SyscallStep(c, p) \/ KernelStep(c, p)

\* TypeOK in three parts, which different steps can disturb.
SchedTypes == SchedTypeOK(Channels)

MemTypes ==
  /\ free \in Nat /\ frames \in [Procs -> Int]
  /\ ticks \in Nat
  /\ last_stall_start \in [Procs -> Nat] /\ mem_stall_ticks \in [Procs -> Nat]
  /\ parent \in [Procs -> Procs \cup {None}]

ThreadTypes ==
  /\ pc \in [Procs -> Labels]
  /\ iter \in [Procs -> 1 .. NPROC + 1]
  /\ tgt \in [Procs -> Procs]
  /\ ra \in [Procs -> {"user", "fork", "fork_fail", "freeproc", "wait_reap"}]

\* The types of the process table are kept by every step.
LEMMA SchedTypesStep ==
  ASSUME KernelInv, NEW c \in Cpus, NEW p \in Procs, Step(c, p)
  PROVE  SchedTypes'
<1>h. SchedTypes /\ tgt \in [Procs -> Procs]
  BY Zenon DEF KernelInv, TypeOK, SchedTypes
<1> USE <1>h DEF SchedTypes, SchedTypeOK
<1>1. CASE RunProc(c, p) \/ Preempt(c, p)
  BY <1>1, SMTT(20) DEF RunProc, Preempt, Schedule, Yield, States
<1>2. CASE SysKill(c, p)
  BY <1>2 DEF SysKill, KillTargets, KillSlot, States
<1>3. CASE KallocSleep(c, p) \/ WaitSleep(c, p)
  <2>1. KMEM \in Channels /\ WAIT(p) \in Channels
    BY Zenon DEF Channels
  <2>2. PICK ch \in Channels, lk \in {"wait", "kmem"} : SleepOn(c, p, ch, lk)
    BY <1>3, <2>1, Zenon DEF KallocSleep, WaitSleep
  <2>3. state' \in [Procs -> States] /\ chan' \in [Procs -> Channels \cup {None}]
    BY <2>2, Zenon DEF SleepOn, States
  <2>4. UNCHANGED <<killed, inintr>>
    BY <1>3, Zenon DEF KallocSleep, WaitSleep, SleepOn
  <2>5. slock' \in [Locks -> Cpus \cup {None}]
    BY <2>2, Zenon DEF SleepOn
  <2>6. cur' \in [Cpus -> Procs \cup {None}] /\ plock' \in [Procs -> Cpus \cup {None}]
    BY <2>2 DEF SleepOn
  <2>7. panic' \in [Cpus -> Panics]
    BY <2>2, Zenon DEF SleepOn, Panics
  <2> QED BY <2>3, <2>4, <2>5, <2>6, <2>7, Zenon
<1>4. CASE KfreeWakeup(c, p) \/ ExitWakeup(c, p)
  <2>1. PICK ch : iter[p] \in Procs /\ WakeupSlot(c, iter[p], ch)
    BY <1>4, Zenon DEF KfreeWakeup, ExitWakeup
  <2>2. state' \in [Procs -> States] /\ panic' \in [Cpus -> Panics]
    BY <2>1, Zenon DEF WakeupSlot, States, Panics
  <2> QED BY <2>1, <2>2, Zenon DEF WakeupSlot
<1>5. CASE KallocFirst(c, p) \/ KallocWake(c, p) \/ KfreePush(c, p) \/ KfreeReturn(c, p)
  BY <1>5, Zenon DEF KallocFirst, KallocWake, KfreePush, KfreeReturn
<1>6. CASE AllocprocScan(c, p) \/ ForkRun(c, p)
  BY <1>6, Zenon DEF AllocprocScan, ForkRun, States
<1>7. CASE ForkFail(c, p) \/ FreeprocReset(c, p)
  <2>1. tgt[p] \in Procs
    OBVIOUS
  <2>2. CASE ForkFail(c, p)
    BY <2>1, <2>2 DEF ForkFail
  <2>3. CASE FreeprocReset(c, p)
    BY <2>1, <2>3, Zenon DEF FreeprocReset, States
  <2> QED BY <1>7, <2>2, <2>3, Zenon
<1>8. CASE ExitReparent(c, p) \/ ExitZombie(c, p)
  <2>1. CASE ExitReparent(c, p)
    BY <2>1, Zenon DEF ExitReparent, Panics
  <2>2. CASE ExitZombie(c, p)
    BY <2>2, Zenon DEF ExitZombie, States
  <2> QED BY <1>8, <2>1, <2>2, Zenon
<1>9. CASE WaitLock(c, p) \/ WaitScan(c, p) \/ WaitNone(c, p)
  BY <1>9, Zenon DEF WaitLock, WaitScan, WaitNone
<1>10. CASE UNCHANGED schedVars
  BY <1>10, Zenon DEF schedVars
<1>11. \/ SysKill(c, p) \/ KallocSleep(c, p) \/ WaitSleep(c, p) \/ KfreeWakeup(c, p)
       \/ ExitWakeup(c, p) \/ KallocFirst(c, p) \/ KallocWake(c, p) \/ KfreePush(c, p)
       \/ KfreeReturn(c, p) \/ AllocprocScan(c, p) \/ ForkRun(c, p) \/ ForkFail(c, p)
       \/ FreeprocReset(c, p) \/ ExitReparent(c, p) \/ ExitZombie(c, p) \/ WaitLock(c, p)
       \/ WaitScan(c, p) \/ WaitNone(c, p) \/ RunProc(c, p) \/ Preempt(c, p)
       \/ UNCHANGED schedVars
  BY Zenon DEF Step, SyscallStep, KernelStep, KallocStep, ForkStep, ExitStep, WaitStep,
         PageFault, SysExit, SysSbrk, SysFork, SysWait, TrapKilled, ForkAlloc,
         ForkParent, FreeprocPage, ExitNextWakeup, WaitReap
<1> QED
  BY <1>1, <1>2, <1>3, <1>4, <1>5, <1>6, <1>7, <1>8, <1>9, <1>10, <1>11, Zenon

\* The counters and parents keep their types; kalloc() never takes a page from
\* an empty list.
LEMMA MemTypesStep ==
  ASSUME KernelInv, NEW c \in Cpus, NEW p \in Procs, Step(c, p)
  PROVE  MemTypes'
<1> USE DEF KernelInv, TypeOK, MemTypes
<1>1. CASE KallocFirst(c, p) /\ UNCHANGED parent
  BY <1>1 DEF KallocFirst, TakePage
<1>2. CASE KallocWake(c, p) /\ UNCHANGED parent
  <2>1. (mem_stall_ticks[p] + ticks - last_stall_start[p]) % STALLMOD \in Nat
    BY KallocAssumption DEF KallocAssumption
  <2>2. CASE TakePage(p)
    BY <1>2, <2>1, <2>2 DEF KallocWake, TakePage
  <2>3. CASE ~TakePage(p)
    BY <1>2, <2>3, Zenon DEF KallocWake
  <2> QED BY <2>2, <2>3, Zenon
<1>3. CASE KfreePush(c, p) /\ UNCHANGED parent
  BY <1>3 DEF KfreePush, stallVars
<1>4. CASE ForkParent(c, p) \/ FreeprocReset(c, p) \/ ExitReparent(c, p)
  <2>1. initproc \in Procs
    BY SchedAssumption DEF SchedAssumption, Procs, initproc
  <2>2. parent' \in [Procs -> Procs \cup {None}]
    <3>1. CASE ForkParent(c, p)
      BY <3>1, Zenon DEF ForkParent
    <3>2. CASE FreeprocReset(c, p)
      BY <3>2, Zenon DEF FreeprocReset
    <3>3. CASE ExitReparent(c, p)
      <4>1. CASE p = initproc
        BY <3>3, <4>1, Zenon DEF ExitReparent
      <4>2. CASE p # initproc
        <5>1. parent' = [q \in Procs |-> IF parent[q] = p THEN initproc ELSE parent[q]]
          BY <3>3, <4>2, Zenon DEF ExitReparent
        <5> QED BY <2>1, <5>1, Zenon
      <4> QED BY <4>1, <4>2, Zenon
    <3> QED BY <1>4, <3>1, <3>2, <3>3, Zenon
  <2> QED BY <1>4, <2>2, Zenon DEF ForkParent, FreeprocReset, ExitReparent, memVars, stallVars
<1>5. CASE UNCHANGED <<memVars, parent>>
  BY <1>5, Zenon DEF memVars, stallVars
<1>6. \/ (KallocFirst(c, p) \/ KallocWake(c, p) \/ KfreePush(c, p)) /\ UNCHANGED parent
      \/ ForkParent(c, p) \/ FreeprocReset(c, p) \/ ExitReparent(c, p)
      \/ UNCHANGED <<memVars, parent>>
  <2>1. CASE RunProc(c, p) \/ Preempt(c, p) \/ SyscallStep(c, p) \/ TrapKilled(c, p)
    BY <2>1, Zenon DEF RunProc, Preempt, SyscallStep, SysKill, PageFault, SysExit, SysSbrk,
         SysFork, SysWait, TrapKilled
  <2>2. CASE KallocStep(c, p) /\ UNCHANGED parent
    BY <2>2, Zenon DEF KallocStep, KallocSleep, KfreeWakeup, KfreeReturn
  <2>3. CASE ForkStep(c, p)
    BY <2>3, Zenon DEF ForkStep, AllocprocScan, ForkAlloc, ForkRun, ForkFail, FreeprocPage
  <2>4. CASE ExitStep(c, p) \/ WaitStep(c, p)
    BY <2>4, Zenon DEF ExitStep, WaitStep, ExitWakeup, ExitNextWakeup, ExitZombie, WaitLock,
         WaitScan, WaitReap, WaitNone, WaitSleep
  <2> QED BY <2>1, <2>2, <2>3, <2>4, Zenon DEF Step, KernelStep
<1> QED BY <1>1, <1>2, <1>3, <1>4, <1>5, <1>6, Zenon

\* A scan that skips myproc() stays inside the table or ends one past it.
LEMMA AfterRange ==
  ASSUME NEW p \in Procs, NEW i \in 0 .. NPROC
  PROVE  After(p, i) \in 1 .. NPROC + 1
BY SchedAssumption DEF SchedAssumption, After, Procs

\* The locals of a thread keep their types: the scans stay in the table.
LEMMA ThreadTypesStep ==
  ASSUME KernelInv, NEW c \in Cpus, NEW p \in Procs, Step(c, p)
  PROVE  ThreadTypes'
<1>h. ThreadTypes
  BY Zenon DEF KernelInv, TypeOK, ThreadTypes
<1> USE <1>h DEF ThreadTypes
<1>0. {"user", "kalloc", "kalloc_sleep", "kalloc_wake", "kfree", "kfree_wakeup", "allocproc",
       "fork", "fork_run", "freeproc", "exit", "exit_wake_init", "exit_wake_parent", "zombie",
       "wait", "wait_scan", "wait_sleep"} \subseteq Labels
  BY Zenon DEF Labels
<1>1. \A i \in 0 .. NPROC : After(p, i) \in 1 .. NPROC + 1
  BY AfterRange, Zenon
<1>2. 1 \in 1 .. NPROC + 1 /\ 0 \in 0 .. NPROC /\ \A i \in Procs : i + 1 \in 1 .. NPROC + 1 /\ i \in 0 .. NPROC
  BY SchedAssumption DEF SchedAssumption, Procs
<1>3. CASE RunProc(c, p) \/ Preempt(c, p) \/ SysKill(c, p)
  BY <1>3, Zenon DEF RunProc, Preempt, SysKill, threadVars
<1>4. CASE PageFault(c, p) \/ SysExit(c, p) \/ SysSbrk(c, p) \/ SysFork(c, p) \/ SysWait(c, p) \/ TrapKilled(c, p)
  <2>1. CASE SysFork(c, p)
    BY <1>0, <1>2, <2>1, Zenon DEF SysFork, Goto
  <2>2. CASE ~SysFork(c, p)
    BY <1>0, <1>4, <2>2 DEF PageFault, SysExit, SysSbrk, SysWait, TrapKilled, Goto
  <2> QED BY <2>1, <2>2, Zenon
<1>5. CASE KallocStep(c, p)
  <2>1. ra[p] \in Labels /\ FailTo(ra[p]) \in Labels
    BY Zenon DEF Labels, FailTo
  <2>2. CASE KallocFirst(c, p) \/ KallocSleep(c, p)
    BY <1>0, <1>2, <2>1, <2>2 DEF KallocFirst, KallocSleep, TakePage, Goto
  <2>4. CASE KallocWake(c, p) \/ KfreeReturn(c, p)
    BY <1>0, <1>2, <2>1, <2>4 DEF KallocWake, KfreeReturn, TakePage, Goto
  <2>3. CASE KfreePush(c, p) \/ KfreeWakeup(c, p)
    BY <1>0, <1>1, <1>2, <2>3 DEF KfreePush, KfreeWakeup, Goto
  <2> QED BY <1>5, <2>2, <2>3, <2>4, Zenon DEF KallocStep
<1>6. CASE AllocprocScan(c, p)
  <2>1. CASE iter[p] \in Procs /\ state[iter[p]] = "UNUSED"
    <3>1. PICK i \in Procs : i = iter[p]
      BY <2>1, Zenon
    <3>2. /\ pc' = [pc EXCEPT ![p] = "fork", ![i] = "user"] /\ tgt' = [tgt EXCEPT ![p] = i]
          /\ iter' = [iter EXCEPT ![p] = 1] /\ ra' = ra
      BY <1>6, <2>1, <3>1, Zenon DEF AllocprocScan
    <3>3. pc' \in [Procs -> Labels] /\ tgt' \in [Procs -> Procs]
      BY <1>0, <3>2, Zenon
    <3>4. iter' \in [Procs -> 1 .. NPROC + 1]
      BY <1>2, <3>2, Zenon
    <3> QED BY <3>2, <3>3, <3>4, Zenon
  <2>2. CASE iter[p] \in Procs /\ state[iter[p]] # "UNUSED"
    BY <1>2, <1>6, <2>2 DEF AllocprocScan
  <2>3. CASE iter[p] \notin Procs
    <3>1. Return(p)
      BY <1>6, <2>3, Zenon DEF AllocprocScan
    <3> QED BY <1>0, <1>2, <3>1, Zenon DEF Return, Goto
  <2> QED BY <2>1, <2>2, <2>3, Zenon
<1>7. CASE ForkAlloc(c, p) \/ ForkParent(c, p) \/ ForkFail(c, p) \/ FreeprocPage(c, p)
  <2>1. CASE ForkAlloc(c, p) \/ FreeprocPage(c, p)
    BY <1>0, <2>1 DEF ForkAlloc, FreeprocPage, Goto
  <2>2. CASE ForkParent(c, p)
    BY <1>0, <2>2, Zenon DEF ForkParent, Goto
  <2>3. CASE ForkFail(c, p)
    BY <1>0, <2>3 DEF ForkFail, Goto
  <2> QED BY <1>7, <2>1, <2>2, <2>3, Zenon
<1>8. CASE ForkRun(c, p) \/ FreeprocReset(c, p)
  <2>1. Return(p)
    BY <1>8, Zenon DEF ForkRun, FreeprocReset
  <2> QED BY <1>0, <1>2, <2>1, Zenon DEF Return, Goto
<1>9. CASE ExitReparent(c, p) \/ ExitNextWakeup(c, p) \/ ExitWakeup(c, p) \/ ExitZombie(c, p)
  <2>1. CASE ExitReparent(c, p)
    <3>1. CASE p = initproc
      BY <2>1, <3>1, Zenon DEF ExitReparent
    <3>2. CASE p # initproc
      BY <1>0, <1>1, <1>2, <2>1, <3>2 DEF ExitReparent, Goto
    <3> QED BY <3>1, <3>2, Zenon
  <2>2. CASE ExitNextWakeup(c, p)
    BY <1>0, <1>1, <1>2, <2>2, Zenon DEF ExitNextWakeup, Goto
  <2>3. CASE ExitWakeup(c, p)
    BY <1>1, <1>2, <2>3, Zenon DEF ExitWakeup
  <2>4. CASE ExitZombie(c, p)
    BY <1>0, <1>2, <2>4, Zenon DEF ExitZombie, Goto
  <2> QED BY <1>9, <2>1, <2>2, <2>3, <2>4, Zenon
<1>10. CASE WaitLock(c, p) \/ WaitNone(c, p) \/ WaitSleep(c, p)
  <2>1. CASE WaitLock(c, p)
    BY <1>0, <2>1 DEF WaitLock, ScanFrom, Goto
  <2>2. CASE WaitNone(c, p) \/ WaitSleep(c, p)
    BY <1>0, <1>2, <2>2 DEF WaitNone, WaitSleep, Goto
  <2> QED BY <1>10, <2>1, <2>2, Zenon
<1>11. CASE WaitScan(c, p)
  <2>1. \A j \in iter[p] + 1 .. NPROC + 1 : j \in 1 .. NPROC + 1
    BY SchedAssumption DEF SchedAssumption
  <2>2. CASE state[iter[p]] = "ZOMBIE"
    BY <1>0, <1>2, <1>11, <2>2 DEF WaitScan, Return, Goto
  <2>3. CASE state[iter[p]] # "ZOMBIE"
    BY <1>11, <2>1, <2>3, Zenon DEF WaitScan, ScanFrom
  <2> QED BY <2>2, <2>3, Zenon
<1>12. CASE WaitReap(c, p)
  <2>1. iter[p] \in Procs
    BY <1>12, Zenon DEF WaitReap, KernelInv, Targets, CopyTargets, Copying
  <2> QED BY <1>0, <1>2, <1>12, <2>1, Zenon DEF WaitReap, Goto
<1> QED
  BY <1>3, <1>4, <1>5, <1>6, <1>7, <1>8, <1>9, <1>10, <1>11, <1>12, Zenon
     DEF Step, SyscallStep, KernelStep, ForkStep, ExitStep, WaitStep

\* Every step keeps TypeOK.
LEMMA TypeStep ==
  ASSUME KernelInv, NEW c \in Cpus, NEW p \in Procs, Step(c, p)
  PROVE  TypeOK'
BY SchedTypesStep, MemTypesStep, ThreadTypesStep, Zenon
   DEF TypeOK, SchedTypes, MemTypes, ThreadTypes

-----------------------------------------------------------------------------
(***************************************************************************)
(* Who runs where: a step keeps a process on one CPU and RUNNING there,    *)
(* leaves the other threads where they are, and keeps dead slots out of    *)
(* the kernel.                                                             *)
(***************************************************************************)

\* Every step keeps a process on a CPU RUNNING: wakeup() and kill() only turn
\* SLEEPING processes whose lock is free into RUNNABLE ones, and fork(),
\* freeproc() and wait() only change slots that are not on a CPU.
LEMMA OnCpuStep ==
  ASSUME SchedTypes, ThreadTypes, OnCpu, Targets, NEW c \in Cpus, NEW p \in Procs, Step(c, p)
  PROVE  OnCpu'
<1>t. /\ state \in [Procs -> States] /\ plock \in [Procs -> Cpus \cup {None}]
      /\ cur \in [Cpus -> Procs \cup {None}] /\ panic \in [Cpus -> Panics]
      /\ tgt[p] \in Procs /\ None \notin Procs /\ None \notin Cpus
  BY SchedAssumption, Zenon DEF SchedAssumption, SchedTypes, SchedTypeOK, ThreadTypes
<1>r. Running(c, p) => state[p] = "RUNNING" /\ panic[c] = "no"
  BY <1>t, Zenon DEF OnCpu, Running, Executing
<1>1. CASE UNCHANGED <<state, plock, cur, panic>>
  BY <1>1 DEF OnCpu
<1>2. CASE RunProc(c, p)
  BY <1>2, <1>t DEF RunProc, Schedule, OnCpu
<1>3. CASE Preempt(c, p)
  BY <1>3, <1>t, <1>r DEF Preempt, Yield, Running, OnCpu
<1>4. CASE SysKill(c, p)
  <2>1. PICK q \in Procs : KillSlot(q)
    BY <1>4, Zenon DEF SysKill, KillTargets
  <2> QED BY <2>1, <1>t DEF KillSlot, PFree, OnCpu
<1>5. CASE KfreeWakeup(c, p) \/ ExitWakeup(c, p)
  <2>1. PICK ch : Running(c, p) /\ iter[p] \in Procs /\ WakeupSlot(c, iter[p], ch)
    BY <1>5, Zenon DEF KfreeWakeup, ExitWakeup
  <2>2. CASE plock[iter[p]] = c
    BY <2>1, <2>2, <1>t, <1>r DEF WakeupSlot, Running, OnCpu
  <2>3. CASE plock[iter[p]] = None
    BY <2>1, <2>3, <1>t DEF WakeupSlot, Sleeping, OnCpu
  <2> QED BY <2>1, <2>2, <2>3, Zenon DEF WakeupSlot
<1>6. CASE KallocSleep(c, p) \/ WaitSleep(c, p)
  <2>1. PICK ch, lk : Running(c, p) /\ SleepOn(c, p, ch, lk)
    BY <1>6, Zenon DEF KallocSleep, WaitSleep
  <2>2. CASE OnlyLock(c, lk)
    BY <2>1, <2>2, <1>t DEF SleepOn, Running, OnCpu
  <2>3. CASE ~OnlyLock(c, lk)
    BY <2>1, <2>3, <1>t DEF SleepOn, Running, PFree, OnCpu
  <2> QED BY <2>2, <2>3, Zenon
<1>7. CASE AllocprocScan(c, p)
  BY <1>7, <1>t DEF AllocprocScan, OnCpu
<1>8. CASE ForkRun(c, p)
  <2>1. state[tgt[p]] = "USED"
    BY <1>8, Zenon DEF ForkRun, Targets, BuildTargets, Building
  <2> QED BY <1>8, <2>1, <1>t DEF ForkRun, OnCpu
<1>9. CASE FreeprocReset(c, p)
  <2>1. state[tgt[p]] \in {"USED", "ZOMBIE"}
    BY <1>9, Zenon DEF FreeprocReset, Targets, FreeTargets, Freeing
  <2> QED BY <1>9, <2>1, <1>t DEF FreeprocReset, OnCpu
<1>10. CASE ForkFail(c, p)
  BY <1>10, <1>t, SMTT(30), Z3T(30) DEF ForkFail, PFree, OnCpu
<1>11. CASE WaitScan(c, p)
  BY <1>11, <1>t, SMTT(30) DEF WaitScan, PFree, OnCpu
<1>12. CASE ExitReparent(c, p)
  BY <1>12, <1>t, <1>r DEF ExitReparent, Running, OnCpu
<1>13. CASE ExitZombie(c, p)
  BY <1>13, <1>t DEF ExitZombie, Running, OnCpu
<1>14. \/ UNCHANGED <<state, plock, cur, panic>>
       \/ RunProc(c, p) \/ Preempt(c, p) \/ SysKill(c, p) \/ KfreeWakeup(c, p)
       \/ ExitWakeup(c, p) \/ KallocSleep(c, p) \/ WaitSleep(c, p) \/ AllocprocScan(c, p)
       \/ ForkRun(c, p) \/ FreeprocReset(c, p) \/ ForkFail(c, p) \/ WaitScan(c, p)
       \/ ExitReparent(c, p) \/ ExitZombie(c, p)
  BY Zenon DEF Step, SyscallStep, KernelStep, KallocStep, ForkStep, ExitStep, WaitStep,
         PageFault, SysExit, SysSbrk, SysFork, SysWait, TrapKilled, KallocFirst,
         KallocWake, KfreePush, KfreeReturn, ForkAlloc, ForkParent, FreeprocPage,
         ExitNextWakeup, WaitLock, WaitReap, WaitNone, schedVars
<1> QED
  BY <1>1, <1>2, <1>3, <1>4, <1>5, <1>6, <1>7, <1>8, <1>9, <1>10, <1>11, <1>12, <1>13, <1>14, Zenon

\* A thread moves by its own steps only, but for a new process, whose thread
\* allocproc() sets up.
LEMMA OthersStay ==
  ASSUME ThreadTypes, NEW c \in Cpus, NEW p \in Procs, Step(c, p), NEW q \in Procs, q # p
  PROVE  /\ iter'[q] = iter[q] /\ tgt'[q] = tgt[q] /\ ra'[q] = ra[q]
         /\ pc'[q] = pc[q] \/ (state[q] = "UNUSED" /\ pc'[q] = "user")
<1>t. /\ pc \in [Procs -> Labels] /\ tgt \in [Procs -> Procs] /\ iter \in [Procs -> 1 .. NPROC + 1]
      /\ ra \in [Procs -> {"user", "fork", "fork_fail", "freeproc", "wait_reap"}]
  BY Zenon DEF ThreadTypes
<1>1. CASE RunProc(c, p) \/ Preempt(c, p) \/ SysKill(c, p)
  BY <1>1, Zenon DEF RunProc, Preempt, SysKill, threadVars
<1>2. CASE PageFault(c, p) \/ SysExit(c, p) \/ SysSbrk(c, p) \/ SysWait(c, p) \/ TrapKilled(c, p)
  BY <1>2, <1>t, Zenon DEF PageFault, SysExit, SysSbrk, SysWait, TrapKilled, Goto
<1>3. CASE SysFork(c, p) \/ WaitReap(c, p) \/ WaitSleep(c, p) \/ WaitNone(c, p)
  BY <1>3, <1>t DEF SysFork, WaitReap, WaitSleep, WaitNone, Goto
<1>4. CASE KallocFirst(c, p) \/ KallocSleep(c, p) \/ KallocWake(c, p)
  BY <1>4, <1>t, Zenon DEF KallocFirst, KallocSleep, KallocWake, TakePage, Goto
<1>5. CASE KfreePush(c, p) \/ KfreeWakeup(c, p) \/ KfreeReturn(c, p)
  BY <1>5, <1>t, Zenon DEF KfreePush, KfreeWakeup, KfreeReturn, Goto
<1>6. CASE AllocprocScan(c, p)
  BY <1>6, <1>t DEF AllocprocScan, Return, Goto
<1>7. CASE ForkAlloc(c, p) \/ ForkParent(c, p) \/ ForkFail(c, p) \/ FreeprocPage(c, p)
  BY <1>7, <1>t, Zenon DEF ForkAlloc, ForkParent, ForkFail, FreeprocPage, Goto
<1>8. CASE ForkRun(c, p) \/ FreeprocReset(c, p)
  BY <1>8, <1>t, Zenon DEF ForkRun, FreeprocReset, Return, Goto
<1>9. CASE ExitReparent(c, p) \/ ExitWakeup(c, p) \/ ExitNextWakeup(c, p) \/ ExitZombie(c, p)
  BY <1>9, <1>t, Zenon DEF ExitReparent, ExitWakeup, ExitNextWakeup, ExitZombie, Goto
<1>10. CASE WaitLock(c, p)
  BY <1>10, <1>t, Zenon DEF WaitLock, ScanFrom, Goto
<1>11. CASE WaitScan(c, p)
  BY <1>11, <1>t DEF WaitScan, ScanFrom, Return, Goto
<1> QED
  BY <1>1, <1>2, <1>3, <1>4, <1>5, <1>6, <1>7, <1>8, <1>9, <1>10, <1>11, Zenon
     DEF Step, SyscallStep, KernelStep, KallocStep, ForkStep, ExitStep, WaitStep

\* Every step keeps the threads of dead slots out of the kernel: only a RUNNING
\* thread moves, and a slot dies in exit() or is born in allocproc().
LEMMA DeadOutsideStep ==
  ASSUME SchedTypes, ThreadTypes, OnCpu, DeadOutside, Targets,
         NEW c \in Cpus, NEW p \in Procs, Step(c, p)
  PROVE  DeadOutside'
<1>t. /\ state \in [Procs -> States] /\ pc \in [Procs -> Labels] /\ tgt[p] \in Procs
      /\ None \notin Procs
  BY SchedAssumption, Zenon DEF SchedAssumption, SchedTypes, SchedTypeOK, ThreadTypes
<1>r. Running(c, p) => state[p] = "RUNNING"
  BY <1>t, Zenon DEF OnCpu, Running, Executing
<1>o. \A q \in Procs : q # p => pc'[q] = pc[q] \/ pc'[q] = "user"
  BY OthersStay, Zenon
<1>1. CASE Running(c, p) /\ state' = state
  BY <1>1, <1>r, <1>o, Zenon DEF DeadOutside
<1>2. CASE RunProc(c, p) \/ Preempt(c, p)
  BY <1>2, <1>t, Zenon DEF RunProc, Preempt, Schedule, Yield, threadVars, DeadOutside
<1>3. CASE SysKill(c, p)
  <2>1. PICK q \in Procs : KillSlot(q)
    BY <1>3, Zenon DEF SysKill, KillTargets
  <2> QED BY <1>3, <2>1, <1>t, Zenon DEF SysKill, KillSlot, threadVars, DeadOutside
<1>4. CASE KfreeWakeup(c, p) \/ ExitWakeup(c, p)
  <2>1. PICK ch : WakeupSlot(c, iter[p], ch) /\ pc' = pc
    BY <1>4, Zenon DEF KfreeWakeup, ExitWakeup
  <2> QED BY <2>1, <1>t, Zenon DEF WakeupSlot, DeadOutside
<1>5. CASE KallocSleep(c, p) \/ WaitSleep(c, p)
  <2>1. state' = [state EXCEPT ![p] = "SLEEPING"]
    BY <1>5, Zenon DEF KallocSleep, WaitSleep, SleepOn
  <2> QED BY <2>1, <1>o, <1>t, Zenon DEF DeadOutside
<1>6. CASE AllocprocScan(c, p)
  <2>1. Running(c, p)
    BY <1>6, Zenon DEF AllocprocScan
  <2>2. CASE state' # state
    <3>1. iter[p] \in Procs /\ state[iter[p]] = "UNUSED" /\ state' = [state EXCEPT ![iter[p]] = "USED"]
      BY <1>6, <2>2, Zenon DEF AllocprocScan
    <3> QED BY <2>1, <3>1, <1>r, <1>o, <1>t, Zenon DEF DeadOutside
  <2> QED BY <2>1, <2>2, <1>1, Zenon
<1>7. CASE ForkRun(c, p)
  <2>1. Running(c, p) /\ state' = [state EXCEPT ![tgt[p]] = "RUNNABLE"] /\ pc'[p] = "user"
    BY <1>7, <1>t, Zenon DEF ForkRun, Return, Goto
  <2> QED BY <2>1, <1>o, <1>t, Zenon DEF DeadOutside
<1>8. CASE FreeprocReset(c, p)
  <2>1. state[tgt[p]] \in {"USED", "ZOMBIE"}
    BY <1>8, Zenon DEF FreeprocReset, Targets, FreeTargets, Freeing
  <2>2. state' = [state EXCEPT ![tgt[p]] = "UNUSED"] /\ pc'[p] = "user"
    BY <1>8, <1>t, Zenon DEF FreeprocReset, Return, Goto
  <2> QED BY <2>1, <2>2, <1>o, <1>t, Zenon DEF DeadOutside
<1>9. CASE ExitZombie(c, p)
  <2>1. state' = [state EXCEPT ![p] = "ZOMBIE"] /\ pc'[p] = "zombie"
    BY <1>9, <1>t, Zenon DEF ExitZombie, Goto
  <2> QED BY <2>1, <1>o, <1>t, Zenon DEF DeadOutside
<1>10. \/ RunProc(c, p) \/ Preempt(c, p) \/ SysKill(c, p) \/ KfreeWakeup(c, p)
       \/ ExitWakeup(c, p) \/ KallocSleep(c, p) \/ WaitSleep(c, p) \/ AllocprocScan(c, p)
       \/ ForkRun(c, p) \/ FreeprocReset(c, p) \/ ExitZombie(c, p)
       \/ (Running(c, p) /\ state' = state)
  <2>1. CASE SyscallStep(c, p) \/ TrapKilled(c, p)
    BY <2>1, Zenon DEF SyscallStep, Syscall, PageFault, SysExit, SysSbrk, SysFork, SysWait,
         TrapKilled, schedVars
  <2>2. CASE KallocStep(c, p)
    BY <2>2, Zenon DEF KallocStep, KallocFirst, KallocWake, KfreePush, KfreeReturn
  <2>3. CASE ForkStep(c, p)
    BY <2>3, Zenon DEF ForkStep, ForkAlloc, ForkParent, ForkFail, FreeprocPage, schedVars
  <2>4. CASE ExitStep(c, p)
    BY <2>4, Zenon DEF ExitStep, ExitReparent, ExitNextWakeup, schedVars
  <2>5. CASE WaitStep(c, p)
    BY <2>5, Zenon DEF WaitStep, WaitLock, WaitScan, WaitReap, WaitNone, schedVars
  <2> QED BY <2>1, <2>2, <2>3, <2>4, <2>5, Zenon DEF Step, KernelStep
<1> QED
  BY <1>1, <1>2, <1>3, <1>4, <1>5, <1>6, <1>7, <1>8, <1>9, <1>10, Zenon

\* Every step leaves the locals of the threads consistent: a system call ends
\* with a thread that works on its own slot again.
LEMMA LocalsStep ==
  ASSUME ThreadTypes, DeadOutside, Locals, NEW c \in Cpus, NEW p \in Procs, Step(c, p)
  PROVE  Locals'
<1> DEFINE Good(q) == Building(q) \/ Freeing(q) \/ Copying(q) \/ OwnSlot(q)
<1>t. /\ pc \in [Procs -> Labels] /\ tgt \in [Procs -> Procs]
      /\ ra \in [Procs -> {"user", "fork", "fork_fail", "freeproc", "wait_reap"}]
      /\ Good(p)
  BY Zenon DEF ThreadTypes, Locals
<1>q. ASSUME NEW q \in Procs, q # p PROVE Good(q)'
  <2>1. /\ tgt'[q] = tgt[q] /\ ra'[q] = ra[q]
        /\ pc'[q] = pc[q] \/ (state[q] = "UNUSED" /\ pc'[q] = "user")
    BY <1>q, OthersStay, Zenon
  <2>2. Good(q)
    BY Zenon DEF Locals
  <2>3. CASE pc'[q] = pc[q]
    BY <2>1, <2>2, <2>3, Zenon DEF OwnSlot, Building, Freeing, Copying, InKalloc, InKfree
  <2>4. CASE state[q] = "UNUSED"
    BY <2>1, <2>2, <2>4, Zenon
       DEF DeadOutside, OwnSlot, Building, Freeing, Copying, InKalloc, InKfree
  <2> QED BY <2>1, <2>3, <2>4, Zenon
<1>p. Good(p)'
  <2> USE DEF OwnSlot, Building, Freeing, Copying, InKalloc, InKfree
  <2>1. CASE RunProc(c, p) \/ Preempt(c, p) \/ SysKill(c, p) \/ KfreeWakeup(c, p) \/ ExitWakeup(c, p)
    BY <2>1, <1>t, SMTT(20) DEF RunProc, Preempt, SysKill, KfreeWakeup, ExitWakeup, threadVars
  <2>2. CASE PageFault(c, p) \/ SysExit(c, p) \/ SysSbrk(c, p)
    BY <2>2, <1>t, Zenon DEF Syscall, PageFault, SysExit, SysSbrk, Goto
  <2>3. CASE SysFork(c, p) \/ SysWait(c, p) \/ TrapKilled(c, p)
    BY <2>3, <1>t, Zenon DEF Syscall, SysFork, SysWait, TrapKilled, Goto
  <2>4. CASE KallocFirst(c, p) \/ KallocSleep(c, p)
    BY <2>4, <1>t, Zenon DEF KallocFirst, KallocSleep, TakePage, Goto
  <2>5. CASE KallocWake(c, p)
    BY <2>5, <1>t, Zenon DEF KallocWake, TakePage, FailTo, Goto
  <2>6. CASE KfreePush(c, p) \/ KfreeReturn(c, p)
    BY <2>6, <1>t, Zenon DEF KfreePush, KfreeReturn, Goto
  <2>7. CASE AllocprocScan(c, p)
    BY <2>7, <1>t DEF AllocprocScan, Return, Goto
  <2>8. CASE ForkAlloc(c, p) \/ ForkParent(c, p)
    BY <2>8, <1>t, Zenon DEF ForkAlloc, ForkParent, Goto
  <2>9. CASE ForkFail(c, p) \/ FreeprocPage(c, p)
    BY <2>9, <1>t, Zenon DEF ForkFail, FreeprocPage, Goto
  <2>10. CASE ForkRun(c, p) \/ FreeprocReset(c, p)
    BY <2>10, <1>t, Zenon DEF ForkRun, FreeprocReset, Return, Goto
  <2>11. CASE ExitReparent(c, p) \/ ExitNextWakeup(c, p) \/ ExitZombie(c, p)
    BY <2>11, <1>t, Zenon DEF ExitReparent, ExitNextWakeup, ExitZombie, Goto
  <2>12. CASE WaitLock(c, p) \/ WaitNone(c, p) \/ WaitSleep(c, p) \/ WaitReap(c, p)
    BY <2>12, <1>t, Zenon DEF WaitLock, WaitNone, WaitSleep, WaitReap, Goto
  <2>13. CASE WaitScan(c, p)
    BY <2>13, <1>t, Zenon DEF WaitScan, Return, Goto
  <2> HIDE DEF OwnSlot, Building, Freeing, Copying, InKalloc, InKfree, Good
  <2> QED
    BY <2>1, <2>2, <2>3, <2>4, <2>5, <2>6, <2>7, <2>8, <2>9, <2>10, <2>11, <2>12, <2>13, Zenon
       DEF Step, SyscallStep, KernelStep, KallocStep, ForkStep, ExitStep, WaitStep
<1> QED BY <1>q, <1>p, Zenon DEF Locals

-----------------------------------------------------------------------------
(***************************************************************************)
(* What a step keeps of the slots that fork(), wait() and freeproc() work  *)
(* on, for the threads that do not move and for the moves that take no     *)
(* slot.                                                                   *)
(***************************************************************************)

\* The thread q works on the slots it worked on before, or on fewer.
Kept(q) ==
  /\ Building(q)' => Building(q) /\ tgt'[q] = tgt[q]
  /\ Freeing(q)' => Freeing(q) /\ tgt'[q] = tgt[q]
  /\ Copying(q)' => Copying(q) /\ tgt'[q] = tgt[q] /\ iter'[q] = iter[q]

\* The threads other than p keep their slots and their locals.
OthersKept(p) ==
  \A q \in Procs : q # p => Kept(q) /\ tgt'[q] = tgt[q] /\ iter'[q] = iter[q]

\* What most steps leave alone of the slots that threads work on.
SlotsKept ==
  /\ \A q \in Procs : state[q] \in {"USED", "ZOMBIE"} => state'[q] = state[q]
  /\ \A q \in Procs, d \in Cpus : plock[q] = d => plock'[q] = d
  /\ \A q \in Procs, d \in Cpus : (Freeing(q) \/ Copying(q)) /\ cur[d] = q => cur'[d] = q

\* The types of what the slots' invariant speaks about.
SlotTypes ==
  /\ state \in [Procs -> States] /\ plock \in [Procs -> Cpus \cup {None}]
  /\ cur \in [Cpus -> Procs \cup {None}]
  /\ pc \in [Procs -> Labels] /\ tgt \in [Procs -> Procs]
  /\ ra \in [Procs -> {"user", "fork", "fork_fail", "freeproc", "wait_reap"}]
  /\ iter \in [Procs -> 1 .. NPROC + 1]
  /\ None \notin Procs /\ None \notin Cpus

\* A step that takes no slot and moves none keeps the slots' invariant.
LEMMA FrameKeepsTargets ==
  ASSUME SlotTypes, BuildTargets, FreeTargets, CopyTargets, OwnTargets,
         NEW p \in Procs, Kept(p), OthersKept(p), SlotsKept
  PROVE  Targets'
<1>k. \A q \in Procs : Kept(q)
  BY Zenon DEF OthersKept
<1>t. tgt \in [Procs -> Procs]
  BY ZenonT(60) DEF SlotTypes
<1>1. ASSUME NEW q \in Procs, Building(q)' PROVE state'[tgt'[q]] = "USED"
  <2>1. Building(q) /\ tgt'[q] = tgt[q]
    BY <1>1, <1>k, Zenon DEF Kept
  <2>2. tgt[q] \in Procs /\ state[tgt[q]] = "USED"
    BY <2>1, <1>t, Zenon DEF BuildTargets
  <2> QED BY <2>1, <2>2, SMTT(60) DEF SlotsKept
<1>2. ASSUME NEW q \in Procs, Freeing(q)'
      PROVE  /\ state'[tgt'[q]] \in {"USED", "ZOMBIE"}
             /\ \E d \in Cpus : cur'[d] = q /\ plock'[tgt'[q]] = d
  <2>1. Freeing(q) /\ tgt'[q] = tgt[q]
    BY <1>2, <1>k, Zenon DEF Kept
  <2>2. /\ tgt[q] \in Procs /\ state[tgt[q]] \in {"USED", "ZOMBIE"}
        /\ \E d \in Cpus : cur[d] = q /\ plock[tgt[q]] = d
    BY <2>1, <1>t, Zenon DEF FreeTargets
  <2> QED BY <2>1, <2>2 DEF SlotsKept
<1>3. ASSUME NEW q \in Procs, Copying(q)'
      PROVE  /\ tgt'[q] = q /\ iter'[q] \in Procs /\ state'[iter'[q]] = "ZOMBIE"
             /\ \E d \in Cpus : cur'[d] = q /\ plock'[iter'[q]] = d
  BY <1>3, <1>k DEF CopyTargets, Kept, SlotsKept
<1>4. ASSUME NEW q \in Procs, NEW s \in Procs, Building(q)' \/ Freeing(q)',
             Building(s)' \/ Freeing(s)', tgt'[q] = tgt'[s]
      PROVE  q = s
  BY <1>4, <1>k, Zenon DEF OwnTargets, Kept
<1> QED
  <2>1. BuildTargets'
    BY <1>1, Zenon DEF BuildTargets
  <2>2. FreeTargets'
    BY <1>2, Zenon DEF FreeTargets
  <2>3. CopyTargets'
    BY <1>3, Zenon DEF CopyTargets
  <2>4. OwnTargets'
    BY <1>4, Zenon DEF OwnTargets
  <2> QED BY <2>1, <2>2, <2>3, <2>4, Zenon DEF Targets

\* The other threads keep their slots in every step.
LEMMA OthersKeep ==
  ASSUME ThreadTypes, NEW c \in Cpus, NEW p \in Procs, Step(c, p), NEW q \in Procs, q # p
  PROVE  Kept(q) /\ tgt'[q] = tgt[q] /\ iter'[q] = iter[q]
<1>1. /\ iter'[q] = iter[q] /\ tgt'[q] = tgt[q] /\ ra'[q] = ra[q]
      /\ pc'[q] = pc[q] \/ pc'[q] = "user"
  BY OthersStay, Zenon
<1> QED BY <1>1, Zenon DEF Kept, Building, Freeing, Copying, InKalloc, InKfree

\* A thread that moves without taking a slot keeps those it works on.
LEMMA MoverKeeps ==
  ASSUME ThreadTypes, Locals, NEW c \in Cpus, NEW p \in Procs, Step(c, p),
         ~AllocprocScan(c, p), ~ForkFail(c, p), ~WaitScan(c, p), ~WaitReap(c, p)
  PROVE  Kept(p)
<1>t. /\ pc \in [Procs -> Labels] /\ tgt \in [Procs -> Procs] /\ iter \in [Procs -> 1 .. NPROC + 1]
      /\ ra \in [Procs -> {"user", "fork", "fork_fail", "freeproc", "wait_reap"}]
      /\ Building(p) \/ Freeing(p) \/ Copying(p) \/ OwnSlot(p)
  BY Zenon DEF ThreadTypes, Locals
<1> DEFINE working == {"fork", "fork_run", "fork_fail", "freeproc", "wait_reap",
                       "kalloc", "kalloc_sleep", "kalloc_wake", "kfree", "kfree_wakeup"}
<1>n. ASSUME pc'[p] \notin working PROVE Kept(p)
  BY <1>n, Zenon DEF Kept, Building, Freeing, Copying, InKalloc, InKfree
<1>1. CASE RunProc(c, p) \/ Preempt(c, p) \/ SysKill(c, p)
  <2>1. pc' = pc /\ ra' = ra /\ tgt' = tgt /\ iter' = iter
    BY <1>1, Zenon DEF RunProc, Preempt, SysKill, threadVars
  <2> QED BY <2>1, Zenon DEF Kept, Building, Freeing, Copying, InKalloc, InKfree
<1>2. CASE PageFault(c, p) \/ SysSbrk(c, p)
  <2>1. pc[p] = "user" /\ ra' = ra
    BY <1>2, Zenon DEF Syscall, PageFault, SysSbrk
  <2>2. pc'[p] \in {"kalloc", "kfree"}
    BY <1>2, <1>t, Zenon DEF PageFault, SysSbrk, Goto
  <2>3. ra[p] = "user"
    BY <2>1, <1>t, Zenon DEF OwnSlot, Building, Freeing, Copying, InKalloc, InKfree
  <2> QED BY <2>1, <2>2, <2>3, Zenon DEF Kept, Building, Freeing, Copying, InKalloc, InKfree
<1>10. CASE SysExit(c, p) \/ SysWait(c, p) \/ TrapKilled(c, p) \/ SysFork(c, p)
  <2>1. pc'[p] \in {"exit", "wait", "allocproc"}
    BY <1>10, <1>t, Zenon DEF SysExit, SysWait, TrapKilled, SysFork, Goto
  <2> QED BY <2>1, <1>n, Zenon
<1>3. CASE KallocFirst(c, p) \/ KallocSleep(c, p) \/ KallocWake(c, p)
  <2>1. ra' = ra /\ tgt' = tgt /\ iter' = iter /\ InKalloc(p)
    BY <1>3, Zenon DEF KallocFirst, KallocSleep, KallocWake, InKalloc
  <2>2. pc'[p] \in {"kalloc_sleep", "kalloc_wake", ra[p], FailTo(ra[p])}
    BY <1>3, <1>t, Zenon DEF KallocFirst, KallocSleep, KallocWake, TakePage, Goto
  <2>3. FailTo(ra[p]) = (IF ra[p] = "fork" THEN "fork_fail" ELSE ra[p])
    BY Zenon DEF FailTo
  <2>4. ra[p] # "freeproc"
    BY <2>1, <1>t, Zenon DEF OwnSlot, Building, Freeing, Copying, InKalloc, InKfree
  <2>5. CASE ra[p] \in {"fork", "fork_fail"}
    <3>1. pc'[p] \in {"kalloc_sleep", "kalloc_wake", "fork", "fork_fail"}
      BY <2>2, <2>3, <2>5, Zenon
    <3> QED BY <2>1, <2>5, <3>1, Zenon DEF Kept, Building, Freeing, Copying, InKalloc, InKfree
  <2>6. CASE ra[p] \in {"user", "wait_reap"}
    <3>1. pc'[p] \in {"kalloc_sleep", "kalloc_wake", ra[p]}
      BY <2>2, <2>3, <2>6, Zenon
    <3> QED BY <2>1, <2>6, <3>1, Zenon DEF Kept, Building, Freeing, Copying, InKalloc, InKfree
  <2> QED BY <2>4, <2>5, <2>6, <1>t, Zenon
<1>4. CASE KfreePush(c, p) \/ KfreeWakeup(c, p) \/ KfreeReturn(c, p)
  <2>1. ra' = ra /\ tgt' = tgt /\ InKfree(p)
    BY <1>4, Zenon DEF KfreePush, KfreeWakeup, KfreeReturn, InKfree
  <2>2. pc'[p] \in {"kfree_wakeup", ra[p]}
    BY <1>4, <1>t, Zenon DEF KfreePush, KfreeWakeup, KfreeReturn, Goto
  <2>3. ra[p] # "wait_reap"
    BY <2>1, <1>t, Zenon DEF OwnSlot, Building, Freeing, Copying, InKalloc, InKfree
  <2> QED BY <2>1, <2>2, <2>3, <1>t, Zenon DEF Kept, Building, Freeing, Copying, InKalloc, InKfree
<1>5. CASE ForkAlloc(c, p) \/ ForkParent(c, p)
  <2>1. pc[p] = "fork" /\ tgt' = tgt
    BY <1>5, Zenon DEF ForkAlloc, ForkParent
  <2>2. pc'[p] = "fork_run" \/ (pc'[p] = "kalloc" /\ ra'[p] = "fork")
    BY <1>5, <1>t, Zenon DEF ForkAlloc, ForkParent, Goto
  <2> QED BY <2>1, <2>2, Zenon DEF Kept, Building, Freeing, Copying, InKalloc, InKfree
<1>6. CASE FreeprocPage(c, p)
  <2>1. pc[p] = "freeproc" /\ tgt' = tgt /\ pc'[p] = "kfree" /\ ra'[p] = "freeproc"
    BY <1>6, <1>t, Zenon DEF FreeprocPage, Goto
  <2> QED BY <2>1, Zenon DEF Kept, Building, Freeing, Copying, InKalloc, InKfree
<1>7. CASE ForkRun(c, p) \/ FreeprocReset(c, p)
  <2>1. pc'[p] = "user"
    BY <1>7, <1>t, ZenonT(60) DEF ForkRun, FreeprocReset, Return, Goto
  <2> QED BY <2>1, <1>n, Zenon
<1>8. CASE ExitReparent(c, p) \/ ExitWakeup(c, p) \/ ExitNextWakeup(c, p) \/ ExitZombie(c, p)
  <2>1. pc'[p] \in {"exit", "exit_wake_init", "exit_wake_parent", "zombie"}
    BY <1>8, <1>t, Zenon DEF ExitReparent, ExitWakeup, ExitNextWakeup, ExitZombie, Goto
  <2> QED BY <2>1, <1>n, Zenon
<1>9. CASE WaitLock(c, p) \/ WaitNone(c, p) \/ WaitSleep(c, p)
  <2>1. pc'[p] \in {"user", "wait", "wait_scan", "wait_sleep"}
    BY <1>9, <1>t, Zenon DEF WaitLock, WaitNone, WaitSleep, Goto
  <2> QED BY <2>1, <1>n, Zenon
<1> QED
  BY <1>1, <1>2, <1>3, <1>4, <1>5, <1>6, <1>7, <1>8, <1>9, <1>10, Zenon
     DEF Step, SyscallStep, KernelStep, KallocStep, ForkStep, ExitStep, WaitStep

-----------------------------------------------------------------------------
(***************************************************************************)
(* Targets is inductive: no two threads ever build or free the same slot,  *)
(* and no thread works on a slot that is alive.                            *)
(***************************************************************************)

\* allocproc() takes an UNUSED slot, which nobody works on.
LEMMA AllocprocScanTargets ==
  ASSUME SlotTypes, OnCpu, Locals, BuildTargets, FreeTargets, CopyTargets, OwnTargets,
         NEW c \in Cpus, NEW p \in Procs, cur[c] = p, state[p] = "RUNNING", OthersKept(p),
         AllocprocScan(c, p)
  PROVE  Targets'
<1>1. CASE iter[p] \in Procs /\ state[iter[p]] = "UNUSED"
  <2>1. PICK i \in Procs : i = iter[p] /\ state[i] = "UNUSED" /\ i # p
    BY <1>1, Zenon DEF AllocprocScan
  <2>2. /\ state' = [state EXCEPT ![i] = "USED"] /\ plock' = plock /\ cur' = cur
        /\ tgt'[p] = i /\ pc'[p] = "fork"
    BY <1>1, <2>1, Zenon DEF AllocprocScan, SlotTypes
  <2>3. Building(p)' /\ ~Freeing(p)' /\ ~Copying(p)'
    BY <2>2, Zenon DEF Building, Freeing, Copying, InKalloc, InKfree
  <2>4. \A q \in Procs : (Building(q) \/ Freeing(q)) => tgt[q] # i
    BY <2>1, ZenonT(60) DEF BuildTargets, FreeTargets
  <2>5. \A q \in Procs : Copying(q) => iter[q] # i
    BY <2>1, Zenon DEF CopyTargets
  <2>6. \A q \in Procs : q # i => state'[q] = state[q]
    BY <2>2, Zenon DEF SlotTypes
  <2>7. ASSUME NEW q \in Procs, Building(q)' PROVE state'[tgt'[q]] = "USED"
    BY <2>2, <2>4, <2>6, <2>7, SMTT(30), Z3T(30) DEF Kept, BuildTargets, OthersKept, SlotTypes
  <2>8. ASSUME NEW q \in Procs, Freeing(q)'
        PROVE  /\ state'[tgt'[q]] \in {"USED", "ZOMBIE"}
               /\ \E d \in Cpus : cur'[d] = q /\ plock'[tgt'[q]] = d
    BY <2>2, <2>3, <2>4, <2>6, <2>8, SMTT(30), Z3T(30) DEF Kept, FreeTargets, OthersKept, SlotTypes
  <2>9. ASSUME NEW q \in Procs, Copying(q)'
        PROVE  /\ tgt'[q] = q /\ iter'[q] \in Procs /\ state'[iter'[q]] = "ZOMBIE"
               /\ \E d \in Cpus : cur'[d] = q /\ plock'[iter'[q]] = d
    BY <2>2, <2>3, <2>5, <2>6, <2>9, SMTT(30), Z3T(30) DEF Kept, CopyTargets, OthersKept
  <2>10. ASSUME NEW q \in Procs, NEW s \in Procs, Building(q)' \/ Freeing(q)',
                Building(s)' \/ Freeing(s)', tgt'[q] = tgt'[s]
         PROVE  q = s
    BY <2>2, <2>4, <2>10 DEF Kept, OwnTargets, OthersKept
  <2> QED
    <3>1. BuildTargets'
      BY <2>7, Zenon DEF BuildTargets
    <3>2. FreeTargets'
      BY <2>8, Zenon DEF FreeTargets
    <3>3. CopyTargets'
      BY <2>9, Zenon DEF CopyTargets
    <3>4. OwnTargets'
      BY <2>10, Zenon DEF OwnTargets
    <3> QED BY <3>1, <3>2, <3>3, <3>4, Zenon DEF Targets
<1>2. CASE ~(iter[p] \in Procs /\ state[iter[p]] = "UNUSED")
  <2>1. UNCHANGED <<state, plock, cur>>
    BY <1>2, Zenon DEF AllocprocScan
  <2>2. pc'[p] \in {"allocproc", "user"}
    BY <1>2, Zenon DEF AllocprocScan, Return, Goto, SlotTypes
  <2>3. Kept(p)
    BY <2>2, Zenon DEF Kept, Building, Freeing, Copying, InKalloc, InKfree
  <2> QED BY <2>1, <2>3, FrameKeepsTargets, Zenon DEF SlotsKept
<1> QED BY <1>1, <1>2, Zenon

\* kfork() makes the child RUNNABLE and stops working on it.
LEMMA ForkRunTargets ==
  ASSUME SlotTypes, OnCpu, Locals, BuildTargets, FreeTargets, CopyTargets, OwnTargets,
         NEW c \in Cpus, NEW p \in Procs, cur[c] = p, state[p] = "RUNNING", OthersKept(p),
         ForkRun(c, p)
  PROVE  Targets'
<1>1. /\ Building(p) /\ state[tgt[p]] = "USED"
      /\ state' = [state EXCEPT ![tgt[p]] = "RUNNABLE"]
      /\ plock' = plock /\ cur' = cur
  BY Zenon DEF ForkRun, Building, BuildTargets
<1>2. pc'[p] = "user"
  BY Zenon DEF ForkRun, Return, Goto, SlotTypes
<1>3. ~Building(p)' /\ ~Freeing(p)' /\ ~Copying(p)'
  BY <1>2, Zenon DEF Building, Freeing, Copying, InKalloc, InKfree
<1>4. \A q \in Procs : q # p /\ (Building(q) \/ Freeing(q)) => tgt[q] # tgt[p]
  BY <1>1, Zenon DEF OwnTargets
<1>5. \A q \in Procs : Copying(q) => iter[q] # tgt[p]
  BY <1>1, Zenon DEF CopyTargets
<1>6. \A q \in Procs : q # tgt[p] => state'[q] = state[q]
  BY <1>1, Zenon DEF SlotTypes
<1>7. ASSUME NEW q \in Procs, Building(q)' PROVE state'[tgt'[q]] = "USED"
  BY <1>3, <1>4, <1>6, <1>7, SMTT(30), Z3T(30) DEF Kept, BuildTargets, OthersKept, SlotTypes
<1>8. ASSUME NEW q \in Procs, Freeing(q)'
      PROVE  /\ state'[tgt'[q]] \in {"USED", "ZOMBIE"}
             /\ \E d \in Cpus : cur'[d] = q /\ plock'[tgt'[q]] = d
  BY <1>1, <1>3, <1>4, <1>6, <1>8, SMTT(30), Z3T(30) DEF Kept, FreeTargets, OthersKept, SlotTypes
<1>9. ASSUME NEW q \in Procs, Copying(q)'
      PROVE  /\ tgt'[q] = q /\ iter'[q] \in Procs /\ state'[iter'[q]] = "ZOMBIE"
             /\ \E d \in Cpus : cur'[d] = q /\ plock'[iter'[q]] = d
  BY <1>1, <1>3, <1>5, <1>6, <1>9 DEF Kept, CopyTargets, OthersKept
<1>10. ASSUME NEW q \in Procs, NEW s \in Procs, Building(q)' \/ Freeing(q)',
              Building(s)' \/ Freeing(s)', tgt'[q] = tgt'[s]
       PROVE  q = s
  BY <1>3, <1>10, Zenon DEF Kept, OwnTargets, OthersKept
<1> QED
  <2>1. BuildTargets'
    BY <1>7, Zenon DEF BuildTargets
  <2>2. FreeTargets'
    BY <1>8, Zenon DEF FreeTargets
  <2>3. CopyTargets'
    BY <1>9, Zenon DEF CopyTargets
  <2>4. OwnTargets'
    BY <1>10, Zenon DEF OwnTargets
  <2> QED BY <2>1, <2>2, <2>3, <2>4, Zenon DEF Targets

\* The failing kfork() takes the lock of the child it still owns.
LEMMA ForkFailTargets ==
  ASSUME SlotTypes, OnCpu, Locals, BuildTargets, FreeTargets, CopyTargets, OwnTargets,
         NEW c \in Cpus, NEW p \in Procs, cur[c] = p, state[p] = "RUNNING", OthersKept(p),
         ForkFail(c, p)
  PROVE  Targets'
<1>1. pc[p] = "fork_fail" /\ tgt' = tgt /\ state' = state /\ cur' = cur /\ cur[c] = p
  BY Zenon DEF ForkFail
<1>2. Building(p) /\ state[tgt[p]] = "USED"
  BY <1>1, Zenon DEF Building, BuildTargets
<1>3. CASE pc'[p] = "kfree" /\ ra'[p] = "fork_fail" /\ plock' = plock
  <2>1. Kept(p)
    BY <1>1, <1>2, <1>3, Zenon DEF Kept, Building, Freeing, Copying, InKalloc, InKfree
  <2> QED BY <1>1, <1>3, <2>1, FrameKeepsTargets, Zenon DEF SlotsKept
<1>4. CASE pc'[p] = "freeproc" /\ plock[tgt[p]] = None /\ plock' = [plock EXCEPT ![tgt[p]] = c]
  <2>1. ~Building(p)' /\ Freeing(p)' /\ ~Copying(p)'
    BY <1>4, Zenon DEF Building, Freeing, Copying, InKalloc, InKfree
  <2>2. \A q \in Procs, d \in Cpus : plock[q] = d => plock'[q] = d
    BY <1>4, Zenon DEF SlotTypes
  <2>3. plock'[tgt'[p]] = c /\ cur'[c] = p
    BY <1>1, <1>4, Zenon DEF SlotTypes
  <2>4. ASSUME NEW q \in Procs, Building(q)' PROVE state'[tgt'[q]] = "USED"
    BY <1>1, <2>1, <2>4, Zenon DEF Kept, BuildTargets, OthersKept
  <2>5. ASSUME NEW q \in Procs, Freeing(q)'
        PROVE  /\ state'[tgt'[q]] \in {"USED", "ZOMBIE"}
               /\ \E d \in Cpus : cur'[d] = q /\ plock'[tgt'[q]] = d
    BY <1>1, <1>2, <2>2, <2>3, <2>5, SMTT(30), Z3T(30) DEF Kept, FreeTargets, OthersKept, SlotTypes
  <2>6. ASSUME NEW q \in Procs, Copying(q)'
        PROVE  /\ tgt'[q] = q /\ iter'[q] \in Procs /\ state'[iter'[q]] = "ZOMBIE"
               /\ \E d \in Cpus : cur'[d] = q /\ plock'[iter'[q]] = d
    BY <1>1, <2>1, <2>2, <2>6 DEF Kept, CopyTargets, OthersKept
  <2>7. ASSUME NEW q \in Procs, NEW s \in Procs, Building(q)' \/ Freeing(q)',
               Building(s)' \/ Freeing(s)', tgt'[q] = tgt'[s]
        PROVE  q = s
    BY <1>1, <1>2, <2>7, Zenon DEF Kept, OwnTargets, OthersKept
  <2> QED
    <3>1. BuildTargets'
      BY <2>4, Zenon DEF BuildTargets
    <3>2. FreeTargets'
      BY <2>5, Zenon DEF FreeTargets
    <3>3. CopyTargets'
      BY <2>6, Zenon DEF CopyTargets
    <3>4. OwnTargets'
      BY <2>7, Zenon DEF OwnTargets
    <3> QED BY <3>1, <3>2, <3>3, <3>4, Zenon DEF Targets
<1> QED BY <1>3, <1>4, Zenon DEF ForkFail, PFree, Goto, SlotTypes

\* freeproc() leaves its slot UNUSED and stops working on it.
LEMMA FreeprocResetTargets ==
  ASSUME SlotTypes, OnCpu, Locals, BuildTargets, FreeTargets, CopyTargets, OwnTargets,
         NEW c \in Cpus, NEW p \in Procs, cur[c] = p, state[p] = "RUNNING", OthersKept(p),
         FreeprocReset(c, p)
  PROVE  Targets'
<1>1. /\ pc[p] = "freeproc" /\ cur' = cur
      /\ state' = [state EXCEPT ![tgt[p]] = "UNUSED"]
      /\ plock' = [plock EXCEPT ![tgt[p]] = None]
  BY Zenon DEF FreeprocReset
<1>2. Freeing(p) /\ ~Copying(p)
  BY <1>1, Zenon DEF Freeing, Copying, InKalloc, InKfree
<1>3. pc'[p] = "user"
  BY Zenon DEF FreeprocReset, Return, Goto, SlotTypes
<1>4. ~Building(p)' /\ ~Freeing(p)' /\ ~Copying(p)'
  BY <1>3, Zenon DEF Building, Freeing, Copying, InKalloc, InKfree
<1>5. \A q \in Procs : q # p /\ (Building(q) \/ Freeing(q)) => tgt[q] # tgt[p]
  BY <1>2, Zenon DEF OwnTargets
<1>6. \A q \in Procs : Copying(q) => iter[q] # tgt[p]
  <2>1. PICK d \in Cpus : cur[d] = p /\ plock[tgt[p]] = d
    BY <1>2, Zenon DEF FreeTargets
  <2> QED BY <1>2, <2>1 DEF CopyTargets, SlotTypes
<1>7. \A q \in Procs : q # tgt[p] => state'[q] = state[q] /\ plock'[q] = plock[q]
  BY <1>1, ZenonT(60) DEF SlotTypes
<1>8. ASSUME NEW q \in Procs, Building(q)' PROVE state'[tgt'[q]] = "USED"
  BY <1>4, <1>5, <1>7, <1>8, SMTT(30), Z3T(30) DEF Kept, BuildTargets, OthersKept, SlotTypes
<1>9. ASSUME NEW q \in Procs, Freeing(q)'
      PROVE  /\ state'[tgt'[q]] \in {"USED", "ZOMBIE"}
             /\ \E d \in Cpus : cur'[d] = q /\ plock'[tgt'[q]] = d
  BY <1>1, <1>4, <1>5, <1>7, <1>9, SMTT(30), Z3T(30) DEF Kept, FreeTargets, OthersKept, SlotTypes
<1>10. ASSUME NEW q \in Procs, Copying(q)'
       PROVE  /\ tgt'[q] = q /\ iter'[q] \in Procs /\ state'[iter'[q]] = "ZOMBIE"
              /\ \E d \in Cpus : cur'[d] = q /\ plock'[iter'[q]] = d
  BY <1>1, <1>4, <1>6, <1>7, <1>10, SMTT(30) DEF Kept, CopyTargets, OthersKept
<1>11. ASSUME NEW q \in Procs, NEW s \in Procs, Building(q)' \/ Freeing(q)',
              Building(s)' \/ Freeing(s)', tgt'[q] = tgt'[s]
       PROVE  q = s
  BY <1>4, <1>11, Zenon DEF Kept, OwnTargets, OthersKept
<1> QED
  <2>1. BuildTargets'
    BY <1>8, Zenon DEF BuildTargets
  <2>2. FreeTargets'
    BY <1>9, Zenon DEF FreeTargets
  <2>3. CopyTargets'
    BY <1>10, Zenon DEF CopyTargets
  <2>4. OwnTargets'
    BY <1>11, Zenon DEF OwnTargets
  <2> QED BY <2>1, <2>2, <2>3, <2>4, Zenon DEF Targets

\* kwait() takes a ZOMBIE under its free lock, so nobody else works on it.
LEMMA WaitScanTargets ==
  ASSUME SlotTypes, OnCpu, Locals, BuildTargets, FreeTargets, CopyTargets, OwnTargets,
         NEW c \in Cpus, NEW p \in Procs, cur[c] = p, state[p] = "RUNNING", OthersKept(p),
         WaitScan(c, p)
  PROVE  Targets'
<1>1. PICK i \in Procs : i = iter[p] /\ plock[i] = None
  BY Zenon DEF WaitScan, PFree
<1>2. pc[p] = "wait_scan" /\ cur[c] = p /\ state' = state /\ cur' = cur
  BY Zenon DEF WaitScan
<1>3. tgt[p] = p /\ ra[p] = "user"
  BY <1>2, Zenon DEF Locals, OwnSlot, Building, Freeing, Copying, InKalloc, InKfree
<1>4. CASE pc'[p] \in {"user", "wait_scan"} /\ plock' = plock
  <2>1. Kept(p)
    BY <1>4, Zenon DEF Kept, Building, Freeing, Copying, InKalloc, InKfree
  <2> QED BY <1>2, <1>4, <2>1, FrameKeepsTargets, Zenon DEF SlotsKept
<1>5. CASE /\ state[i] = "ZOMBIE" /\ plock' = [plock EXCEPT ![i] = c]
           /\ \/ pc'[p] = "freeproc" /\ tgt'[p] = i
              \/ pc'[p] = "kalloc" /\ ra'[p] = "wait_reap" /\ tgt'[p] = p /\ iter'[p] = i
  <2>1. \/ ~Building(p)' /\ Freeing(p)' /\ ~Copying(p)' /\ tgt'[p] = i
        \/ ~Building(p)' /\ ~Freeing(p)' /\ Copying(p)' /\ tgt'[p] = p /\ iter'[p] = i
    BY <1>5, Zenon DEF Building, Freeing, Copying, InKalloc, InKfree
  <2>2. \A q \in Procs : (Building(q) \/ Freeing(q)) => tgt[q] # i
    BY <1>1, <1>5 DEF BuildTargets, FreeTargets, SlotTypes
  <2>3. \A q \in Procs, d \in Cpus : plock[q] = d => plock'[q] = d
    BY <1>1, <1>5, ZenonT(60) DEF SlotTypes
  <2>4. plock'[i] = c /\ cur'[c] = p /\ state'[i] = "ZOMBIE"
    BY <1>2, <1>5, Zenon DEF SlotTypes
  <2>5. ASSUME NEW q \in Procs, Building(q)' PROVE state'[tgt'[q]] = "USED"
    BY <1>2, <2>1, <2>5, Zenon DEF Kept, BuildTargets, OthersKept
  <2>6. ASSUME NEW q \in Procs, Freeing(q)'
        PROVE  /\ state'[tgt'[q]] \in {"USED", "ZOMBIE"}
               /\ \E d \in Cpus : cur'[d] = q /\ plock'[tgt'[q]] = d
    BY <1>2, <2>1, <2>3, <2>4, <2>6, SMTT(60), Z3T(30) DEF Kept, FreeTargets, OthersKept, SlotTypes
  <2>7. ASSUME NEW q \in Procs, Copying(q)'
        PROVE  /\ tgt'[q] = q /\ iter'[q] \in Procs /\ state'[iter'[q]] = "ZOMBIE"
               /\ \E d \in Cpus : cur'[d] = q /\ plock'[iter'[q]] = d
    BY <1>2, <2>1, <2>3, <2>4, <2>7, SMTT(30), Z3T(30) DEF Kept, CopyTargets, OthersKept
  <2>8. ASSUME NEW q \in Procs, NEW s \in Procs, Building(q)' \/ Freeing(q)',
               Building(s)' \/ Freeing(s)', tgt'[q] = tgt'[s]
        PROVE  q = s
    BY <2>1, <2>2, <2>8, SMTT(30), Z3T(30) DEF Kept, OwnTargets, OthersKept
  <2> QED
    <3>1. BuildTargets'
      BY <2>5, Zenon DEF BuildTargets
    <3>2. FreeTargets'
      BY <2>6, Zenon DEF FreeTargets
    <3>3. CopyTargets'
      BY <2>7, Zenon DEF CopyTargets
    <3>4. OwnTargets'
      BY <2>8, Zenon DEF OwnTargets
    <3> QED BY <3>1, <3>2, <3>3, <3>4, Zenon DEF Targets
<1>6. CASE state[i] = "ZOMBIE"
  BY <1>1, <1>3, <1>4, <1>5, <1>6 DEF WaitScan, Return, Goto, SlotTypes
<1>7. CASE state[i] # "ZOMBIE"
  BY <1>1, <1>2, <1>4, <1>7, Zenon DEF WaitScan
<1> QED BY <1>6, <1>7, Zenon

\* kwait() goes from copyout() to freeproc() with the lock of the child.
LEMMA WaitReapTargets ==
  ASSUME SlotTypes, OnCpu, Locals, BuildTargets, FreeTargets, CopyTargets, OwnTargets,
         NEW c \in Cpus, NEW p \in Procs, cur[c] = p, state[p] = "RUNNING", OthersKept(p),
         WaitReap(c, p)
  PROVE  Targets'
<1>1. /\ pc[p] = "wait_reap" /\ cur[c] = p /\ UNCHANGED <<state, plock, cur>>
      /\ tgt'[p] = iter[p] /\ pc'[p] = "freeproc"
  BY Zenon DEF WaitReap, schedVars, Goto, SlotTypes
<1>2. Copying(p) /\ ~Building(p)' /\ Freeing(p)' /\ ~Copying(p)'
  BY <1>1, ZenonT(60) DEF Building, Freeing, Copying, InKalloc, InKfree
<1>3. PICK i \in Procs : i = iter[p] /\ state[i] = "ZOMBIE" /\ plock[i] = c
  BY <1>1, <1>2, SMTT(30), Z3T(30) DEF OnCpu, CopyTargets
<1>4. \A q \in Procs : q # p /\ (Building(q) \/ Freeing(q)) => tgt[q] # i
  BY <1>1, <1>3, SMTT(30) DEF BuildTargets, FreeTargets
<1>5. ASSUME NEW q \in Procs, Building(q)' PROVE state'[tgt'[q]] = "USED"
  BY <1>1, <1>2, <1>5, Zenon DEF Kept, BuildTargets, OthersKept
<1>6. ASSUME NEW q \in Procs, Freeing(q)'
      PROVE  /\ state'[tgt'[q]] \in {"USED", "ZOMBIE"}
             /\ \E d \in Cpus : cur'[d] = q /\ plock'[tgt'[q]] = d
  <2>1. CASE q = p
    <3>1. tgt'[q] = i /\ state'[i] = "ZOMBIE" /\ cur'[c] = q /\ plock'[i] = c
      BY <1>1, <1>3, <2>1, Zenon
    <3> QED BY <3>1, Zenon
  <2>2. CASE q # p
    <3>1. Freeing(q) /\ tgt'[q] = tgt[q]
      BY <1>6, <2>2, ZenonT(60) DEF Kept, OthersKept
    <3> QED BY <1>1, <3>1 DEF FreeTargets
  <2> QED BY <2>1, <2>2, Zenon
<1>7. ASSUME NEW q \in Procs, Copying(q)'
      PROVE  /\ tgt'[q] = q /\ iter'[q] \in Procs /\ state'[iter'[q]] = "ZOMBIE"
             /\ \E d \in Cpus : cur'[d] = q /\ plock'[iter'[q]] = d
  BY <1>1, <1>2, <1>7, SMTT(30), Z3T(30) DEF Kept, CopyTargets, OthersKept
<1>8. ASSUME NEW q \in Procs, NEW s \in Procs, Building(q)' \/ Freeing(q)',
             Building(s)' \/ Freeing(s)', tgt'[q] = tgt'[s]
      PROVE  q = s
  BY <1>1, <1>3, <1>4, <1>8 DEF Kept, OwnTargets, OthersKept
<1> QED
  <2>1. BuildTargets'
    BY <1>5, Zenon DEF BuildTargets
  <2>2. FreeTargets'
    BY <1>6, Zenon DEF FreeTargets
  <2>3. CopyTargets'
    BY <1>7, Zenon DEF CopyTargets
  <2>4. OwnTargets'
    BY <1>8, Zenon DEF OwnTargets
  <2> QED BY <2>1, <2>2, <2>3, <2>4, Zenon DEF Targets

\* Every step keeps the slots of fork(), freeproc() and copyout() apart: a slot is
\* taken UNUSED, or ZOMBIE with its lock free, and given up by the one who has it.
LEMMA TargetsStep ==
  ASSUME SchedTypes, ThreadTypes, OnCpu, Locals, Targets,
         NEW c \in Cpus, NEW p \in Procs, Step(c, p)
  PROVE  Targets'
<1>s. SlotTypes
  BY SchedAssumption, Zenon DEF SchedAssumption, SchedTypes, SchedTypeOK, ThreadTypes, SlotTypes
<1>t. /\ state \in [Procs -> States] /\ plock \in [Procs -> Cpus \cup {None}]
      /\ cur \in [Cpus -> Procs \cup {None}] /\ None \notin Procs /\ None \notin Cpus
  BY <1>s, Zenon DEF SlotTypes
<1>b. BuildTargets /\ FreeTargets /\ CopyTargets /\ OwnTargets
  BY Zenon DEF Targets
<1>r. Running(c, p) => state[p] = "RUNNING" /\ cur[c] = p
  BY <1>t, ZenonT(60) DEF OnCpu, Running, Executing
<1>o. ASSUME cur[c] = p, Freeing(p) \/ Copying(p)
      PROVE  \E q \in Procs : plock[q] = c
  <2>1. \A d \in Cpus : cur[d] = p => d = c
    BY <1>o DEF OnCpu
  <2> QED BY <1>o, <1>b, <1>s, <2>1 DEF FreeTargets, CopyTargets, SlotTypes
<1>k. OthersKept(p)
  BY OthersKeep, Zenon DEF OthersKept
<1>f. ASSUME Kept(p), SlotsKept PROVE Targets'
  BY <1>f, <1>k, <1>b, <1>s, FrameKeepsTargets, Zenon
<1>m. ~AllocprocScan(c, p) /\ ~ForkFail(c, p) /\ ~WaitScan(c, p) /\ ~WaitReap(c, p) => Kept(p)
  BY MoverKeeps, Zenon
<1>1. CASE UNCHANGED <<state, plock, cur>> /\ Kept(p)
  BY <1>1, <1>f, Zenon DEF SlotsKept
<1>2. CASE (RunProc(c, p) \/ Preempt(c, p)) /\ Kept(p)
  <2>1. CASE RunProc(c, p)
    BY <1>2, <2>1, <1>f, <1>t, Zenon DEF RunProc, Schedule, SlotsKept
  <2>2. CASE Preempt(c, p)
    <3>1. cur[c] = p /\ state[p] = "RUNNING" /\ NoLocks(c)
      BY <2>2, <1>r, Zenon DEF Preempt, Yield
    <3>2. ~Freeing(p) /\ ~Copying(p)
      BY <3>1, <1>o, Zenon DEF NoLocks
    <3> QED BY <1>2, <2>2, <3>1, <3>2, <1>f, <1>t, Zenon DEF Preempt, Yield, SlotsKept
  <2> QED BY <1>2, <2>1, <2>2, Zenon
<1>3. CASE SysKill(c, p) /\ Kept(p)
  <2>1. PICK q \in Procs : KillSlot(q)
    BY <1>3, Zenon DEF SysKill, KillTargets
  <2> QED BY <1>3, <2>1, <1>f, <1>t, Zenon DEF KillSlot, SlotsKept
<1>4. CASE (KfreeWakeup(c, p) \/ ExitWakeup(c, p)) /\ Kept(p)
  <2>1. PICK ch : WakeupSlot(c, iter[p], ch)
    BY <1>4, Zenon DEF KfreeWakeup, ExitWakeup
  <2> QED BY <1>4, <2>1, <1>f, <1>t, Zenon DEF WakeupSlot, Sleeping, SlotsKept
<1>5. CASE (KallocSleep(c, p) \/ WaitSleep(c, p)) /\ Kept(p)
  <2>1. PICK ch, lk : Running(c, p) /\ SleepOn(c, p, ch, lk)
    BY <1>5, Zenon DEF KallocSleep, WaitSleep
  <2>2. cur'[c] = p \/ (~Freeing(p) /\ ~Copying(p))
    BY <2>1, <1>o, <1>r, <1>t, Zenon DEF SleepOn, OnlyLock
  <2>3. SlotsKept
    BY <2>1, <2>2, <1>r, <1>t, Zenon DEF SleepOn, PFree, SlotsKept
  <2> QED BY <1>5, <2>3, <1>f, Zenon
<1>6. CASE ExitZombie(c, p) /\ Kept(p)
  <2>1. ~Freeing(p) /\ ~Copying(p)
    BY <1>6, Zenon DEF ExitZombie, Freeing, Copying, InKalloc, InKfree
  <2> QED BY <1>6, <2>1, <1>f, <1>r, <1>t, Zenon DEF ExitZombie, SlotsKept
<1>7. CASE AllocprocScan(c, p)
  <2>1. state[p] = "RUNNING" /\ cur[c] = p
    BY <1>7, <1>r, Zenon DEF AllocprocScan
  <2> QED BY <1>7, <1>k, <1>b, <1>s, <2>1, AllocprocScanTargets, Zenon
<1>8. CASE ForkRun(c, p)
  <2>1. state[p] = "RUNNING" /\ cur[c] = p
    BY <1>8, <1>r, Zenon DEF ForkRun
  <2> QED BY <1>8, <1>k, <1>b, <1>s, <2>1, ForkRunTargets, Zenon
<1>9. CASE ForkFail(c, p)
  <2>1. state[p] = "RUNNING" /\ cur[c] = p
    BY <1>9, <1>r, Zenon DEF ForkFail
  <2> QED BY <1>9, <1>k, <1>b, <1>s, <2>1, ForkFailTargets, Zenon
<1>10. CASE FreeprocReset(c, p)
  <2>1. state[p] = "RUNNING" /\ cur[c] = p
    BY <1>10, <1>r, Zenon DEF FreeprocReset
  <2> QED BY <1>10, <1>k, <1>b, <1>s, <2>1, FreeprocResetTargets, Zenon
<1>11. CASE WaitScan(c, p)
  <2>1. state[p] = "RUNNING" /\ cur[c] = p
    BY <1>11, <1>r, Zenon DEF WaitScan
  <2> QED BY <1>11, <1>k, <1>b, <1>s, <2>1, WaitScanTargets, Zenon
<1>12. CASE WaitReap(c, p)
  <2>1. state[p] = "RUNNING" /\ cur[c] = p
    BY <1>12, <1>r, Zenon DEF WaitReap
  <2> QED BY <1>12, <1>k, <1>b, <1>s, <2>1, WaitReapTargets, Zenon
<1>13. \/ UNCHANGED <<state, plock, cur>>
       \/ RunProc(c, p) \/ Preempt(c, p) \/ SysKill(c, p)
       \/ KfreeWakeup(c, p) \/ ExitWakeup(c, p) \/ KallocSleep(c, p) \/ WaitSleep(c, p)
       \/ ExitZombie(c, p) \/ AllocprocScan(c, p) \/ ForkRun(c, p) \/ ForkFail(c, p)
       \/ FreeprocReset(c, p) \/ WaitScan(c, p) \/ WaitReap(c, p)
  <2>1. CASE SyscallStep(c, p) \/ TrapKilled(c, p)
    BY <2>1, Zenon
       DEF SyscallStep, PageFault, SysExit, SysSbrk, SysFork, SysWait, TrapKilled, schedVars
  <2>2. CASE KallocStep(c, p)
    BY <2>2, Zenon DEF KallocStep, KallocFirst, KallocWake, KfreePush, KfreeReturn
  <2>3. CASE ForkStep(c, p)
    BY <2>3, Zenon DEF ForkStep, ForkAlloc, ForkParent, FreeprocPage, schedVars
  <2>4. CASE ExitStep(c, p)
    BY <2>4, Zenon DEF ExitStep, ExitReparent, ExitNextWakeup, schedVars
  <2>5. CASE WaitStep(c, p)
    BY <2>5, Zenon DEF WaitStep, WaitLock, WaitNone, schedVars
  <2> QED BY <2>1, <2>2, <2>3, <2>4, <2>5, Zenon DEF Step, KernelStep
<1>14. CASE Kept(p)
  BY <1>1, <1>2, <1>3, <1>4, <1>5, <1>6, <1>7, <1>8, <1>9, <1>10, <1>11, <1>12, <1>13, <1>14, Zenon
<1> QED BY <1>7, <1>9, <1>11, <1>12, <1>14, <1>m, Zenon

-----------------------------------------------------------------------------
(***************************************************************************)
(* The sleeping page allocator.  The steps outside of kmem.lock cannot     *)
(* make a sleeper on &kmem and a free page meet; inside, the section that  *)
(* ends with a free page has woken every sleeper.                          *)
(***************************************************************************)

InSection(p) == pc[p] \in {"kalloc_sleep", "kfree_wakeup"}

\* What a step outside of the allocator leaves alone: nobody enters or leaves a
\* kmem.lock section, no thread inside one moves to or from a CPU, and nobody
\* starts to sleep on &kmem.
KmemFrame ==
  /\ slock'["kmem"] = slock["kmem"] /\ free' = free /\ inintr' = inintr
  /\ \A d \in Cpus : panic'[d] = "no" => panic[d] = "no"
  /\ \A q \in Procs : Sleeping(q, KMEM)' => Sleeping(q, KMEM)
  /\ \A q \in Procs : InSection(q)' =>
       /\ pc'[q] = pc[q] /\ iter'[q] = iter[q]
       /\ \A d \in Cpus : cur'[d] = q <=> cur[d] = q

\* Only the allocator touches what its invariants are about.
LEMMA OutsideKmem ==
  ASSUME SchedTypes, ThreadTypes, OnCpu, KmemOwned, Targets,
         NEW c \in Cpus, NEW p \in Procs, Step(c, p), ~KallocStep(c, p)
  PROVE  KmemFrame
<1>t. /\ state \in [Procs -> States] /\ plock \in [Procs -> Cpus \cup {None}]
      /\ slock \in [Locks -> Cpus \cup {None}]
      /\ cur \in [Cpus -> Procs \cup {None}] /\ panic \in [Cpus -> Panics]
      /\ chan \in [Procs -> Channels \cup {None}]
      /\ pc \in [Procs -> Labels] /\ iter \in [Procs -> 1 .. NPROC + 1]
      /\ tgt[p] \in Procs /\ None \notin Procs /\ None \notin Cpus
      /\ "kmem" \in Locks
  BY SchedAssumption, ProcAssumption, Zenon
     DEF SchedAssumption, ProcAssumption, SchedTypes, SchedTypeOK, ThreadTypes
<1>w. \A q : WAIT(q) # KMEM
  BY Zenon DEF WAIT, KMEM
<1>r. Running(c, p) => state[p] = "RUNNING" /\ panic[c] = "no" /\ cur[c] = p
  BY <1>t, ZenonT(60) DEF OnCpu, Running, Executing
<1> USE DEF KmemFrame, InSection, Sleeping
<1>1. CASE RunProc(c, p)
  <2>1. ~InSection(p)
    BY <1>1, <1>t DEF RunProc, Schedule, OnCpu, KmemOwned
  <2> QED BY <1>1, <2>1, <1>t, Zenon DEF RunProc, Schedule, memVars, threadVars
<1>2. CASE Preempt(c, p)
  <2>1. ~InSection(p)
    BY <1>2, <1>t DEF Preempt, Yield, NoLocks, Running, OnCpu, KmemOwned
  <2> QED BY <1>2, <2>1, <1>t, Zenon DEF Preempt, Yield, Running, memVars, threadVars
<1>3. CASE SysKill(c, p)
  <2>1. PICK q \in Procs : KillSlot(q)
    BY <1>3, Zenon DEF SysKill, KillTargets
  <2> QED BY <1>3, <2>1, <1>t, Zenon DEF SysKill, KillSlot, memVars, threadVars
<1>4. CASE PageFault(c, p) \/ SysExit(c, p) \/ SysSbrk(c, p) \/ SysWait(c, p) \/ TrapKilled(c, p)
  BY <1>4, <1>t, Zenon
     DEF PageFault, SysExit, SysSbrk, SysWait, TrapKilled, Goto, schedVars, memVars
<1>5. CASE SysFork(c, p)
  BY <1>5, <1>t, Zenon DEF SysFork, Goto, schedVars, memVars
<1>6. CASE AllocprocScan(c, p)
  BY <1>6, <1>t DEF AllocprocScan, Return, Goto, memVars
<1>7. CASE ForkAlloc(c, p) \/ ForkParent(c, p) \/ FreeprocPage(c, p)
  BY <1>7, <1>t, Zenon DEF ForkAlloc, ForkParent, FreeprocPage, Goto, schedVars, memVars
<1>8. CASE ForkFail(c, p)
  BY <1>8, <1>t, Zenon DEF ForkFail, Goto, memVars
<1>9. CASE ForkRun(c, p)
  BY <1>9, <1>t, Zenon DEF ForkRun, Return, Goto, memVars
<1>10. CASE FreeprocReset(c, p)
  BY <1>10, <1>t, Zenon DEF FreeprocReset, Return, Goto, memVars
<1>11. CASE ExitReparent(c, p)
  BY <1>11, <1>t, <1>r, Zenon DEF ExitReparent, Goto, memVars
<1>12. CASE ExitWakeup(c, p)
  BY <1>12, <1>t, <1>r DEF ExitWakeup, WakeupSlot, memVars
<1>13. CASE ExitNextWakeup(c, p)
  BY <1>13, <1>t, Zenon DEF ExitNextWakeup, Goto, schedVars, memVars
<1>14. CASE ExitZombie(c, p)
  BY <1>14, <1>t, <1>r, Zenon DEF ExitZombie, Goto, memVars
<1>15. CASE WaitLock(c, p)
  BY <1>15, <1>t, Zenon DEF WaitLock, ScanFrom, Goto, memVars
<1>16. CASE WaitScan(c, p)
  BY <1>16, <1>t, ZenonT(60) DEF WaitScan, ScanFrom, Return, Goto, memVars
<1>17. CASE WaitReap(c, p)
  BY <1>17, <1>t, Zenon DEF WaitReap, Goto, schedVars, memVars
<1>18. CASE WaitNone(c, p)
  BY <1>18, <1>t DEF WaitNone, Goto, memVars
<1>19. CASE WaitSleep(c, p)
  <2>1. SleepOn(c, p, WAIT(p), "wait") /\ Running(c, p) /\ pc[p] = "wait_sleep"
    BY <1>19, Zenon DEF WaitSleep
  <2>2. \A q \in Procs : Sleeping(q, KMEM)' => Sleeping(q, KMEM)
    BY <2>1, <1>t, <1>w, Zenon DEF SleepOn
  <2>3. \A d \in Cpus : panic'[d] = "no" => panic[d] = "no"
    BY <2>1, <1>t, <1>r, Zenon DEF SleepOn
  <2>4. \A q \in Procs, d \in Cpus : q # p => (cur'[d] = q <=> cur[d] = q)
    BY <2>1, <1>t, <1>r, Zenon DEF SleepOn
  <2> QED BY <1>19, <2>1, <2>2, <2>3, <2>4, <1>t, SMTT(30) DEF WaitSleep, SleepOn, Goto, memVars
<1> QED
  BY <1>1, <1>2, <1>3, <1>4, <1>5, <1>6, <1>7, <1>8, <1>9, <1>10, <1>11, <1>12, <1>13, <1>14,
     <1>15, <1>16, <1>17, <1>18, <1>19, Zenon
     DEF Step, SyscallStep, KernelStep, ForkStep, ExitStep, WaitStep

AllocInv == KmemOwned /\ SleepOnEmpty /\ WokenBehind /\ StallJustified

\* The allocator keeps its own invariants: kalloc() goes to sleep only under the
\* lock with which it saw the list empty, and kfree() keeps that lock until its
\* wakeup() has passed every slot.
LEMMA AllocStep ==
  ASSUME SchedTypes, ThreadTypes, MemTypes, OnCpu, AllocInv,
         NEW c \in Cpus, NEW p \in Procs, KallocStep(c, p)
  PROVE  AllocInv'
<1>t. /\ state \in [Procs -> States] /\ plock \in [Procs -> Cpus \cup {None}]
      /\ slock \in [Locks -> Cpus \cup {None}]
      /\ cur \in [Cpus -> Procs \cup {None}] /\ panic \in [Cpus -> Panics]
      /\ chan \in [Procs -> Channels \cup {None}]
      /\ pc \in [Procs -> Labels] /\ iter \in [Procs -> 1 .. NPROC + 1]
      /\ ra \in [Procs -> {"user", "fork", "fork_fail", "freeproc", "wait_reap"}]
      /\ free \in Nat
      /\ None \notin Procs /\ None \notin Cpus
      /\ "kmem" \in Locks
  BY SchedAssumption, ProcAssumption, Zenon
     DEF SchedAssumption, ProcAssumption, SchedTypes, SchedTypeOK, ThreadTypes, MemTypes
<1>r. Running(c, p) => state[p] = "RUNNING" /\ panic[c] = "no" /\ cur[c] = p
  BY <1>t, Zenon DEF OnCpu, Running, Executing
<1>u. \A q \in Procs : Free("kmem") => ~InSection(q)
  BY <1>t DEF AllocInv, KmemOwned, Free, InSection
<1>v. ASSUME Running(c, p), InSection(p)
      PROVE  slock["kmem"] = c /\ \A q \in Procs : InSection(q) => q = p
  BY <1>v, <1>t, <1>r DEF AllocInv, KmemOwned, InSection, OnCpu
<1> USE DEF AllocInv, InSection
<1>1. CASE KallocFirst(c, p)
  <2>1. KmemOwned'
    BY <1>1, <1>t, <1>r, <1>u DEF KallocFirst, TakePage, Goto, KmemOwned
  <2>2. SleepOnEmpty'
    BY <1>1, <1>t, <1>u, Zenon DEF KallocFirst, TakePage, Goto, SleepOnEmpty
  <2>3. WokenBehind'
    BY <1>1, <1>t, <1>u DEF KallocFirst, TakePage, Goto, WokenBehind, Running, Executing
  <2>4. StallJustified'
    BY <1>1, <1>t, ZenonT(60) DEF KallocFirst, TakePage, StallJustified, Free, Sleeping
  <2> QED BY <2>1, <2>2, <2>3, <2>4, Zenon
<1>2. CASE KallocSleep(c, p)
  <2>1. Running(c, p) /\ InSection(p) /\ free = 0 /\ free' = free
    BY <1>2, Zenon DEF KallocSleep, SleepOnEmpty, memVars
  <2>2. \A q \in Procs : ~InSection(q)'
    BY <1>2, <2>1, <1>v, <1>t, ZenonT(60) DEF KallocSleep, Goto
  <2> QED BY <2>1, <2>2, SMTT(30), Z3T(30) DEF KmemOwned, SleepOnEmpty, WokenBehind, StallJustified
<1>3. CASE KallocWake(c, p)
  <2>1. KmemOwned'
    BY <1>3, <1>t, <1>r, <1>u, SMTT(30), Z3T(30) DEF KallocWake, TakePage, FailTo, Goto, KmemOwned
  <2>2. SleepOnEmpty'
    BY <1>3, <1>t, <1>u, ZenonT(60) DEF KallocWake, TakePage, FailTo, Goto, SleepOnEmpty
  <2>3. WokenBehind'
    BY <1>3, <1>t, <1>u, SMTT(20)
       DEF KallocWake, TakePage, FailTo, Goto, WokenBehind, Running, Executing
  <2>4. StallJustified'
    BY <1>3, <1>t, Zenon DEF KallocWake, TakePage, StallJustified, Free, Sleeping
  <2> QED BY <2>1, <2>2, <2>3, <2>4, Zenon
<1>4. CASE KfreePush(c, p)
  <2>1. KmemOwned'
    BY <1>4, <1>t, <1>r, <1>u, Zenon DEF KfreePush, Goto, KmemOwned
  <2>2. SleepOnEmpty'
    BY <1>4, <1>t, <1>u, Zenon DEF KfreePush, Goto, SleepOnEmpty
  <2>3. \A q \in Procs : ~(q < After(p, 0) /\ q # p)
    BY SchedAssumption DEF SchedAssumption, After, Procs
  <2>4. WokenBehind'
    BY <1>4, <2>3, <1>t, <1>u, Zenon DEF KfreePush, Goto, WokenBehind
  <2>5. StallJustified'
    BY <1>4, <1>t, Zenon DEF KfreePush, StallJustified, Free
  <2> QED BY <2>1, <2>2, <2>4, <2>5, Zenon
<1>5. CASE KfreeWakeup(c, p)
  <2>1. /\ Running(c, p) /\ InSection(p) /\ iter[p] \in Procs
        /\ WakeupSlot(c, iter[p], KMEM) /\ pc' = pc /\ free' = free
        /\ iter' = [iter EXCEPT ![p] = After(p, iter[p])]
    BY <1>5, SMTT(20) DEF KfreeWakeup, memVars
  <2>2. KmemOwned' /\ SleepOnEmpty'
    BY <2>1, ZenonT(20) DEF WakeupSlot, KmemOwned, SleepOnEmpty
  <2>3. ASSUME NEW d \in Cpus, NEW q \in Procs, Running(d, q)', pc'[q] = "kfree_wakeup",
               NEW s \in Procs, s < iter'[q], s # q
        PROVE  ~Sleeping(s, KMEM)'
    <3>1. q = p /\ d = c
      BY <2>1, <2>3, <1>t, <1>v, <1>r DEF WakeupSlot, Running, OnCpu
    <3>2. plock[iter[p]] = None
      BY <2>1, <2>3, <3>1, <1>t, Zenon DEF WakeupSlot, Running, Executing
    <3>3. s < iter[p] \/ s = iter[p]
      BY <2>1, <2>3, <3>1, <1>t, SchedAssumption DEF After, Procs, SchedAssumption
    <3>4. CASE s = iter[p]
      BY <2>1, <3>2, <3>4, <1>t, Zenon DEF WakeupSlot, Sleeping
    <3>5. CASE s < iter[p]
      <4>1. ~Sleeping(s, KMEM)
        BY <2>1, <2>3, <3>1, <3>5, Zenon DEF WokenBehind
      <4> QED BY <2>1, <3>2, <4>1, <1>t, ZenonT(60) DEF WakeupSlot, Sleeping
    <3> QED BY <3>3, <3>4, <3>5, Zenon
  <2>4. WokenBehind'
    BY <2>3, Zenon DEF WokenBehind
  <2>5. StallJustified'
    BY <2>1, <1>t, <1>v, SMTT(20) DEF WakeupSlot, StallJustified, Free
  <2> QED BY <2>2, <2>4, <2>5, Zenon
<1>6. CASE KfreeReturn(c, p)
  <2>1. Running(c, p) /\ InSection(p) /\ pc[p] = "kfree_wakeup"
    BY <1>6, Zenon DEF KfreeReturn
  <2>2. \A q \in Procs : ~InSection(q)'
    BY <1>6, <2>1, <1>v, <1>t, ZenonT(60) DEF KfreeReturn, Goto
  <2>3. \A q \in Procs : q < iter[p]
    BY <1>6, <1>t, SchedAssumption DEF KfreeReturn, Procs, SchedAssumption
  <2>4. \A q \in Procs : ~Sleeping(q, KMEM)
    BY <2>1, <2>3, <1>r, Zenon DEF WokenBehind, Sleeping
  <2>5. StallJustified'
    BY <1>6, <2>4, SMTT(20) DEF KfreeReturn, StallJustified, Sleeping
  <2> QED BY <2>2, <2>5, Zenon DEF KmemOwned, SleepOnEmpty, WokenBehind
<1> QED BY <1>1, <1>2, <1>3, <1>4, <1>5, <1>6, Zenon DEF KallocStep

\* A step outside of the allocator keeps them because of its frame.
LEMMA AllocFrame ==
  ASSUME AllocInv, KmemFrame
  PROVE  AllocInv'
<1> USE DEF AllocInv, KmemFrame, InSection
<1>1. KmemOwned'
  <2>1. ASSUME NEW p \in Procs, pc'[p] \in {"kalloc_sleep", "kfree_wakeup"}
        PROVE  \E c \in Cpus : cur'[c] = p /\ slock'["kmem"] = c
    <3>1. pc'[p] = pc[p] /\ \A d \in Cpus : cur'[d] = p <=> cur[d] = p
      BY <2>1, Zenon
    <3>2. PICK c \in Cpus : cur[c] = p /\ slock["kmem"] = c
      BY <2>1, <3>1, Zenon DEF KmemOwned
    <3> QED BY <3>1, <3>2, Zenon
  <2> QED BY <2>1, Zenon DEF KmemOwned
<1>2. SleepOnEmpty'
  BY Zenon DEF SleepOnEmpty
<1>3. WokenBehind'
  <2> SUFFICES ASSUME NEW c \in Cpus, NEW p \in Procs, Running(c, p)', pc'[p] = "kfree_wakeup",
                      NEW q \in Procs, q < iter'[p], q # p, Sleeping(q, KMEM)'
               PROVE  FALSE
    BY Zenon DEF WokenBehind
  <2>1. pc'[p] = pc[p] /\ iter'[p] = iter[p] /\ \A d \in Cpus : cur'[d] = p <=> cur[d] = p
    BY Zenon
  <2>2. Running(c, p)
    BY <2>1, Zenon DEF Running, Executing
  <2>3. Sleeping(q, KMEM)
    BY ZenonT(60)
  <2>4. q < iter[p] /\ pc[p] = "kfree_wakeup"
    BY <2>1, ZenonT(60)
  <2> QED BY <2>2, <2>3, <2>4, Zenon DEF WokenBehind
<1>4. StallJustified'
  BY Zenon DEF StallJustified, Free
<1> QED BY <1>1, <1>2, <1>3, <1>4, Zenon

-----------------------------------------------------------------------------
\* The kernel starts with every slot but init's free and nobody asleep.
LEMMA InitInv == Init => KernelInv
<1> SUFFICES ASSUME Init PROVE KernelInv
  BY SMTT(30), Z3T(30)
<1> USE DEF Init, InitFrom, SchedInit
<1>1. TypeOK
  <2>1. SchedTypeOK(Channels)
    BY Zenon DEF SchedTypeOK, States, Panics
  <2>2. initproc \in Procs /\ NPAGES - KFRAMES \in Nat /\ KFRAMES \in Int
    BY SchedAssumption, ProcAssumption DEF SchedAssumption, ProcAssumption, Procs, initproc
  <2>3. "user" \in Labels /\ 1 \in 1 .. NPROC + 1
    BY SchedAssumption DEF SchedAssumption, Labels
  <2> QED BY <2>1, <2>2, <2>3 DEF TypeOK
<1>2. OnCpu
  BY SchedAssumption, Zenon DEF SchedAssumption, OnCpu
<1>3. KmemOwned /\ SleepOnEmpty /\ WokenBehind
  BY Zenon DEF KmemOwned, SleepOnEmpty, WokenBehind
<1>4. StallJustified
  BY Zenon DEF StallJustified, Sleeping
<1>5. DeadOutside /\ Locals
  BY Zenon DEF DeadOutside, Locals, OwnSlot
<1>6. Targets
  BY Zenon DEF Targets, BuildTargets, FreeTargets, CopyTargets, OwnTargets, Building, Freeing,
         Copying, InKalloc, InKfree
<1> QED BY <1>1, <1>2, <1>3, <1>4, <1>5, <1>6, Zenon DEF KernelInv

\* The invariant is inductive.
LEMMA NextInv == KernelInv /\ [Next]_vars => KernelInv'
<1> SUFFICES ASSUME KernelInv, [Next]_vars PROVE KernelInv'
  OBVIOUS
<1>1. CASE UNCHANGED vars
  <2>1. UNCHANGED <<state, chan, killed, plock, slock, cur, panic, inintr, free, frames, ticks,
                    last_stall_start, mem_stall_ticks, pc, iter, tgt, ra, parent>>
    BY <1>1, ZenonT(60) DEF vars, schedVars, memVars, stallVars, threadVars
  <2>2. TypeOK' /\ OnCpu' /\ DeadOutside'
    BY <2>1, SMTT(20) DEF KernelInv, TypeOK, SchedTypeOK, OnCpu, DeadOutside
  <2>3. KmemOwned' /\ SleepOnEmpty' /\ WokenBehind' /\ StallJustified'
    BY <2>1, ZenonT(60)
       DEF KernelInv, KmemOwned, SleepOnEmpty, WokenBehind, StallJustified, Free, Running,
         Executing, Sleeping
  <2>4. Locals' /\ Targets'
    <3>1. state' = state /\ plock' = plock /\ cur' = cur /\ pc' = pc /\ tgt' = tgt /\ iter' = iter /\ ra' = ra
      BY <2>1, Zenon
    <3>2. \A q : /\ Building(q)' <=> Building(q)
                 /\ Freeing(q)' <=> Freeing(q)
                 /\ Copying(q)' <=> Copying(q)
                 /\ OwnSlot(q)' <=> OwnSlot(q)
      BY <3>1, Zenon DEF OwnSlot, Building, Freeing, Copying, InKalloc, InKfree
    <3>3. Locals /\ BuildTargets /\ FreeTargets /\ CopyTargets /\ OwnTargets
      BY Zenon DEF KernelInv, Targets
    <3>4. Locals'
      BY <3>2, <3>3, Zenon DEF Locals
    <3>5. BuildTargets' /\ FreeTargets'
      BY <3>1, <3>2, <3>3, Zenon DEF BuildTargets, FreeTargets
    <3>6. CopyTargets'
      BY <3>1, <3>2, <3>3, Zenon DEF CopyTargets
    <3>7. OwnTargets'
      <4>1. \A q : (Building(q) \/ Freeing(q))' <=> Building(q) \/ Freeing(q)
        BY <3>2, Zenon
      <4> QED BY <3>1, <3>3, <4>1 DEF OwnTargets
    <3> QED BY <3>4, <3>5, <3>6, <3>7, Zenon DEF Targets
  <2> QED BY <2>2, <2>3, <2>4, Zenon DEF KernelInv
<1>2. CASE Next
  <2>1. PICK c \in Cpus, p \in Procs : Step(c, p)
    BY <1>2, Zenon DEF Next, Step
  <2>2. SchedTypes /\ MemTypes /\ ThreadTypes /\ AllocInv
    BY Zenon DEF KernelInv, TypeOK, SchedTypes, MemTypes, ThreadTypes, AllocInv
  <2>3. TypeOK'
    BY <2>1, TypeStep, Zenon
  <2>4. OnCpu' /\ DeadOutside' /\ Locals' /\ Targets'
    BY <2>1, <2>2, OnCpuStep, DeadOutsideStep, LocalsStep, TargetsStep, Zenon DEF KernelInv
  <2>5. AllocInv'
    <3>1. CASE KallocStep(c, p)
      BY <3>1, <2>2, AllocStep, Zenon DEF KernelInv
    <3>2. CASE ~KallocStep(c, p)
      BY <3>2, <2>1, <2>2, OutsideKmem, AllocFrame, Zenon DEF KernelInv
    <3> QED BY <3>1, <3>2, Zenon
  <2> QED BY <2>3, <2>4, <2>5, Zenon DEF KernelInv, AllocInv
<1> QED BY <1>1, <1>2, Zenon

\* KernelInv holds in every state the kernel can reach.
LEMMA InvHolds == Spec => []KernelInv
BY InitInv, NextInv, PTL DEF Spec

\* Type correctness of the process table and the allocator.
THEOREM TypeCorrect == Spec => []TypeOK
<1>1. KernelInv => TypeOK
  BY Zenon DEF KernelInv
<1> QED BY <1>1, InvHolds, PTL

\* kfree() never loses a wakeup: whenever kmem.lock is free and there is a page,
\* no process is left asleep in kalloc(), for any number of processes and CPUs.
THEOREM NoLostMemoryWakeup == Spec => []StallJustified
<1>1. KernelInv => StallJustified
  BY Zenon DEF KernelInv
<1> QED BY <1>1, InvHolds, PTL

\* The scheduler never runs a process on two CPUs, and a process that executes
\* or is marked RUNNING is on one.
THEOREM RunsOnOneCpu == Spec => []OnOneCpu
<1>1. KernelInv => OnOneCpu
  BY DEF KernelInv, OnCpu, OnOneCpu, Running, Executing
<1> QED BY <1>1, InvHolds, PTL

\* The types of what the lemmas about families and pages speak about.
LifeTypes ==
  /\ state \in [Procs -> States] /\ plock \in [Procs -> Cpus \cup {None}]
  /\ slock \in [Locks -> Cpus \cup {None}]
  /\ cur \in [Cpus -> Procs \cup {None}] /\ panic \in [Cpus -> Panics]
  /\ chan \in [Procs -> Channels \cup {None}]
  /\ pc \in [Procs -> Labels] /\ iter \in [Procs -> 1 .. NPROC + 1]
  /\ tgt \in [Procs -> Procs]
  /\ ra \in [Procs -> {"user", "fork", "fork_fail", "freeproc", "wait_reap"}]
  /\ parent \in [Procs -> Procs \cup {None}]
  /\ None \notin Procs /\ None \notin Cpus
  /\ "kmem" \in Locks /\ "wait" \in Locks
  /\ initproc \in Procs

\* They follow from the invariant of the scheduler and the allocator.
LEMMA LifeTypesHold == KernelInv => LifeTypes
<1>1. None \notin Procs /\ None \notin Cpus
  BY SchedAssumption, Zenon DEF SchedAssumption
<1>2. initproc \in Procs
  BY SchedAssumption DEF SchedAssumption, Procs, initproc
<1>3. "kmem" \in Locks /\ "wait" \in Locks
  BY ProcAssumption, Zenon DEF ProcAssumption
<1> QED BY <1>1, <1>2, <1>3, Zenon DEF KernelInv, TypeOK, SchedTypeOK, LifeTypes

=============================================================================
