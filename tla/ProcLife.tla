------------------------------ MODULE ProcLife ------------------------------
(***************************************************************************)
(* The theorems about locks and families: LifeInv (module ProcInv) is kept *)
(* by every step, on top of KernelInv, and the process table implements    *)
(* Lifecycle.                                                              *)
(***************************************************************************)
EXTENDS ProcProofs, ProcTable

\* The thread that executes is RUNNING, and on no other CPU.
LEMMA Executes ==
  ASSUME LifeTypes, OnCpu, NEW c \in Cpus, NEW p \in Procs, Running(c, p)
  PROVE  /\ state[p] = "RUNNING" /\ panic[c] = "no" /\ cur[c] = p
         /\ \A d \in Cpus : cur[d] = p => d = c
BY SMTT(30), Z3T(30) DEF LifeTypes, OnCpu, Running, Executing

\* A step of a thread is a step on its own CPU, but for the scheduler's.
LEMMA Executing1 ==
  ASSUME NEW c \in Cpus, NEW p \in Procs, Step(c, p), ~RunProc(c, p)
  PROVE  Running(c, p)
BY Zenon DEF Step, Preempt, Yield, SyscallStep, Syscall, PageFault, SysExit, SysSbrk, SysKill,
             SysFork,
       SysWait, KernelStep, KallocStep, KallocFirst, KallocSleep, KallocWake, KfreePush,
       KfreeWakeup, KfreeReturn, ForkStep, AllocprocScan, ForkAlloc, ForkParent, ForkRun,
       ForkFail, FreeprocPage, FreeprocReset, ExitStep, ExitReparent, ExitWakeup,
       ExitNextWakeup, ExitZombie, WaitStep, WaitLock, WaitScan, WaitReap, WaitNone,
       WaitSleep, TrapKilled

-----------------------------------------------------------------------------
(* Locks.                                                                  *)

\* What a step of p on c leaves alone on the other CPUs: the thread there, and
\* the locks it owns.
Elsewhere(c) ==
  \A d \in Cpus : d # c =>
    /\ cur'[d] = cur[d] /\ panic'[d] = panic[d]
    /\ \A l \in Locks : slock'[l] = d <=> slock[l] = d
    /\ \A q \in Procs : plock'[q] = d <=> plock[q] = d

\* A step takes locks for its own CPU and releases locks its own CPU owns.
LEMMA ElsewhereStep ==
  ASSUME LifeTypes, OnCpu, KmemOwned, WaitOwned, Targets, NEW c \in Cpus, NEW p \in Procs, Step(c, p)
  PROVE  Elsewhere(c)
<1> USE DEF LifeTypes, Elsewhere
<1>r. Running(c, p) => panic[c] = "no" /\ cur[c] = p /\ \A d \in Cpus : cur[d] = p => d = c
  BY Executes, Zenon
<1>k. ASSUME Running(c, p), pc[p] \in {"kalloc_sleep", "kfree_wakeup"} PROVE slock["kmem"] = c
  BY <1>r, <1>k, Zenon DEF KmemOwned
<1>w. ASSUME Running(c, p), pc[p] \in {"exit_wake_init", "exit_wake_parent", "wait_scan", "wait_sleep"}
      PROVE  slock["wait"] = c
  BY <1>r, <1>w, Zenon DEF WaitOwned
<1>1. CASE UNCHANGED <<cur, panic, slock, plock>>
  BY <1>1, Zenon
<1>2. CASE RunProc(c, p)
  BY <1>2, Zenon DEF RunProc, Schedule
<1>3. CASE Preempt(c, p)
  BY <1>3, Zenon DEF Preempt, Yield
<1>4. CASE KfreeWakeup(c, p) \/ ExitWakeup(c, p)
  <2>1. PICK ch : Running(c, p) /\ WakeupSlot(c, iter[p], ch)
    BY <1>4, Zenon DEF KfreeWakeup, ExitWakeup
  <2> QED BY <2>1, Zenon DEF WakeupSlot
<1>5. CASE KallocSleep(c, p)
  BY <1>5, <1>k DEF KallocSleep, SleepOn, PFree
<1>6. CASE WaitSleep(c, p)
  BY <1>6, <1>w DEF WaitSleep, SleepOn, PFree
<1>7. CASE KallocFirst(c, p) \/ KallocWake(c, p) \/ KfreePush(c, p)
  BY <1>7, SMTT(30) DEF KallocFirst, KallocWake, KfreePush, Free
<1>8. CASE KfreeReturn(c, p)
  BY <1>8, <1>k, SMTT(30) DEF KfreeReturn
<1>9. CASE ForkFail(c, p)
  BY <1>9, Zenon DEF ForkFail, PFree
<1>10. CASE FreeprocReset(c, p)
  <2>1. plock[tgt[p]] = c
    BY <1>10, <1>r, Zenon DEF FreeprocReset, Targets, FreeTargets, Freeing
  <2> QED BY <1>10, <2>1, Zenon DEF FreeprocReset
<1>11. CASE ExitReparent(c, p)
  BY <1>11, Zenon DEF ExitReparent, Free
<1>12. CASE ExitZombie(c, p)
  BY <1>12, <1>w, SMTT(30) DEF ExitZombie
<1>13. CASE WaitLock(c, p)
  BY <1>13, Zenon DEF WaitLock, Free
<1>14. CASE WaitScan(c, p)
  BY <1>14, <1>w, SMTT(30) DEF WaitScan, PFree
<1>15. CASE WaitNone(c, p)
  BY <1>15, <1>w, SMTT(30) DEF WaitNone
<1>16. \/ UNCHANGED <<cur, panic, slock, plock>>
       \/ RunProc(c, p) \/ Preempt(c, p) \/ KfreeWakeup(c, p) \/ ExitWakeup(c, p)
       \/ KallocSleep(c, p) \/ WaitSleep(c, p) \/ KallocFirst(c, p) \/ KallocWake(c, p)
       \/ KfreePush(c, p) \/ KfreeReturn(c, p) \/ ForkFail(c, p) \/ FreeprocReset(c, p)
       \/ ExitReparent(c, p) \/ ExitZombie(c, p) \/ WaitLock(c, p) \/ WaitScan(c, p) \/ WaitNone(c, p)
  BY Zenon DEF Step, SyscallStep, KernelStep, KallocStep, ForkStep, ExitStep, WaitStep,
         PageFault, SysExit, SysSbrk, SysKill, KillSlot, SysFork, SysWait, TrapKilled, ForkAlloc,
         AllocprocScan, ForkRun, ForkParent, FreeprocPage, ExitNextWakeup, WaitReap, schedVars
<1> HIDE DEF LifeTypes, Elsewhere
<1> QED
  BY <1>1, <1>2, <1>3, <1>4, <1>5, <1>6, <1>7, <1>8, <1>9, <1>10, <1>11, <1>12, <1>13, <1>14,
     <1>15, <1>16, Zenon

\* A thread on another CPU does not move.
LEMMA OthersOnCpu ==
  ASSUME LifeTypes, OnCpu, NEW c \in Cpus, NEW p \in Procs, Step(c, p),
         NEW d \in Cpus, d # c, NEW r \in Procs, cur[d] = r
  PROVE  r # p /\ pc'[r] = pc[r] /\ iter'[r] = iter[r] /\ tgt'[r] = tgt[r] /\ ra'[r] = ra[r]
<1>1. r # p
  <2>1. CASE RunProc(c, p)
    BY <2>1, Zenon DEF RunProc, Schedule, OnCpu
  <2>2. CASE Running(c, p)
    BY <2>2, Executes, ZenonT(60)
  <2> QED BY <2>1, <2>2, Executing1, Zenon
<1>2. state[r] # "UNUSED"
  BY DEF OnCpu
<1>3. ThreadTypes
  BY Zenon DEF LifeTypes, ThreadTypes
<1> QED BY <1>1, <1>2, <1>3, OthersStay, SMTT(30)

\* A thread that is in no section of a lock owns none.
LEMMA OwnsNone ==
  ASSUME LifeTypes, LocksHeld, NEW c \in Cpus, NEW p \in Procs, cur[c] = p, panic[c] = "no",
         pc[p] \notin {"kalloc_sleep", "kfree_wakeup"}, ~InWait(p)
  PROVE  NoLocks(c)
BY Zenon DEF LifeTypes, LocksHeld, NoLocks, InWait

\* What LocksHeld says of one CPU.
LocksAt(c) ==
  /\ cur[c] = None => panic[c] = "no"
  /\ panic[c] = "no" =>
       /\ \A l \in Locks : slock[l] = c =>
            /\ cur[c] \in Procs
            /\ \/ l = "kmem" /\ pc[cur[c]] \in {"kalloc_sleep", "kfree_wakeup"}
               \/ l = "wait" /\ InWait(cur[c])
       /\ \A q \in Procs : plock[q] = c =>
            /\ cur[c] \in Procs
            /\ \/ Freeing(cur[c]) /\ tgt[cur[c]] = q
               \/ Copying(cur[c]) /\ iter[cur[c]] = q

\* On the CPU of the step: a thread leaves a section of a lock only when it
\* releases that lock.
LEMMA LocksHere ==
  ASSUME LifeTypes, OnCpu, KmemOwned, WaitOwned, Locals, Targets, LocksHeld,
         NEW c \in Cpus, NEW p \in Procs, Step(c, p)
  PROVE  LocksAt(c)'
<1> USE DEF LifeTypes
<1>r. Running(c, p) => state[p] = "RUNNING" /\ panic[c] = "no" /\ cur[c] = p /\ \A d \in Cpus : cur[d] = p => d = c
  BY Executes, Zenon
<1>h. /\ cur[c] = None => panic[c] = "no"
      /\ panic[c] = "no" =>
           /\ \A l \in Locks : slock[l] = c =>
                /\ cur[c] \in Procs
                /\ \/ l = "kmem" /\ pc[cur[c]] \in {"kalloc_sleep", "kfree_wakeup"}
                   \/ l = "wait" /\ InWait(cur[c])
           /\ \A q \in Procs : plock[q] = c =>
                /\ cur[c] \in Procs
                /\ \/ Freeing(cur[c]) /\ tgt[cur[c]] = q
                   \/ Copying(cur[c]) /\ iter[cur[c]] = q
  BY Zenon DEF LocksHeld
<1>n. ASSUME Running(c, p), pc[p] \notin {"kalloc_sleep", "kfree_wakeup"}, ~InWait(p)
      PROVE  NoLocks(c)
  BY <1>n, <1>r, OwnsNone, Zenon
\* A step that leaves c without a lock, or stops it.
<1>e. ASSUME NoLocks(c)', panic'[c] = "no" \/ cur'[c] # None PROVE LocksAt(c)'
  BY <1>e, Zenon DEF NoLocks, LocksAt
<1>p. ASSUME panic'[c] # "no", cur'[c] # None PROVE LocksAt(c)'
  BY <1>p, Zenon DEF LocksAt
\* A step that leaves the CPU and its locks alone and p in its sections.
<1>s. ASSUME Running(c, p), UNCHANGED <<cur, panic, slock, plock>>,
             pc[p] \in {"kalloc_sleep", "kfree_wakeup"} => pc'[p] \in {"kalloc_sleep", "kfree_wakeup"},
             InWait(p) => InWait(p)',
             \A q \in Procs : (Freeing(p) /\ tgt[p] = q) \/ (Copying(p) /\ iter[p] = q) =>
                              ((Freeing(p) /\ tgt[p] = q) \/ (Copying(p) /\ iter[p] = q))'
      PROVE  LocksAt(c)'
  BY <1>s, <1>r, <1>h, SMTT(30) DEF LocksAt
<1>1. CASE RunProc(c, p)
  <2>1. cur[c] = None /\ panic[c] = "no" /\ slock' = slock /\ plock' = plock /\ panic' = panic
    BY <1>1, Zenon DEF RunProc, Schedule, Executing
  <2>2. NoLocks(c)'
    BY <2>1, <1>h, Zenon DEF NoLocks
  <2> QED BY <2>1, <2>2, <1>e, Zenon
<1>2. CASE Preempt(c, p)
  <2>1. NoLocks(c)' /\ panic'[c] = "no"
    BY <1>2, <1>r, Zenon DEF Preempt, Yield, NoLocks
  <2> QED BY <2>1, <1>e, Zenon
<1>3. CASE SyscallStep(c, p) \/ TrapKilled(c, p)
  <2>1. Running(c, p) /\ pc[p] = "user" /\ UNCHANGED <<slock, plock, panic>>
    BY <1>3, Zenon
       DEF SyscallStep, Syscall, PageFault, SysExit, SysSbrk, SysKill, KillSlot, SysFork, SysWait,
                TrapKilled, schedVars
  <2>2. NoLocks(c)
    BY <2>1, <1>n, Zenon DEF InWait, Copying, Freeing, InKalloc, InKfree
  <2>3. NoLocks(c)' /\ panic'[c] = "no"
    BY <2>1, <2>2, <1>r, Zenon DEF NoLocks
  <2> QED BY <2>3, <1>e, Zenon
<1>4. CASE AllocprocScan(c, p) \/ ForkAlloc(c, p) \/ ForkParent(c, p) \/ ForkRun(c, p)
  <2>1. Running(c, p) /\ pc[p] \in {"allocproc", "fork", "fork_run"} /\ UNCHANGED <<slock, plock, panic>>
    BY <1>4, Zenon DEF AllocprocScan, ForkAlloc, ForkParent, ForkRun, schedVars
  <2>2. NoLocks(c)
    BY <2>1, <1>n, Zenon DEF InWait, Copying, Freeing, InKalloc, InKfree
  <2>3. NoLocks(c)' /\ panic'[c] = "no"
    BY <2>1, <2>2, <1>r, Zenon DEF NoLocks
  <2> QED BY <2>3, <1>e, Zenon
<1>5. CASE ForkFail(c, p)
  <2>1. Running(c, p) /\ pc[p] = "fork_fail" /\ slock' = slock /\ panic' = panic /\ cur' = cur /\ tgt' = tgt
    BY <1>5, Zenon DEF ForkFail
  <2>2. NoLocks(c)
    BY <2>1, <1>n, Zenon DEF InWait, Copying, Freeing, InKalloc, InKfree
  <2>3. CASE plock' = plock
    <3>1. NoLocks(c)' /\ panic'[c] = "no"
      BY <2>1, <2>2, <2>3, <1>r, Zenon DEF NoLocks
    <3> QED BY <3>1, <1>e, Zenon
  <2>4. CASE plock' = [plock EXCEPT ![tgt[p]] = c] /\ pc' = [pc EXCEPT ![p] = "freeproc"]
    BY <2>1, <2>2, <2>4, <1>r, Zenon DEF LocksAt, NoLocks, Freeing
  <2> QED BY <1>5, <2>3, <2>4, Zenon DEF ForkFail, Goto
<1>6. CASE FreeprocPage(c, p)
  <2>1. /\ Running(c, p) /\ pc[p] = "freeproc" /\ UNCHANGED <<cur, panic, slock, plock>>
        /\ pc'[p] = "kfree" /\ ra'[p] = "freeproc" /\ tgt' = tgt
    BY <1>6, Zenon DEF FreeprocPage, schedVars, Goto
  <2> QED BY <2>1, <1>s, Zenon DEF InWait, Freeing, Copying, InKfree, InKalloc
<1>7. CASE FreeprocReset(c, p)
  <2>1. Running(c, p) /\ pc[p] = "freeproc"
    BY <1>7, Zenon DEF FreeprocReset
  <2>2. /\ \A l \in Locks : slock'[l] # c
        /\ \A q \in Procs : plock'[q] # c
    BY <1>7, <2>1, <1>r, <1>h, Zenon DEF FreeprocReset, Copying, InKalloc
  <2>3. panic'[c] = "no"
    BY <1>7, <2>1, <1>r, Zenon DEF FreeprocReset
  <2> QED BY <2>2, <2>3, <1>e, Zenon DEF NoLocks
<1>8. CASE KallocFirst(c, p) \/ KallocWake(c, p)
  <2>1. /\ Running(c, p) /\ pc[p] \in {"kalloc", "kalloc_wake"} /\ UNCHANGED <<cur, panic, plock, iter, tgt, ra>>
        /\ \/ slock' = slock /\ pc'[p] \in {ra[p], FailTo(ra[p])}
           \/ slock' = [slock EXCEPT !["kmem"] = c] /\ pc'[p] = "kalloc_sleep"
    BY <1>8, Zenon DEF KallocFirst, KallocWake, TakePage, Goto
  <2>2. InWait(p) => ra[p] \in {"freeproc", "wait_reap"}
    BY <2>1, Zenon DEF InWait, Copying, Freeing, InKalloc, InKfree
  <2>3. InWait(p) => InWait(p)'
    BY <2>1, Zenon DEF InWait, Copying, Freeing, InKalloc, InKfree, FailTo
  <2>4. /\ Freeing(p) => Freeing(p)'
        /\ Copying(p) => Copying(p)'
    BY <2>1, Zenon DEF Copying, Freeing, InKalloc, InKfree, FailTo
  <2> HIDE DEF LifeTypes
  <2>5. cur'[c] = p /\ slock["kmem"] # c /\ panic'[c] = "no"
    BY <2>1, <1>r, <1>h, Zenon DEF LifeTypes
  <2>6. ASSUME NEW l \in Locks, slock'[l] = c
        PROVE  (l = "kmem" /\ pc'[p] \in {"kalloc_sleep", "kfree_wakeup"}) \/ (l = "wait" /\ InWait(p)')
    BY <2>1, <2>3, <2>5, <2>6, <1>r, <1>h, Zenon DEF LifeTypes
  <2>7. ASSUME NEW q \in Procs, plock'[q] = c
        PROVE  ((Freeing(p) /\ tgt[p] = q) \/ (Copying(p) /\ iter[p] = q))'
    BY <2>1, <2>4, <2>7, <1>r, <1>h, ZenonT(30)
  <2> QED BY <2>5, <2>6, <2>7, Zenon DEF LocksAt, LifeTypes
<1>9. CASE KallocSleep(c, p)
  <2>1. Running(c, p) /\ pc[p] = "kalloc_sleep" /\ SleepOn(c, p, KMEM, "kmem")
    BY <1>9, Zenon DEF KallocSleep
  <2>2. CASE OnlyLock(c, "kmem")
    <3>1. NoLocks(c)' /\ panic'[c] = "no"
      BY <2>1, <2>2, <1>r, Zenon DEF SleepOn, OnlyLock, NoLocks
    <3> QED BY <3>1, <1>e, Zenon
  <2>3. CASE ~OnlyLock(c, "kmem")
    <3>1. panic'[c] # "no" /\ cur'[c] # None
      BY <2>1, <2>3, <1>r, Zenon DEF SleepOn
    <3> QED BY <3>1, <1>p, Zenon
  <2> QED BY <2>2, <2>3, Zenon
<1>10. CASE KfreePush(c, p)
  <2>1. /\ Running(c, p) /\ pc[p] = "kfree" /\ UNCHANGED <<cur, panic, plock, tgt, ra>>
        /\ slock' = [slock EXCEPT !["kmem"] = c] /\ pc'[p] = "kfree_wakeup"
    BY <1>10, Zenon DEF KfreePush, Goto
  <2>2. ~Copying(p) /\ (InWait(p) => Freeing(p)) /\ (Freeing(p) => Freeing(p)') /\ (Freeing(p)' => InWait(p)')
    BY <2>1, Zenon DEF InWait, Copying, Freeing, InKalloc, InKfree
  <2>3. cur'[c] = p /\ panic'[c] = "no"
    BY <2>1, <1>r, Zenon
  <2>4. ASSUME NEW l \in Locks, slock'[l] = c
        PROVE  (l = "kmem" /\ pc'[p] \in {"kalloc_sleep", "kfree_wakeup"}) \/ (l = "wait" /\ InWait(p)')
    BY <2>1, <2>2, <2>4, <1>r, <1>h
  <2>5. ASSUME NEW q \in Procs, plock'[q] = c PROVE Freeing(p)' /\ tgt'[p] = q
    BY <2>1, <2>2, <2>5, <1>r, <1>h, Zenon
  <2> QED BY <2>3, <2>4, <2>5, Zenon DEF LocksAt
<1>11. CASE KfreeWakeup(c, p)
  <2>1. /\ Running(c, p) /\ pc[p] = "kfree_wakeup" /\ WakeupSlot(c, iter[p], KMEM)
        /\ UNCHANGED <<cur, plock, slock, pc, tgt, ra>>
    BY <1>11, Zenon DEF KfreeWakeup, WakeupSlot
  <2>2. CASE plock[iter[p]] = c
    <3>1. panic'[c] # "no" /\ cur'[c] # None
      BY <2>1, <2>2, <1>r, Zenon DEF WakeupSlot
    <3> QED BY <3>1, <1>p, Zenon
  <2>3. CASE plock[iter[p]] # c
    <3>1. panic' = panic
      BY <2>1, <2>3, Zenon DEF WakeupSlot
    <3> QED BY <2>1, <3>1, <1>s, Zenon DEF InWait, Copying, Freeing, InKalloc, InKfree
  <2> QED BY <2>2, <2>3, Zenon
<1>12. CASE KfreeReturn(c, p)
  <2>1. /\ Running(c, p) /\ pc[p] = "kfree_wakeup" /\ UNCHANGED <<cur, panic, plock, tgt, ra>>
        /\ slock' = [slock EXCEPT !["kmem"] = None] /\ pc'[p] = ra[p]
    BY <1>12, Zenon DEF KfreeReturn, Goto
  <2>2. ~Copying(p) /\ (InWait(p) => Freeing(p)) /\ (Freeing(p) => Freeing(p)') /\ (Freeing(p)' => InWait(p)')
    BY <2>1, Zenon DEF InWait, Copying, Freeing, InKalloc, InKfree
  <2>3. cur'[c] = p /\ panic'[c] = "no"
    BY <2>1, <1>r, Zenon
  <2>4. ASSUME NEW l \in Locks, slock'[l] = c PROVE l = "wait" /\ InWait(p)'
    BY <2>1, <2>2, <2>4, <1>r, <1>h, SMTT(30)
  <2>5. ASSUME NEW q \in Procs, plock'[q] = c PROVE Freeing(p)' /\ tgt'[p] = q
    BY <2>1, <2>2, <2>5, <1>r, <1>h, SMTT(30)
  <2> QED BY <2>3, <2>4, <2>5, Zenon DEF LocksAt
<1>13. CASE ExitReparent(c, p)
  <2>1. Running(c, p) /\ pc[p] = "exit" /\ UNCHANGED <<cur, plock>>
    BY <1>13, Zenon DEF ExitReparent
  <2>2. NoLocks(c)
    BY <2>1, <1>n, Zenon DEF InWait, Copying, Freeing, InKalloc, InKfree
  <2>3. CASE p = initproc
    <3>1. panic'[c] # "no" /\ cur'[c] # None
      BY <1>13, <2>1, <2>3, <1>r, Zenon DEF ExitReparent
    <3> QED BY <3>1, <1>p, Zenon
  <2>4. CASE p # initproc
    <3>1. /\ slock' = [slock EXCEPT !["wait"] = c] /\ panic' = panic
          /\ pc'[p] \in {"exit_wake_init", "exit_wake_parent"}
      BY <1>13, <2>4, Zenon DEF ExitReparent, Goto
    <3>2. InWait(p)'
      BY <3>1, Zenon DEF InWait
    <3> QED BY <2>1, <2>2, <3>1, <3>2, <1>r, Zenon DEF LocksAt, NoLocks
  <2> QED BY <2>3, <2>4, Zenon
<1>14. CASE ExitWakeup(c, p)
  <2>1. PICK ch : /\ Running(c, p) /\ pc[p] \in {"exit_wake_init", "exit_wake_parent"}
                  /\ WakeupSlot(c, iter[p], ch) /\ UNCHANGED <<cur, plock, slock, pc, tgt, ra>>
    BY <1>14, ZenonT(30) DEF ExitWakeup, WakeupSlot
  <2>2. CASE plock[iter[p]] = c
    <3>1. panic'[c] # "no" /\ cur'[c] # None
      BY <2>1, <2>2, <1>r, Zenon DEF WakeupSlot
    <3> QED BY <3>1, <1>p, Zenon
  <2>3. CASE plock[iter[p]] # c
    <3>1. panic' = panic
      BY <2>1, <2>3, Zenon DEF WakeupSlot
    <3> QED BY <2>1, <3>1, <1>s, ZenonT(30) DEF InWait, Copying, Freeing, InKalloc, InKfree
  <2> QED BY <2>2, <2>3, Zenon
<1>15. CASE ExitNextWakeup(c, p) \/ WaitReap(c, p)
  <2>1. /\ Running(c, p) /\ UNCHANGED <<cur, panic, slock, plock>>
        /\ \/ pc[p] = "exit_wake_init" /\ pc'[p] = "exit_wake_parent"
           \/ pc[p] = "wait_reap" /\ pc'[p] = "freeproc" /\ tgt'[p] = iter[p]
    BY <1>15, Zenon DEF ExitNextWakeup, WaitReap, schedVars, Goto
  <2> QED BY <2>1, <1>s, Zenon DEF InWait, Copying, Freeing, InKalloc, InKfree
<1>16. CASE ExitZombie(c, p)
  <2>1. Running(c, p) /\ pc[p] = "exit_wake_parent"
    BY <1>16, Zenon DEF ExitZombie
  <2>2. NoLocks(c)' /\ panic'[c] = "no"
    BY <1>16, <2>1, <1>r, <1>h, Zenon DEF ExitZombie, NoLocks, Copying, Freeing, InKalloc, InKfree
  <2> QED BY <2>2, <1>e, Zenon
<1>17. CASE WaitLock(c, p)
  <2>1. /\ Running(c, p) /\ pc[p] = "wait" /\ UNCHANGED <<cur, panic, plock>> /\ pc'[p] = "wait_scan"
        /\ slock' = [slock EXCEPT !["wait"] = c]
    BY <1>17, Zenon DEF WaitLock, Goto
  <2>2. NoLocks(c)
    BY <2>1, <1>n, Zenon DEF InWait, Copying, Freeing, InKalloc, InKfree
  <2>3. InWait(p)'
    BY <2>1, Zenon DEF InWait
  <2> QED BY <2>1, <2>2, <2>3, <1>r, Zenon DEF LocksAt, NoLocks
<1>18. CASE WaitScan(c, p)
  <2>1. Running(c, p) /\ pc[p] = "wait_scan" /\ iter[p] \in Procs /\ cur' = cur /\ panic' = panic
    BY <1>18, Zenon DEF WaitScan
  <2>2. /\ \A l \in Locks : slock[l] = c => l = "wait"
        /\ \A q \in Procs : plock[q] # c
    BY <2>1, <1>r, <1>h, Zenon DEF Copying, Freeing, InKalloc, InKfree
  <2>3. CASE slock' = slock /\ plock' = plock /\ pc' = pc
    BY <2>1, <2>2, <2>3, <1>r, Zenon DEF LocksAt, InWait
  <2>4. CASE slock' = slock /\ plock' = [plock EXCEPT ![iter[p]] = c] /\ pc'[p] = "freeproc" /\ tgt'[p] = iter[p]
    BY <2>1, <2>2, <2>4, <1>r, Zenon DEF LocksAt, InWait, Freeing
  <2>5. CASE slock' = [slock EXCEPT !["wait"] = None] /\ plock' = plock
    <3>1. NoLocks(c)' /\ panic'[c] = "no"
      BY <2>1, <2>2, <2>5, <1>r, Zenon DEF NoLocks
    <3> QED BY <3>1, <1>e, Zenon
  <2>6. CASE /\ slock' = slock /\ plock' = [plock EXCEPT ![iter[p]] = c]
             /\ pc'[p] = "kalloc" /\ ra'[p] = "wait_reap" /\ iter' = iter
    BY <2>1, <2>2, <2>6, <1>r, Zenon DEF LocksAt, InWait, Copying, InKalloc
  <2> QED BY <1>18, <2>1, <2>3, <2>4, <2>5, <2>6, SMTT(30) DEF WaitScan, Goto
<1>19. CASE WaitNone(c, p)
  <2>1. Running(c, p) /\ pc[p] = "wait_scan" /\ cur' = cur /\ panic' = panic /\ plock' = plock
    BY <1>19, ZenonT(30) DEF WaitNone
  <2>2. /\ \A l \in Locks : slock[l] = c => l = "wait"
        /\ \A q \in Procs : plock[q] # c
    BY <2>1, <1>r, <1>h, Zenon DEF Copying, Freeing, InKalloc, InKfree
  <2>3. CASE slock' = slock /\ pc'[p] = "wait_sleep"
    BY <2>1, <2>2, <2>3, <1>r, Zenon DEF LocksAt, InWait
  <2>4. CASE slock' = [slock EXCEPT !["wait"] = None]
    <3>1. NoLocks(c)' /\ panic'[c] = "no"
      BY <2>1, <2>2, <2>4, <1>r, Zenon DEF NoLocks
    <3> QED BY <3>1, <1>e, Zenon
  <2> QED BY <1>19, <2>3, <2>4, Zenon DEF WaitNone, Goto
<1>20. CASE WaitSleep(c, p)
  <2>1. Running(c, p) /\ SleepOn(c, p, WAIT(p), "wait")
    BY <1>20, Zenon DEF WaitSleep
  <2>2. CASE OnlyLock(c, "wait")
    <3>1. NoLocks(c)' /\ panic'[c] = "no"
      BY <2>1, <2>2, <1>r, Zenon DEF SleepOn, OnlyLock, NoLocks
    <3> QED BY <3>1, <1>e, Zenon
  <2>3. CASE ~OnlyLock(c, "wait")
    <3>1. panic'[c] # "no" /\ cur'[c] # None
      BY <2>1, <2>3, <1>r, Zenon DEF SleepOn
    <3> QED BY <3>1, <1>p, Zenon
  <2> QED BY <2>2, <2>3, Zenon
<1> HIDE DEF LifeTypes
<1> QED
  BY <1>1, <1>2, <1>3, <1>4, <1>5, <1>6, <1>7, <1>8, <1>9, <1>10, <1>11, <1>12, <1>13, <1>14,
     <1>15, <1>16, <1>17, <1>18, <1>19, <1>20, Zenon
     DEF Step, KernelStep, KallocStep, ForkStep, ExitStep, WaitStep

\* Every step keeps LocksHeld.
LEMMA LocksHeldStep ==
  ASSUME LifeTypes, OnCpu, KmemOwned, WaitOwned, Locals, Targets, LocksHeld,
         NEW c \in Cpus, NEW p \in Procs, Step(c, p)
  PROVE  LocksHeld'
<1>1. LocksAt(c)'
  BY LocksHere, Zenon
<1>2. Elsewhere(c)
  BY ElsewhereStep, Zenon
<1>3. ASSUME NEW d \in Cpus, d # c PROVE LocksAt(d)'
  <2>1. LocksAt(d)
    BY Zenon DEF LocksHeld, LocksAt
  <2>2. /\ cur'[d] = cur[d] /\ panic'[d] = panic[d]
        /\ \A l \in Locks : slock'[l] = d <=> slock[l] = d
        /\ \A q \in Procs : plock'[q] = d <=> plock[q] = d
    BY <1>2, <1>3, Zenon DEF Elsewhere
  <2>3. CASE cur[d] \notin Procs
    BY <2>1, <2>2, <2>3, Zenon DEF LocksAt
  <2>4. CASE cur[d] \in Procs
    <3>0. PICK r \in Procs : cur[d] = r
      BY <2>4, Zenon
    <3>1. pc'[r] = pc[r] /\ iter'[r] = iter[r] /\ tgt'[r] = tgt[r] /\ ra'[r] = ra[r]
      BY <1>3, <3>0, OthersOnCpu, SMTT(30)
    <3>2. /\ InWait(r) => (pc'[r] \in {"exit_wake_init", "exit_wake_parent", "wait_scan", "wait_sleep"}
                           \/ Copying(r)' \/ Freeing(r)')
          /\ Freeing(r) => Freeing(r)'
          /\ Copying(r) => Copying(r)'
      BY <3>1, Zenon DEF InWait, Copying, Freeing, InKalloc, InKfree
    <3> QED BY <2>1, <2>2, <3>0, <3>1, <3>2, Zenon DEF LocksAt, InWait
  <2> QED BY <2>3, <2>4, Zenon
<1> QED BY <1>1, <1>3, ZenonT(30) DEF LocksHeld, LocksAt

\* Every step keeps WaitOwned: wait_lock is released only on the way out.
LEMMA WaitOwnedStep ==
  ASSUME LifeTypes, OnCpu, KmemOwned, WaitOwned, Targets,
         NEW c \in Cpus, NEW p \in Procs, Step(c, p)
  PROVE  WaitOwned'
<1> DEFINE In(r) == pc[r] \in {"exit_wake_init", "exit_wake_parent", "wait_scan", "wait_sleep"}
<1>r. Running(c, p) => state[p] = "RUNNING" /\ panic[c] = "no" /\ cur[c] = p /\ \A d \in Cpus : cur[d] = p => d = c
  BY Executes, Zenon
<1>q. ASSUME NEW r \in Procs, r # p, In(r)' PROVE \E d \in Cpus : cur'[d] = r /\ slock'["wait"] = d
  <2>1. In(r)
    <3>1. ThreadTypes
      BY Zenon DEF LifeTypes, ThreadTypes
    <3> QED BY <1>q, <3>1, OthersStay, ZenonT(30)
  <2>2. PICK d \in Cpus : cur[d] = r /\ slock["wait"] = d
    BY <2>1, Zenon DEF WaitOwned
  <2>3. d # c
    <3>1. CASE RunProc(c, p)
      BY <3>1, <2>2, Zenon DEF RunProc, Schedule, LifeTypes
    <3>2. CASE Running(c, p)
      BY <3>2, <1>q, <1>r, <2>2, Zenon
    <3> QED BY <3>1, <3>2, Executing1, Zenon
  <2>4. Elsewhere(c)
    BY ElsewhereStep, Zenon
  <2> QED BY <2>2, <2>3, <2>4 DEF Elsewhere, LifeTypes
<1>p. ASSUME In(p)' PROVE \E d \in Cpus : cur'[d] = p /\ slock'["wait"] = d
  <2> USE DEF LifeTypes
  <2>w. ASSUME Running(c, p), In(p) PROVE slock["wait"] = c
    BY <2>w, <1>r, Zenon DEF WaitOwned
  <2>1. CASE RunProc(c, p)
    BY <2>1, <1>p DEF RunProc, Schedule, threadVars, WaitOwned, OnCpu
  <2>2. CASE Preempt(c, p)
    BY <2>2, <1>p, <1>r, <2>w, Zenon DEF Preempt, Yield, threadVars, NoLocks
  <2>3. CASE SyscallStep(c, p) \/ TrapKilled(c, p)
    BY <2>3, <1>p, ZenonT(30)
       DEF SyscallStep, Syscall, PageFault, SysExit, SysSbrk, SysKill, KillSlot, SysFork,
                      SysWait, TrapKilled, threadVars, Goto
  <2>4. CASE KallocFirst(c, p) \/ KallocSleep(c, p) \/ KallocWake(c, p)
    BY <2>4, <1>p, ZenonT(30) DEF KallocFirst, KallocSleep, KallocWake, TakePage, FailTo, Goto
  <2>5. CASE KfreePush(c, p) \/ KfreeWakeup(c, p) \/ KfreeReturn(c, p)
    BY <2>5, <1>p, ZenonT(30) DEF KfreePush, KfreeWakeup, KfreeReturn, Goto
  <2>6. CASE ForkStep(c, p)
    <3>1. pc'[p] \in {"fork", "allocproc", "user", "kalloc", "fork_run", "kfree", "freeproc"}
      BY <2>6, ZenonT(60)
         DEF ForkStep, AllocprocScan, ForkAlloc, ForkParent, ForkRun, ForkFail, FreeprocPage,
                  FreeprocReset, Return, Goto
    <3> QED BY <3>1, <1>p, ZenonT(30)
  <2>7. CASE ExitReparent(c, p)
    BY <2>7, <1>p, <1>r, Zenon DEF ExitReparent, Goto
  <2>8. CASE ExitWakeup(c, p)
    BY <2>8, <1>r, <2>w, Zenon DEF ExitWakeup, WakeupSlot
  <2>9. CASE ExitNextWakeup(c, p)
    BY <2>9, <1>r, <2>w, Zenon DEF ExitNextWakeup, schedVars
  <2>10. CASE ExitZombie(c, p) \/ WaitSleep(c, p) \/ WaitReap(c, p)
    BY <2>10, <1>p, ZenonT(30) DEF ExitZombie, WaitSleep, WaitReap, Goto
  <2>11. CASE WaitLock(c, p)
    BY <2>11, <1>r, Zenon DEF WaitLock
  <2>12. CASE WaitScan(c, p)
    BY <2>12, <1>p, <1>r, <2>w, ZenonT(60) DEF WaitScan, Return, Goto
  <2>13. CASE WaitNone(c, p)
    BY <2>13, <1>p, <1>r, <2>w, ZenonT(60) DEF WaitNone, Goto
  <2> HIDE DEF LifeTypes, In
  <2> QED
    BY <2>1, <2>2, <2>3, <2>4, <2>5, <2>6, <2>7, <2>8, <2>9, <2>10, <2>11, <2>12, <2>13, Zenon
       DEF Step, KernelStep, KallocStep, ExitStep, WaitStep
<1> QED BY <1>q, <1>p, Zenon DEF WaitOwned

-----------------------------------------------------------------------------
(* What the steps do to states, parents and sleepers.                      *)

\* The states a step changes, and from what.
LEMMA StateMoves ==
  ASSUME LifeTypes, OnCpu, Targets, NEW c \in Cpus, NEW p \in Procs, Step(c, p)
  PROVE  \/ state' = state
         \/ \E q \in Procs : state[q] = "SLEEPING" /\ state' = [state EXCEPT ![q] = "RUNNABLE"]
         \/ RunProc(c, p) /\ state[p] = "RUNNABLE" /\ state' = [state EXCEPT ![p] = "RUNNING"]
         \/ Preempt(c, p) /\ state[p] = "RUNNING" /\ state' = [state EXCEPT ![p] = "RUNNABLE"]
         \/ /\ KallocSleep(c, p) \/ WaitSleep(c, p)
            /\ state[p] = "RUNNING" /\ state' = [state EXCEPT ![p] = "SLEEPING"]
         \/ ExitZombie(c, p) /\ state[p] = "RUNNING" /\ state' = [state EXCEPT ![p] = "ZOMBIE"]
         \/ /\ AllocprocScan(c, p)
            /\ \E i \in Procs : state[i] = "UNUSED" /\ state' = [state EXCEPT ![i] = "USED"]
         \/ ForkRun(c, p) /\ state[tgt[p]] = "USED" /\ state' = [state EXCEPT ![tgt[p]] = "RUNNABLE"]
         \/ /\ FreeprocReset(c, p)
            /\ state[tgt[p]] \in {"USED", "ZOMBIE"} /\ state' = [state EXCEPT ![tgt[p]] = "UNUSED"]
<1>r. Running(c, p) => state[p] = "RUNNING"
  BY Executes, Zenon
<1> USE DEF LifeTypes
<1>1. CASE RunProc(c, p)
  BY <1>1, Zenon DEF RunProc, Schedule
<1>2. CASE Preempt(c, p)
  BY <1>2, <1>r, Zenon DEF Preempt, Yield
<1>3. CASE SysKill(c, p)
  <2>1. PICK q \in Procs : KillSlot(q)
    BY <1>3, ZenonT(30) DEF SysKill, KillTargets
  <2>2. CASE state[q] = "SLEEPING"
    BY <2>1, <2>2, ZenonT(30) DEF KillSlot
  <2>3. CASE state[q] # "SLEEPING"
    <3>1. state' = state
      BY <2>1, <2>3, Zenon DEF KillSlot
    <3> QED BY <3>1, Zenon
  <2> QED BY <2>2, <2>3, Zenon
<1>4. CASE KfreeWakeup(c, p) \/ ExitWakeup(c, p)
  <2>1. PICK ch : iter[p] \in Procs /\ WakeupSlot(c, iter[p], ch)
    BY <1>4, ZenonT(30) DEF KfreeWakeup, ExitWakeup
  <2>2. CASE state[iter[p]] = "SLEEPING" /\ state' = [state EXCEPT ![iter[p]] = "RUNNABLE"]
    BY <2>1, <2>2, ZenonT(30)
  <2>3. CASE state' = state
    BY <2>3, Zenon
  <2>4. state' = state \/ state' = [state EXCEPT ![iter[p]] = IF Sleeping(iter[p], ch) THEN "RUNNABLE" ELSE @]
    BY <2>1, ZenonT(30) DEF WakeupSlot
  <2>5. state' = state \/ (state[iter[p]] = "SLEEPING" /\ state' = [state EXCEPT ![iter[p]] = "RUNNABLE"])
    BY <2>1, <2>4, Zenon DEF Sleeping
  <2> QED BY <2>2, <2>3, <2>5, ZenonT(30)
<1>5. CASE KallocSleep(c, p) \/ WaitSleep(c, p)
  BY <1>5, <1>r, Zenon DEF KallocSleep, WaitSleep, SleepOn
<1>6. CASE ExitZombie(c, p)
  BY <1>6, <1>r, ZenonT(30) DEF ExitZombie
<1>7. CASE AllocprocScan(c, p)
  BY <1>7, ZenonT(30) DEF AllocprocScan
<1>8. CASE ForkRun(c, p)
  BY <1>8, Zenon DEF ForkRun, Targets, BuildTargets, Building
<1>9. CASE FreeprocReset(c, p)
  BY <1>9, Zenon DEF FreeprocReset, Targets, FreeTargets, Freeing
<1>10. \/ RunProc(c, p) \/ Preempt(c, p) \/ SysKill(c, p) \/ KfreeWakeup(c, p)
       \/ ExitWakeup(c, p) \/ KallocSleep(c, p) \/ WaitSleep(c, p) \/ AllocprocScan(c, p)
       \/ ForkRun(c, p) \/ FreeprocReset(c, p) \/ ExitZombie(c, p) \/ state' = state
  BY Zenon DEF Step, SyscallStep, KernelStep, KallocStep, ForkStep, ExitStep, WaitStep,
         PageFault, SysExit, SysSbrk, SysFork, SysWait, TrapKilled, KallocFirst,
         KallocWake, KfreePush, KfreeReturn, ForkAlloc, ForkParent, ForkFail, FreeprocPage,
         ExitReparent, ExitNextWakeup, WaitLock, WaitScan, WaitReap, WaitNone, schedVars
<1> QED BY <1>1, <1>2, <1>3, <1>4, <1>5, <1>6, <1>7, <1>8, <1>9, <1>10, Zenon

\* The same for one slot: what a step may do to p->state.
LEMMA StateAt ==
  ASSUME LifeTypes, OnCpu, Targets, NEW c \in Cpus, NEW p \in Procs, Step(c, p), NEW r \in Procs
  PROVE  \/ state'[r] = state[r]
         \/ state[r] = "SLEEPING" /\ state'[r] = "RUNNABLE"
         \/ state[r] = "RUNNABLE" /\ state'[r] = "RUNNING"
         \/ state[r] = "RUNNING" /\ state'[r] \in {"RUNNABLE", "SLEEPING"}
         \/ r = p /\ ExitZombie(c, p) /\ state[r] = "RUNNING" /\ state'[r] = "ZOMBIE"
         \/ state[r] = "UNUSED" /\ state'[r] = "USED"
         \/ r = tgt[p] /\ ForkRun(c, p) /\ state[r] = "USED" /\ state'[r] = "RUNNABLE"
         \/ r = tgt[p] /\ FreeprocReset(c, p) /\ state[r] \in {"USED", "ZOMBIE"} /\ state'[r] = "UNUSED"
<1>1. \A q, v : state' = [state EXCEPT ![q] = v] => state'[r] = IF r = q THEN v ELSE state[r]
  BY Zenon DEF LifeTypes
<1> QED BY <1>1, StateMoves, ZenonT(60)

\* The steps that change a parent.
LEMMA ParentMoves ==
  ASSUME NEW c \in Cpus, NEW p \in Procs, Step(c, p)
  PROVE  \/ parent' = parent
         \/ ForkParent(c, p) \/ FreeprocReset(c, p) \/ (ExitReparent(c, p) /\ p # initproc)
BY Zenon DEF Step, RunProc, Preempt, SyscallStep, KernelStep, ForkStep, ExitStep, WaitStep,
       PageFault, SysExit, SysSbrk, SysKill, SysFork, SysWait, TrapKilled, AllocprocScan, ForkAlloc,
       ForkRun, ForkFail, FreeprocPage, ExitReparent, ExitWakeup, ExitNextWakeup, ExitZombie, WaitLock, WaitScan,
       WaitReap, WaitNone, WaitSleep

\* Only the last step of wait() makes a process sleep on itself.
LEMMA SleepMoves ==
  ASSUME LifeTypes, OnCpu, Targets, NEW c \in Cpus, NEW p \in Procs, Step(c, p),
         NEW s \in Procs, Sleeping(s, WAIT(s))'
  PROVE  Sleeping(s, WAIT(s)) \/ (WaitSleep(c, p) /\ s = p)
<1> USE DEF LifeTypes, Sleeping
<1>w. WAIT(s) # KMEM
  BY Zenon DEF WAIT, KMEM
<1>1. CASE KallocSleep(c, p)
  BY <1>1, <1>w, Zenon DEF KallocSleep, SleepOn
<1>2. CASE WaitSleep(c, p)
  BY <1>2, Zenon DEF WaitSleep, SleepOn
<1>3. CASE RunProc(c, p)
  BY <1>3, Zenon DEF RunProc, Schedule
<1>4. CASE FreeprocReset(c, p)
  BY <1>4, ZenonT(30) DEF FreeprocReset
<1>5. CASE chan' = chan /\ ~KallocSleep(c, p) /\ ~WaitSleep(c, p)
  <2>1. state[s] = "SLEEPING"
    BY <1>5, StateMoves, SMTT(30)
  <2> QED BY <1>5, <2>1, ZenonT(30) DEF WAIT
<1>6. \/ KallocSleep(c, p) \/ WaitSleep(c, p) \/ RunProc(c, p) \/ FreeprocReset(c, p) \/ chan' = chan
  BY Zenon DEF Step, Preempt, Yield, SyscallStep, KernelStep, KallocStep, ForkStep, ExitStep,
               WaitStep,
         PageFault, SysExit, SysSbrk, SysKill, KillSlot, SysFork, SysWait, TrapKilled, KallocFirst,
         KallocWake, KfreePush, KfreeWakeup, WakeupSlot, KfreeReturn, AllocprocScan, ForkAlloc, ForkParent,
         ForkRun, ForkFail, FreeprocPage, ExitReparent, ExitWakeup, ExitNextWakeup, ExitZombie,
         WaitLock, WaitScan, WaitReap, WaitNone, schedVars
<1> QED BY <1>1, <1>2, <1>3, <1>4, <1>5, <1>6, ZenonT(30)

-----------------------------------------------------------------------------
(* Families.                                                               *)

\* init lives, and reparent() leaves nothing to a process that goes on to exit.
LEMMA ExitingStep ==
  ASSUME LifeTypes, OnCpu, Targets, Exiting, NEW c \in Cpus, NEW p \in Procs, Step(c, p)
  PROVE  Exiting'
<1> USE DEF LifeTypes
<1>t. ThreadTypes
  BY Zenon DEF ThreadTypes
<1>1. state'[initproc] \in {"RUNNABLE", "RUNNING", "SLEEPING"}
  <2>1. ExitZombie(c, p) => p # initproc
    BY ZenonT(30) DEF ExitZombie, Exiting
  <2>2. initproc \in Procs /\ state[initproc] \in {"RUNNABLE", "RUNNING", "SLEEPING"}
    BY Zenon DEF Exiting
  <2> QED BY <2>1, <2>2, StateAt, SMTT(30)
<1>2. ASSUME NEW r \in Procs, pc'[r] \in {"exit_wake_init", "exit_wake_parent"}
      PROVE  r # initproc /\ \A q \in Procs : parent'[q] # r
  <2>1. CASE ExitReparent(c, p) /\ r = p
    BY <1>2, <2>1 DEF ExitReparent
  <2>2. CASE ~(ExitReparent(c, p) /\ r = p)
    <3>1. pc[r] \in {"exit_wake_init", "exit_wake_parent"}
      <4>1. CASE r # p
        BY <4>1, <1>2, <1>t, OthersStay, SMTT(30)
      <4>2. CASE r = p
        <5>1. CASE RunProc(c, p) \/ Preempt(c, p)
          BY <5>1, <4>2, <1>2, Zenon DEF RunProc, Preempt, threadVars
        <5>2. CASE SyscallStep(c, p) \/ TrapKilled(c, p)
          BY <5>2, <4>2, <1>2, ZenonT(30)
             DEF SyscallStep, Syscall, PageFault, SysExit, SysSbrk, SysKill, KillSlot, SysFork,
                            SysWait, TrapKilled, threadVars, Goto
        <5>3. CASE KallocStep(c, p)
          BY <5>3, <4>2, <1>2, ZenonT(30)
             DEF KallocStep, KallocFirst, KallocSleep, KallocWake, TakePage, FailTo, Goto,
                                  KfreePush, KfreeWakeup, KfreeReturn
        <5>4. CASE ForkStep(c, p)
          <6>1. pc'[p] \in {"fork", "allocproc", "user", "kalloc", "fork_run", "kfree", "freeproc"}
            BY <5>4, ZenonT(30)
               DEF ForkStep, AllocprocScan, ForkAlloc, ForkParent, ForkRun, ForkFail, FreeprocPage,
                        FreeprocReset, Return, Goto
          <6> QED BY <6>1, <4>2, <1>2, Zenon
        <5>5. CASE ExitWakeup(c, p) \/ ExitNextWakeup(c, p) \/ ExitZombie(c, p)
          BY <5>5, <4>2, <1>2, ZenonT(30) DEF ExitWakeup, ExitNextWakeup, ExitZombie
        <5>6. CASE WaitStep(c, p)
          BY <5>6, <4>2, <1>2, ZenonT(60)
             DEF WaitStep, WaitLock, WaitScan, WaitReap, WaitNone, WaitSleep, Return, Goto
        <5> HIDE DEF LifeTypes
        <5> QED BY <2>2, <4>2, <5>1, <5>2, <5>3, <5>4, <5>5, <5>6, Zenon
                   DEF Step, KernelStep, ExitStep
      <4> QED BY <4>1, <4>2, Zenon
    <3>2. r # initproc /\ \A q \in Procs : parent[q] # r
      BY <3>1, Zenon DEF Exiting
    <3>3. CASE ForkParent(c, p)
      BY <3>1, <3>2, <3>3, ZenonT(30) DEF ForkParent
    <3>4. CASE FreeprocReset(c, p)
      BY <3>2, <3>4, ZenonT(30) DEF FreeprocReset
    <3>5. CASE ExitReparent(c, p) /\ p # initproc
      BY <3>2, <3>5 DEF ExitReparent
    <3> QED BY <3>2, <3>3, <3>4, <3>5, ParentMoves, Zenon
  <2> QED BY <2>1, <2>2, ZenonT(30)
<1> QED BY <1>1, <1>2, ZenonT(30) DEF Exiting

\* A parent is alive: only the childless exit, only the dead are freed.
LEMMA ParentAliveStep ==
  ASSUME LifeTypes, OnCpu, Targets, Exiting, ParentAlive, NEW c \in Cpus, NEW p \in Procs, Step(c, p)
  PROVE  ParentAlive'
<1> USE DEF LifeTypes
<1> DEFINE Live == {"RUNNABLE", "RUNNING", "SLEEPING"}
<1>r. Running(c, p) => state[p] = "RUNNING"
  BY Executes, Zenon
<1>a. \A q \in Procs : parent[q] # None => state[parent[q]] \in Live
  BY Zenon DEF ParentAlive
<1>1. CASE parent' = parent
  <2>1. ASSUME ExitZombie(c, p), NEW q \in Procs PROVE parent[q] # p
    BY <2>1, ZenonT(30) DEF ExitZombie, Exiting
  <2>2. ASSUME NEW q \in Procs, parent[q] # None PROVE state'[parent[q]] \in Live
    <3>1. parent[q] \in Procs /\ state[parent[q]] \in Live /\ (ExitZombie(c, p) => parent[q] # p)
      BY <1>a, <2>1, <2>2, Zenon
    <3> QED BY <3>1, StateAt, SMTT(30)
  <2> QED BY <1>1, <2>2, Zenon DEF ParentAlive
<1>2. CASE ForkParent(c, p)
  BY <1>2, <1>a, <1>r, ZenonT(30) DEF ForkParent, ParentAlive, schedVars
<1>3. CASE FreeprocReset(c, p)
  <2>1. state[tgt[p]] \in {"USED", "ZOMBIE"}
    BY <1>3, ZenonT(30) DEF FreeprocReset, Targets, FreeTargets, Freeing
  <2> QED BY <1>3, <1>a, <2>1, ZenonT(30) DEF FreeprocReset, ParentAlive
<1>4. CASE ExitReparent(c, p) /\ p # initproc
  BY <1>4, <1>a DEF ExitReparent, ParentAlive, Exiting
<1> QED BY <1>1, <1>2, <1>3, <1>4, ParentMoves, Zenon

\* What Families says of one thread and its slot.
Family(p) ==
  /\ Building(p) =>
       IF pc[p] = "fork_run" THEN parent[tgt[p]] = p ELSE parent[tgt[p]] = None
  /\ Freeing(p) => parent[tgt[p]] = IF state[tgt[p]] = "USED" THEN None ELSE p
  /\ Copying(p) => parent[iter[p]] = p
  /\ pc[p] = "wait_scan" /\ iter[p] \in Procs => parent[iter[p]] = p

\* A slot that another thread works on is out of p's reach.
LEMMA OtherFamilies ==
  ASSUME LifeTypes, OnCpu, Targets, Families, NEW c \in Cpus, NEW p \in Procs, Step(c, p),
         NEW r \in Procs, r # p
  PROVE  Family(r)'
<1> USE DEF LifeTypes
<1>t. ThreadTypes
  BY Zenon DEF ThreadTypes
<1>f. /\ Building(p) => parent[tgt[p]] \in {p, None}
      /\ Freeing(p) => parent[tgt[p]] \in {p, None}
      /\ pc[p] = "fork" => parent[tgt[p]] = None /\ state[tgt[p]] = "USED"
  BY ZenonT(30) DEF Families, Building, Targets, BuildTargets
<1>s. /\ Kept(r) /\ tgt'[r] = tgt[r] /\ iter'[r] = iter[r]
      /\ pc'[r] = pc[r] \/ pc'[r] = "user"
  BY <1>t, OthersKeep, OthersStay, SMTT(30)
<1>o. (Building(p) \/ Freeing(p)) /\ (Building(r) \/ Freeing(r)) => tgt[p] # tgt[r]
  BY Zenon DEF Targets, OwnTargets
<1>m. /\ ForkParent(c, p) => pc[p] = "fork" /\ Building(p)
      /\ ForkRun(c, p) => Building(p)
      /\ FreeprocReset(c, p) => Freeing(p)
  BY ZenonT(30) DEF ForkParent, ForkRun, FreeprocReset, Building, Freeing
<1>q. ASSUME NEW q \in Procs, parent[q] \in {r, None},
             (Building(p) \/ Freeing(p)) => tgt[p] # q
      PROVE  parent'[q] = parent[q]
  <2>1. CASE ForkParent(c, p)
    BY <2>1, <1>q, <1>m, ZenonT(30) DEF ForkParent
  <2>2. CASE FreeprocReset(c, p)
    BY <2>2, <1>q, <1>m, ZenonT(30) DEF FreeprocReset
  <2>3. CASE ExitReparent(c, p) /\ p # initproc
    BY <2>3, <1>q, SMTT(30) DEF ExitReparent
  <2> QED BY <2>1, <2>2, <2>3, ParentMoves, Zenon
<1>1. ASSUME Building(r)' PROVE IF pc'[r] = "fork_run" THEN parent'[tgt'[r]] = r ELSE parent'[tgt'[r]] = None
  <2>1. Building(r) /\ pc'[r] = pc[r]
    BY <1>1, <1>s, ZenonT(30) DEF Kept, Building, InKalloc, InKfree
  <2>2. parent[tgt[r]] \in {r, None} /\ (IF pc[r] = "fork_run" THEN parent[tgt[r]] = r ELSE parent[tgt[r]] = None)
    BY <2>1, ZenonT(30) DEF Families
  <2>3. parent'[tgt[r]] = parent[tgt[r]]
    BY <2>1, <2>2, <1>q, <1>o, ZenonT(30)
  <2> QED BY <2>1, <2>2, <2>3, <1>s, ZenonT(30)
<1>2. ASSUME Freeing(r)' PROVE parent'[tgt'[r]] = IF state'[tgt'[r]] = "USED" THEN None ELSE r
  <2>1. Freeing(r)
    BY <1>2, <1>s, ZenonT(30) DEF Kept
  <2>2. parent[tgt[r]] \in {r, None} /\ parent[tgt[r]] = IF state[tgt[r]] = "USED" THEN None ELSE r
    BY <2>1, ZenonT(30) DEF Families
  <2>3. parent'[tgt[r]] = parent[tgt[r]]
    BY <2>1, <2>2, <1>q, <1>o, ZenonT(30)
  <2>4. state'[tgt[r]] = state[tgt[r]]
    <3>1. state[tgt[r]] \in {"USED", "ZOMBIE"}
      BY <2>1, Zenon DEF Targets, FreeTargets
    <3>2. ~(ForkRun(c, p) /\ tgt[r] = tgt[p]) /\ ~(FreeprocReset(c, p) /\ tgt[r] = tgt[p])
      BY <2>1, <1>o, <1>m, ZenonT(60)
    <3> QED BY <3>1, <3>2, StateAt, SMTT(30)
  <2> QED BY <2>2, <2>3, <2>4, <1>s, ZenonT(30)
<1>3. ASSUME Copying(r)' \/ (pc'[r] = "wait_scan" /\ iter'[r] \in Procs) PROVE parent'[iter'[r]] = r
  <2>1. iter[r] \in Procs /\ parent[iter[r]] = r
    BY <1>3, <1>s, ZenonT(30) DEF Kept, Families, Targets, CopyTargets
  <2>2. (Building(p) \/ Freeing(p)) => tgt[p] # iter[r]
    BY <2>1, <1>f, ZenonT(30)
  <2>3. parent'[iter[r]] = parent[iter[r]]
    BY <2>1, <2>2, <1>q, Zenon
  <2> QED BY <2>1, <2>3, <1>s, ZenonT(30)
<1> QED BY <1>1, <1>2, <1>3, ZenonT(30) DEF Family

\* The thread that moves keeps its slot in the family, too.
LEMMA OwnFamily ==
  ASSUME LifeTypes, OnCpu, DeadOutside, Locals, Targets, Families,
         NEW c \in Cpus, NEW p \in Procs, Step(c, p)
  PROVE  Family(p)'
<1> USE DEF LifeTypes
<1>f. /\ Building(p) => IF pc[p] = "fork_run" THEN parent[tgt[p]] = p ELSE parent[tgt[p]] = None
      /\ Freeing(p) => parent[tgt[p]] = IF state[tgt[p]] = "USED" THEN None ELSE p
      /\ Copying(p) => parent[iter[p]] = p
      /\ pc[p] = "wait_scan" /\ iter[p] \in Procs => parent[iter[p]] = p
      /\ \A q \in Procs : state[q] = "UNUSED" => parent[q] = None
  BY ZenonT(30) DEF Families
<1>u. (/\ pc'[p] \in {"user", "allocproc", "exit", "exit_wake_init", "exit_wake_parent", "zombie",
                  "wait", "wait_sleep"}) => Family(p)'
  BY Zenon DEF Family, Building, Freeing, Copying, InKalloc, InKfree
<1>r. Running(c, p) => state[p] = "RUNNING"
  BY Executes, Zenon
<1>n. ASSUME NEW i \in Int, ScanFrom(p, i) PROVE iter'[p] \in Procs => parent[iter'[p]] = p
  <2>1. PICK j \in i .. NPROC + 1 : NextChild(p, i, j) /\ iter' = [iter EXCEPT ![p] = j]
    BY <1>n, Zenon DEF ScanFrom
  <2>2. iter'[p] = j /\ NPROC + 1 \notin Procs
    BY <2>1, SchedAssumption DEF SchedAssumption, Procs
  <2> QED BY <2>1, <2>2, Zenon DEF NextChild, Children
<1>1. CASE RunProc(c, p) \/ Preempt(c, p)
  <2>1. pc' = pc /\ iter' = iter /\ tgt' = tgt /\ ra' = ra /\ parent' = parent
    BY <1>1, Zenon DEF RunProc, Preempt, threadVars
  <2>2. Freeing(p) => state'[tgt[p]] = state[tgt[p]]
    <3>1. Freeing(p) => state[tgt[p]] \in {"USED", "ZOMBIE"}
      BY Zenon DEF Targets, FreeTargets
    <3> QED BY <3>1, <1>1 DEF RunProc, Schedule, Preempt, Yield, Executing, Running, OnCpu
  <2> QED BY <2>1, <2>2, <1>f, ZenonT(30) DEF Family, Building, Freeing, Copying, InKalloc, InKfree
<1>2. CASE SyscallStep(c, p)
  <2>1. /\ pc[p] = "user" /\ parent' = parent /\ tgt' = tgt /\ ra' = ra
        /\ pc'[p] \in {"user", "kalloc", "kfree", "exit", "allocproc", "wait"}
    BY <1>2, ZenonT(30)
       DEF SyscallStep, Syscall, PageFault, SysExit, SysSbrk, SysKill, KillSlot, SysFork, SysWait,
           threadVars, Goto
  <2>2. ra[p] = "user"
    BY <2>1, ZenonT(30) DEF Locals, Building, Freeing, Copying, InKalloc, InKfree, OwnSlot
  <2> QED BY <2>1, <2>2, Zenon DEF Family, Building, Freeing, Copying, InKalloc, InKfree
<1>3. CASE KallocStep(c, p) /\ UNCHANGED parent
  <2>1. pc[p] \in {"kalloc", "kalloc_sleep", "kalloc_wake", "kfree", "kfree_wakeup"} /\ tgt' = tgt
    BY <1>3, ZenonT(30)
       DEF KallocStep, KallocFirst, KallocSleep, KallocWake, KfreePush, KfreeWakeup, KfreeReturn
  <2>2. pc'[p] \notin {"fork_run", "wait_scan"}
    BY <1>3, Zenon
       DEF KallocStep, KallocFirst, KallocSleep, KallocWake, TakePage, FailTo, KfreePush,
           KfreeWakeup,
                KfreeReturn, Goto
  <2>3. Kept(p)
    <3>1. ~AllocprocScan(c, p) /\ ~ForkFail(c, p) /\ ~WaitScan(c, p) /\ ~WaitReap(c, p)
      BY <2>1, ZenonT(30) DEF AllocprocScan, ForkFail, WaitScan, WaitReap
    <3>2. ThreadTypes
      BY Zenon DEF ThreadTypes
    <3> HIDE DEF LifeTypes
    <3> QED BY <3>1, <3>2, MoverKeeps, Zenon
  <2>4. Freeing(p) => state'[tgt[p]] = state[tgt[p]]
    <3>1. Freeing(p) => state[tgt[p]] \in {"USED", "ZOMBIE"}
      BY Zenon DEF Targets, FreeTargets
    <3>2. ~ForkRun(c, p) /\ ~FreeprocReset(c, p)
      BY <2>1, Zenon DEF ForkRun, FreeprocReset
    <3> QED BY <3>1, <3>2, StateAt, SMTT(30)
  <2>5. Building(p)' => parent'[tgt'[p]] = None
    BY <1>3, <1>f, <2>1, <2>3, ZenonT(30) DEF Kept
  <2>6. Freeing(p)' => parent'[tgt'[p]] = IF state'[tgt'[p]] = "USED" THEN None ELSE p
    BY <1>3, <1>f, <2>1, <2>3, <2>4, ZenonT(30) DEF Kept
  <2>7. Copying(p)' => parent'[iter'[p]] = p
    BY <1>3, <1>f, <2>3, ZenonT(30) DEF Kept
  <2> QED BY <2>2, <2>5, <2>6, <2>7, ZenonT(30) DEF Family
<1>4. CASE AllocprocScan(c, p)
  <2>1. CASE pc'[p] \in {"user", "allocproc"}
    BY <2>1, <1>u, Zenon
  <2>2. CASE pc'[p] = "fork"
    <3>1. tgt'[p] = iter[p] /\ state[iter[p]] = "UNUSED" /\ iter[p] \in Procs /\ parent' = parent
      BY <1>4, <1>r, <2>2, ZenonT(30) DEF AllocprocScan, Return, Goto
    <3> QED BY <2>2, <3>1, <1>f, ZenonT(30)
               DEF Family, Building, Freeing, Copying, InKalloc, InKfree
  <2>3. pc'[p] \in {"user", "allocproc", "fork"}
    BY <1>4, ZenonT(30) DEF AllocprocScan, Return, Goto
  <2> QED BY <2>1, <2>2, <2>3, ZenonT(30)
<1>5. CASE ForkAlloc(c, p)
  BY <1>5, <1>f, ZenonT(30)
     DEF ForkAlloc, Goto, Family, Building, Freeing, Copying, InKalloc, InKfree
<1>6. CASE ForkParent(c, p)
  BY <1>6, <1>f, ZenonT(30)
     DEF ForkParent, Goto, Family, Building, Freeing, Copying, InKalloc, InKfree
<1>7. CASE ForkRun(c, p) \/ FreeprocReset(c, p) \/ WaitSleep(c, p) \/ TrapKilled(c, p)
  BY <1>7, <1>u, ZenonT(30) DEF ForkRun, FreeprocReset, WaitSleep, TrapKilled, Return, Goto
<1>8. CASE ForkFail(c, p)
  <2>1. parent[tgt[p]] = None /\ state[tgt[p]] = "USED"
    BY <1>8, <1>f, Zenon DEF ForkFail, Targets, BuildTargets, Building
  <2> QED BY <1>8, <2>1, SMTT(30), Z3T(30) DEF ForkFail, Goto, Family, Building, Freeing, Copying, InKalloc, InKfree
<1>9. CASE FreeprocPage(c, p)
  BY <1>9, <1>f, ZenonT(30)
     DEF FreeprocPage, schedVars, Goto, Family, Building, Freeing, Copying, InKalloc, InKfree
<1>10. CASE ExitStep(c, p)
  <2>1. pc'[p] \in {"exit", "exit_wake_init", "exit_wake_parent", "zombie"}
    BY <1>10, ZenonT(30) DEF ExitStep, ExitReparent, ExitWakeup, ExitNextWakeup, ExitZombie, Goto
  <2> QED BY <2>1, <1>u, ZenonT(30)
<1>11. CASE WaitLock(c, p)
  <2>1. ScanFrom(p, 1) /\ pc'[p] = "wait_scan" /\ parent' = parent
    BY <1>11, Zenon DEF WaitLock, Goto
  <2>2. iter'[p] \in Procs => parent[iter'[p]] = p
    BY <2>1, <1>n, SMTT(30)
  <2> QED BY <2>1, <2>2, ZenonT(30) DEF Family, Building, Freeing, Copying, InKalloc, InKfree
<1>12. CASE WaitScan(c, p)
  <2>1. pc[p] = "wait_scan" /\ iter[p] \in Procs /\ parent[iter[p]] = p /\ parent' = parent /\ state' = state
    BY <1>12, <1>f, ZenonT(30) DEF WaitScan
  <2>2. CASE pc'[p] = "freeproc"
    <3>1. tgt'[p] = iter[p] /\ state[iter[p]] = "ZOMBIE"
      BY <1>12, <2>1, <2>2, ZenonT(30) DEF WaitScan, Return, Goto
    <3> QED BY <2>1, <2>2, <3>1, ZenonT(30)
               DEF Family, Building, Freeing, Copying, InKalloc, InKfree
  <2>3. CASE pc'[p] = "user"
    BY <2>3, <1>u, ZenonT(30)
  <2>4. CASE pc'[p] = "kalloc"
    <3>1. iter'[p] = iter[p] /\ ra'[p] = "wait_reap"
      BY <1>12, <2>1, <2>4, ZenonT(30) DEF WaitScan, Return, Goto
    <3> QED BY <2>1, <2>4, <3>1, ZenonT(30)
               DEF Family, Building, Freeing, Copying, InKalloc, InKfree
  <2>5. CASE pc'[p] = "wait_scan"
    <3>1. iter'[p] \in Procs => parent[iter'[p]] = p
      <4>1. ScanFrom(p, iter[p] + 1)
        BY <1>12, <2>1, <2>5, ZenonT(30) DEF WaitScan, Return, Goto
      <4>2. iter[p] + 1 \in Int
        BY DEF Procs
      <4> QED BY <4>1, <4>2, <1>n, ZenonT(30)
    <3> QED BY <2>1, <2>5, <3>1, ZenonT(30)
               DEF Family, Building, Freeing, Copying, InKalloc, InKfree
  <2>6. pc'[p] \in {"freeproc", "user", "kalloc", "wait_scan"}
    BY <1>12, ZenonT(30) DEF WaitScan, Return, Goto
  <2> QED BY <2>2, <2>3, <2>4, <2>5, <2>6, Zenon
<1>13. CASE WaitReap(c, p)
  <2>1. parent[iter[p]] = p /\ state[iter[p]] = "ZOMBIE"
    BY <1>13, <1>f, ZenonT(30) DEF WaitReap, Targets, CopyTargets, Copying
  <2> QED BY <1>13, <2>1, ZenonT(30)
             DEF WaitReap, schedVars, Goto, Family, Building, Freeing, Copying, InKalloc, InKfree
<1>14. CASE WaitNone(c, p)
  BY <1>14, <1>u, ZenonT(30) DEF WaitNone, Goto
<1> HIDE DEF LifeTypes
<1> QED
  BY <1>1, <1>2, <1>3, <1>4, <1>5, <1>6, <1>7, <1>8, <1>9, <1>10, <1>11, <1>12, <1>13, <1>14, ZenonT(60)
     DEF Step, KernelStep, ForkStep, WaitStep

\* Every step keeps Families: a parent is set for one's own child, or handed on.
LEMMA FamiliesStep ==
  ASSUME LifeTypes, OnCpu, DeadOutside, Locals, Targets, Families,
         NEW c \in Cpus, NEW p \in Procs, Step(c, p)
  PROVE  Families'
<1>1. \A r \in Procs : Family(r)'
  BY OtherFamilies, OwnFamily, Zenon
<1>2. ASSUME NEW r \in Procs, state'[r] = "UNUSED" PROVE parent'[r] = None
  <2> USE DEF LifeTypes
  <2>1. CASE FreeprocReset(c, p) /\ r = tgt[p]
    BY <2>1, ZenonT(30) DEF FreeprocReset
  <2>2. CASE ~(FreeprocReset(c, p) /\ r = tgt[p])
    <3>1. state[r] = "UNUSED"
      BY <1>2, <2>2, StateAt, ZenonT(60)
    <3>2. parent[r] = None
      BY <3>1, Zenon DEF Families
    <3>3. CASE ForkParent(c, p)
      <4>1. state[tgt[p]] = "USED"
        BY <3>3, ZenonT(30) DEF ForkParent, Targets, BuildTargets, Building
      <4> QED BY <3>1, <3>2, <3>3, <4>1, ZenonT(30) DEF ForkParent
    <3>4. CASE FreeprocReset(c, p)
      BY <3>2, <3>4, ZenonT(30) DEF FreeprocReset
    <3>5. CASE ExitReparent(c, p) /\ p # initproc
      BY <3>2, <3>5 DEF ExitReparent
    <3> QED BY <3>2, <3>3, <3>4, <3>5, ParentMoves, Zenon
  <2> QED BY <2>1, <2>2, Zenon
<1> QED BY <1>1, <1>2, Zenon DEF Families, Family

-----------------------------------------------------------------------------
(* exit() and wait().                                                      *)

\* p is in the part of exit() or wait() that wait_lock protects.
WaitSection(p) == pc[p] \in {"exit_wake_init", "exit_wake_parent", "wait_scan", "wait_sleep"}

\* One thread at a time is in there, and none when wait_lock is free.
LEMMA OneInWait ==
  ASSUME LifeTypes, WaitOwned
  PROVE  /\ \A r, q \in Procs : WaitSection(r) /\ WaitSection(q) => r = q
         /\ Free("wait") => \A r \in Procs : ~WaitSection(r)
BY DEF LifeTypes, WaitOwned, WaitSection, Free

\* The other threads in that part stay where they are.
LEMMA OthersInWait ==
  ASSUME LifeTypes, NEW c \in Cpus, NEW p \in Procs, Step(c, p), NEW r \in Procs, r # p, WaitSection(r)'
  PROVE  WaitSection(r) /\ pc'[r] = pc[r] /\ iter'[r] = iter[r]
<1>1. ThreadTypes
  BY Zenon DEF LifeTypes, ThreadTypes
<1> QED BY <1>1, OthersStay, ZenonT(30) DEF WaitSection

\* Every step keeps Scanned: while wait() looks, nobody becomes a ZOMBIE and
\* nobody gets a child from another.
LEMMA ScannedStep ==
  ASSUME LifeTypes, OnCpu, DeadOutside, Targets, WaitOwned, Scanned,
         NEW c \in Cpus, NEW p \in Procs, Step(c, p)
  PROVE  Scanned'
<1> USE DEF LifeTypes
<1>z. ASSUME NEW q \in Procs, state'[q] = "ZOMBIE" PROVE state[q] = "ZOMBIE" \/ (ExitZombie(c, p) /\ q = p)
  BY <1>z, StateAt, ZenonT(60)
<1>1. ASSUME NEW r \in Procs, NEW q \in Procs, r # p, parent'[q] = r, pc'[r] \in {"wait_scan", "wait_sleep"},
             pc'[r] = "wait_scan" => q < iter'[r]
      PROVE  state'[q] # "ZOMBIE"
  <2>1. WaitSection(r) /\ pc'[r] = pc[r] /\ iter'[r] = iter[r]
    <3>1. WaitSection(r)'
      BY <1>1, Zenon DEF WaitSection
    <3> HIDE DEF LifeTypes
    <3> QED BY <1>1, <3>1, OthersInWait, Zenon
  <2>2. ~WaitSection(p) /\ ~Free("wait")
    BY <1>1, <2>1, OneInWait, ZenonT(30)
  <2>3. ~ExitZombie(c, p) /\ ~(ExitReparent(c, p) /\ p # initproc)
    BY <2>2, ZenonT(30) DEF ExitZombie, ExitReparent, WaitSection
  <2>4. parent[q] = r
    BY <1>1, <2>3, ParentMoves, ZenonT(30) DEF ForkParent, FreeprocReset
  <2>5. state[q] # "ZOMBIE"
    BY <1>1, <2>1, <2>4, Zenon DEF Scanned
  <2> QED BY <2>3, <2>5, <1>z, ZenonT(30)
<1>2. ASSUME NEW q \in Procs, parent'[q] = p, pc'[p] \in {"wait_scan", "wait_sleep"},
             pc'[p] = "wait_scan" => q < iter'[p]
      PROVE  state'[q] # "ZOMBIE"
  <2>i. q \in Int /\ iter[p] \in Int /\ q <= NPROC
    BY SchedAssumption DEF SchedAssumption, Procs
  <2>1. CASE WaitLock(c, p)
    <3>1. PICK j \in 1 .. NPROC + 1 : NextChild(p, 1, j) /\ iter' = [iter EXCEPT ![p] = j]
      BY <2>1, ZenonT(30) DEF WaitLock, ScanFrom
    <3>2. q < j /\ q \in 1 .. j - 1
      BY <1>2, <2>1, <2>i, <3>1, SMTT(30) DEF WaitLock, Goto, Procs
    <3> QED BY <1>2, <2>1, <3>1, <3>2, Zenon DEF WaitLock, NextChild, Children
  <2>2. CASE WaitScan(c, p)
    <3>1. pc'[p] = "wait_scan" /\ pc[p] = "wait_scan" /\ state' = state /\ parent' = parent
      BY <1>2, <2>2, ZenonT(30) DEF WaitScan, Return, Goto
    <3>2. ScanFrom(p, iter[p] + 1) /\ state[iter[p]] # "ZOMBIE"
      BY <2>2, <3>1, SMTT(30), Z3T(30) DEF WaitScan, Return, Goto
    <3>3. PICK j \in iter[p] + 1 .. NPROC + 1 : NextChild(p, iter[p] + 1, j) /\ iter' = [iter EXCEPT ![p] = j]
      BY <3>2, Zenon DEF ScanFrom
    <3>4. q < j
      BY <1>2, <3>1, <3>3, Zenon
    <3>5. CASE q < iter[p]
      BY <1>2, <3>1, <3>5, Zenon DEF Scanned
    <3>6. CASE q > iter[p]
      <4>1. q \in iter[p] + 1 .. j - 1
        BY <2>i, <3>3, <3>4, <3>6, SMTT(30), Z3T(30)
      <4> QED BY <1>2, <3>1, <3>3, <4>1, Zenon DEF NextChild, Children
    <3>7. CASE q = iter[p]
      BY <3>1, <3>2, <3>7, Zenon
    <3> QED BY <2>i, <3>5, <3>6, <3>7, SMTT(30), Z3T(30)
  <2>3. CASE WaitNone(c, p)
    <3>1. q < iter[p]
      <4>1. iter[p] \notin Procs /\ iter[p] \in 1 .. NPROC + 1 /\ NPROC \in Nat
        BY <2>3, SchedAssumption, ZenonT(30) DEF WaitNone, SchedAssumption
      <4>2. iter[p] = NPROC + 1
        <5> HIDE DEF LifeTypes
        <5>1. \A i \in 1 .. NPROC + 1 : i \notin Procs => i = NPROC + 1
          BY <4>1 DEF Procs
        <5> QED BY <4>1, <5>1, Zenon
      <4> QED BY <4>1, <4>2, <2>i, SMTT(30), Z3T(30)
    <3> QED BY <1>2, <2>3, <3>1, ZenonT(30) DEF WaitNone, Scanned
  <2>4. CASE RunProc(c, p) \/ Preempt(c, p) \/ SysKill(c, p)
    <3>1. pc'[p] = pc[p] /\ iter'[p] = iter[p] /\ parent' = parent
      BY <2>4, Zenon DEF RunProc, Preempt, SysKill, threadVars
    <3>2. state[q] # "ZOMBIE"
      BY <1>2, <3>1, SMTT(30), Z3T(30) DEF Scanned
    <3>3. ~ExitZombie(c, p)
      BY <1>2, <3>1, Zenon DEF ExitZombie
    <3> QED BY <3>2, <3>3, <1>z, ZenonT(30)
  <2>5. \/ RunProc(c, p) \/ Preempt(c, p) \/ SysKill(c, p) \/ WaitLock(c, p) \/ WaitScan(c, p) \/ WaitNone(c, p)
    <3>2. ASSUME PageFault(c, p) \/ SysExit(c, p) \/ SysSbrk(c, p) \/ SysFork(c, p) \/ SysWait(c, p) \/ TrapKilled(c, p)
          PROVE  FALSE
      BY <1>2, <3>2, ZenonT(30) DEF PageFault, SysExit, SysSbrk, SysFork, SysWait, TrapKilled, Goto
    <3>3. ASSUME KallocStep(c, p) PROVE FALSE
      BY <1>2, <3>3, ZenonT(30)
         DEF KallocStep, KallocFirst, KallocSleep, KallocWake, TakePage, FailTo, Goto,
                        KfreePush, KfreeWakeup, KfreeReturn
    <3>4. ASSUME ForkStep(c, p) PROVE FALSE
      <4>1. pc'[p] \in {"fork", "allocproc", "user", "kalloc", "fork_run", "kfree", "freeproc"}
        BY <3>4, ZenonT(60)
           DEF ForkStep, AllocprocScan, ForkAlloc, ForkParent, ForkRun, ForkFail, FreeprocPage,
                    FreeprocReset, Return, Goto
      <4> QED BY <4>1, <1>2, ZenonT(30)
    <3>5. ASSUME ExitStep(c, p) PROVE FALSE
      BY <1>2, <3>5, ZenonT(30)
         DEF ExitStep, ExitReparent, ExitWakeup, ExitNextWakeup, ExitZombie, Goto
    <3>6. ASSUME WaitReap(c, p) \/ WaitSleep(c, p) PROVE FALSE
      BY <1>2, <3>6, ZenonT(30) DEF WaitReap, WaitSleep, Goto
    <3> HIDE DEF LifeTypes
    <3> QED BY <3>2, <3>3, <3>4, <3>5, <3>6, Zenon DEF Step, SyscallStep, KernelStep, WaitStep
  <2> HIDE DEF LifeTypes
  <2> QED BY <2>1, <2>2, <2>3, <2>4, <2>5, Zenon
<1> QED BY <1>1, <1>2, ZenonT(30) DEF Scanned

\* Every step keeps ParentWoken: the parent cannot go to sleep meanwhile.
LEMMA ParentWokenStep ==
  ASSUME LifeTypes, OnCpu, DeadOutside, Targets, LocksHeld, WaitOwned, Exiting, ParentWoken,
         NEW c \in Cpus, NEW p \in Procs, Step(c, p)
  PROVE  ParentWoken'
<1> USE DEF LifeTypes
<1>1. ASSUME NEW r \in Procs, NEW s \in Procs, r # p,
             pc'[r] = "exit_wake_parent", parent'[r] = s, s < iter'[r], Sleeping(s, WAIT(s))'
      PROVE  FALSE
  <2>1. WaitSection(r) /\ pc'[r] = pc[r] /\ iter'[r] = iter[r]
    <3>1. WaitSection(r)'
      BY <1>1, ZenonT(30) DEF WaitSection
    <3> HIDE DEF LifeTypes
    <3> QED BY <1>1, <3>1, OthersInWait, Zenon
  <2>2. ~WaitSection(p) /\ ~Free("wait")
    BY <1>1, <2>1, OneInWait, ZenonT(30)
  <2>3. ~WaitSleep(c, p) /\ ~(ExitReparent(c, p) /\ p # initproc)
    BY <2>2, Zenon DEF WaitSleep, ExitReparent, WaitSection
  <2>4. state[r] \notin {"USED", "ZOMBIE"}
    BY <1>1, <2>1, ZenonT(30) DEF DeadOutside
  <2>5. parent[r] = s
    <3>1. CASE ForkParent(c, p)
      BY <1>1, <2>4, <3>1, ZenonT(30) DEF ForkParent, Targets, BuildTargets, Building
    <3>2. CASE FreeprocReset(c, p)
      BY <1>1, <2>4, <3>2, ZenonT(30) DEF FreeprocReset, Targets, FreeTargets, Freeing
    <3> QED BY <1>1, <2>3, <3>1, <3>2, ParentMoves, ZenonT(30)
  <2>6. Sleeping(s, WAIT(s))
    BY <1>1, <2>3, SleepMoves, Zenon
  <2> QED BY <1>1, <2>1, <2>5, <2>6, ZenonT(30) DEF ParentWoken
<1>2. ASSUME NEW s \in Procs, pc'[p] = "exit_wake_parent", parent'[p] = s, s < iter'[p], Sleeping(s, WAIT(s))'
      PROVE  FALSE
  <2>a. p # 1 => After(p, 0) = 1
    BY DEF After, Procs
  <2>i. s \in Int /\ s >= 1 /\ iter[p] \in Int
    BY DEF Procs
  <2>1. CASE ExitReparent(c, p)
    BY <1>2, <2>1, <2>a, <2>i, SMTT(30), Z3T(30) DEF ExitReparent, initproc
  <2>2. CASE ExitNextWakeup(c, p)
    <3>1. p # 1
      BY <2>2, ZenonT(30) DEF ExitNextWakeup, Exiting, initproc
    <3> QED BY <1>2, <2>2, <2>a, <2>i, <3>1 DEF ExitNextWakeup
  <2>3. CASE ExitWakeup(c, p)
    <3>1. /\ pc[p] = "exit_wake_parent" /\ parent[p] = s /\ iter[p] \in Procs
          /\ WakeupSlot(c, iter[p], WAIT(s)) /\ iter'[p] = After(p, iter[p])
      BY <1>2, <2>3, ZenonT(30) DEF ExitWakeup
    <3>2. s # p
      BY <3>1, ZenonT(30) DEF Exiting
    <3>3. s < iter[p] \/ s = iter[p]
      BY <1>2, <2>i, <3>1, <3>2 DEF After, Procs
    <3>4. plock[iter[p]] # c
      <4>1. cur[c] = p /\ panic[c] = "no"
        BY <2>3, Executes, ZenonT(30) DEF ExitWakeup
      <4>2. ~Freeing(p) /\ ~Copying(p)
        BY <3>1, ZenonT(30) DEF Freeing, Copying, InKalloc, InKfree
      <4> QED BY <3>1, <4>1, <4>2, ZenonT(30) DEF LocksHeld
    <3>5. state' = [state EXCEPT ![iter[p]] = IF Sleeping(iter[p], WAIT(s)) THEN "RUNNABLE" ELSE @] /\ chan' = chan
      BY <3>1, <3>4, ZenonT(30) DEF WakeupSlot
    <3>6. CASE s = iter[p]
      BY <1>2, <3>1, <3>5, <3>6, Zenon DEF Sleeping
    <3>7. CASE s < iter[p]
      <4>1. ~Sleeping(s, WAIT(s))
        BY <3>1, <3>7, ZenonT(30) DEF ParentWoken
      <4>2. ~WaitSleep(c, p)
        BY <3>1, ZenonT(30) DEF WaitSleep
      <4> QED BY <1>2, <4>1, <4>2, SleepMoves, ZenonT(30)
    <3> QED BY <3>3, <3>6, <3>7, ZenonT(30)
  <2>4. CASE RunProc(c, p) \/ Preempt(c, p) \/ SysKill(c, p)
    <3>1. pc'[p] = pc[p] /\ iter'[p] = iter[p] /\ parent' = parent
      BY <2>4, Zenon DEF RunProc, Preempt, SysKill, threadVars
    <3>2. ~Sleeping(s, WAIT(s))
      BY <1>2, <3>1, ZenonT(30) DEF ParentWoken
    <3>3. ~WaitSleep(c, p)
      BY <1>2, <3>1, Zenon DEF WaitSleep
    <3> QED BY <1>2, <3>2, <3>3, SleepMoves, Zenon
  <2>5. \/ RunProc(c, p) \/ Preempt(c, p) \/ SysKill(c, p) \/ ExitReparent(c, p) \/ ExitWakeup(c, p)
        \/ ExitNextWakeup(c, p)
    <3>2. ASSUME PageFault(c, p) \/ SysExit(c, p) \/ SysSbrk(c, p) \/ SysFork(c, p) \/ SysWait(c, p) \/ TrapKilled(c, p)
          PROVE  FALSE
      BY <1>2, <3>2, ZenonT(30) DEF PageFault, SysExit, SysSbrk, SysFork, SysWait, TrapKilled, Goto
    <3>3. ASSUME KallocStep(c, p) PROVE FALSE
      BY <1>2, <3>3, ZenonT(30)
         DEF KallocStep, KallocFirst, KallocSleep, KallocWake, TakePage, FailTo, Goto,
                        KfreePush, KfreeWakeup, KfreeReturn
    <3>4. ASSUME ForkStep(c, p) PROVE FALSE
      <4>1. pc'[p] \in {"fork", "allocproc", "user", "kalloc", "fork_run", "kfree", "freeproc"}
        BY <3>4, ZenonT(30)
           DEF ForkStep, AllocprocScan, ForkAlloc, ForkParent, ForkRun, ForkFail, FreeprocPage,
                    FreeprocReset, Return, Goto
      <4> QED BY <4>1, <1>2, ZenonT(30)
    <3>5. ASSUME ExitZombie(c, p) PROVE FALSE
      BY <1>2, <3>5, ZenonT(30) DEF ExitZombie, Goto
    <3>6. ASSUME WaitStep(c, p) PROVE FALSE
      <4>1. pc'[p] \in {"wait_scan", "freeproc", "user", "kalloc", "wait_sleep", "wait"}
        BY <3>6, ZenonT(30)
           DEF WaitStep, WaitLock, WaitScan, WaitReap, WaitNone, WaitSleep, Return, Goto
      <4> QED BY <4>1, <1>2, ZenonT(30)
    <3> HIDE DEF LifeTypes
    <3> QED BY <3>2, <3>3, <3>4, <3>5, <3>6, Zenon DEF Step, SyscallStep, KernelStep, ExitStep
  <2> HIDE DEF LifeTypes
  <2> QED BY <2>1, <2>2, <2>3, <2>4, <2>5, Zenon
<1> QED BY <1>1, <1>2, ZenonT(30) DEF ParentWoken

\* Every step keeps ZombiePending: exit() becomes a ZOMBIE only after its parent
\* is awake, wait() sleeps only without a ZOMBIE, and whom reparent() hands a
\* ZOMBIE is woken before wait_lock is free again.
LEMMA ZombiePendingStep ==
  ASSUME LifeTypes, OnCpu, DeadOutside, Targets, LocksHeld, WaitOwned, Exiting, Scanned, ParentWoken,
         ZombiePending, NEW c \in Cpus, NEW p \in Procs, Step(c, p)
  PROVE  ZombiePending'
<1> USE DEF LifeTypes
<1> SUFFICES ASSUME NEW x \in Procs, NEW q \in Procs, parent'[q] = x, state'[q] = "ZOMBIE", Sleeping(x, WAIT(x))'
             PROVE  x = initproc /\ \E r \in Procs : pc'[r] = "exit_wake_init" /\ iter'[r] = initproc
  BY ZenonT(30) DEF ZombiePending
<1>a. p # 1 => After(p, 0) = 1
  BY DEF After, Procs
<1>z. state[q] = "ZOMBIE" \/ (ExitZombie(c, p) /\ q = p)
  BY StateMoves, ZenonT(60)
<1>s. Sleeping(x, WAIT(x)) \/ (WaitSleep(c, p) /\ x = p)
  BY SleepMoves, ZenonT(30)
<1>o. ASSUME parent[q] = x, state[q] = "ZOMBIE", Sleeping(x, WAIT(x))
      PROVE  x = initproc /\ \E r \in Procs : pc[r] = "exit_wake_init" /\ iter[r] = initproc /\ WaitSection(r)
  BY <1>o, ZenonT(30) DEF ZombiePending, WaitSection
<1>1. CASE WaitSleep(c, p)
  <2>1. parent' = parent /\ WaitSection(p) /\ pc[p] = "wait_sleep" /\ ~ExitZombie(c, p)
    BY <1>1, ZenonT(30) DEF WaitSleep, ExitZombie, WaitSection
  <2>2. x # p
    BY <2>1, <1>z, ZenonT(30) DEF Scanned
  <2>3. PICK r \in Procs : pc[r] = "exit_wake_init" /\ WaitSection(r)
    BY <2>1, <2>2, <1>z, <1>s, <1>o, ZenonT(30)
  <2> QED BY <2>1, <2>3, OneInWait, ZenonT(30)
<1>2. CASE ExitZombie(c, p)
  <2>1. parent' = parent /\ WaitSection(p) /\ pc[p] = "exit_wake_parent" /\ ~WaitSleep(c, p) /\ iter[p] \notin Procs
    BY <1>2, ZenonT(30) DEF WaitSleep, ExitZombie, WaitSection
  <2>2. CASE q = p
    <3>1. x < iter[p]
      <4>1. iter[p] \in 1 .. NPROC + 1 /\ x \in Procs /\ NPROC \in Nat
        BY SchedAssumption, Zenon DEF SchedAssumption
      <4> HIDE DEF LifeTypes
      <4>2. \A i \in 1 .. NPROC + 1 : i \notin Procs => x < i
        BY <4>1 DEF Procs
      <4> QED BY <4>1, <4>2, <2>1, Zenon
    <3> QED BY <2>1, <2>2, <3>1, <1>s, ZenonT(30) DEF ParentWoken
  <2>3. CASE q # p
    <3>1. PICK r \in Procs : pc[r] = "exit_wake_init" /\ WaitSection(r)
      BY <2>1, <2>3, <1>z, <1>s, <1>o, ZenonT(30)
    <3> QED BY <2>1, <3>1, OneInWait, ZenonT(30)
  <2> QED BY <2>2, <2>3, ZenonT(30)
<1>3. CASE ExitReparent(c, p) /\ p # initproc
  <2>1. pc[p] = "exit" /\ Free("wait") /\ ~WaitSleep(c, p) /\ ~ExitZombie(c, p)
    BY <1>3, ZenonT(30) DEF ExitReparent, WaitSleep, ExitZombie
  <2>2. parent[q] # x
    BY <2>1, <1>z, <1>s, <1>o, OneInWait, ZenonT(30)
  <2>3. parent[q] = p /\ x = initproc
    BY <1>3, <2>2 DEF ExitReparent
  <2>4. pc'[p] = "exit_wake_init" /\ iter'[p] = After(p, 0)
    BY <1>3, <2>3, Zenon DEF ExitReparent, Children, Goto
  <2> QED BY <1>3, <1>a, <2>3, <2>4, Zenon DEF initproc
<1>4. CASE ExitWakeup(c, p)
  <2>1. parent' = parent /\ WaitSection(p) /\ ~WaitSleep(c, p) /\ ~ExitZombie(c, p) /\ iter[p] \in Procs
    BY <1>4, ZenonT(30) DEF WaitSleep, ExitZombie, ExitWakeup, WaitSection
  <2>2. PICK r \in Procs : pc[r] = "exit_wake_init" /\ WaitSection(r) /\ iter[r] = initproc
    BY <2>1, <1>z, <1>s, <1>o, ZenonT(30)
  <2>3. r = p /\ x = initproc
    BY <2>1, <2>2, <1>z, <1>s, <1>o, OneInWait, ZenonT(30)
  <2>4. plock[iter[p]] # c
    <3>1. cur[c] = p /\ panic[c] = "no"
      BY <1>4, Executes, ZenonT(30) DEF ExitWakeup
    <3>2. ~Freeing(p) /\ ~Copying(p)
      BY <2>2, <2>3, ZenonT(30) DEF Freeing, Copying, InKalloc, InKfree
    <3> QED BY <2>1, <3>1, <3>2, ZenonT(30) DEF LocksHeld
  <2>5. WakeupSlot(c, initproc, WAIT(initproc)) /\ plock[initproc] # c
    BY <1>4, <2>2, <2>3, <2>4, ZenonT(30) DEF ExitWakeup
  <2> QED BY <2>3, <2>5, ZenonT(30) DEF WakeupSlot, Sleeping
<1>5. CASE ExitNextWakeup(c, p)
  <2>1. parent' = parent /\ WaitSection(p) /\ ~WaitSleep(c, p) /\ ~ExitZombie(c, p) /\ iter[p] \notin Procs
    BY <1>5, ZenonT(30) DEF WaitSleep, ExitZombie, ExitNextWakeup, WaitSection
  <2>2. PICK r \in Procs : WaitSection(r) /\ iter[r] = initproc
    BY <2>1, <1>z, <1>s, <1>o, ZenonT(30)
  <2> QED BY <2>1, <2>2, OneInWait, ZenonT(30)
<1>6. CASE /\ ~WaitSleep(c, p) /\ ~ExitZombie(c, p) /\ ~(ExitReparent(c, p) /\ p # initproc)
           /\ ~ExitWakeup(c, p) /\ ~ExitNextWakeup(c, p)
  <2>1. state[q] = "ZOMBIE" /\ Sleeping(x, WAIT(x))
    BY <1>6, <1>z, <1>s, ZenonT(30)
  <2>2. parent[q] = x
    <3>1. CASE ForkParent(c, p)
      BY <2>1, <3>1, ZenonT(30) DEF ForkParent, Targets, BuildTargets, Building
    <3>2. CASE FreeprocReset(c, p)
      BY <3>2, ZenonT(30) DEF FreeprocReset
    <3> QED BY <1>6, <3>1, <3>2, ParentMoves, ZenonT(30)
  <2>3. PICK r \in Procs : pc[r] = "exit_wake_init" /\ iter[r] = initproc
    BY <2>1, <2>2, <1>o, ZenonT(30)
  <2>4. pc'[r] = pc[r] /\ iter'[r] = iter[r]
    <3>1. CASE r # p
      <4>1. state[r] # "UNUSED" /\ ThreadTypes
        BY <2>3, Zenon DEF DeadOutside, ThreadTypes
      <4> HIDE DEF LifeTypes
      <4> QED BY <3>1, <4>1, OthersStay, ZenonT(30)
    <3>2. CASE r = p
      <4>1. CASE RunProc(c, p) \/ Preempt(c, p)
        BY <3>2, <4>1, ZenonT(30) DEF RunProc, Preempt, threadVars
      <4>2. ASSUME SyscallStep(c, p) \/ TrapKilled(c, p) PROVE FALSE
        BY <2>3, <3>2, <4>2, ZenonT(30)
           DEF SyscallStep, Syscall, PageFault, SysExit, SysSbrk, SysKill, SysFork, SysWait,
               TrapKilled
      <4>3. ASSUME KallocStep(c, p) PROVE FALSE
        BY <2>3, <3>2, <4>3, ZenonT(30)
           DEF KallocStep, KallocFirst, KallocSleep, KallocWake, KfreePush, KfreeWakeup, KfreeReturn
      <4>4. ASSUME ForkStep(c, p) PROVE FALSE
        BY <2>3, <3>2, <4>4, ZenonT(30)
           DEF ForkStep, AllocprocScan, ForkAlloc, ForkParent, ForkRun, ForkFail, FreeprocPage,
                        FreeprocReset
      <4>5. ASSUME WaitStep(c, p) PROVE FALSE
        BY <2>3, <3>2, <4>5, ZenonT(30)
           DEF WaitStep, WaitLock, WaitScan, WaitReap, WaitNone, WaitSleep
      <4>6. ASSUME ExitReparent(c, p) PROVE FALSE
        BY <2>3, <3>2, <4>6, ZenonT(30) DEF ExitReparent
      <4> HIDE DEF LifeTypes
      <4> QED BY <1>6, <4>1, <4>2, <4>3, <4>4, <4>5, <4>6, Zenon DEF Step, KernelStep, ExitStep
    <3> QED BY <3>1, <3>2, ZenonT(30)
  <2>5. x = initproc
    BY <2>1, <2>2, <1>o, ZenonT(30)
  <2> QED BY <2>3, <2>4, <2>5, ZenonT(30)
<1> HIDE DEF LifeTypes
<1> QED BY <1>1, <1>2, <1>3, <1>4, <1>5, <1>6, Zenon

\* LifeInv holds at boot.
LEMMA InitLife == Init => LifeInv
<1> SUFFICES ASSUME Init PROVE LifeInv
  OBVIOUS
<1> USE DEF Init, InitFrom, SchedInit
<1>0. initproc \in Procs /\ None \notin Procs /\ None \notin Cpus
  BY SchedAssumption DEF SchedAssumption, Procs, initproc
<1>1. LocksHeld
  BY <1>0, ZenonT(30) DEF LocksHeld
<1>2. WaitOwned /\ Exiting /\ ParentAlive
  BY <1>0, Zenon DEF WaitOwned, Exiting, ParentAlive
<1>3. Families
  BY <1>0, ZenonT(30) DEF Families, Building, Freeing, Copying, InKalloc, InKfree
<1>4. Scanned /\ ParentWoken /\ ZombiePending
  BY <1>0, Zenon DEF Scanned, ParentWoken, ZombiePending, Sleeping
<1> QED BY <1>1, <1>2, <1>3, <1>4, Zenon DEF LifeInv

\* LifeInv is inductive, next to KernelInv.
LEMMA NextLife == KernelInv /\ LifeInv /\ [Next]_vars => LifeInv'
<1> SUFFICES ASSUME KernelInv, LifeInv, [Next]_vars PROVE LifeInv'
  OBVIOUS
<1>1. CASE UNCHANGED vars
  <2>1. UNCHANGED <<state, chan, plock, slock, cur, panic, pc, iter, tgt, ra, parent>>
    BY <1>1, Zenon DEF vars, schedVars, memVars, stallVars, threadVars
  <2>2. LocksHeld' /\ WaitOwned' /\ Exiting' /\ ParentAlive'
    <3>1. LocksHeld /\ WaitOwned /\ Exiting /\ ParentAlive
      BY ZenonT(60) DEF LifeInv
    <3>2. LocksHeld'
      <4>1. /\ LocksHeld /\ slock' = slock /\ plock' = plock /\ cur' = cur /\ panic' = panic
            /\ pc' = pc /\ tgt' = tgt /\ iter' = iter /\ ra' = ra
        BY <2>1, <3>1, Zenon
      <4>2. \A q : /\ InWait(q)' <=> InWait(q)
                   /\ Freeing(q)' <=> Freeing(q)
                   /\ Copying(q)' <=> Copying(q)
        BY <4>1, Zenon DEF InWait, Building, Freeing, Copying, InKalloc, InKfree
      <4>3. \A c \in Cpus : cur'[c] = None => panic'[c] = "no"
        BY <4>1, Zenon DEF LocksHeld
      <4>4. ASSUME NEW c \in Cpus, panic'[c] = "no", NEW l \in Locks, slock'[l] = c
            PROVE  /\ cur'[c] \in Procs
                   /\ \/ l = "kmem" /\ pc'[cur'[c]] \in {"kalloc_sleep", "kfree_wakeup"}
                      \/ l = "wait" /\ InWait(cur[c])'
        BY <4>1, <4>2, <4>4, SMTT(30), Z3T(30) DEF LocksHeld
      <4>5. ASSUME NEW c \in Cpus, panic'[c] = "no", NEW q \in Procs, plock'[q] = c
            PROVE  /\ cur'[c] \in Procs
                   /\ \/ Freeing(cur[c])' /\ tgt'[cur'[c]] = q
                      \/ Copying(cur[c])' /\ iter'[cur'[c]] = q
        BY <4>1, <4>2, <4>5, SMTT(30), Z3T(30) DEF LocksHeld
      <4> QED BY <4>3, <4>4, <4>5, Zenon DEF LocksHeld
    <3>3. WaitOwned'
      BY <2>1, <3>1, Zenon DEF WaitOwned, InWait
    <3>4. Exiting' /\ ParentAlive'
      BY <2>1, <3>1, Zenon DEF Exiting, ParentAlive
    <3> QED BY <3>2, <3>3, <3>4, Zenon
  <2>3. Families'
    BY <2>1, Zenon DEF LifeInv, Families, Building, Freeing, Copying, InKalloc, InKfree
  <2>4. Scanned' /\ ParentWoken' /\ ZombiePending'
    BY <2>1, Zenon DEF LifeInv, Scanned, ParentWoken, ZombiePending, Sleeping
  <2> QED BY <2>2, <2>3, <2>4, Zenon DEF LifeInv
<1>2. CASE Next
  <2>1. PICK c \in Cpus, p \in Procs : Step(c, p)
    BY <1>2, Zenon DEF Next, Step
  <2>2. LifeTypes
    BY LifeTypesHold, Zenon
  <2>3. OnCpu /\ KmemOwned /\ DeadOutside /\ Locals /\ Targets
    BY Zenon DEF KernelInv
  <2>4. LocksHeld /\ WaitOwned /\ Exiting /\ ParentAlive /\ Families /\ Scanned /\ ParentWoken /\ ZombiePending
    BY Zenon DEF LifeInv
  <2>5. LocksHeld' /\ WaitOwned'
    BY <2>1, <2>2, <2>3, <2>4, LocksHeldStep, WaitOwnedStep, Zenon
  <2>6. Exiting' /\ ParentAlive' /\ Families'
    BY <2>1, <2>2, <2>3, <2>4, ExitingStep, ParentAliveStep, FamiliesStep, Zenon
  <2>7. Scanned' /\ ParentWoken' /\ ZombiePending'
    BY <2>1, <2>2, <2>3, <2>4, ScannedStep, ParentWokenStep, ZombiePendingStep, Zenon
  <2> QED BY <2>5, <2>6, <2>7, Zenon DEF LifeInv
<1> QED BY <1>1, <1>2, Zenon

\* LifeInv holds in every state the kernel can reach.
LEMMA LifeHolds == Spec => [](KernelInv /\ LifeInv)
BY InitInv, NextInv, InitLife, NextLife, PTL DEF Spec

\* Neither preemption nor sleep strands a spinlock: a CPU in its scheduler, and
\* a CPU in user mode, owns none (sched(), yield(), sleep(), usertrap()).
THEOREM NoStrandedLock == Spec => []NoLockStranded
<1>1. KernelInv /\ LifeInv => NoLockStranded
  <2> SUFFICES ASSUME KernelInv, LifeInv, NEW c \in Cpus,
                      cur[c] = None \/ (panic[c] = "no" /\ pc[cur[c]] = "user")
               PROVE  NoLocks(c)
    BY Zenon DEF NoLockStranded
  <2>1. LifeTypes /\ LocksHeld
    BY LifeTypesHold, Zenon DEF LifeInv
  <2>2. panic[c] = "no" /\ (cur[c] = None \/ pc[cur[c]] = "user")
    BY <2>1, Zenon DEF LocksHeld
  <2> QED BY <2>1, <2>2, SMTT(30)
             DEF LifeTypes, LocksHeld, NoLocks, InWait, Freeing, Copying, InKalloc, InKfree
<1> QED BY <1>1, LifeHolds, PTL

\* No child is forgotten, however exits, waits, forks and kills interleave: every
\* child has a live parent, and nobody sleeps in wait() next to a ZOMBIE child
\* once wait_lock is free (kexit(), reparent(), kwait()).
THEOREM NoForgottenZombie == Spec => []ZombiesNoticed
<1>1. KernelInv /\ LifeInv => ZombiesNoticed
  <2> SUFFICES ASSUME KernelInv, LifeInv PROVE ZombiesNoticed
    OBVIOUS
  <2>1. LifeTypes /\ WaitOwned /\ ZombiePending /\ ParentAlive
    BY LifeTypesHold, Zenon DEF LifeInv
  <2>2. NoMissedZombie
    BY <2>1, OneInWait, Zenon DEF NoMissedZombie, ZombiePending, WaitSection
  <2> QED BY <2>1, <2>2, Zenon DEF ZombiesNoticed
<1> QED BY <1>1, LifeHolds, PTL

-----------------------------------------------------------------------------
(* The process table implements Lifecycle.                                 *)

\* Every step of the kernel is a step of Lifecycle, or changes neither the
\* states nor the parents.
LEMMA LifeStep ==
  ASSUME KernelInv, LifeInv, NEW c \in Cpus, NEW p \in Procs, Step(c, p)
  PROVE  Life!LifeNext \/ UNCHANGED <<state, parent>>
<1>t. LifeTypes /\ OnCpu /\ Targets /\ Exiting /\ Families
  BY LifeTypesHold, Zenon DEF KernelInv, LifeInv
<1>s. Life!Slots = Procs /\ Life!init = initproc
  BY Zenon DEF Life!Slots, Procs, Life!init, initproc
<1>r. Running(c, p) => state[p] = "RUNNING"
  BY <1>t, Executes, Zenon
<1>x. tgt[p] \in Procs
  BY <1>t, Zenon DEF LifeTypes
<1> USE DEF Life!Become
<1>1. CASE ForkParent(c, p)
  <2>1. state[tgt[p]] = "USED" /\ parent[tgt[p]] = None
    BY <1>1, <1>t, ZenonT(30) DEF ForkParent, Targets, BuildTargets, Families, Building
  <2>2. Life!Adopt(p, tgt[p])
    BY <1>1, <1>r, <2>1, ZenonT(30) DEF ForkParent, schedVars, Life!Adopt
  <2> QED BY <2>2, <1>s, <1>x, ZenonT(30) DEF Life!LifeNext
<1>2. CASE FreeprocReset(c, p)
  <2>1. /\ state[tgt[p]] \in {"USED", "ZOMBIE"}
        /\ parent[tgt[p]] = IF state[tgt[p]] = "USED" THEN None ELSE p
    BY <1>2, <1>t, ZenonT(30) DEF FreeprocReset, Targets, FreeTargets, Families, Freeing
  <2>2. /\ state' = [state EXCEPT ![tgt[p]] = "UNUSED"]
        /\ parent' = [parent EXCEPT ![tgt[p]] = None]
    BY <1>2, ZenonT(30) DEF FreeprocReset
  <2>3. CASE state[tgt[p]] = "USED"
    <3>1. parent' = parent
      BY <2>1, <2>2, <2>3, <1>t, <1>x, Zenon DEF LifeTypes
    <3>2. Life!Abandon(tgt[p])
      BY <2>1, <2>2, <2>3, <3>1, Zenon DEF Life!Abandon
    <3> QED BY <3>2, <1>s, <1>x, ZenonT(30) DEF Life!LifeNext
  <2>4. CASE state[tgt[p]] = "ZOMBIE"
    <3>1. Life!Reap(p, tgt[p])
      BY <1>2, <1>r, <2>1, <2>2, <2>4, ZenonT(30) DEF FreeprocReset, Life!Reap
    <3> QED BY <3>1, <1>s, <1>x, ZenonT(30) DEF Life!LifeNext
  <2> QED BY <2>1, <2>3, <2>4, ZenonT(30)
<1>3. CASE ExitReparent(c, p) /\ p # initproc
  <2>1. Life!HandOver(p)
    BY <1>3, <1>r, <1>s, Zenon DEF ExitReparent, Life!HandOver
  <2> QED BY <2>1, <1>s, Zenon DEF Life!LifeNext
<1>4. CASE parent' = parent
  <2>1. CASE state' = state
    BY <1>4, <2>1, Zenon
  <2>2. ASSUME NEW q \in Procs, state[q] = "SLEEPING", state' = [state EXCEPT ![q] = "RUNNABLE"]
        PROVE  Life!LifeNext
    BY <2>2, <1>4, <1>s, Zenon DEF Life!Wake, Life!LifeNext
  <2>3. CASE RunProc(c, p) /\ state[p] = "RUNNABLE" /\ state' = [state EXCEPT ![p] = "RUNNING"]
    BY <2>3, <1>4, <1>s, Zenon DEF Life!Run, Life!LifeNext
  <2>4. CASE Preempt(c, p) /\ state[p] = "RUNNING" /\ state' = [state EXCEPT ![p] = "RUNNABLE"]
    BY <2>4, <1>4, <1>s, Zenon DEF Life!Preempt, Life!LifeNext
  <2>5. CASE state[p] = "RUNNING" /\ state' = [state EXCEPT ![p] = "SLEEPING"]
    BY <2>5, <1>4, <1>s, ZenonT(30) DEF Life!Block, Life!LifeNext
  <2>6. CASE ExitZombie(c, p) /\ state[p] = "RUNNING" /\ state' = [state EXCEPT ![p] = "ZOMBIE"]
    <3>1. p # initproc /\ \A q \in Procs : parent[q] # p
      BY <2>6, <1>t, Zenon DEF ExitZombie, Exiting
    <3> QED BY <2>6, <3>1, <1>4, <1>s, Zenon DEF Life!Exit, Life!Childless, Life!LifeNext
  <2>7. ASSUME NEW i \in Procs, state[i] = "UNUSED", state' = [state EXCEPT ![i] = "USED"]
        PROVE  Life!LifeNext
    BY <2>7, <1>4, <1>s, ZenonT(30) DEF Life!Alloc, Life!LifeNext
  <2>8. CASE ForkRun(c, p) /\ state[tgt[p]] = "USED" /\ state' = [state EXCEPT ![tgt[p]] = "RUNNABLE"]
    <3>1. parent[tgt[p]] # None
      BY <2>8, <1>t, SMTT(30) DEF ForkRun, Families, Building, LifeTypes
    <3> QED BY <2>8, <3>1, <1>4, <1>s, <1>x, Zenon DEF Life!Start, Life!LifeNext
  <2>9. CASE FreeprocReset(c, p)
    BY <1>2, <2>9, Zenon
  <2> QED BY <1>t, <2>1, <2>2, <2>3, <2>4, <2>5, <2>6, <2>7, <2>8, <2>9, StateMoves, ZenonT(30)
<1> QED BY <1>1, <1>2, <1>3, <1>4, ParentMoves, Zenon

\* The process table keeps the promises of Lifecycle: a process is born to a
\* running parent, leaves no children behind, and only its parent gives its slot
\* back (allocproc(), kfork(), kexit(), kwait(), freeproc(), sched(), wakeup()).
THEOREM LifecycleImplemented == Spec => ImplementsLifecycle
<1>1. Init => Life!LifeInit
  <2> SUFFICES ASSUME Init PROVE Life!LifeInit
    OBVIOUS
  <2>1. Life!Slots = Procs /\ Life!init = initproc
    BY Zenon DEF Life!Slots, Procs, Life!init, initproc
  <2> QED BY <2>1, Zenon DEF Init, InitFrom, SchedInit, Life!LifeInit
<1>2. KernelInv /\ LifeInv /\ [Next]_vars => [Life!LifeNext]_(Life!lifeVars)
  <2> SUFFICES ASSUME KernelInv, LifeInv, [Next]_vars PROVE Life!LifeNext \/ UNCHANGED <<state, parent>>
    BY Zenon DEF Life!lifeVars
  <2>1. CASE UNCHANGED vars
    BY <2>1, Zenon DEF vars, schedVars
  <2>2. CASE Next
    <3>1. PICK c \in Cpus, p \in Procs : Step(c, p)
      BY <2>2, Zenon DEF Next, Step
    <3> QED BY <3>1, LifeStep, Zenon
  <2> QED BY <2>1, <2>2, Zenon
<1> QED BY <1>1, <1>2, LifeHolds, PTL DEF Spec, ImplementsLifecycle, Life!LifeSpec
=============================================================================
