----------------------------- MODULE PageProofs -----------------------------
(***************************************************************************)
(* That no page is lost, for Proc.  A thread takes a page for the slot it  *)
(* works on, or gives one of that slot's pages back; the invariants of     *)
(* ProcProofs say that no two threads do so for the same slot, and the     *)
(* counting of HeldOf (ClockProofs) does the rest.                         *)
(***************************************************************************)
EXTENDS ProcProofs, ClockProofs

\* p is about to take a page for a slot, or to give one of its pages back.
Paging(p) == InKalloc(p) \/ pc[p] = "kfree"

\* No two threads change the pages of the same slot.
LEMMA PagingApart ==
  ASSUME DeadOutside, Locals, Targets, NEW p \in Procs, NEW r \in Procs, r # p, Paging(p), Paging(r)
  PROVE  tgt[p] # tgt[r]
<1>1. ASSUME NEW q \in Procs, Paging(q) PROVE Building(q) \/ Freeing(q) \/ tgt[q] = q
  BY Zenon DEF Locals, Targets, CopyTargets, OwnSlot
<1>2. ASSUME NEW q \in Procs, Paging(q) PROVE state[q] \notin {"USED", "ZOMBIE"}
  BY <1>2, Zenon DEF DeadOutside, Paging, InKalloc
<1>3. ASSUME NEW q \in Procs, Building(q) \/ Freeing(q) PROVE state[tgt[q]] \in {"USED", "ZOMBIE"}
  BY <1>3, Zenon DEF Targets, BuildTargets, FreeTargets
<1> QED BY <1>1, <1>2, <1>3, Zenon DEF Targets, OwnTargets

\* What a step does to the pages: nothing, or it takes or gives back one, for
\* the slot its thread works on.
LEMMA PageMoves ==
  ASSUME NEW c \in Cpus, NEW p \in Procs, Step(c, p)
  PROVE  \/ UNCHANGED <<free, frames>>
         \/ /\ InKalloc(p) /\ TakePage(p) /\ tgt' = tgt /\ ra' = ra
         \/ /\ pc[p] = "kfree" /\ free' = free + 1 /\ frames' = [frames EXCEPT ![tgt[p]] = @ - 1]
            /\ pc' = [pc EXCEPT ![p] = "kfree_wakeup"] /\ tgt' = tgt
BY Zenon DEF Step, RunProc, Preempt, SyscallStep, KernelStep, KallocStep, ForkStep, ExitStep,
             WaitStep,
       PageFault, SysExit, SysSbrk, SysKill, SysFork, SysWait, TrapKilled, AllocprocScan, ForkAlloc,
       ForkParent, FreeprocReset, KallocFirst, KallocSleep, KallocWake, KfreePush, KfreeWakeup, KfreeReturn,
       ForkRun, ForkFail, FreeprocPage, ExitReparent, ExitWakeup, ExitNextWakeup, ExitZombie, WaitLock, WaitScan,
       WaitReap, WaitNone, WaitSleep, memVars, InKalloc, Goto

\* A thread starts to take a page only while its slot has room for it, and to
\* give one back only while the slot has one.
LEMMA PagingStarts ==
  ASSUME LifeTypes, Locals, PageRoom, frames \in [Procs -> 0 .. SlotMax],
         NEW c \in Cpus, NEW p \in Procs, Step(c, p), UNCHANGED <<free, frames>>
  PROVE  /\ InKalloc(p)' => frames[tgt'[p]] < SlotMax
         /\ pc'[p] = "kfree" => frames[tgt'[p]] > 0
<1> USE DEF LifeTypes
<1>0. SlotMax \in Nat /\ KFRAMES \in Nat
  BY ProcAssumption DEF ProcAssumption, SlotMax
<1>1. CASE RunProc(c, p) \/ Preempt(c, p) \/ SysKill(c, p)
  <2>1. pc' = pc /\ tgt' = tgt
    BY <1>1, Zenon DEF RunProc, Preempt, SysKill, threadVars
  <2> QED BY <2>1, Zenon DEF PageRoom, InKalloc, SlotMax
<1>u. pc[p] \in {"user", "wait_scan"} => tgt[p] = p
  BY Zenon DEF Locals, Building, Freeing, Copying, InKalloc, InKfree, OwnSlot
<1>2. CASE PageFault(c, p) \/ SysSbrk(c, p)
  <2>1. tgt'[p] = p
    BY <1>2, <1>u, Zenon DEF PageFault, SysSbrk, Syscall
  <2> QED BY <1>0, <1>2, <2>1, SMTT(30), Z3T(30) DEF PageFault, SysSbrk, Goto, InKalloc, SlotMax
<1>3. CASE ForkAlloc(c, p)
  BY <1>0, <1>3, SMTT(30), Z3T(30) DEF ForkAlloc, Goto, InKalloc
<1>4. CASE ForkFail(c, p) \/ FreeprocPage(c, p)
  BY <1>0, <1>4, SMTT(30), Z3T(30) DEF ForkFail, FreeprocPage, Goto, InKalloc
<1>5. CASE WaitScan(c, p)
  <2>1. CASE pc'[p] = "kalloc"
    <3>1. pc[p] = "wait_scan" /\ frames[p] < SlotMax /\ tgt'[p] = tgt[p]
      BY <1>5, <2>1, ZenonT(60) DEF WaitScan, Return, Goto, SlotMax
    <3> QED BY <2>1, <3>1, <1>u, ZenonT(60)
  <2>2. pc'[p] \in {"freeproc", "user", "kalloc", "wait_scan"}
    BY <1>5 DEF WaitScan, Return, Goto
  <2> QED BY <2>1, <2>2, Zenon DEF InKalloc
<1>6. CASE KallocFirst(c, p) \/ KallocSleep(c, p) \/ KallocWake(c, p)
  <2>1. InKalloc(p) /\ tgt' = tgt /\ pc'[p] # "kfree"
    BY <1>6, ZenonT(60) DEF KallocFirst, KallocSleep, KallocWake, InKalloc, TakePage, FailTo, Goto
  <2> QED BY <2>1, ZenonT(60) DEF PageRoom, SlotMax
<1>7. CASE KfreePush(c, p) \/ KfreeWakeup(c, p) \/ KfreeReturn(c, p)
  BY <1>7, ZenonT(60) DEF KfreePush, KfreeWakeup, KfreeReturn, InKalloc, Goto
<1>8. CASE \/ SysExit(c, p) \/ SysFork(c, p) \/ SysWait(c, p) \/ TrapKilled(c, p) \/ AllocprocScan(c, p)
           \/ ForkParent(c, p) \/ ForkRun(c, p) \/ FreeprocReset(c, p)
  <2>1. pc'[p] \in {"exit", "allocproc", "wait", "user", "fork", "fork_run"}
    BY <1>8, ZenonT(60)
       DEF SysExit, SysFork, SysWait, TrapKilled, AllocprocScan, ForkParent, ForkRun,
           FreeprocReset, Return, Goto
  <2> QED BY <2>1, ZenonT(60) DEF InKalloc
<1>9. CASE ExitStep(c, p)
  <2>1. pc'[p] \in {"exit", "exit_wake_init", "exit_wake_parent", "zombie"}
    BY <1>9, ZenonT(60) DEF ExitStep, ExitReparent, ExitWakeup, ExitNextWakeup, ExitZombie, Goto
  <2> QED BY <2>1, Zenon DEF InKalloc
<1>10. CASE WaitLock(c, p) \/ WaitReap(c, p) \/ WaitNone(c, p) \/ WaitSleep(c, p)
  <2>1. pc'[p] \in {"wait_scan", "freeproc", "user", "wait_sleep", "wait"}
    BY <1>10, ZenonT(60) DEF WaitLock, WaitReap, WaitNone, WaitSleep, Goto
  <2> QED BY <2>1, Zenon DEF InKalloc
<1> HIDE DEF LifeTypes
<1> QED BY <1>1, <1>2, <1>3, <1>4, <1>5, <1>6, <1>7, <1>8, <1>9, <1>10, ZenonT(60)
           DEF Step, SyscallStep, KernelStep, KallocStep, ForkStep, WaitStep

\* Every step keeps the pages accounted for.
LEMMA PageStep ==
  ASSUME LifeTypes, free \in Nat, frames \in [Procs -> Int], DeadOutside, Locals, Targets, PageInv,
         NEW c \in Cpus, NEW p \in Procs, Step(c, p)
  PROVE  PageInv'
<1>0. SlotMax \in Nat /\ Held = HeldOf(frames) /\ NPAGES \in Nat
  BY ProcAssumption, SMTT(30), Z3T(30) DEF ProcAssumption, SlotMax, Held, HeldOf
<1>h. Held' = HeldOf(frames')
  BY ZenonT(60) DEF Held, HeldOf, SlotMax
<1>f. frames \in [Procs -> 0 .. SlotMax] /\ free + Cardinality(HeldOf(frames)) = NPAGES
  BY <1>0, ZenonT(60) DEF PageInv, PagesAccounted, SlotMax
<1>c. Cardinality(HeldOf(frames)) \in Nat
  BY HeldFinite, ZenonT(60)
<1>p. PageRoom
  BY Zenon DEF PageInv
<1>t. tgt[p] \in Procs /\ ThreadTypes
  BY Zenon DEF LifeTypes, ThreadTypes
<1>o. ASSUME NEW r \in Procs, r # p
      PROVE  tgt'[r] = tgt[r] /\ (InKalloc(r)' => InKalloc(r)) /\ (pc'[r] = "kfree" => pc[r] = "kfree")
  BY <1>o, <1>t, OthersStay, ZenonT(60) DEF InKalloc
<1>1. CASE UNCHANGED <<free, frames>>
  <2>1. PagesAccounted'
    BY <1>1, <1>f, <1>h, ZenonT(60) DEF PagesAccounted, SlotMax
  <2>2. \A r \in Procs : r # p =>
          (InKalloc(r)' => frames[tgt'[r]] < SlotMax) /\ (pc'[r] = "kfree" => frames[tgt'[r]] > 0)
    BY <1>o, <1>p, ZenonT(60) DEF PageRoom, SlotMax
  <2>3. PageRoom'
    BY <1>1, <1>f, <1>p, <2>2, PagingStarts, ZenonT(60) DEF PageRoom, SlotMax
  <2> QED BY <2>1, <2>3, ZenonT(60) DEF PageInv
<1>2. CASE InKalloc(p) /\ TakePage(p) /\ tgt' = tgt /\ ra' = ra
  <2>1. /\ frames' = [frames EXCEPT ![tgt[p]] = @ + 1] /\ free' = free - 1
        /\ pc'[p] \in {"user", "fork", "fork_fail", "freeproc", "wait_reap"}
    BY <1>2, ZenonT(60) DEF TakePage, Goto, LifeTypes
  <2>2. frames[tgt[p]] < SlotMax
    BY <1>2, <1>p, ZenonT(60) DEF PageRoom, SlotMax
  <2>3. Cardinality(HeldOf(frames')) = Cardinality(HeldOf(frames)) + 1
    BY <1>f, <1>t, <2>1, <2>2, HeldMore, ZenonT(60)
  <2>4. frames' \in [Procs -> 0 .. SlotMax]
    BY <1>f, <1>t, <2>1, <2>2, HeldMore, ZenonT(60)
  <2>5. free' + Cardinality(HeldOf(frames')) = NPAGES
    BY <1>0, <1>f, <1>c, <2>1, <2>3, SMTT(30), Z3T(30)
  <2>6. PagesAccounted'
    BY <1>h, <2>4, <2>5, ZenonT(60) DEF PagesAccounted, SlotMax
  <2>7. ASSUME NEW r \in Procs
        PROVE  (InKalloc(r)' => frames'[tgt'[r]] < SlotMax) /\ (pc'[r] = "kfree" => frames'[tgt'[r]] > 0)
    <3>1. CASE r = p
      BY <2>1, <3>1, ZenonT(60) DEF InKalloc
    <3>2. CASE r # p /\ Paging(r)
      <4>1. tgt[r] # tgt[p]
        BY <1>2, <3>2, PagingApart, ZenonT(60) DEF Paging
      <4>2. tgt[r] \in Procs /\ frames'[tgt[r]] = frames[tgt[r]]
        BY <1>f, <2>1, <4>1, <1>t, ZenonT(60) DEF LifeTypes
      <4> QED BY <4>2, <1>o, <3>2, <1>p, ZenonT(60) DEF PageRoom, SlotMax
    <3>3. CASE r # p /\ ~Paging(r)
      BY <3>3, <1>o, Zenon DEF Paging
    <3> QED BY <3>1, <3>2, <3>3, ZenonT(60)
  <2>8. PageRoom'
    BY <2>7, ZenonT(60) DEF PageRoom, SlotMax
  <2> QED BY <2>6, <2>8, Zenon DEF PageInv
<1>3. CASE /\ pc[p] = "kfree" /\ free' = free + 1 /\ frames' = [frames EXCEPT ![tgt[p]] = @ - 1]
           /\ pc' = [pc EXCEPT ![p] = "kfree_wakeup"] /\ tgt' = tgt
  <2>1. pc'[p] = "kfree_wakeup"
    BY <1>3, Zenon DEF LifeTypes
  <2>2. frames[tgt[p]] > 0
    BY <1>3, <1>p, ZenonT(60) DEF PageRoom
  <2>3. Cardinality(HeldOf(frames')) = Cardinality(HeldOf(frames)) - 1
    BY <1>f, <1>t, <1>3, <2>2, HeldLess, ZenonT(60)
  <2>4. frames' \in [Procs -> 0 .. SlotMax]
    BY <1>f, <1>t, <1>3, <2>2, HeldLess, ZenonT(60)
  <2>5. free' + Cardinality(HeldOf(frames')) = NPAGES
    BY <1>0, <1>f, <1>c, <1>3, <2>3, SMTT(30), Z3T(30)
  <2>6. PagesAccounted'
    BY <1>h, <2>4, <2>5, Zenon DEF PagesAccounted, SlotMax
  <2>7. ASSUME NEW r \in Procs
        PROVE  (InKalloc(r)' => frames'[tgt'[r]] < SlotMax) /\ (pc'[r] = "kfree" => frames'[tgt'[r]] > 0)
    <3>1. CASE r = p
      BY <2>1, <3>1, ZenonT(60) DEF InKalloc
    <3>2. CASE r # p /\ Paging(r)
      <4>1. tgt[r] # tgt[p]
        BY <1>3, <3>2, PagingApart, ZenonT(60) DEF Paging
      <4>2. tgt[r] \in Procs /\ frames'[tgt[r]] = frames[tgt[r]]
        BY <1>f, <1>3, <4>1, <1>t, ZenonT(60) DEF LifeTypes
      <4> QED BY <4>2, <1>o, <3>2, <1>p, Zenon DEF PageRoom, SlotMax
    <3>3. CASE r # p /\ ~Paging(r)
      BY <3>3, <1>o, Zenon DEF Paging
    <3> QED BY <3>1, <3>2, <3>3, Zenon
  <2>8. PageRoom'
    BY <2>7, Zenon DEF PageRoom, SlotMax
  <2> QED BY <2>6, <2>8, Zenon DEF PageInv
<1> QED BY <1>1, <1>2, <1>3, PageMoves, Zenon

\* After boot init owns its KFRAMES pages and the others are free.
LEMMA InitPages == Init => PageInv
<1> SUFFICES ASSUME Init PROVE PageInv
  OBVIOUS
<1>0. KFRAMES \in Nat /\ MaxUser \in Nat /\ NPAGES \in Nat /\ SlotMax \in Nat /\ KFRAMES <= SlotMax /\ KFRAMES >= 1
  BY ProcAssumption DEF ProcAssumption, SlotMax
<1>1. /\ frames = [p \in Procs |-> IF p = initproc THEN KFRAMES ELSE 0] /\ free = NPAGES - KFRAMES
      /\ pc = [p \in Procs |-> "user"]
  BY Zenon DEF Init, InitFrom
<1>2. initproc \in Procs
  BY SchedAssumption DEF SchedAssumption, Procs, initproc
<1>3. HeldOf(frames) = {initproc} \X (1 .. KFRAMES)
  <2>1. ASSUME NEW q \in Procs, NEW k \in 1 .. SlotMax
        PROVE  k <= frames[q] <=> q = initproc /\ k \in 1 .. KFRAMES
    BY <1>0, <1>1, <2>1
  <2>2. 1 .. KFRAMES \subseteq 1 .. SlotMax
    BY <1>0
  <2> QED BY <1>2, <2>1, <2>2, Zenon DEF HeldOf
<1>4. Cardinality({initproc} \X (1 .. KFRAMES)) = KFRAMES
  <2>1. IsFiniteSet({initproc}) /\ Cardinality({initproc}) = 1
    BY FS_Singleton, Zenon
  <2>2. IsFiniteSet(1 .. KFRAMES) /\ Cardinality(1 .. KFRAMES) = KFRAMES
    BY <1>0, FS_Interval
  <2>3. Cardinality({initproc} \X (1 .. KFRAMES)) = Cardinality({initproc}) * Cardinality(1 .. KFRAMES)
    BY <2>1, <2>2, FS_Product, Zenon
  <2> QED BY <1>0, <2>1, <2>2, <2>3, SMTT(30), Z3T(30)
<1>5. Held = HeldOf(frames)
  BY Zenon DEF Held, HeldOf, SlotMax
<1>6. PagesAccounted
  <2>1. \A p \in Procs : frames[p] \in 0 .. KFRAMES + MaxUser
    BY <1>0, <1>1
  <2>2. free + Cardinality(Held) = NPAGES
    BY <1>0, <1>1, <1>3, <1>4, <1>5, SMTT(30), Z3T(30)
  <2> QED BY <2>1, <2>2, Zenon DEF PagesAccounted
<1>7. PageRoom
  BY <1>1, Zenon DEF PageRoom, InKalloc
<1> QED BY <1>6, <1>7, Zenon DEF PageInv

\* Pages are neither lost nor duplicated, for any number of processes, CPUs and
\* pages: through faults, sbrk(), fork() and its failures, kills during a stall,
\* exit() and wait(), the free list and the slots make up all of memory.
THEOREM NoPageLost == Spec => []PagesAccounted
<1>1. KernelInv /\ PageInv /\ [Next]_vars => PageInv'
  <2> SUFFICES ASSUME KernelInv, PageInv, [Next]_vars PROVE PageInv'
    OBVIOUS
  <2>1. CASE UNCHANGED vars
    <3>1. UNCHANGED <<free, frames, pc, tgt>>
      BY <2>1, Zenon DEF vars, memVars, threadVars
    <3> QED BY <3>1, Zenon DEF PageInv, PageRoom, PagesAccounted, Held, InKalloc
  <2>2. CASE Next
    <3>1. PICK c \in Cpus, p \in Procs : Step(c, p)
      BY <2>2, Zenon DEF Next, Step
    <3>2. LifeTypes /\ free \in Nat /\ frames \in [Procs -> Int] /\ DeadOutside /\ Locals /\ Targets
      BY LifeTypesHold, Zenon DEF KernelInv, TypeOK
    <3> QED BY <3>1, <3>2, PageStep, Zenon
  <2> QED BY <2>1, <2>2, Zenon
<1>2. PageInv => PagesAccounted
  BY Zenon DEF PageInv
<1> QED BY <1>1, <1>2, InitPages, InvHolds, PTL DEF Spec

=============================================================================
