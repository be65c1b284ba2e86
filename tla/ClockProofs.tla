---------------------------- MODULE ClockProofs -----------------------------
(***************************************************************************)
(* The theorems about the clock.  The invariant ClockInv says who owns     *)
(* tickslock, that the handler on CPU 0 and the thread it interrupted do   *)
(* not move together, how far wakeup(&ticks) has come, how long a stall    *)
(* has lasted and where the pages are; the bounds of the averages follow   *)
(* by refinement.                                                          *)
(***************************************************************************)
EXTENDS Clock, ProcInv, FiniteSetTheorems, TLAPS

-----------------------------------------------------------------------------
(* Pages.                                                                  *)

\* The most pages a slot can own, and the pages of all slots when f tells how
\* many each has.
SlotMax == KFRAMES + MaxUser
HeldOf(f) == {x \in Procs \X (1 .. SlotMax) : x[2] <= f[x[1]]}

\* The pages of the slots are finitely many.
LEMMA HeldFinite ==
  ASSUME NEW f
  PROVE  IsFiniteSet(HeldOf(f)) /\ Cardinality(HeldOf(f)) \in Nat
<1>1. IsFiniteSet(Procs) /\ IsFiniteSet(1 .. SlotMax)
  <2>1. NPROC \in Int /\ SlotMax \in Int
    BY SchedAssumption, ProcAssumption DEF SchedAssumption, ProcAssumption, SlotMax
  <2> QED BY <2>1, FS_Interval DEF Procs
<1>2. IsFiniteSet(Procs \X (1 .. SlotMax))
  BY <1>1, FS_Product, Zenon
<1>3. HeldOf(f) \in SUBSET (Procs \X (1 .. SlotMax))
  BY Zenon DEF HeldOf
<1> QED BY <1>2, <1>3, FS_Subset, FS_CardinalityType, Zenon

\* A page more for one slot is a page more.
LEMMA HeldMore ==
  ASSUME NEW f \in [Procs -> 0 .. SlotMax], NEW t \in Procs, f[t] < SlotMax
  PROVE  /\ [f EXCEPT ![t] = @ + 1] \in [Procs -> 0 .. SlotMax]
         /\ Cardinality(HeldOf([f EXCEPT ![t] = @ + 1])) = Cardinality(HeldOf(f)) + 1
<1> DEFINE x == <<t, f[t] + 1>>
           g == [f EXCEPT ![t] = @ + 1]
<1>0. SlotMax \in Nat
  BY ProcAssumption DEF ProcAssumption, SlotMax
<1>1. x \notin HeldOf(f)
  BY <1>0 DEF HeldOf
<1>2. HeldOf(g) = HeldOf(f) \cup {x}
  <2>1. ASSUME NEW q \in Procs, NEW k \in 1 .. SlotMax
        PROVE  k <= g[q] <=> k <= f[q] \/ (q = t /\ k = f[t] + 1)
    BY <1>0, <2>1
  <2>2. x \in Procs \X (1 .. SlotMax)
    BY <1>0
  <2> HIDE DEF g
  <2> QED BY <2>1, <2>2 DEF HeldOf
<1>3. g \in [Procs -> 0 .. SlotMax]
  BY <1>0
<1> QED BY <1>1, <1>2, <1>3, HeldFinite, FS_AddElement, Zenon

\* A page less for one slot is a page less.
LEMMA HeldLess ==
  ASSUME NEW f \in [Procs -> 0 .. SlotMax], NEW t \in Procs, f[t] > 0
  PROVE  /\ [f EXCEPT ![t] = @ - 1] \in [Procs -> 0 .. SlotMax]
         /\ Cardinality(HeldOf([f EXCEPT ![t] = @ - 1])) = Cardinality(HeldOf(f)) - 1
<1> DEFINE x == <<t, f[t]>>
           g == [f EXCEPT ![t] = @ - 1]
<1>0. SlotMax \in Nat
  BY ProcAssumption DEF ProcAssumption, SlotMax
<1>1. x \in HeldOf(f)
  BY <1>0 DEF HeldOf
<1>2. HeldOf(g) = HeldOf(f) \ {x}
  <2>1. ASSUME NEW q \in Procs, NEW k \in 1 .. SlotMax
        PROVE  k <= g[q] <=> k <= f[q] /\ ~(q = t /\ k = f[t])
    BY <1>0, <2>1
  <2> HIDE DEF g
  <2> QED BY <2>1 DEF HeldOf
<1>3. g \in [Procs -> 0 .. SlotMax]
  BY <1>0
<1> QED BY <1>1, <1>2, <1>3, HeldFinite, FS_RemoveElement, ZenonT(30)

\* What PagesAccounted and PageRoom say, with the types they need.
PageInv == PageRoom /\ PagesAccounted

\* A scan that skips myproc() stays inside the table or ends one past it.
LEMMA LaterRange ==
  ASSUME NEW p \in Procs, NEW i \in 0 .. NPROC
  PROVE  After(p, i) \in 1 .. NPROC + 1
BY SchedAssumption DEF SchedAssumption, After, Procs


-----------------------------------------------------------------------------
(* The invariant of the clock.                                            *)

\* The parts of a thread that this module never changes but through kalloc(),
\* kfree() and exit().
ThreadParts ==
  /\ frames \in [Procs -> 0 .. SlotMax]
  /\ iter \in [Procs -> 1 .. NPROC + 1]
  /\ tgt = [p \in Procs |-> p] /\ ra = [p \in Procs |-> "user"]
  /\ parent \in [Procs -> Procs \cup {None}]

\* p is in the part of sys_pause() that tickslock protects.
InPause(p) == pc[p] \in {"pause", "pause_sleep"}

TicksOwned == \A p \in Procs : InPause(p) => \E c \in Cpus : cur[c] = p /\ slock["ticks"] = c

\* While the handler runs, CPU 0 runs nothing else, and the thread it
\* interrupted owned no lock.
Handler ==
  /\ inintr = IF ipc = "none" THEN {} ELSE {Cpu0}
  /\ ipc # "none" =>
       /\ panic[Cpu0] = "no"
       /\ \A q \in Procs : plock[q] # Cpu0
       /\ \A p \in Procs : cur[Cpu0] = p => ~InPause(p)
  /\ ipc = "wakeup" => slock["ticks"] = Cpu0

\* A process that sleeps in pause() has ticks left, or wakeup() has still to
\* come to it; one that is about to sleep has ticks left.
Waiting ==
  \A p \in Procs :
    /\ pc[p] = "pause_sleep" => Elapsed(p) < n[p]
    /\ Sleeping(p, TICKS) => Elapsed(p) < n[p] \/ (ipc = "wakeup" /\ ipos <= p)

\* The scan of update_psi() has counted the process CPU 0 was executing.
Counted ==
  \A p \in Procs : ipc = "update_psi" /\ cur[Cpu0] = p /\ p < ipos => runnable

\* p is in kalloc() with a stall whose start is noted.
Stalled(p) == pc[p] \in {"kalloc_sleep", "kalloc_wake"}

\* Until ticks wraps, it counts the interrupts, and the stalls that have ended
\* and the one that goes on fit in the time since the start.
StallTimes ==
  StartTick + uptime < TICKMOD =>
    /\ ticks = StartTick + uptime
    /\ \A p \in Procs :
         /\ mem_stall_ticks[p] <= uptime
         /\ Stalled(p) =>
              /\ last_stall_start[p] <= ticks
              /\ StartTick + mem_stall_ticks[p] <= last_stall_start[p]

ClockInv ==
  /\ ClockTypeOK /\ ThreadParts /\ OnCpu /\ TicksOwned /\ Handler
  /\ Waiting /\ Counted /\ StallTimes /\ PageInv

\* A thread takes a step of its own, or is taken by the scheduler of its CPU.
Moves(c, p) == PauseStep(c, p) \/ OtherStep(c, p)

\* The pause() steps and the handler are what changes tickslock.
PauseMoves(c, p) == PauseLock(c, p) \/ PauseTest(c, p) \/ PauseSleep(c, p)

-----------------------------------------------------------------------------
(* What the steps of threads leave alone.                                  *)

\* The types and the constants' assumptions that the lemmas use.
ClockTypes ==
  /\ state \in [Procs -> States] /\ plock \in [Procs -> Cpus \cup {None}]
  /\ slock \in [Locks -> Cpus \cup {None}]
  /\ cur \in [Cpus -> Procs \cup {None}] /\ panic \in [Cpus -> Panics]
  /\ chan \in [Procs -> Channels \cup {TICKS} \cup {None}]
  /\ pc \in [Procs -> Labels \cup {"pause_start", "pause", "pause_sleep", "pause_wake"}]
  /\ ticks0 \in [Procs -> 0 .. TICKMOD - 1] /\ n \in [Procs -> 0 .. MaxPause]
  /\ ThreadParts
  /\ None \notin Procs /\ None \notin Cpus /\ Cpu0 \in Cpus
  /\ "kmem" \in Locks /\ "ticks" \in Locks /\ "wait" \in Locks
  /\ initproc \in Procs

\* They follow from the invariant.
LEMMA ClockTypesHold == ClockInv => ClockTypes
<1>1. None \notin Procs /\ None \notin Cpus /\ Cpu0 \in Cpus
  BY SchedAssumption, ClockAssumption, Zenon DEF SchedAssumption, ClockAssumption
<1>2. initproc \in Procs
  BY SchedAssumption DEF SchedAssumption, Procs, initproc
<1>3. "kmem" \in Locks /\ "ticks" \in Locks /\ "wait" \in Locks
  BY ProcAssumption, Zenon DEF ProcAssumption
<1> QED BY <1>1, <1>2, <1>3, Zenon DEF ClockInv, ClockTypeOK, SchedTypeOK, ClockTypes

\* A process that is on a CPU is RUNNING there, or CPU and process are lost in
\* the panic of sched().
OnOrLost(d, q) ==
  \/ state[q] = "RUNNING"
  \/ state[q] = "SLEEPING" /\ panic[d] = "sched_locks" /\ plock[q] = d

\* That is how OnCpu has it.
LEMMA CurState ==
  ASSUME OnCpu, NEW d \in Cpus, NEW q \in Procs, cur[d] = q
  PROVE  OnOrLost(d, q)
BY SMTT(30) DEF OnCpu, OnOrLost

\* It depends on the states, the panics and the locks of the table only.
LEMMA OnOrLostKept ==
  ASSUME NEW d \in Cpus, NEW q \in Procs, OnOrLost(d, q),
         state'[q] = state[q], panic' = panic, plock' = plock
  PROVE  OnOrLost(d, q)'
BY SMTT(30) DEF OnOrLost

\* A process is on one CPU at most.
LEMMA OneCpu ==
  ASSUME OnCpu, NEW d \in Cpus, NEW e \in Cpus, NEW q \in Procs, cur[d] = q, cur[e] = q
  PROVE  d = e
BY SMTT(30) DEF OnCpu

\* A process that is RUNNING is on a CPU.
LEMMA HasCpu ==
  ASSUME OnCpu, NEW q \in Procs, state[q] = "RUNNING"
  PROVE  \E d \in Cpus : cur[d] = q
BY SMTT(30) DEF OnCpu

\* The relation does not depend on anything but state, cur, panic and plock.
LEMMA OnCpuKept ==
  ASSUME OnCpu, state' = state, cur' = cur, panic' = panic, plock' = plock
  PROVE  OnCpu'
BY SMTT(30) DEF OnCpu

\* The process on a CPU that executes is RUNNING, and on no other CPU.
LEMMA OnItsCpu ==
  ASSUME ClockTypes, OnCpu, NEW c \in Cpus, NEW p \in Procs, Running(c, p)
  PROVE  /\ state[p] = "RUNNING" /\ panic[c] = "no" /\ cur[c] = p
         /\ \A d \in Cpus : cur[d] = p => d = c
BY ZenonT(30) DEF ClockTypes, OnCpu, Running, Executing

\* A step of a thread is a step on a CPU that executes.
LEMMA MovesExecute ==
  ASSUME NEW c \in Cpus, NEW p \in Procs, Moves(c, p)
  PROVE  Executing(c) /\ (RunProc(c, p) \/ Running(c, p))
BY Zenon DEF Moves, PauseStep, SysPause, PauseLock, PauseTest, PauseSleep, OtherStep, RunProc,
             Schedule,
       Running, Preempt, Yield, Syscall, PageFault, SysExit, SysSbrk, SysKill, TrapKilled, KallocStep,
       KallocFirst, KallocSleep, KallocWake, KfreePush, KfreeWakeup, KfreeReturn, ExitStep, ExitReparent,
       ExitWakeup, ExitNextWakeup, ExitZombie

\* It leaves the handler, the clock and the other threads alone.
LEMMA MovesAlone ==
  ASSUME ClockTypes, NEW c \in Cpus, NEW p \in Procs, Moves(c, p)
  PROVE  /\ UNCHANGED <<ipc, ipos, stalled, runnable, uptime, ticks, inintr, tgt, ra, calls>>
         /\ \A q \in Procs : q # p =>
              pc'[q] = pc[q] /\ ticks0'[q] = ticks0[q] /\ n'[q] = n[q]
<1>1. UNCHANGED <<ipc, ipos, stalled, runnable, uptime, calls>>
  BY Zenon DEF Moves, PauseStep, SysPause, PauseLock, PauseTest, PauseSleep, OtherStep, clockVars,
               intrVars
<1>2. UNCHANGED <<ticks, inintr>>
  <2>1. CASE PauseStep(c, p)
    BY <2>1, Zenon
       DEF PauseStep, SysPause, PauseLock, PauseTest, PauseSleep, SleepOn, schedVars, memVars,
           stallVars
  <2>2. CASE OtherStep(c, p)
    BY <2>2, Zenon
       DEF OtherStep, RunProc, Schedule, Preempt, Yield, PageFault, SysExit, SysSbrk, SysKill,
           KillSlot,
           TrapKilled, KallocStep, KallocFirst, KallocSleep, KallocWake, KfreePush, KfreeWakeup, KfreeReturn,
           ExitStep, ExitReparent, ExitWakeup, ExitNextWakeup, ExitZombie, WakeupSlot, SleepOn, schedVars,
           memVars, stallVars
  <2> QED BY <2>1, <2>2, Zenon DEF Moves
<1>3. UNCHANGED <<tgt, ra>>
  <2>1. CASE PauseStep(c, p)
    BY <2>1, Zenon DEF PauseStep, SysPause, PauseLock, PauseTest, PauseSleep
  <2>2. CASE OtherStep(c, p)
    BY <2>2, Zenon
       DEF OtherStep, RunProc, Preempt, PageFault, SysExit, SysSbrk, SysKill, threadVars,
           TrapKilled, KallocStep, KallocFirst, KallocSleep, KallocWake, KfreePush, KfreeWakeup, KfreeReturn,
           ExitStep, ExitReparent, ExitWakeup, ExitNextWakeup, ExitZombie
  <2> QED BY <2>1, <2>2, Zenon DEF Moves
<1>4. ASSUME NEW q \in Procs, q # p PROVE ticks0'[q] = ticks0[q] /\ n'[q] = n[q]
  <2>1. CASE PauseStep(c, p)
    BY <1>4, <2>1, Zenon
       DEF ClockTypes, PauseStep, SysPause, PauseLock, PauseTest, PauseReturn, PauseSleep,
           clockVars, pauseVars
  <2>2. CASE OtherStep(c, p)
    BY <2>2, Zenon DEF OtherStep, clockVars, pauseVars
  <2> QED BY <2>1, <2>2, Zenon DEF Moves
<1>5. ASSUME NEW q \in Procs, q # p PROVE pc'[q] = pc[q]
  <2>1. pc' = pc \/ \E l : pc' = [pc EXCEPT ![p] = l]
    <3>1. CASE PauseStep(c, p)
      BY <3>1, Zenon DEF PauseStep, SysPause, PauseLock, PauseTest, PauseReturn, PauseSleep, Goto
    <3>2. CASE OtherStep(c, p)
      BY <3>2, Zenon
         DEF OtherStep, RunProc, Preempt, PageFault, SysExit, SysSbrk, SysKill, threadVars,
           TrapKilled, KallocStep, KallocFirst, KallocSleep, KallocWake, TakePage, KfreePush, KfreeWakeup, KfreeReturn,
           ExitStep, ExitReparent, ExitWakeup, ExitNextWakeup, ExitZombie, Goto
    <3> QED BY <3>1, <3>2, Zenon DEF Moves
  <2> QED BY <1>5, <2>1, Zenon DEF ClockTypes
<1> QED BY <1>1, <1>2, <1>3, <1>4, <1>5, Zenon

\* It does nothing to the other CPUs, and to tickslock only in pause().
LEMMA MovesHere ==
  ASSUME ClockTypes, NEW c \in Cpus, NEW p \in Procs, Moves(c, p)
  PROVE  /\ \A d \in Cpus : d # c => cur'[d] = cur[d] /\ panic'[d] = panic[d]
         /\ \A q \in Procs, d \in Cpus : d # c => (plock'[q] = d <=> plock[q] = d)
         /\ ~PauseMoves(c, p) => slock'["ticks"] = slock["ticks"]
<1> USE DEF ClockTypes
<1>1. CASE UNCHANGED schedVars
  BY <1>1, Zenon DEF schedVars
<1>2. CASE RunProc(c, p)
  BY <1>2, Zenon DEF RunProc, Schedule
<1>3. CASE Preempt(c, p)
  BY <1>3, Zenon DEF Preempt, Yield
<1>4. CASE KfreeWakeup(c, p) \/ ExitWakeup(c, p)
  <2>1. PICK ch : WakeupSlot(c, iter[p], ch)
    BY <1>4, Zenon DEF KfreeWakeup, ExitWakeup
  <2> QED BY <2>1, Zenon DEF WakeupSlot
<1>5. CASE KallocSleep(c, p)
  BY <1>5 DEF KallocSleep, SleepOn, PFree
<1>6. CASE PauseSleep(c, p)
  BY <1>6 DEF PauseMoves, PauseSleep, SleepOn, PFree
<1>7. CASE SysKill(c, p)
  BY <1>7, Zenon DEF SysKill, KillSlot
<1>8. CASE KallocFirst(c, p) \/ KallocWake(c, p) \/ KfreePush(c, p) \/ KfreeReturn(c, p)
  BY <1>8, Zenon DEF KallocFirst, KallocWake, KfreePush, KfreeReturn
<1>9. CASE ExitReparent(c, p) \/ ExitZombie(c, p)
  BY <1>9, Zenon DEF ExitReparent, ExitZombie
<1>10. CASE PauseLock(c, p) \/ PauseTest(c, p)
  BY <1>10, Zenon DEF PauseMoves, PauseLock, PauseTest
<1>11. \/ UNCHANGED schedVars \/ RunProc(c, p) \/ Preempt(c, p) \/ KfreeWakeup(c, p) \/ ExitWakeup(c, p)
       \/ KallocSleep(c, p) \/ PauseSleep(c, p) \/ SysKill(c, p) \/ KallocFirst(c, p) \/ KallocWake(c, p)
       \/ KfreePush(c, p) \/ KfreeReturn(c, p) \/ ExitReparent(c, p) \/ ExitZombie(c, p)
       \/ PauseLock(c, p) \/ PauseTest(c, p)
  BY Zenon DEF Moves, PauseStep, SysPause, OtherStep, PageFault, SysExit, SysSbrk, TrapKilled,
               KallocStep,
         ExitStep, ExitNextWakeup
<1> HIDE DEF ClockTypes
<1> QED BY <1>1, <1>2, <1>3, <1>4, <1>5, <1>6, <1>7, <1>8, <1>9, <1>10, <1>11, Zenon

\* How a step of a thread changes states.
LEMMA MovesStates ==
  ASSUME ClockTypes, OnCpu, NEW c \in Cpus, NEW p \in Procs, Moves(c, p)
  PROVE  \/ state' = state
         \/ \E q \in Procs : /\ state[q] = "SLEEPING" /\ plock[q] = None
                             /\ state' = [state EXCEPT ![q] = "RUNNABLE"]
         \/ RunProc(c, p) /\ state' = [state EXCEPT ![p] = "RUNNING"]
         \/ /\ Running(c, p) /\ (Preempt(c, p) \/ KallocSleep(c, p) \/ PauseSleep(c, p) \/ ExitZombie(c, p))
            /\ \E s \in States : state' = [state EXCEPT ![p] = s]
<1> USE DEF ClockTypes
<1>1. CASE RunProc(c, p)
  BY <1>1, Zenon DEF RunProc, Schedule
<1>2. CASE Preempt(c, p) \/ KallocSleep(c, p) \/ PauseSleep(c, p) \/ ExitZombie(c, p)
  BY <1>2, Zenon DEF Preempt, Yield, KallocSleep, PauseSleep, SleepOn, ExitZombie, States
<1>3. CASE SysKill(c, p)
  <2>1. PICK q \in Procs : KillSlot(q)
    BY <1>3, Zenon DEF SysKill, KillTargets
  <2>2. CASE state[q] = "SLEEPING"
    BY <2>1, <2>2, Zenon DEF KillSlot, PFree
  <2>3. CASE state[q] # "SLEEPING"
    <3>1. state' = state
      BY <2>1, <2>3, Zenon DEF KillSlot
    <3> QED BY <3>1, Zenon
  <2> QED BY <2>2, <2>3, Zenon
<1>4. CASE KfreeWakeup(c, p) \/ ExitWakeup(c, p)
  <2>1. PICK ch : iter[p] \in Procs /\ WakeupSlot(c, iter[p], ch)
    BY <1>4, Zenon DEF KfreeWakeup, ExitWakeup
  <2>2. state' = state \/ (plock[iter[p]] = None /\ state' = [state EXCEPT ![iter[p]] = IF Sleeping(iter[p], ch) THEN "RUNNABLE" ELSE @])
    BY <2>1, Zenon DEF WakeupSlot
  <2>3. \/ state' = state
        \/ (/\ state[iter[p]] = "SLEEPING" /\ plock[iter[p]] = None
            /\ state' = [state EXCEPT ![iter[p]] = "RUNNABLE"])
    BY <2>1, <2>2, Zenon DEF Sleeping
  <2> QED BY <2>1, <2>3, Zenon
<1>5. \/ RunProc(c, p) \/ Preempt(c, p) \/ SysKill(c, p) \/ KfreeWakeup(c, p)
      \/ ExitWakeup(c, p) \/ KallocSleep(c, p) \/ PauseSleep(c, p) \/ ExitZombie(c, p) \/ state' = state
  BY Zenon DEF Moves, PauseStep, SysPause, PauseLock, PauseTest, OtherStep, PageFault, SysExit,
               SysSbrk,
         TrapKilled, KallocStep, KallocFirst, KallocWake, KfreePush, KfreeReturn, ExitStep, ExitReparent,
         ExitNextWakeup, schedVars
<1> QED BY <1>1, <1>2, <1>3, <1>4, <1>5, Zenon

-----------------------------------------------------------------------------
(* Steps of threads keep the invariant.                                    *)

\* OnCpu: a step takes a thread off its CPU when it takes it out of RUNNING.
LEMMA MovesOnCpu ==
  ASSUME ClockTypes, OnCpu, NEW c \in Cpus, NEW p \in Procs, Moves(c, p)
  PROVE  OnCpu'
<1> USE DEF ClockTypes
<1>e. Executing(c) /\ (RunProc(c, p) \/ Running(c, p))
  BY MovesExecute, Zenon
<1>r. Running(c, p) => state[p] = "RUNNING" /\ panic[c] = "no" /\ cur[c] = p /\ \A d \in Cpus : cur[d] = p => d = c
  BY OnItsCpu, Zenon
<1>1. CASE RunProc(c, p)
  BY <1>1 DEF RunProc, Schedule, OnCpu, Executing
<1>2. CASE Preempt(c, p) \/ ExitZombie(c, p)
  <2>1. /\ cur' = [cur EXCEPT ![c] = None] /\ panic' = panic /\ plock' = plock
        /\ state' = [state EXCEPT ![p] = "RUNNABLE"] \/ state' = [state EXCEPT ![p] = "ZOMBIE"]
        /\ Running(c, p)
    BY <1>2, Zenon DEF Preempt, Yield, ExitZombie
  <2> QED BY <2>1, <1>r DEF OnCpu
<1>3. CASE KallocSleep(c, p) \/ PauseSleep(c, p)
  <2>1. /\ state' = [state EXCEPT ![p] = "SLEEPING"] /\ Running(c, p) /\ plock[p] = None
        /\ \/ cur' = [cur EXCEPT ![c] = None] /\ panic' = panic /\ plock' = plock
           \/ cur' = cur /\ panic' = [panic EXCEPT ![c] = "sched_locks"] /\ plock' = [plock EXCEPT ![p] = c]
    BY <1>3, Zenon DEF KallocSleep, PauseSleep, SleepOn, PFree
  <2> QED BY <2>1, <1>r DEF OnCpu
<1>4. CASE ~RunProc(c, p) /\ ~Preempt(c, p) /\ ~ExitZombie(c, p) /\ ~KallocSleep(c, p) /\ ~PauseSleep(c, p)
  <2>1. cur' = cur /\ plock' = plock
    <3>1. CASE PauseStep(c, p)
      BY <1>4, <3>1, Zenon DEF PauseStep, SysPause, PauseLock, PauseTest, schedVars
    <3>2. CASE OtherStep(c, p)
      BY <1>4, <3>2, Zenon DEF OtherStep, PageFault, SysExit, SysSbrk, SysKill, KillSlot,
           TrapKilled, KallocStep, KallocFirst, KallocWake, KfreePush, KfreeWakeup, KfreeReturn,
           ExitStep, ExitReparent, ExitWakeup, ExitNextWakeup, WakeupSlot, schedVars
    <3> QED BY <3>1, <3>2, Zenon DEF Moves
  <2>2. /\ \A d \in Cpus : d # c => panic'[d] = panic[d]
        /\ panic[c] = "no"
    BY <1>e, MovesHere DEF Executing
  <2>3. \/ state' = state
        \/ \E q \in Procs : /\ state[q] = "SLEEPING" /\ plock[q] = None
                            /\ state' = [state EXCEPT ![q] = "RUNNABLE"]
    BY <1>4, MovesStates, Zenon
  <2>4. CASE state' = state
    BY <2>1, <2>2, <2>4 DEF OnCpu
  <2>5. ASSUME NEW q \in Procs, state[q] = "SLEEPING", plock[q] = None, state' = [state EXCEPT ![q] = "RUNNABLE"]
        PROVE  OnCpu'
    BY <2>1, <2>2, <2>5 DEF OnCpu
  <2> QED BY <2>3, <2>4, <2>5, Zenon
<1> QED BY <1>1, <1>2, <1>3, <1>4, Zenon

\* A thread that moves is not the one the handler interrupted.
LEMMA MovesElsewhere ==
  ASSUME ClockTypes, OnCpu, Handler, NEW c \in Cpus, NEW p \in Procs, Moves(c, p), ipc # "none"
  PROVE  c # Cpu0 /\ cur[Cpu0] # p
<1>1. Executing(c) /\ (RunProc(c, p) \/ Running(c, p))
  BY MovesExecute, Zenon
<1>2. c # Cpu0
  BY <1>1, Zenon DEF Executing, Handler
<1>3. CASE Running(c, p)
  BY <1>2, <1>3, OnItsCpu DEF ClockTypes
<1>4. CASE RunProc(c, p)
  <2>1. state[p] = "RUNNABLE" /\ Cpu0 \in Cpus
    BY <1>4, Zenon DEF ClockTypes, RunProc, Schedule
  <2>2. cur[Cpu0] = p => state[p] \in {"RUNNING", "SLEEPING"}
    BY <2>1, Zenon DEF OnCpu
  <2> QED BY <1>2, <2>1, <2>2, Zenon
<1> QED BY <1>1, <1>2, <1>3, <1>4, Zenon

\* In pause() the thread that moves owns tickslock.
LEMMA PauseOwner ==
  ASSUME ClockTypes, OnCpu, TicksOwned, NEW c \in Cpus, NEW p \in Procs, Running(c, p), InPause(p)
  PROVE  slock["ticks"] = c
BY OnItsCpu DEF TicksOwned

\* TicksOwned: tickslock is taken on the way in, and given up on the way out.
LEMMA MovesTicksOwned ==
  ASSUME ClockTypes, OnCpu, TicksOwned, NEW c \in Cpus, NEW p \in Procs, Moves(c, p)
  PROVE  TicksOwned'
<1> USE DEF ClockTypes
<1>e. Executing(c) /\ (RunProc(c, p) \/ Running(c, p))
  BY MovesExecute, Zenon
<1>r. Running(c, p) => state[p] = "RUNNING" /\ panic[c] = "no" /\ cur[c] = p /\ \A d \in Cpus : cur[d] = p => d = c
  BY OnItsCpu, Zenon
<1>h. /\ \A d \in Cpus : d # c => cur'[d] = cur[d]
      /\ ~PauseMoves(c, p) => slock'["ticks"] = slock["ticks"]
      /\ \A q \in Procs : q # p => pc'[q] = pc[q]
  BY MovesHere, MovesAlone
<1>q. ASSUME NEW q \in Procs, q # p, InPause(q)' PROVE \E d \in Cpus : cur'[d] = q /\ slock'["ticks"] = d
  <2>1. InPause(q)
    BY <1>q, <1>h, Zenon DEF InPause
  <2>2. PICK d \in Cpus : cur[d] = q /\ slock["ticks"] = d
    BY <2>1, Zenon DEF TicksOwned
  <2>3. d # c
    BY <1>e, <1>r, <1>q, <2>2, Zenon DEF RunProc, Schedule
  <2>4. ~PauseMoves(c, p)
    <3>1. ~PauseLock(c, p)
      BY <2>2, Zenon DEF PauseLock, Free
    <3>2. ASSUME PauseTest(c, p) \/ PauseSleep(c, p) PROVE FALSE
      <4>1. Running(c, p) /\ InPause(p)
        BY <3>2, Zenon DEF PauseTest, PauseSleep, InPause
      <4>2. slock["ticks"] = c
        BY <4>1, PauseOwner, Zenon
      <4> QED BY <2>2, <2>3, <4>2, Zenon
    <3> QED BY <3>1, <3>2, Zenon DEF PauseMoves
  <2> QED BY <1>h, <2>2, <2>3, <2>4, Zenon
<1>p. ASSUME InPause(p)' PROVE \E d \in Cpus : cur'[d] = p /\ slock'["ticks"] = d
  <2>1. CASE PauseLock(c, p)
    BY <2>1, <1>r, Zenon DEF PauseLock
  <2>2. CASE PauseTest(c, p)
    <3>1. Running(c, p) /\ InPause(p) /\ slock' = slock /\ cur' = cur
      BY <1>p, <2>2, Zenon DEF PauseTest, PauseReturn, Goto, InPause
    <3> QED BY <3>1, <1>r, PauseOwner, Zenon
  <2>3. CASE SysPause(c, p) \/ PauseSleep(c, p)
    BY <1>p, <2>3, Zenon DEF SysPause, PauseSleep, Goto, InPause
  <2>4. CASE OtherStep(c, p)
    <3>1. CASE RunProc(c, p)
      <4>1. InPause(p)
        BY <1>p, <3>1, Zenon DEF InPause, RunProc, threadVars
      <4> QED BY <4>1, <3>1 DEF RunProc, Schedule, OnCpu, TicksOwned
    <3>2. CASE Preempt(c, p)
      <4>1. InPause(p) /\ Running(c, p) /\ NoLocks(c)
        BY <1>p, <3>2, Zenon DEF InPause, Preempt, Yield, threadVars
      <4> QED BY <4>1, PauseOwner, Zenon DEF NoLocks
    <3>3. CASE PageFault(c, p) \/ SysSbrk(c, p) \/ SysKill(c, p) \/ SysExit(c, p) \/ TrapKilled(c, p)
      BY <1>p, <3>3, Zenon
         DEF PageFault, SysSbrk, SysKill, SysExit, TrapKilled, Syscall, Goto, InPause, threadVars
    <3>4. CASE ExitStep(c, p)
      BY <1>p, <3>4, Zenon
         DEF ExitStep, ExitReparent, ExitWakeup, ExitNextWakeup, ExitZombie, Goto, InPause
    <3>5. CASE KallocStep(c, p)
      BY <1>p, <3>5, Zenon
         DEF KallocStep, KallocFirst, KallocSleep, KallocWake, TakePage, FailTo, KfreePush,
             KfreeWakeup,
                        KfreeReturn, Goto, InPause, ThreadParts
    <3> HIDE DEF ClockTypes
    <3> QED BY <2>4, <3>1, <3>2, <3>3, <3>4, <3>5, Zenon DEF OtherStep
  <2> HIDE DEF ClockTypes
  <2> QED BY <2>1, <2>2, <2>3, <2>4, Zenon DEF Moves, PauseStep
<1> QED BY <1>p, <1>q, Zenon DEF TicksOwned

\* Handler: nothing moves on CPU 0, and nobody else has its locks.
LEMMA MovesHandler ==
  ASSUME ClockTypes, OnCpu, TicksOwned, Handler, NEW c \in Cpus, NEW p \in Procs, Moves(c, p)
  PROVE  Handler'
<1>a. /\ UNCHANGED <<ipc, ipos, inintr>>
      /\ \A q \in Procs : q # p => pc'[q] = pc[q]
  BY MovesAlone, Zenon
<1>h. /\ \A d \in Cpus : d # c => cur'[d] = cur[d] /\ panic'[d] = panic[d]
      /\ \A q \in Procs, d \in Cpus : d # c => (plock'[q] = d <=> plock[q] = d)
      /\ ~PauseMoves(c, p) => slock'["ticks"] = slock["ticks"]
  BY MovesHere, Zenon
<1>0. Cpu0 \in Cpus /\ None \notin Cpus
  BY Zenon DEF ClockTypes
<1>1. CASE ipc = "none"
  BY <1>1, <1>a, Zenon DEF Handler
<1>2. CASE ipc # "none"
  <2>1. c # Cpu0 /\ cur[Cpu0] # p
    BY <1>2, MovesElsewhere, Zenon
  <2>2. ASSUME ipc = "wakeup" PROVE slock'["ticks"] = Cpu0
    <3>1. slock["ticks"] = Cpu0
      BY <2>2, Zenon DEF Handler
    <3>2. ~PauseLock(c, p)
      BY <3>1, <1>0, Zenon DEF PauseLock, Free
    <3>3. ASSUME PauseTest(c, p) \/ PauseSleep(c, p) PROVE FALSE
      <4>1. Running(c, p) /\ InPause(p)
        BY <3>3, Zenon DEF PauseTest, PauseSleep, InPause
      <4> QED BY <2>1, <3>1, <4>1, PauseOwner, Zenon
    <3> QED BY <1>h, <3>1, <3>2, <3>3, Zenon DEF PauseMoves
  <2> QED BY <1>0, <1>2, <1>a, <1>h, <2>1, <2>2 DEF Handler, InPause
<1> QED BY <1>1, <1>2, Zenon

\* Counted: the process CPU 0 was executing is not moved off it.
LEMMA MovesCounted ==
  ASSUME ClockTypes, OnCpu, Handler, Counted, NEW c \in Cpus, NEW p \in Procs, Moves(c, p)
  PROVE  Counted'
<1>a. UNCHANGED <<ipc, ipos, runnable>>
  BY MovesAlone, Zenon
<1>1. CASE ipc # "update_psi"
  BY <1>1, <1>a, Zenon DEF Counted
<1>2. CASE ipc = "update_psi"
  <2>1. c # Cpu0
    BY <1>2, MovesElsewhere, Zenon
  <2>2. cur'[Cpu0] = cur[Cpu0]
    BY <2>1, MovesHere DEF ClockTypes
  <2> QED BY <1>a, <2>2, Zenon DEF Counted
<1> QED BY <1>1, <1>2, Zenon

\* A step of a thread makes a process sleep in pause() only as its last step there.
LEMMA MovesSleepers ==
  ASSUME ClockTypes, OnCpu, NEW c \in Cpus, NEW p \in Procs, Moves(c, p),
         NEW q \in Procs, Sleeping(q, TICKS)'
  PROVE  (q # p /\ Sleeping(q, TICKS)) \/ (q = p /\ PauseSleep(c, p))
<1> USE DEF ClockTypes
<1>r. Running(c, p) => state[p] = "RUNNING"
  BY OnItsCpu, Zenon
<1>k. KMEM # TICKS
  BY Zenon DEF KMEM, TICKS
<1>1. chan' = chan \/ RunProc(c, p) \/ KallocSleep(c, p) \/ PauseSleep(c, p)
  <2>1. CASE PauseStep(c, p)
    BY <2>1, Zenon DEF PauseStep, SysPause, PauseLock, PauseTest, schedVars
  <2>2. CASE OtherStep(c, p)
    BY <2>2, Zenon DEF OtherStep, Preempt, Yield, PageFault, SysExit, SysSbrk, SysKill, KillSlot,
         TrapKilled, KallocStep, KallocFirst, KallocWake, KfreePush, KfreeWakeup, KfreeReturn,
         ExitStep, ExitReparent, ExitWakeup, ExitNextWakeup, ExitZombie, WakeupSlot, schedVars
  <2> QED BY <2>1, <2>2, Zenon DEF Moves
<1>2. CASE q # p
  <2>1. chan'[q] = chan[q]
    BY <1>1, <1>2, Zenon DEF RunProc, Schedule, KallocSleep, PauseSleep, SleepOn
  <2>2. state[q] = "SLEEPING"
    BY <1>2, MovesStates DEF Sleeping
  <2> QED BY <1>2, <2>1, <2>2, Zenon DEF Sleeping
<1>3. CASE q = p /\ ~PauseSleep(c, p)
  <2>1. CASE RunProc(c, p)
    BY <1>3, <2>1, Zenon DEF RunProc, Schedule, Sleeping
  <2>2. CASE KallocSleep(c, p)
    BY <1>3, <1>k, <2>2, Zenon DEF KallocSleep, SleepOn, Sleeping
  <2>3. CASE Preempt(c, p) \/ ExitZombie(c, p)
    BY <1>3, <2>3, Zenon DEF Preempt, Yield, ExitZombie, Sleeping
  <2>4. CASE ~RunProc(c, p) /\ ~KallocSleep(c, p) /\ ~Preempt(c, p) /\ ~ExitZombie(c, p)
    <3>1. state'[p] # "SLEEPING"
      <4>1. Running(c, p)
        BY <2>4, MovesExecute, Zenon
      <4> QED BY <1>3, <1>r, <2>4, <4>1, MovesStates, Zenon
    <3> QED BY <1>3, <3>1, Zenon DEF Sleeping
  <2> QED BY <2>1, <2>2, <2>3, <2>4, Zenon
<1> QED BY <1>2, <1>3, Zenon

\* The time a process has been in pause() only depends on ticks and on its own
\* ticks0.
LEMMA ElapsedKept ==
  ASSUME NEW q \in Procs, ticks' = ticks, ticks0'[q] = ticks0[q]
  PROVE  Elapsed(q)' = Elapsed(q)
BY Zenon DEF Elapsed

\* Waiting: a thread goes to sleep in pause() only with ticks left.
LEMMA MovesWaiting ==
  ASSUME ClockTypes, OnCpu, Waiting, NEW c \in Cpus, NEW p \in Procs, Moves(c, p)
  PROVE  Waiting'
<1>a. /\ ipc' = ipc /\ ipos' = ipos /\ ticks' = ticks
      /\ \A q \in Procs : q # p => pc'[q] = pc[q] /\ ticks0'[q] = ticks0[q] /\ n'[q] = n[q]
  BY MovesAlone, Zenon
<1>q. ASSUME NEW q \in Procs, q # p
      PROVE  /\ pc'[q] = "pause_sleep" => Elapsed(q)' < n'[q]
             /\ Sleeping(q, TICKS)' => Elapsed(q)' < n'[q] \/ (ipc' = "wakeup" /\ ipos' <= q)
  <2>1. Elapsed(q)' = Elapsed(q) /\ pc'[q] = pc[q] /\ n'[q] = n[q]
    BY <1>a, <1>q, ElapsedKept, Zenon
  <2>2. Sleeping(q, TICKS)' => Sleeping(q, TICKS)
    BY <1>q, MovesSleepers, Zenon
  <2> QED BY <1>a, <2>1, <2>2, Zenon DEF Waiting
<1>p. /\ pc'[p] = "pause_sleep" => Elapsed(p)' < n'[p]
      /\ Sleeping(p, TICKS)' => Elapsed(p)' < n'[p] \/ (ipc' = "wakeup" /\ ipos' <= p)
  <2>1. CASE PauseSleep(c, p)
    <3>1. pc[p] = "pause_sleep" /\ ticks0' = ticks0 /\ n' = n
      BY <2>1, Zenon DEF PauseSleep, clockVars, pauseVars
    <3>2. pc'[p] # "pause_sleep"
      BY <2>1, Zenon DEF PauseSleep, Goto, ClockTypes
    <3>3. Elapsed(p)' = Elapsed(p)
      BY <1>a, <3>1, ElapsedKept, Zenon
    <3> QED BY <3>1, <3>2, <3>3, Zenon DEF Waiting
  <2>2. CASE ~PauseSleep(c, p)
    <3>1. ~Sleeping(p, TICKS)'
      BY <2>2, MovesSleepers, Zenon
    <3>2. ASSUME pc'[p] = "pause_sleep" PROVE Elapsed(p)' < n'[p]
      <4>1. CASE PauseTest(c, p)
        <5>1. Elapsed(p) < n[p] /\ ticks0' = ticks0 /\ n' = n
          BY <3>2, <4>1, Zenon DEF PauseTest, PauseReturn, Goto, ClockTypes, pauseVars
        <5>2. Elapsed(p)' = Elapsed(p)
          BY <1>a, <5>1, ElapsedKept, Zenon
        <5> QED BY <5>1, <5>2, Zenon
      <4>2. CASE PauseLock(c, p) \/ SysPause(c, p)
        BY <3>2, <4>2, Zenon DEF PauseLock, SysPause, Goto, ClockTypes
      <4>3. CASE OtherStep(c, p)
        <5>1. pc[p] = "pause_sleep"
          <6> USE DEF ClockTypes
          <6>1. CASE RunProc(c, p) \/ Preempt(c, p) \/ SysKill(c, p)
            BY <3>2, <6>1, Zenon DEF RunProc, Preempt, SysKill, threadVars
          <6>2. CASE PageFault(c, p) \/ SysSbrk(c, p) \/ SysExit(c, p) \/ TrapKilled(c, p)
            BY <3>2, <6>2, Zenon DEF PageFault, SysSbrk, SysExit, TrapKilled, Goto
          <6>3. CASE ExitStep(c, p)
            BY <3>2, <6>3, Zenon
               DEF ExitStep, ExitReparent, ExitWakeup, ExitNextWakeup, ExitZombie, Goto
          <6>4. CASE KallocStep(c, p)
            BY <3>2, <6>4, Zenon
               DEF KallocStep, KallocFirst, KallocSleep, KallocWake, TakePage, FailTo, KfreePush,
                   KfreeWakeup,
                              KfreeReturn, Goto, ThreadParts
          <6> HIDE DEF ClockTypes
          <6> QED BY <4>3, <6>1, <6>2, <6>3, <6>4, Zenon DEF OtherStep
        <5>2. ticks0' = ticks0 /\ n' = n
          BY <4>3, Zenon DEF OtherStep, clockVars, pauseVars
        <5>3. Elapsed(p)' = Elapsed(p)
          BY <1>a, <5>2, ElapsedKept, Zenon
        <5> QED BY <5>1, <5>2, <5>3, Zenon DEF Waiting
      <4> QED BY <2>2, <4>1, <4>2, <4>3, Zenon DEF Moves, PauseStep
    <3> QED BY <3>1, <3>2, Zenon
  <2> QED BY <2>1, <2>2, Zenon
<1> QED BY <1>q, <1>p, Zenon DEF Waiting

-----------------------------------------------------------------------------
(* Stall times.                                                            *)

\* A remainder is below the modulus, and not above a natural dividend.
LEMMA Remainder ==
  ASSUME NEW x \in Int, NEW m \in Nat \ {0}
  PROVE  x % m \in 0 .. m - 1 /\ (x \in Nat => x % m <= x)
OBVIOUS

\* The steps of kalloc() that note and that count a stall.
NotesStall(p) ==
  /\ pc[p] = "kalloc" /\ pc'[p] = "kalloc_sleep" /\ mem_stall_ticks' = mem_stall_ticks
  /\ last_stall_start' = [last_stall_start EXCEPT ![p] = ticks]
CountsStall(p) ==
  /\ pc[p] = "kalloc_wake" /\ pc'[p] = "user" /\ last_stall_start' = last_stall_start
  /\ mem_stall_ticks' = [mem_stall_ticks EXCEPT ![p] = (@ + ticks - last_stall_start[p]) % STALLMOD]

\* A step of a thread changes the stall times only in kalloc().
LEMMA MovesStalls ==
  ASSUME ClockTypes, NEW c \in Cpus, NEW p \in Procs, Moves(c, p)
  PROVE  \/ NotesStall(p) \/ CountsStall(p)
         \/ /\ UNCHANGED <<last_stall_start, mem_stall_ticks>>
            /\ Stalled(p)' => Stalled(p)
<1> USE DEF ClockTypes, Stalled
<1>1. CASE PauseStep(c, p)
  BY <1>1, Zenon
     DEF PauseStep, SysPause, PauseLock, PauseTest, PauseReturn, PauseSleep, Goto, memVars,
         stallVars
<1>2. CASE RunProc(c, p) \/ Preempt(c, p) \/ SysKill(c, p)
  BY <1>2, Zenon DEF RunProc, Preempt, SysKill, threadVars, memVars, stallVars
<1>3. CASE PageFault(c, p) \/ SysSbrk(c, p) \/ SysExit(c, p) \/ TrapKilled(c, p)
  BY <1>3, Zenon DEF PageFault, SysSbrk, SysExit, TrapKilled, Goto, memVars, stallVars
<1>4. CASE ExitStep(c, p)
  BY <1>4, Zenon
     DEF ExitStep, ExitReparent, ExitWakeup, ExitNextWakeup, ExitZombie, Goto, memVars, stallVars
<1>5. CASE KallocFirst(c, p)
  BY <1>5, Zenon DEF KallocFirst, TakePage, Goto, ThreadParts, NotesStall
<1>6. CASE KallocSleep(c, p)
  BY <1>6, Zenon DEF KallocSleep, Goto, memVars, stallVars
<1>7. CASE KallocWake(c, p)
  <2>1. CASE TakePage(p)
    <3>1. \/ CountsStall(p) \/ UNCHANGED <<last_stall_start, mem_stall_ticks>>
      BY <1>7, <2>1, Zenon DEF KallocWake, TakePage, Goto, ThreadParts, CountsStall
    <3>2. pc[p] = "kalloc_wake"
      BY <1>7, Zenon DEF KallocWake
    <3> QED BY <3>1, <3>2, Zenon
  <2>2. CASE ~TakePage(p)
    BY <1>7, <2>2, Zenon DEF KallocWake
  <2> QED BY <2>1, <2>2, Zenon
<1>8. CASE KfreePush(c, p) \/ KfreeWakeup(c, p) \/ KfreeReturn(c, p)
  BY <1>8, Zenon DEF KfreePush, KfreeWakeup, KfreeReturn, Goto, memVars, stallVars, ThreadParts
<1> HIDE DEF ClockTypes, Stalled
<1> QED BY <1>1, <1>2, <1>3, <1>4, <1>5, <1>6, <1>7, <1>8, Zenon DEF Moves, OtherStep, KallocStep

\* The types of the stall times.
StallTypes ==
  /\ ticks \in 0 .. TICKMOD - 1 /\ uptime \in Nat
  /\ last_stall_start \in [Procs -> 0 .. TICKMOD - 1]
  /\ mem_stall_ticks \in [Procs -> 0 .. STALLMOD - 1]
  /\ TICKMOD \in Nat \ {0} /\ STALLMOD \in Nat \ {0} /\ StartTick \in Nat

\* StallTimes: the stall that ends began after the earlier ones.
LEMMA MovesStallTimes ==
  ASSUME ClockTypes, StallTypes, StallTimes, NEW c \in Cpus, NEW p \in Procs, Moves(c, p)
  PROVE  /\ StallTimes'
         /\ last_stall_start' \in [Procs -> 0 .. TICKMOD - 1]
         /\ mem_stall_ticks' \in [Procs -> 0 .. STALLMOD - 1]
<1>a. /\ ticks' = ticks /\ uptime' = uptime
      /\ \A q \in Procs : q # p => pc'[q] = pc[q]
  BY MovesAlone, Zenon
<1> USE DEF StallTypes
<1>1. CASE NotesStall(p)
  <2>1. \A q \in Procs : q # p => (Stalled(q)' => Stalled(q))
    BY <1>a, Zenon DEF Stalled
  <2>2. last_stall_start' = [last_stall_start EXCEPT ![p] = ticks] /\ mem_stall_ticks' = mem_stall_ticks
    BY <1>1, Zenon DEF NotesStall
  <2> QED BY <1>a, <2>1, <2>2 DEF StallTimes
<1>2. CASE CountsStall(p)
  <2> DEFINE x == mem_stall_ticks[p] + ticks - last_stall_start[p]
             y == x % STALLMOD
  <2>0. x \in Int
    OBVIOUS
  <2>1. y \in 0 .. STALLMOD - 1 /\ (x \in Nat => y <= x)
    <3> HIDE DEF x
    <3> QED BY <2>0, Remainder, Zenon
  <2>2. mem_stall_ticks' = [mem_stall_ticks EXCEPT ![p] = y] /\ last_stall_start' = last_stall_start
    BY <1>2, Zenon DEF CountsStall
  <2>3. ~Stalled(p)' /\ Stalled(p)
    BY <1>2, Zenon DEF CountsStall, Stalled
  <2>4. \A q \in Procs : q # p => (Stalled(q)' => Stalled(q))
    BY <1>a, Zenon DEF Stalled
  <2>5. mem_stall_ticks' \in [Procs -> 0 .. STALLMOD - 1]
    <3> HIDE DEF y
    <3> QED BY <2>1, <2>2, Zenon
  <2>6. StallTimes'
    <3> SUFFICES ASSUME StartTick + uptime < TICKMOD
                 PROVE  /\ ticks = StartTick + uptime
                        /\ \A q \in Procs :
                             /\ mem_stall_ticks'[q] <= uptime
                             /\ Stalled(q)' =>
                                  /\ last_stall_start[q] <= ticks
                                  /\ StartTick + mem_stall_ticks'[q] <= last_stall_start[q]
      BY <1>a, <2>2, Zenon DEF StallTimes
    <3>1. /\ ticks = StartTick + uptime
          /\ \A q \in Procs :
               /\ mem_stall_ticks[q] <= uptime
               /\ Stalled(q) =>
                    /\ last_stall_start[q] <= ticks
                    /\ StartTick + mem_stall_ticks[q] <= last_stall_start[q]
      BY Zenon DEF StallTimes
    <3>2. x \in Nat /\ x <= uptime
      BY <3>1, <2>3
    <3>3. y <= uptime /\ y \in Int
      <4> HIDE DEF x, y
      <4> QED BY <2>1, <3>2
    <3> HIDE DEF x, y
    <3> QED BY <2>2, <2>3, <2>4, <3>1, <3>3, Zenon
  <2> QED BY <2>2, <2>5, <2>6, Zenon
<1>3. CASE UNCHANGED <<last_stall_start, mem_stall_ticks>> /\ (Stalled(p)' => Stalled(p))
  <2>1. \A q \in Procs : Stalled(q)' => Stalled(q)
    BY <1>3, <1>a, Zenon DEF Stalled
  <2> QED BY <1>3, <1>a, <2>1, Zenon DEF StallTimes
<1> QED BY <1>1, <1>2, <1>3, MovesStalls, Zenon

-----------------------------------------------------------------------------
(* Pages and types.                                                        *)

\* What a step of a thread does to the pages.
LEMMA MovesPages ==
  ASSUME ClockTypes, NEW c \in Cpus, NEW p \in Procs, Moves(c, p)
  PROVE  \/ /\ UNCHANGED <<free, frames>>
            /\ InKalloc(p)' => InKalloc(p) \/ frames[p] < SlotMax
            /\ pc'[p] = "kfree" => pc[p] = "kfree" \/ frames[p] > 0
         \/ /\ InKalloc(p) /\ pc'[p] = "user" /\ free > 0 /\ free' = free - 1
            /\ frames' = [frames EXCEPT ![p] = @ + 1]
         \/ /\ pc[p] = "kfree" /\ pc'[p] = "kfree_wakeup" /\ free' = free + 1
            /\ frames' = [frames EXCEPT ![p] = @ - 1]
<1> USE DEF ClockTypes, ThreadParts, InKalloc, memVars
<1>1. CASE PauseStep(c, p)
  <2>1. CASE SysPause(c, p) \/ PauseLock(c, p)
    BY <2>1, SMTT(30) DEF SysPause, PauseLock, PauseReturn, Goto
  <2>2. CASE PauseTest(c, p) \/ PauseSleep(c, p)
    BY <2>2, SMTT(30) DEF PauseTest, PauseReturn, PauseSleep, Goto
  <2> QED BY <1>1, <2>1, <2>2, Zenon DEF PauseStep
<1>2. CASE RunProc(c, p) \/ Preempt(c, p) \/ SysKill(c, p)
  BY <1>2, Zenon DEF RunProc, Preempt, SysKill, threadVars
<1>3. CASE PageFault(c, p)
  BY <1>3, Zenon DEF PageFault, Goto, SlotMax
<1>4. CASE SysSbrk(c, p)
  <2>1. KFRAMES \in Nat /\ MaxUser \in Nat
    BY ProcAssumption, Zenon DEF ProcAssumption
  <2> QED BY <1>4, <2>1 DEF SysSbrk, Goto, SlotMax
<1>5. CASE SysExit(c, p) \/ TrapKilled(c, p)
  BY <1>5, ZenonT(30) DEF SysExit, TrapKilled, Goto
<1>6. CASE ExitStep(c, p)
  BY <1>6, ZenonT(30) DEF ExitStep, ExitReparent, ExitWakeup, ExitNextWakeup, ExitZombie, Goto
<1>7. CASE KallocFirst(c, p)
  BY <1>7, Zenon DEF KallocFirst, TakePage, Goto
<1>8. CASE KallocSleep(c, p)
  BY <1>8, Zenon DEF KallocSleep, Goto
<1>9. CASE KallocWake(c, p)
  <2>1. CASE TakePage(p)
    BY <1>9, <2>1, Zenon DEF KallocWake, TakePage, Goto
  <2>2. CASE ~TakePage(p)
    BY <1>9, <2>2, Zenon DEF KallocWake, FailTo, Goto
  <2> QED BY <2>1, <2>2, Zenon
<1>10. CASE KfreePush(c, p)
  BY <1>10, Zenon DEF KfreePush, Goto
<1>11. CASE KfreeWakeup(c, p) \/ KfreeReturn(c, p)
  BY <1>11, Zenon DEF KfreeWakeup, KfreeReturn, Goto
<1> HIDE DEF ClockTypes, ThreadParts, InKalloc, memVars
<1> QED BY <1>1, <1>2, <1>3, <1>4, <1>5, <1>6, <1>7, <1>8, <1>9, <1>10, <1>11, ZenonT(60)
           DEF Moves, OtherStep, KallocStep

\* PageInv: a page goes from the free list to a process and back.
LEMMA MovesPageInv ==
  ASSUME ClockTypes, free \in Nat, PageInv, NEW c \in Cpus, NEW p \in Procs, Moves(c, p)
  PROVE  PageInv' /\ free' \in 0 .. NPAGES /\ frames' \in [Procs -> 0 .. SlotMax]
<1>0. SlotMax \in Nat /\ NPAGES \in Nat /\ Held = HeldOf(frames) /\ Held' = HeldOf(frames')
  BY ProcAssumption DEF ProcAssumption, SlotMax, Held, HeldOf
<1>f. /\ frames \in [Procs -> 0 .. SlotMax] /\ free + Cardinality(HeldOf(frames)) = NPAGES
      /\ tgt = [q \in Procs |-> q]
  BY <1>0, Zenon DEF PageInv, PagesAccounted, SlotMax, ClockTypes, ThreadParts
<1>c. Cardinality(HeldOf(frames)) \in Nat
  BY HeldFinite, Zenon
<1>a. /\ tgt' = tgt
      /\ \A q \in Procs : q # p => pc'[q] = pc[q]
  BY MovesAlone, Zenon
<1>r. \A q \in Procs : (InKalloc(q) => frames[q] < SlotMax) /\ (pc[q] = "kfree" => frames[q] > 0)
  BY <1>f, Zenon DEF PageInv, PageRoom, SlotMax
<1>k. \A q \in Procs : q # p => (InKalloc(q)' => InKalloc(q))
  BY <1>a, Zenon DEF InKalloc
<1>w. ASSUME free' \in Nat, frames' \in [Procs -> 0 .. SlotMax], free' + Cardinality(HeldOf(frames')) = NPAGES,
             \A q \in Procs : (InKalloc(q)' => frames'[q] < SlotMax) /\ (pc'[q] = "kfree" => frames'[q] > 0)
      PROVE  PageInv' /\ free' \in 0 .. NPAGES
  <2>1. Cardinality(HeldOf(frames')) \in Nat
    BY HeldFinite, Zenon
  <2>2. free' \in 0 .. NPAGES
    BY <1>0, <1>w, <2>1
  <2>3. PagesAccounted'
    BY <1>0, <1>w, Zenon DEF PagesAccounted, SlotMax
  <2>4. PageRoom'
    BY <1>a, <1>f, <1>w, Zenon DEF PageRoom, SlotMax
  <2> QED BY <2>2, <2>3, <2>4, Zenon DEF PageInv
<1>1. CASE /\ UNCHANGED <<free, frames>>
           /\ InKalloc(p)' => InKalloc(p) \/ frames[p] < SlotMax
           /\ pc'[p] = "kfree" => pc[p] = "kfree" \/ frames[p] > 0
  <2>1. \A q \in Procs : (InKalloc(q)' => frames'[q] < SlotMax) /\ (pc'[q] = "kfree" => frames'[q] > 0)
    BY <1>1, <1>a, <1>r, <1>k, Zenon
  <2> QED BY <1>1, <1>f, <1>w, <2>1, Zenon
<1>2. CASE /\ InKalloc(p) /\ pc'[p] = "user" /\ free > 0 /\ free' = free - 1
           /\ frames' = [frames EXCEPT ![p] = @ + 1]
  <2>1. frames[p] < SlotMax
    BY <1>2, <1>r, Zenon
  <2>2. Cardinality(HeldOf(frames')) = Cardinality(HeldOf(frames)) + 1
    BY <1>2, <1>f, <2>1, HeldMore, Zenon
  <2>3. frames' \in [Procs -> 0 .. SlotMax]
    BY <1>0, <1>2, <1>f, <2>1
  <2>4. free' \in Nat /\ free' + Cardinality(HeldOf(frames')) = NPAGES
    BY <1>0, <1>2, <1>f, <1>c, <2>2
  <2>5. \A q \in Procs : (InKalloc(q)' => frames'[q] < SlotMax) /\ (pc'[q] = "kfree" => frames'[q] > 0)
    <3>1. ~InKalloc(p)'
      BY <1>2, Zenon DEF InKalloc
    <3> QED BY <1>2, <1>a, <1>f, <1>r, <1>k, <3>1, Zenon
  <2> QED BY <1>w, <2>3, <2>4, <2>5, Zenon
<1>3. CASE /\ pc[p] = "kfree" /\ pc'[p] = "kfree_wakeup" /\ free' = free + 1
           /\ frames' = [frames EXCEPT ![p] = @ - 1]
  <2>1. frames[p] > 0
    BY <1>3, <1>r, Zenon
  <2>2. Cardinality(HeldOf(frames')) = Cardinality(HeldOf(frames)) - 1
    BY <1>3, <1>f, <2>1, HeldLess, Zenon
  <2>3. frames' \in [Procs -> 0 .. SlotMax]
    BY <1>0, <1>3, <1>f, <2>1
  <2>4. free' \in Nat /\ free' + Cardinality(HeldOf(frames')) = NPAGES
    BY <1>0, <1>3, <1>f, <1>c, <2>2
  <2>5. \A q \in Procs : (InKalloc(q)' => frames'[q] < SlotMax) /\ (pc'[q] = "kfree" => frames'[q] > 0)
    <3>1. ~InKalloc(p)'
      BY <1>3, Zenon DEF InKalloc
    <3> QED BY <1>3, <1>a, <1>f, <1>r, <1>k, <3>1, Zenon
  <2> QED BY <1>w, <2>3, <2>4, <2>5, Zenon
<1> QED BY <1>1, <1>2, <1>3, MovesPages, Zenon

\* The types of the process table are kept by the steps of threads.
LEMMA MovesSchedTypes ==
  ASSUME ClockTypes, OnCpu, SchedTypeOK(Channels \cup {TICKS}), NEW c \in Cpus, NEW p \in Procs, Moves(c, p)
  PROVE  SchedTypeOK(Channels \cup {TICKS})'
<1> USE DEF ClockTypes, SchedTypeOK
<1>s. state' \in [Procs -> States]
  BY MovesStates DEF States
<1>1. CASE UNCHANGED schedVars
  BY <1>1, Zenon DEF schedVars
<1>2. CASE RunProc(c, p)
  BY <1>2, <1>s, Zenon DEF RunProc, Schedule
<1>3. CASE Preempt(c, p)
  BY <1>3, <1>s, Zenon DEF Preempt, Yield
<1>4. CASE KfreeWakeup(c, p) \/ ExitWakeup(c, p)
  <2>1. PICK ch : WakeupSlot(c, iter[p], ch)
    BY <1>4, Zenon DEF KfreeWakeup, ExitWakeup
  <2> QED BY <2>1, <1>s, Zenon DEF WakeupSlot, Panics
<1>5. CASE KallocSleep(c, p) \/ PauseSleep(c, p)
  <2>1. PICK ch \in {KMEM, TICKS}, lk \in Locks : SleepOn(c, p, ch, lk)
    BY <1>5, Zenon DEF KallocSleep, PauseSleep
  <2>2. ch \in Channels \cup {TICKS}
    BY Zenon DEF Channels
  <2> QED BY <2>1, <2>2, <1>s DEF SleepOn, Panics
<1>6. CASE SysKill(c, p)
  <2>1. PICK q \in Procs : KillSlot(q)
    BY <1>6, Zenon DEF SysKill, KillTargets
  <2> QED BY <2>1, <1>s, Zenon DEF KillSlot
<1>7. CASE KallocFirst(c, p) \/ KallocWake(c, p) \/ KfreePush(c, p) \/ KfreeReturn(c, p)
  <2>1. /\ UNCHANGED <<state, chan, killed, plock, cur, panic, inintr>>
        /\ slock' = slock \/ slock' = [slock EXCEPT !["kmem"] = c] \/ slock' = [slock EXCEPT !["kmem"] = None]
    BY <1>7, ZenonT(60) DEF KallocFirst, KallocWake, KfreePush, KfreeReturn
  <2> QED BY <2>1
<1>8. CASE ExitReparent(c, p) \/ ExitZombie(c, p)
  <2>1. CASE ExitReparent(c, p)
    BY <1>s, <2>1, SMTT(30) DEF ExitReparent, Panics
  <2>2. CASE ExitZombie(c, p)
    BY <1>s, <2>2, SMTT(30) DEF ExitZombie, Panics
  <2> QED BY <1>8, <2>1, <2>2, Zenon
<1>9. CASE PauseLock(c, p) \/ PauseTest(c, p)
  BY <1>9, <1>s, SMTT(30) DEF PauseLock, PauseTest, PauseReturn
<1>10. \/ UNCHANGED schedVars \/ RunProc(c, p) \/ Preempt(c, p) \/ KfreeWakeup(c, p) \/ ExitWakeup(c, p)
       \/ KallocSleep(c, p) \/ PauseSleep(c, p) \/ SysKill(c, p) \/ KallocFirst(c, p) \/ KallocWake(c, p)
       \/ KfreePush(c, p) \/ KfreeReturn(c, p) \/ ExitReparent(c, p) \/ ExitZombie(c, p)
       \/ PauseLock(c, p) \/ PauseTest(c, p)
  BY Zenon DEF Moves, PauseStep, SysPause, OtherStep, PageFault, SysExit, SysSbrk, TrapKilled,
               KallocStep,
         ExitStep, ExitNextWakeup
<1> HIDE DEF ClockTypes, SchedTypeOK
<1> QED BY <1>1, <1>2, <1>3, <1>4, <1>5, <1>6, <1>7, <1>8, <1>9, <1>10, ZenonT(30)

\* So are the types of the threads' own variables.
LEMMA MovesThreadTypes ==
  ASSUME ClockTypes, ticks \in 0 .. TICKMOD - 1, NEW c \in Cpus, NEW p \in Procs, Moves(c, p)
  PROVE  /\ pc' \in [Procs -> Labels \cup {"pause_start", "pause", "pause_sleep", "pause_wake"}]
         /\ ticks0' \in [Procs -> 0 .. TICKMOD - 1] /\ n' \in [Procs -> 0 .. MaxPause]
         /\ iter' \in [Procs -> 1 .. NPROC + 1]
         /\ parent' \in [Procs -> Procs \cup {None}]
<1> USE DEF ClockTypes
<1>0. NPROC \in Nat \ {0} /\ TICKMOD \in Nat \ {0} /\ MaxPause \in Nat
  BY SchedAssumption, ClockAssumption DEF SchedAssumption, ClockAssumption
<1>1. pc' \in [Procs -> Labels \cup {"pause_start", "pause", "pause_sleep", "pause_wake"}]
  <2>1. pc' = pc \/ \E l \in Labels \cup {"pause_start", "pause", "pause_sleep", "pause_wake"} : pc' = [pc EXCEPT ![p] = l]
    <3>l. /\ {"user", "kalloc", "kfree", "exit", "zombie", "exit_wake_init", "exit_wake_parent"} \subseteq Labels
          /\ {"kalloc_sleep", "kalloc_wake", "kfree_wakeup"} \subseteq Labels
      BY Zenon DEF Labels
    <3>1. CASE PauseStep(c, p)
      BY <3>1, <3>l, Zenon
         DEF PauseStep, SysPause, PauseLock, PauseTest, PauseReturn, PauseSleep, Goto
    <3>2. CASE RunProc(c, p) \/ Preempt(c, p) \/ SysKill(c, p)
      BY <3>2, Zenon DEF RunProc, Preempt, SysKill, threadVars
    <3>3. CASE PageFault(c, p) \/ SysSbrk(c, p) \/ SysExit(c, p) \/ TrapKilled(c, p)
      BY <3>3, <3>l, Zenon DEF PageFault, SysSbrk, SysExit, TrapKilled, Goto
    <3>4. CASE ExitStep(c, p)
      BY <3>4, <3>l, Zenon DEF ExitStep, ExitReparent, ExitWakeup, ExitNextWakeup, ExitZombie, Goto
    <3>5. CASE KallocFirst(c, p) \/ KallocSleep(c, p) \/ KallocWake(c, p)
      BY <3>5, <3>l, Zenon
         DEF KallocFirst, KallocSleep, KallocWake, TakePage, FailTo, Goto, ThreadParts
    <3>6. CASE KfreePush(c, p) \/ KfreeWakeup(c, p) \/ KfreeReturn(c, p)
      BY <3>6, <3>l, Zenon DEF KfreePush, KfreeWakeup, KfreeReturn, Goto, ThreadParts
    <3> HIDE DEF ClockTypes
    <3> QED BY <3>1, <3>2, <3>3, <3>4, <3>5, <3>6, Zenon DEF Moves, OtherStep, KallocStep
  <2> QED BY <2>1, Zenon
<1>2. ticks0' \in [Procs -> 0 .. TICKMOD - 1] /\ n' \in [Procs -> 0 .. MaxPause]
  <2>1. CASE PauseStep(c, p)
    <3>1. CASE SysPause(c, p)
      BY <3>1 DEF SysPause
    <3>2. CASE PauseLock(c, p)
      BY <3>2, Zenon DEF PauseLock
    <3>3. CASE PauseTest(c, p)
      <4>1. UNCHANGED <<ticks0, n>> \/ PauseReturn(p)
        BY <3>3, Zenon DEF PauseTest, pauseVars
      <4> QED BY <1>0, <4>1 DEF PauseReturn
    <3>4. CASE PauseSleep(c, p)
      BY <3>4, Zenon DEF PauseSleep, clockVars, pauseVars
    <3> QED BY <2>1, <3>1, <3>2, <3>3, <3>4, Zenon DEF PauseStep
  <2>2. CASE OtherStep(c, p)
    BY <2>2, Zenon DEF OtherStep, clockVars, pauseVars
  <2> QED BY <2>1, <2>2, Zenon DEF Moves
<1>3. iter' \in [Procs -> 1 .. NPROC + 1]
  <2>i. iter \in [Procs -> 1 .. NPROC + 1]
    BY Zenon DEF ThreadParts
  <2>1. iter' = iter \/ \E i \in {0} \cup Procs : iter' = [iter EXCEPT ![p] = After(p, i)] \/ iter' = [iter EXCEPT ![p] = 1]
    <3>1. CASE PauseStep(c, p)
      BY <3>1, Zenon DEF PauseStep, SysPause, PauseLock, PauseTest, PauseSleep
    <3>2. CASE OtherStep(c, p)
      <4>1. CASE KfreePush(c, p) \/ KfreeWakeup(c, p) \/ KfreeReturn(c, p) \/ ExitStep(c, p)
        BY <4>1, Zenon
           DEF KfreePush, KfreeWakeup, KfreeReturn, ExitStep, ExitReparent, ExitWakeup,
               ExitNextWakeup, ExitZombie
      <4>2. CASE iter' = iter
        BY <4>2, Zenon
      <4>3. KfreePush(c, p) \/ KfreeWakeup(c, p) \/ KfreeReturn(c, p) \/ ExitStep(c, p) \/ iter' = iter
        BY <3>2, Zenon
           DEF OtherStep, RunProc, Preempt, PageFault, SysSbrk, SysKill, SysExit, TrapKilled,
               KallocStep,
             KallocFirst, KallocSleep, KallocWake, threadVars
      <4> QED BY <4>1, <4>2, <4>3, Zenon
    <3> QED BY <3>1, <3>2, Zenon DEF Moves
  <2>2. \A i \in {0} \cup Procs : After(p, i) \in 1 .. NPROC + 1
    <3>1. \A i \in 0 .. NPROC : After(p, i) \in 1 .. NPROC + 1
      BY LaterRange, Zenon
    <3>2. \A i \in {0} \cup Procs : i \in 0 .. NPROC
      BY <1>0 DEF Procs
    <3> QED BY <3>1, <3>2, Zenon
  <2> QED BY <1>0, <2>i, <2>1, <2>2
<1>4. parent' \in [Procs -> Procs \cup {None}]
  <2>1. parent \in [Procs -> Procs \cup {None}] /\ initproc \in Procs
    BY Zenon DEF ThreadParts
  <2>2. CASE ExitReparent(c, p) /\ p # initproc
    BY <2>1, <2>2, Zenon DEF ExitReparent
  <2>3. parent' = parent \/ (ExitReparent(c, p) /\ p # initproc)
    BY Zenon DEF Moves, PauseStep, SysPause, PauseLock, PauseTest, PauseSleep, OtherStep, RunProc,
                 Preempt, PageFault,
         SysSbrk, SysKill, SysExit, TrapKilled, ExitStep, ExitReparent, ExitWakeup, ExitNextWakeup, ExitZombie
  <2> QED BY <2>1, <2>2, <2>3, Zenon
<1> QED BY <1>1, <1>2, <1>3, <1>4, ZenonT(60)

-----------------------------------------------------------------------------
(* The steps of threads together, and the steps of clockintr().            *)

\* ClockInv is kept by every step of a thread, whatever clockintr() is doing.
LEMMA MovesKeep ==
  ASSUME ClockInv, NEW c \in Cpus, NEW p \in Procs, Moves(c, p)
  PROVE  ClockInv'
<1>1. ClockTypes /\ OnCpu /\ TicksOwned /\ Handler /\ Waiting /\ Counted /\ StallTimes /\ PageInv
  BY ClockTypesHold, Zenon DEF ClockInv
<1>2. /\ SchedTypeOK(Channels \cup {TICKS}) /\ free \in Nat /\ ticks \in 0 .. TICKMOD - 1 /\ StallTypes
  <2>1. TICKMOD \in Nat \ {0} /\ STALLMOD \in Nat \ {0} /\ StartTick \in Nat /\ MaxTicks \in Nat
    BY ClockAssumption, KallocAssumption DEF ClockAssumption, KallocAssumption
  <2>2. ClockTypeOK
    BY Zenon DEF ClockInv
  <2> QED BY <2>1, <2>2 DEF ClockTypeOK, StallTypes
<1>3. UNCHANGED <<ipc, ipos, stalled, runnable, uptime, ticks, inintr, tgt, ra, calls>>
  BY <1>1, MovesAlone, Zenon
<1>4. OnCpu' /\ TicksOwned' /\ Handler' /\ Counted' /\ Waiting'
  BY <1>1, MovesOnCpu, MovesTicksOwned, MovesHandler, MovesCounted, MovesWaiting, Zenon
<1>5. /\ StallTimes' /\ last_stall_start' \in [Procs -> 0 .. TICKMOD - 1]
      /\ mem_stall_ticks' \in [Procs -> 0 .. STALLMOD - 1]
  BY <1>1, <1>2, MovesStallTimes, Zenon
<1>6. PageInv' /\ free' \in 0 .. NPAGES /\ frames' \in [Procs -> 0 .. SlotMax]
  BY <1>1, <1>2, MovesPageInv, Zenon
<1>7. SchedTypeOK(Channels \cup {TICKS})'
  BY <1>1, <1>2, MovesSchedTypes, Zenon
<1>8. /\ pc' \in [Procs -> Labels \cup {"pause_start", "pause", "pause_sleep", "pause_wake"}]
      /\ ticks0' \in [Procs -> 0 .. TICKMOD - 1] /\ n' \in [Procs -> 0 .. MaxPause]
      /\ iter' \in [Procs -> 1 .. NPROC + 1]
      /\ parent' \in [Procs -> Procs \cup {None}]
  BY <1>1, <1>2, MovesThreadTypes, Zenon
<1>9. ThreadParts'
  <2>1. tgt = [q \in Procs |-> q] /\ ra = [q \in Procs |-> "user"]
    BY <1>1, Zenon DEF ClockTypes, ThreadParts
  <2> QED BY <1>3, <1>6, <1>8, <2>1, Zenon DEF ThreadParts
<1>10. ClockTypeOK'
  <2>1. /\ calls \in Mixes /\ ipc \in {"none", "wakeup", "update_psi", "return"} /\ ipos \in 1 .. NPROC + 1
        /\ stalled \in BOOLEAN /\ runnable \in BOOLEAN /\ uptime \in 0 .. MaxTicks
    BY Zenon DEF ClockInv, ClockTypeOK
  <2> QED BY <1>2, <1>3, <1>5, <1>6, <1>7, <1>8, <2>1, Zenon DEF ClockTypeOK
<1> QED BY <1>4, <1>5, <1>6, <1>9, <1>10, Zenon DEF ClockInv

\* The handler touches neither the pages nor the locals of the threads.
LEMMA ThreadsKept ==
  ASSUME ThreadParts, PageInv, UNCHANGED <<free, frames, threadVars, parent>>
  PROVE  ThreadParts' /\ PageInv'
<1>1. ThreadParts'
  BY Zenon DEF ThreadParts, threadVars
<1>2. Held' = Held
  BY Zenon DEF Held
<1>3. PagesAccounted'
  BY <1>2, Zenon DEF PageInv, PagesAccounted
<1>4. PageRoom'
  BY Zenon DEF PageInv, PageRoom, InKalloc, threadVars
<1> QED BY <1>1, <1>3, <1>4, Zenon DEF PageInv

\* Skipping myproc(), wakeup() stays inside the table or ends one past it,
\* also when clockintr() interrupts the scheduler and myproc() is 0; no slot
\* but that of myproc() is skipped.
LEMMA WakeupScan ==
  ASSUME NEW x \in Procs \cup {None}, NEW i \in 0 .. NPROC
  PROVE  /\ After(x, i) \in 1 .. NPROC + 1
         /\ \A q \in Procs : i < q /\ q # x => After(x, i) <= q
<1>1. NPROC \in Nat \ {0} /\ None # NPROC + 1
  BY SchedAssumption, ClockAssumption, Zenon DEF SchedAssumption, ClockAssumption
<1>2. x # NPROC + 1
  BY <1>1 DEF Procs
<1>3. CASE i + 1 = x
  <2>1. i + 1 # NPROC + 1
    BY <1>2, <1>3, Zenon
  <2>2. After(x, i) = i + 2
    BY <1>3, Zenon DEF After
  <2>3. ASSUME NEW q \in Procs, i < q, q # x PROVE i + 2 <= q
    BY <1>1, <1>3, <2>3 DEF Procs
  <2> QED BY <1>1, <2>1, <2>2, <2>3
<1>4. CASE i + 1 # x
  <2>1. After(x, i) = i + 1
    BY <1>4, Zenon DEF After
  <2> QED BY <1>1, <2>1 DEF Procs
<1> QED BY <1>3, <1>4, Zenon

\* While CPU 0 has not panicked, a process that sleeps is not on CPU 0.
LEMMA SleeperElsewhere ==
  ASSUME ClockTypes, OnCpu, panic[Cpu0] = "no", NEW q \in Procs, state[q] = "SLEEPING"
  PROVE  q # cur[Cpu0]
BY Zenon DEF ClockTypes, OnCpu

\* The tick itself: tickslock was free, so nobody is in the middle of pause().
LEMMA TickKeeps ==
  ASSUME ClockInv, ClockTick
  PROVE  ClockInv'
<1>1. ClockTypes /\ OnCpu /\ TicksOwned /\ Handler /\ Waiting /\ StallTimes /\ ThreadParts /\ PageInv /\ ClockTypeOK
  BY ClockTypesHold, Zenon DEF ClockInv
<1>0. Cpu0 \in Cpus /\ None \notin Cpus /\ NPROC \in Nat \ {0} /\ TICKMOD \in Nat \ {0} /\ MaxTicks \in Nat
  BY SchedAssumption, ClockAssumption, Zenon DEF SchedAssumption, ClockAssumption
<1>2. /\ panic[Cpu0] = "no" /\ Cpu0 \notin inintr /\ slock["ticks"] = None /\ uptime < MaxTicks
      /\ \A q \in Procs : plock[q] # Cpu0
      /\ inintr' = inintr \cup {Cpu0} /\ slock' = [slock EXCEPT !["ticks"] = Cpu0]
      /\ uptime' = uptime + 1 /\ ipc' = "wakeup" /\ ipos' = After(cur[Cpu0], 0)
      /\ UNCHANGED <<state, chan, killed, plock, cur, panic, free, frames, last_stall_start>>
      /\ UNCHANGED <<mem_stall_ticks, threadVars, parent, pauseVars, stalled, runnable, psiVars, calls>>
  BY Zenon DEF ClockTick, Executing, NoLocks, Free
<1>t. ticks' = (ticks + 1) % TICKMOD
  BY Zenon DEF ClockTick
<1>3. ipc = "none" /\ inintr = {}
  BY <1>1, <1>2, Zenon DEF Handler
<1>4. \A p \in Procs : ~InPause(p)
  BY <1>0, <1>1, <1>2, Zenon DEF TicksOwned
<1>5. pc' = pc /\ ticks0' = ticks0 /\ n' = n
  BY <1>2, Zenon DEF threadVars, pauseVars
<1>6. cur[Cpu0] \in Procs \cup {None}
  BY <1>1, Zenon DEF ClockTypes
<1>7. /\ ipos' \in 1 .. NPROC + 1
      /\ \A q \in Procs : q # cur[Cpu0] => ipos' <= q
  <2>1. 0 \in 0 .. NPROC /\ \A q \in Procs : 0 < q
    BY <1>0 DEF Procs
  <2> QED BY <1>2, <1>6, <2>1, WakeupScan, Zenon
<1>8. ticks' \in 0 .. TICKMOD - 1 /\ (ticks + 1 < TICKMOD => ticks' = ticks + 1)
  <2>1. ticks + 1 \in Nat
    BY <1>1 DEF ClockTypeOK
  <2>2. ASSUME NEW x \in Nat, NEW m \in Nat \ {0} PROVE x % m \in 0 .. m - 1 /\ (x < m => x % m = x)
    OBVIOUS
  <2> QED BY <1>0, <1>t, <2>1, <2>2, Zenon
<1>9. ClockTypeOK'
  <2>1. SchedTypeOK(Channels \cup {TICKS})'
    BY <1>0, <1>1, <1>2, <1>3, Zenon DEF ClockTypeOK, SchedTypeOK
  <2>2. uptime' \in 0 .. MaxTicks
    BY <1>0, <1>1, <1>2 DEF ClockTypeOK
  <2>3. /\ calls \in Mixes /\ free \in 0 .. NPAGES
        /\ last_stall_start \in [Procs -> 0 .. TICKMOD - 1]
        /\ mem_stall_ticks \in [Procs -> 0 .. STALLMOD - 1]
        /\ pc \in [Procs -> Labels \cup {"pause_start", "pause", "pause_sleep", "pause_wake"}]
        /\ ticks0 \in [Procs -> 0 .. TICKMOD - 1]
        /\ n \in [Procs -> 0 .. MaxPause] /\ stalled \in BOOLEAN /\ runnable \in BOOLEAN
    BY <1>1, Zenon DEF ClockTypeOK
  <2> QED BY <1>2, <1>5, <1>7, <1>8, <2>1, <2>2, <2>3, ZenonT(60) DEF ClockTypeOK
<1>10. OnCpu'
  BY <1>1, <1>2 DEF OnCpu
<1>11. TicksOwned'
  BY <1>4, <1>5, Zenon DEF TicksOwned, InPause
<1>12. Handler'
  <2>1. slock'["ticks"] = Cpu0
    BY <1>1, <1>2, Zenon DEF ClockTypes
  <2>2. \A p \in Procs : ~InPause(p)'
    BY <1>4, <1>5, Zenon DEF InPause
  <2>3. inintr' = {Cpu0}
    BY <1>2, <1>3, Zenon
  <2> QED BY <1>2, <2>1, <2>2, <2>3, Zenon DEF Handler
<1>13. Waiting'
  <2>1. ASSUME NEW p \in Procs PROVE pc'[p] # "pause_sleep" /\ (Sleeping(p, TICKS)' => ipos' <= p)
    <3>1. Sleeping(p, TICKS)' => state[p] = "SLEEPING"
      BY <1>2, Zenon DEF Sleeping
    <3>2. state[p] = "SLEEPING" => p # cur[Cpu0]
      BY <1>1, <1>2, SleeperElsewhere, Zenon
    <3>3. pc'[p] # "pause_sleep"
      BY <1>4, <1>5, Zenon DEF InPause
    <3> QED BY <3>1, <3>2, <3>3, <1>7, Zenon
  <2> QED BY <1>2, <2>1, Zenon DEF Waiting
<1>14. Counted'
  BY <1>2, Zenon DEF Counted
<1>15. StallTimes'
  <2> SUFFICES ASSUME StartTick + uptime' < TICKMOD
               PROVE  /\ ticks' = StartTick + uptime'
                      /\ \A p \in Procs :
                           /\ mem_stall_ticks[p] <= uptime'
                           /\ Stalled(p) =>
                                /\ last_stall_start[p] <= ticks'
                                /\ StartTick + mem_stall_ticks[p] <= last_stall_start[p]
    BY <1>2, <1>5, Zenon DEF StallTimes, Stalled
  <2>0. StartTick \in Nat /\ uptime \in Nat /\ STALLMOD \in Nat \ {0}
    BY <1>1, ClockAssumption, KallocAssumption DEF ClockTypeOK, ClockAssumption, KallocAssumption
  <2>1. StartTick + uptime < TICKMOD
    BY <1>0, <1>2, <2>0
  <2>2. /\ ticks = StartTick + uptime
        /\ \A p \in Procs :
             /\ mem_stall_ticks[p] <= uptime
             /\ Stalled(p) =>
                  /\ last_stall_start[p] <= ticks
                  /\ StartTick + mem_stall_ticks[p] <= last_stall_start[p]
    BY <1>1, <2>1, Zenon DEF StallTimes
  <2>3. ticks' = ticks + 1 /\ ticks \in Nat
    BY <1>0, <1>2, <1>8, <2>0, <2>2
  <2>4. \A p \in Procs : mem_stall_ticks[p] \in Nat /\ last_stall_start[p] \in Nat
    BY <1>0, <1>1, <2>0 DEF ClockTypeOK
  <2> QED BY <1>2, <2>0, <2>2, <2>3, <2>4, SMTT(30)
<1>16. ThreadParts' /\ PageInv'
  BY <1>1, <1>2, ThreadsKept, ZenonT(60)
<1> QED BY <1>9, <1>10, <1>11, <1>12, <1>13, <1>14, <1>15, <1>16, Zenon DEF ClockInv

\* One slot of wakeup(&ticks): the handler owns no p->lock, so it does not
\* panic, and a sleeper it has passed is awake.
LEMMA WakeupKeeps ==
  ASSUME ClockInv, ClockWakeup
  PROVE  ClockInv'
<1>1. ClockTypes /\ OnCpu /\ TicksOwned /\ Handler /\ Waiting /\ StallTimes /\ ThreadParts /\ PageInv /\ ClockTypeOK
  BY ClockTypesHold, Zenon DEF ClockInv
<1>0. Cpu0 \in Cpus /\ None \notin Cpus /\ NPROC \in Nat \ {0}
  BY SchedAssumption, ClockAssumption, Zenon DEF SchedAssumption, ClockAssumption
<1>2. /\ ipc = "wakeup" /\ ipos \in Procs /\ WakeupSlot(Cpu0, ipos, TICKS) /\ ipos' = After(cur[Cpu0], ipos)
      /\ UNCHANGED <<memVars, threadVars, parent, pauseVars, ipc, stalled, runnable, psiVars, uptime, calls>>
  BY Zenon DEF ClockWakeup
<1>3. panic[Cpu0] = "no" /\ (\A q \in Procs : plock[q] # Cpu0) /\ slock["ticks"] = Cpu0
  BY <1>1, <1>2, Zenon DEF Handler
<1>4. /\ plock[ipos] = None
      /\ state' = [state EXCEPT ![ipos] = IF Sleeping(ipos, TICKS) THEN "RUNNABLE" ELSE @]
      /\ UNCHANGED <<panic, chan, killed, plock, slock, cur, inintr>>
  BY <1>2, <1>3, Zenon DEF WakeupSlot
<1>5. /\ pc' = pc /\ ticks0' = ticks0 /\ n' = n /\ ticks' = ticks /\ free' = free /\ frames' = frames
      /\ last_stall_start' = last_stall_start /\ mem_stall_ticks' = mem_stall_ticks
  BY <1>2, Zenon DEF threadVars, pauseVars, memVars, stallVars
<1>6. cur[Cpu0] \in Procs \cup {None} /\ ipos \in 0 .. NPROC
  BY <1>0, <1>1, <1>2 DEF ClockTypes, Procs
<1>7. /\ ipos' \in 1 .. NPROC + 1
      /\ \A q \in Procs : ipos < q /\ q # cur[Cpu0] => ipos' <= q
  BY <1>2, <1>6, WakeupScan, Zenon
<1>8. \A q \in Procs : state'[q] = state[q] \/ (q = ipos /\ state[q] = "SLEEPING" /\ state'[q] = "RUNNABLE")
  BY <1>1, <1>4, Zenon DEF ClockTypes, Sleeping
<1>9. ClockTypeOK'
  <2>1. state' \in [Procs -> States]
    BY <1>1, <1>4, Zenon DEF ClockTypes, States
  <2>2. SchedTypeOK(Channels \cup {TICKS})'
    BY <1>1, <1>4, <2>1, ZenonT(30) DEF ClockTypeOK, SchedTypeOK
  <2> QED BY <1>1, <1>2, <1>5, <1>7, <2>2, Zenon DEF ClockTypeOK
<1>10. OnCpu'
  <2>1. \A c \in Cpus : cur[c] = ipos => state[ipos] = "RUNNING"
    BY <1>0, <1>1, <1>2, <1>4, SMTT(30) DEF OnCpu
  <2>2. OnCpu /\ cur' = cur /\ panic' = panic /\ plock' = plock
    BY <1>1, <1>4, Zenon
  <2>3. \A q \in Procs : state'[q] = state[q] \/ ((\A d \in Cpus : cur[d] # q) /\ state'[q] # "RUNNING")
    <3>1. "SLEEPING" # "RUNNING" /\ "RUNNABLE" # "RUNNING"
      OBVIOUS
    <3> QED BY <1>8, <2>1, <3>1, ZenonT(60)
  <2>4. ASSUME NEW d \in Cpus, NEW q \in Procs, cur'[d] = q
        PROVE  \/ state'[q] = "RUNNING"
               \/ state'[q] = "SLEEPING" /\ panic'[d] = "sched_locks" /\ plock'[q] = d
    <3>1. cur[d] = q /\ state'[q] = state[q]
      BY <2>2, <2>3, <2>4, Zenon
    <3>2. OnOrLost(d, q)
      BY <2>2, <3>1, CurState, Zenon
    <3>3. OnOrLost(d, q)'
      BY <2>2, <3>1, <3>2, OnOrLostKept, Zenon
    <3> QED BY <3>3, Zenon DEF OnOrLost
  <2>5. ASSUME NEW q \in Procs, state'[q] = "RUNNING" PROVE \E d \in Cpus : cur'[d] = q
    <3>1. state[q] = "RUNNING"
      BY <2>3, <2>5, Zenon
    <3>2. PICK d \in Cpus : cur[d] = q
      BY <2>2, <3>1, HasCpu, Zenon
    <3> QED BY <2>2, <3>2, Zenon
  <2>6. \A d, e \in Cpus, q \in Procs : cur'[d] = q /\ cur'[e] = q => d = e
    BY <2>2, ZenonT(60) DEF OnCpu
  <2> QED BY <2>4, <2>5, <2>6, ZenonT(60) DEF OnCpu
<1>11. TicksOwned'
  BY <1>1, <1>4, <1>5, Zenon DEF TicksOwned, InPause
<1>12. Handler'
  BY <1>1, <1>2, <1>4, <1>5, Zenon DEF Handler, InPause
<1>13. Waiting'
  <2>1. ASSUME NEW p \in Procs
        PROVE  /\ pc'[p] = "pause_sleep" => Elapsed(p)' < n'[p]
               /\ Sleeping(p, TICKS)' => Elapsed(p)' < n'[p] \/ (ipc' = "wakeup" /\ ipos' <= p)
    <3>1. Elapsed(p)' = Elapsed(p)
      BY <1>5, ElapsedKept, Zenon
    <3>2. Sleeping(p, TICKS)' => Sleeping(p, TICKS) /\ p # ipos
      BY <1>4, <1>1, Zenon DEF Sleeping, ClockTypes
    <3>3. Sleeping(p, TICKS)' => p # cur[Cpu0]
      BY <1>1, <1>3, <3>2, SleeperElsewhere, Zenon DEF Sleeping
    <3>4. Sleeping(p, TICKS) => Elapsed(p) < n[p] \/ ipos <= p
      BY <1>1, Zenon DEF Waiting
    <3>5. ipos <= p /\ p # ipos => ipos < p
      BY <1>0, <1>2 DEF Procs
    <3>6. pc[p] = "pause_sleep" => Elapsed(p) < n[p]
      BY <1>1, Zenon DEF Waiting
    <3> HIDE DEF Sleeping
    <3> QED BY <3>1, <3>2, <3>3, <3>4, <3>5, <3>6, <1>2, <1>5, <1>7, ZenonT(60)
  <2> QED BY <2>1, Zenon DEF Waiting
<1>14. Counted'
  BY <1>2, Zenon DEF Counted
<1>15. StallTimes'
  BY <1>1, <1>2, <1>5, Zenon DEF StallTimes, Stalled
<1>16. ThreadParts' /\ PageInv'
  BY <1>1, <1>2, <1>5, ThreadsKept, Zenon
<1> QED BY <1>9, <1>10, <1>11, <1>12, <1>13, <1>14, <1>15, <1>16, Zenon DEF ClockInv

\* One past the table is where every scan ends.
LEMMA PastTable ==
  ASSUME ClockTypeOK, ipos \notin Procs
  PROVE  ipos = NPROC + 1 /\ \A q \in Procs : q < ipos /\ ~(ipos <= q)
<1>1. NPROC \in Nat \ {0}
  BY SchedAssumption, Zenon DEF SchedAssumption
<1>2. ipos \in 1 .. NPROC + 1
  BY ZenonT(60) DEF ClockTypeOK
<1> QED BY <1>1, <1>2 DEF Procs

\* The handler gives tickslock up once wakeup(&ticks) has seen every slot.
LEMMA ReleaseKeeps ==
  ASSUME ClockInv, ClockRelease
  PROVE  ClockInv'
<1>1. ClockTypes /\ OnCpu /\ TicksOwned /\ Handler /\ Waiting /\ StallTimes /\ ThreadParts /\ PageInv /\ ClockTypeOK
  BY ClockTypesHold, Zenon DEF ClockInv
<1>0. Cpu0 \in Cpus /\ None \notin Cpus /\ NPROC \in Nat \ {0}
  BY SchedAssumption, ClockAssumption, Zenon DEF SchedAssumption, ClockAssumption
<1>2. /\ ipc = "wakeup" /\ ipos \notin Procs
      /\ slock' = [slock EXCEPT !["ticks"] = None]
      /\ ipc' = "update_psi" /\ ipos' = 1
      /\ UNCHANGED <<state, chan, killed, plock, cur, panic, inintr>>
      /\ UNCHANGED <<memVars, threadVars, parent, pauseVars, stalled, runnable, psiVars, uptime, calls>>
  BY Zenon DEF ClockRelease
<1>3. /\ pc' = pc /\ ticks0' = ticks0 /\ n' = n /\ ticks' = ticks /\ free' = free /\ frames' = frames
      /\ last_stall_start' = last_stall_start /\ mem_stall_ticks' = mem_stall_ticks
  BY <1>2, Zenon DEF threadVars, pauseVars, memVars, stallVars
<1>4. ClockTypeOK'
  <2>1. SchedTypeOK(Channels \cup {TICKS})'
    BY <1>0, <1>1, <1>2, Zenon DEF ClockTypeOK, SchedTypeOK
  <2>2. ipos' \in 1 .. NPROC + 1
    <3>1. ipos' = 1 /\ NPROC \in Nat \ {0}
      BY <1>0, <1>2, Zenon
    <3> QED BY <3>1
  <2> QED BY <1>1, <1>2, <1>3, <2>1, <2>2, Zenon DEF ClockTypeOK
<1>5. OnCpu'
  <2>1. OnCpu /\ state' = state /\ cur' = cur /\ panic' = panic /\ plock' = plock
    BY <1>1, <1>2, Zenon
  <2> QED BY <2>1, OnCpuKept, Zenon
<1>6. \A p \in Procs : ~InPause(p)
  BY <1>0, <1>1, <1>2, Zenon DEF TicksOwned, Handler
<1>7. TicksOwned'
  BY <1>3, <1>6, Zenon DEF TicksOwned, InPause
<1>8. Handler'
  BY <1>1, <1>2, <1>3, Zenon DEF Handler, InPause
<1>9. Waiting'
  <2>1. ASSUME NEW p \in Procs
        PROVE  /\ pc'[p] = "pause_sleep" => Elapsed(p)' < n'[p]
               /\ Sleeping(p, TICKS)' => Elapsed(p)' < n'[p]
    <3>1. Elapsed(p)' = Elapsed(p)
      BY <1>3, ElapsedKept, Zenon
    <3>2. Sleeping(p, TICKS)' => Sleeping(p, TICKS)
      BY <1>2, Zenon DEF Sleeping
    <3>3. ~(ipos <= p)
      BY <1>1, <1>2, PastTable, Zenon
    <3> QED BY <1>1, <1>3, <3>1, <3>2, <3>3, ZenonT(60) DEF Waiting
  <2> QED BY <2>1, Zenon DEF Waiting
<1>10. Counted'
  <2>1. \A p \in Procs : ~(p < 1)
    BY <1>0 DEF Procs
  <2> QED BY <1>2, <2>1, Zenon DEF Counted
<1>11. StallTimes'
  BY <1>1, <1>2, <1>3, Zenon DEF StallTimes, Stalled
<1>12. ThreadParts' /\ PageInv'
  BY <1>1, <1>2, <1>3, ThreadsKept, Zenon
<1> QED BY <1>4, <1>5, <1>7, <1>8, <1>9, <1>10, <1>11, <1>12, Zenon DEF ClockInv

\* Sampling changes nothing but the handler's own variables and the averages.
LEMMA SamplingKeeps ==
  ASSUME ClockInv, UNCHANGED <<vars, pauseVars, uptime, calls>>, ipc = "update_psi", ipc' \in {"update_psi", "return"},
         ipos' \in 1 .. NPROC + 1, stalled' \in BOOLEAN, runnable' \in BOOLEAN, Counted'
  PROVE  ClockInv'
<1>1. OnCpu /\ TicksOwned /\ Handler /\ Waiting /\ StallTimes /\ ThreadParts /\ PageInv /\ ClockTypeOK
  BY Zenon DEF ClockInv
<1>2. /\ UNCHANGED <<state, chan, killed, plock, slock, cur, panic, inintr, threadVars, parent>>
      /\ pc' = pc /\ ticks0' = ticks0 /\ n' = n /\ ticks' = ticks /\ free' = free /\ frames' = frames
      /\ last_stall_start' = last_stall_start /\ mem_stall_ticks' = mem_stall_ticks
      /\ uptime' = uptime /\ calls' = calls
  BY Zenon DEF vars, schedVars, threadVars, pauseVars, memVars, stallVars
<1>3. ClockTypeOK'
  <2>1. SchedTypeOK(Channels \cup {TICKS})'
    BY <1>1, <1>2, Zenon DEF ClockTypeOK, SchedTypeOK
  <2>2. ipc' \in {"none", "wakeup", "update_psi", "return"}
    <3>1. ipc' = "update_psi" \/ ipc' = "return"
      BY Zenon
    <3> QED BY <3>1, Zenon
  <2> QED BY <1>1, <1>2, <2>1, <2>2, Zenon DEF ClockTypeOK
<1>4. OnCpu'
  <2>1. OnCpu /\ state' = state /\ cur' = cur /\ panic' = panic /\ plock' = plock
    BY <1>1, <1>2, Zenon
  <2> QED BY <2>1, OnCpuKept, Zenon
<1>5. TicksOwned'
  BY <1>1, <1>2, Zenon DEF TicksOwned, InPause
<1>6. Handler'
  BY <1>1, <1>2, Zenon DEF Handler, InPause
<1>7. Waiting'
  <2>1. ASSUME NEW p \in Procs
        PROVE  /\ pc'[p] = "pause_sleep" => Elapsed(p)' < n'[p]
               /\ Sleeping(p, TICKS)' => Elapsed(p)' < n'[p]
    <3>1. Elapsed(p)' = Elapsed(p)
      BY <1>2, ElapsedKept, Zenon
    <3>2. Sleeping(p, TICKS)' => Sleeping(p, TICKS)
      BY <1>2, Zenon DEF Sleeping
    <3> QED BY <1>1, <1>2, <3>1, <3>2, Zenon DEF Waiting
  <2> QED BY <2>1, Zenon DEF Waiting
<1>8. StallTimes'
  BY <1>1, <1>2, Zenon DEF StallTimes, Stalled
<1>9. ThreadParts' /\ PageInv'
  BY <1>1, <1>2, ThreadsKept, Zenon
<1> QED BY <1>3, <1>4, <1>5, <1>6, <1>7, <1>8, <1>9, ZenonT(60) DEF ClockInv

\* One slot of the scan of update_psi(): the process on CPU 0 is RUNNING.
LEMMA ScanKeeps ==
  ASSUME ClockInv, PsiScan
  PROVE  ClockInv'
<1>1. ClockTypes /\ OnCpu /\ Handler /\ Counted /\ ClockTypeOK
  BY ClockTypesHold, Zenon DEF ClockInv
<1>0. Cpu0 \in Cpus /\ NPROC \in Nat \ {0}
  BY SchedAssumption, ClockAssumption, Zenon DEF SchedAssumption, ClockAssumption
<1>2. /\ ipc = "update_psi" /\ ipos \in Procs /\ ipos' = ipos + 1
      /\ UNCHANGED <<vars, pauseVars, ipc, uptime, calls>>
      /\ stalled' = (stalled \/ Sleeping(ipos, KMEM))
      /\ runnable' = (runnable \/ state[ipos] \in {"RUNNABLE", "RUNNING"})
  BY Zenon DEF PsiScan
<1>3. stalled' \in BOOLEAN /\ runnable' \in BOOLEAN
  BY <1>2, Zenon
<1>4. ipos' \in 1 .. NPROC + 1
  BY <1>0, <1>2 DEF Procs
<1>5. Counted'
  <2>1. ASSUME NEW p \in Procs, cur'[Cpu0] = p, p < ipos' PROVE runnable'
    <3>1. cur[Cpu0] = p
      BY <1>2, <2>1, Zenon DEF vars, schedVars
    <3>2. CASE p = ipos
      <4>1. state[p] = "RUNNING"
        BY <1>0, <1>1, <1>2, <3>1, Zenon DEF OnCpu, Handler
      <4>2. state[ipos] \in {"RUNNABLE", "RUNNING"}
        BY <4>1, <3>2, Zenon
      <4> QED BY <1>2, <4>2, Zenon
    <3>3. CASE p # ipos
      <4>1. p < ipos
        BY <1>0, <1>2, <2>1, <3>3 DEF Procs
      <4>2. runnable
        BY <1>1, <1>2, <3>1, <4>1, Zenon DEF Counted
      <4> QED BY <1>2, <4>2, Zenon
    <3> QED BY <3>2, <3>3, Zenon
  <2> QED BY <2>1, Zenon DEF Counted
<1> QED BY <1>2, <1>3, <1>4, <1>5, SamplingKeeps, Zenon

\* The sample is taken.
LEMMA SampleKeeps ==
  ASSUME ClockInv, PsiSample
  PROVE  ClockInv'
<1>0. NPROC \in Nat \ {0}
  BY SchedAssumption, Zenon DEF SchedAssumption
<1>1. /\ ipc = "update_psi" /\ ipc' = "return" /\ ipos' = 1
      /\ stalled' = FALSE /\ runnable' = FALSE
      /\ UNCHANGED <<vars, pauseVars, uptime, calls>>
  BY Zenon DEF PsiSample
<1>2. ipos' \in 1 .. NPROC + 1
  BY <1>0, <1>1
<1>3. Counted'
  BY <1>1, ZenonT(60) DEF Counted
<1> QED BY <1>1, <1>2, <1>3, SamplingKeeps, Zenon

\* The way out of clockintr(): the process that is preempted owns no lock.
LEMMA ReturnKeeps ==
  ASSUME ClockInv, ClockReturn
  PROVE  ClockInv'
<1>1. ClockTypes /\ OnCpu /\ TicksOwned /\ Handler /\ Waiting /\ StallTimes /\ ThreadParts /\ PageInv /\ ClockTypeOK
  BY ClockTypesHold, Zenon DEF ClockInv
<1>0. Cpu0 \in Cpus /\ None \notin Cpus /\ None \notin Procs
  BY SchedAssumption, ClockAssumption, Zenon DEF SchedAssumption, ClockAssumption
<1>2. /\ ipc = "return" /\ inintr' = inintr \ {Cpu0} /\ ipc' = "none"
      /\ UNCHANGED <<chan, killed, plock, slock, panic, memVars, threadVars, parent>>
      /\ UNCHANGED <<pauseVars, ipos, stalled, runnable, psiVars, uptime, calls>>
  BY Zenon DEF ClockReturn
<1>3. /\ pc' = pc /\ ticks0' = ticks0 /\ n' = n /\ ticks' = ticks /\ free' = free /\ frames' = frames
      /\ last_stall_start' = last_stall_start /\ mem_stall_ticks' = mem_stall_ticks
  BY <1>2, Zenon DEF threadVars, pauseVars, memVars, stallVars
<1>4. \/ UNCHANGED <<state, cur>>
      \/ /\ cur[Cpu0] \in Procs
         /\ state' = [state EXCEPT ![cur[Cpu0]] = "RUNNABLE"] /\ cur' = [cur EXCEPT ![Cpu0] = None]
  BY <1>0, <1>1, Zenon DEF ClockReturn, ClockTypes
<1>5. ClockTypeOK'
  <2>1. state' \in [Procs -> States] /\ cur' \in [Cpus -> Procs \cup {None}]
    BY <1>0, <1>1, <1>4, Zenon DEF ClockTypes, States
  <2>2. SchedTypeOK(Channels \cup {TICKS})'
    BY <1>1, <1>2, <2>1, Zenon DEF ClockTypeOK, SchedTypeOK
  <2>3. ipc' \in {"none", "wakeup", "update_psi", "return"}
    BY <1>2, Zenon
  <2> QED BY <1>1, <1>2, <1>3, <2>2, <2>3, Zenon DEF ClockTypeOK
<1>6. OnCpu'
  <2>1. CASE UNCHANGED <<state, cur>>
    <3>1. OnCpu /\ state' = state /\ cur' = cur /\ panic' = panic /\ plock' = plock
      BY <1>1, <1>2, <2>1, ZenonT(60)
    <3> QED BY <3>1, OnCpuKept, Zenon
  <2>2. CASE /\ cur[Cpu0] \in Procs
             /\ state' = [state EXCEPT ![cur[Cpu0]] = "RUNNABLE"] /\ cur' = [cur EXCEPT ![Cpu0] = None]
    <3>1. PICK p \in Procs : p = cur[Cpu0]
      BY <2>2, Zenon
    <3>2. \A d \in Cpus : cur[d] = p => d = Cpu0
      BY <1>0, <1>1, <3>1 DEF OnCpu
    <3>3. /\ state'[p] = "RUNNABLE" /\ \A q \in Procs : q # p => state'[q] = state[q]
      BY <1>1, <2>2, <3>1, Zenon DEF ClockTypes
    <3>4. cur'[Cpu0] = None /\ \A d \in Cpus : d # Cpu0 => cur'[d] = cur[d]
      BY <1>0, <1>1, <2>2, Zenon DEF ClockTypes
    <3>5. \A d \in Cpus, q \in Procs : cur'[d] = q => d # Cpu0 /\ cur[d] = q /\ q # p
      BY <1>0, <3>2, <3>4, Zenon
    <3>6. \A q \in Procs : state'[q] = "RUNNING" => q # p /\ state[q] = "RUNNING"
      BY <3>3, Zenon
    <3>7. \A q \in Procs : q # p /\ state[q] = "RUNNING" => \E d \in Cpus : cur'[d] = q
      BY <1>1, <3>1, <3>4 DEF OnCpu
    <3>8. OnCpu /\ panic' = panic /\ plock' = plock
      BY <1>1, <1>2, Zenon
    <3>9. ASSUME NEW d \in Cpus, NEW e \in Cpus, NEW q \in Procs, cur'[d] = q, cur'[e] = q
          PROVE  d = e
      <4>1. cur[d] = q /\ cur[e] = q
        BY <3>5, <3>9, Zenon
      <4> QED BY <3>8, <4>1, OneCpu, Zenon
    <3>10. ASSUME NEW d \in Cpus, NEW q \in Procs, cur'[d] = q
           PROVE  \/ state'[q] = "RUNNING"
                  \/ state'[q] = "SLEEPING" /\ panic'[d] = "sched_locks" /\ plock'[q] = d
      <4>1. cur[d] = q /\ state'[q] = state[q]
        BY <3>3, <3>5, <3>10, Zenon
      <4>2. OnOrLost(d, q)
        BY <3>8, <4>1, CurState, Zenon
      <4>3. OnOrLost(d, q)'
        BY <3>8, <4>1, <4>2, OnOrLostKept, Zenon
      <4> QED BY <4>3, Zenon DEF OnOrLost
    <3>11. \A q \in Procs : state'[q] = "RUNNING" => \E d \in Cpus : cur'[d] = q
      BY <3>6, <3>7, Zenon
    <3> QED BY <3>9, <3>10, <3>11, ZenonT(60) DEF OnCpu
  <2> QED BY <1>4, <2>1, <2>2, ZenonT(30)
<1>7. TicksOwned'
  <2>1. ASSUME NEW p \in Procs, InPause(p)' PROVE \E c \in Cpus : cur'[c] = p /\ slock'["ticks"] = c
    <3>1. InPause(p)
      BY <1>3, <2>1, Zenon DEF InPause
    <3>2. PICK c \in Cpus : cur[c] = p /\ slock["ticks"] = c
      BY <1>1, <3>1, Zenon DEF TicksOwned
    <3>3. c # Cpu0
      BY <1>1, <1>2, <3>1, <3>2, Zenon DEF Handler
    <3>4. cur'[c] = cur[c]
      BY <1>1, <1>4, <3>3, Zenon DEF ClockTypes
    <3> QED BY <1>2, <3>2, <3>4, Zenon
  <2> QED BY <2>1, Zenon DEF TicksOwned
<1>8. Handler'
  <2>1. inintr = {Cpu0}
    BY <1>1, <1>2, Zenon DEF Handler
  <2>2. inintr' = {}
    BY <1>2, <2>1, Zenon
  <2> QED BY <1>2, <2>2, Zenon DEF Handler
<1>9. Waiting'
  <2>1. ASSUME NEW p \in Procs
        PROVE  /\ pc'[p] = "pause_sleep" => Elapsed(p)' < n'[p]
               /\ Sleeping(p, TICKS)' => Elapsed(p)' < n'[p]
    <3>1. Elapsed(p)' = Elapsed(p)
      BY <1>3, ElapsedKept, Zenon
    <3>2. Sleeping(p, TICKS)' => Sleeping(p, TICKS)
      BY <1>1, <1>2, <1>4, Zenon DEF Sleeping, ClockTypes
    <3> QED BY <1>1, <1>2, <1>3, <3>1, <3>2, ZenonT(60) DEF Waiting
  <2> QED BY <2>1, Zenon DEF Waiting
<1>10. Counted'
  BY <1>2, Zenon DEF Counted
<1>11. StallTimes'
  BY <1>1, <1>2, <1>3, Zenon DEF StallTimes, Stalled
<1>12. ThreadParts' /\ PageInv'
  BY <1>1, <1>2, <1>3, ThreadsKept, Zenon
<1> QED BY <1>5, <1>6, <1>7, <1>8, <1>9, <1>10, <1>11, <1>12, Zenon DEF ClockInv

\* At the start every process holds its KFRAMES pages.
LEMMA ClockInitPages == ClockInit => PageInv /\ free \in 0 .. NPAGES
<1> SUFFICES ASSUME ClockInit PROVE PageInv /\ free \in 0 .. NPAGES
  OBVIOUS
<1>0. /\ KFRAMES \in Nat /\ MaxUser \in Nat /\ NPAGES \in Nat /\ SlotMax \in Nat /\ KFRAMES <= SlotMax /\ KFRAMES >= 1
      /\ NPROC \in Nat \ {0}
  BY ProcAssumption, SchedAssumption DEF ProcAssumption, SlotMax, SchedAssumption
<1>k. PICK k \in Nat : k = NPROC * KFRAMES /\ k <= NPAGES
  BY <1>0, ClockAssumption DEF ClockAssumption
<1>1. /\ frames = [p \in Procs |-> KFRAMES] /\ free = NPAGES - k
      /\ pc = [p \in Procs |-> "user"]
  BY <1>k, Zenon DEF ClockInit, InitFrom
<1>2. HeldOf(frames) = Procs \X (1 .. KFRAMES)
  <2>1. ASSUME NEW q \in Procs, NEW i \in 1 .. SlotMax
        PROVE  i <= frames[q] <=> i \in 1 .. KFRAMES
    BY <1>0, <1>1, <2>1, SMTT(30), Z3T(30)
  <2>2. 1 .. KFRAMES \subseteq 1 .. SlotMax
    BY <1>0
  <2> QED BY <2>1, <2>2, Zenon DEF HeldOf
<1>3. Cardinality(Procs \X (1 .. KFRAMES)) = k
  <2>1. IsFiniteSet(Procs) /\ Cardinality(Procs) = NPROC
    BY <1>0, FS_Interval, SMTT(30), Z3T(30) DEF Procs
  <2>2. IsFiniteSet(1 .. KFRAMES) /\ Cardinality(1 .. KFRAMES) = KFRAMES
    BY <1>0, FS_Interval
  <2>3. Cardinality(Procs \X (1 .. KFRAMES)) = Cardinality(Procs) * Cardinality(1 .. KFRAMES)
    BY <2>1, <2>2, FS_Product, Zenon
  <2> QED BY <1>k, <2>1, <2>2, <2>3, ZenonT(60)
<1>4. Held = HeldOf(frames)
  BY Zenon DEF Held, HeldOf, SlotMax
<1>5. PagesAccounted
  <2>1. \A p \in Procs : frames[p] \in 0 .. KFRAMES + MaxUser
    BY <1>0, <1>1, SMTT(30), Z3T(30)
  <2>2. free + Cardinality(Held) = NPAGES
    BY <1>0, <1>k, <1>1, <1>2, <1>3, <1>4, SMTT(30), Z3T(30)
  <2> QED BY <2>1, <2>2, Zenon DEF PagesAccounted
<1>6. PageRoom
  BY <1>1, Zenon DEF PageRoom, InKalloc
<1>7. free \in 0 .. NPAGES
  BY <1>0, <1>k, <1>1
<1> QED BY <1>5, <1>6, <1>7, Zenon DEF PageInv

\* The invariant holds when the clock starts.
LEMMA ClockInitInv == ClockInit => ClockInv
<1> SUFFICES ASSUME ClockInit PROVE ClockInv
  OBVIOUS
<1>0. /\ NPROC \in Nat \ {0} /\ None \notin Procs /\ None \notin Cpus /\ Cpu0 \in Cpus
      /\ TICKMOD \in Nat \ {0} /\ STALLMOD \in Nat \ {0} /\ StartTick \in 0 .. TICKMOD - 1
      /\ MaxPause \in Nat /\ MaxTicks \in Nat
  BY SchedAssumption, ClockAssumption, KallocAssumption
     DEF SchedAssumption, ClockAssumption, KallocAssumption
<1>1. PageInv /\ free \in 0 .. NPAGES
  BY ClockInitPages, Zenon
<1>2. /\ calls \in Mixes /\ ticks = StartTick /\ ticks0 = [p \in Procs |-> 0] /\ n = [p \in Procs |-> 0]
      /\ ipc = "none" /\ ipos = 1 /\ stalled = FALSE /\ runnable = FALSE /\ uptime = 0
      /\ SchedInit(Procs)
      /\ frames = [p \in Procs |-> KFRAMES]
      /\ last_stall_start = [p \in Procs |-> 0] /\ mem_stall_ticks = [p \in Procs |-> 0]
      /\ pc = [p \in Procs |-> "user"] /\ iter = [p \in Procs |-> 1] /\ tgt = [p \in Procs |-> p]
      /\ ra = [p \in Procs |-> "user"]
  BY Zenon DEF ClockInit, InitFrom
<1>p. parent \in [Procs -> Procs \cup {None}]
  <2>1. initproc \in Procs
    BY <1>0 DEF Procs, initproc
  <2>2. parent = [p \in Procs |-> IF p \in Procs \ {initproc} THEN initproc ELSE None]
    BY Zenon DEF ClockInit, InitFrom
  <2> QED BY <2>1, <2>2, Zenon
<1>3. SchedTypeOK(Channels \cup {TICKS})
  BY <1>2, Zenon DEF SchedInit, SchedTypeOK, States, Panics
<1>4. ClockTypeOK
  <2>1. "user" \in Labels
    BY Zenon DEF Labels
  <2>2. stalled \in BOOLEAN /\ runnable \in BOOLEAN
    BY <1>2, Zenon
  <2>3. /\ ticks \in 0 .. TICKMOD - 1 /\ 0 \in 0 .. TICKMOD - 1 /\ 0 \in 0 .. STALLMOD - 1
        /\ 0 \in 0 .. MaxPause /\ ipos \in 1 .. NPROC + 1 /\ uptime \in 0 .. MaxTicks
    BY <1>0, <1>2
  <2>4. /\ last_stall_start \in [Procs -> 0 .. TICKMOD - 1] /\ mem_stall_ticks \in [Procs -> 0 .. STALLMOD - 1]
        /\ pc \in [Procs -> Labels \cup {"pause_start", "pause", "pause_sleep", "pause_wake"}]
        /\ ticks0 \in [Procs -> 0 .. TICKMOD - 1] /\ n \in [Procs -> 0 .. MaxPause]
    BY <1>2, <2>1, <2>3, Zenon
  <2>5. ipc \in {"none", "wakeup", "update_psi", "return"}
    BY <1>2, Zenon
  <2> QED BY <1>1, <1>2, <1>3, <2>2, <2>3, <2>4, <2>5, ZenonT(60) DEF ClockTypeOK
<1>5. ThreadParts
  <2>1. KFRAMES \in 0 .. SlotMax
    BY ProcAssumption DEF ProcAssumption, SlotMax
  <2> QED BY <1>0, <1>2, <1>p, <2>1, SMTT(30), Z3T(30) DEF ThreadParts
<1>6. /\ cur = [c \in Cpus |-> None] /\ state = [p \in Procs |-> "RUNNABLE"] /\ inintr = {}
  BY <1>2, Zenon DEF SchedInit
<1>7. OnCpu
  BY <1>0, <1>6, Zenon DEF OnCpu
<1>8. TicksOwned /\ Handler /\ Waiting /\ Counted
  BY <1>2, <1>6, ZenonT(60) DEF TicksOwned, InPause, Handler, Waiting, Sleeping, Counted
<1>9. StallTimes
  BY <1>0, <1>2 DEF StallTimes, Stalled
<1> QED BY <1>1, <1>4, <1>5, <1>7, <1>8, <1>9, ZenonT(60) DEF ClockInv

\* The invariant is inductive.
LEMMA ClockInvStep == ClockInv /\ [ClockNext]_allVars => ClockInv'
<1> SUFFICES ASSUME ClockInv, [ClockNext]_allVars PROVE ClockInv'
  OBVIOUS
<1>1. CASE ClockNext
  <2>1. ASSUME NEW c \in Cpus, NEW p \in Procs, PauseStep(c, p) \/ OtherStep(c, p) PROVE ClockInv'
    BY <2>1, MovesKeep, Zenon DEF Moves
  <2>2. CASE ClockStep
    BY <2>2, TickKeeps, WakeupKeeps, ReleaseKeeps, ScanKeeps, SampleKeeps, ReturnKeeps, ZenonT(60)
       DEF ClockStep
  <2> QED BY <1>1, <2>1, <2>2, Zenon DEF ClockNext
<1>2. CASE UNCHANGED allVars
  <2>1. OnCpu /\ TicksOwned /\ Handler /\ Waiting /\ Counted /\ StallTimes /\ ThreadParts /\ PageInv /\ ClockTypeOK
    BY Zenon DEF ClockInv
  <2>2. /\ UNCHANGED <<state, chan, killed, plock, slock, cur, panic, inintr, threadVars, parent>>
        /\ pc' = pc /\ ticks0' = ticks0 /\ n' = n /\ ticks' = ticks /\ free' = free /\ frames' = frames
        /\ last_stall_start' = last_stall_start /\ mem_stall_ticks' = mem_stall_ticks
        /\ uptime' = uptime /\ calls' = calls /\ ipc' = ipc /\ ipos' = ipos
        /\ stalled' = stalled /\ runnable' = runnable
    BY <1>2, Zenon
       DEF allVars, vars, schedVars, threadVars, pauseVars, memVars, stallVars, clockVars, intrVars
  <2>3. SchedTypeOK(Channels \cup {TICKS})'
    BY <2>1, <2>2, Zenon DEF ClockTypeOK, SchedTypeOK
  <2>4. ClockTypeOK'
    BY <2>1, <2>2, <2>3, ZenonT(30) DEF ClockTypeOK
  <2>5. OnCpu' /\ TicksOwned' /\ Handler' /\ Counted'
    <3>0. /\ OnCpu /\ state' = state /\ cur' = cur /\ panic' = panic /\ plock' = plock
          /\ Handler /\ ipc' = ipc /\ slock' = slock /\ inintr' = inintr /\ pc' = pc
      BY <2>1, <2>2, ZenonT(60)
    <3>1. OnCpu'
      BY <3>0, OnCpuKept, Zenon
    <3>2. TicksOwned'
      BY <2>1, <2>2, ZenonT(30) DEF TicksOwned, InPause
    <3>3. Handler'
      BY <3>0 DEF Handler, InPause
    <3>4. Counted'
      BY <2>1, <2>2, ZenonT(30) DEF Counted
    <3> QED BY <3>1, <3>2, <3>3, <3>4, Zenon
  <2>6. Waiting'
    <3>1. \A p \in Procs : Elapsed(p)' = Elapsed(p) /\ (Sleeping(p, TICKS)' <=> Sleeping(p, TICKS))
      BY <2>2, ElapsedKept, Zenon DEF Sleeping
    <3> QED BY <2>1, <2>2, <3>1, Zenon DEF Waiting
  <2>7. StallTimes'
    BY <2>1, <2>2, Zenon DEF StallTimes, Stalled
  <2>8. ThreadParts' /\ PageInv'
    BY <2>1, <2>2, ThreadsKept, Zenon
  <2> QED BY <2>4, <2>5, <2>6, <2>7, <2>8, ZenonT(60) DEF ClockInv
<1> QED BY <1>1, <1>2, Zenon

\* It holds in every state of every behaviour.
LEMMA ClockInvHolds == ClockSpec => []ClockInv
BY ClockInitInv, ClockInvStep, PTL DEF ClockSpec

-----------------------------------------------------------------------------
(* What the clock promises.                                                *)

\* pause() loses no tick: whenever tickslock is free, whoever sleeps in
\* sys_pause() still has ticks to wait, whatever the interleaving of clockintr()
\* with the threads of the other CPUs and across the wrap of ticks.
THEOREM PauseKeepsTime == ClockSpec => []PauseNotOverslept
<1>1. ClockInv => PauseNotOverslept
  <2> SUFFICES ASSUME ClockInv, Free("ticks"), NEW p \in Procs, Sleeping(p, TICKS) PROVE Elapsed(p) < n[p]
    BY Zenon DEF PauseNotOverslept
  <2>1. Handler /\ Waiting /\ Cpu0 \in Cpus /\ None \notin Cpus
    BY ClockAssumption, SchedAssumption, Zenon DEF ClockInv, ClockAssumption, SchedAssumption
  <2>2. ipc # "wakeup"
    BY <2>1, Zenon DEF Handler, Free
  <2> QED BY <2>1, <2>2, Zenon DEF Waiting
<1> QED BY <1>1, ClockInvHolds, PTL

\* update_psi() reports full only when clockintr() found CPU 0 in its scheduler:
\* the process it interrupts is still RUNNING, and the scan counts it.
THEOREM FullOnlyWhenIdle == ClockSpec => []FullSampleIdle
<1>1. ClockInv => FullSampleIdle
  <2> SUFFICES ASSUME ClockInv, ipc = "update_psi", ipos \notin Procs, full = 1 PROVE cur[Cpu0] = None
    BY Zenon DEF FullSampleIdle
  <2>1. ClockTypeOK /\ Counted /\ ClockTypes
    BY ClockTypesHold, Zenon DEF ClockInv
  <2>2. ~runnable
    BY <2>1 DEF full, ClockTypeOK
  <2>3. \A q \in Procs : q < ipos
    BY <2>1, PastTable, Zenon
  <2>4. cur[Cpu0] \in Procs \cup {None}
    BY <2>1, Zenon DEF ClockTypes
  <2> QED BY <2>1, <2>2, <2>3, <2>4, Zenon DEF Counted
<1> QED BY <1>1, ClockInvHolds, PTL

\* The counters of kalloc() keep to their widths, and until ticks wraps no
\* process has been stalled for longer than the system has been up.
THEOREM StallsAreTimes == ClockSpec => []StallWithinUptime
<1>1. ClockInv => StallWithinUptime
  BY Zenon DEF ClockInv, StallWithinUptime, StallTimes
<1> QED BY <1>1, ClockInvHolds, PTL

\* The steps of threads leave the averages of update_psi() alone.
LEMMA ThreadsKeepPsi ==
  ASSUME NEW c \in Cpus, NEW p \in Procs, PauseStep(c, p) \/ OtherStep(c, p)
  PROVE  UNCHANGED psiVars
BY Zenon DEF PauseStep, OtherStep, SysPause, PauseLock, PauseTest, PauseSleep, clockVars, psiVars

\* The clock implements Psi: the averages move only by the samples that
\* update_psi() takes, and a full sample is also a some sample.
LEMMA ClockImplementsPsi == ClockSpec => PsiSpec
<1>1. ClockInit => PsiInit
  BY Zenon DEF ClockInit
<1>2. ClockInv /\ [ClockNext]_allVars => [PsiNext]_psiVars
  <2> SUFFICES ASSUME ClockInv, [ClockNext]_allVars PROVE PsiNext \/ UNCHANGED psiVars
    BY Zenon DEF psiVars
  <2>1. CASE UNCHANGED allVars
    BY <2>1, Zenon DEF allVars, clockVars
  <2>2. CASE PsiSample
    <3>1. some \in {0, 1} /\ full \in 0 .. some
      BY DEF some, full
    <3>2. UpdatePsi(some, full)
      BY <2>2, Zenon DEF PsiSample
    <3> QED BY <3>1, <3>2, Zenon DEF PsiNext
  <2>3. CASE ClockTick \/ ClockWakeup \/ ClockRelease \/ PsiScan \/ ClockReturn
    BY <2>3, Zenon DEF ClockTick, ClockWakeup, ClockRelease, PsiScan, ClockReturn, psiVars
  <2>4. ASSUME NEW c \in Cpus, NEW p \in Procs, PauseStep(c, p) \/ OtherStep(c, p) PROVE UNCHANGED psiVars
    BY <2>4, ThreadsKeepPsi, Zenon
  <2>5. CASE ClockNext
    BY <2>2, <2>3, <2>4, <2>5, Zenon DEF ClockNext, ClockStep
  <2> QED BY <2>1, <2>5, Zenon
<1> QED BY <1>1, <1>2, ClockInvHolds, PTL DEF ClockSpec, PsiSpec

-----------------------------------------------------------------------------
(* The averages.                                                           *)

\* Truncating division by 100 (the / of update_psi()) is monotone.
LEMMA DivMonotone ==
  ASSUME NEW x \in Nat, NEW y \in Nat, x <= y
  PROVE  x \div 100 \in Nat /\ x \div 100 <= y \div 100
OBVIOUS

\* One step of the average of update_psi() is monotone in the sample and in
\* the average.
LEMMA EmaMonotone ==
  ASSUME NEW f \in {0, 1}, NEW s \in {0, 1}, f <= s,
         NEW a \in Nat, NEW b \in Nat, a <= b
  PROVE  Ema(f, a) \in Nat /\ Ema(f, a) <= Ema(s, b)
<1> DEFINE x == f * 1024 + 99 * a
           y == s * 1024 + 99 * b
<1>1. x \in Nat /\ y \in Nat /\ x <= y
  OBVIOUS
<1> HIDE DEF x, y
<1>2. x \div 100 \in Nat /\ x \div 100 <= y \div 100
  BY <1>1, DivMonotone, Zenon
<1> QED BY <1>2, Zenon DEF Ema, x, y

\* 925 is where the average of update_psi() stops growing.
LEMMA EmaSaturates == Ema(1, 925) = 925
BY SMTT(30), Z3T(30) DEF Ema

\* Every state of the averages that update_psi() can produce satisfies
\* PsiBounded: saturation at 925 / 1024 and full <= some.
THEOREM PsiIsBounded == PsiSpec => []PsiBounded
<1>1. PsiInit => PsiBounded
  BY DEF PsiInit, PsiBounded
<1>2. PsiBounded /\ [PsiNext]_psiVars => PsiBounded'
  <2> SUFFICES ASSUME PsiBounded, [PsiNext]_psiVars PROVE PsiBounded'
    OBVIOUS
  <2>1. CASE UNCHANGED psiVars
    BY <2>1, ZenonT(30) DEF psiVars, PsiBounded
  <2>2. CASE PsiNext
    <3>0. PICK s \in {0, 1} : \E f \in 0 .. s : UpdatePsi(s, f)
      BY <2>2, Zenon DEF PsiNext
    <3>1. PICK f \in 0 .. s : UpdatePsi(s, f)
      BY <3>0, Zenon
    <3>2. /\ some_avg10 \in Nat /\ some_avg10 <= 925
          /\ full_avg10 \in Nat /\ full_avg10 <= some_avg10
      BY DEF PsiBounded
    <3>3. f \in {0, 1} /\ f <= s /\ s <= 1
      OBVIOUS
    <3>4. Ema(s, some_avg10) \in Nat /\ Ema(s, some_avg10) <= Ema(1, 925)
      BY <3>2, <3>3, EmaMonotone, SMTT(30), Z3T(30)
    <3>5. /\ Ema(f, full_avg10) \in Nat
          /\ Ema(f, full_avg10) <= Ema(s, some_avg10)
      BY <3>2, <3>3, EmaMonotone
    <3>6. some_avg10' = Ema(s, some_avg10) /\ full_avg10' = Ema(f, full_avg10)
      BY <3>1, Zenon DEF UpdatePsi
    <3>7. some_avg10' \in Nat /\ some_avg10' <= Ema(1, 925) /\ full_avg10' \in Nat /\ full_avg10' <= some_avg10'
      BY <3>4, <3>5, <3>6, ZenonT(60)
    <3>8. some_avg10' \in Nat /\ some_avg10' <= 925 /\ full_avg10' \in Nat /\ full_avg10' <= some_avg10'
      BY <3>7, EmaSaturates
    <3>9. some_avg10' \in 0 .. 925 /\ full_avg10' \in 0 .. some_avg10'
      BY <3>8
    <3> QED BY <3>9, ZenonT(60) DEF PsiBounded
  <2> QED BY <2>1, <2>2, Zenon
<1> QED BY <1>1, <1>2, PTL DEF PsiSpec

\* Truncating division by 100 takes every x > 0 below x when 99 / 100 of it
\* is divided.
LEMMA DivShrinks ==
  ASSUME NEW a \in Nat, a # 0
  PROVE  (99 * a) \div 100 \in Nat /\ (99 * a) \div 100 < a
OBVIOUS

\* update_psi() leaves no residue: a sample with nobody stalled lowers each
\* average that is not yet 0, so after at most 925 of them both are 0 (the
\* truncation does it; an average that rounded would stop short of 0).
THEOREM CalmSampleDrains ==
  ASSUME PsiBounded, UpdatePsi(0, 0)
  PROVE  /\ some_avg10' < some_avg10 \/ some_avg10' = 0
         /\ full_avg10' < full_avg10 \/ full_avg10' = 0
<1>1. some_avg10 \in Nat /\ full_avg10 \in Nat
  BY DEF PsiBounded
<1>2. ASSUME NEW a \in Nat PROVE Ema(0, a) < a \/ Ema(0, a) = 0
  <2>1. Ema(0, a) = (99 * a) \div 100
    BY DEF Ema
  <2>2. CASE a = 0
    BY <2>1, <2>2
  <2>3. CASE a # 0
    BY <2>1, <2>3, DivShrinks, Zenon
  <2> QED BY <2>2, <2>3, Zenon
<1> QED BY <1>1, <1>2, ZenonT(60) DEF UpdatePsi

\* So what get_psi_stats() reports while the kernel runs is bounded: the clock
\* implements Psi, and Psi keeps the bounds.
THEOREM ReportsAreBounded == ClockSpec => []PsiBounded
BY ClockImplementsPsi, PsiIsBounded, PTL


=============================================================================
