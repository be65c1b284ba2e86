------------------------------- MODULE Kalloc -------------------------------
(***************************************************************************)
(* The physical page allocator (kernel/kalloc.c), in which an allocation   *)
(* that finds no page sleeps on &kmem until kfree() wakes it.  Pages are   *)
(* counted: free is the length of kmem.freelist, frames[q] the pages that  *)
(* belong to slot q (trapframe, page table, user memory).                  *)
(*                                                                         *)
(* kalloc() and kfree() are called by a kernel thread p for the slot       *)
(* tgt[p] and return to the label ra[p]; a kalloc() that returns 0 returns *)
(* to FailTo(ra[p]), the error path of the caller.  A stall is timed with  *)
(* two short tickslock sections inside kmem.lock.                          *)
(***************************************************************************)
EXTENDS Sched

CONSTANT STALLMOD   \* 2^64, the range of the uint64 counter mem_stall_ticks

ASSUME KallocAssumption == STALLMOD \in Nat \ {0}

VARIABLES
  free,               \* length of kmem.freelist
  frames,             \* pages owned by each slot
  ticks,              \* the clock, guarded by tickslock
  last_stall_start,   \* p->last_stall_start
  mem_stall_ticks,    \* p->mem_stall_ticks
  pc,                 \* where each kernel thread is
  iter,               \* index of the table scan the thread is in
  tgt,                \* the slot the thread works on
  ra                  \* where kalloc() or kfree() returns to

stallVars == <<ticks, last_stall_start, mem_stall_ticks>>
memVars == <<free, frames, stallVars>>
threadVars == <<pc, iter, tgt, ra>>

KMEM == <<"kmem", 0>>

FailTo(label) == IF label = "fork" THEN "fork_fail" ELSE label

\* The slot a scan that skips myproc() visits after i.
After(p, i) == IF i + 1 = p THEN i + 2 ELSE i + 1

Goto(p, label) == pc' = [pc EXCEPT ![p] = label]

\* Back to user mode: the locals of the system call are gone.
Return(p) ==
  /\ Goto(p, "user")
  /\ iter' = [iter EXCEPT ![p] = 1]
  /\ tgt' = [tgt EXCEPT ![p] = p]
  /\ ra' = [ra EXCEPT ![p] = "user"]

\* The page kalloc() returns is recorded by its caller before anything else.
TakePage(p) ==
  /\ free > 0
  /\ free' = free - 1
  /\ frames' = [frames EXCEPT ![tgt[p]] = @ + 1]
  /\ Goto(p, ra[p])

-----------------------------------------------------------------------------
\* Mutant of KallocFirst: the start of the stall is not noted.
KallocFirstUntimed(c, p) ==
  /\ Running(c, p) /\ pc[p] = "kalloc"
  /\ Free("kmem")
  /\ \/ /\ TakePage(p)
        /\ UNCHANGED slock
     \/ /\ free = 0 /\ Free("ticks")
        /\ slock' = [slock EXCEPT !["kmem"] = c]
        /\ Goto(p, "kalloc_sleep")
        /\ UNCHANGED <<free, frames>>
  /\ UNCHANGED <<state, chan, killed, plock, cur, panic, inintr>>
  /\ UNCHANGED <<stallVars, iter, tgt, ra>>

(***************************************************************************)
(* kalloc() up to its first look at the free list: return a page, or keep  *)
(* kmem.lock, note when the stall starts and go to sleep.  The acquisition *)
(* of tickslock inside kmem.lock is part of the one step: who waits for it *)
(* keeps others from kmem.lock no longer than tickslock is held, and no    *)
(* holder of tickslock (clockintr(), pause(), uptime()) wants kmem.lock.   *)
(***************************************************************************)
KallocFirst(c, p) ==
  /\ Running(c, p) /\ pc[p] = "kalloc"
  /\ Free("kmem")
  /\ \/ /\ TakePage(p)
        /\ UNCHANGED <<slock, last_stall_start>>
     \/ /\ free = 0 /\ Free("ticks")
        /\ slock' = [slock EXCEPT !["kmem"] = c]
        /\ last_stall_start' = [last_stall_start EXCEPT ![p] = ticks]
        /\ Goto(p, "kalloc_sleep")
        /\ UNCHANGED <<free, frames>>
  /\ UNCHANGED <<state, chan, killed, plock, cur, panic, inintr>>
  /\ UNCHANGED <<ticks, mem_stall_ticks, iter, tgt, ra>>

KallocSleep(c, p) ==
  /\ Running(c, p) /\ pc[p] = "kalloc_sleep"
  /\ SleepOn(c, p, KMEM, "kmem")
  /\ Goto(p, "kalloc_wake")
  /\ UNCHANGED <<memVars, iter, tgt, ra>>

\* Mutant of KallocWake: p->killed is looked at after the page is taken.
KallocWakeLeak(c, p) ==
  /\ Running(c, p) /\ pc[p] = "kalloc_wake"
  /\ Free("kmem") /\ free > 0
  /\ IF killed[p]
       THEN free' = free - 1 /\ Goto(p, FailTo(ra[p])) /\ UNCHANGED frames
       ELSE TakePage(p)
  /\ UNCHANGED <<schedVars, stallVars, iter, tgt, ra>>

(***************************************************************************)
(* Back from sleep(), with kmem.lock again: give up if killed, take a      *)
(* page and count the stall, or sleep once more.                           *)
(***************************************************************************)
KallocWake(c, p) ==
  /\ Running(c, p) /\ pc[p] = "kalloc_wake"
  /\ Free("kmem")
  /\ \/ /\ killed[p]
        /\ Goto(p, FailTo(ra[p]))
        /\ UNCHANGED <<slock, free, frames, mem_stall_ticks>>
     \/ /\ ~killed[p] /\ Free("ticks")
        /\ TakePage(p)
        /\ mem_stall_ticks' = [mem_stall_ticks EXCEPT
                                 ![p] = (@ + ticks - last_stall_start[p]) % STALLMOD]
        /\ UNCHANGED slock
     \/ /\ ~killed[p] /\ free = 0
        /\ slock' = [slock EXCEPT !["kmem"] = c]
        /\ Goto(p, "kalloc_sleep")
        /\ UNCHANGED <<free, frames, mem_stall_ticks>>
  /\ UNCHANGED <<state, chan, killed, plock, cur, panic, inintr>>
  /\ UNCHANGED <<ticks, last_stall_start, iter, tgt, ra>>

\* Mutant of KfreePush: nobody is woken.
KfreePushQuiet(c, p) ==
  /\ Running(c, p) /\ pc[p] = "kfree"
  /\ Free("kmem")
  /\ free' = free + 1
  /\ frames' = [frames EXCEPT ![tgt[p]] = @ - 1]
  /\ Goto(p, ra[p])
  /\ UNCHANGED <<schedVars, stallVars, iter, tgt, ra>>

(***************************************************************************)
(* kfree() puts the page on the free list and, still with kmem.lock, runs  *)
(* wakeup(&kmem).                                                          *)
(***************************************************************************)
KfreePush(c, p) ==
  /\ Running(c, p) /\ pc[p] = "kfree"
  /\ Free("kmem")
  /\ slock' = [slock EXCEPT !["kmem"] = c]
  /\ free' = free + 1
  /\ frames' = [frames EXCEPT ![tgt[p]] = @ - 1]
  /\ iter' = [iter EXCEPT ![p] = After(p, 0)]
  /\ Goto(p, "kfree_wakeup")
  /\ UNCHANGED <<state, chan, killed, plock, cur, panic, inintr, stallVars, tgt, ra>>

KfreeWakeup(c, p) ==
  /\ Running(c, p) /\ pc[p] = "kfree_wakeup"
  /\ iter[p] \in Procs
  /\ WakeupSlot(c, iter[p], KMEM)
  /\ iter' = [iter EXCEPT ![p] = After(p, @)]
  /\ UNCHANGED <<memVars, pc, tgt, ra>>

KfreeReturn(c, p) ==
  /\ Running(c, p) /\ pc[p] = "kfree_wakeup"
  /\ iter[p] \notin Procs
  /\ slock' = [slock EXCEPT !["kmem"] = None]
  /\ iter' = [iter EXCEPT ![p] = 1]
  /\ Goto(p, ra[p])
  /\ UNCHANGED <<state, chan, killed, plock, cur, panic, inintr, memVars, tgt, ra>>

KallocStep(c, p) ==
  \/ KallocFirst(c, p) \/ KallocSleep(c, p) \/ KallocWake(c, p)
  \/ KfreePush(c, p) \/ KfreeWakeup(c, p) \/ KfreeReturn(c, p)
=============================================================================
