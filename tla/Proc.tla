-------------------------------- MODULE Proc --------------------------------
(***************************************************************************)
(* The life of a process (kernel/proc.c): fork, exit, wait, kill and sbrk, *)
(* on top of the sleeping page allocator.  Slot 1 is initproc.  A process  *)
(* owns KFRAMES pages for its trapframe and page table and up to MaxUser   *)
(* pages of user memory; exit keeps them, only freeproc() in the parent's  *)
(* wait() (or in a failing fork) gives them back.                          *)
(***************************************************************************)
EXTENDS Kalloc, FiniteSets

CONSTANTS
  NPAGES,    \* pages of physical memory the allocator manages
  KFRAMES,   \* pages allocproc() allocates for a process
  MaxUser    \* bound on the user pages of one process

ASSUME ProcAssumption ==
  /\ NPAGES \in Nat /\ KFRAMES \in Nat \ {0} /\ MaxUser \in Nat
  /\ KFRAMES <= NPAGES
  /\ {"kmem", "ticks", "wait"} \subseteq Locks

VARIABLE parent   \* p->parent, guarded by wait_lock

vars == <<schedVars, memVars, threadVars, parent>>

initproc == 1

WAIT(p) == <<"proc", p>>
Channels == {KMEM} \cup {WAIT(p) : p \in Procs}

Children(p) == {q \in Procs : parent[q] = p}

\* j is the first child of p at or after slot i, or the end of the table.
NextChild(p, i, j) ==
  /\ j = NPROC + 1 \/ j \in Children(p)
  /\ \A k \in i .. j - 1 : k \notin Children(p)

\* The scan of kwait() moves to the first child at or after slot i.
ScanFrom(p, i) ==
  \E j \in i .. NPROC + 1 : NextChild(p, i, j) /\ iter' = [iter EXCEPT ![p] = j]

-----------------------------------------------------------------------------
(***************************************************************************)
(* usertrap(): a killed process exits on its way in or out of the kernel,  *)
(* any other starts a system call.                                         *)
(***************************************************************************)
Syscall(c, p) == Running(c, p) /\ pc[p] = "user" /\ PFree(p) /\ ~killed[p]

TrapKilled(c, p) ==
  /\ Running(c, p) /\ pc[p] = "user" /\ PFree(p) /\ killed[p]
  /\ Goto(p, "exit")
  /\ UNCHANGED <<schedVars, memVars, iter, tgt, ra, parent>>

SysExit(c, p) ==
  /\ Syscall(c, p)
  /\ Goto(p, "exit")
  /\ UNCHANGED <<schedVars, memVars, iter, tgt, ra, parent>>

\* A page fault on a lazily allocated page: vmfault() allocates it.  usertrap()
\* looks at p->killed only afterwards.
PageFault(c, p) ==
  /\ Running(c, p) /\ pc[p] = "user"
  /\ frames[p] < KFRAMES + MaxUser
  /\ Goto(p, "kalloc")
  /\ UNCHANGED <<schedVars, memVars, iter, tgt, ra, parent>>

\* growproc(): uvmalloc() of one page, uvmdealloc() of one page.
SysSbrk(c, p) ==
  /\ Syscall(c, p)
  /\ \/ frames[p] < KFRAMES + MaxUser /\ Goto(p, "kalloc")
     \/ frames[p] > KFRAMES /\ Goto(p, "kfree")
  /\ UNCHANGED <<schedVars, memVars, iter, tgt, ra, parent>>

\* The slot kkill(pid) stops at.  The pid is nonzero from allocproc() to
\* freeproc(), and kill(0) stops at the first slot whose pid is 0.
KillTargets ==
  {q \in Procs : \/ state[q] # "UNUSED"
                 \/ \A j \in 1 .. q - 1 : state[j] # "UNUSED"}

SysKill(c, p) ==
  /\ Syscall(c, p)
  /\ \E q \in KillTargets : KillSlot(q)
  /\ UNCHANGED <<memVars, threadVars, parent>>

-----------------------------------------------------------------------------
(***************************************************************************)
(* kfork().  allocproc() scans for an UNUSED slot, marks it USED, drops    *)
(* its lock and allocates; uvmcopy() allocates as many user pages as the   *)
(* parent has.                                                             *)
(***************************************************************************)
SysFork(c, p) ==
  /\ Syscall(c, p)
  /\ iter' = [iter EXCEPT ![p] = 1]
  /\ Goto(p, "allocproc")
  /\ UNCHANGED <<schedVars, memVars, tgt, ra, parent>>

AllocprocScan(c, p) ==
  LET i == iter[p] IN
  /\ Running(c, p) /\ pc[p] = "allocproc"
  /\ i \in Procs => PFree(i)
  /\ \/ /\ i \in Procs /\ state[i] = "UNUSED"
        /\ state' = [state EXCEPT ![i] = "USED"]
        /\ tgt' = [tgt EXCEPT ![p] = i]
        /\ pc' = [pc EXCEPT ![p] = "fork", ![i] = "user"]
        /\ iter' = [iter EXCEPT ![p] = 1]
        /\ UNCHANGED ra
     \/ /\ i \in Procs /\ state[i] # "UNUSED"
        /\ iter' = [iter EXCEPT ![p] = i + 1]
        /\ UNCHANGED <<state, tgt, pc, ra>>
     \/ /\ i \notin Procs
        /\ Return(p)
        /\ UNCHANGED state
  /\ UNCHANGED <<chan, killed, plock, slock, cur, panic, inintr, memVars, parent>>

ForkAlloc(c, p) ==
  /\ Running(c, p) /\ pc[p] = "fork"
  /\ frames[tgt[p]] < frames[p]
  /\ ra' = [ra EXCEPT ![p] = "fork"]
  /\ Goto(p, "kalloc")
  /\ UNCHANGED <<schedVars, memVars, iter, tgt, parent>>

\* The child is complete: set its parent under wait_lock.
ForkParent(c, p) ==
  /\ Running(c, p) /\ pc[p] = "fork"
  /\ frames[tgt[p]] = frames[p]
  /\ PFree(tgt[p]) /\ Free("wait")
  /\ parent' = [parent EXCEPT ![tgt[p]] = p]
  /\ Goto(p, "fork_run")
  /\ UNCHANGED <<schedVars, memVars, iter, tgt, ra>>

ForkRun(c, p) ==
  /\ Running(c, p) /\ pc[p] = "fork_run"
  /\ PFree(tgt[p])
  /\ state' = [state EXCEPT ![tgt[p]] = "RUNNABLE"]
  /\ Return(p)
  /\ UNCHANGED <<chan, killed, plock, slock, cur, panic, inintr, memVars, parent>>

(***************************************************************************)
(* An allocation failed.  uvmcopy() first frees the user pages it copied,  *)
(* proc_pagetable() all but the trapframe, without a lock; then freeproc() *)
(* runs with np->lock held.                                                *)
(***************************************************************************)
ForkFail(c, p) ==
  /\ Running(c, p) /\ pc[p] = "fork_fail"
  /\ IF frames[tgt[p]] > 1 /\ frames[tgt[p]] # KFRAMES
       THEN /\ Goto(p, "kfree")
            /\ ra' = [ra EXCEPT ![p] = "fork_fail"]
            /\ UNCHANGED plock
       ELSE /\ PFree(tgt[p])
            /\ plock' = [plock EXCEPT ![tgt[p]] = c]
            /\ Goto(p, "freeproc")
            /\ UNCHANGED ra
  /\ UNCHANGED <<state, chan, killed, slock, cur, panic, inintr, memVars, iter, tgt, parent>>

(***************************************************************************)
(* freeproc(q), called with q->lock held: every page it still owns goes    *)
(* through kfree(), then the slot is reset and the caller releases the     *)
(* locks.                                                                  *)
(***************************************************************************)
FreeprocPage(c, p) ==
  /\ Running(c, p) /\ pc[p] = "freeproc"
  /\ frames[tgt[p]] > 0
  /\ ra' = [ra EXCEPT ![p] = "freeproc"]
  /\ Goto(p, "kfree")
  /\ UNCHANGED <<schedVars, memVars, iter, tgt, parent>>

FreeprocReset(c, p) ==
  LET q == tgt[p] IN
  /\ Running(c, p) /\ pc[p] = "freeproc"
  /\ frames[q] = 0
  /\ state' = [state EXCEPT ![q] = "UNUSED"]
  /\ chan' = [chan EXCEPT ![q] = None]
  /\ killed' = [killed EXCEPT ![q] = FALSE]
  /\ parent' = [parent EXCEPT ![q] = None]
  /\ plock' = [plock EXCEPT ![q] = None]
  /\ slock' = [slock EXCEPT !["wait"] = IF @ = c THEN None ELSE @]
  /\ Return(p)
  /\ UNCHANGED <<cur, panic, inintr, memVars>>

-----------------------------------------------------------------------------
\* Mutant of ExitReparent: nobody is woken.
ExitReparentQuiet(c, p) ==
  /\ Running(c, p) /\ pc[p] = "exit"
  /\ p # initproc /\ Free("wait")
  /\ slock' = [slock EXCEPT !["wait"] = c]
  /\ parent' = [q \in Procs |-> IF parent[q] = p THEN initproc ELSE parent[q]]
  /\ iter' = [iter EXCEPT ![p] = NPROC + 1]
  /\ Goto(p, "exit_wake_parent")
  /\ UNCHANGED <<state, chan, killed, plock, cur, panic, inintr, memVars, tgt, ra>>

(***************************************************************************)
(* kexit().  With wait_lock held: reparent() hands the children to init    *)
(* and wakes it (once here: init cannot sleep again before wait_lock is    *)
(* free), then the parent is woken, then the process becomes a ZOMBIE.     *)
(***************************************************************************)
ExitReparent(c, p) ==
  /\ Running(c, p) /\ pc[p] = "exit"
  /\ IF p = initproc
       THEN /\ panic' = [panic EXCEPT ![c] = "init_exiting"]
            /\ UNCHANGED <<slock, parent, iter, pc>>
       ELSE /\ Free("wait")
            /\ slock' = [slock EXCEPT !["wait"] = c]
            /\ parent' = [q \in Procs |-> IF parent[q] = p THEN initproc ELSE parent[q]]
            /\ iter' = [iter EXCEPT ![p] = After(p, 0)]
            /\ Goto(p, IF Children(p) # {} THEN "exit_wake_init" ELSE "exit_wake_parent")
            /\ UNCHANGED panic
  /\ UNCHANGED <<state, chan, killed, plock, cur, inintr, memVars, tgt, ra>>

ExitWakeup(c, p) ==
  /\ Running(c, p) /\ pc[p] \in {"exit_wake_init", "exit_wake_parent"}
  /\ iter[p] \in Procs
  /\ WakeupSlot(c, iter[p], WAIT(IF pc[p] = "exit_wake_init" THEN initproc ELSE parent[p]))
  /\ iter' = [iter EXCEPT ![p] = After(p, @)]
  /\ UNCHANGED <<memVars, pc, tgt, ra, parent>>

ExitNextWakeup(c, p) ==
  /\ Running(c, p) /\ pc[p] = "exit_wake_init" /\ iter[p] \notin Procs
  /\ iter' = [iter EXCEPT ![p] = After(p, 0)]
  /\ Goto(p, "exit_wake_parent")
  /\ UNCHANGED <<schedVars, memVars, tgt, ra, parent>>

ExitZombie(c, p) ==
  /\ Running(c, p) /\ pc[p] = "exit_wake_parent" /\ iter[p] \notin Procs
  /\ PFree(p)
  /\ state' = [state EXCEPT ![p] = "ZOMBIE"]
  /\ slock' = [slock EXCEPT !["wait"] = None]
  /\ cur' = [cur EXCEPT ![c] = None]
  /\ iter' = [iter EXCEPT ![p] = 1]
  /\ Goto(p, "zombie")
  /\ UNCHANGED <<chan, killed, plock, panic, inintr, memVars, tgt, ra, parent>>

-----------------------------------------------------------------------------
(***************************************************************************)
(* kwait(): scan for a ZOMBIE child with wait_lock held, reap it or sleep. *)
(* The slots that are not children are skipped without taking their locks. *)
(* The exit status goes to user memory first: copyout() may fail, or fault *)
(* in a lazily allocated page with wait_lock and the child's lock held.    *)
(***************************************************************************)
SysWait(c, p) ==
  /\ Syscall(c, p)
  /\ Goto(p, "wait")
  /\ UNCHANGED <<schedVars, memVars, iter, tgt, ra, parent>>

\* acquire(&wait_lock), on entry and again in sleep() after a wakeup.
WaitLock(c, p) ==
  /\ Running(c, p) /\ pc[p] = "wait"
  /\ Free("wait")
  /\ slock' = [slock EXCEPT !["wait"] = c]
  /\ ScanFrom(p, 1)
  /\ Goto(p, "wait_scan")
  /\ UNCHANGED <<state, chan, killed, plock, cur, panic, inintr, memVars, tgt, ra, parent>>

WaitScan(c, p) ==
  LET i == iter[p] IN
  /\ Running(c, p) /\ pc[p] = "wait_scan"
  /\ i \in Procs /\ PFree(i)
  /\ IF state[i] = "ZOMBIE"
       THEN \/ /\ plock' = [plock EXCEPT ![i] = c]
               /\ tgt' = [tgt EXCEPT ![p] = i]
               /\ iter' = [iter EXCEPT ![p] = 1]
               /\ Goto(p, "freeproc")
               /\ UNCHANGED <<slock, ra>>
            \/ /\ slock' = [slock EXCEPT !["wait"] = None]
               /\ Return(p)
               /\ UNCHANGED plock
            \/ /\ frames[p] < KFRAMES + MaxUser
               /\ plock' = [plock EXCEPT ![i] = c]
               /\ ra' = [ra EXCEPT ![p] = "wait_reap"]
               /\ Goto(p, "kalloc")
               /\ UNCHANGED <<slock, iter, tgt>>
       ELSE /\ ScanFrom(p, i + 1)
            /\ UNCHANGED <<plock, slock, tgt, pc, ra>>
  /\ UNCHANGED <<state, chan, killed, cur, panic, inintr, memVars, parent>>

\* The fault found a page.  (kalloc() never returns 0 here: a kalloc() that
\* sleeps with these locks held panics in sched().)
WaitReap(c, p) ==
  /\ Running(c, p) /\ pc[p] = "wait_reap"
  /\ tgt' = [tgt EXCEPT ![p] = iter[p]]
  /\ iter' = [iter EXCEPT ![p] = 1]
  /\ Goto(p, "freeproc")
  /\ UNCHANGED <<schedVars, memVars, ra, parent>>

\* Mutant of WaitNone: wait_lock is not released on the way out.
WaitNoneHeld(c, p) ==
  /\ Running(c, p) /\ pc[p] = "wait_scan"
  /\ iter[p] \notin Procs /\ PFree(p)
  /\ Goto(p, IF Children(p) = {} \/ killed[p] THEN "user" ELSE "wait_sleep")
  /\ iter' = [iter EXCEPT ![p] = 1]
  /\ UNCHANGED <<schedVars, memVars, tgt, ra, parent>>

\* No ZOMBIE found: return -1 without children or when killed, else sleep.
WaitNone(c, p) ==
  /\ Running(c, p) /\ pc[p] = "wait_scan"
  /\ iter[p] \notin Procs /\ PFree(p)
  /\ IF Children(p) = {} \/ killed[p]
       THEN slock' = [slock EXCEPT !["wait"] = None] /\ Goto(p, "user")
       ELSE Goto(p, "wait_sleep") /\ UNCHANGED slock
  /\ iter' = [iter EXCEPT ![p] = 1]
  /\ UNCHANGED <<state, chan, killed, plock, cur, panic, inintr, memVars, tgt, ra, parent>>

WaitSleep(c, p) ==
  /\ Running(c, p) /\ pc[p] = "wait_sleep"
  /\ SleepOn(c, p, WAIT(p), "wait")
  /\ Goto(p, "wait")
  /\ UNCHANGED <<memVars, iter, tgt, ra, parent>>

-----------------------------------------------------------------------------
\* Every process of the set alive has its KFRAMES pages and is a child of init.
InitFrom(alive, freePages) ==
  /\ SchedInit(alive)
  /\ free = freePages
  /\ frames = [p \in Procs |-> IF p \in alive THEN KFRAMES ELSE 0]
  /\ last_stall_start = [p \in Procs |-> 0]
  /\ mem_stall_ticks = [p \in Procs |-> 0]
  /\ pc = [p \in Procs |-> "user"]
  /\ iter = [p \in Procs |-> 1]
  /\ tgt = [p \in Procs |-> p]
  /\ ra = [p \in Procs |-> "user"]
  /\ parent = [p \in Procs |-> IF p \in alive \ {initproc} THEN initproc ELSE None]

\* main() after userinit(): init alone.
Init == InitFrom({initproc}, NPAGES - KFRAMES) /\ ticks = 0

RunProc(c, p) == Schedule(c, p) /\ UNCHANGED <<memVars, threadVars, parent>>

Preempt(c, p) == Yield(c, p) /\ UNCHANGED <<memVars, threadVars, parent>>

SyscallStep(c, p) ==
  \/ PageFault(c, p) \/ SysExit(c, p) \/ SysSbrk(c, p) \/ SysKill(c, p) \/ SysFork(c, p) \/ SysWait(c, p)

ForkStep(c, p) ==
  \/ AllocprocScan(c, p) \/ ForkAlloc(c, p) \/ ForkParent(c, p) \/ ForkRun(c, p)
  \/ ForkFail(c, p) \/ FreeprocPage(c, p) \/ FreeprocReset(c, p)

ExitStep(c, p) ==
  \/ ExitReparent(c, p) \/ ExitWakeup(c, p) \/ ExitNextWakeup(c, p) \/ ExitZombie(c, p)

WaitStep(c, p) ==
  \/ WaitLock(c, p) \/ WaitScan(c, p) \/ WaitReap(c, p) \/ WaitNone(c, p) \/ WaitSleep(c, p)

\* The steps of a thread that is inside the kernel.
KernelStep(c, p) ==
  \/ KallocStep(c, p) /\ UNCHANGED parent
  \/ ForkStep(c, p) \/ ExitStep(c, p) \/ WaitStep(c, p)
  \/ TrapKilled(c, p)

Next ==
  \E c \in Cpus, p \in Procs :
    RunProc(c, p) \/ Preempt(c, p) \/ SyscallStep(c, p) \/ KernelStep(c, p)

Spec == Init /\ [][Next]_vars

-----------------------------------------------------------------------------
Labels == {"user", "kalloc", "kalloc_sleep", "kalloc_wake", "kfree", "kfree_wakeup",
           "allocproc", "fork", "fork_run", "fork_fail", "freeproc", "exit",
           "exit_wake_init", "exit_wake_parent", "zombie",
           "wait", "wait_scan", "wait_reap", "wait_sleep"}

TypeOK ==
  /\ SchedTypeOK(Channels)
  /\ free \in Nat
  /\ frames \in [Procs -> Int]
  /\ ticks \in Nat
  /\ last_stall_start \in [Procs -> Nat]
  /\ mem_stall_ticks \in [Procs -> Nat]
  /\ pc \in [Procs -> Labels]
  /\ iter \in [Procs -> 1 .. NPROC + 1]
  /\ tgt \in [Procs -> Procs]
  /\ ra \in [Procs -> {"user", "fork", "fork_fail", "freeproc", "wait_reap"}]
  /\ parent \in [Procs -> Procs \cup {None}]

\* The pages that belong to slots, as pairs of a slot and a number.
Held == {x \in Procs \X (1 .. KFRAMES + MaxUser) : x[2] <= frames[x[1]]}

(***************************************************************************)
(* Pages are neither lost nor duplicated: the free list and the pages of   *)
(* the slots always make up all of memory, through failed forks, kills     *)
(* during a stall and exits, and no slot gives back more than it owns.     *)
(***************************************************************************)
PagesAccounted ==
  /\ \A p \in Procs : frames[p] \in 0 .. KFRAMES + MaxUser
  /\ free + Cardinality(Held) = NPAGES

(***************************************************************************)
(* No lost wakeup in the allocator: when no CPU is inside a kmem.lock      *)
(* section and the free list is not empty, nobody sleeps on &kmem.         *)
(***************************************************************************)
StallJustified ==
  Free("kmem") /\ free > 0 => \A p \in Procs : ~Sleeping(p, KMEM)

(***************************************************************************)
(* No lost wakeup between exit() and wait(): when wait_lock is free, no    *)
(* process sleeps in wait() while one of its children is a ZOMBIE, whoever *)
(* the child belonged to before reparent().                                *)
(***************************************************************************)
NoMissedZombie ==
  Free("wait") =>
    \A p, q \in Procs : parent[q] = p /\ state[q] = "ZOMBIE" => ~Sleeping(p, WAIT(p))

(***************************************************************************)
(* The parent of a process is a process that can still wait for it: it is  *)
(* never itself a ZOMBIE or a freed slot.                                  *)
(***************************************************************************)
ParentAlive ==
  \A q \in Procs : parent[q] # None => state[parent[q]] \in {"RUNNING", "RUNNABLE", "SLEEPING"}

(***************************************************************************)
(* A CPU in its scheduler, and a CPU in user mode, owns no spinlock, so    *)
(* preemption and sleep never strand one.                                  *)
(***************************************************************************)
NoLockStranded ==
  \A c \in Cpus :
    \/ cur[c] = None
    \/ panic[c] = "no" /\ pc[cur[c]] = "user"
    => NoLocks(c)

(***************************************************************************)
(* A process is on a CPU exactly when it is RUNNING, and on one CPU only.  *)
(* A CPU that panicked in sched() is stuck with a process already marked   *)
(* SLEEPING.                                                               *)
(***************************************************************************)
OnOneCpu ==
  \A p \in Procs :
    /\ state[p] = "RUNNING" => \E c \in Cpus : cur[c] = p
    /\ \A c, d \in Cpus : cur[c] = p /\ cur[d] = p => c = d
    /\ \A c \in Cpus : Running(c, p) => state[p] = "RUNNING"

(***************************************************************************)
(* No thread ever asks for a spinlock its own CPU already owns, which      *)
(* acquire() answers with panic("acquire").                                *)
(***************************************************************************)
NoAcquirePanic == \A c \in Cpus : panic[c] # "acquire"

(***************************************************************************)
(* No child is forgotten: whoever exits, and in whatever order, every      *)
(* child has a live parent (reparent()), and no parent sleeps in wait()    *)
(* next to a ZOMBIE (exit(), reparent()).                                  *)
(***************************************************************************)
ZombiesNoticed == NoMissedZombie /\ ParentAlive
=============================================================================
