------------------------------ MODULE ProcInv ------------------------------
(***************************************************************************)
(* The inductive invariant behind StallJustified and OnOneCpu.  Whether a  *)
(* kmem.lock section leaves the sleepers and the free list consistent      *)
(* depends on who is on which CPU; and that a thread on a CPU keeps its    *)
(* state RUNNING depends on fork(), wait() and freeproc() only changing    *)
(* slots that no other thread works on.                                    *)
(***************************************************************************)
EXTENDS Proc

InKalloc(p) == pc[p] \in {"kalloc", "kalloc_sleep", "kalloc_wake"}
InKfree(p) == pc[p] \in {"kfree", "kfree_wakeup"}

\* p builds or undoes the child tgt[p], without its lock.
Building(p) ==
  \/ pc[p] \in {"fork", "fork_run", "fork_fail"}
  \/ (InKalloc(p) \/ InKfree(p)) /\ ra[p] \in {"fork", "fork_fail"}

\* p is in freeproc(tgt[p]), with the lock of that slot.
Freeing(p) == pc[p] = "freeproc" \/ (InKfree(p) /\ ra[p] = "freeproc")

\* p is in the copyout() of kwait(), with the lock of the child iter[p].
Copying(p) == pc[p] = "wait_reap" \/ (InKalloc(p) /\ ra[p] = "wait_reap")

\* The locals of p are those of a thread that works on its own slot.
OwnSlot(p) == ra[p] = "user" /\ tgt[p] = p

-----------------------------------------------------------------------------
\* A process on a CPU is RUNNING there, or stuck in sched() after sleep().
OnCpu ==
  /\ \A c, d \in Cpus, p \in Procs : cur[c] = p /\ cur[d] = p => c = d
  /\ \A c \in Cpus, p \in Procs : cur[c] = p =>
       \/ state[p] = "RUNNING"
       \/ state[p] = "SLEEPING" /\ panic[c] = "sched_locks" /\ plock[p] = c
  /\ \A p \in Procs : state[p] = "RUNNING" => \E c \in Cpus : cur[c] = p

\* Where a thread may be inside a kmem.lock section, its CPU owns kmem.lock.
KmemOwned ==
  \A p \in Procs : pc[p] \in {"kalloc_sleep", "kfree_wakeup"} =>
    \E c \in Cpus : cur[c] = p /\ slock["kmem"] = c

\* The free list is empty between finding it so and going to sleep.
SleepOnEmpty == \A p \in Procs : pc[p] = "kalloc_sleep" => free = 0

\* The wakeup(&kmem) of kfree() leaves no sleeper behind it.
WokenBehind ==
  \A c \in Cpus, p \in Procs : Running(c, p) /\ pc[p] = "kfree_wakeup" =>
    \A q \in Procs : q < iter[p] /\ q # p => ~Sleeping(q, KMEM)

\* A slot that is not a live process has no thread inside the kernel.
DeadOutside ==
  \A p \in Procs : state[p] \in {"UNUSED", "USED", "ZOMBIE"} => pc[p] \in {"user", "zombie"}

\* Outside of fork(), freeproc() and copyout() a thread works on its own slot.
Locals ==
  \A p \in Procs :
    \/ Building(p) \/ Freeing(p) \/ Copying(p)
    \/ OwnSlot(p)

\* The slots fork() and freeproc() work on are not live and not shared, and
\* the child that wait() copies out of stays a ZOMBIE under its lock.
BuildTargets == \A p \in Procs : Building(p) => state[tgt[p]] = "USED"
FreeTargets ==
  \A p \in Procs : Freeing(p) =>
    /\ state[tgt[p]] \in {"USED", "ZOMBIE"}
    /\ \E c \in Cpus : cur[c] = p /\ plock[tgt[p]] = c
CopyTargets ==
  \A p \in Procs : Copying(p) =>
    /\ tgt[p] = p
    /\ iter[p] \in Procs /\ state[iter[p]] = "ZOMBIE"
    /\ \E c \in Cpus : cur[c] = p /\ plock[iter[p]] = c
OwnTargets ==
  \A p, q \in Procs :
    (Building(p) \/ Freeing(p)) /\ (Building(q) \/ Freeing(q)) /\ tgt[p] = tgt[q] => p = q
Targets == BuildTargets /\ FreeTargets /\ CopyTargets /\ OwnTargets

(***************************************************************************)
(* The inductive invariant: with it, every step of the process table keeps *)
(* the sleepers on &kmem consistent with the free list.                    *)
(***************************************************************************)
KernelInv ==
  /\ TypeOK /\ OnCpu
  /\ KmemOwned /\ SleepOnEmpty /\ WokenBehind /\ StallJustified
  /\ DeadOutside /\ Locals /\ Targets

-----------------------------------------------------------------------------
(***************************************************************************)
(* The invariant behind ZombiesNoticed, NoLockStranded and the refinement  *)
(* of Lifecycle: who owns which lock, whose child is whose, and how far    *)
(* the scans of wait() and of the wakeup() in exit() have come.            *)
(***************************************************************************)

\* p is where a thread may own wait_lock.
InWait(p) ==
  \/ pc[p] \in {"exit_wake_init", "exit_wake_parent", "wait_scan", "wait_sleep"}
  \/ Copying(p) \/ Freeing(p)

\* Only the thread on a CPU owns locks there: kmem.lock in its allocator
\* sections, wait_lock in exit() and wait(), the lock of the slot it frees.
LocksHeld ==
  \A c \in Cpus :
    /\ cur[c] = None => panic[c] = "no"
    /\ panic[c] = "no" =>
         /\ \A l \in Locks : slock[l] = c =>
              /\ cur[c] \in Procs
              /\ \/ l = "kmem" /\ pc[cur[c]] \in {"kalloc_sleep", "kfree_wakeup"}
                 \/ l = "wait" /\ InWait(cur[c])
         /\ \A q \in Procs : plock[q] = c =>
              /\ cur[c] \in Procs
              /\ \/ Freeing(cur[c]) /\ tgt[cur[c]] = q
                 \/ Copying(cur[c]) /\ iter[cur[c]] = q

\* exit() and wait() own wait_lock while they look at the family.
WaitOwned ==
  \A p \in Procs :
    pc[p] \in {"exit_wake_init", "exit_wake_parent", "wait_scan", "wait_sleep"} =>
      \E c \in Cpus : cur[c] = p /\ slock["wait"] = c

\* init lives, and a process on its way out is childless and not init.
Exiting ==
  /\ state[initproc] \in {"RUNNABLE", "RUNNING", "SLEEPING"}
  /\ \A p \in Procs : pc[p] \in {"exit_wake_init", "exit_wake_parent"} =>
       p # initproc /\ \A q \in Procs : parent[q] # p

\* The slots fork(), wait() and freeproc() work on, and their parents.
Families ==
  \A p \in Procs :
    /\ Building(p) =>
         IF pc[p] = "fork_run" THEN parent[tgt[p]] = p ELSE parent[tgt[p]] = None
    /\ Freeing(p) => parent[tgt[p]] = IF state[tgt[p]] = "USED" THEN None ELSE p
    /\ Copying(p) => parent[iter[p]] = p
    /\ pc[p] = "wait_scan" /\ iter[p] \in Procs => parent[iter[p]] = p
    /\ state[p] = "UNUSED" => parent[p] = None

\* wait() goes to sleep only after it has seen all of its children alive.
Scanned ==
  \A p, q \in Procs : parent[q] = p =>
    /\ pc[p] = "wait_scan" /\ q < iter[p] => state[q] # "ZOMBIE"
    /\ pc[p] = "wait_sleep" => state[q] # "ZOMBIE"

\* exit() has woken the parent when its wakeup() has passed that slot.
ParentWoken ==
  \A p, s \in Procs : pc[p] = "exit_wake_parent" /\ parent[p] = s /\ s < iter[p] =>
    ~Sleeping(s, WAIT(s))

\* A ZOMBIE whose parent sleeps in wait() has just been handed to init, and
\* the wakeup() for init has still to come to its slot.
ZombiePending ==
  \A p, q \in Procs : parent[q] = p /\ state[q] = "ZOMBIE" /\ Sleeping(p, WAIT(p)) =>
    p = initproc /\ \E r \in Procs : pc[r] = "exit_wake_init" /\ iter[r] = initproc

LifeInv ==
  /\ LocksHeld /\ WaitOwned /\ Exiting /\ ParentAlive /\ Families
  /\ Scanned /\ ParentWoken /\ ZombiePending

(***************************************************************************)
(* The invariant behind PagesAccounted: a page is asked for only while its *)
(* slot has room for it, and given back only while the slot has one.       *)
(***************************************************************************)
PageRoom ==
  \A p \in Procs :
    /\ InKalloc(p) => frames[tgt[p]] < KFRAMES + MaxUser
    /\ pc[p] = "kfree" => frames[tgt[p]] > 0
=============================================================================
