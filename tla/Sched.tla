------------------------------- MODULE Sched -------------------------------
(***************************************************************************)
(* Spinlocks, sleep/wakeup and the per-CPU scheduler of the kernel         *)
(* (kernel/spinlock.c and the switching half of kernel/proc.c).            *)
(*                                                                         *)
(* A kernel thread is the kernel side of one process.  It runs on a CPU,   *)
(* and a lock is owned by a CPU: p->lock travels with the CPU through      *)
(* swtch().  Holding a lock keeps interrupts off (push_off), so a thread   *)
(* that owns one is never preempted and noff is the number of locks the    *)
(* CPU owns.                                                               *)
(*                                                                         *)
(* A section acquire(l) ... release(l) that acquires nothing else inside   *)
(* is one step whose guard is that l is free.  panic() stops the CPU that  *)
(* calls it, with the locks it owns; the other CPUs go on.                 *)
(***************************************************************************)
EXTENDS Integers

CONSTANTS
  NPROC,   \* slots of the process table
  Cpus,    \* the harts
  Locks,   \* the spinlocks other than the p->lock of each slot
  None     \* no CPU, no process, no channel

Procs == 1 .. NPROC

ASSUME SchedAssumption ==
  /\ NPROC \in Nat \ {0}
  /\ None \notin Cpus
  /\ None \notin Procs

VARIABLES
  state,    \* p->state
  chan,     \* p->chan
  killed,   \* p->killed
  plock,    \* the CPU that owns p->lock, or None
  slock,    \* the CPU that owns each other spinlock, or None
  cur,      \* c->proc
  panic,    \* why a CPU called panic(), or "no"
  inintr    \* the CPUs that are inside an interrupt handler

schedVars == <<state, chan, killed, plock, slock, cur, panic, inintr>>

States == {"UNUSED", "USED", "SLEEPING", "RUNNABLE", "RUNNING", "ZOMBIE"}

Panics == {"no", "acquire", "sched_locks", "init_exiting"}

\* c executes its kernel thread or its scheduler, not an interrupt handler.
Executing(c) == panic[c] = "no" /\ c \notin inintr

\* c is executing the kernel thread of p.
Running(c, p) == cur[c] = p /\ Executing(c)

Free(l) == slock[l] = None
PFree(p) == plock[p] = None

\* mycpu()->noff = 0: interrupts are on.
NoLocks(c) == /\ \A l \in Locks : slock[l] # c
              /\ \A q \in Procs : plock[q] # c

\* Of the locks in play, c owns exactly lk.
OnlyLock(c, lk) == /\ \A l \in Locks : slock[l] = c <=> l = lk
                   /\ \A q \in Procs : plock[q] # c

-----------------------------------------------------------------------------
Sleeping(p, ch) == state[p] = "SLEEPING" /\ chan[p] = ch

(***************************************************************************)
(* sleep(ch, lk): take p->lock, give lk up, mark p SLEEPING and switch to  *)
(* the scheduler, which releases p->lock.  sched() panics when the CPU     *)
(* still owns a lock beside p->lock.                                       *)
(***************************************************************************)
SleepOn(c, p, ch, lk) ==
  /\ PFree(p)
  /\ state' = [state EXCEPT ![p] = "SLEEPING"]
  /\ chan' = [chan EXCEPT ![p] = ch]
  /\ slock' = [slock EXCEPT ![lk] = None]
  /\ IF OnlyLock(c, lk)
       THEN /\ cur' = [cur EXCEPT ![c] = None]
            /\ UNCHANGED <<plock, panic>>
       ELSE /\ plock' = [plock EXCEPT ![p] = c]
            /\ panic' = [panic EXCEPT ![c] = "sched_locks"]
            /\ UNCHANGED cur
  /\ UNCHANGED <<killed, inintr>>

(***************************************************************************)
(* One iteration of the loop of wakeup(ch), at slot i # myproc().  The     *)
(* acquire of a lock this CPU already owns panics.                         *)
(***************************************************************************)
WakeupSlot(c, i, ch) ==
  /\ plock[i] \in {None, c}
  /\ IF plock[i] = c
       THEN /\ panic' = [panic EXCEPT ![c] = "acquire"]
            /\ UNCHANGED state
       ELSE /\ state' = [state EXCEPT ![i] = IF Sleeping(i, ch) THEN "RUNNABLE" ELSE @]
            /\ UNCHANGED panic
  /\ UNCHANGED <<chan, killed, plock, slock, cur, inintr>>

\* Mutant of KillSlot: whatever does not run becomes RUNNABLE.
KillSlotAnyState(q) ==
  /\ PFree(q)
  /\ killed' = [killed EXCEPT ![q] = TRUE]
  /\ state' = [state EXCEPT ![q] = IF @ # "RUNNING" THEN "RUNNABLE" ELSE @]
  /\ UNCHANGED <<chan, plock, slock, cur, panic, inintr>>

(***************************************************************************)
(* kkill() at the slot q it finds.  The slots before q are only locked and *)
(* unlocked again, so the scan is one step.                                *)
(***************************************************************************)
KillSlot(q) ==
  /\ PFree(q)
  /\ killed' = [killed EXCEPT ![q] = TRUE]
  /\ state' = [state EXCEPT ![q] = IF @ = "SLEEPING" THEN "RUNNABLE" ELSE @]
  /\ UNCHANGED <<chan, plock, slock, cur, panic, inintr>>

(***************************************************************************)
(* scheduler() on an idle CPU takes a RUNNABLE process.  The process       *)
(* resumes in sleep() (which clears p->chan), yield() or forkret(), and    *)
(* releases p->lock there.                                                 *)
(***************************************************************************)
Schedule(c, p) ==
  /\ cur[c] = None /\ Executing(c)
  /\ PFree(p)
  /\ state[p] = "RUNNABLE"
  /\ state' = [state EXCEPT ![p] = "RUNNING"]
  /\ chan' = [chan EXCEPT ![p] = None]
  /\ cur' = [cur EXCEPT ![c] = p]
  /\ UNCHANGED <<killed, plock, slock, panic, inintr>>

(***************************************************************************)
(* yield() from a timer interrupt, taken in user or in kernel mode while   *)
(* interrupts are on.                                                      *)
(***************************************************************************)
Yield(c, p) ==
  /\ Running(c, p)
  /\ NoLocks(c)
  /\ PFree(p)
  /\ state' = [state EXCEPT ![p] = "RUNNABLE"]
  /\ cur' = [cur EXCEPT ![c] = None]
  /\ UNCHANGED <<chan, killed, plock, slock, panic, inintr>>

-----------------------------------------------------------------------------
\* The table with the processes of the set alive ready to run.
SchedInit(alive) ==
  /\ state = [p \in Procs |-> IF p \in alive THEN "RUNNABLE" ELSE "UNUSED"]
  /\ chan = [p \in Procs |-> None]
  /\ killed = [p \in Procs |-> FALSE]
  /\ plock = [p \in Procs |-> None]
  /\ slock = [l \in Locks |-> None]
  /\ cur = [c \in Cpus |-> None]
  /\ panic = [c \in Cpus |-> "no"]
  /\ inintr = {}

SchedTypeOK(Chans) ==
  /\ state \in [Procs -> States]
  /\ chan \in [Procs -> Chans \cup {None}]
  /\ killed \in [Procs -> BOOLEAN]
  /\ plock \in [Procs -> Cpus \cup {None}]
  /\ slock \in [Locks -> Cpus \cup {None}]
  /\ cur \in [Cpus -> Procs \cup {None}]
  /\ panic \in [Cpus -> Panics]
  /\ inintr \subseteq Cpus
=============================================================================
