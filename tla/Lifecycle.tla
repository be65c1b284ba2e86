----------------------------- MODULE Lifecycle -----------------------------
(***************************************************************************)
(* What the process table promises, without locks, CPUs or memory: the     *)
(* states a slot goes through (enum procstate, kernel/proc.h) and who is   *)
(* the parent of whom.  A process is born to a running parent, leaves no   *)
(* children behind when it exits, and its slot is only given back by its   *)
(* parent.  Module Proc is shown to implement this specification.          *)
(***************************************************************************)
EXTENDS Integers

CONSTANTS NPROC, None

VARIABLES state, parent

lifeVars == <<state, parent>>

Slots == 1 .. NPROC
init == 1

Become(q, from, to) == state[q] = from /\ state' = [state EXCEPT ![q] = to]

Childless(p) == \A q \in Slots : parent[q] # p

Alloc(q) == Become(q, "UNUSED", "USED") /\ UNCHANGED parent

Abandon(q) == Become(q, "USED", "UNUSED") /\ parent[q] = None /\ UNCHANGED parent

Adopt(p, q) ==
  /\ state[p] = "RUNNING" /\ state[q] = "USED" /\ parent[q] = None
  /\ parent' = [parent EXCEPT ![q] = p]
  /\ UNCHANGED state

Start(q) == Become(q, "USED", "RUNNABLE") /\ parent[q] # None /\ UNCHANGED parent

Run(q)     == Become(q, "RUNNABLE", "RUNNING") /\ UNCHANGED parent
Preempt(q) == Become(q, "RUNNING", "RUNNABLE") /\ UNCHANGED parent
Block(q)   == Become(q, "RUNNING", "SLEEPING") /\ UNCHANGED parent
Wake(q)    == Become(q, "SLEEPING", "RUNNABLE") /\ UNCHANGED parent

\* All the children of a process that is about to exit go to init at once.
HandOver(p) ==
  /\ state[p] = "RUNNING" /\ p # init
  /\ parent' = [q \in Slots |-> IF parent[q] = p THEN init ELSE parent[q]]
  /\ UNCHANGED state

Exit(p) == p # init /\ Childless(p) /\ Become(p, "RUNNING", "ZOMBIE") /\ UNCHANGED parent

Reap(p, q) ==
  /\ state[p] = "RUNNING" /\ parent[q] = p
  /\ Become(q, "ZOMBIE", "UNUSED")
  /\ parent' = [parent EXCEPT ![q] = None]

LifeInit ==
  /\ state = [q \in Slots |-> IF q = init THEN "RUNNABLE" ELSE "UNUSED"]
  /\ parent = [q \in Slots |-> None]

LifeNext ==
  \/ \E q \in Slots : \/ Alloc(q) \/ Abandon(q) \/ Start(q) \/ Run(q) \/ Preempt(q)
                      \/ Block(q) \/ Wake(q) \/ HandOver(q) \/ Exit(q)
  \/ \E p, q \in Slots : Adopt(p, q) \/ Reap(p, q)

LifeSpec == LifeInit /\ [][LifeNext]_lifeVars
=============================================================================
