----------------------------- MODULE AtomicDisk -----------------------------
(***************************************************************************)
(* What the logging layer of the file system promises: the writes of the   *)
(* system calls of one transaction reach the disk together or, after a     *)
(* crash, not at all, and a transaction is never cut through the middle of *)
(* a system call.                                                          *)
(***************************************************************************)
EXTENDS Integers

CONSTANTS Blocks, Vals

VARIABLES
  durable,   \* what a crash leaves
  current,   \* what the system calls read
  active     \* the system calls between begin_op() and end_op()

diskVars == <<durable, current, active>>

DiskInit ==
  /\ durable \in [Blocks -> Vals]
  /\ current = durable
  /\ active = 0

Begin == active' = active + 1 /\ UNCHANGED <<durable, current>>

Write(b, v) ==
  /\ active > 0
  /\ current' = [current EXCEPT ![b] = v]
  /\ UNCHANGED <<durable, active>>

End == active > 0 /\ active' = active - 1 /\ UNCHANGED <<durable, current>>

Commit == active = 0 /\ durable' = current /\ UNCHANGED <<current, active>>

Crash == current' = durable /\ active' = 0 /\ UNCHANGED durable

DiskNext ==
  \/ Begin \/ End \/ Commit \/ Crash
  \/ \E b \in Blocks, v \in Vals : Write(b, v)

DiskSpec == DiskInit /\ [][DiskNext]_diskVars
=============================================================================
