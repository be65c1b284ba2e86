------------------------------- MODULE Virtio -------------------------------
(***************************************************************************)
(* The disk driver (kernel/virtio_disk.c): descriptors, the two rings, the *)
(* sleeping caller of virtio_disk_rw() and the interrupt handler, against  *)
(* a device that works on its own, in any order.                           *)
(*                                                                         *)
(* A section under vdisk_lock is one action, except for the handler: the   *)
(* device adds used entries while it runs.  avail is the set of the heads  *)
(* that the device may read (the index goes up after entry, descriptors    *)
(* and status are written); used is the queue of the entries between       *)
(* disk.used_idx and used->idx.  At most num heads exist and NUM divides   *)
(* 2^16, so no entry is overwritten.  Contents are abstracted to "is it    *)
(* what was last given to the block".  The device never reports an error   *)
(* (the driver panics on one).                                             *)
(***************************************************************************)
EXTENDS Integers, Sequences, FiniteSets

CONSTANTS
  Procs, Blocks, None,
  NBUF,      \* the buffers of the cache
  Sizes      \* the numbers of descriptors to look at, see num

ASSUME VirtioAssumption ==
  /\ Sizes \subseteq Nat \ 0 .. 2
  /\ NBUF \in Nat /\ IsFiniteSet(Procs)
  /\ None \notin Procs /\ None \notin Blocks /\ None \notin 1 .. NBUF

Bufs == 1 .. NBUF

VARIABLES
  num,               \* NUM, the same from start to end: one run covers all Sizes
  free,              \* the descriptors with disk.free[i]
  desc, info,        \* a descriptor holds what its address points to
  status,            \* info[i].status = 0
  avail, used,       \* the rings in shared memory
  irq,               \* the interrupt line of the device
  intr,              \* the handler runs, with vdisk_lock
  onDisk, data,      \* is the block, is b->data, the last content given
  bdisk,             \* b->disk
  blockno,           \* b->blockno
  pc, req, idx       \* of each process: place, [buf, write], descriptors

ring == <<avail, used>>
device == <<irq, onDisk>>
chains == <<num, free, desc, info, status>>
virtioVars == <<ring, device, chains, intr, data, bdisk, blockno, pc, req, idx>>

Ids == 0 .. num - 1

FreeDesc == [addr |-> None, more |-> FALSE, next |-> 0]

Goto(p, label) == pc' = [pc EXCEPT ![p] = label]

\* p goes on to label; with wake, the sleepers on &disk.free[0] try again.
GotoWakeFree(p, label, wake) ==
  pc' = [q \in Procs |-> IF q = p THEN label
                         ELSE IF wake /\ pc[q] = "desc_asleep" THEN "rw" ELSE pc[q]]

\* alloc3_desc() takes the three lowest free descriptors, in order.
Alloc3Desc(i, j, k) ==
  /\ i < j /\ j < k
  /\ \A d \in free : d <= k => d \in {i, j, k}

\* The descriptors are too few: those taken are given back, each with a
\* wakeup of the other waiters.
RwNoDesc(p) ==
  /\ pc[p] = "rw" /\ ~intr
  /\ Cardinality(free) < 3
  /\ GotoWakeFree(p, "desc_asleep", free # {})
  /\ UNCHANGED <<ring, device, chains, intr, data, bdisk, blockno, req, idx>>

\* b->disk is still 1 after the notification, for the handler needs
\* vdisk_lock; so the caller goes to sleep on b.
RwSubmit(p) ==
  /\ pc[p] = "rw" /\ ~intr
  /\ \E i, j, k \in free :
       /\ Alloc3Desc(i, j, k)
       /\ idx' = [idx EXCEPT ![p] = <<i, j, k>>]
       /\ free' = free \ {i, j, k}
       /\ desc' = [desc EXCEPT
            ![i] = [addr |-> <<req[p].write, blockno[req[p].buf]>>, more |-> TRUE, next |-> j],
            ![j] = [addr |-> req[p].buf, more |-> TRUE, next |-> k],
            ![k] = [addr |-> "status", more |-> FALSE, next |-> 0]]
       /\ status' = [status EXCEPT ![i] = FALSE]
       /\ info' = [info EXCEPT ![i] = req[p].buf]
       /\ avail' = avail \cup {i}
  /\ bdisk' = [bdisk EXCEPT ![req[p].buf] = TRUE]
  /\ Goto(p, "rw_asleep")
  /\ UNCHANGED <<num, used, device, intr, data, blockno, req>>

RwSleepAgain(p) ==
  /\ pc[p] = "rw_woken" /\ ~intr
  /\ bdisk[req[p].buf]
  /\ Goto(p, "rw_asleep")
  /\ UNCHANGED <<ring, device, chains, intr, data, bdisk, blockno, req, idx>>

\* free_chain(): the descriptors from i on.
Chain(i) ==
  LET j == desc[i].next  k == desc[j].next IN
  IF ~desc[i].more THEN {i} ELSE IF ~desc[j].more THEN {i, j} ELSE {i, j, k}

\* Mutant of RwFinish: only the head of the chain is freed.
RwFinishHeadOnly(p) ==
  /\ pc[p] = "rw_woken" /\ ~intr
  /\ ~bdisk[req[p].buf]
  /\ LET c == {idx[p][1]} IN
       /\ info' = [info EXCEPT ![idx[p][1]] = None]
       /\ free' = free \cup c
       /\ desc' = [i \in Ids |-> IF i \in c THEN FreeDesc ELSE desc[i]]
  /\ GotoWakeFree(p, "rw_ret", TRUE)
  /\ idx' = [idx EXCEPT ![p] = <<>>]
  /\ UNCHANGED <<num, ring, device, status, intr, data, bdisk, blockno, req>>

RwFinish(p) ==
  /\ pc[p] = "rw_woken" /\ ~intr
  /\ ~bdisk[req[p].buf]
  /\ LET c == Chain(idx[p][1]) IN
       /\ info' = [info EXCEPT ![idx[p][1]] = None]
       /\ free' = free \cup c
       /\ desc' = [i \in Ids |-> IF i \in c THEN FreeDesc ELSE desc[i]]
  /\ GotoWakeFree(p, "rw_ret", TRUE)
  /\ idx' = [idx EXCEPT ![p] = <<>>]
  /\ UNCHANGED <<num, ring, device, status, intr, data, bdisk, blockno, req>>

-----------------------------------------------------------------------------
(* The device carries out the requests it finds in any order, and raises   *)
(* the interrupt for each used entry.                                      *)

DeviceComplete(h) ==
  /\ h \in avail
  /\ LET b == desc[desc[h].next].addr  op == desc[h].addr IN
       /\ b \in Bufs
       /\ IF op[1]
            THEN onDisk' = [onDisk EXCEPT ![op[2]] = data[b]] /\ UNCHANGED data
            ELSE data' = [data EXCEPT ![b] = onDisk[op[2]]] /\ UNCHANGED onDisk
  /\ status' = [status EXCEPT ![h] = TRUE]
  /\ used' = Append(used, h)
  /\ irq' = TRUE
  /\ avail' = avail \ {h}
  /\ UNCHANGED <<num, free, desc, info, intr, bdisk, blockno, pc, req, idx>>

-----------------------------------------------------------------------------
(* virtio_disk_intr() *)

IntrBegin ==
  /\ irq /\ ~intr
  /\ irq' = FALSE
  /\ intr' = TRUE
  /\ UNCHANGED <<ring, chains, onDisk, data, bdisk, blockno, pc, req, idx>>

\* Mutant of IntrEntry: the handler forgets to wake the caller.
IntrEntryQuiet ==
  /\ intr /\ used # <<>>
  /\ LET b == info[Head(used)] IN bdisk' = [bdisk EXCEPT ![b] = FALSE]
  /\ used' = Tail(used)
  /\ UNCHANGED <<avail, device, chains, intr, data, blockno, pc, req, idx>>

IntrEntry ==
  /\ intr /\ used # <<>>
  /\ LET b == info[Head(used)] IN
       /\ bdisk' = [bdisk EXCEPT ![b] = FALSE]
       /\ pc' = [q \in Procs |->
                   IF pc[q] = "rw_asleep" /\ req[q].buf = b THEN "rw_woken" ELSE pc[q]]
  /\ used' = Tail(used)
  /\ UNCHANGED <<avail, device, chains, intr, data, blockno, req, idx>>

IntrEnd ==
  /\ intr /\ used = <<>>
  /\ intr' = FALSE
  /\ UNCHANGED <<ring, device, chains, data, bdisk, blockno, pc, req, idx>>

VirtioInit ==
  /\ num \in Sizes
  /\ free = Ids
  /\ desc = [i \in Ids |-> FreeDesc]
  /\ info = [i \in Ids |-> None]
  /\ status = [i \in Ids |-> TRUE]
  /\ avail = {} /\ used = <<>>
  /\ irq = FALSE /\ intr = FALSE
  /\ onDisk = [k \in Blocks |-> TRUE]
  /\ data = [b \in Bufs |-> FALSE]
  /\ bdisk = [b \in Bufs |-> FALSE]
  /\ blockno = [b \in Bufs |-> None]

RwStep(p) ==
  RwNoDesc(p) \/ RwSubmit(p) \/ RwSleepAgain(p) \/ RwFinish(p)

DeviceStep == \E h \in Ids : DeviceComplete(h)

IntrStep == IntrBegin \/ IntrEntry \/ IntrEnd
=============================================================================
