--------------------------------- MODULE Bio ---------------------------------
(***************************************************************************)
(* The buffer cache (kernel/bio.c) and its sleep-locks (sleeplock.c) over  *)
(* the disk driver.  Each process reads blocks and does with a buffer it   *)
(* has locked what the kernel does: release it, write it (the log's own    *)
(* blocks), change and pin it (log_write), or write it home and unpin it   *)
(* (install_trans).  A section under bcache.lock or lk->lk is one action.  *)
(***************************************************************************)
EXTENDS Virtio, TLC

CONSTANT MaxPins     \* bound on the buffers the log keeps pinned

ASSUME BioAssumption == MaxPins \in Nat

VARIABLES
  valid, refcnt, locked,   \* struct buf; locked is the holder of b->lock
  lru,                     \* the list from head.next to head.prev
  pinned                   \* the buffers that are in log.lh

bufState == <<valid, refcnt, locked, lru, pinned>>
bioVars == <<virtioVars, bufState>>

driver == <<ring, device, chains, intr, bdisk, idx>>

Buf(p) == req[p].buf

-----------------------------------------------------------------------------
(* bget() *)

BgetHit(p, k) ==
  /\ pc[p] = "idle"
  /\ \E b \in Bufs :
       /\ blockno[b] = k
       /\ refcnt' = [refcnt EXCEPT ![b] = @ + 1]
       /\ req' = [req EXCEPT ![p] = [buf |-> b, write |-> FALSE]]
  /\ Goto(p, "lock")
  /\ UNCHANGED <<driver, data, blockno, valid, locked, lru, pinned>>

Cached(k) == \E i \in 1 .. NBUF : blockno[lru[i]] = k

\* The last buffer of the list that nobody uses.
LeastRecentlyUsed(b) ==
  \E i \in 1 .. NBUF :
    /\ lru[i] = b /\ refcnt[b] = 0
    /\ \A j \in i + 1 .. NBUF : refcnt[lru[j]] # 0

\* Mutant of BgetMiss: the recycled buffer stays valid.
BgetMissValid(p, k) ==
  /\ pc[p] = "idle" /\ ~Cached(k)
  /\ \E b \in Bufs :
       /\ LeastRecentlyUsed(b)
       /\ blockno' = [blockno EXCEPT ![b] = k]
       /\ refcnt' = [refcnt EXCEPT ![b] = 1]
       /\ data' = [data EXCEPT ![b] = FALSE]
       /\ req' = [req EXCEPT ![p] = [buf |-> b, write |-> FALSE]]
  /\ Goto(p, "lock")
  /\ UNCHANGED <<driver, valid, locked, lru, pinned>>

\* Recycle; what the buffer holds is not the content of its new block.
\* With every buffer in use bget() panics; here such a call is not made.
BgetMiss(p, k) ==
  /\ pc[p] = "idle" /\ ~Cached(k)
  /\ \E b \in Bufs :
       /\ LeastRecentlyUsed(b)
       /\ blockno' = [blockno EXCEPT ![b] = k]
       /\ valid' = [valid EXCEPT ![b] = FALSE]
       /\ refcnt' = [refcnt EXCEPT ![b] = 1]
       /\ data' = [data EXCEPT ![b] = FALSE]
       /\ req' = [req EXCEPT ![p] = [buf |-> b, write |-> FALSE]]
  /\ Goto(p, "lock")
  /\ UNCHANGED <<driver, locked, lru, pinned>>

\* acquiresleep(&b->lock), and the test of b->valid in bread().
AcquireSleep(p) ==
  /\ pc[p] = "lock"
  /\ IF locked[Buf(p)] # None
       THEN Goto(p, "lock_asleep") /\ UNCHANGED locked
       ELSE /\ locked' = [locked EXCEPT ![Buf(p)] = p]
            /\ Goto(p, IF valid[Buf(p)] THEN "have" ELSE "rw")
  /\ UNCHANGED <<driver, data, blockno, req, valid, refcnt, lru, pinned>>

\* A block of the log has no pin to give back.
Bunpin(b) ==
  /\ pinned' = pinned \ {b}
  /\ refcnt' = IF b \in pinned THEN [refcnt EXCEPT ![b] = @ - 1] ELSE refcnt

\* virtio_disk_rw() returns to bread() or to bwrite().
RwReturn(p) ==
  /\ pc[p] = "rw_ret"
  /\ IF req[p].write
       THEN Bunpin(Buf(p)) /\ Goto(p, "release") /\ UNCHANGED valid
       ELSE /\ valid' = [valid EXCEPT ![Buf(p)] = TRUE]
            /\ Goto(p, "have") /\ UNCHANGED <<pinned, refcnt>>
  /\ UNCHANGED <<driver, data, blockno, req, locked, lru>>

-----------------------------------------------------------------------------
(* What a process does with a locked buffer. *)

\* bwrite(): new content for a block that is not in the log, or, with the
\* unpin when the write is done, the pinned content goes home.
Bwrite(p) ==
  /\ pc[p] = "have"
  /\ LET k == blockno[Buf(p)] IN
       IF Buf(p) \in pinned THEN UNCHANGED <<onDisk, data>>
       ELSE /\ onDisk' = [onDisk EXCEPT ![k] = FALSE]
            /\ data' = [data EXCEPT ![Buf(p)] = TRUE]
  /\ req' = [req EXCEPT ![p] = [buf |-> Buf(p), write |-> TRUE]]
  /\ Goto(p, "rw")
  /\ UNCHANGED <<ring, irq, chains, intr, bdisk, idx, blockno, bufState>>

\* Change the buffer and log_write() it: bpin() when it is new in log.lh.
ChangeAndPin(p) ==
  /\ pc[p] = "have"
  /\ Buf(p) \in pinned \/ Cardinality(pinned) < MaxPins
  /\ onDisk' = [onDisk EXCEPT ![blockno[Buf(p)]] = FALSE]
  /\ data' = [data EXCEPT ![Buf(p)] = TRUE]
  /\ pinned' = pinned \cup {Buf(p)}
  /\ refcnt' = IF Buf(p) \in pinned THEN refcnt ELSE [refcnt EXCEPT ![Buf(p)] = @ + 1]
  /\ Goto(p, "release")
  /\ UNCHANGED <<ring, irq, chains, intr, bdisk, idx, blockno, req,
                 valid, locked, lru>>

-----------------------------------------------------------------------------
(* brelse() *)

ReleaseSleep(p) ==
  /\ pc[p] \in {"have", "release"}
  /\ locked' = [locked EXCEPT ![Buf(p)] = None]
  /\ pc' = [q \in Procs |-> IF q = p THEN "unref"
              ELSE IF pc[q] = "lock_asleep" /\ Buf(q) = Buf(p) THEN "lock" ELSE pc[q]]
  /\ UNCHANGED <<driver, data, blockno, req, valid, refcnt, lru, pinned>>

\* The buffer at place i goes to the front of the list.
MoveToFront(i) ==
  [j \in 1 .. NBUF |-> IF j = 1 THEN lru[i] ELSE IF j <= i THEN lru[j - 1] ELSE lru[j]]

BrelseUnref(p) ==
  /\ pc[p] = "unref"
  /\ refcnt' = [refcnt EXCEPT ![Buf(p)] = @ - 1]
  /\ IF refcnt[Buf(p)] = 1
       THEN \E i \in 1 .. NBUF : lru[i] = Buf(p) /\ lru' = MoveToFront(i)
       ELSE UNCHANGED lru
  /\ req' = [req EXCEPT ![p] = [buf |-> None, write |-> FALSE]]
  /\ Goto(p, "idle")
  /\ UNCHANGED <<driver, data, blockno, valid, locked, pinned>>

\* kkill() makes a sleeping process runnable; every sleep here is in a loop
\* that does not look at p->killed.
KillWakes(p) ==
  /\ \E from, to \in {"lock_asleep", "lock", "desc_asleep", "rw", "rw_asleep", "rw_woken"} :
       /\ <<from, to>> \in {<<"lock_asleep", "lock">>, <<"desc_asleep", "rw">>,
                            <<"rw_asleep", "rw_woken">>}
       /\ pc[p] = from
       /\ Goto(p, to)
  /\ UNCHANGED <<driver, data, blockno, req, bufState>>

-----------------------------------------------------------------------------
BioInit ==
  /\ VirtioInit
  /\ pc = [p \in Procs |-> "idle"]
  /\ req = [p \in Procs |-> [buf |-> None, write |-> FALSE]]
  /\ idx = [p \in Procs |-> <<>>]
  /\ valid = [b \in Bufs |-> FALSE]
  /\ refcnt = [b \in Bufs |-> 0]
  /\ locked = [b \in Bufs |-> None]
  /\ pinned = {}
  /\ lru = [i \in 1 .. NBUF |-> NBUF + 1 - i]

Finish(p) ==
  \/ RwStep(p) /\ UNCHANGED bufState
  \/ AcquireSleep(p) \/ RwReturn(p) \/ BrelseUnref(p)

Use(p) == ReleaseSleep(p) \/ Bwrite(p) \/ ChangeAndPin(p)

BioNext ==
  \/ \E p \in Procs : Finish(p) \/ Use(p) \/ KillWakes(p)
  \/ \E p \in Procs, k \in Blocks : BgetHit(p, k) \/ BgetMiss(p, k)
  \/ (DeviceStep \/ IntrStep) /\ UNCHANGED bufState

BioSpec == BioInit /\ [][BioNext]_bioVars

-----------------------------------------------------------------------------
(***************************************************************************)
(* Types: the rings hold heads, the list is a permutation of the buffers,  *)
(* a process has descriptors only inside virtio_disk_rw().                 *)
(***************************************************************************)
BioTypeOK ==
  /\ avail \in SUBSET Ids /\ used \in Seq(Ids)
  /\ free \in SUBSET Ids
  /\ lru \in [1 .. NBUF -> Bufs] /\ \A b \in Bufs : \E i \in 1 .. NBUF : lru[i] = b
  /\ refcnt \in [Bufs -> 0 .. Cardinality(Procs) + 1]
  /\ pinned \in SUBSET Bufs
  /\ \A p \in Procs : idx[p] \in {<<>>} \cup (Ids \X Ids \X Ids)

(***************************************************************************)
(* bget() looks for the block and recycles a buffer in one section under   *)
(* bcache.lock: there are never two buffers for one block, so processes    *)
(* that use the same block meet at the same sleep-lock.                    *)
(***************************************************************************)
OneBufferPerBlock ==
  \A b, c \in Bufs : b # c /\ blockno[b] # None => blockno[b] # blockno[c]

(***************************************************************************)
(* Whoever has a buffer from bread() alone holds it, and it holds what was *)
(* last given to its block: by the device, by another process, or by a     *)
(* change that is only in the pinned buffer so far.                        *)
(***************************************************************************)
HolderSeesLatest ==
  \A p \in Procs : pc[p] = "have" => data[Buf(p)] /\ locked[Buf(p)] = p

\* The descriptors of p's request.
Taken(p) == IF idx[p] = <<>> THEN {} ELSE {idx[p][1], idx[p][2], idx[p][3]}

(***************************************************************************)
(* Every descriptor is free or in the chain of exactly one request; so the *)
(* panics of free_desc() are out of reach and no descriptor leaks.         *)
(***************************************************************************)
DescriptorsAccounted ==
  /\ \A p, q \in Procs : p # q => Taken(p) \cap Taken(q) = {}
  /\ \A p \in Procs : idx[p] # <<>> => Taken(p) = Chain(idx[p][1])
  /\ free = {i \in Ids : \A p \in Procs : i \notin Taken(p)}

\* The head of p's chain is on its way: with the device or
\* in the used ring with an interrupt raised or being handled.
InFlight(p) ==
  LET h == idx[p][1] IN
  \/ h \in avail
  \/ (\E n \in 1 .. Len(used) : used[n] = h) /\ (irq \/ intr)

(***************************************************************************)
(* No wakeup is lost.  Who sleeps on a buffer's lock sleeps while somebody *)
(* has it; who sleeps on &disk.free[0] does so while descriptors are short *)
(* and a request ahead will free some; who sleeps on b has a request that  *)
(* the device will finish or an interrupt will report.                     *)
(***************************************************************************)
BioSleepersJustified ==
  \A p \in Procs :
    /\ pc[p] = "lock_asleep" => locked[Buf(p)] # None
    /\ pc[p] = "desc_asleep" => /\ Cardinality(free) < 3
                                /\ \E q \in Procs : pc[q] \in {"rw_asleep", "rw_woken"}
    /\ pc[p] = "rw_asleep" => bdisk[Buf(p)] /\ InFlight(p)

(***************************************************************************)
(* A buffer has exactly the references of the processes between bget() and *)
(* the end of brelse() on it and of the log: none is recycled in use, none *)
(* leaks, so panic("bget: no buffers") needs as many users as buffers.     *)
(***************************************************************************)
ReferencesExact ==
  \A b \in Bufs :
    refcnt[b] = Cardinality({p \in Procs : Buf(p) = b}) + (IF b \in pinned THEN 1 ELSE 0)

(***************************************************************************)
(* The books of the cache and of the driver are right: bget() never makes  *)
(* a second buffer for a block, bget(), brelse(), bpin() and bunpin()      *)
(* count every reference, alloc3_desc() and free_chain() every descriptor. *)
(***************************************************************************)
CacheAccounted == BioTypeOK /\ OneBufferPerBlock /\ ReferencesExact /\ DescriptorsAccounted

\* Processes and blocks are interchangeable.
BioSymmetry == Permutations(Procs) \cup Permutations(Blocks)
=============================================================================
