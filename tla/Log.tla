-------------------------------- MODULE Log --------------------------------
(***************************************************************************)
(* The write-ahead log of the file system (kernel/log.c) with crashes and  *)
(* recovery, over a buffer cache that may drop any block that is not       *)
(* pinned (kernel/bio.c).                                                  *)
(*                                                                         *)
(* home, logd and hdr are on disk and survive a crash; a block write is    *)
(* atomic and synchronous (virtio_disk_rw waits for it).  The rest is      *)
(* memory.  A section under log.lock is one step, the wakeup(&log) in it   *)
(* included: a sleeper on &log goes back to the test of begin_op(), killed *)
(* or not.  A system call holds the buffer's sleeplock from bread() to     *)
(* brelse(), so reading, changing and logging a block is one step.         *)
(***************************************************************************)
EXTENDS Integers, Sequences, FiniteSets

CONSTANTS
  Threads,       \* processes that make file system calls
  Blocks, Vals,  \* the blocks of the file system and their contents
  None,          \* not in the cache
  LOGBLOCKS,     \* data blocks of the log
  MAXOPBLOCKS,   \* log space begin_op() reserves for one call
  MaxWrites      \* distinct blocks one call writes

ASSUME LogAssumption ==
  /\ None \notin Vals
  /\ LOGBLOCKS \in Nat /\ MAXOPBLOCKS \in Nat \ {0} /\ MaxWrites \in Nat
  /\ MAXOPBLOCKS <= LOGBLOCKS
  /\ MaxWrites <= MAXOPBLOCKS

VARIABLES
  home,          \* the blocks at their home location, on disk
  logd,          \* the data blocks of the log, on disk
  hdr,           \* the block numbers of the header block, on disk
  cache,         \* the buffers of home blocks, None if not cached
  pinned,        \* the blocks whose buffer log_write() pinned
  lh,            \* log.lh: the block numbers of the transaction
  outstanding,   \* log.outstanding
  committing,    \* log.committing
  tail,          \* the loop index of write_log() and install_trans()
  boot,          \* where initlog() is, "up" when it has returned
  pc,            \* where each thread is
  wrote          \* the blocks the call of each thread has written

onDisk == <<home, logd, hdr>>
inMemory == <<cache, pinned, lh, outstanding, committing, tail>>
logVars == <<onDisk, inMemory, boot, pc, wrote>>

\* What bread() returns for a block.
View(b) == IF cache[b] = None THEN home[b] ELSE cache[b]

Logged(s, b) == \E i \in 1 .. Len(s) : s[i] = b

\* wakeup(&log), with thread p going on to label.
WakeupLog(p, label) ==
  pc' = [q \in Threads |-> IF q = p THEN label
                           ELSE IF pc[q] = "asleep" THEN "begin" ELSE pc[q]]

\* A thread that panics in log_write() keeps log.lock for ever.
LockFree == \A q \in Threads : pc[q] # "panicked"

-----------------------------------------------------------------------------
SysStart(p) ==
  /\ boot = "up" /\ pc[p] = "idle"
  /\ pc' = [pc EXCEPT ![p] = "begin"]
  /\ UNCHANGED <<onDisk, inMemory, boot, wrote>>

\* Mutant of MustWait: the call that asks is not counted.
MustWaitLate == committing \/ Len(lh) + outstanding * MAXOPBLOCKS > LOGBLOCKS

MustWait == committing \/ Len(lh) + (outstanding + 1) * MAXOPBLOCKS > LOGBLOCKS

BeginOp(p) ==
  /\ pc[p] = "begin" /\ LockFree
  /\ IF MustWait
       THEN pc' = [pc EXCEPT ![p] = "asleep"] /\ UNCHANGED outstanding
       ELSE pc' = [pc EXCEPT ![p] = "op"] /\ outstanding' = outstanding + 1
  /\ UNCHANGED <<onDisk, cache, pinned, lh, committing, tail, boot, wrote>>

\* bread(), change the data, log_write(), brelse().
LogWrite(p, b, v) ==
  /\ pc[p] = "op" /\ LockFree
  /\ Cardinality(wrote[p] \cup {b}) <= MaxWrites
  /\ Len(lh) < LOGBLOCKS /\ outstanding >= 1
  /\ cache' = [cache EXCEPT ![b] = v]
  /\ wrote' = [wrote EXCEPT ![p] = @ \cup {b}]
  /\ IF Logged(lh, b)
       THEN UNCHANGED <<lh, pinned>>
       ELSE lh' = Append(lh, b) /\ pinned' = pinned \cup {b}
  /\ UNCHANGED <<onDisk, outstanding, committing, tail, boot, pc>>

\* log_write() panics when the log is full, also for a block that is in it
\* already, and when no call is outstanding.  The buffer stays locked, so that
\* nobody sees what was changed in it.
LogWritePanic(p, b) ==
  /\ pc[p] = "op" /\ LockFree
  /\ Cardinality(wrote[p] \cup {b}) <= MaxWrites
  /\ Len(lh) >= LOGBLOCKS \/ outstanding < 1
  /\ pc' = [pc EXCEPT ![p] = "panicked"]
  /\ UNCHANGED <<onDisk, inMemory, boot, wrote>>

\* Mutant of EndOp: the waiters are not woken while other calls are left.
EndOpQuiet(p) ==
  /\ pc[p] = "op" /\ LockFree /\ ~committing
  /\ outstanding' = outstanding - 1
  /\ wrote' = [wrote EXCEPT ![p] = {}]
  /\ IF outstanding = 1
       THEN /\ committing' = TRUE
            /\ pc' = [pc EXCEPT ![p] = IF lh = <<>> THEN "committed" ELSE "write_log"]
            /\ tail' = 1
       ELSE /\ pc' = [pc EXCEPT ![p] = "idle"]
            /\ UNCHANGED <<committing, tail>>
  /\ UNCHANGED <<onDisk, cache, pinned, lh, boot>>

\* Mutant of EndOp: the last call does not commit.
EndOpUncommitted(p) ==
  /\ pc[p] = "op" /\ LockFree /\ ~committing
  /\ outstanding' = outstanding - 1
  /\ wrote' = [wrote EXCEPT ![p] = {}]
  /\ IF outstanding = 1
       THEN /\ committing' = TRUE
            /\ pc' = [pc EXCEPT ![p] = "committed"]
            /\ tail' = 1
       ELSE /\ WakeupLog(p, "idle")
            /\ UNCHANGED <<committing, tail>>
  /\ UNCHANGED <<onDisk, cache, pinned, lh, boot>>

\* end_op() up to the call of commit().  It would panic during a commit: see
\* ReservationSuffices.
EndOp(p) ==
  /\ pc[p] = "op" /\ LockFree /\ ~committing
  /\ outstanding' = outstanding - 1
  /\ wrote' = [wrote EXCEPT ![p] = {}]
  /\ IF outstanding = 1
       THEN /\ committing' = TRUE
            /\ pc' = [pc EXCEPT ![p] = IF lh = <<>> THEN "committed" ELSE "write_log"]
            /\ tail' = 1
       ELSE /\ WakeupLog(p, "idle")
            /\ UNCHANGED <<committing, tail>>
  /\ UNCHANGED <<onDisk, cache, pinned, lh, boot>>

\* Mutant of WriteLog: the header is written before the blocks.
WriteLogAfterHead(p) ==
  /\ pc[p] = "write_log"
  /\ logd' = [logd EXCEPT ![tail] = View(lh[tail])]
  /\ hdr' = lh
  /\ IF tail = Len(lh)
       THEN pc' = [pc EXCEPT ![p] = "install"] /\ tail' = 1
       ELSE tail' = tail + 1 /\ UNCHANGED pc
  /\ UNCHANGED <<home, cache, pinned, lh, outstanding, committing, boot, wrote>>

\* One block of write_log().
WriteLog(p) ==
  /\ pc[p] = "write_log"
  /\ logd' = [logd EXCEPT ![tail] = View(lh[tail])]
  /\ IF tail = Len(lh)
       THEN pc' = [pc EXCEPT ![p] = "write_head"] /\ tail' = 1
       ELSE tail' = tail + 1 /\ UNCHANGED pc
  /\ UNCHANGED <<home, hdr, cache, pinned, lh, outstanding, committing, boot, wrote>>

\* The first write_head(): the transaction commits.
WriteHead(p) ==
  /\ pc[p] = "write_head"
  /\ hdr' = lh
  /\ pc' = [pc EXCEPT ![p] = "install"]
  /\ UNCHANGED <<home, logd, inMemory, boot, wrote>>

\* One block of install_trans(): to the buffer of the home block and to disk.
InstallBlock ==
  /\ home' = [home EXCEPT ![lh[tail]] = logd[tail]]
  /\ cache' = [cache EXCEPT ![lh[tail]] = logd[tail]]

InstallTrans(p) ==
  /\ pc[p] = "install"
  /\ InstallBlock
  /\ pinned' = pinned \ {lh[tail]}
  /\ IF tail = Len(lh)
       THEN pc' = [pc EXCEPT ![p] = "clear"] /\ tail' = 1
       ELSE tail' = tail + 1 /\ UNCHANGED pc
  /\ UNCHANGED <<logd, hdr, lh, outstanding, committing, boot, wrote>>

\* log.lh.n = 0 and the second write_head().
ClearLog(p) ==
  /\ pc[p] = "clear"
  /\ lh' = <<>> /\ hdr' = <<>>
  /\ pc' = [pc EXCEPT ![p] = "committed"]
  /\ UNCHANGED <<home, logd, cache, pinned, outstanding, committing, tail, boot, wrote>>

\* Mutant of CommitDone: committing is not reset.
CommitDoneStuck(p) ==
  /\ pc[p] = "committed" /\ LockFree
  /\ WakeupLog(p, "idle")
  /\ UNCHANGED <<onDisk, cache, pinned, lh, committing, outstanding, tail, boot, wrote>>

\* end_op() after commit().
CommitDone(p) ==
  /\ pc[p] = "committed" /\ LockFree
  /\ committing' = FALSE
  /\ WakeupLog(p, "idle")
  /\ UNCHANGED <<onDisk, cache, pinned, lh, outstanding, tail, boot, wrote>>

\* bget() recycles the buffer of a block that nobody uses.
Evict(b) ==
  /\ boot = "up" /\ b \notin pinned
  /\ cache' = [cache EXCEPT ![b] = None]
  /\ UNCHANGED <<onDisk, pinned, lh, outstanding, committing, tail, boot, pc, wrote>>

-----------------------------------------------------------------------------
\* Power fails, at any moment: memory is lost.
Crash ==
  /\ boot' = "read_head"
  /\ cache' = [b \in Blocks |-> None] /\ pinned' = {}
  /\ lh' = <<>> /\ outstanding' = 0 /\ committing' = FALSE /\ tail' = 1
  /\ pc' = [p \in Threads |-> "idle"]
  /\ wrote' = [p \in Threads |-> {}]
  /\ UNCHANGED onDisk

\* recover_from_log(), before any file system call.
ReadHead ==
  /\ boot = "read_head"
  /\ lh' = hdr
  /\ boot' = IF hdr = <<>> THEN "clear" ELSE "install"
  /\ UNCHANGED <<onDisk, cache, pinned, outstanding, committing, tail, pc, wrote>>

RecoverBlock ==
  /\ boot = "install"
  /\ InstallBlock
  /\ IF tail = Len(lh)
       THEN boot' = "clear" /\ tail' = 1
       ELSE tail' = tail + 1 /\ UNCHANGED boot
  /\ UNCHANGED <<logd, hdr, pinned, lh, outstanding, committing, pc, wrote>>

RecoverClear ==
  /\ boot = "clear"
  /\ lh' = <<>> /\ hdr' = <<>>
  /\ boot' = "up"
  /\ UNCHANGED <<home, logd, cache, pinned, outstanding, committing, tail, pc, wrote>>

-----------------------------------------------------------------------------
\* A disk as mkfs leaves it, before the first boot.
LogInit ==
  /\ home \in [Blocks -> Vals]
  /\ \E v \in Vals : logd = [i \in 1 .. LOGBLOCKS |-> v]
  /\ hdr = <<>>
  /\ cache = [b \in Blocks |-> None] /\ pinned = {}
  /\ lh = <<>> /\ outstanding = 0 /\ committing = FALSE /\ tail = 1
  /\ boot = "read_head"
  /\ pc = [p \in Threads |-> "idle"]
  /\ wrote = [p \in Threads |-> {}]

\* The steps of begin_op(), commit() and the end of end_op().
LogStep(p) ==
  \/ BeginOp(p)
  \/ WriteLog(p) \/ WriteHead(p) \/ InstallTrans(p) \/ ClearLog(p) \/ CommitDone(p)

Recover == ReadHead \/ RecoverBlock \/ RecoverClear

LogNext ==
  \/ \E p \in Threads :
       \/ SysStart(p) \/ EndOp(p) \/ LogStep(p)
       \/ \E b \in Blocks, v \in Vals : LogWrite(p, b, v)
       \/ \E b \in Blocks : LogWritePanic(p, b)
  \/ \E b \in Blocks : Evict(b)
  \/ Crash \/ Recover

LogSpec == LogInit /\ [][LogNext]_logVars

\* A thread inside begin_op() or commit() keeps running: those wait for the disk
\* and for log.lock only.  Nothing is assumed of the call between begin_op() and
\* end_op(), which may sleep in kalloc() for as long as there is no memory.
FairLog == LogSpec /\ \A p \in Threads : WF_logVars(LogStep(p))

-----------------------------------------------------------------------------
LogTypeOK ==
  /\ home \in [Blocks -> Vals]
  /\ logd \in [1 .. LOGBLOCKS -> Vals]
  /\ hdr \in Seq(Blocks) /\ lh \in Seq(Blocks)
  /\ cache \in [Blocks -> Vals \cup {None}]
  /\ pinned \subseteq Blocks
  /\ outstanding \in Nat /\ committing \in BOOLEAN
  /\ tail \in 1 .. LOGBLOCKS
  /\ boot \in {"read_head", "install", "clear", "up"}
  /\ pc \in [Threads -> {"idle", "begin", "asleep", "op", "panicked", "write_log",
                         "write_head", "install", "clear", "committed"}]
  /\ wrote \in [Threads -> SUBSET Blocks]

(***************************************************************************)
(* The space begin_op() reserves is enough: log_write() panics with "too   *)
(* big a transaction" only in a call that has MAXOPBLOCKS blocks in the    *)
(* log already, all that was reserved for it, and writes one of them once  *)
(* more; whatever the other calls write.  A call under way is counted      *)
(* ("log_write outside of trans") and nobody commits meanwhile             *)
(* ("log.committing").                                                     *)
(***************************************************************************)
ReservationSuffices ==
  /\ \A p \in Threads : pc[p] = "panicked" => Cardinality(wrote[p]) = MAXOPBLOCKS
  /\ \A p \in Threads : pc[p] = "op" => outstanding >= 1 /\ ~committing

(***************************************************************************)
(* No lost wakeup in begin_op(): a thread sleeps on &log only while a      *)
(* commit runs or the log space is reserved.                               *)
(***************************************************************************)
WaitersJustified == (\E p \in Threads : pc[p] = "asleep") => MustWait

(***************************************************************************)
(* A changed block stays in the cache until it is installed: what the log  *)
(* has not written home yet is pinned.                                     *)
(***************************************************************************)
DirtyPinned == \A b \in Blocks : cache[b] \notin {None, home[b]} => b \in pinned

\* The value that a crash now would leave in block b.
AfterRecovery(b) ==
  IF Logged(hdr, b) THEN logd[CHOOSE i \in 1 .. Len(hdr) : hdr[i] = b] ELSE home[b]

(***************************************************************************)
(* The log implements a disk with atomic transactions: every crash, also   *)
(* one inside commit() or inside the recovery from an earlier crash,       *)
(* leaves the blocks as they were at the last commit.                      *)
(***************************************************************************)
Disk == INSTANCE AtomicDisk WITH
  durable <- [b \in Blocks |-> AfterRecovery(b)],
  current <- [b \in Blocks |-> IF boot = "up" THEN View(b) ELSE AfterRecovery(b)],
  active <- outstanding
ImplementsAtomicDisk == Disk!DiskSpec

(***************************************************************************)
(* Once the last call has returned from end_op(), its transaction and all  *)
(* it was grouped with survive a crash.                                    *)
(***************************************************************************)
QuietIsDurable ==
  boot = "up" /\ outstanding = 0 /\ ~committing =>
    lh = <<>> /\ \A b \in Blocks : AfterRecovery(b) = View(b)

(***************************************************************************)
(* Waiting for log space ends: as long as no call stays between begin_op() *)
(* and end_op() for ever, a thread asleep in begin_op() is woken.          *)
(***************************************************************************)
LogWaitEnds ==
  (\A p \in Threads : []<>(pc[p] \notin {"op", "panicked"})) =>
    \A p \in Threads : pc[p] = "asleep" ~> pc[p] # "asleep"
=============================================================================
