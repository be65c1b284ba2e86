-------------------------------- MODULE Pipe --------------------------------
(***************************************************************************)
(* A pipe (kernel/pipe.c): a ring of PIPESIZE bytes under pi->lock, read   *)
(* and written by threads that share its two ends, with sleep and wakeup   *)
(* on the counters nread and nwrite.  The counters are uint and wrap; the  *)
(* model takes them modulo UMOD, a multiple of PIPESIZE as 2^32 is.        *)
(*                                                                         *)
(* pi->lock is held from entry to sleep or return; only kill() interferes  *)
(* with the holder, between its look at p->killed and what follows.        *)
(* wakeup() is one step: a thread goes to sleep only with pi->lock held.   *)
(***************************************************************************)
EXTENDS Integers, Sequences, FiniteSets

CONSTANTS
  Writers, Readers,   \* the threads that hold the write end, the read end
  Bytes, None,
  PIPESIZE, UMOD,
  MaxN                \* bound on the length of a read or a write

ASSUME PipeAssumption ==
  /\ Writers # {} /\ Readers # {} /\ Writers \cap Readers = {}
  /\ None \notin Bytes /\ None \notin Writers \cup Readers
  /\ PIPESIZE \in Nat \ {0} /\ UMOD \in Nat /\ MaxN \in Nat
  /\ UMOD > PIPESIZE /\ UMOD % PIPESIZE = 0

Threads == Writers \cup Readers

VARIABLES
  data, nread, nwrite, readopen, writeopen,   \* struct pipe
  pilock,      \* the thread that holds pi->lock
  open,      \* the threads that still hold their end open
  killed,    \* p->killed
  pc, i, n,  \* of each thread: where it is, bytes done, bytes asked for
  got        \* the last byte that copyout() delivered

ring == <<data, nread, nwrite>>
ends == <<readopen, writeopen, open>>
pipeVars == <<ring, ends, pilock, killed, pc, i, n, got>>

Used == (nwrite - nread) % UMOD
Empty == nread = nwrite
\* Mutant of Full: one byte too many.
FullOneMore == nwrite = (nread + PIPESIZE + 1) % UMOD

Full == nwrite = (nread + PIPESIZE) % UMOD

Goto(t, label) == pc' = [pc EXCEPT ![t] = label]

\* t goes on to label and everybody asleep at the label from wakes up at to.
Wakeup(t, label, from, to) ==
  pc' = [u \in Threads |-> IF u = t THEN label ELSE IF pc[u] = from THEN to ELSE pc[u]]

\* wakeup(&pi->nread), wakeup(&pi->nwrite).
WakeReaders(t, label) == Wakeup(t, label, "r_asleep", "r_woken")
WakeWriters(t, label) == Wakeup(t, label, "w_asleep", "w_woken")

Release == pilock' = None

\* A call of length k begins by taking pi->lock.
Enter(t, label) ==
  /\ pc[t] = "user" /\ t \in open /\ pilock = None /\ ~killed[t]
  /\ pilock' = t
  /\ \E k \in 1 .. MaxN : n' = [n EXCEPT ![t] = k]
  /\ Goto(t, label)
  /\ UNCHANGED <<ring, ends, killed, i, got>>

\* Back in user mode the locals are gone.
Leave(t) == i' = [i EXCEPT ![t] = 0] /\ n' = [n EXCEPT ![t] = 0]

-----------------------------------------------------------------------------
(* pipewrite() *)

WriteEnter(t) == t \in Writers /\ Enter(t, "w")

WriteCheck(t) ==
  /\ pc[t] = "w" /\ i[t] < n[t]
  /\ IF ~readopen \/ killed[t]
       THEN Release /\ Leave(t) /\ Goto(t, "user")
       ELSE Goto(t, "w_go") /\ UNCHANGED <<pilock, i, n>>
  /\ UNCHANGED <<ring, ends, killed, got>>

WriteSleep(t) ==
  /\ pc[t] = "w_go" /\ Full
  /\ WakeReaders(t, "w_asleep")
  /\ Release
  /\ UNCHANGED <<ring, ends, killed, i, n, got>>

WriteByte(t) ==
  /\ pc[t] = "w_go" /\ ~Full
  /\ \E ch \in Bytes : data' = [data EXCEPT ![nwrite % PIPESIZE] = ch]
  /\ nwrite' = (nwrite + 1) % UMOD
  /\ i' = [i EXCEPT ![t] = @ + 1]
  /\ Goto(t, "w")
  /\ UNCHANGED <<nread, ends, pilock, killed, n, got>>

\* All is written, or copyin() failed.
WriteDone(t) ==
  /\ \/ pc[t] = "w" /\ i[t] = n[t]
     \/ pc[t] = "w_go" /\ ~Full
  /\ WakeReaders(t, "user")
  /\ Release /\ Leave(t)
  /\ UNCHANGED <<ring, ends, killed, got>>

-----------------------------------------------------------------------------
(* piperead() *)

ReadEnter(t) == t \in Readers /\ Enter(t, "r")

ReadCheck(t) ==
  /\ pc[t] = "r"
  /\ \/ /\ Empty /\ writeopen /\ killed[t]
        /\ Release /\ Leave(t) /\ Goto(t, "user")
     \/ /\ Empty /\ writeopen /\ ~killed[t]
        /\ Goto(t, "r_sleep") /\ UNCHANGED <<pilock, i, n>>
     \/ /\ ~Empty \/ ~writeopen
        /\ Goto(t, "r_copy") /\ UNCHANGED <<pilock, i, n>>
  /\ UNCHANGED <<ring, ends, killed, got>>

ReadSleep(t) ==
  /\ pc[t] = "r_sleep"
  /\ Goto(t, "r_asleep")
  /\ Release
  /\ UNCHANGED <<ring, ends, killed, i, n, got>>

ReadByte(t) ==
  /\ pc[t] = "r_copy" /\ i[t] < n[t] /\ ~Empty
  /\ got' = data[nread % PIPESIZE]
  /\ nread' = (nread + 1) % UMOD
  /\ i' = [i EXCEPT ![t] = @ + 1]
  /\ UNCHANGED <<data, nwrite, ends, pilock, killed, pc, n>>

\* Mutant of ReadDone: the writers are not woken.
ReadDoneQuiet(t) ==
  /\ pc[t] = "r_copy"
  /\ Goto(t, "user")
  /\ Release /\ Leave(t)
  /\ UNCHANGED <<ring, ends, killed, got>>

\* Enough is read, the pipe is empty, or copyout() failed.
ReadDone(t) ==
  /\ pc[t] = "r_copy"
  /\ WakeWriters(t, "user")
  /\ Release /\ Leave(t)
  /\ UNCHANGED <<ring, ends, killed, got>>

-----------------------------------------------------------------------------
\* The end of sleep(): take pi->lock again.
Relock(t) ==
  /\ pc[t] \in {"w_woken", "r_woken"} /\ pilock = None
  /\ pilock' = t
  /\ Goto(t, IF pc[t] = "w_woken" THEN "w" ELSE "r")
  /\ UNCHANGED <<ring, ends, killed, i, n, got>>

\* fileclose(), by close() or exit(); the last holder of an end runs pipeclose().
Close(t) ==
  /\ pc[t] = "user" /\ t \in open /\ pilock = None
  /\ open' = open \ {t}
  /\ writeopen' = (writeopen /\ open' \cap Writers # {})
  /\ readopen' = (readopen /\ open' \cap Readers # {})
  /\ IF writeopen' # writeopen THEN WakeReaders(t, "closed")
     ELSE IF readopen' # readopen THEN WakeWriters(t, "closed")
     ELSE Goto(t, "closed")
  /\ UNCHANGED <<ring, pilock, killed, i, n, got>>

Kill(t) ==
  /\ ~killed[t] /\ t \in open
  /\ killed' = [killed EXCEPT ![t] = TRUE]
  /\ pc' = [pc EXCEPT ![t] = CASE @ = "w_asleep" -> "w_woken"
                               [] @ = "r_asleep" -> "r_woken"
                               [] OTHER -> @]
  /\ UNCHANGED <<ring, ends, pilock, i, n, got>>

\* pipealloc(), the ends handed out by fork().
PipeInit ==
  /\ \E b \in Bytes : data = [k \in 0 .. PIPESIZE - 1 |-> b]
  /\ nread = 0 /\ nwrite = 0
  /\ readopen = TRUE /\ writeopen = TRUE /\ open = Threads
  /\ pilock = None
  /\ killed = [t \in Threads |-> FALSE]
  /\ pc = [t \in Threads |-> "user"]
  /\ i = [t \in Threads |-> 0] /\ n = [t \in Threads |-> 0]
  /\ got = None

InCall(t) ==
  \/ WriteCheck(t) \/ WriteSleep(t) \/ WriteByte(t) \/ WriteDone(t)
  \/ ReadCheck(t) \/ ReadSleep(t) \/ ReadByte(t) \/ ReadDone(t)
  \/ Relock(t)

PipeNext ==
  \E t \in Threads : WriteEnter(t) \/ ReadEnter(t) \/ InCall(t) \/ Close(t) \/ Kill(t)

PipeSpec == PipeInit /\ [][PipeNext]_pipeVars

-----------------------------------------------------------------------------
PipeTypeOK ==
  /\ data \in [0 .. PIPESIZE - 1 -> Bytes]
  /\ nread \in 0 .. UMOD - 1 /\ nwrite \in 0 .. UMOD - 1
  /\ readopen \in BOOLEAN /\ writeopen \in BOOLEAN
  /\ open \subseteq Threads
  /\ pilock \in Threads \cup {None}
  /\ killed \in [Threads -> BOOLEAN]
  /\ pc \in [Threads -> {"user", "closed", "w", "w_go", "w_asleep", "w_woken",
                         "r", "r_sleep", "r_asleep", "r_woken", "r_copy"}]
  /\ i \in [Threads -> 0 .. MaxN] /\ n \in [Threads -> 0 .. MaxN]
  /\ got \in Bytes \cup {None}

\* The bytes in the ring, oldest first.
Contents == [k \in 1 .. Used |-> data[(nread + k - 1) % PIPESIZE]]

(***************************************************************************)
(* A pipe is a bounded FIFO queue of bytes: across the wrap of the ring    *)
(* and of the counters no byte is lost, repeated or delivered out of       *)
(* order, also when copyin() or copyout() fails in the middle of a call.   *)
(***************************************************************************)
Queue == INSTANCE ByteQueue WITH q <- Contents, Capacity <- PIPESIZE
ImplementsByteQueue == Queue!QueueSpec

(***************************************************************************)
(* No lost wakeup for writers: with pi->lock free a writer sleeps only on  *)
(* a full pipe that still has a reader.                                    *)
(***************************************************************************)
WritersJustified ==
  pilock = None /\ (\E t \in Threads : pc[t] = "w_asleep") => Full /\ readopen

(***************************************************************************)
(* Readers: with pi->lock free a reader sleeps only while there is a       *)
(* writer, and next to bytes only when a writer was killed: pipewrite()    *)
(* then returns without the wakeup, after bytes it has written.            *)
(***************************************************************************)
ReadersJustified ==
  pilock = None /\ (\E t \in Threads : pc[t] = "r_asleep") =>
    /\ writeopen
    /\ Empty \/ \E t \in Writers : killed[t]

(***************************************************************************)
(* pipewrite() and piperead() lose no wakeup: nobody sleeps on the pipe    *)
(* for nothing.                                                            *)
(***************************************************************************)
PipeSleepersJustified == WritersJustified /\ ReadersJustified
=============================================================================
