------------------------------- MODULE Console -------------------------------
(***************************************************************************)
(* The console (kernel/console.c) over the UART (kernel/uart.c): line      *)
(* editing by the interrupt handler, read() and write() by processes, and  *)
(* the kernel's printf() on another CPU, which shares the transmitter      *)
(* without tx_lock.                                                        *)
(*                                                                         *)
(* Indices are unsigned and wrap at UINT, a multiple of the buffer size.   *)
(* cons.lock is a variable because echoing under it takes several steps;   *)
(* sections under tx_lock are single steps.                                *)
(***************************************************************************)
EXTENDS Naturals, Sequences

CONSTANTS
  Procs, Nobody,
  SIZE,       \* INPUT_BUF_SIZE
  UINT,       \* the indices count modulo UINT
  BATCH,      \* consolewrite()'s buffer
  Lens,       \* bound: lengths of reads and writes
  MaxRx,      \* bound: characters received and not read yet
  Scenes      \* bound: the keys typed, the calls made and whether the kernel
              \* prints, together in one behaviour

\* The characters that are stored, and what can be typed.
Stored == {"x", "nl", "eof"}
Keys == Stored \cup {"kill", "erase", "dump"}

ASSUME ConsoleAssumption ==
  /\ Nobody \notin Procs /\ "intr" \notin Procs /\ Nobody # "intr"
  /\ SIZE \in Nat \ {0} /\ UINT \in Nat /\ UINT > SIZE /\ UINT % SIZE = 0
  /\ BATCH \in Nat \ {0} /\ Lens \subseteq Nat \ {0}
  /\ \A s \in Scenes : s.keys \subseteq Keys /\ s.calls \subseteq {"acquire", "copyin"}

VARIABLES
  buf, r, w, e,  \* cons
  lock,     \* the holder of cons.lock: a process, "intr" or None
  killedProcs,   \* the processes with p->killed set
  loc,      \* where every process is
  tx_busy,
  thr,      \* device: characters in the transmit FIFO
  rx,       \* device: characters received, not read yet
  irq,      \* device: an interrupt is pending
  intr,     \* where uartintr() is
  pr,       \* printf(): "free", or what the holder of pr.lock does
  scene     \* the scene, which never changes

cons == <<buf, r, w, e>>
vars == <<buf, r, w, e, lock, killedProcs, loc, tx_busy, thr, rx, irq, intr, pr, scene>>

Idle == [pc |-> "idle", n |-> 0, target |-> 0]
Inc(k) == (k + 1) % UINT
Dec(k) == (k + UINT - 1) % UINT
Distance(from, to) == (to + UINT - from) % UINT

-----------------------------------------------------------------------------
(* The device.                                                             *)

Type(c) ==
  /\ Len(rx) < MaxRx
  /\ rx' = Append(rx, c) /\ irq' = TRUE
  /\ UNCHANGED <<cons, lock, killedProcs, loc, tx_busy, thr, intr, pr, scene>>

\* A character leaves; the transmitter interrupts when none is left.
Transmit ==
  /\ thr > 0 /\ thr' = thr - 1
  /\ irq' = (irq \/ thr = 1)
  /\ UNCHANGED <<cons, lock, killedProcs, loc, tx_busy, rx, intr, pr, scene>>

-----------------------------------------------------------------------------
(* uartintr() and consoleintr().                                           *)

IntrAck ==
  /\ intr = "off" /\ irq
  /\ irq' = FALSE /\ intr' = "tx"
  /\ UNCHANGED <<cons, lock, killedProcs, loc, tx_busy, thr, rx, pr, scene>>

Wake(pc, to) == [p \in Procs |-> IF loc[p].pc = pc THEN [loc[p] EXCEPT !.pc = to] ELSE loc[p]]

\* Mutant of IntrTx: the sleepers are not woken when the handler also has input.
IntrTxInput ==
  /\ intr = "tx" /\ intr' = "rx"
  /\ IF thr = 0 /\ rx = <<>>
     THEN tx_busy' = FALSE /\ loc' = Wake("tx_asleep", "write")
     ELSE UNCHANGED <<tx_busy, loc>>
  /\ UNCHANGED <<cons, lock, killedProcs, thr, rx, irq, pr, scene>>

\* With the transmitter idle, tx_busy is cleared and the writers are woken.
IntrTx ==
  /\ intr = "tx" /\ intr' = "rx"
  /\ IF thr = 0
     THEN tx_busy' = FALSE /\ loc' = Wake("tx_asleep", "write")
     ELSE UNCHANGED <<tx_busy, loc>>
  /\ UNCHANGED <<cons, lock, killedProcs, thr, rx, irq, pr, scene>>

\* consoleintr() prints one or more characters before it releases cons.lock.
Echo == lock' = "intr" /\ intr' = "spin"

\* ^U erases back to the last line end, or to what is finished.
KillTo == CHOOSE k \in {(w + d) % UINT : d \in 0 .. Distance(w, e)} :
            /\ k = w \/ buf[Dec(k) % SIZE] = "nl"
            /\ \A d \in 1 .. Distance(k, e) : buf[((k + d - 1) % UINT) % SIZE] # "nl"

\* Backspace erases the last character of the unfinished line.
EraseTo == IF e = w THEN e ELSE Dec(e)

\* Mutant of Store: the line is finished only by its last character.
StoreOpen(c) ==
  /\ buf' = [buf EXCEPT ![e % SIZE] = c]
  /\ e' = Inc(e)
  /\ IF c \in {"nl", "eof"}
     THEN w' = e' /\ loc' = Wake("asleep", "acquire") ELSE UNCHANGED <<w, loc>>
  /\ UNCHANGED r

\* A character is stored; a line end, ^D or a full buffer finishes the line.
Store(c) ==
  /\ buf' = [buf EXCEPT ![e % SIZE] = c]
  /\ e' = Inc(e)
  /\ IF c \in {"nl", "eof"} \/ Distance(r, e') = SIZE
     THEN w' = e' /\ loc' = Wake("asleep", "acquire") ELSE UNCHANGED <<w, loc>>
  /\ UNCHANGED r

\* The next character, if there is one, handled by consoleintr().
IntrRx ==
  /\ intr = "rx"
  /\ \/ rx = <<>> /\ intr' = "off"
        /\ UNCHANGED <<cons, lock, loc, rx, pr>>
     \/ /\ rx # <<>> /\ lock = Nobody /\ rx' = Tail(rx)
        /\ LET c == Head(rx) IN
             CASE c = "dump" -> /\ pr = "free" /\ pr' = "intr"
                                /\ Echo /\ UNCHANGED <<cons, loc>>
               [] c = "kill" -> /\ e' = KillTo
                                /\ IF KillTo = e THEN UNCHANGED <<lock, intr>> ELSE Echo
                                /\ UNCHANGED <<buf, r, w, loc, pr>>
               [] c = "erase" -> /\ e' = EraseTo
                                 /\ IF EraseTo = e THEN UNCHANGED <<lock, intr>> ELSE Echo
                                 /\ UNCHANGED <<buf, r, w, loc, pr>>
               [] OTHER -> /\ IF Distance(r, e) < SIZE THEN Store(c) /\ Echo
                              ELSE UNCHANGED <<cons, lock, loc, intr>>
                           /\ UNCHANGED pr
  /\ UNCHANGED <<killedProcs, tx_busy, thr, irq, scene>>

\* uartputc_sync() by the handler: it spins until the transmitter is idle,
\* then writes; after the last character cons.lock is released.
IntrSpin ==
  /\ intr = "spin" /\ thr = 0 /\ intr' = "put"
  /\ UNCHANGED <<cons, lock, killedProcs, loc, tx_busy, thr, rx, irq, pr, scene>>

IntrPut ==
  /\ intr = "put" /\ thr' = thr + 1
  /\ \/ intr' = "spin" /\ UNCHANGED <<lock, pr>>
     \/ intr' = "rx" /\ lock' = Nobody /\ pr' = IF pr = "intr" THEN "free" ELSE pr
  /\ UNCHANGED <<cons, killedProcs, loc, tx_busy, rx, irq, scene>>

-----------------------------------------------------------------------------
(* The kernel's printf(), under pr.lock.                                   *)

PrintfBegin ==
  /\ scene.prints /\ pr = "free" /\ pr' = "spin"
  /\ UNCHANGED <<cons, lock, killedProcs, loc, tx_busy, thr, rx, irq, intr, scene>>

\* Mutant of PrintfSpin: the transmitter is not waited for.
PrintfSpinNot ==
  /\ pr = "spin" /\ pr' = "put"
  /\ UNCHANGED <<cons, lock, killedProcs, loc, tx_busy, thr, rx, irq, intr, scene>>

PrintfSpin ==
  /\ pr = "spin" /\ thr = 0 /\ pr' = "put"
  /\ UNCHANGED <<cons, lock, killedProcs, loc, tx_busy, thr, rx, irq, intr, scene>>

\* The last character releases pr.lock.
PrintfPut ==
  /\ pr = "put" /\ thr' = thr + 1
  /\ pr' \in {"spin", "free"}
  /\ UNCHANGED <<cons, lock, killedProcs, loc, tx_busy, rx, irq, intr, scene>>

-----------------------------------------------------------------------------
(* System calls.                                                           *)

Call(p) ==
  /\ loc[p].pc = "idle" /\ p \notin killedProcs
  /\ \E n \in Lens, pc \in scene.calls :
       loc' = [loc EXCEPT ![p] = [pc |-> pc, n |-> n, target |-> n]]
  /\ UNCHANGED <<cons, lock, killedProcs, tx_busy, thr, rx, irq, intr, pr, scene>>

\* kill(): a sleeper becomes runnable.
Kkill(p) ==
  /\ p \notin killedProcs /\ killedProcs' = killedProcs \cup {p}
  /\ loc' = [loc EXCEPT ![p].pc = CASE @ = "asleep" -> "acquire"
                                    [] @ = "tx_asleep" -> "write"
                                    [] OTHER -> @]
  /\ UNCHANGED <<cons, lock, tx_busy, thr, rx, irq, intr, pr, scene>>

\* acquire(&cons.lock), on entry and when sleep() returns.
ReadAcquire(p) ==
  /\ loc[p].pc = "acquire" /\ lock = Nobody
  /\ lock' = p /\ loc' = [loc EXCEPT ![p].pc = "read"]
  /\ UNCHANGED <<cons, killedProcs, tx_busy, thr, rx, irq, intr, pr, scene>>

ReadReturn(p) == lock' = Nobody /\ loc' = [loc EXCEPT ![p] = Idle]

\* Nothing to read: -1 for a killed process; the others go on to sleep().
ReadEmpty(p) ==
  /\ loc[p].pc = "read" /\ r = w
  /\ \/ p \in killedProcs /\ ReadReturn(p)
     \/ p \notin killedProcs /\ loc' = [loc EXCEPT ![p].pc = "checked"] /\ UNCHANGED lock
  /\ UNCHANGED <<cons, killedProcs, tx_busy, thr, rx, irq, intr, pr, scene>>

\* sleep() releases cons.lock as the process goes to sleep; a kill() since
\* killed() was read goes unnoticed.
ReadBlock(p) ==
  /\ loc[p].pc = "checked"
  /\ lock' = Nobody /\ loc' = [loc EXCEPT ![p].pc = "asleep"]
  /\ UNCHANGED <<cons, killedProcs, tx_busy, thr, rx, irq, intr, pr, scene>>

\* A turn of consoleread()'s loop.  ^D ends the read and stays for the next
\* one when this one has characters; copyout() may fail, and the character is
\* lost; a line end, or the last character asked for, ends the read.
ReadChar(p) ==
  /\ loc[p].pc = "read" /\ r # w
  /\ LET c == buf[r % SIZE] IN
       \/ c = "eof" /\ r' = (IF loc[p].n < loc[p].target THEN r ELSE Inc(r)) /\ ReadReturn(p)
       \/ c # "eof" /\ r' = Inc(r) /\ ReadReturn(p)
       \/ /\ c # "eof" /\ r' = Inc(r)
          /\ IF c = "nl" \/ loc[p].n = 1 THEN ReadReturn(p)
             ELSE loc' = [loc EXCEPT ![p].n = @ - 1] /\ UNCHANGED lock
  /\ UNCHANGED <<buf, w, e, killedProcs, tx_busy, thr, rx, irq, intr, pr, scene>>

\* consolewrite() copies a batch in, or ends; target counts the batch.
WriteBatch(p) ==
  /\ loc[p].pc = "copyin"
  /\ \/ loc' = [loc EXCEPT ![p] = Idle]
     \/ /\ loc[p].n > 0
        /\ LET nn == IF loc[p].n < BATCH THEN loc[p].n ELSE BATCH IN
             loc' = [loc EXCEPT ![p] = [pc |-> "write", n |-> @.n - nn, target |-> nn]]
  /\ UNCHANGED <<cons, lock, killedProcs, tx_busy, thr, rx, irq, intr, pr, scene>>

\* A turn of uartwrite()'s loop, under tx_lock.
WriteChar(p) ==
  /\ loc[p].pc = "write"
  /\ IF tx_busy THEN loc' = [loc EXCEPT ![p].pc = "tx_asleep"] /\ UNCHANGED <<tx_busy, thr>>
     ELSE /\ thr' = thr + 1 /\ tx_busy' = TRUE
          /\ loc' = [loc EXCEPT ![p].target = @ - 1, ![p].pc = IF loc[p].target = 1 THEN "copyin" ELSE @]
  /\ UNCHANGED <<cons, lock, killedProcs, rx, irq, intr, pr, scene>>

-----------------------------------------------------------------------------
Init ==
  /\ buf = [k \in 0 .. SIZE - 1 |-> "x"]
  /\ r = 0 /\ w = 0 /\ e = 0
  /\ lock = Nobody /\ killedProcs = {}
  /\ loc = [p \in Procs |-> Idle]
  /\ tx_busy = FALSE /\ thr = 0 /\ rx = <<>> /\ irq = FALSE
  /\ intr = "off" /\ pr = "free"
  /\ scene \in Scenes

Handler == IntrAck \/ IntrTx \/ IntrRx \/ IntrSpin \/ IntrPut
Printer == PrintfSpin \/ PrintfPut
Step(p) == ReadAcquire(p) \/ ReadEmpty(p) \/ ReadBlock(p) \/ ReadChar(p) \/ WriteBatch(p) \/ WriteChar(p)

Next ==
  \/ \E c \in scene.keys : Type(c)
  \/ Transmit \/ Handler \/ PrintfBegin \/ Printer
  \/ \E p \in Procs : Call(p) \/ Kkill(p) \/ Step(p)

Spec == Init /\ [][Next]_vars

-----------------------------------------------------------------------------
(* Properties.                                                             *)

(***************************************************************************)
(* The types, and indices in their order around the buffer.                *)
(***************************************************************************)
TypeOK ==
  /\ buf \in [0 .. SIZE - 1 -> Stored]
  /\ {r, w, e} \subseteq 0 .. UINT - 1
  /\ Distance(r, w) + Distance(w, e) = Distance(r, e) /\ Distance(r, e) <= SIZE
  /\ lock \in Procs \cup {"intr", Nobody} /\ killedProcs \subseteq Procs
  /\ loc \in [Procs -> [pc : {"idle", "acquire", "read", "checked", "asleep",
                             "copyin", "write", "tx_asleep"}, n : Nat, target : Nat]]
  /\ thr \in Nat /\ tx_busy \in BOOLEAN /\ irq \in BOOLEAN /\ rx \in Seq(Keys)
  /\ intr \in {"off", "tx", "rx", "spin", "put"} /\ pr \in {"free", "spin", "put", "intr"}
  /\ scene \in Scenes

\* The buffer as the readers and the typist see it.
Span(from, to) == [k \in 1 .. Distance(from, to) |-> buf[((from + k - 1) % UINT) % SIZE]]
Ready == Span(r, w)
Edit == Span(w, e)

Lines == INSTANCE LineQueue WITH
  Chars <- Stored, Finishing <- {"nl", "eof"}, Capacity <- SIZE, ready <- Ready, edit <- Edit

(***************************************************************************)
(* The circular buffer with its three wrapping indices is a queue of lines:*)
(* nothing finished is edited, overwritten or taken out twice, and it      *)
(* leaves the queue in order.  (consoleintr() and consoleread().)  Taken   *)
(* out is not delivered: consoleread() moves cons.r before it copies, so   *)
(* the character whose either_copyout() fails is dropped.                  *)
(***************************************************************************)
ImplementsLines == Lines!LinesSpec

(***************************************************************************)
(* A reader sleeps on &cons.r only while there is nothing to read, also    *)
(* with several readers and a buffer that finished its line by being full. *)
(***************************************************************************)
LineReadersJustified == \A p \in Procs : loc[p].pc = "asleep" => r = w

(***************************************************************************)
(* Whoever sleeps on &tx_chan will be woken: while tx_busy is set, the     *)
(* transmitter has something to send, its interrupt is pending, or the     *)
(* handler has yet to look at the transmitter, although printf() and the   *)
(* echo write to it without tx_lock.                                       *)
(***************************************************************************)
TransmitInterruptComes == tx_busy => thr > 0 \/ irq \/ intr = "tx"

(***************************************************************************)
(* The transmitter is never given more than three characters at a time:    *)
(* one of uartwrite(), one of printf() and one echoed, each of which saw it*)
(* idle.  The device's FIFO, which uartinit() enables, has room for them.  *)
(* Nor is the input buffer overrun (TypeOK).  It is the kernel before a    *)
(* panic(): a panicking CPU prints without pr.lock, beside whoever has it. *)
(***************************************************************************)
FifoNotOverrun == TypeOK /\ thr <= 3

(***************************************************************************)
(* Neither consoleread() nor uartwrite() sleeps for nothing: a line, or an *)
(* interrupt of the transmitter, is still to come.                         *)
(***************************************************************************)
ConsoleSleepersJustified == LineReadersJustified /\ TransmitInterruptComes
=============================================================================
