----------------------------- MODULE RingProofs -----------------------------
(***************************************************************************)
(* The two circular buffers of the kernel: the pipe (kernel/pipe.c) and    *)
(* the input buffer of the console (kernel/console.c).  Each is an array   *)
(* of p places, indexed by unsigned counters that are taken modulo p and   *)
(* wrap at m, a multiple of p.  The lemmas about windows of such an array  *)
(* serve both; then come the pipe, with PipeInv, and the console, with     *)
(* ConsInv.                                                                *)
(***************************************************************************)
EXTENDS Pipe, Console, TLAPS

-----------------------------------------------------------------------------
(* Sequences.                                                              *)

\* Sequences of the same length with the same entries are the same.
LEMMA SeqSame ==
  ASSUME NEW S, NEW s \in Seq(S), NEW t \in Seq(S), Len(s) = Len(t), \A k \in 1 .. Len(s) : s[k] = t[k]
  PROVE  s = t
OBVIOUS

\* What a write at the end of a queue does to its entries.
LEMMA AppendLaws ==
  ASSUME NEW S, NEW s \in Seq(S), NEW v \in S
  PROVE  /\ Append(s, v) \in Seq(S) /\ Len(Append(s, v)) = Len(s) + 1
         /\ \A k \in 1 .. Len(s) : Append(s, v)[k] = s[k]
         /\ Append(s, v)[Len(s) + 1] = v
OBVIOUS

\* What a read at the front of a queue leaves.
LEMMA TailLaws ==
  ASSUME NEW S, NEW s \in Seq(S), s # <<>>
  PROVE  /\ Tail(s) \in Seq(S) /\ Len(Tail(s)) = Len(s) - 1
         /\ \A k \in 1 .. Len(s) - 1 : Tail(s)[k] = s[k + 1]
OBVIOUS

\* The entries of two queues one after the other.
LEMMA ConcatLaws ==
  ASSUME NEW S, NEW s \in Seq(S), NEW t \in Seq(S)
  PROVE  /\ s \o t \in Seq(S) /\ Len(s \o t) = Len(s) + Len(t)
         /\ \A k \in 1 .. Len(s) + Len(t) : (s \o t)[k] = IF k <= Len(s) THEN s[k] ELSE t[k - Len(s)]
OBVIOUS

-----------------------------------------------------------------------------
(* Windows of a ring.                                                      *)

\* The u entries of the buffer d of size p, from the counter s on.
Window(d, p, s, u) == [k \in 1 .. u |-> d[(s + k - 1) % p]]

\* The same, with the index first taken modulo the wrap of the counter.
Wrapped(d, p, m, s, u) == [k \in 1 .. u |-> d[((s + k - 1) % m) % p]]

\* d is a buffer of p places for values of V; a counter wraps at m; e is d with
\* v written at the counter j.
IsRing(d, p, V) == p \in Nat \ {0} /\ d \in [0 .. p - 1 -> V]
IsWrap(m, p) == m \in Nat /\ m % p = 0
IsStore(d2, d, p, j, v) == d2 = [d EXCEPT ![j % p] = v]

\* The quotient and the remainder of an index of the ring.
LEMMA Division ==
  ASSUME NEW p \in Nat \ {0}, NEW x \in Int
  PROVE  \E a \in Int, s \in 0 .. p - 1 : x = p * a + s /\ x % p = s
<1>1. x = p * (x \div p) + (x % p) /\ x % p \in 0 .. p - 1 /\ x \div p \in Int
  OBVIOUS
<1> QED BY <1>1, Zenon

\* A counter that wraps at a multiple of the size points to the same place.
LEMMA ModShift ==
  ASSUME NEW p \in Nat \ {0}, NEW m, IsWrap(m, p), NEW x \in Int
  PROVE  (x + m) % p = x % p
<1> USE DEF IsWrap
<1>1. PICK a \in Int, s \in 0 .. p - 1 : x = p * a + s /\ x % p = s
  BY Division, Zenon
<1>2. PICK b \in Int : m = p * b
  <2>1. PICK b \in Int, s2 \in 0 .. p - 1 : m = p * b + s2 /\ m % p = s2
    BY Division
  <2>2. m = p * b
    BY <2>1
  <2> QED BY <2>2, Zenon
<1>3. x + m = p * (a + b) + s /\ a + b \in Int
  BY <1>1, <1>2
<1>4. (p * (a + b) + s) % p = s
  BY <1>3
<1> QED BY <1>1, <1>3, <1>4, Zenon

\* Counters less than the size of the ring apart point to different places.
LEMMA ModApart ==
  ASSUME NEW p \in Nat \ {0}, NEW x \in Int, NEW y \in Int, x < y, y < x + p
  PROVE  x % p # y % p
<1>1. PICK a \in Int, s \in 0 .. p - 1 : x = p * a + s /\ x % p = s
  BY Division, Zenon
<1>2. PICK b \in Int, t \in 0 .. p - 1 : y = p * b + t /\ y % p = t
  BY Division, Zenon
<1>3. SUFFICES ASSUME s = t PROVE FALSE
  BY <1>1, <1>2, Zenon
<1>4. y - x = p * (b - a)
  BY <1>1, <1>2, <1>3
<1>5. CASE b - a >= 1
  <2>1. p * (b - a) >= p
    BY <1>5
  <2> QED BY <2>1, <1>4
<1>6. CASE b - a <= 0
  <2>1. p * (b - a) <= 0
    BY <1>6
  <2> QED BY <2>1, <1>4
<1> QED BY <1>5, <1>6

\* The difference of two counters, and a counter's successor, modulo the wrap.
LEMMA Counters ==
  ASSUME NEW m \in Nat \ {0}, NEW a \in 0 .. m - 1, NEW b \in 0 .. m - 1
  PROVE  /\ (b - a) % m = IF a <= b THEN b - a ELSE b - a + m
         /\ (a + 1) % m = IF a + 1 = m THEN 0 ELSE a + 1
OBVIOUS

\* A window of the buffer is a sequence of its entries.
LEMMA WindowSeq ==
  ASSUME NEW d, NEW p, NEW V, IsRing(d, p, V), NEW s \in Int, NEW u \in Nat
  PROVE  Window(d, p, s, u) \in Seq(V) /\ Len(Window(d, p, s, u)) = u
<1>1. \A k \in 1 .. u : (s + k - 1) % p \in 0 .. p - 1
  BY DEF IsRing
<1>2. \A k \in 1 .. u : d[(s + k - 1) % p] \in V
  BY <1>1, Zenon DEF IsRing
<1> QED BY <1>2 DEF Window

\* Writing at the end of a window that is not full appends to it and changes
\* nothing else in it.
LEMMA WindowAppend ==
  ASSUME NEW d, NEW p, NEW V, IsRing(d, p, V), NEW s \in Int, NEW u \in 0 .. p - 1,
         NEW v \in V, NEW d2, NEW j, IsStore(d2, d, p, j, v), j = s + u
  PROVE  Append(Window(d, p, s, u), v) = Window(d2, p, s, u + 1)
<1> DEFINE W == Window(d, p, s, u)
           X == Window(d2, p, s, u + 1)
<1>0. (s + u) % p \in 0 .. p - 1 /\ u \in Nat /\ u + 1 \in Nat /\ p \in Nat \ {0}
  BY DEF IsRing
<1>1. /\ \A k \in 0 .. p - 1 : d2[k] = IF k = (s + u) % p THEN v ELSE d[k]
      /\ d2 \in [0 .. p - 1 -> V]
  BY <1>0, j = s + u, Zenon DEF IsStore, IsRing
<1>2. W \in Seq(V) /\ Len(W) = u
  BY <1>0, WindowSeq, Zenon
<1>3. X \in Seq(V) /\ Len(X) = u + 1
  <2>1. IsRing(d2, p, V)
    BY <1>0, <1>1, Zenon DEF IsRing
  <2> QED BY <1>0, <2>1, WindowSeq, Zenon
<1>4. /\ \A k \in 1 .. u : W[k] = d[(s + k - 1) % p]
      /\ \A k \in 1 .. u + 1 : X[k] = d2[(s + k - 1) % p]
  BY Zenon DEF Window
<1> HIDE DEF W, X
<1>5. /\ Append(W, v) \in Seq(V) /\ Len(Append(W, v)) = u + 1
      /\ \A k \in 1 .. u : Append(W, v)[k] = W[k]
      /\ Append(W, v)[u + 1] = v
  BY <1>2, AppendLaws
<1>6. ASSUME NEW k \in 1 .. u + 1 PROVE X[k] = Append(W, v)[k]
  <2>1. CASE k = u + 1
    <3>1. s + k - 1 = s + u
      BY <1>0, <2>1
    <3> QED BY <1>0, <1>1, <1>4, <1>5, <2>1, <3>1, Zenon
  <2>2. CASE k \in 1 .. u
    <3>1. s + k - 1 \in Int /\ s + u \in Int /\ s + k - 1 < s + u /\ s + u < s + k - 1 + p
      BY <1>0, <2>2
    <3>2. (s + k - 1) % p # (s + u) % p
      BY <1>0, <3>1, ModApart, Zenon
    <3>3. (s + k - 1) % p \in 0 .. p - 1
      BY <1>0, <2>2
    <3>4. d2[(s + k - 1) % p] = d[(s + k - 1) % p]
      BY <1>1, <3>2, <3>3, Zenon
    <3>5. X[k] = d2[(s + k - 1) % p] /\ W[k] = d[(s + k - 1) % p] /\ Append(W, v)[k] = W[k]
      BY <1>4, <1>5, <2>2, Zenon
    <3> QED BY <3>4, <3>5, Zenon
  <2>3. k = u + 1 \/ k \in 1 .. u
    BY <1>0
  <2> QED BY <2>1, <2>2, <2>3, Zenon
<1>7. X = Append(W, v)
  BY <1>3, <1>5, <1>6, SeqSame, Zenon
<1> QED BY <1>7, Zenon DEF X, W

\* Reading takes the first entry of the window.
LEMMA WindowTail ==
  ASSUME NEW d, NEW p, NEW V, IsRing(d, p, V), NEW s \in Int, NEW u \in Nat \ {0}
  PROVE  /\ Window(d, p, s, u) # <<>>
         /\ Head(Window(d, p, s, u)) = d[s % p]
         /\ Tail(Window(d, p, s, u)) = Window(d, p, s + 1, u - 1)
<1> DEFINE W == Window(d, p, s, u)
           X == Window(d, p, s + 1, u - 1)
<1>0. u \in Nat /\ u - 1 \in Nat /\ s + 1 \in Int
  OBVIOUS
<1>1. W \in Seq(V) /\ Len(W) = u
  BY <1>0, WindowSeq, Zenon
<1>2. X \in Seq(V) /\ Len(X) = u - 1
  BY <1>0, WindowSeq, Zenon
<1>3. /\ \A k \in 1 .. u : W[k] = d[(s + k - 1) % p]
      /\ \A k \in 1 .. u - 1 : X[k] = d[(s + 1 + k - 1) % p]
  BY Zenon DEF Window
<1> HIDE DEF W, X
<1>4. W # <<>>
  BY <1>1, Zenon
<1>5. /\ Tail(W) \in Seq(V) /\ Len(Tail(W)) = u - 1
      /\ \A k \in 1 .. u - 1 : Tail(W)[k] = W[k + 1]
  BY <1>1, <1>4, TailLaws, Zenon
<1>6. ASSUME NEW k \in 1 .. u - 1 PROVE Tail(W)[k] = X[k]
  <2>1. k + 1 \in 1 .. u /\ s + (k + 1) - 1 = s + 1 + k - 1
    OBVIOUS
  <2> QED BY <1>3, <1>5, <2>1, Zenon
<1>7. Tail(W) = X
  BY <1>2, <1>5, <1>6, SeqSame, Zenon
<1>8. W[1] = d[s % p]
  <2>1. 1 \in 1 .. u /\ s + 1 - 1 = s
    OBVIOUS
  <2> QED BY <1>3, <2>1, Zenon
<1>9. Head(W) = d[s % p]
  BY <1>1, <1>4, <1>8
<1> QED BY <1>4, <1>7, <1>9, Zenon DEF W, X

\* The wrap of the counter changes nothing.
LEMMA WindowShift ==
  ASSUME NEW p \in Nat \ {0}, NEW m, IsWrap(m, p), NEW d, NEW s \in Int, NEW u \in Nat
  PROVE  Window(d, p, s + m, u) = Window(d, p, s, u)
<1>0. m \in Nat
  BY Zenon DEF IsWrap
<1>1. ASSUME NEW k \in 1 .. u PROVE (s + m + k - 1) % p = (s + k - 1) % p
  <2>1. s + k - 1 \in Int /\ s + m + k - 1 = (s + k - 1) + m
    BY <1>0
  <2>2. ((s + k - 1) + m) % p = (s + k - 1) % p
    BY <2>1, ModShift, Zenon
  <2> QED BY <2>1, <2>2, Zenon
<1> QED BY <1>1, Zenon DEF Window
\* Taking an index modulo the wrap before modulo the size changes nothing either.
LEMMA WindowWrap ==
  ASSUME NEW p \in Nat \ {0}, NEW m, IsWrap(m, p), NEW d, NEW s \in 0 .. m - 1, NEW u \in 0 .. m
  PROVE  Wrapped(d, p, m, s, u) = Window(d, p, s, u)
<1>0. m \in Nat \ {0}
  BY DEF IsWrap
<1>1. ASSUME NEW k \in 1 .. u PROVE ((s + k - 1) % m) % p = (s + k - 1) % p
  <2>1. CASE s + k - 1 < m
    <3>1. (s + k - 1) % m = s + k - 1
      BY <1>0, <2>1
    <3> QED BY <3>1, Zenon
  <2>2. CASE s + k - 1 >= m
    <3>1. (s + k - 1) % m = s + k - 1 - m
      BY <1>0, <2>2
    <3>2. s + k - 1 - m \in Int /\ (s + k - 1 - m) + m = s + k - 1
      BY <1>0
    <3>3. ((s + k - 1 - m) + m) % p = (s + k - 1 - m) % p
      BY <3>2, ModShift, Zenon
    <3> QED BY <3>1, <3>2, <3>3, Zenon
  <2> QED BY <1>0, <2>1, <2>2
<1> QED BY <1>1, Zenon DEF Window, Wrapped

\* Writing outside a window changes nothing in it.
LEMMA WindowKeeps ==
  ASSUME NEW d, NEW p, NEW V, IsRing(d, p, V), NEW s \in Int, NEW u \in Nat,
         NEW v, NEW d2, NEW j \in Int, IsStore(d2, d, p, j, v), s + u <= j, j < s + p
  PROVE  Window(d2, p, s, u) = Window(d, p, s, u)
<1>0. p \in Nat \ {0} /\ j % p \in 0 .. p - 1
  BY DEF IsRing
<1>1. ASSUME NEW k \in 1 .. u PROVE d2[(s + k - 1) % p] = d[(s + k - 1) % p]
  <2>1. s + k - 1 \in Int /\ s + k - 1 < j /\ j < s + k - 1 + p
    BY <1>0
  <2>2. (s + k - 1) % p # j % p
    BY <1>0, <2>1, ModApart, Zenon
  <2>3. (s + k - 1) % p \in 0 .. p - 1
    BY <1>0
  <2> QED BY <2>2, <2>3, Zenon DEF IsStore, IsRing
<1> QED BY <1>1, Zenon DEF Window

\* Two windows that meet are one.
LEMMA WindowConcat ==
  ASSUME NEW d, NEW p, NEW V, IsRing(d, p, V), NEW s \in Int, NEW u \in Nat, NEW v \in Nat
  PROVE  Window(d, p, s, u) \o Window(d, p, s + u, v) = Window(d, p, s, u + v)
<1> DEFINE A == Window(d, p, s, u)
           B == Window(d, p, s + u, v)
           C == Window(d, p, s, u + v)
<1>0. u + v \in Nat /\ s + u \in Int
  OBVIOUS
<1>1. A \in Seq(V) /\ Len(A) = u
  BY WindowSeq, Zenon
<1>2. B \in Seq(V) /\ Len(B) = v
  BY <1>0, WindowSeq, Zenon
<1>3. C \in Seq(V) /\ Len(C) = u + v
  BY <1>0, WindowSeq, Zenon
<1>4. /\ \A k \in 1 .. u : A[k] = d[(s + k - 1) % p]
      /\ \A k \in 1 .. v : B[k] = d[(s + u + k - 1) % p]
      /\ \A k \in 1 .. u + v : C[k] = d[(s + k - 1) % p]
  BY Zenon DEF Window
<1> HIDE DEF A, B, C
<1>5. /\ A \o B \in Seq(V) /\ Len(A \o B) = u + v
      /\ \A k \in 1 .. u + v : (A \o B)[k] = IF k <= u THEN A[k] ELSE B[k - u]
  BY <1>1, <1>2, ConcatLaws, Zenon
<1>6. ASSUME NEW k \in 1 .. u + v PROVE (A \o B)[k] = C[k]
  <2>1. CASE k <= u
    BY <1>4, <1>5, <2>1
  <2>2. CASE k > u
    <3>1. k - u \in 1 .. v /\ s + u + (k - u) - 1 = s + k - 1
      BY <2>2
    <3>2. B[k - u] = d[(s + u + (k - u) - 1) % p]
      BY <1>4, <3>1, Zenon
    <3>3. C[k] = d[(s + k - 1) % p]
      BY <1>4, Zenon
    <3>4. (A \o B)[k] = B[k - u]
      BY <1>5, <2>2
    <3>5. B[k - u] = C[k]
      BY <3>1, <3>2, <3>3, Zenon
    <3> QED BY <3>4, <3>5, Zenon
  <2>3. k <= u \/ k > u
    OBVIOUS
  <2> QED BY <2>1, <2>2, <2>3, Zenon
<1>7. A \o B = C
  BY <1>3, <1>5, <1>6, SeqSame, Zenon
<1> QED BY <1>7, Zenon DEF A, B, C

\* Moving the end back drops the last entry.
LEMMA WindowFront ==
  ASSUME NEW d, NEW p, NEW V, IsRing(d, p, V), NEW s \in Int, NEW u \in Nat \ {0}
  PROVE  SubSeq(Window(d, p, s, u), 1, u - 1) = Window(d, p, s, u - 1)
<1> DEFINE W == Window(d, p, s, u)
           X == Window(d, p, s, u - 1)
<1>0. u \in Nat /\ u - 1 \in Nat
  OBVIOUS
<1>1. W \in Seq(V) /\ Len(W) = u
  BY <1>0, WindowSeq, Zenon
<1>2. X \in Seq(V) /\ Len(X) = u - 1
  BY <1>0, WindowSeq, Zenon
<1>3. \A k \in 1 .. u - 1 : W[k] = X[k]
  BY DEF Window
<1> HIDE DEF W, X
<1>4. /\ SubSeq(W, 1, u - 1) \in Seq(V) /\ Len(SubSeq(W, 1, u - 1)) = u - 1
      /\ \A k \in 1 .. u - 1 : SubSeq(W, 1, u - 1)[k] = W[k]
  BY <1>0, <1>1
<1>5. SubSeq(W, 1, u - 1) = X
  BY <1>2, <1>3, <1>4, SeqSame, Zenon
<1> QED BY <1>5, Zenon DEF W, X

-----------------------------------------------------------------------------
InWrite == {"w", "w_go"}
InRead == {"r", "r_sleep", "r_copy"}

\* pi->lock is held by the one thread that is inside its section; writers
\* call pipewrite() and readers piperead(), on an end they hold; a byte is
\* written only while one is left.
Places ==
  /\ \A t \in Threads : pc[t] \in InWrite \cup InRead <=> pilock = t
  /\ \A t \in Writers : pc[t] \in {"user", "closed", "w_asleep", "w_woken"} \cup InWrite
  /\ \A t \in Readers : pc[t] \in {"user", "closed", "r_asleep", "r_woken"} \cup InRead
  /\ \A t \in Threads : pc[t] # "user" /\ pc[t] # "closed" => t \in open
  /\ \A t \in Threads : pc[t] = "w_go" => i[t] < n[t]

\* The flags of struct pipe say whether an end has a holder.
Flags ==
  /\ writeopen <=> open \cap Writers # {}
  /\ readopen <=> open \cap Readers # {}

\* A writer sleeps on a full pipe with a reader, or a reader is at work that
\* will call wakeup(&pi->nwrite); a writer that goes on has just seen a reader.
WritersOwed ==
  /\ \A t \in Threads : pc[t] = "w_asleep" =>
       /\ readopen
       /\ Full \/ \E u \in Threads : pc[u] = "r_copy"
  /\ \A t \in Threads : pc[t] = "w_go" => readopen

\* A reader sleeps on an empty pipe with a writer, or a writer is at work, or
\* one was killed; a reader that is about to sleep has just seen that.
ReadersOwed ==
  /\ \A t \in Threads : pc[t] = "r_asleep" =>
       /\ writeopen
       /\ \/ Empty
          \/ \E u \in Writers : killed[u]
          \/ \E u \in Threads : pc[u] \in InWrite
  /\ \A t \in Threads : pc[t] = "r_sleep" => writeopen /\ Empty

PipeInv == PipeTypeOK /\ Places /\ Flags /\ WritersOwed /\ ReadersOwed

-----------------------------------------------------------------------------
(* Types *)

\* Indices of the ring and the counters of struct pipe stay in their range.
LEMMA Wraps ==
  ASSUME NEW k \in Nat
  PROVE  k % UMOD \in 0 .. UMOD - 1 /\ k % PIPESIZE \in 0 .. PIPESIZE - 1
BY PipeAssumption

\* Every step of pipewrite(), piperead(), pipeclose() and kill keeps the types.
LEMMA TypeStep ==
  ASSUME PipeTypeOK, Places, NEW t \in Threads,
         WriteEnter(t) \/ ReadEnter(t) \/ InCall(t) \/ Close(t) \/ Kill(t)
  PROVE  PipeTypeOK'
<1> USE DEF PipeTypeOK
<1>1. CASE WriteEnter(t) \/ ReadEnter(t)
  <2>1. PICK k \in 1 .. MaxN : n' = [n EXCEPT ![t] = k]
    BY <1>1, Zenon DEF WriteEnter, ReadEnter, Enter
  <2>2. k \in 0 .. MaxN
    BY PipeAssumption
  <2> QED BY <1>1, <2>1, <2>2, Zenon DEF WriteEnter, ReadEnter, Enter, Goto, ring, ends
<1>2. CASE WriteCheck(t)
  <2>1. 0 \in 0 .. MaxN
    BY PipeAssumption
  <2>2. CASE Release /\ Leave(t) /\ Goto(t, "user")
    BY <1>2, <2>1, <2>2, Zenon DEF WriteCheck, Release, Leave, Goto, ring, ends
  <2>3. CASE Goto(t, "w_go") /\ UNCHANGED <<pilock, i, n>>
    BY <1>2, <2>3, Zenon DEF WriteCheck, Goto, ring, ends
  <2> QED BY <1>2, <2>2, <2>3, Zenon DEF WriteCheck
<1>3. CASE WriteSleep(t)
  BY <1>3, Zenon DEF WriteSleep, WakeReaders, Wakeup, Release, ring, ends
<1>4. CASE WriteByte(t)
  <2>1. nwrite \in Nat /\ nwrite + 1 \in Nat
    BY PipeAssumption
  <2>2. nwrite % PIPESIZE \in 0 .. PIPESIZE - 1 /\ (nwrite + 1) % UMOD \in 0 .. UMOD - 1
    BY <2>1, Wraps, Zenon
  <2>3. data' \in [0 .. PIPESIZE - 1 -> Bytes]
    BY <1>4, <2>2, Zenon DEF WriteByte
  <2>4. i[t] + 1 \in 0 .. MaxN
    BY <1>4, PipeAssumption DEF WriteByte, Places
  <2> QED BY <1>4, <2>2, <2>3, <2>4, Zenon DEF WriteByte, Goto, ends
<1>5. CASE WriteDone(t)
  BY <1>5, PipeAssumption DEF WriteDone, WakeReaders, Wakeup, Release, Leave, ring, ends
<1>6. CASE ReadCheck(t)
  <2>1. 0 \in 0 .. MaxN
    BY PipeAssumption
  <2>2. CASE Release /\ Leave(t) /\ Goto(t, "user")
    BY <1>6, <2>1, <2>2, Zenon DEF ReadCheck, Release, Leave, Goto, ring, ends
  <2>3. CASE Goto(t, "r_sleep") /\ UNCHANGED <<pilock, i, n>>
    BY <1>6, <2>3, Zenon DEF ReadCheck, Goto, ring, ends
  <2>4. CASE Goto(t, "r_copy") /\ UNCHANGED <<pilock, i, n>>
    BY <1>6, <2>4, Zenon DEF ReadCheck, Goto, ring, ends
  <2> QED BY <1>6, <2>2, <2>3, <2>4, Zenon DEF ReadCheck
<1>7. CASE ReadSleep(t)
  BY <1>7, Zenon DEF ReadSleep, Goto, Release, ring, ends
<1>8. CASE ReadByte(t)
  <2>1. nread \in Nat /\ nread + 1 \in Nat
    BY PipeAssumption
  <2>2. nread % PIPESIZE \in 0 .. PIPESIZE - 1 /\ (nread + 1) % UMOD \in 0 .. UMOD - 1
    BY <2>1, Wraps, Zenon
  <2>3. got' \in Bytes
    BY <1>8, <2>2, Zenon DEF ReadByte
  <2>4. i[t] + 1 \in 0 .. MaxN
    BY <1>8, PipeAssumption DEF ReadByte
  <2> QED BY <1>8, <2>2, <2>3, <2>4, Zenon DEF ReadByte, ends
<1>9. CASE ReadDone(t)
  BY <1>9, PipeAssumption DEF ReadDone, WakeWriters, Wakeup, Release, Leave, ring, ends
<1>10. CASE Relock(t)
  BY <1>10, Zenon DEF Relock, Goto, ring, ends
<1>11. CASE Close(t)
  BY <1>11, Zenon DEF Close, WakeReaders, WakeWriters, Wakeup, Goto, ring
<1>12. CASE Kill(t)
  BY <1>12, Zenon DEF Kill, ring, ends
<1> QED BY <1>1, <1>2, <1>3, <1>4, <1>5, <1>6, <1>7, <1>8, <1>9, <1>10, <1>11, <1>12, Zenon
           DEF InCall

-----------------------------------------------------------------------------
(* Who holds the lock, and the ends *)

\* The program counters and pi->lock agree after every step.
LEMMA PlacesStep ==
  ASSUME PipeTypeOK, Places, NEW t \in Threads,
         WriteEnter(t) \/ ReadEnter(t) \/ InCall(t) \/ Close(t) \/ Kill(t)
  PROVE  Places'
<1> USE PipeAssumption DEF PipeTypeOK, Places, Threads, InWrite, InRead
<1>1. CASE WriteEnter(t)
  BY <1>1 DEF WriteEnter, Enter, Goto, ring, ends
<1>2. CASE ReadEnter(t)
  BY <1>2 DEF ReadEnter, Enter, Goto, ring, ends
<1>3. CASE WriteCheck(t)
  <2>1. CASE Release /\ Leave(t) /\ Goto(t, "user")
    BY <1>3, <2>1, Zenon DEF WriteCheck, Release, Leave, Goto, ring, ends
  <2>2. CASE Goto(t, "w_go") /\ UNCHANGED <<pilock, i, n>>
    BY <1>3, <2>2, Zenon DEF WriteCheck, Goto, ring, ends
  <2> QED BY <1>3, <2>1, <2>2, Zenon DEF WriteCheck
<1>4. CASE WriteSleep(t)
  BY <1>4, Zenon DEF WriteSleep, WakeReaders, Wakeup, Release, ring, ends
<1>5. CASE WriteByte(t)
  BY <1>5, Zenon DEF WriteByte, Goto, ends
<1>6. CASE WriteDone(t)
  BY <1>6, ZenonT(30) DEF WriteDone, WakeReaders, Wakeup, Release, Leave, ring, ends
<1>7. CASE ReadCheck(t)
  <2>1. CASE Release /\ Leave(t) /\ Goto(t, "user")
    BY <1>7, <2>1, ZenonT(30) DEF ReadCheck, Release, Leave, Goto, ring, ends
  <2>2. CASE Goto(t, "r_sleep") /\ UNCHANGED <<pilock, i, n>>
    BY <1>7, <2>2, Zenon DEF ReadCheck, Goto, ring, ends
  <2>3. CASE Goto(t, "r_copy") /\ UNCHANGED <<pilock, i, n>>
    BY <1>7, <2>3, Zenon DEF ReadCheck, Goto, ring, ends
  <2> QED BY <1>7, <2>1, <2>2, <2>3, Zenon DEF ReadCheck
<1>8. CASE ReadSleep(t)
  BY <1>8, Zenon DEF ReadSleep, Goto, Release, ring, ends
<1>9. CASE ReadByte(t)
  BY <1>9, Zenon DEF ReadByte, ends
<1>10. CASE ReadDone(t)
  BY <1>10, Zenon DEF ReadDone, WakeWriters, Wakeup, Release, Leave, ring, ends
<1>11. CASE Relock(t)
  BY <1>11, Zenon DEF Relock, Goto, ring, ends
<1>12. CASE Close(t)
  <2>1. CASE WakeReaders(t, "closed")
    BY <1>12, <2>1, Zenon DEF Close, WakeReaders, Wakeup, ring
  <2>2. CASE WakeWriters(t, "closed")
    BY <1>12, <2>2, Zenon DEF Close, WakeWriters, Wakeup, ring
  <2>3. CASE Goto(t, "closed")
    BY <1>12, <2>3, Zenon DEF Close, Goto, ring
  <2> QED BY <1>12, <2>1, <2>2, <2>3, Zenon DEF Close
<1>13. CASE Kill(t)
  BY <1>13, Zenon DEF Kill, ring, ends
<1> QED BY <1>1, <1>2, <1>3, <1>4, <1>5, <1>6, <1>7, <1>8, <1>9, <1>10, <1>11, <1>12, <1>13, Zenon
        DEF InCall

\* Only fileclose() changes readopen and writeopen, with the last holder.
LEMMA FlagsStep ==
  ASSUME PipeTypeOK, Flags, NEW t \in Threads,
         WriteEnter(t) \/ ReadEnter(t) \/ InCall(t) \/ Close(t) \/ Kill(t)
  PROVE  Flags'
<1>1. CASE Close(t)
  BY <1>1, Zenon DEF Close, Flags, PipeTypeOK
<1>2. CASE ~Close(t)
  <2>1. UNCHANGED ends
    BY <1>2, Zenon DEF WriteEnter, ReadEnter, Enter, InCall, WriteCheck, WriteSleep, WriteByte,
       WriteDone, ReadCheck, ReadSleep, ReadByte, ReadDone, Relock, Kill
  <2> QED BY <2>1, Zenon DEF Flags, ends
<1> QED BY <1>1, <1>2, Zenon

-----------------------------------------------------------------------------
(* What is owed to the sleepers *)

\* wakeup(&pi->nwrite) comes before the lock is free whenever a reader has made
\* room or the last reader has left.
LEMMA WritersStep ==
  ASSUME PipeInv, NEW t \in Threads,
         WriteEnter(t) \/ ReadEnter(t) \/ InCall(t) \/ Close(t) \/ Kill(t)
  PROVE  WritersOwed'
<1> USE PipeAssumption
    DEF PipeInv, PipeTypeOK, Places, Flags, WritersOwed, Threads, InWrite, InRead, Full
<1>1. CASE WriteEnter(t)
  BY <1>1, Zenon DEF WriteEnter, Enter, Goto, ring, ends
<1>2. CASE ReadEnter(t)
  BY <1>2, Zenon DEF ReadEnter, Enter, Goto, ring, ends
<1>3. CASE WriteCheck(t)
  <2>1. CASE Goto(t, "user")
    BY <1>3, <2>1, Zenon DEF WriteCheck, Goto, ring, ends
  <2>2. CASE Goto(t, "w_go") /\ readopen
    BY <1>3, <2>2, Zenon DEF WriteCheck, Goto, ring, ends
  <2> QED BY <1>3, <2>1, <2>2, Zenon DEF WriteCheck
<1>4. CASE WriteSleep(t)
  BY <1>4, Zenon DEF WriteSleep, WakeReaders, Wakeup, ring, ends
<1>5. CASE WriteByte(t)
  BY <1>5, Zenon DEF WriteByte, Goto, ends
<1>6. CASE WriteDone(t)
  BY <1>6, Zenon DEF WriteDone, WakeReaders, Wakeup, ring, ends
<1>7. CASE ReadCheck(t)
  <2>1. CASE Goto(t, "user")
    BY <1>7, <2>1, Zenon DEF ReadCheck, Goto, ring, ends
  <2>2. CASE Goto(t, "r_sleep")
    BY <1>7, <2>2, Zenon DEF ReadCheck, Goto, ring, ends
  <2>3. CASE Goto(t, "r_copy")
    BY <1>7, <2>3, Zenon DEF ReadCheck, Goto, ring, ends
  <2> QED BY <1>7, <2>1, <2>2, <2>3, Zenon DEF ReadCheck
<1>8. CASE ReadSleep(t)
  BY <1>8, Zenon DEF ReadSleep, Goto, ring, ends
<1>9. CASE ReadByte(t)
  BY <1>9, Zenon DEF ReadByte, ends
<1>10. CASE ReadDone(t)
  BY <1>10, Zenon DEF ReadDone, WakeWriters, Wakeup, ring, ends
<1>11. CASE Relock(t)
  BY <1>11, Zenon DEF Relock, Goto, ring, ends
<1>12. CASE Close(t)
  <2>1. CASE WakeReaders(t, "closed") /\ writeopen' # writeopen
    <3>1. t \in Writers
      BY <1>12, <2>1 DEF Close
    <3>2. open' \cap Readers = open \cap Readers
      BY <1>12, <3>1 DEF Close
    <3>3. readopen' = readopen
      BY <1>12, <3>2, Zenon DEF Close
    <3> QED BY <1>12, <2>1, <3>3, Zenon DEF Close, WakeReaders, Wakeup, ring
  <2>2. CASE WakeWriters(t, "closed")
    BY <1>12, <2>2, Zenon DEF Close, WakeWriters, Wakeup, ring
  <2>3. CASE Goto(t, "closed") /\ readopen' = readopen
    BY <1>12, <2>3, Zenon DEF Close, Goto, ring
  <2> QED BY <1>12, <2>1, <2>2, <2>3, Zenon DEF Close
<1>13. CASE Kill(t)
  BY <1>13, Zenon DEF Kill, ring, ends
<1> QED BY <1>1, <1>2, <1>3, <1>4, <1>5, <1>6, <1>7, <1>8, <1>9, <1>10, <1>11, <1>12, <1>13, Zenon
        DEF InCall

\* wakeup(&pi->nread) comes before the lock is free whenever a writer has put
\* bytes and is not killed, or the last writer has left.
LEMMA ReadersStep ==
  ASSUME PipeInv, NEW t \in Threads,
         WriteEnter(t) \/ ReadEnter(t) \/ InCall(t) \/ Close(t) \/ Kill(t)
  PROVE  ReadersOwed'
<1> USE PipeAssumption
    DEF PipeInv, PipeTypeOK, Places, Flags, ReadersOwed, Threads, InWrite, InRead, Empty
<1>1. CASE WriteEnter(t)
  BY <1>1, Zenon DEF WriteEnter, Enter, Goto, ring, ends
<1>2. CASE ReadEnter(t)
  BY <1>2, Zenon DEF ReadEnter, Enter, Goto, ring, ends
<1>3. CASE WriteCheck(t)
  <2>1. CASE Goto(t, "user") /\ (~readopen \/ killed[t])
    <3>1. t \in Writers
      BY <1>3, Zenon DEF WriteCheck
    <3>2. ASSUME NEW u \in Threads, pc[u] = "r_asleep" PROVE killed[t]
      BY <2>1, <3>2, Zenon
    <3> QED BY <1>3, <2>1, <3>1, <3>2, Zenon DEF WriteCheck, Goto, ring, ends
  <2>2. CASE Goto(t, "w_go")
    BY <1>3, <2>2, Zenon DEF WriteCheck, Goto, ring, ends
  <2> QED BY <1>3, <2>1, <2>2, Zenon DEF WriteCheck
<1>4. CASE WriteSleep(t)
  BY <1>4, Zenon DEF WriteSleep, WakeReaders, Wakeup, ring, ends
<1>5. CASE WriteByte(t)
  BY <1>5, Zenon DEF WriteByte, Goto, ends
<1>6. CASE WriteDone(t)
  BY <1>6, Zenon DEF WriteDone, WakeReaders, Wakeup, ring, ends
<1>7. CASE ReadCheck(t)
  <2>1. CASE Goto(t, "user")
    BY <1>7, <2>1, Zenon DEF ReadCheck, Goto, ring, ends
  <2>2. CASE Goto(t, "r_sleep") /\ Empty /\ writeopen
    BY <1>7, <2>2, Zenon DEF ReadCheck, Goto, ring, ends
  <2>3. CASE Goto(t, "r_copy")
    BY <1>7, <2>3, Zenon DEF ReadCheck, Goto, ring, ends
  <2> QED BY <1>7, <2>1, <2>2, <2>3, Zenon DEF ReadCheck
<1>8. CASE ReadSleep(t)
  BY <1>8, Zenon DEF ReadSleep, Goto, ring, ends
<1>9. CASE ReadByte(t)
  BY <1>9, Zenon DEF ReadByte, ends
<1>10. CASE ReadDone(t)
  BY <1>10, Zenon DEF ReadDone, WakeWriters, Wakeup, ring, ends
<1>11. CASE Relock(t)
  BY <1>11, Zenon DEF Relock, Goto, ring, ends
<1>12. CASE Close(t)
  <2>1. CASE WakeReaders(t, "closed")
    BY <1>12, <2>1, Zenon DEF Close, WakeReaders, Wakeup, ring
  <2>2. CASE WakeWriters(t, "closed") /\ writeopen' = writeopen
    BY <1>12, <2>2, Zenon DEF Close, WakeWriters, Wakeup, ring
  <2>3. CASE Goto(t, "closed") /\ writeopen' = writeopen
    BY <1>12, <2>3, Zenon DEF Close, Goto, ring
  <2> QED BY <1>12, <2>1, <2>2, <2>3, Zenon DEF Close
<1>13. CASE Kill(t)
  BY <1>13, Zenon DEF Kill, ring, ends
<1> QED BY <1>1, <1>2, <1>3, <1>4, <1>5, <1>6, <1>7, <1>8, <1>9, <1>10, <1>11, <1>12, <1>13, Zenon
        DEF InCall

-----------------------------------------------------------------------------
\* The invariant holds in every reachable state of a pipe.
LEMMA PipeInvHolds == PipeSpec => []PipeInv
<1>1. PipeInit => PipeInv
  BY PipeAssumption DEF PipeInit, PipeInv, PipeTypeOK, Places, Flags, WritersOwed, ReadersOwed,
     Threads, InWrite, InRead
<1>2. PipeInv /\ [PipeNext]_pipeVars => PipeInv'
  <2> SUFFICES ASSUME PipeInv, [PipeNext]_pipeVars PROVE PipeInv'
    OBVIOUS
  <2>1. CASE UNCHANGED pipeVars
    BY <2>1, Zenon DEF pipeVars, ring, ends, PipeInv, PipeTypeOK, Places, Flags, WritersOwed,
       ReadersOwed, Full, Empty
  <2>2. CASE PipeNext
    <3>1. PICK t \in Threads :
            WriteEnter(t) \/ ReadEnter(t) \/ InCall(t) \/ Close(t) \/ Kill(t)
      BY <2>2, Zenon DEF PipeNext
    <3>2. PipeTypeOK' /\ Places' /\ Flags'
      BY <3>1, TypeStep, PlacesStep, FlagsStep, Zenon DEF PipeInv
    <3>3. WritersOwed' /\ ReadersOwed'
      BY <3>1, WritersStep, ReadersStep, Zenon
    <3> QED BY <3>2, <3>3, Zenon DEF PipeInv
  <2> QED BY <2>1, <2>2, Zenon
<1> QED BY <1>1, <1>2, PTL DEF PipeSpec

\* The indices of the ring and the counters of struct pipe stay in their ranges.
THEOREM PipeTypes == PipeSpec => []PipeTypeOK
<1>1. PipeInv => PipeTypeOK
  BY Zenon DEF PipeInv
<1> QED BY <1>1, PipeInvHolds, PTL

\* Nobody is left asleep on a pipe, for any number of threads and any ring: with
\* pi->lock free a caller of pipewrite() sleeps only on a full pipe that has a
\* reader, and one of piperead() only while there is a writer, and next to bytes
\* only in the one case in which pipewrite() leaves without a wakeup, a kill.
THEOREM NoPipeSleeperStranded == PipeSpec => []PipeSleepersJustified
<1>1. PipeInv => WritersJustified
  BY PipeAssumption, Zenon
     DEF PipeInv, Places, WritersOwed, WritersJustified, InRead, InWrite, Threads
<1>2. PipeInv => ReadersJustified
  BY PipeAssumption, Zenon
     DEF PipeInv, Places, ReadersOwed, ReadersJustified, InRead, InWrite, Threads
<1>3. PipeInv => PipeSleepersJustified
  BY <1>1, <1>2, Zenon DEF PipeSleepersJustified
<1> QED BY <1>3, PipeInvHolds, PTL
-----------------------------------------------------------------------------
(* The pipe is a queue of bytes *)

\* What the unsigned difference of the counters says: nothing, all of the ring,
\* and where the next byte goes.
LEMMA UsedFacts ==
  ASSUME PipeTypeOK
  PROVE  /\ Used \in 0 .. UMOD - 1
         /\ Empty <=> Used = 0
         /\ Full <=> Used = PIPESIZE
         /\ nwrite % PIPESIZE = (nread + Used) % PIPESIZE
<1>0. /\ PIPESIZE \in Nat \ {0} /\ UMOD \in Nat \ {0} /\ UMOD > PIPESIZE
      /\ nread \in 0 .. UMOD - 1 /\ nwrite \in 0 .. UMOD - 1
      /\ IsRing(data, PIPESIZE, Bytes) /\ IsWrap(UMOD, PIPESIZE)
  BY PipeAssumption DEF PipeTypeOK, IsRing, IsWrap
<1>1. Used = IF nread <= nwrite THEN nwrite - nread ELSE nwrite - nread + UMOD
  BY <1>0, Counters, Zenon DEF Used
<1>2. nread + PIPESIZE \in 0 .. UMOD + UMOD - 1
  BY <1>0
<1>3. (nread + PIPESIZE) % UMOD =
        IF nread + PIPESIZE < UMOD THEN nread + PIPESIZE ELSE nread + PIPESIZE - UMOD
  BY <1>0, <1>2
<1>4. nwrite % PIPESIZE = (nread + Used) % PIPESIZE
  <2>1. CASE nread <= nwrite
    <3>1. nread + Used = nwrite
      BY <1>0, <1>1, <2>1
    <3> QED BY <3>1, Zenon
  <2>2. CASE ~(nread <= nwrite)
    <3>1. nread + Used = nwrite + UMOD
      BY <1>0, <1>1, <2>2
    <3>2. nwrite \in Int /\ UMOD \in Nat
      BY <1>0
    <3>3. (nwrite + UMOD) % PIPESIZE = nwrite % PIPESIZE
      BY <1>0, <3>2, ModShift, Zenon
    <3> QED BY <3>1, <3>3, Zenon
  <2> QED BY <2>1, <2>2, Zenon
<1> QED BY <1>0, <1>1, <1>3, <1>4 DEF Empty, Full

\* pipewrite() stores a byte: one more is in the ring, behind the others.
LEMMA WriteByteIsPut ==
  ASSUME PipeTypeOK, Used <= PIPESIZE, NEW t \in Threads, WriteByte(t)
  PROVE  Used' = Used + 1 /\ Used < PIPESIZE /\ \E ch \in Bytes : Queue!Put(ch)
<1>0. /\ PIPESIZE \in Nat \ {0} /\ UMOD \in Nat \ {0} /\ UMOD > PIPESIZE
      /\ nread \in 0 .. UMOD - 1 /\ nwrite \in 0 .. UMOD - 1
      /\ IsRing(data, PIPESIZE, Bytes) /\ IsWrap(UMOD, PIPESIZE)
  BY PipeAssumption DEF PipeTypeOK, IsRing, IsWrap
<1>1. Used \in 0 .. PIPESIZE - 1
  BY <1>0, UsedFacts DEF WriteByte
<1>2. Used' = Used + 1
  <2>1. nwrite' = IF nwrite + 1 = UMOD THEN 0 ELSE nwrite + 1
    BY <1>0, Counters, Zenon DEF WriteByte
  <2>2. Used = IF nread <= nwrite THEN nwrite - nread ELSE nwrite - nread + UMOD
    BY <1>0, Counters, Zenon DEF Used
  <2>3. nwrite' \in 0 .. UMOD - 1 /\ nread' = nread
    BY <1>0, <2>1 DEF WriteByte
  <2>4. (nwrite' - nread) % UMOD =
          IF nread <= nwrite' THEN nwrite' - nread ELSE nwrite' - nread + UMOD
    BY <1>0, <2>3, Counters, Zenon
  <2>5. Used' = IF nread <= nwrite' THEN nwrite' - nread ELSE nwrite' - nread + UMOD
    BY <2>3, <2>4, Zenon DEF Used
  <2> QED BY <1>0, <1>1, <2>1, <2>2, <2>5
<1>3. PICK ch \in Bytes : data' = [data EXCEPT ![nwrite % PIPESIZE] = ch]
  BY Zenon DEF WriteByte
<1>4. IsStore(data', data, PIPESIZE, nread + Used, ch)
  BY <1>3, UsedFacts, Zenon DEF IsStore
<1>5. Contents = Window(data, PIPESIZE, nread, Used)
  BY Zenon DEF Contents, Window
<1>6. Contents' = Window(data', PIPESIZE, nread, Used + 1)
  BY <1>2, Zenon DEF Contents, Window, WriteByte
<1>7. Window(data', PIPESIZE, nread, Used + 1) = Append(Window(data, PIPESIZE, nread, Used), ch)
  <2>1. nread \in Int /\ ch \in Bytes /\ IsRing(data, PIPESIZE, Bytes)
    BY <1>0
  <2> QED BY <1>1, <1>4, <2>1, WindowAppend
<1>8. Len(Contents) = Used
  <2>1. nread \in Int /\ Used \in Nat
    BY <1>0, <1>1
  <2>2. Len(Window(data, PIPESIZE, nread, Used)) = Used
    BY <1>0, <2>1, WindowSeq, Zenon
  <2> QED BY <1>5, <2>2, Zenon
<1>9. Contents' = Append(Contents, ch)
  BY <1>5, <1>6, <1>7, Zenon
<1>10. Len(Contents) < PIPESIZE
  BY <1>0, <1>1, <1>8
<1>11. Queue!Put(ch)
  BY <1>9, <1>10, Zenon DEF Queue!Put, WriteByte
<1>12. Used < PIPESIZE
  BY <1>0, <1>1
<1> QED BY <1>2, <1>11, <1>12, Zenon

\* piperead() delivers a byte: it is the oldest of the ring.
LEMMA ReadByteIsGet ==
  ASSUME PipeTypeOK, NEW t \in Threads, ReadByte(t)
  PROVE  Used' = Used - 1 /\ Used > 0 /\ Queue!Get
<1>0. /\ PIPESIZE \in Nat \ {0} /\ UMOD \in Nat \ {0} /\ UMOD > PIPESIZE
      /\ nread \in 0 .. UMOD - 1 /\ nwrite \in 0 .. UMOD - 1
      /\ IsRing(data, PIPESIZE, Bytes) /\ IsWrap(UMOD, PIPESIZE)
  BY PipeAssumption DEF PipeTypeOK, IsRing, IsWrap
<1>1. Used \in 0 .. UMOD - 1 /\ Used > 0
  BY <1>0, UsedFacts DEF ReadByte
<1>2. nread' = IF nread + 1 = UMOD THEN 0 ELSE nread + 1
  BY <1>0, Counters, Zenon DEF ReadByte
<1>3. Used' = Used - 1
  <2>2. Used = IF nread <= nwrite THEN nwrite - nread ELSE nwrite - nread + UMOD
    BY <1>0, Counters, Zenon DEF Used
  <2>3. nread' \in 0 .. UMOD - 1 /\ nwrite' = nwrite
    BY <1>0, <1>2 DEF ReadByte
  <2>4. (nwrite - nread') % UMOD =
          IF nread' <= nwrite THEN nwrite - nread' ELSE nwrite - nread' + UMOD
    BY <1>0, <2>3, Counters, Zenon
  <2>5. Used' = IF nread' <= nwrite THEN nwrite - nread' ELSE nwrite - nread' + UMOD
    BY <2>3, <2>4, Zenon DEF Used
  <2> QED BY <1>0, <1>1, <1>2, <2>2, <2>5
<1>4. Contents = Window(data, PIPESIZE, nread, Used)
  BY Zenon DEF Contents, Window
<1>5. Contents' = Window(data, PIPESIZE, nread', Used - 1)
  BY <1>3, Zenon DEF Contents, Window, ReadByte
<1>6. Window(data, PIPESIZE, nread', Used - 1) = Window(data, PIPESIZE, nread + 1, Used - 1)
  <2>1. CASE nread + 1 = UMOD
    <3>1. Used - 1 \in Nat /\ 0 \in Int /\ UMOD \in Nat /\ 0 + UMOD = nread + 1 /\ nread' = 0
      BY <1>0, <1>1, <1>2, <2>1
    <3>2. Window(data, PIPESIZE, 0 + UMOD, Used - 1) = Window(data, PIPESIZE, 0, Used - 1)
      BY <1>0, <3>1, WindowShift
    <3> QED BY <3>1, <3>2, Zenon
  <2>2. CASE nread + 1 # UMOD
    BY <1>0, <1>2, <2>2, Zenon
  <2> QED BY <2>1, <2>2, Zenon
<1>7. /\ Window(data, PIPESIZE, nread, Used) # <<>>
      /\ Head(Window(data, PIPESIZE, nread, Used)) = data[nread % PIPESIZE]
      /\ Tail(Window(data, PIPESIZE, nread, Used)) = Window(data, PIPESIZE, nread + 1, Used - 1)
  <2>1. nread \in Int /\ Used \in Nat \ {0}
    BY <1>0, <1>1
  <2> QED BY <1>0, <2>1, WindowTail, ZenonT(60)
<1>8. Queue!Get
  BY <1>4, <1>5, <1>6, <1>7, Zenon DEF Queue!Get, ReadByte
<1> QED BY <1>1, <1>3, <1>8, Zenon

\* Nothing but these two steps touches the ring or delivers a byte.
LEMMA OtherStepsStutter ==
  ASSUME NEW t \in Threads,
         WriteEnter(t) \/ ReadEnter(t) \/ InCall(t) \/ Close(t) \/ Kill(t)
  PROVE  WriteByte(t) \/ ReadByte(t) \/ UNCHANGED <<ring, got>>
BY Zenon DEF WriteEnter, ReadEnter, Enter, InCall, WriteCheck, WriteSleep, WriteDone, ReadCheck,
   ReadSleep, ReadDone, Relock, Close, Kill

\* The abstract queue is that of the bytes in the ring, which are never more
\* than PIPESIZE.
LEMMA RefinementStep ==
  ASSUME PipeTypeOK, Used <= PIPESIZE, [PipeNext]_pipeVars
  PROVE  (Used <= PIPESIZE)' /\ [Queue!QueueNext]_(Queue!queueVars)
<1>1. CASE UNCHANGED <<ring, got>>
  BY <1>1, Zenon DEF ring, Used, Contents, Queue!queueVars
<1>2. ASSUME NEW t \in Threads, WriteByte(t)
      PROVE  (Used <= PIPESIZE)' /\ [Queue!QueueNext]_(Queue!queueVars)
  <2>1. Used' = Used + 1 /\ Used < PIPESIZE /\ \E ch \in Bytes : Queue!Put(ch)
    BY <1>2, WriteByteIsPut, Zenon
  <2>2. Used \in Int
    BY UsedFacts
  <2>3. Used' <= PIPESIZE
    BY <2>1, <2>2, PipeAssumption
  <2> QED BY <2>1, <2>3, Zenon DEF Queue!QueueNext
<1>3. ASSUME NEW t \in Threads, ReadByte(t)
      PROVE  (Used <= PIPESIZE)' /\ [Queue!QueueNext]_(Queue!queueVars)
  <2>1. Used' = Used - 1 /\ Queue!Get
    BY <1>3, ReadByteIsGet, Zenon
  <2>2. Used \in Int
    BY UsedFacts
  <2>3. Used' <= PIPESIZE
    BY <2>1, <2>2, PipeAssumption
  <2> QED BY <2>1, <2>3, Zenon DEF Queue!QueueNext
<1>4. CASE PipeNext
  BY <1>1, <1>2, <1>3, <1>4, OtherStepsStutter, Zenon DEF PipeNext
<1> QED BY <1>1, <1>4, Zenon DEF pipeVars

\* A pipe is a bounded first-in first-out queue, for any ring size, any number
\* of threads and any wrap of the uint counters: pipewrite() and piperead() lose,
\* repeat and reorder no byte.
THEOREM PipeIsFifo == PipeSpec => ImplementsByteQueue
<1>1. PipeInit => Queue!QueueInit /\ Used <= PIPESIZE
  <2>1. SUFFICES ASSUME PipeInit PROVE Queue!QueueInit /\ Used <= PIPESIZE
    OBVIOUS
  <2>2. Used = 0
    BY <2>1, PipeAssumption DEF PipeInit, Used
  <2>3. Contents = <<>>
    BY <2>2 DEF Contents
  <2> QED BY <2>1, <2>2, <2>3, PipeAssumption DEF PipeInit, Queue!QueueInit
<1>2. PipeTypeOK /\ Used <= PIPESIZE /\ [PipeNext]_pipeVars
        => (Used <= PIPESIZE)' /\ [Queue!QueueNext]_(Queue!queueVars)
  BY RefinementStep, Zenon
<1> QED BY <1>1, <1>2, PipeTypes, PTL DEF PipeSpec, ImplementsByteQueue, Queue!QueueSpec

-----------------------------------------------------------------------------
\* cons.lock is held by the process in consoleread() that is between acquire()
\* and sleep() or release(), or by the handler while it prints.
Locks ==
  /\ \A p \in Procs : loc[p].pc \in {"read", "checked"} <=> lock = p
  /\ intr \in {"spin", "put"} <=> lock = "intr"

\* A read in progress still wants a character; a batch of uartwrite() has one.
Counts ==
  \A p \in Procs :
    /\ loc[p].pc \in {"acquire", "read", "checked", "asleep"} => loc[p].n > 0
    /\ loc[p].pc \in {"write", "tx_asleep"} => loc[p].target > 0

\* Between the look at cons.r == cons.w and sleep() nothing arrives.
LineReadersOwed == \A p \in Procs : loc[p].pc \in {"checked", "asleep"} => r = w

\* A line end is never part of the unfinished line.
Unfinished == \A k \in 1 .. Distance(w, e) : Edit[k] = "x"

\* The characters in the transmitter and those that may be added without a look
\* at it: printf() and the echo have seen it idle, uartwrite() finds tx_busy clear.
One(b) == IF b THEN 1 ELSE 0
OnTheirWay == thr + One(pr = "put") + One(intr = "put") + One(~tx_busy) <= 3

ConsInv ==
  /\ TypeOK /\ Locks /\ Counts /\ LineReadersOwed /\ Unfinished
  /\ TransmitInterruptComes /\ OnTheirWay
-----------------------------------------------------------------------------
(* The indices *)

\* The sizes, without the fact that UINT is a multiple of SIZE.
LEMMA Sizes == SIZE \in Nat \ {0} /\ UINT \in Nat \ {0} /\ UINT > SIZE /\ IsWrap(UINT, SIZE)
BY ConsoleAssumption DEF IsWrap

\* The distance from one unsigned index to another.
LEMMA UsedIs ==
  ASSUME NEW a \in 0 .. UINT - 1, NEW b \in 0 .. UINT - 1
  PROVE  /\ Distance(a, b) = IF a <= b THEN b - a ELSE b - a + UINT
         /\ Distance(a, b) \in 0 .. UINT - 1
         /\ Distance(a, b) = 0 <=> a = b
BY Sizes DEF Distance

\* cons.e++ and cons.w = cons.e: the buffer grows by one character.
LEMMA Advance ==
  ASSUME NEW a \in 0 .. UINT - 1, NEW b \in 0 .. UINT - 1, Distance(a, b) < UINT - 1
  PROVE  Inc(b) \in 0 .. UINT - 1 /\ Distance(a, Inc(b)) = Distance(a, b) + 1
<1>1. Inc(b) = IF b + 1 = UINT THEN 0 ELSE b + 1
  BY Sizes DEF Inc
<1>2. Inc(b) \in 0 .. UINT - 1
  BY <1>1, Sizes
<1>3. Distance(a, b) = IF a <= b THEN b - a ELSE b - a + UINT
  BY UsedIs, Zenon
<1>4. Distance(a, Inc(b)) = IF a <= Inc(b) THEN Inc(b) - a ELSE Inc(b) - a + UINT
  BY <1>2, UsedIs, Zenon
<1> QED BY <1>1, <1>2, <1>3, <1>4, Sizes

\* cons.e--: it shrinks by one.
LEMMA Retreat ==
  ASSUME NEW a \in 0 .. UINT - 1, NEW b \in 0 .. UINT - 1, Distance(a, b) > 0
  PROVE  Dec(b) \in 0 .. UINT - 1 /\ Distance(a, Dec(b)) = Distance(a, b) - 1
<1>1. Dec(b) = IF b = 0 THEN UINT - 1 ELSE b - 1
  BY Sizes DEF Dec
<1>2. Dec(b) \in 0 .. UINT - 1
  BY <1>1, Sizes
<1>3. Distance(a, b) = IF a <= b THEN b - a ELSE b - a + UINT
  BY UsedIs, Zenon
<1>4. Distance(a, Dec(b)) = IF a <= Dec(b) THEN Dec(b) - a ELSE Dec(b) - a + UINT
  BY <1>2, UsedIs, Zenon
<1> QED BY <1>1, <1>2, <1>3, <1>4, Sizes

\* cons.r++: one character fewer is left.
LEMMA Consume ==
  ASSUME NEW a \in 0 .. UINT - 1, NEW b \in 0 .. UINT - 1, Distance(a, b) > 0
  PROVE  Inc(a) \in 0 .. UINT - 1 /\ Distance(Inc(a), b) = Distance(a, b) - 1
<1>1. Inc(a) = IF a + 1 = UINT THEN 0 ELSE a + 1
  BY Sizes DEF Inc
<1>2. Inc(a) \in 0 .. UINT - 1
  BY <1>1, Sizes
<1>3. Distance(a, b) = IF a <= b THEN b - a ELSE b - a + UINT
  BY UsedIs, Zenon
<1>4. Distance(Inc(a), b) = IF Inc(a) <= b THEN b - Inc(a) ELSE b - Inc(a) + UINT
  BY <1>2, UsedIs, Zenon
<1> QED BY <1>1, <1>2, <1>3, <1>4, Sizes

-----------------------------------------------------------------------------
(* The cases of a turn of uartintr()'s loop over the characters received *)

RxSame == UNCHANGED <<killedProcs, tx_busy, thr, irq, scene>>
RxNone == intr = "rx" /\ intr' = "off" /\ UNCHANGED <<cons, lock, loc, rx, pr>> /\ RxSame
RxTake == intr = "rx" /\ rx # <<>> /\ lock = Nobody /\ rx' = Tail(rx) /\ RxSame
RxDump == RxTake /\ pr' = "intr" /\ Echo /\ UNCHANGED <<cons, loc>>
RxEdit(to) ==
  /\ RxTake /\ e' = to
  /\ (to = e /\ UNCHANGED <<lock, intr>>) \/ Echo
  /\ UNCHANGED <<buf, r, w, loc, pr>>
RxStore(c) == RxTake /\ Distance(r, e) < SIZE /\ Store(c) /\ Echo /\ UNCHANGED pr
RxFull == RxTake /\ UNCHANGED <<cons, lock, loc, intr, pr>>

\* What consoleintr() does with a character.
LEMMA RxCases ==
  ASSUME rx \in Seq(Keys), IntrRx
  PROVE  \/ RxNone \/ RxDump \/ RxEdit(KillTo) \/ RxEdit(EraseTo) \/ RxFull
         \/ \E c \in Stored : RxStore(c)
<1>1. CASE rx = <<>>
  BY <1>1, Zenon DEF IntrRx, RxNone, RxSame
<1>2. CASE rx # <<>>
  <2> DEFINE c == Head(rx)
  <2>1. c \in Keys
    BY <1>2
  <2>2. RxTake
    BY <1>2, Zenon DEF IntrRx, RxTake, RxSame
  <2>3. CASE c = "dump"
    BY <1>2, <2>2, <2>3, Zenon DEF IntrRx, RxDump
  <2>4. CASE c = "kill"
    BY <1>2, <2>2, <2>4, Zenon DEF IntrRx, RxEdit
  <2>5. CASE c = "erase"
    BY <1>2, <2>2, <2>5, Zenon DEF IntrRx, RxEdit
  <2>6. CASE c \in Stored
    <3>1. c # "dump" /\ c # "kill" /\ c # "erase"
      BY <2>6, Zenon DEF Stored
    <3>2. /\ IF Distance(r, e) < SIZE THEN Store(c) /\ Echo ELSE UNCHANGED <<cons, lock, loc, intr>>
          /\ UNCHANGED pr
      BY <1>2, <3>1, Zenon DEF IntrRx
    <3> QED BY <2>2, <2>6, <3>2, Zenon DEF RxStore, RxFull
  <2> QED BY <2>1, <2>3, <2>4, <2>5, <2>6, Zenon DEF Keys
<1> QED BY <1>1, <1>2, Zenon
-----------------------------------------------------------------------------
(* Types *)

\* Where the processes are.
Locs ==
  [Procs -> [pc : {"idle", "acquire", "read", "checked", "asleep",
                             "copyin", "write", "tx_asleep"}, n : Nat, target : Nat]]

\* TypeOK without the indices.
Shapes ==
  /\ buf \in [0 .. SIZE - 1 -> Stored]
  /\ lock \in Procs \cup {"intr", Nobody} /\ killedProcs \subseteq Procs
  /\ loc \in [Procs -> [pc : {"idle", "acquire", "read", "checked", "asleep",
                             "copyin", "write", "tx_asleep"}, n : Nat, target : Nat]]
  /\ thr \in Nat /\ tx_busy \in BOOLEAN /\ irq \in BOOLEAN /\ rx \in Seq(Keys)
  /\ intr \in {"off", "tx", "rx", "spin", "put"} /\ pr \in {"free", "spin", "put", "intr"}
  /\ scene \in Scenes

\* The order of the three indices around the buffer.
Indices ==
  /\ r \in 0 .. UINT - 1 /\ w \in 0 .. UINT - 1 /\ e \in 0 .. UINT - 1
  /\ Distance(r, w) + Distance(w, e) = Distance(r, e) /\ Distance(r, e) <= SIZE

\* The type invariant splits into the shapes and the indices of cons.
LEMMA TypeSplit == TypeOK <=> Shapes /\ Indices
BY Zenon DEF TypeOK, Shapes, Indices

\* The steps of one actor.
Steps ==
  \/ \E c \in scene.keys : Type(c)
  \/ Transmit \/ IntrAck \/ IntrTx \/ IntrRx \/ IntrSpin \/ IntrPut
  \/ PrintfBegin \/ PrintfSpin \/ PrintfPut

ProcSteps(p) ==
  \/ Call(p) \/ Kkill(p) \/ ReadAcquire(p) \/ ReadEmpty(p) \/ ReadBlock(p) \/ ReadChar(p)
  \/ WriteBatch(p) \/ WriteChar(p)

\* Every step is one of these.
LEMMA NextCases == Next => Steps \/ \E p \in Procs : ProcSteps(p)
BY Zenon DEF Next, Handler, Printer, Step, Steps, ProcSteps

\* wakeup() moves sleepers and nothing else.
LEMMA WakeShape ==
  ASSUME Shapes, NEW from, NEW to \in {"write", "acquire"}
  PROVE  Wake(from, to) \in Locs
BY Zenon DEF Shapes, Locs, Wake

\* The device, the handler and printf() keep the types.
LEMMA ShapesStep ==
  ASSUME Shapes, Indices, Steps
  PROVE  Shapes'
<1> USE DEF cons
<1>1. ASSUME NEW c \in scene.keys, Type(c) PROVE Shapes'
  <2>1. c \in Keys
    BY <1>1, ConsoleAssumption, Zenon DEF Shapes
  <2>2. rx' \in Seq(Keys)
    BY <1>1, <2>1 DEF Shapes, Type
  <2> QED BY <1>1, <2>2, Zenon DEF Shapes, Type
<1>2. CASE Transmit
  BY <1>2 DEF Shapes, Transmit
<1>3. CASE IntrAck
  BY <1>3, Zenon DEF Shapes, IntrAck
<1>4. CASE IntrTx
  <2>1. CASE thr = 0
    <3>1. loc' \in Locs
      BY <1>4, <2>1, WakeShape, Zenon DEF IntrTx
    <3> QED BY <1>4, <2>1, <3>1, Zenon DEF Shapes, Locs, IntrTx
  <2>2. CASE thr # 0
    BY <1>4, <2>2, Zenon DEF Shapes, IntrTx
  <2> QED BY <2>1, <2>2, Zenon
<1>5. CASE IntrRx
  <2>1. rx \in Seq(Keys) /\ (rx # <<>> => Tail(rx) \in Seq(Keys))
    BY DEF Shapes
  <2>2. CASE RxNone
    BY <2>2, Zenon DEF Shapes, RxNone, RxSame
  <2>3. CASE RxDump
    BY <2>1, <2>3, Zenon DEF Shapes, RxDump, RxTake, RxSame, Echo
  <2>4. ASSUME NEW to, RxEdit(to) PROVE Shapes'
    BY <2>1, <2>4, Zenon DEF Shapes, RxEdit, RxTake, RxSame, Echo
  <2>5. CASE RxFull
    BY <2>1, <2>5, Zenon DEF Shapes, RxFull, RxTake, RxSame
  <2>6. ASSUME NEW c \in Stored, RxStore(c) PROVE Shapes'
    <3>1. e % SIZE \in 0 .. SIZE - 1
      BY Sizes DEF Indices
    <3>2. buf' \in [0 .. SIZE - 1 -> Stored]
      BY <2>6, <3>1, Zenon DEF Shapes, RxStore, Store
    <3>3. loc' = Wake("asleep", "acquire") \/ loc' = loc
      BY <2>6, Zenon DEF RxStore, Store
    <3>4. loc' \in Locs
      BY <3>3, WakeShape DEF Shapes, Locs
    <3> QED BY <2>1, <2>6, <3>2, <3>4, Zenon DEF Shapes, Locs, RxStore, RxTake, RxSame, Echo
  <2> QED BY <1>5, <2>1, <2>2, <2>3, <2>4, <2>5, <2>6, RxCases, Zenon
<1>6. CASE IntrSpin
  BY <1>6, Zenon DEF Shapes, IntrSpin
<1>7. CASE IntrPut
  BY <1>7 DEF Shapes, IntrPut
<1>8. CASE PrintfBegin \/ PrintfSpin \/ PrintfPut
  BY <1>8 DEF Shapes, PrintfBegin, PrintfSpin, PrintfPut
<1> QED BY <1>1, <1>2, <1>3, <1>4, <1>5, <1>6, <1>7, <1>8, Zenon DEF Steps

\* So do the system calls; their counts never go below zero.
LEMMA ShapesProcStep ==
  ASSUME Shapes, Counts, NEW p \in Procs, ProcSteps(p)
  PROVE  Shapes'
<1> USE DEF cons
<1>0. loc[p].n \in Nat /\ loc[p].target \in Nat
  BY Zenon DEF Shapes
<1>1. CASE Call(p)
  <2>1. PICK len \in Lens, at \in scene.calls :
          loc' = [loc EXCEPT ![p] = [pc |-> at, n |-> len, target |-> len]]
    BY <1>1, Zenon DEF Call
  <2>2. len \in Nat /\ at \in {"acquire", "copyin"}
    BY <2>1, ConsoleAssumption, Zenon DEF Shapes
  <2> QED BY <1>1, <2>1, <2>2, Zenon DEF Shapes, Call
<1>2. CASE Kkill(p)
  BY <1>2, ZenonT(30) DEF Shapes, Kkill
<1>3. CASE ReadAcquire(p)
  BY <1>3, Zenon DEF Shapes, ReadAcquire
<1>4. CASE ReadEmpty(p)
  <2>1. CASE ReadReturn(p)
    BY <1>4, <2>1, Zenon DEF Shapes, ReadEmpty, ReadReturn, Idle
  <2>2. CASE loc' = [loc EXCEPT ![p].pc = "checked"] /\ UNCHANGED lock
    BY <1>4, <2>2, Zenon DEF Shapes, ReadEmpty
  <2> QED BY <1>4, <2>1, <2>2, Zenon DEF ReadEmpty
<1>5. CASE ReadBlock(p)
  BY <1>5, Zenon DEF Shapes, ReadBlock
<1>6. CASE ReadChar(p)
  <2>1. loc[p].n > 0
    BY <1>6, Zenon DEF Counts, ReadChar
  <2>2. CASE ReadReturn(p)
    BY <1>6, <2>2, Zenon DEF Shapes, ReadChar, ReadReturn, Idle
  <2>3. CASE loc' = [loc EXCEPT ![p].n = @ - 1] /\ UNCHANGED lock
    <3>1. loc[p].n - 1 \in Nat
      BY <1>0, <2>1
    <3> QED BY <1>6, <2>3, <3>1, Zenon DEF Shapes, ReadChar
  <2> QED BY <1>6, <2>2, <2>3, Zenon DEF ReadChar
<1>7. CASE WriteBatch(p)
  <2>1. CASE loc' = [loc EXCEPT ![p] = Idle]
    BY <1>7, <2>1, Zenon DEF Shapes, WriteBatch, Idle
  <2>2. CASE \E k \in Nat : k <= loc[p].n /\
               loc' = [loc EXCEPT ![p] = [pc |-> "write", n |-> @.n - k, target |-> k]]
    <3>1. PICK k \in Nat : k <= loc[p].n /\
               loc' = [loc EXCEPT ![p] = [pc |-> "write", n |-> @.n - k, target |-> k]]
      BY <2>2, Zenon
    <3>2. loc[p].n - k \in Nat
      BY <1>0, <3>1
    <3> QED BY <1>7, <3>1, <3>2, Zenon DEF Shapes, WriteBatch
  <2>3. (IF loc[p].n < BATCH THEN loc[p].n ELSE BATCH) \in Nat
        /\ (IF loc[p].n < BATCH THEN loc[p].n ELSE BATCH) <= loc[p].n
    BY <1>0, ConsoleAssumption
  <2> QED BY <1>7, <2>1, <2>2, <2>3, Zenon DEF WriteBatch
<1>8. CASE WriteChar(p)
  <2>1. loc[p].target - 1 \in Nat
    BY <1>0, <1>8 DEF Counts, WriteChar
  <2>2. CASE tx_busy
    BY <1>8, <2>2, ZenonT(60) DEF Shapes, WriteChar
  <2>3. CASE ~tx_busy
    <3>1. PICK at \in {"copyin", "write"} :
            loc' = [loc EXCEPT ![p].target = @ - 1, ![p].pc = at]
      BY <1>8, <2>3, Zenon DEF WriteChar
    <3>2. loc \in Locs
      BY Zenon DEF Shapes, Locs
    <3>3. [loc EXCEPT ![p].target = @ - 1] \in Locs
      BY <2>1, <3>2, Zenon DEF Locs
    <3>4. loc' = [[loc EXCEPT ![p].target = @ - 1] EXCEPT ![p].pc = at]
      BY <3>1
    <3>5. loc' \in Locs
      BY <3>3, <3>4, ZenonT(30) DEF Locs
    <3> QED BY <1>8, <2>3, <3>5, SMTT(30), Z3T(30) DEF Shapes, Locs, WriteChar
  <2> QED BY <2>2, <2>3, Zenon
<1> QED BY <1>1, <1>2, <1>3, <1>4, <1>5, <1>6, <1>7, <1>8, Zenon DEF ProcSteps
-----------------------------------------------------------------------------
(* Locks, counts and sleepers *)

\* wakeup() of a reader or a writer, seen from one process.
LEMMA WakeIs ==
  ASSUME loc \in Locs, NEW from, NEW to, NEW p \in Procs
  PROVE  /\ Wake(from, to)[p].pc = IF loc[p].pc = from THEN to ELSE loc[p].pc
         /\ Wake(from, to)[p].n = loc[p].n
         /\ Wake(from, to)[p].target = loc[p].target
BY Zenon DEF Wake, Locs

\* What the device, the handler and printf() do to the processes: nothing, wake
\* the writers, or, with cons.lock free and the line finished, wake the readers.
LEMMA StepsWake ==
  ASSUME Shapes, Steps
  PROVE  \/ loc' = loc /\ UNCHANGED <<r, w>>
         \/ loc' = Wake("tx_asleep", "write") /\ UNCHANGED <<r, w, lock>>
         \/ loc' = Wake("asleep", "acquire") /\ lock = Nobody
<1> USE DEF cons
<1>1. CASE IntrRx
  <2>1. rx \in Seq(Keys)
    BY Zenon DEF Shapes
  <2>2. CASE RxNone \/ RxDump \/ RxFull
    BY <2>2, Zenon DEF RxNone, RxDump, RxFull
  <2>3. ASSUME NEW to, RxEdit(to) PROVE loc' = loc /\ UNCHANGED <<r, w>>
    BY <2>3, Zenon DEF RxEdit
  <2>4. ASSUME NEW c \in Stored, RxStore(c)
        PROVE  \/ loc' = loc /\ UNCHANGED <<r, w>>
               \/ loc' = Wake("asleep", "acquire") /\ lock = Nobody
    BY <2>4, Zenon DEF RxStore, RxTake, Store
  <2> QED BY <1>1, <2>1, <2>2, <2>3, <2>4, RxCases, Zenon
<1>2. CASE IntrTx
  BY <1>2, Zenon DEF IntrTx
<1>3. CASE ~IntrRx /\ ~IntrTx
  BY <1>3, Zenon
     DEF Steps, Type, Transmit, IntrAck, IntrSpin, IntrPut, PrintfBegin, PrintfSpin, PrintfPut
<1> QED BY <1>1, <1>2, <1>3, Zenon

\* cons.lock of the handler: taken for the echo, given back after the last character.
LEMMA StepsLock ==
  ASSUME Shapes, Locks, Steps
  PROVE  /\ (lock' = lock) \/ (lock = Nobody /\ lock' = "intr") \/ (lock = "intr" /\ lock' = Nobody)
         /\ intr' \in {"spin", "put"} <=> lock' = "intr"
<1> USE ConsoleAssumption DEF cons, Locks
<1>1. CASE IntrRx
  <2>1. rx \in Seq(Keys)
    BY Zenon DEF Shapes
  <2>2. CASE RxNone
    BY <2>2, Zenon DEF RxNone
  <2>3. CASE RxDump
    BY <2>3, Zenon DEF RxDump, RxTake, Echo
  <2>4. CASE RxFull
    BY <2>4, Zenon DEF RxFull, RxTake
  <2>5. ASSUME NEW to, RxEdit(to)
        PROVE  /\ (lock' = lock) \/ (lock = Nobody /\ lock' = "intr")
               /\ intr' \in {"spin", "put"} <=> lock' = "intr"
    BY <2>5 DEF RxEdit, RxTake, Echo
  <2>6. ASSUME NEW c \in Stored, RxStore(c)
        PROVE  /\ (lock' = lock) \/ (lock = Nobody /\ lock' = "intr")
               /\ intr' \in {"spin", "put"} <=> lock' = "intr"
    BY <2>6, Zenon DEF RxStore, RxTake, Echo
  <2> QED BY <1>1, <2>1, <2>2, <2>3, <2>4, <2>5, <2>6, RxCases, Zenon
<1>2. CASE IntrPut
  BY <1>2, Zenon DEF IntrPut
<1>3. CASE IntrSpin
  BY <1>3, Zenon DEF IntrSpin
<1>4. CASE IntrAck \/ IntrTx
  BY <1>4, Zenon DEF IntrAck, IntrTx
<1>5. CASE ~IntrRx /\ ~IntrPut /\ ~IntrSpin /\ ~IntrAck /\ ~IntrTx
  BY <1>5, Zenon DEF Steps, Type, Transmit, PrintfBegin, PrintfSpin, PrintfPut
<1> QED BY <1>1, <1>2, <1>3, <1>4, <1>5, Zenon

\* The handler and the device leave the readers their lock, their counts and
\* their reason to sleep.
LEMMA LineReadersStep ==
  ASSUME Shapes, Locks, Counts, LineReadersOwed, Steps
  PROVE  Locks' /\ Counts' /\ LineReadersOwed'
<1>0. loc \in Locs
  BY Zenon DEF Shapes, Locs
<1>1. CASE loc' = loc /\ UNCHANGED <<r, w>>
  BY <1>1, StepsLock, ConsoleAssumption, Zenon DEF Locks, Counts, LineReadersOwed
<1>2. CASE loc' = Wake("tx_asleep", "write") /\ UNCHANGED <<r, w, lock>>
  <2>1. \A p \in Procs : /\ loc'[p].pc = IF loc[p].pc = "tx_asleep" THEN "write" ELSE loc[p].pc
                         /\ loc'[p].n = loc[p].n /\ loc'[p].target = loc[p].target
    BY <1>0, <1>2, WakeIs
  <2> QED BY <1>2, <2>1, StepsLock, ConsoleAssumption, ZenonT(60) DEF Locks, Counts, LineReadersOwed
<1>3. CASE loc' = Wake("asleep", "acquire") /\ lock = Nobody
  <2>1. \A p \in Procs : /\ loc'[p].pc = IF loc[p].pc = "asleep" THEN "acquire" ELSE loc[p].pc
                         /\ loc'[p].n = loc[p].n /\ loc'[p].target = loc[p].target
    BY <1>0, <1>3, WakeIs
  <2> QED BY <1>3, <2>1, StepsLock, ConsoleAssumption DEF Locks, Counts, LineReadersOwed
<1> QED BY <1>1, <1>2, <1>3, StepsWake, Zenon

\* So does every step of a system call: a reader takes a character only when
\* there is one, and then nobody sleeps on the buffer.
LEMMA ReadersProcStep ==
  ASSUME Shapes, Locks, Counts, LineReadersOwed, NEW p \in Procs, ProcSteps(p)
  PROVE  Locks' /\ Counts' /\ LineReadersOwed'
<1> USE ConsoleAssumption DEF Shapes, Locks, Counts, LineReadersOwed, cons
<1>1. CASE Call(p)
  <2>1. PICK len \in Lens, at \in scene.calls :
          loc' = [loc EXCEPT ![p] = [pc |-> at, n |-> len, target |-> len]]
    BY <1>1, Zenon DEF Call
  <2>2. len \in Nat /\ len > 0 /\ at \in {"acquire", "copyin"}
    BY <2>1
  <2> QED BY <1>1, <2>1, <2>2 DEF Call
<1>2. CASE Kkill(p)
  BY <1>2, SMTT(30), Z3T(30) DEF Kkill
<1>3. CASE ReadAcquire(p)
  BY <1>3 DEF ReadAcquire
<1>4. CASE ReadEmpty(p)
  <2>1. CASE ReadReturn(p)
    BY <1>4, <2>1, Zenon DEF ReadEmpty, ReadReturn, Idle
  <2>2. CASE loc' = [loc EXCEPT ![p].pc = "checked"] /\ UNCHANGED lock
    BY <1>4, <2>2 DEF ReadEmpty
  <2> QED BY <1>4, <2>1, <2>2, Zenon DEF ReadEmpty
<1>5. CASE ReadBlock(p)
  BY <1>5 DEF ReadBlock
<1>6. CASE ReadChar(p)
  <2>1. CASE ReadReturn(p)
    BY <1>6, <2>1 DEF ReadChar, ReadReturn, Idle
  <2>2. CASE loc' = [loc EXCEPT ![p].n = @ - 1] /\ UNCHANGED lock /\ loc[p].n # 1
    BY <1>6, <2>2 DEF ReadChar
  <2> QED BY <1>6, <2>1, <2>2, Zenon DEF ReadChar
<1>7. CASE WriteBatch(p)
  <2>1. CASE loc' = [loc EXCEPT ![p] = Idle]
    BY <1>7, <2>1 DEF WriteBatch, Idle
  <2>2. CASE \E k \in Nat : k > 0 /\
               loc' = [loc EXCEPT ![p] = [pc |-> "write", n |-> @.n - k, target |-> k]]
    BY <1>7, <2>2 DEF WriteBatch
  <2>3. loc[p].n > 0 => /\ (IF loc[p].n < BATCH THEN loc[p].n ELSE BATCH) \in Nat
                        /\ (IF loc[p].n < BATCH THEN loc[p].n ELSE BATCH) > 0
    OBVIOUS
  <2> QED BY <1>7, <2>1, <2>2, <2>3, Zenon DEF WriteBatch
<1>8. CASE WriteChar(p)
  <2>0. UNCHANGED <<r, w, lock, intr>> /\ loc[p].pc = "write"
    BY <1>8, Zenon DEF WriteChar
  <2>1. CASE loc' = [loc EXCEPT ![p].pc = "tx_asleep"]
    BY <2>0, <2>1
  <2>2. CASE ~tx_busy
    <3>1. \A q \in Procs : q # p => loc'[q] = loc[q]
      BY <1>8, <2>2, Zenon DEF WriteChar
    <3>2. /\ loc'[p].pc = IF loc[p].target = 1 THEN "copyin" ELSE "write"
          /\ loc'[p].target = loc[p].target - 1
      BY <1>8, <2>2 DEF WriteChar
    <3>3. loc[p].target \in Nat /\ loc[p].target > 0
      BY <2>0, Zenon
    <3>4. loc'[p].pc \in {"copyin", "write"} /\ (loc'[p].pc = "write" => loc'[p].target > 0)
      BY <3>2, <3>3
    <3>5. Locks'
      BY <2>0, <3>1, <3>4, Zenon
    <3> QED BY <2>0, <3>1, <3>4, <3>5, Zenon
  <2> QED BY <1>8, <2>1, <2>2, Zenon DEF WriteChar
<1> QED BY <1>1, <1>2, <1>3, <1>4, <1>5, <1>6, <1>7, <1>8, Zenon DEF ProcSteps
-----------------------------------------------------------------------------
(* The transmitter *)

\* A turn of the loop over the characters received leaves the transmitter alone.
LEMMA RxTransmitter ==
  ASSUME Shapes, IntrRx
  PROVE  /\ UNCHANGED <<thr, tx_busy, irq>> /\ intr = "rx" /\ intr' \notin {"tx", "put"}
         /\ pr' = "put" => pr = "put"
<1>1. rx \in Seq(Keys) /\ UNCHANGED <<thr, tx_busy, irq>> /\ intr = "rx"
  BY Zenon DEF Shapes, IntrRx
<1>2. CASE RxNone
  BY <1>1, <1>2, Zenon DEF RxNone
<1>3. CASE RxDump
  BY <1>1, <1>3, Zenon DEF RxDump, Echo
<1>4. CASE RxFull
  BY <1>1, <1>4, Zenon DEF RxFull
<1>5. ASSUME NEW to, RxEdit(to) PROVE intr' \notin {"tx", "put"} /\ pr' = pr
  BY <1>1, <1>5, Zenon DEF RxEdit, Echo
<1>6. ASSUME NEW c \in Stored, RxStore(c) PROVE intr' \notin {"tx", "put"} /\ pr' = pr
  BY <1>1, <1>6, Zenon DEF RxStore, Echo
<1> QED BY <1>1, <1>2, <1>3, <1>4, <1>5, <1>6, RxCases, Zenon

\* Whoever puts a character has seen the transmitter idle, or found tx_busy
\* clear; the handler clears tx_busy only with the transmitter idle.
LEMMA OnTheirWayStep ==
  ASSUME Shapes, OnTheirWay, Steps \/ \E p \in Procs : ProcSteps(p)
  PROVE  OnTheirWay'
<1>0. thr \in Nat
  BY Zenon DEF Shapes
<1> USE <1>0 DEF OnTheirWay, One
<1>1. CASE IntrRx
  <2>1. (pr' = "put" => pr = "put") /\ UNCHANGED <<thr, tx_busy>> /\ intr' # "put"
    BY <1>1, RxTransmitter, Zenon
  <2> QED BY <2>1
<1>2. CASE Transmit
  BY <1>2 DEF Transmit
<1>3. CASE IntrTx
  BY <1>3 DEF IntrTx
<1>4. CASE IntrSpin
  BY <1>4 DEF IntrSpin
<1>5. CASE IntrPut
  BY <1>5 DEF IntrPut
<1>6. CASE PrintfBegin \/ PrintfSpin
  BY <1>6 DEF PrintfBegin, PrintfSpin
<1>7. CASE PrintfPut
  BY <1>7 DEF PrintfPut
<1>8. ASSUME NEW p \in Procs, WriteChar(p) PROVE OnTheirWay'
  BY <1>8 DEF WriteChar
<1>9. ASSUME NEW p \in Procs, ProcSteps(p), ~WriteChar(p) PROVE OnTheirWay'
  <2>1. UNCHANGED <<thr, tx_busy, pr, intr>>
    BY <1>9, Zenon
       DEF ProcSteps, Call, Kkill, ReadAcquire, ReadEmpty, ReadBlock, ReadChar, WriteBatch
  <2> QED BY <2>1, Zenon
<1>10. CASE IntrAck
  BY <1>10, Zenon DEF IntrAck
<1>11. ASSUME NEW c \in scene.keys, Type(c) PROVE OnTheirWay'
  BY <1>11, Zenon DEF Type
<1> QED BY <1>1, <1>2, <1>3, <1>4, <1>5, <1>6, <1>7, <1>8, <1>9, <1>10, <1>11, Zenon DEF Steps

\* tx_busy is never left set with nothing to clear it.
LEMMA InterruptStep ==
  ASSUME Shapes, TransmitInterruptComes, Steps \/ \E p \in Procs : ProcSteps(p)
  PROVE  TransmitInterruptComes'
<1>0. thr \in Nat /\ tx_busy \in BOOLEAN /\ irq \in BOOLEAN
  BY Zenon DEF Shapes
<1> USE <1>0 DEF TransmitInterruptComes
<1>1. CASE IntrRx
  BY <1>1, RxTransmitter, Zenon
<1>2. CASE Transmit
  <2>1. tx_busy' = tx_busy /\ intr' = intr
    BY <1>2, Zenon DEF Transmit
  <2>2. (irq => irq') /\ (thr = 1 => irq')
    BY <1>2, Zenon DEF Transmit
  <2>3. thr' = thr - 1
    BY <1>2, Zenon DEF Transmit
  <2>4. thr > 0 => thr' > 0 \/ irq'
    BY <2>2, <2>3
  <2> QED BY <2>1, <2>2, <2>4, Zenon
<1>3. CASE IntrTx
  <2>1. CASE thr = 0
    <3>1. ~tx_busy'
      BY <1>3, <2>1, Zenon DEF IntrTx
    <3> QED BY <3>1, Zenon
  <2>2. CASE thr # 0
    <3>1. thr' > 0
      BY <1>3, <2>2 DEF IntrTx
    <3> QED BY <3>1, Zenon
  <2> QED BY <2>1, <2>2, Zenon
<1>4. CASE IntrAck
  <2>1. intr' = "tx"
    BY <1>4, Zenon DEF IntrAck
  <2> QED BY <2>1, Zenon
<1>5. CASE IntrSpin \/ IntrPut \/ PrintfBegin \/ PrintfSpin \/ PrintfPut
  <2>1. tx_busy' = tx_busy /\ irq' = irq /\ (intr = "tx" => intr' = "tx")
    BY <1>5, Zenon DEF IntrSpin, IntrPut, PrintfBegin, PrintfSpin, PrintfPut
  <2>2. thr > 0 => thr' > 0
    BY <1>5 DEF IntrSpin, IntrPut, PrintfBegin, PrintfSpin, PrintfPut
  <2> QED BY <2>1, <2>2, Zenon
<1>6. ASSUME NEW p \in Procs, WriteChar(p) PROVE TransmitInterruptComes'
  <2>1. irq' = irq /\ intr' = intr
    BY <1>6, Zenon DEF WriteChar
  <2>2. thr' > 0 \/ (thr' = thr /\ tx_busy' = tx_busy)
    BY <1>6 DEF WriteChar
  <2> QED BY <2>1, <2>2, Zenon
<1>7. ASSUME NEW p \in Procs, ProcSteps(p), ~WriteChar(p) PROVE TransmitInterruptComes'
  <2>1. UNCHANGED <<thr, tx_busy, irq, intr>>
    BY <1>7, Zenon
       DEF ProcSteps, Call, Kkill, ReadAcquire, ReadEmpty, ReadBlock, ReadChar, WriteBatch
  <2> QED BY <2>1, Zenon
<1>8. ASSUME NEW c \in scene.keys, Type(c) PROVE TransmitInterruptComes'
  <2>1. irq' /\ tx_busy' = tx_busy
    BY <1>8, Zenon DEF Type
  <2> QED BY <2>1, Zenon
<1> QED BY <1>1, <1>2, <1>3, <1>4, <1>5, <1>6, <1>7, <1>8, Zenon DEF Steps
-----------------------------------------------------------------------------
(* The buffer *)

\* Going on from an index by the distance to another arrives there.
LEMMA Arrives ==
  ASSUME NEW a \in 0 .. UINT - 1, NEW b \in 0 .. UINT - 1
  PROVE  /\ (a + Distance(a, b)) % SIZE = b % SIZE
         /\ \A d : \A u \in Nat : Window(d, SIZE, a + Distance(a, b), u) = Window(d, SIZE, b, u)
<1>1. a + Distance(a, b) = b \/ a + Distance(a, b) = b + UINT
  <2>1. Distance(a, b) = IF a <= b THEN b - a ELSE b - a + UINT
    BY UsedIs, Zenon
  <2> QED BY <2>1, Sizes
<1>2. b \in Int
  BY Sizes
<1>3. (b + UINT) % SIZE = b % SIZE
  BY <1>2, Sizes, ModShift, Zenon
<1>4. \A d : \A u \in Nat : Window(d, SIZE, b + UINT, u) = Window(d, SIZE, b, u)
  BY <1>2, Sizes, WindowShift
<1> QED BY <1>1, <1>3, <1>4, Zenon

\* What is in the buffer between two indices, in terms of windows.
LEMMA SpanIs ==
  ASSUME NEW d, NEW a \in 0 .. UINT - 1, NEW b \in 0 .. UINT - 1
  PROVE  Wrapped(d, SIZE, UINT, a, Distance(a, b)) = Window(d, SIZE, a, Distance(a, b))
<1>1. Distance(a, b) \in 0 .. UINT - 1
  BY UsedIs, Zenon
<1>2. Distance(a, b) \in 0 .. UINT
  BY <1>1, Sizes
<1> QED BY <1>2, Sizes, WindowWrap

\* The finished and the unfinished characters, before and after a step.
LEMMA ReadyEdit ==
  /\ Indices => /\ Ready = Window(buf, SIZE, r, Distance(r, w))
                /\ Edit = Window(buf, SIZE, w, Distance(w, e))
  /\ Indices' => /\ Ready' = Window(buf', SIZE, r', Distance(r', w'))
                 /\ Edit' = Window(buf', SIZE, w', Distance(w', e'))
<1>1. ASSUME Indices PROVE /\ Ready = Window(buf, SIZE, r, Distance(r, w))
                           /\ Edit = Window(buf, SIZE, w, Distance(w, e))
  <2>1. /\ Wrapped(buf, SIZE, UINT, r, Distance(r, w)) = Window(buf, SIZE, r, Distance(r, w))
        /\ Wrapped(buf, SIZE, UINT, w, Distance(w, e)) = Window(buf, SIZE, w, Distance(w, e))
    BY <1>1, SpanIs, Zenon DEF Indices
  <2>2. /\ Ready = Wrapped(buf, SIZE, UINT, r, Distance(r, w))
        /\ Edit = Wrapped(buf, SIZE, UINT, w, Distance(w, e))
    BY Zenon DEF Ready, Edit, Span, Wrapped
  <2> QED BY <2>1, <2>2, Zenon
<1>2. ASSUME Indices' PROVE /\ Ready' = Window(buf', SIZE, r', Distance(r', w'))
                            /\ Edit' = Window(buf', SIZE, w', Distance(w', e'))
  <2>1. /\ Wrapped(buf', SIZE, UINT, r', Distance(r', w')) = Window(buf', SIZE, r', Distance(r', w'))
        /\ Wrapped(buf', SIZE, UINT, w', Distance(w', e')) = Window(buf', SIZE, w', Distance(w', e'))
    BY <1>2, SpanIs, Zenon DEF Indices
  <2>2. /\ Ready' = Wrapped(buf', SIZE, UINT, r', Distance(r', w'))
        /\ Edit' = Wrapped(buf', SIZE, UINT, w', Distance(w', e'))
    BY Zenon DEF Ready, Edit, Span, Wrapped, Distance
  <2> QED BY <2>1, <2>2, Zenon
<1> QED BY <1>1, <1>2, Zenon

\* The distances as numbers.
LEMMA Distances ==
  ASSUME Indices
  PROVE  /\ Distance(r, w) \in Nat /\ Distance(w, e) \in Nat /\ Distance(r, e) \in Nat
         /\ Distance(r, w) + Distance(w, e) = Distance(r, e) /\ Distance(r, e) <= SIZE
         /\ r \in Int /\ w \in Int /\ e \in Int
BY UsedIs, Sizes DEF Indices

\* ^U erases all of the unfinished line: a line end would have finished it.
LEMMA KillsAll ==
  ASSUME Shapes, Indices, Unfinished
  PROVE  KillTo = w
<1> DEFINE S == {(w + d) % UINT : d \in 0 .. Distance(w, e)}
           P(k) == /\ k = w \/ buf[Dec(k) % SIZE] = "nl"
                   /\ \A d \in 1 .. Distance(k, e) : buf[((k + d - 1) % UINT) % SIZE] # "nl"
<1>0. Distance(w, e) \in 0 .. UINT - 1 /\ w \in 0 .. UINT - 1
  BY UsedIs, Zenon DEF Indices
<1>1. w \in S
  <2>1. (w + 0) % UINT = w /\ 0 \in 0 .. Distance(w, e)
    BY <1>0, Sizes
  <2> QED BY <2>1, Zenon
<1>2. P(w)
  BY Zenon DEF Unfinished, Edit, Span
<1>3. ASSUME NEW k \in S, P(k) PROVE k = w
  <2>1. PICK d \in 0 .. Distance(w, e) : k = (w + d) % UINT
    OBVIOUS
  <2>2. CASE d = 0
    BY <1>0, <2>1, <2>2, Sizes
  <2>3. CASE d > 0
    <3>1. d \in 1 .. Distance(w, e)
      BY <1>0, <2>3
    <3>2. Dec(k) = (w + d - 1) % UINT
      <4>1. k = IF w + d < UINT THEN w + d ELSE w + d - UINT
        BY <1>0, <2>1, Sizes
      <4>2. (w + d - 1) % UINT = IF w + d - 1 < UINT THEN w + d - 1 ELSE w + d - 1 - UINT
        BY <1>0, <2>3, Sizes
      <4>3. k \in 0 .. UINT - 1
        BY <1>0, <4>1, Sizes
      <4>4. Dec(k) = IF k = 0 THEN UINT - 1 ELSE k - 1
        BY <4>3, Sizes DEF Dec
      <4> QED BY <1>0, <2>3, <4>1, <4>2, <4>4, Sizes, SMTT(30), Z3T(30)
    <3>3. buf[Dec(k) % SIZE] = "x"
      BY <3>1, <3>2, Zenon DEF Unfinished, Edit, Span
    <3> QED BY <1>3, <3>3, Zenon
  <2> QED BY <1>0, <2>2, <2>3
<1>4. KillTo = CHOOSE k \in S : P(k)
  BY Zenon DEF KillTo
<1> HIDE DEF S, P
<1> QED BY <1>1, <1>2, <1>3, <1>4, Zenon
\* A character is stored behind the unfinished line, and may finish it.
LEMMA StoreStep ==
  ASSUME Shapes, Indices, Unfinished, Distance(r, e) < SIZE, NEW c \in Stored, Store(c)
  PROVE  Indices' /\ Unfinished' /\ Lines!Insert(c)
<1> DEFINE A == Distance(r, w)
           B == Distance(w, e)
<1>0. /\ A \in Nat /\ B \in Nat /\ A + B = Distance(r, e) /\ A + B < SIZE
      /\ r \in Int /\ w \in Int /\ e \in Int
      /\ r \in 0 .. UINT - 1 /\ w \in 0 .. UINT - 1 /\ e \in 0 .. UINT - 1
  BY Distances, Zenon DEF Indices
<1>1. Distance(r, e) < UINT - 1 /\ B < UINT - 1 /\ A + 0 <= SIZE
  BY <1>0, Sizes
<1>2. e' = Inc(e) /\ r' = r /\ buf' = [buf EXCEPT ![e % SIZE] = c]
  BY Zenon DEF Store
<1>3. e' \in 0 .. UINT - 1 /\ Distance(r, e') = A + B + 1 /\ Distance(w, e') = B + 1
  <2>1. Inc(e) \in 0 .. UINT - 1 /\ Distance(r, Inc(e)) = Distance(r, e) + 1
    BY <1>0, <1>1, Advance, Zenon
  <2>2. Distance(w, Inc(e)) = Distance(w, e) + 1
    BY <1>0, <1>1, Advance, Zenon
  <2> QED BY <1>0, <1>2, <2>1, <2>2, Zenon
<1>4. IsRing(buf, SIZE, Stored)
  BY Sizes, Zenon DEF Shapes, IsRing
<1>5. IsStore(buf', buf, SIZE, w + B, c) /\ IsStore(buf', buf, SIZE, r + (A + B), c)
  <2>1. (w + B) % SIZE = e % SIZE /\ (r + Distance(r, e)) % SIZE = e % SIZE
    BY <1>0, Arrives, Zenon
  <2> QED BY <1>0, <1>2, <2>1, Zenon DEF IsStore
<1>6. IsRing(buf', SIZE, Stored)
  <2>1. e % SIZE \in 0 .. SIZE - 1
    BY <1>0, Sizes
  <2> QED BY <1>2, <1>4, <2>1, Zenon DEF IsRing
<1>7. Ready = Window(buf, SIZE, r, A) /\ Edit = Window(buf, SIZE, w, B)
  BY ReadyEdit, Zenon
<1>8. Len(Ready) = A /\ Len(Edit) = B
  BY <1>0, <1>4, <1>7, WindowSeq, ZenonT(60)
<1>9. Window(buf', SIZE, w, B + 1) = Append(Edit, c)
  <2>1. B \in 0 .. SIZE - 1
    BY <1>0, Sizes, SMTT(30), Z3T(30)
  <2>2. w \in Int /\ IsRing(buf, SIZE, Stored)
    BY <1>0, <1>4, Zenon
  <2>3. Append(Window(buf, SIZE, w, B), c) = Window(buf', SIZE, w, B + 1)
    BY <1>5, <2>1, <2>2, WindowAppend, SMTT(30), Z3T(30)
  <2> QED BY <1>7, <2>3, Zenon
<1>10. Window(buf', SIZE, r, A) = Ready
  <2>1. r + A <= r + (A + B) /\ r + (A + B) < r + SIZE /\ r + (A + B) \in Int
    BY <1>0, Sizes
  <2> QED BY <1>0, <1>4, <1>5, <1>7, <2>1, WindowKeeps, SMTT(30), Z3T(30)
<1>11. CASE c \in {"nl", "eof"} \/ Distance(r, e') = SIZE
  <2>1. w' = e'
    BY <1>11, <1>2, Zenon DEF Store
  <2>2. Distance(r', w') = A + B + 1 /\ Distance(w', e') = 0
    BY <1>2, <1>3, <2>1, UsedIs, Zenon
  <2>3. Indices'
    <3>1. Distance(r', e') = A + B + 1 /\ A + B + 1 <= SIZE /\ (A + B + 1) + 0 = A + B + 1
      BY <1>0, <1>2, <1>3, Sizes
    <3> QED BY <1>0, <1>2, <1>3, <2>1, <2>2, <3>1, Zenon DEF Indices
  <2>4. Ready' = Window(buf', SIZE, r, A + B + 1) /\ Edit' = Window(buf', SIZE, w', 0)
    BY <1>2, <2>2, <2>3, ReadyEdit, Zenon
  <2>5. Edit' = <<>>
    BY <2>4 DEF Window
  <2>6. Window(buf', SIZE, r + A, B + 1) = Window(buf', SIZE, w, B + 1)
    BY <1>0, Arrives
  <2>7. Window(buf', SIZE, r, A) \o Window(buf', SIZE, r + A, B + 1)
          = Window(buf', SIZE, r, A + (B + 1))
    <3>1. B + 1 \in Nat /\ A \in Nat /\ r \in Int
      BY <1>0
    <3>2. ASSUME NEW s \in Int, NEW u \in Nat, NEW v \in Nat
          PROVE  Window(buf', SIZE, s, u) \o Window(buf', SIZE, s + u, v)
                   = Window(buf', SIZE, s, u + v)
      BY <1>6, WindowConcat, ZenonT(60)
    <3> HIDE DEF A, B
    <3> QED BY <3>1, <3>2, Zenon
  <2>8. Ready' = Ready \o Append(Edit, c)
    <3>1. A + (B + 1) = A + B + 1
      BY <1>0
    <3> QED BY <1>9, <1>10, <2>4, <2>6, <2>7, <3>1, Zenon
  <2>9. Unfinished'
    <3>1. 1 .. Distance(w', e') = {}
      BY <2>2
    <3>2. Unfinished' <=> \A k \in 1 .. Distance(w', e') : Edit'[k] = "x"
      BY Zenon DEF Unfinished, Distance
    <3> QED BY <3>1, <3>2, Zenon
  <2>10. Len(Ready) + Len(Edit) < SIZE
    BY <1>0, <1>8, Zenon
  <2>11. c \in {"nl", "eof"} \/ Len(Ready) + Len(Edit) + 1 = SIZE
    BY <1>0, <1>3, <1>8, <1>11, Zenon
  <2> QED BY <2>3, <2>5, <2>8, <2>9, <2>10, <2>11, Zenon DEF Lines!Insert
<1>12. CASE ~(c \in {"nl", "eof"} \/ Distance(r, e') = SIZE)
  <2>1. w' = w
    BY <1>12, <1>2, Zenon DEF Store
  <2>2. Distance(r', w') = A /\ Distance(w', e') = B + 1
    BY <1>2, <1>3, <2>1, Zenon
  <2>3. Indices'
    <3>1. Distance(r', e') = A + B + 1 /\ A + B + 1 <= SIZE /\ A + (B + 1) = A + B + 1
      BY <1>0, <1>2, <1>3, Sizes
    <3> QED BY <1>0, <1>2, <1>3, <2>1, <2>2, <3>1, Zenon DEF Indices
  <2>4. Ready' = Ready /\ Edit' = Append(Edit, c)
    BY <1>2, <1>9, <1>10, <2>1, <2>2, <2>3, ReadyEdit, Zenon
  <2>5. c = "x"
    BY <1>12, Zenon DEF Stored
  <2>6. \A k \in 1 .. B + 1 : Append(Edit, c)[k] = "x"
    <3>1. Edit \in Seq(Stored)
      BY <1>0, <1>4, <1>7, WindowSeq, Zenon
    <3>2. \A k \in 1 .. B : Append(Edit, c)[k] = Edit[k]
      BY <1>8, <3>1
    <3>3. Append(Edit, c)[B + 1] = "x"
      BY <1>8, <2>5, <3>1
    <3>4. \A k \in 1 .. B + 1 : k = B + 1 \/ k \in 1 .. B
      BY <1>0
    <3> QED BY <3>2, <3>3, <3>4, Zenon DEF Unfinished
  <2>7. Unfinished'
    <3>1. Unfinished' <=> \A k \in 1 .. Distance(w', e') : Edit'[k] = "x"
      BY Zenon DEF Unfinished, Distance
    <3> QED BY <2>2, <2>4, <2>6, <3>1, Zenon
  <2>8. Len(Ready) + Len(Edit) < SIZE
    BY <1>0, <1>8, Zenon
  <2>9. ~(c \in {"nl", "eof"} \/ Len(Ready) + Len(Edit) + 1 = SIZE)
    BY <1>0, <1>3, <1>8, <1>12, Zenon
  <2> QED BY <2>3, <2>4, <2>7, <2>8, <2>9, Zenon DEF Lines!Insert
<1> QED BY <1>11, <1>12, Zenon
\* Backspace takes the last character of the unfinished line.
LEMMA EraseStep ==
  ASSUME Shapes, Indices, Unfinished, e # w, e' = Dec(e), UNCHANGED <<buf, r, w>>
  PROVE  Indices' /\ Unfinished' /\ Lines!Erase
<1> DEFINE A == Distance(r, w)
           B == Distance(w, e)
<1>0. /\ A \in Nat /\ B \in Nat \ {0} /\ A + B = Distance(r, e) /\ A + B <= SIZE
      /\ r \in Int /\ w \in Int
      /\ r \in 0 .. UINT - 1 /\ w \in 0 .. UINT - 1 /\ e \in 0 .. UINT - 1
  BY Distances, UsedIs, Zenon DEF Indices
<1>1. e' \in 0 .. UINT - 1 /\ Distance(r, e') = A + B - 1 /\ Distance(w, e') = B - 1
  <2>1. Distance(r, e) > 0 /\ Distance(w, e) > 0
    BY <1>0
  <2>2. Dec(e) \in 0 .. UINT - 1 /\ Distance(r, Dec(e)) = Distance(r, e) - 1
    BY <1>0, <2>1, Retreat, Zenon
  <2>3. Distance(w, Dec(e)) = Distance(w, e) - 1
    BY <1>0, <2>1, Retreat, Zenon
  <2> QED BY <1>0, <2>2, <2>3
<1>2. Indices'
  <2>1. A + (B - 1) = A + B - 1 /\ A + B - 1 <= SIZE
    BY <1>0, Sizes
  <2> QED BY <1>0, <1>1, <2>1, Zenon DEF Indices, Distance
<1>3. IsRing(buf, SIZE, Stored)
  BY Sizes, Zenon DEF Shapes, IsRing
<1>4. /\ Ready = Window(buf, SIZE, r, A) /\ Edit = Window(buf, SIZE, w, B)
      /\ Ready' = Window(buf, SIZE, r, A) /\ Edit' = Window(buf, SIZE, w, B - 1)
  BY <1>1, <1>2, ReadyEdit, Zenon
<1>5. Edit \in Seq(Stored) /\ Len(Edit) = B
  BY <1>0, <1>3, <1>4, WindowSeq
<1>6. Edit' = SubSeq(Edit, 1, B - 1)
  BY <1>0, <1>3, <1>4, WindowFront, Zenon
<1>7. Unfinished'
  <2>1. Unfinished' <=> \A k \in 1 .. B - 1 : Edit'[k] = "x"
    BY <1>1, Zenon DEF Unfinished, Distance
  <2>2. \A k \in 1 .. B - 1 : SubSeq(Edit, 1, B - 1)[k] = Edit[k] /\ k \in 1 .. B
    BY <1>0, <1>5
  <2> QED BY <1>6, <2>1, <2>2, Zenon DEF Unfinished
<1>8. Edit # <<>>
  BY <1>0, <1>5, Zenon
<1> QED BY <1>2, <1>4, <1>5, <1>6, <1>7, <1>8, Zenon DEF Lines!Erase

\* ^U takes all of it.
LEMMA KillStep ==
  ASSUME Shapes, Indices, Unfinished, e' = KillTo, UNCHANGED <<buf, r, w>>
  PROVE  Indices' /\ Unfinished' /\ Lines!KillLine
<1>1. e' = w
  BY KillsAll, Zenon
<1>2. /\ r \in 0 .. UINT - 1 /\ w \in 0 .. UINT - 1
      /\ Distance(r, w) \in Nat /\ Distance(w, e) \in Nat
      /\ Distance(r, w) + Distance(w, e) = Distance(r, e) /\ Distance(r, e) <= SIZE
  BY Distances, Zenon DEF Indices
<1>3. Distance(w, w) = 0
  BY <1>2, UsedIs, Zenon
<1>4. Distance(r, w) + 0 = Distance(r, w) /\ Distance(r, w) <= SIZE
  BY <1>2, Sizes
<1>5. Indices'
  BY <1>1, <1>2, <1>3, <1>4, Zenon DEF Indices, Distance
<1>6. Ready' = Ready /\ Edit' = Window(buf, SIZE, w, 0)
  BY <1>1, <1>3, <1>5, ReadyEdit, Zenon
<1>7. Edit' = <<>>
  BY <1>6 DEF Window
<1>8. Unfinished'
  <2>1. Unfinished' <=> \A k \in 1 .. Distance(w, w) : Edit'[k] = "x"
    BY <1>1, Zenon DEF Unfinished, Distance
  <2> QED BY <1>3, <2>1
<1> QED BY <1>5, <1>6, <1>7, <1>8, Zenon DEF Lines!KillLine

\* consoleread() takes the oldest finished character.
LEMMA TakeStep ==
  ASSUME Shapes, Indices, Unfinished, r # w, r' = Inc(r), UNCHANGED <<buf, w, e>>
  PROVE  Indices' /\ Unfinished' /\ Lines!Take
<1> DEFINE A == Distance(r, w)
           B == Distance(w, e)
<1>0. /\ A \in Nat \ {0} /\ B \in Nat /\ A + B = Distance(r, e) /\ A + B <= SIZE
      /\ r \in Int /\ w \in Int
      /\ r \in 0 .. UINT - 1 /\ w \in 0 .. UINT - 1 /\ e \in 0 .. UINT - 1
  BY Distances, UsedIs, Zenon DEF Indices
<1>1. r' \in 0 .. UINT - 1 /\ Distance(r', e) = A + B - 1 /\ Distance(r', w) = A - 1
  <2>1. Distance(r, e) > 0 /\ Distance(r, w) > 0
    BY <1>0
  <2>2. Inc(r) \in 0 .. UINT - 1 /\ Distance(Inc(r), e) = Distance(r, e) - 1
    BY <1>0, <2>1, Consume, Zenon
  <2>3. Distance(Inc(r), w) = Distance(r, w) - 1
    BY <1>0, <2>1, Consume, Zenon
  <2> QED BY <1>0, <2>2, <2>3
<1>2. Indices'
  <2>1. A - 1 + B = A + B - 1 /\ A + B - 1 <= SIZE
    BY <1>0, Sizes
  <2> QED BY <1>0, <1>1, <2>1, Zenon DEF Indices, Distance
<1>3. IsRing(buf, SIZE, Stored)
  BY Sizes, Zenon DEF Shapes, IsRing
<1>4. /\ Ready = Window(buf, SIZE, r, A) /\ Edit' = Edit
      /\ Ready' = Window(buf, SIZE, r', A - 1)
  BY <1>1, <1>2, ReadyEdit, Zenon
<1>5. Window(buf, SIZE, r', A - 1) = Window(buf, SIZE, r + 1, A - 1)
  <2>1. Inc(r) = IF r + 1 = UINT THEN 0 ELSE r + 1
    BY <1>0, Sizes DEF Inc
  <2>2. CASE r + 1 = UINT
    <3>1. A - 1 \in Nat /\ 0 \in Int /\ 0 + UINT = r + 1 /\ r' = 0
      BY <1>0, <2>1, <2>2
    <3>2. Window(buf, SIZE, 0 + UINT, A - 1) = Window(buf, SIZE, 0, A - 1)
      BY <3>1, Sizes, WindowShift
    <3> QED BY <3>1, <3>2, Zenon
  <2>3. CASE r + 1 # UINT
    BY <2>1, <2>3, Zenon
  <2> QED BY <2>2, <2>3, Zenon
<1>6. Ready # <<>> /\ Ready' = Tail(Ready)
  <2>1. r \in Int /\ A \in Nat \ {0}
    BY <1>0, Zenon
  <2>2. /\ Window(buf, SIZE, r, A) # <<>>
        /\ Tail(Window(buf, SIZE, r, A)) = Window(buf, SIZE, r + 1, A - 1)
    BY <1>3, <2>1, WindowTail, ZenonT(60)
  <2> QED BY <1>4, <1>5, <2>2, Zenon
<1>7. Unfinished'
  BY <1>4, Zenon DEF Unfinished, Distance
<1> QED BY <1>2, <1>4, <1>6, <1>7, Zenon DEF Lines!Take
\* Every step keeps the buffer's order and is a step of the queue of lines.
LEMMA BufferStep ==
  ASSUME Shapes, Indices, Unfinished, Steps \/ \E p \in Procs : ProcSteps(p)
  PROVE  Indices' /\ Unfinished' /\ [Lines!LinesNext]_(Lines!lines)
<1>1. ASSUME UNCHANGED cons
      PROVE  Indices' /\ Unfinished' /\ UNCHANGED <<Ready, Edit>>
  BY <1>1, Zenon DEF cons, Indices, Unfinished, Ready, Edit, Span, Distance
<1>2. CASE UNCHANGED cons
  BY <1>1, <1>2, Zenon DEF Lines!lines
<1>3. CASE IntrRx
  <2>1. rx \in Seq(Keys)
    BY Zenon DEF Shapes
  <2>2. CASE RxNone \/ RxDump \/ RxFull
    BY <1>2, <2>2, Zenon DEF RxNone, RxDump, RxFull
  <2>3. CASE RxEdit(KillTo)
    BY <2>3, KillStep, Zenon DEF RxEdit, Lines!LinesNext
  <2>4. CASE RxEdit(EraseTo)
    <3>1. CASE e = w
      BY <1>2, <2>4, <3>1, Zenon DEF RxEdit, EraseTo, cons
    <3>2. CASE e # w
      BY <2>4, <3>2, EraseStep, Zenon DEF RxEdit, EraseTo, Lines!LinesNext
    <3> QED BY <3>1, <3>2, Zenon
  <2>5. ASSUME NEW c \in Stored, RxStore(c)
        PROVE  Indices' /\ Unfinished' /\ [Lines!LinesNext]_(Lines!lines)
    BY <2>5, StoreStep, Zenon DEF RxStore, Lines!LinesNext
  <2> QED BY <1>3, <2>1, <2>2, <2>3, <2>4, <2>5, RxCases, Zenon
<1>4. ASSUME NEW p \in Procs, ReadChar(p)
      PROVE  Indices' /\ Unfinished' /\ [Lines!LinesNext]_(Lines!lines)
  <2>1. (r' = r \/ r' = Inc(r)) /\ r # w /\ UNCHANGED <<buf, w, e>>
    BY <1>4, Zenon DEF ReadChar
  <2>2. CASE r' = r
    BY <1>2, <2>1, <2>2, Zenon DEF cons
  <2>3. CASE r' = Inc(r)
    BY <2>1, <2>3, TakeStep, Zenon DEF Lines!LinesNext
  <2> QED BY <2>1, <2>2, <2>3, Zenon
<1>5. ASSUME NEW p \in Procs, ProcSteps(p), ~ReadChar(p) PROVE UNCHANGED cons
  BY <1>5, Zenon
     DEF ProcSteps, Call, Kkill, ReadAcquire, ReadEmpty, ReadBlock, WriteBatch, WriteChar
<1>6. ASSUME Steps, ~IntrRx PROVE UNCHANGED cons
  BY <1>6, Zenon DEF Steps, Type, Transmit, IntrAck, IntrTx, IntrSpin, IntrPut, PrintfBegin,
     PrintfSpin, PrintfPut
<1> QED BY <1>2, <1>3, <1>4, <1>5, <1>6, Zenon

-----------------------------------------------------------------------------
\* The invariant holds at boot.
LEMMA ConsInit == Init => ConsInv
<1> SUFFICES ASSUME Init PROVE ConsInv
  OBVIOUS
<1>0. 0 \in 0 .. UINT - 1 /\ SIZE > 0
  BY Sizes
<1>1. Distance(0, 0) = 0
  BY <1>0, UsedIs, Zenon
<1>2. Indices
  BY <1>0, <1>1, Sizes DEF Init, Indices
<1>3. Shapes
  <2>1. rx \in Seq(Keys)
    BY DEF Init
  <2>2. loc \in Locs
    BY Zenon DEF Init, Locs, Idle
  <2>3. buf \in [0 .. SIZE - 1 -> Stored]
    BY Zenon DEF Init, Stored
  <2> QED BY <2>1, <2>2, <2>3, Zenon DEF Init, Shapes, Locs
<1>4. Unfinished
  BY <1>1 DEF Init, Unfinished
<1>5. Locks /\ Counts /\ LineReadersOwed
  BY ConsoleAssumption, Zenon DEF Init, Locks, Counts, LineReadersOwed, Idle
<1>6. TransmitInterruptComes /\ OnTheirWay
  BY DEF Init, TransmitInterruptComes, OnTheirWay, One
<1> QED BY <1>2, <1>3, <1>4, <1>5, <1>6, TypeSplit, Zenon DEF ConsInv

\* Every step of the device, the handler, printf() and the processes keeps it,
\* and is a step of the queue of lines or leaves it alone.
LEMMA ConsStep ==
  ASSUME ConsInv, [Next]_vars
  PROVE  ConsInv' /\ [Lines!LinesNext]_(Lines!lines)
<1>0. Shapes /\ Indices
  BY TypeSplit, Zenon DEF ConsInv
<1>1. TypeOK' <=> Shapes' /\ Indices'
  BY Zenon DEF TypeOK, Shapes, Indices, Distance
<1>2. CASE Steps
  <2>1. Shapes'
    BY <1>0, <1>2, ShapesStep, Zenon
  <2>2. Locks' /\ Counts' /\ LineReadersOwed'
    BY <1>0, <1>2, LineReadersStep, Zenon DEF ConsInv
  <2>3. TransmitInterruptComes' /\ OnTheirWay'
    BY <1>0, <1>2, InterruptStep, OnTheirWayStep, Zenon DEF ConsInv
  <2>4. Indices' /\ Unfinished' /\ [Lines!LinesNext]_(Lines!lines)
    BY <1>0, <1>2, BufferStep, Zenon DEF ConsInv
  <2> QED BY <1>1, <2>1, <2>2, <2>3, <2>4, Zenon DEF ConsInv
<1>3. ASSUME NEW p \in Procs, ProcSteps(p)
      PROVE  ConsInv' /\ [Lines!LinesNext]_(Lines!lines)
  <2>1. Shapes'
    BY <1>0, <1>3, ShapesProcStep, Zenon DEF ConsInv
  <2>2. Locks' /\ Counts' /\ LineReadersOwed'
    BY <1>0, <1>3, ReadersProcStep, Zenon DEF ConsInv
  <2>3. TransmitInterruptComes' /\ OnTheirWay'
    BY <1>0, <1>3, InterruptStep, OnTheirWayStep, Zenon DEF ConsInv
  <2>4. Indices' /\ Unfinished' /\ [Lines!LinesNext]_(Lines!lines)
    BY <1>0, <1>3, BufferStep, Zenon DEF ConsInv
  <2> QED BY <1>1, <2>1, <2>2, <2>3, <2>4, Zenon DEF ConsInv
<1>4. CASE UNCHANGED vars
  <2>1. ConsInv'
    BY <1>4, ZenonT(60)
       DEF vars, ConsInv, TypeOK, Distance, Locks, Counts, LineReadersOwed, Unfinished, Edit, Span,
       TransmitInterruptComes, OnTheirWay, One
  <2>2. UNCHANGED <<Ready, Edit>>
    BY <1>4, Zenon DEF vars, Ready, Edit, Span, Distance
  <2> QED BY <2>1, <2>2, Zenon DEF Lines!lines
<1> QED BY <1>2, <1>3, <1>4, NextCases, Zenon

\* The invariant of console.c and uart.c holds in every state.
LEMMA ConsInvHolds == Spec => []ConsInv
<1>1. ConsInv /\ [Next]_vars => ConsInv'
  BY ConsStep, Zenon
<1> QED BY <1>1, ConsInit, PTL DEF Spec

\* Nobody sleeps on the console for nothing, for any number of processes: a
\* caller of consoleread() sleeps only while there is nothing to read, and while
\* tx_busy is set an interrupt that clears it is still to come, although
\* printf() and the echo use the transmitter without tx_lock.
THEOREM NoConsoleSleeperStranded == Spec => []ConsoleSleepersJustified
<1>1. ConsInv => ConsoleSleepersJustified
  BY Zenon DEF ConsInv, LineReadersOwed, ConsoleSleepersJustified, LineReadersJustified
<1> QED BY <1>1, ConsInvHolds, PTL

\* The transmitter is never given more than three characters that it has not
\* sent, and the input buffer is never overrun, for any buffer size and any wrap
\* of cons.r, cons.w and cons.e.
THEOREM NeverOverrun == Spec => []FifoNotOverrun
<1>1. ConsInv => FifoNotOverrun
  <2>1. SUFFICES ASSUME ConsInv PROVE thr <= 3 /\ TypeOK
    BY Zenon DEF FifoNotOverrun
  <2>2. thr \in Nat /\ thr + One(pr = "put") + One(intr = "put") + One(~tx_busy) <= 3
    BY <2>1, TypeSplit, Zenon DEF ConsInv, OnTheirWay, Shapes
  <2> QED BY <2>1, <2>2 DEF ConsInv, One
<1> QED BY <1>1, ConsInvHolds, PTL

\* consoleintr() and consoleread() implement the queue of lines: what is finished
\* is not edited, overwritten or taken out twice, and is taken out in order.
THEOREM ConsoleIsLineQueue == Spec => ImplementsLines
<1>1. Init => Lines!LinesInit
  <2>1. SUFFICES ASSUME Init PROVE Ready = <<>> /\ Edit = <<>>
    BY Zenon DEF Lines!LinesInit
  <2>2. Distance(0, 0) = 0
    BY Sizes, UsedIs
  <2>3. Indices
    BY <2>1, ConsInit, TypeSplit, Zenon DEF ConsInv
  <2>4. Ready = Window(buf, SIZE, 0, 0) /\ Edit = Window(buf, SIZE, 0, 0)
    BY <2>1, <2>2, <2>3, ReadyEdit, Zenon DEF Init
  <2> QED BY <2>4 DEF Window
<1>2. ConsInv /\ [Next]_vars => [Lines!LinesNext]_(Lines!lines)
  BY ConsStep, Zenon
<1> QED BY <1>1, <1>2, ConsInvHolds, PTL DEF Spec, ImplementsLines, Lines!LinesSpec
=============================================================================
