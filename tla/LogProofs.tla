------------------------------ MODULE LogProofs ------------------------------
(***************************************************************************)
(* The write-ahead log is crash safe for any number of threads and blocks  *)
(* and any log size: LogSpec implements AtomicDisk.  LogInv says for every *)
(* phase of commit() and of the recovery which copy of a block is which.   *)
(***************************************************************************)
EXTENDS Log, FiniteSetTheorems, TLAPS

Ops == {p \in Threads : pc[p] \in {"op", "panicked"}}

Commits(p) == pc[p] \in {"write_log", "write_head", "install", "clear", "committed"}

\* log.outstanding is the number of calls between begin_op() and end_op().
Counted == IsFiniteSet(Ops) /\ outstanding = Cardinality(Ops)

\* One thread commits at a time, between calls, and nobody calls the file
\* system before the recovery is over.
Turns ==
  /\ committing <=> \E p \in Threads : Commits(p)
  /\ \A p, q \in Threads : Commits(p) /\ Commits(q) => p = q
  /\ committing => Ops = {}
  /\ boot # "up" => \A p \in Threads : pc[p] = "idle"

Distinct(s) == \A i, j \in 1 .. Len(s) : s[i] = s[j] => i = j

\* log_write() absorbs: no block is twice in the log, and the log has room.
Entries ==
  /\ Distinct(lh) /\ Len(lh) <= LOGBLOCKS
  /\ Distinct(hdr) /\ Len(hdr) <= LOGBLOCKS

\* A changed block is pinned and a pinned block is in the log.
Held == DirtyPinned /\ \A b \in pinned : Logged(lh, b)

\* The first k blocks of the log are written, or installed.
Copied(k) == \A i \in 1 .. k : logd[i] = View(lh[i])
Installed(k) == \A i \in 1 .. k : home[lh[i]] = logd[i]

\* The header is empty except while a committed transaction is installed;
\* between transactions the log is empty, and what is in it is pinned.
Header ==
  boot = "up" =>
    /\ (\A p \in Threads : pc[p] \notin {"install", "clear"}) => hdr = <<>>
    /\ ~committing /\ Ops = {} => lh = <<>>
    /\ ~committing => \A i \in 1 .. Len(lh) : lh[i] \in pinned

\* How far the commit of thread p is.
Phase(p) ==
  /\ pc[p] = "write_log" => tail <= Len(lh) /\ Copied(tail - 1)
  /\ pc[p] = "write_head" => lh # <<>> /\ tail = 1 /\ Copied(Len(lh))
  /\ pc[p] = "install" =>
       /\ hdr = lh /\ tail <= Len(lh)
       /\ Copied(Len(lh)) /\ Installed(tail - 1)
       /\ \A b \in pinned : \E i \in tail .. Len(lh) : lh[i] = b
  /\ pc[p] = "clear" => hdr = lh /\ Installed(Len(lh)) /\ pinned = {}
  /\ pc[p] = "committed" => lh = <<>>

\* How far the recovery is.
Recovering ==
  /\ boot # "up" => pinned = {}
  /\ boot = "read_head" => lh = <<>> /\ tail = 1
  /\ boot = "install" => lh = hdr /\ tail <= Len(lh) /\ Installed(tail - 1)
  /\ boot = "clear" => lh = hdr /\ Installed(Len(lh))

Control == LogTypeOK /\ Counted /\ Turns /\ Entries

Data == Held /\ Header /\ (\A p \in Threads : Phase(p)) /\ Recovering

LogInv == Control /\ Data /\ WaitersJustified

-----------------------------------------------------------------------------
(* Threads and calls *)

\* A thread between begin_op() and end_op() is counted, and alone when the
\* count is 1.
LEMMA OpIsCounted ==
  ASSUME Counted, NEW p \in Threads, pc[p] = "op"
  PROVE  outstanding >= 1 /\ (outstanding = 1 <=> Ops = {p})
<1>1. p \in Ops
  BY Zenon DEF Ops
<1>2. outstanding \in Nat /\ outstanding # 0
  BY <1>1, FS_CardinalityType, FS_EmptySet, Zenon DEF Counted
<1>3. outstanding = 1 <=> \E x : Ops = {x}
  BY FS_Singleton, Zenon DEF Counted
<1> QED BY <1>1, <1>2, <1>3

\* begin_op() counts a thread in.
LEMMA CountIn ==
  ASSUME Counted, NEW p \in Threads, pc[p] \notin {"op", "panicked"}, Ops' = Ops \cup {p},
         outstanding' = outstanding + 1
  PROVE  Counted'
<1>1. p \notin Ops
  BY Zenon DEF Ops
<1> QED BY <1>1, FS_AddElement, Zenon DEF Counted

\* end_op() counts it out.
LEMMA CountOut ==
  ASSUME Counted, NEW p \in Threads, pc[p] = "op", Ops' = Ops \ {p},
         outstanding' = outstanding - 1
  PROVE  Counted'
<1>1. p \in Ops
  BY Zenon DEF Ops
<1> QED BY <1>1, FS_RemoveElement, Zenon DEF Counted

\* The counter and the set of calls move together.
LEMMA CountStep ==
  ASSUME LogTypeOK, Counted, [LogNext]_logVars
  PROVE  Counted'
<1> USE DEF LogTypeOK
<1>1. ASSUME NEW p \in Threads, BeginOp(p)
      PROVE  Counted'
  <2>1. CASE MustWait
    <3>1. Ops' = Ops /\ outstanding' = outstanding
      BY <1>1, <2>1, Zenon DEF BeginOp, Ops
    <3> QED BY <3>1, Zenon DEF Counted
  <2>2. CASE ~MustWait
    <3>1. Ops' = Ops \cup {p} /\ outstanding' = outstanding + 1
          /\ pc[p] \notin {"op", "panicked"}
      BY <1>1, <2>2, Zenon DEF BeginOp, Ops
    <3> QED BY <3>1, CountIn, Zenon
  <2> QED BY <2>1, <2>2, Zenon
<1>2. ASSUME NEW p \in Threads, EndOp(p)
      PROVE  Counted'
  <2>1. CASE outstanding = 1
    <3>1. Ops' = Ops \ {p}
      BY <1>2, <2>1, Zenon DEF EndOp, Ops
    <3> QED BY <1>2, <3>1, CountOut, Zenon DEF EndOp
  <2>2. CASE outstanding # 1
    <3>1. Ops' = Ops \ {p}
      BY <1>2, <2>2, Zenon DEF EndOp, WakeupLog, Ops
    <3> QED BY <1>2, <3>1, CountOut, Zenon DEF EndOp
  <2> QED BY <2>1, <2>2, Zenon
<1>3. CASE Crash
  <2>1. Ops' = {} /\ outstanding' = 0
    BY <1>3, Zenon DEF Crash, Ops
  <2> QED BY <2>1, FS_EmptySet, Zenon DEF Counted
<1>4. ASSUME NEW p \in Threads,
             \/ SysStart(p) \/ WriteLog(p) \/ WriteHead(p) \/ InstallTrans(p) \/ ClearLog(p)
             \/ CommitDone(p) \/ \E b \in Blocks, v \in Vals : LogWrite(p, b, v)
             \/ \E b \in Blocks : LogWritePanic(p, b)
      PROVE  Counted'
  <2>1. Ops' = Ops
    BY <1>4, Zenon DEF SysStart, WriteLog, WriteHead, InstallTrans, ClearLog, CommitDone, LogWrite,
                LogWritePanic, WakeupLog, Ops
  <2>2. outstanding' = outstanding
    BY <1>4, Zenon DEF SysStart, WriteLog, WriteHead, InstallTrans, ClearLog, CommitDone, LogWrite,
                LogWritePanic, inMemory
  <2> QED BY <2>1, <2>2, Zenon DEF Counted
<1>5. CASE UNCHANGED logVars \/ Recover \/ \E b \in Blocks : Evict(b)
  <2>1. Ops' = Ops /\ outstanding' = outstanding
    BY <1>5, Zenon DEF Recover, ReadHead, RecoverBlock, RecoverClear, Evict, logVars, inMemory, Ops
  <2> QED BY <2>1, Zenon DEF Counted
<1> QED BY <1>1, <1>2, <1>3, <1>4, <1>5, Zenon DEF LogNext, LogStep

\* One thread commits, while no call is under way.
LEMMA TurnStep ==
  ASSUME LogTypeOK, Counted, Turns, [LogNext]_logVars
  PROVE  Turns'
<1> USE DEF LogTypeOK
<1>1. ASSUME NEW p \in Threads, SysStart(p)
      PROVE  Turns'
  BY <1>1, Zenon DEF SysStart, Turns, Commits, Ops, inMemory
<1>2. ASSUME NEW p \in Threads, BeginOp(p)
      PROVE  Turns'
  <2>1. CASE MustWait
    BY <1>2, <2>1 DEF BeginOp, Turns, Commits, Ops
  <2>2. CASE ~MustWait
    BY <1>2, <2>2, ZenonT(60) DEF BeginOp, MustWait, Turns, Commits, Ops
  <2> QED BY <2>1, <2>2, Zenon
<1>3. ASSUME NEW p \in Threads, EndOp(p)
      PROVE  Turns'
  <2>1. CASE outstanding = 1
    <3>1. Ops = {p}
      BY <1>3, <2>1, OpIsCounted, Zenon DEF EndOp
    <3>2. Ops' = {} /\ Commits(p)' /\ \A q \in Threads : q # p => ~Commits(q)'
      BY <1>3, <2>1, <3>1, Zenon DEF EndOp, Ops, Commits, Turns
    <3> QED BY <1>3, <2>1, <3>1, <3>2, Zenon DEF EndOp, Turns
  <2>2. CASE outstanding # 1
    BY <1>3, <2>2 DEF EndOp, WakeupLog, Turns, Commits, Ops
  <2> QED BY <2>1, <2>2, Zenon
<1>4. ASSUME NEW p \in Threads,
             WriteLog(p) \/ WriteHead(p) \/ InstallTrans(p) \/ ClearLog(p)
      PROVE  Turns'
  <2>1. /\ Commits(p) /\ committing' = committing /\ boot' = boot /\ Ops' = Ops
        /\ \A q \in Threads : Commits(q)' <=> Commits(q)
    BY <1>4, Zenon DEF WriteLog, WriteHead, InstallTrans, ClearLog, Commits, Ops, inMemory
  <2>2. boot = "up"
    BY <2>1, Zenon DEF Turns, Commits
  <2> QED BY <2>1, <2>2, Zenon DEF Turns
<1>5. ASSUME NEW p \in Threads, CommitDone(p)
      PROVE  Turns'
  <2>1. Commits(p) /\ \A q \in Threads : ~Commits(q)'
    BY <1>5, Zenon DEF CommitDone, WakeupLog, Commits, Turns
  <2>2. boot' = "up"
    BY <1>5, <2>1, Zenon DEF CommitDone, Commits, Turns
  <2> QED BY <1>5, <2>1, <2>2, Zenon DEF CommitDone, Turns
<1>6. CASE Crash
  BY <1>6, Zenon DEF Crash, Turns, Commits, Ops
<1>7. ASSUME \/ UNCHANGED logVars \/ Recover \/ \E b \in Blocks : Evict(b)
             \/ \E p \in Threads, b \in Blocks, v \in Vals : LogWrite(p, b, v)
      PROVE  Turns'
  <2>1. pc' = pc /\ committing' = committing /\ (boot' # "up" => boot # "up")
    BY <1>7, Zenon
       DEF Recover, ReadHead, RecoverBlock, RecoverClear, Evict, LogWrite, logVars, inMemory
  <2> QED BY <2>1, Zenon DEF Turns, Commits, Ops
<1>8. ASSUME NEW p \in Threads, NEW b \in Blocks, LogWritePanic(p, b)
      PROVE  Turns'
  <2>1. /\ committing' = committing /\ boot' = boot /\ Ops' = Ops
        /\ pc[p] # "idle" /\ \A q \in Threads : Commits(q)' <=> Commits(q)
    BY <1>8, Zenon DEF LogWritePanic, Commits, Ops, inMemory
  <2> QED BY <2>1, Zenon DEF Turns
<1> QED BY <1>1, <1>2, <1>3, <1>4, <1>5, <1>6, <1>7, <1>8, Zenon DEF LogNext, LogStep

-----------------------------------------------------------------------------
(* Types and the entries of the log *)

\* What bread() returns is a block's content.
LEMMA ViewType ==
  ASSUME LogTypeOK, NEW b \in Blocks
  PROVE  View(b) \in Vals
BY LogAssumption, Zenon DEF LogTypeOK, View

\* Where commit() and the recovery index the log, they stay inside it.
LEMMA TailInLog ==
  ASSUME LogInv,
         boot = "install" \/ \E p \in Threads : pc[p] \in {"write_log", "install"}
  PROVE  tail \in 1 .. Len(lh) /\ lh[tail] \in Blocks /\ logd[tail] \in Vals
<1>1. lh \in Seq(Blocks) /\ tail \in Nat /\ tail >= 1 /\ tail <= LOGBLOCKS
  BY LogAssumption DEF LogInv, Control, LogTypeOK
<1>2. tail <= Len(lh)
  BY Zenon DEF LogInv, Data, Phase, Recovering
<1>3. Len(lh) \in Nat /\ tail \in 1 .. Len(lh)
  BY <1>1, <1>2
<1>4. lh[tail] \in Blocks
  BY <1>1, <1>3
<1>5. logd[tail] \in Vals
  BY <1>1, Zenon DEF LogInv, Control, LogTypeOK
<1> QED BY <1>3, <1>4, <1>5, Zenon

\* Every step keeps the types; the loops end with the log.
LEMMA TypeStep ==
  ASSUME LogInv, [LogNext]_logVars
  PROVE  LogTypeOK'
<1>0. LogTypeOK /\ Counted /\ Len(lh) <= LOGBLOCKS /\ 1 \in 1 .. LOGBLOCKS
  BY LogAssumption DEF LogInv, Control, Entries
<1>a. <<>> \in Seq(Blocks)
  OBVIOUS
<1> USE <1>0, <1>a DEF LogTypeOK
<1>1. ASSUME NEW p \in Threads, SysStart(p) \/ BeginOp(p) \/ WriteHead(p) \/ ClearLog(p)
      PROVE  LogTypeOK'
  <2>1. CASE SysStart(p)
    BY <2>1, Zenon DEF SysStart, onDisk, inMemory
  <2>2. CASE BeginOp(p) /\ MustWait
    BY <2>2, Zenon DEF BeginOp, onDisk
  <2>3. CASE BeginOp(p) /\ ~MustWait
    <3>1. pc' = [pc EXCEPT ![p] = "op"] /\ outstanding' \in Nat
      BY <2>3 DEF BeginOp
    <3> QED BY <2>3, <3>1, Zenon DEF BeginOp, onDisk
  <2>4. CASE WriteHead(p)
    BY <2>4, Zenon DEF WriteHead, inMemory
  <2>5. CASE ClearLog(p)
    BY <2>5, Zenon DEF ClearLog
  <2> QED BY <1>1, <2>1, <2>2, <2>3, <2>4, <2>5, Zenon
<1>2. ASSUME NEW p \in Threads, EndOp(p)
      PROVE  LogTypeOK'
  <2>1. outstanding - 1 \in Nat
    BY <1>2, OpIsCounted DEF EndOp
  <2>2. CASE outstanding = 1
    BY <1>2, <2>1, <2>2, Zenon DEF EndOp, onDisk
  <2>3. CASE outstanding # 1
    BY <1>2, <2>1, <2>3, Zenon DEF EndOp, WakeupLog, onDisk
  <2> QED BY <2>2, <2>3, Zenon
<1>3. ASSUME NEW p \in Threads, CommitDone(p)
      PROVE  LogTypeOK'
  BY <1>3, Zenon DEF CommitDone, WakeupLog, onDisk
<1>4. ASSUME NEW p \in Threads, WriteLog(p)
      PROVE  LogTypeOK'
  <2>1. tail \in 1 .. Len(lh) /\ lh[tail] \in Blocks
    BY <1>4, TailInLog, Zenon DEF WriteLog
  <2>2. View(lh[tail]) \in Vals
    BY <2>1, ViewType, Zenon
  <2>3. tail' \in 1 .. LOGBLOCKS
    BY <1>4, <2>1, LogAssumption DEF WriteLog
  <2> QED BY <1>4, <2>2, <2>3, Zenon DEF WriteLog
<1>5. ASSUME NEW p \in Threads, InstallTrans(p)
      PROVE  LogTypeOK'
  <2>1. tail \in 1 .. Len(lh) /\ lh[tail] \in Blocks /\ logd[tail] \in Vals
    BY <1>5, TailInLog, Zenon DEF InstallTrans
  <2>2. tail' \in 1 .. LOGBLOCKS
    BY <1>5, <2>1, LogAssumption DEF InstallTrans
  <2> QED BY <1>5, <2>1, <2>2, Zenon DEF InstallTrans, InstallBlock
<1>6. CASE RecoverBlock
  <2>1. tail \in 1 .. Len(lh) /\ lh[tail] \in Blocks /\ logd[tail] \in Vals
    BY <1>6, TailInLog, Zenon DEF RecoverBlock
  <2>2. tail' \in 1 .. LOGBLOCKS
    BY <1>6, <2>1, LogAssumption DEF RecoverBlock
  <2> QED BY <1>6, <2>1, <2>2, Zenon DEF RecoverBlock, InstallBlock
<1>7. ASSUME NEW p \in Threads, NEW b \in Blocks, NEW v \in Vals, LogWrite(p, b, v)
      PROVE  LogTypeOK'
  <2>1. Append(lh, b) \in Seq(Blocks)
    OBVIOUS
  <2>2. lh' \in Seq(Blocks) /\ pinned' \subseteq Blocks
    BY <1>7, <2>1, Zenon DEF LogWrite
  <2> QED BY <1>7, <2>2, Zenon DEF LogWrite, onDisk
<1>12. ASSUME NEW p \in Threads, NEW b \in Blocks, LogWritePanic(p, b)
       PROVE  LogTypeOK'
  BY <1>12, Zenon DEF LogWritePanic, onDisk, inMemory
<1>8. CASE Crash
  BY <1>8, Zenon DEF Crash, onDisk
<1>9. CASE ReadHead \/ RecoverClear
  BY <1>9, Zenon DEF ReadHead, RecoverClear, onDisk
<1>10. CASE \E b \in Blocks : Evict(b)
  BY <1>10, Zenon DEF Evict, onDisk
<1>11. CASE UNCHANGED logVars
  BY <1>11, Zenon DEF logVars, onDisk, inMemory
<1> QED BY <1>1, <1>2, <1>3, <1>4, <1>5, <1>6, <1>7, <1>8, <1>9, <1>10, <1>11,
        <1>12, Zenon DEF LogNext, LogStep, Recover

\* log_write() absorbs, and stops at the end of the log.
LEMMA EntriesStep ==
  ASSUME LogInv, [LogNext]_logVars
  PROVE  Entries'
<1>0. lh \in Seq(Blocks) /\ hdr \in Seq(Blocks) /\ Entries /\ LOGBLOCKS \in Nat
  BY LogAssumption, Zenon DEF LogInv, Control, LogTypeOK
<1> USE <1>0
<1>1. Distinct(<<>>) /\ Len(<<>>) <= LOGBLOCKS
  BY DEF Distinct
<1>2. ASSUME NEW p \in Threads, NEW b \in Blocks, NEW v \in Vals, LogWrite(p, b, v)
      PROVE  Entries'
  <2>1. hdr' = hdr
    BY <1>2, Zenon DEF LogWrite, onDisk
  <2>2. CASE Logged(lh, b)
    BY <1>2, <2>1, <2>2, Zenon DEF LogWrite, Entries
  <2>3. CASE ~Logged(lh, b)
    <3>1. lh' = Append(lh, b) /\ Len(lh) < LOGBLOCKS
      BY <1>2, <2>3, Zenon DEF LogWrite
    <3>2. Len(Append(lh, b)) <= LOGBLOCKS
      BY <3>1
    <3>3. Distinct(Append(lh, b))
      BY <2>3 DEF Distinct, Logged, Entries
    <3> QED BY <2>1, <3>1, <3>2, <3>3, Zenon DEF Entries
  <2> QED BY <2>2, <2>3, Zenon
<1>3. ASSUME lh' \in {lh, hdr, <<>>}, hdr' \in {lh, hdr, <<>>}
      PROVE  Entries'
  <2>1. Distinct(lh') /\ Len(lh') <= LOGBLOCKS
    BY <1>1, <1>3, Zenon DEF Entries
  <2>2. Distinct(hdr') /\ Len(hdr') <= LOGBLOCKS
    BY <1>1, <1>3, Zenon DEF Entries
  <2> QED BY <2>1, <2>2, Zenon DEF Entries, Distinct
<1>4. ASSUME NEW p \in Threads, SysStart(p) \/ EndOp(p) \/ LogStep(p)
      PROVE  lh' \in {lh, hdr, <<>>} /\ hdr' \in {lh, hdr, <<>>}
  BY <1>4, Zenon DEF LogStep, SysStart, BeginOp, EndOp, WriteLog, WriteHead, InstallTrans, ClearLog,
              CommitDone, onDisk, inMemory
<1>5. CASE \/ UNCHANGED logVars \/ Crash \/ Recover \/ \E b \in Blocks : Evict(b)
         \/ \E p \in Threads, b \in Blocks : LogWritePanic(p, b)
  BY <1>3, <1>5, Zenon
     DEF LogWritePanic, Crash, Recover, ReadHead, RecoverBlock, RecoverClear, Evict, logVars, onDisk,
                    inMemory
<1> QED BY <1>2, <1>3, <1>4, <1>5, Zenon DEF LogNext

-----------------------------------------------------------------------------
(* Waiting for log space *)

\* Who sleeps in begin_op() is woken by the step that makes room.
LEMMA WaitStep ==
  ASSUME LogInv, [LogNext]_logVars
  PROVE  WaitersJustified'
<1> DEFINE Asleep == \E q \in Threads : pc[q] = "asleep"
<1>0. LogTypeOK /\ Turns /\ (Asleep => MustWait)
  BY Zenon DEF LogInv, Control, WaitersJustified
<1>a. MustWait /\ UNCHANGED <<lh, outstanding, committing>> => MustWait'
  BY DEF MustWait
<1>1. ASSUME NEW p \in Threads, SysStart(p)
      PROVE  WaitersJustified'
  <2>1. Asleep' => Asleep
    BY <1>0, <1>1, Zenon DEF SysStart, LogTypeOK
  <2>2. UNCHANGED <<lh, outstanding, committing>>
    BY <1>1, Zenon DEF SysStart, inMemory
  <2> QED BY <1>0, <1>a, <2>1, <2>2, Zenon DEF WaitersJustified
<1>2. ASSUME NEW p \in Threads, BeginOp(p)
      PROVE  WaitersJustified'
  <2>1. CASE MustWait
    <3>1. UNCHANGED <<lh, outstanding, committing>>
      BY <1>2, <2>1, Zenon DEF BeginOp
    <3> QED BY <1>a, <2>1, <3>1, Zenon DEF WaitersJustified
  <2>2. CASE ~MustWait
    <3>1. ~Asleep'
      BY <1>0, <1>2, <2>2, Zenon DEF BeginOp, LogTypeOK
    <3> QED BY <3>1, Zenon DEF WaitersJustified
  <2> QED BY <2>1, <2>2, Zenon
<1>3. ASSUME NEW p \in Threads, EndOp(p) \/ CommitDone(p)
      PROVE  WaitersJustified'
  <2>1. CASE committing'
    BY <2>1, Zenon DEF WaitersJustified, MustWait
  <2>2. CASE ~committing'
    <3>1. WakeupLog(p, "idle")
      BY <1>3, <2>2, Zenon DEF EndOp, CommitDone
    <3>2. ~Asleep'
      BY <3>1, Zenon DEF WakeupLog
    <3> QED BY <3>2, Zenon DEF WaitersJustified
  <2> QED BY <2>1, <2>2, Zenon
<1>4. ASSUME NEW p \in Threads,
             WriteLog(p) \/ WriteHead(p) \/ InstallTrans(p) \/ ClearLog(p)
      PROVE  WaitersJustified'
  <2>1. Commits(p) /\ committing' = committing
    BY <1>4, Zenon DEF WriteLog, WriteHead, InstallTrans, ClearLog, Commits, inMemory
  <2> QED BY <1>0, <2>1, Zenon DEF Turns, WaitersJustified, MustWait
<1>5. ASSUME NEW p \in Threads, NEW b \in Blocks, NEW v \in Vals, LogWrite(p, b, v)
      PROVE  WaitersJustified'
  <2>1. UNCHANGED <<outstanding, committing, pc>>
    BY <1>5, Zenon DEF LogWrite
  <2>2. Len(lh) \in Nat /\ Len(lh') \in Nat /\ Len(lh') >= Len(lh)
    BY <1>0, <1>5 DEF LogWrite, LogTypeOK
  <2>3. (outstanding + 1) * MAXOPBLOCKS \in Int /\ LOGBLOCKS \in Int
    BY <1>0, LogAssumption DEF LogTypeOK
  <2>4. MustWait => MustWait'
    BY <2>1, <2>2, <2>3 DEF MustWait
  <2> QED BY <1>0, <2>1, <2>4, Zenon DEF WaitersJustified
<1>6. CASE Crash
  BY <1>6, Zenon DEF Crash, WaitersJustified
<1>7. CASE Recover
  <2>1. boot # "up" /\ pc' = pc
    BY <1>7, Zenon DEF Recover, ReadHead, RecoverBlock, RecoverClear
  <2> QED BY <1>0, <2>1, Zenon DEF Turns, WaitersJustified
<1>8. CASE UNCHANGED logVars \/ \E b \in Blocks : Evict(b)
  <2>1. UNCHANGED <<lh, outstanding, committing, pc>>
    BY <1>8, Zenon DEF Evict, logVars, inMemory
  <2> QED BY <1>0, <1>a, <2>1, Zenon DEF WaitersJustified
<1>9. ASSUME NEW p \in Threads, NEW b \in Blocks, LogWritePanic(p, b)
      PROVE  WaitersJustified'
  <2>1. Asleep' => Asleep
    BY <1>0, <1>9, Zenon DEF LogWritePanic, LogTypeOK
  <2>2. UNCHANGED <<lh, outstanding, committing>>
    BY <1>9, Zenon DEF LogWritePanic, inMemory
  <2> QED BY <1>0, <1>a, <2>1, <2>2, Zenon DEF WaitersJustified
<1> QED BY <1>1, <1>2, <1>3, <1>4, <1>5, <1>6, <1>7, <1>8, <1>9, Zenon DEF LogNext, LogStep

-----------------------------------------------------------------------------
(* Where the blocks are *)

\* A buffer that is not pinned holds what is on disk.
LEMMA UnpinnedIsHome ==
  ASSUME Held, NEW b \in Blocks, b \notin pinned
  PROVE  View(b) = home[b]
BY Zenon DEF Held, DirtyPinned, View

\* Steps that move threads only, outside of commit().
LEMMA ThreadStep ==
  ASSUME Data, UNCHANGED <<home, logd, hdr, cache, pinned, lh, tail, boot>>,
         \A q \in Threads : Commits(q) \/ Commits(q)' => pc'[q] = pc[q],
         committing' = committing,
         ~committing /\ Ops' = {} /\ boot = "up" => lh = <<>>
  PROVE  Data'
<1>1. Held'
  BY Zenon DEF Data, Held, DirtyPinned, Logged
<1>2. Header'
  BY Zenon DEF Data, Header, Commits
<1>3. ASSUME NEW q \in Threads
      PROVE  Phase(q)'
  <2>1. CASE Commits(q)'
    BY <2>1 DEF Data, Phase, Copied, Installed, View
  <2>2. CASE ~Commits(q)'
    BY <2>2, Zenon DEF Commits, Phase
  <2> QED BY <2>1, <2>2, Zenon
<1>4. Recovering'
  BY Zenon DEF Data, Recovering, Installed
<1> QED BY <1>1, <1>2, <1>3, <1>4, Zenon DEF Data

\* begin_op(), end_op() of a call that is not the last, and a panic.
LEMMA CallData ==
  ASSUME LogInv, NEW p \in Threads,
         \/ SysStart(p) \/ BeginOp(p) \/ (EndOp(p) /\ outstanding # 1)
         \/ \E b \in Blocks : LogWritePanic(p, b)
  PROVE  Data'
<1>0. LogTypeOK /\ Counted /\ Turns /\ Data
  BY Zenon DEF LogInv, Control
<1>1. UNCHANGED <<home, logd, hdr, cache, pinned, lh, tail, boot, committing>>
  BY Zenon DEF SysStart, BeginOp, EndOp, LogWritePanic, onDisk, inMemory
<1>2. \A q \in Threads : Commits(q) \/ Commits(q)' => pc'[q] = pc[q]
  <2>1. CASE SysStart(p)
    BY <1>0, <2>1, Zenon DEF SysStart, LogTypeOK, Commits
  <2>2. CASE BeginOp(p)
    BY <1>0, <2>2, Zenon DEF BeginOp, LogTypeOK, Commits
  <2>3. CASE EndOp(p) /\ outstanding # 1
    BY <1>0, <2>3, ZenonT(60) DEF EndOp, WakeupLog, LogTypeOK, Commits
  <2>4. CASE \E b \in Blocks : LogWritePanic(p, b)
    BY <1>0, <2>4, Zenon DEF LogWritePanic, LogTypeOK, Commits
  <2> QED BY <2>1, <2>2, <2>3, <2>4, Zenon
<1>3. Ops' = {} => Ops = {}
  <2>1. CASE SysStart(p)
    BY <1>0, <2>1, Zenon DEF SysStart, LogTypeOK, Ops
  <2>2. CASE BeginOp(p)
    BY <1>0, <2>2, Zenon DEF BeginOp, LogTypeOK, Ops
  <2>3. CASE EndOp(p) /\ outstanding # 1
    <3>1. Ops # {p}
      BY <1>0, <2>3, OpIsCounted, Zenon DEF EndOp
    <3>2. PICK q \in Ops : q # p
      BY <2>3, <3>1, Zenon DEF EndOp, Ops
    <3>3. pc'[q] = pc[q] /\ pc[q] \in {"op", "panicked"}
      BY <2>3, <3>2, Zenon DEF EndOp, WakeupLog, Ops
    <3> QED BY <3>2, <3>3, Zenon DEF Ops
  <2>4. CASE \E b \in Blocks : LogWritePanic(p, b)
    BY <1>0, <2>4, Zenon DEF LogWritePanic, LogTypeOK, Ops
  <2> QED BY <2>1, <2>2, <2>3, <2>4, Zenon
<1> QED BY <1>0, <1>1, <1>2, <1>3, ThreadStep, Zenon DEF Data, Header

\* The last end_op() takes the turn to commit.
LEMMA LastEndOpData ==
  ASSUME LogInv, NEW p \in Threads, EndOp(p), outstanding = 1
  PROVE  Data'
<1>0. LogTypeOK /\ Turns /\ Data /\ ~committing
  BY Zenon DEF LogInv, Control, EndOp
<1>1. /\ UNCHANGED <<home, logd, hdr, cache, pinned, lh, boot>> /\ committing' /\ tail' = 1
      /\ pc' = [pc EXCEPT ![p] = IF lh = <<>> THEN "committed" ELSE "write_log"]
  BY Zenon DEF EndOp, onDisk
<1>2. \A q \in Threads : ~Commits(q)
  BY <1>0, Zenon DEF Turns
<1>3. \A q \in Threads : q # p => ~Commits(q)'
  BY <1>0, <1>1, <1>2, Zenon DEF Commits, LogTypeOK
<1>4. Held'
  BY <1>0, <1>1, Zenon DEF Data, Held, DirtyPinned, Logged
<1>5. Header'
  BY <1>0, <1>1, <1>2, Zenon DEF Data, Header, Commits
<1>6. Phase(p)'
  <2>1. lh \in Seq(Blocks) /\ (lh # <<>> => 1 <= Len(lh))
    BY <1>0 DEF LogTypeOK
  <2>2. pc'[p] = IF lh = <<>> THEN "committed" ELSE "write_log"
    BY <1>0, <1>1, Zenon DEF LogTypeOK
  <2> QED BY <1>1, <2>1, <2>2 DEF Phase, Copied
<1>7. \A q \in Threads : q # p => Phase(q)'
  BY <1>3, Zenon DEF Phase, Commits
<1>8. Recovering'
  <2>1. boot' = "up"
    BY <1>0, <1>1, Zenon DEF Turns, EndOp
  <2> QED BY <2>1, Zenon DEF Recovering
<1> QED BY <1>4, <1>5, <1>6, <1>7, <1>8, Zenon DEF Data

\* While a thread commits, the others are outside of commit().
LEMMA CommitsAlone ==
  ASSUME Turns, NEW p \in Threads, Commits(p),
         \A q \in Threads : q # p => pc'[q] = pc[q]
  PROVE  /\ boot = "up" /\ committing
         /\ \A q \in Threads : q # p => ~Commits(q) /\ Phase(q)'
<1>1. \A q \in Threads : q # p => ~Commits(q)
  BY Zenon DEF Turns
<1> QED BY <1>1, Zenon DEF Turns, Commits, Phase

\* write_log() copies the blocks one by one.
LEMMA WriteLogData ==
  ASSUME LogInv, NEW p \in Threads, WriteLog(p)
  PROVE  Data'
<1>0. LogTypeOK /\ Turns /\ Data /\ Commits(p)
  BY Zenon DEF LogInv, Control, WriteLog, Commits
<1>1. /\ UNCHANGED <<home, hdr, cache, pinned, lh, boot, committing>>
      /\ logd' = [logd EXCEPT ![tail] = View(lh[tail])]
      /\ pc'[p] \in {"write_log", "write_head"}
      /\ \A q \in Threads : q # p => pc'[q] = pc[q]
  BY <1>0, Zenon DEF WriteLog, LogTypeOK
<1>2. /\ boot = "up" /\ committing
      /\ \A q \in Threads : q # p => ~Commits(q) /\ Phase(q)'
  BY <1>0, <1>1, CommitsAlone, Zenon
<1>3. tail \in 1 .. Len(lh) /\ Len(lh) \in Nat /\ Len(lh) <= LOGBLOCKS /\ LOGBLOCKS \in Nat
  BY <1>0, TailInLog, LogAssumption DEF LogInv, Control, Entries, LogTypeOK, WriteLog
<1>4. \A i \in 1 .. tail : logd'[i] = View(lh[i])
  BY <1>0, <1>1, <1>3 DEF Data, Phase, Copied, WriteLog, LogTypeOK
<1>5. \A i \in 1 .. tail : logd'[i] = View(lh[i])'
  BY <1>1, <1>4, Zenon DEF View
<1>6. Phase(p)'
  <2>1. CASE tail = Len(lh)
    <3>1. pc'[p] = "write_head" /\ tail' = 1 /\ lh' # <<>>
      BY <1>0, <1>1, <1>3, <2>1 DEF WriteLog, LogTypeOK
    <3> QED BY <1>1, <1>5, <2>1, <3>1, Zenon DEF Phase, Copied
  <2>2. CASE tail # Len(lh)
    <3>1. pc'[p] = "write_log" /\ tail' = tail + 1 /\ tail' - 1 = tail /\ tail' <= Len(lh')
      BY <1>1, <1>3, <2>2 DEF WriteLog
    <3> QED BY <1>1, <1>5, <3>1, Zenon DEF Phase, Copied
  <2> QED BY <2>1, <2>2, Zenon
<1>7. Held'
  BY <1>0, <1>1, Zenon DEF Data, Held, DirtyPinned, Logged
<1>8. Header'
  <2>1. hdr = <<>>
    BY <1>0, <1>2, Zenon DEF Data, Header, Commits, WriteLog
  <2> QED BY <1>1, <1>2, <2>1, Zenon DEF Header
<1>9. Recovering'
  BY <1>1, <1>2, Zenon DEF Recovering
<1> QED BY <1>2, <1>6, <1>7, <1>8, <1>9, Zenon DEF Data

\* write_head() makes the copies count.
LEMMA WriteHeadData ==
  ASSUME LogInv, NEW p \in Threads, WriteHead(p)
  PROVE  Data'
<1>0. LogTypeOK /\ Turns /\ Data /\ Commits(p)
  BY Zenon DEF LogInv, Control, WriteHead, Commits
<1>1. /\ UNCHANGED <<home, logd, cache, pinned, lh, boot, committing, tail>>
      /\ hdr' = lh /\ pc'[p] = "install"
      /\ \A q \in Threads : q # p => pc'[q] = pc[q]
  BY <1>0, Zenon DEF WriteHead, LogTypeOK, inMemory
<1>2. /\ boot = "up" /\ committing
      /\ \A q \in Threads : q # p => ~Commits(q) /\ Phase(q)'
  BY <1>0, <1>1, CommitsAlone, Zenon
<1>3. lh \in Seq(Blocks) /\ lh # <<>> /\ tail = 1 /\ Copied(Len(lh))
  BY <1>0, Zenon DEF Data, Phase, WriteHead, LogTypeOK
<1>4. Len(lh) \in Nat /\ 1 <= Len(lh)
  BY <1>3
<1>5. Copied(Len(lh))'
  BY <1>1, <1>3, Zenon DEF Copied, View
<1>6. Phase(p)'
  <2>1. \A b \in pinned' : \E i \in tail' .. Len(lh') : lh'[i] = b
    BY <1>0, <1>1, <1>3, Zenon DEF Data, Held, Logged
  <2>2. Installed(tail - 1)'
    BY <1>1, <1>3 DEF Installed
  <2>3. hdr' = lh' /\ tail' <= Len(lh')
    BY <1>1, <1>3, <1>4, Zenon
  <2> QED BY <1>1, <1>5, <2>1, <2>2, <2>3, Zenon DEF Phase
<1>7. Held'
  BY <1>0, <1>1, Zenon DEF Data, Held, DirtyPinned, Logged
<1>8. Header'
  BY <1>1, <1>2, Zenon DEF Header
<1>9. Recovering'
  BY <1>1, <1>2, Zenon DEF Recovering
<1> QED BY <1>2, <1>6, <1>7, <1>8, <1>9, Zenon DEF Data

\* One block of install_trans(), in a commit or in the recovery.
LEMMA InstallOne ==
  ASSUME LogInv, tail \in 1 .. Len(lh), Installed(tail - 1), InstallBlock, lh' = lh, logd' = logd
  PROVE  /\ \A b \in Blocks : b # lh[tail] => home'[b] = home[b] /\ cache'[b] = cache[b]
         /\ home'[lh[tail]] = logd[tail] /\ cache'[lh[tail]] = logd[tail]
         /\ \A i \in 1 .. tail : home'[lh[i]] = logd[i]
<1>0. LogTypeOK /\ Distinct(lh)
  BY Zenon DEF LogInv, Control, Entries
<1>1. lh \in Seq(Blocks) /\ \A i \in 1 .. Len(lh) : lh[i] \in Blocks
  BY <1>0 DEF LogTypeOK
<1>2. \A b \in Blocks : b # lh[tail] => home'[b] = home[b] /\ cache'[b] = cache[b]
  BY <1>0, Zenon DEF InstallBlock, LogTypeOK
<1>3. home'[lh[tail]] = logd[tail] /\ cache'[lh[tail]] = logd[tail]
  BY <1>0, <1>1, Zenon DEF InstallBlock, LogTypeOK
<1>4. ASSUME NEW i \in 1 .. tail
      PROVE  home'[lh[i]] = logd[i]
  <2>1. tail \in Nat /\ Len(lh) \in Nat /\ i \in 1 .. Len(lh)
    BY <1>1
  <2>2. CASE i = tail
    BY <1>3, <2>2, Zenon
  <2>3. CASE i # tail
    <3>1. i \in 1 .. tail - 1 /\ lh[i] # lh[tail] /\ lh[i] \in Blocks
      BY <1>0, <1>1, <2>1, <2>3 DEF Distinct
    <3> QED BY <1>2, <3>1, Zenon DEF Installed
  <2> QED BY <2>2, <2>3, Zenon
<1> QED BY <1>2, <1>3, <1>4, Zenon

\* install_trans() of a commit.
LEMMA InstallData ==
  ASSUME LogInv, NEW p \in Threads, InstallTrans(p)
  PROVE  Data'
<1>0. LogTypeOK /\ Turns /\ Data /\ Commits(p) /\ Distinct(lh)
  BY Zenon DEF LogInv, Control, Entries, InstallTrans, Commits
<1>1. /\ UNCHANGED <<logd, hdr, lh, boot, committing>> /\ InstallBlock
      /\ pinned' = pinned \ {lh[tail]}
      /\ pc'[p] \in {"install", "clear"}
      /\ \A q \in Threads : q # p => pc'[q] = pc[q]
  BY <1>0, Zenon DEF InstallTrans, LogTypeOK
<1>2. /\ boot = "up" /\ committing
      /\ \A q \in Threads : q # p => ~Commits(q) /\ Phase(q)'
  BY <1>0, <1>1, CommitsAlone, Zenon
<1>3. /\ tail \in 1 .. Len(lh) /\ Len(lh) \in Nat
      /\ lh[tail] \in Blocks /\ \A i \in 1 .. Len(lh) : lh[i] \in Blocks
  BY <1>0, TailInLog DEF InstallTrans, LogTypeOK
<1>4. /\ hdr = lh /\ Copied(Len(lh)) /\ Installed(tail - 1)
      /\ \A b \in pinned : \E i \in tail .. Len(lh) : lh[i] = b
  BY <1>0, Zenon DEF Data, Phase, InstallTrans
<1>5. /\ \A b \in Blocks : b # lh[tail] => home'[b] = home[b] /\ cache'[b] = cache[b]
      /\ home'[lh[tail]] = logd[tail] /\ cache'[lh[tail]] = logd[tail]
      /\ \A i \in 1 .. tail : home'[lh[i]] = logd[i]
  BY <1>1, <1>3, <1>4, InstallOne, Zenon
<1>6. Copied(Len(lh))'
  <2>1. ASSUME NEW i \in 1 .. Len(lh)
        PROVE  logd'[i] = View(lh[i])'
    <3>1. CASE i = tail
      BY <1>1, <1>5, <3>1, Zenon DEF View
    <3>2. CASE i # tail
      <4>1. lh[i] # lh[tail] /\ lh[i] \in Blocks
        BY <1>0, <1>3, <3>2, Zenon DEF Distinct
      <4> QED BY <1>1, <1>4, <1>5, <4>1, ZenonT(60) DEF Copied, View
    <3> QED BY <3>1, <3>2, Zenon
  <2> QED BY <1>1, <2>1, Zenon DEF Copied
<1>7. \A b \in pinned' : \E i \in tail + 1 .. Len(lh) : lh[i] = b
  <2>1. ASSUME NEW b \in pinned, b # lh[tail]
        PROVE  \E i \in tail + 1 .. Len(lh) : lh[i] = b
    <3>1. PICK i \in tail .. Len(lh) : lh[i] = b
      BY <1>4, Zenon
    <3>2. i \in tail + 1 .. Len(lh)
      BY <1>3, <2>1, <3>1
    <3> QED BY <3>1, <3>2, Zenon
  <2> QED BY <1>1, <2>1, Zenon
<1>8. Phase(p)'
  <2>1. CASE tail = Len(lh)
    <3>1. pc'[p] = "clear" /\ pinned' = {}
      BY <1>0, <1>3, <1>7, <2>1 DEF InstallTrans, LogTypeOK
    <3> QED BY <1>1, <1>4, <1>5, <2>1, <3>1, Zenon DEF Phase, Installed
  <2>2. CASE tail # Len(lh)
    <3>0. pc'[p] = "install" /\ tail' = tail + 1 /\ lh' = lh
      BY <1>1, <2>2, Zenon DEF InstallTrans
    <3>1. pc'[p] = "install" /\ tail' = tail + 1 /\ tail' - 1 = tail /\ tail' <= Len(lh')
      BY <1>3, <2>2, <3>0
    <3>2. Installed(tail - 1)'
      BY <1>1, <1>5, <3>1, Zenon DEF Installed
    <3> QED BY <1>1, <1>4, <1>6, <1>7, <3>1, <3>2, Zenon DEF Phase
  <2> QED BY <2>1, <2>2, Zenon
<1>9. Held'
  <2>1. DirtyPinned'
    BY <1>0, <1>1, <1>5, Zenon DEF Data, Held, DirtyPinned
  <2> QED BY <1>0, <1>1, <2>1, Zenon DEF Data, Held, Logged
<1>10. Header'
  BY <1>1, <1>2, Zenon DEF Header
<1>11. Recovering'
  BY <1>1, <1>2, Zenon DEF Recovering
<1> QED BY <1>2, <1>8, <1>9, <1>10, <1>11, Zenon DEF Data

\* The second write_head(), and the end of end_op().
LEMMA CommitEndData ==
  ASSUME LogInv, NEW p \in Threads, ClearLog(p) \/ CommitDone(p)
  PROVE  Data'
<1>0. LogTypeOK /\ Turns /\ Data /\ Commits(p)
  BY Zenon DEF LogInv, Control, ClearLog, CommitDone, Commits
<1>1. CASE ClearLog(p)
  <2>1. /\ UNCHANGED <<home, logd, cache, pinned, boot, committing>>
        /\ lh' = <<>> /\ hdr' = <<>> /\ pc'[p] = "committed"
        /\ \A q \in Threads : q # p => pc'[q] = pc[q]
    BY <1>0, <1>1, Zenon DEF ClearLog, LogTypeOK
  <2>2. /\ boot = "up" /\ committing
        /\ \A q \in Threads : q # p => ~Commits(q) /\ Phase(q)'
    BY <1>0, <2>1, CommitsAlone, Zenon
  <2>3. pinned = {}
    BY <1>0, <1>1, Zenon DEF Data, Phase, ClearLog
  <2>4. Phase(p)'
    BY <2>1, Zenon DEF Phase
  <2>5. Held'
    BY <1>0, <2>1, <2>3, Zenon DEF Data, Held, DirtyPinned
  <2>6. Header' /\ Recovering'
    BY <2>1, <2>2, Zenon DEF Header, Recovering
  <2> QED BY <2>2, <2>4, <2>5, <2>6, Zenon DEF Data
<1>2. CASE CommitDone(p)
  <2>1. /\ UNCHANGED <<home, logd, hdr, cache, pinned, lh, tail, boot>>
        /\ \A q \in Threads : q # p /\ Commits(q) => pc'[q] = pc[q]
    BY <1>2, Zenon DEF CommitDone, WakeupLog, Commits, onDisk
  <2>2. boot = "up" /\ \A q \in Threads : q # p => ~Commits(q)
    BY <1>0, Zenon DEF Turns, Commits
  <2>3. \A q \in Threads : ~Commits(q)'
    BY <1>2, <2>2, Zenon DEF CommitDone, WakeupLog, Commits
  <2>4. lh = <<>> /\ hdr = <<>>
    BY <1>0, <1>2, <2>2, Zenon DEF Data, Phase, Header, CommitDone, Commits
  <2>5. \A q \in Threads : Phase(q)'
    BY <2>3, Zenon DEF Phase, Commits
  <2>6. Held'
    BY <1>0, <2>1, Zenon DEF Data, Held, DirtyPinned, Logged
  <2>7. Header' /\ Recovering'
    BY <2>1, <2>2, <2>4 DEF Header, Recovering
  <2> QED BY <2>5, <2>6, <2>7, Zenon DEF Data
<1> QED BY <1>1, <1>2, Zenon

\* log_write() pins what it enters.
LEMMA LogWriteData ==
  ASSUME LogInv, NEW p \in Threads, NEW b \in Blocks, NEW v \in Vals, LogWrite(p, b, v)
  PROVE  Data'
<1>0. LogTypeOK /\ Turns /\ Data /\ lh \in Seq(Blocks)
  BY Zenon DEF LogInv, Control, LogTypeOK
<1>1. /\ UNCHANGED <<home, logd, hdr, boot, pc, committing, tail>>
      /\ cache' = [cache EXCEPT ![b] = v]
  BY Zenon DEF LogWrite, onDisk
<1>2. ~committing /\ boot = "up" /\ Ops # {} /\ \A q \in Threads : ~Commits(q)
  BY <1>0, Zenon DEF Turns, Ops, LogWrite
<1>3. \A c \in Blocks : c # b => cache'[c] = cache[c]
  BY <1>0, <1>1, Zenon DEF LogTypeOK
<1>4. /\ b \in pinned' /\ pinned \subseteq pinned' /\ (\A c \in pinned' : Logged(lh', c))
      /\ \A i \in 1 .. Len(lh') : lh'[i] \in pinned'
  <2>1. CASE Logged(lh, b)
    BY <1>0, <1>2, <2>1, Zenon DEF LogWrite, Data, Held, Header, Logged
  <2>2. CASE ~Logged(lh, b)
    <3>1. lh' = Append(lh, b) /\ pinned' = pinned \cup {b}
      BY <2>2, Zenon DEF LogWrite
    <3>2. /\ Len(lh) \in Nat /\ Len(lh') = Len(lh) + 1 /\ lh'[Len(lh) + 1] = b
          /\ \A i \in 1 .. Len(lh) : lh'[i] = lh[i]
      BY <1>0, <3>1
    <3>3. \A i \in 1 .. Len(lh') : lh'[i] \in pinned'
      BY <1>0, <1>2, <3>1, <3>2 DEF Data, Header
    <3>4. ASSUME NEW c \in pinned'
          PROVE  Logged(lh', c)
      <4>1. CASE c = b
        <5>1. Len(lh) + 1 \in 1 .. Len(lh')
          BY <3>2
        <5> QED BY <3>2, <4>1, <5>1, Zenon DEF Logged
      <4>2. CASE c # b
        <5>1. PICK i \in 1 .. Len(lh) : lh[i] = c
          BY <1>0, <3>1, <4>2, Zenon DEF Data, Held, Logged
        <5>2. i \in 1 .. Len(lh') /\ lh'[i] = c
          BY <3>2, <5>1
        <5> QED BY <5>2, Zenon DEF Logged
      <4> QED BY <4>1, <4>2, Zenon
    <3> QED BY <3>1, <3>3, <3>4, Zenon
  <2> QED BY <2>1, <2>2, Zenon
<1>5. Held'
  BY <1>0, <1>1, <1>3, <1>4, Zenon DEF Data, Held, DirtyPinned
<1>6. Header'
  <2>1. Ops' # {} /\ ~committing' /\ hdr' = <<>>
    BY <1>0, <1>1, <1>2, Zenon DEF Ops, Data, Header, Commits
  <2> QED BY <1>4, <2>1, Zenon DEF Header
<1>7. \A q \in Threads : Phase(q)'
  BY <1>1, <1>2, Zenon DEF Phase, Commits
<1>8. Recovering'
  BY <1>1, <1>2, Zenon DEF Recovering
<1> QED BY <1>5, <1>6, <1>7, <1>8, Zenon DEF Data

\* Recycling a buffer that is not pinned changes nothing that bread() returns.
LEMMA EvictKeepsView ==
  ASSUME LogInv, NEW b \in Blocks, Evict(b)
  PROVE  \A c \in Blocks : View(c)' = View(c)
<1>0. Held /\ LogTypeOK
  BY Zenon DEF LogInv, Control, Data
<1>1. View(b) = home[b]
  BY <1>0, UnpinnedIsHome, Zenon DEF Evict
<1>2. home' = home /\ cache'[b] = None /\ \A c \in Blocks : c # b => cache'[c] = cache[c]
  BY <1>0, Zenon DEF Evict, LogTypeOK, onDisk
<1> QED BY <1>1, <1>2, Zenon DEF View

\* A buffer that is recycled (bget) was not pinned, so the disk has its content.
LEMMA EvictData ==
  ASSUME LogInv, NEW b \in Blocks, Evict(b)
  PROVE  Data'
<1>0. LogTypeOK /\ Data /\ lh \in Seq(Blocks)
  BY Zenon DEF LogInv, Control, LogTypeOK
<1>1. /\ UNCHANGED <<home, logd, hdr, pinned, lh, tail, boot, pc, committing>> /\ boot = "up"
      /\ cache'[b] = None /\ \A c \in Blocks : c # b => cache'[c] = cache[c]
  BY <1>0, Zenon DEF Evict, LogTypeOK, onDisk
<1>2. \A i \in 1 .. Len(lh) : View(lh[i])' = View(lh[i])
  <2>1. \A i \in 1 .. Len(lh) : lh[i] \in Blocks
    BY <1>0
  <2> QED BY <1>1, <2>1, EvictKeepsView, Zenon DEF View
<1>3. Held'
  BY <1>0, <1>1, Zenon DEF Data, Held, DirtyPinned, Logged
<1>4. Header' /\ Recovering'
  BY <1>0, <1>1, Zenon DEF Data, Header, Recovering, Ops
<1>5. ASSUME NEW q \in Threads
      PROVE  Phase(q)'
  <2>1. tail \in Nat /\ Len(lh) \in Nat /\ Phase(q)
    BY <1>0, LogAssumption DEF LogTypeOK, Data
  <2>2. (tail <= Len(lh) /\ Copied(tail - 1)) => Copied(tail - 1)'
    BY <1>1, <1>2, <2>1 DEF Copied
  <2>3. Copied(Len(lh)) => Copied(Len(lh))'
    BY <1>1, <1>2, Zenon DEF Copied
  <2>4. /\ Installed(tail - 1) => Installed(tail - 1)'
        /\ Installed(Len(lh)) => Installed(Len(lh))'
    BY <1>1, Zenon DEF Installed
  <2> QED BY <1>1, <2>1, <2>2, <2>3, <2>4, Zenon DEF Phase
<1> QED BY <1>3, <1>4, <1>5, Zenon DEF Data

\* A crash leaves the disk to the recovery.
LEMMA CrashData ==
  ASSUME LogInv, Crash
  PROVE  Data'
<1>1. \A b \in Blocks : cache'[b] = None
  BY Zenon DEF Crash
<1>2. Held'
  BY <1>1, Zenon DEF Held, DirtyPinned, Crash
<1>3. Header'
  BY Zenon DEF Header, Crash
<1>4. \A q \in Threads : Phase(q)'
  BY Zenon DEF Phase, Crash
<1>5. Recovering'
  BY Zenon DEF Recovering, Crash
<1> QED BY <1>2, <1>3, <1>4, <1>5, Zenon DEF Data

\* recover_from_log() installs the same blocks again.
LEMMA RecoverData ==
  ASSUME LogInv, Recover
  PROVE  Data'
<1>0. LogTypeOK /\ Turns /\ Data /\ boot # "up" /\ pinned = {} /\ hdr \in Seq(Blocks)
  BY Zenon DEF LogInv, Control, Data, Recovering, LogTypeOK, Recover, ReadHead, RecoverBlock,
         RecoverClear
<1>1. /\ pinned' = {} /\ pc' = pc /\ logd' = logd /\ committing' = committing
      /\ \A q \in Threads : pc[q] = "idle"
  BY <1>0, Zenon DEF Turns, Recover, ReadHead, RecoverBlock, RecoverClear, onDisk
<1>2. \A q \in Threads : Phase(q)'
  BY <1>1, Zenon DEF Phase
<1>3. CASE ReadHead
  <2>1. UNCHANGED <<home, hdr, cache, tail>> /\ lh' = hdr /\ tail = 1
    BY <1>0, <1>3, Zenon DEF ReadHead, onDisk, Data, Recovering
  <2>2. Len(hdr) \in Nat /\ (hdr # <<>> => 1 <= Len(hdr)) /\ (hdr = <<>> => Len(hdr) = 0)
    BY <1>0
  <2>3. Held'
    BY <1>0, <1>1, <2>1, Zenon DEF Data, Held, DirtyPinned
  <2>4. Recovering' /\ Header'
    BY <1>1, <1>3, <2>1, <2>2 DEF ReadHead, Recovering, Header, Installed
  <2> QED BY <1>2, <2>3, <2>4, Zenon DEF Data
<1>4. CASE RecoverBlock
  <2>1. /\ UNCHANGED <<hdr, lh>> /\ InstallBlock /\ lh = hdr /\ Installed(tail - 1)
        /\ tail \in 1 .. Len(lh) /\ Len(lh) \in Nat
    BY <1>0, <1>4, TailInLog DEF RecoverBlock, Data, Recovering
  <2>2. /\ \A b \in Blocks : b # lh[tail] => home'[b] = home[b] /\ cache'[b] = cache[b]
        /\ home'[lh[tail]] = logd[tail] /\ cache'[lh[tail]] = logd[tail]
        /\ \A i \in 1 .. tail : home'[lh[i]] = logd[i]
    BY <1>1, <2>1, InstallOne, Zenon
  <2>3. Held'
    BY <1>0, <1>1, <2>2, Zenon DEF Data, Held, DirtyPinned
  <2>4. CASE tail = Len(lh)
    <3>1. boot' = "clear"
      BY <1>4, <2>4, Zenon DEF RecoverBlock
    <3> QED BY <1>1, <1>2, <2>1, <2>2, <2>3, <2>4, <3>1, Zenon
               DEF Data, Header, Recovering, Installed
  <2>5. CASE tail # Len(lh)
    <3>1. boot' = "install" /\ tail' = tail + 1 /\ tail' - 1 = tail /\ tail' <= Len(lh')
      BY <1>4, <2>1, <2>5 DEF RecoverBlock
    <3> QED BY <1>1, <1>2, <2>1, <2>2, <2>3, <3>1, Zenon DEF Data, Header, Recovering, Installed
  <2> QED BY <2>4, <2>5, Zenon
<1>5. CASE RecoverClear
  <2>1. UNCHANGED <<home, cache>> /\ lh' = <<>> /\ hdr' = <<>> /\ boot' = "up"
    BY <1>5, Zenon DEF RecoverClear
  <2>2. Held'
    BY <1>0, <1>1, <2>1, Zenon DEF Data, Held, DirtyPinned
  <2>3. Header' /\ Recovering'
    BY <2>1 DEF Header, Recovering
  <2> QED BY <1>2, <2>2, <2>3, Zenon DEF Data
<1> QED BY <1>3, <1>4, <1>5, Zenon DEF Recover

-----------------------------------------------------------------------------
(* The inductive invariant *)

\* Every step of the log, of a crash and of the recovery keeps the copies in order.
LEMMA DataStep ==
  ASSUME LogInv, [LogNext]_logVars
  PROVE  Data'
<1>1. ASSUME NEW p \in Threads, SysStart(p) \/ EndOp(p) \/ LogStep(p)
      PROVE  Data'
  BY <1>1, CallData, LastEndOpData, WriteLogData, WriteHeadData, InstallData, CommitEndData, Zenon
     DEF LogStep
<1>2. CASE UNCHANGED logVars
  <2>1. UNCHANGED <<home, logd, hdr, cache, pinned, lh, tail, boot, pc, committing>>
    BY <1>2, Zenon DEF logVars, onDisk, inMemory
  <2>2. Data /\ \A q \in Threads : pc'[q] = pc[q]
    BY <2>1, Zenon DEF LogInv
  <2>3. ~committing /\ Ops' = {} /\ boot = "up" => lh = <<>>
    BY <2>1, <2>2, Zenon DEF Data, Header, Ops
  <2> QED BY <2>1, <2>2, <2>3, ThreadStep, Zenon
<1> QED BY <1>1, <1>2, CallData, LogWriteData, EvictData, CrashData, RecoverData, Zenon DEF LogNext

\* The invariant of the log holds at boot, through every crash and after it.
LEMMA LogInvHolds == LogSpec => []LogInv
<1>1. LogInit => LogInv
  <2> SUFFICES ASSUME LogInit
               PROVE  LogInv
    OBVIOUS
  <2>1. /\ <<>> \in Seq(Blocks) /\ Len(<<>>) = 0 /\ LOGBLOCKS \in Nat /\ 1 \in 1 .. LOGBLOCKS
        /\ \A p \in Threads : pc[p] = "idle"
    BY LogAssumption DEF LogInit
  <2>2. LogTypeOK
    BY <2>1, Zenon DEF LogInit, LogTypeOK
  <2>3. Ops = {}
    BY <2>1, Zenon DEF Ops
  <2>4. Counted
    BY <2>3, FS_EmptySet, Zenon DEF LogInit, Counted
  <2>5. Turns
    BY <2>1, Zenon DEF LogInit, Turns, Commits
  <2>6. Entries
    BY <2>1 DEF LogInit, Entries, Distinct
  <2>7. Data
    BY <2>1, Zenon DEF LogInit, Data, Held, DirtyPinned, Header, Phase, Recovering
  <2>8. WaitersJustified
    BY <2>1, Zenon DEF WaitersJustified
  <2> QED BY <2>2, <2>4, <2>5, <2>6, <2>7, <2>8, Zenon DEF LogInv, Control
<1>2. LogInv /\ [LogNext]_logVars => LogInv'
  <2> SUFFICES ASSUME LogInv, [LogNext]_logVars
               PROVE  LogInv'
    OBVIOUS
  <2>1. LogTypeOK /\ Counted /\ Turns
    BY Zenon DEF LogInv, Control
  <2> QED BY <2>1, TypeStep, CountStep, TurnStep, EntriesStep, DataStep, WaitStep, Zenon
          DEF LogInv, Control
<1> QED BY <1>1, <1>2, PTL DEF LogSpec

\* The loops of log.c stay inside the log, and log.outstanding is never negative.
THEOREM LogTypes == LogSpec => []LogTypeOK
<1>1. LogInv => LogTypeOK
  BY Zenon DEF LogInv, Control
<1> QED BY <1>1, LogInvHolds, PTL

\* No thread is left asleep in begin_op(): end_op() wakes it when it makes room.
THEOREM NoLogWaiterStranded == LogSpec => []WaitersJustified
<1>1. LogInv => WaitersJustified
  BY Zenon DEF LogInv
<1> QED BY <1>1, LogInvHolds, PTL

-----------------------------------------------------------------------------
(* The log implements the atomic disk *)

\* recover_from_log() takes a block from the one entry of the header that
\* names it, and leaves the others where they are.
LEMMA RecoversEntry ==
  ASSUME Distinct(hdr), NEW i \in 1 .. Len(hdr)
  PROVE  AfterRecovery(hdr[i]) = logd[i]
<1>1. Logged(hdr, hdr[i])
  BY Zenon DEF Logged
<1>2. (CHOOSE j \in 1 .. Len(hdr) : hdr[j] = hdr[i]) = i
  BY Zenon DEF Distinct
<1> QED BY <1>1, <1>2, Zenon DEF AfterRecovery

\* With an empty header, recover_from_log() leaves the home blocks as they are.
LEMMA RecoversHome ==
  ASSUME NEW b, hdr = <<>>
  PROVE  AfterRecovery(b) = home[b]
<1>1. ~Logged(hdr, b)
  BY DEF Logged
<1> QED BY <1>1, Zenon DEF AfterRecovery

\* Once a thread has returned from the last end_op(), its writes survive a crash.
THEOREM QuietMeansDurable == LogSpec => []QuietIsDurable
<1>1. LogInv => QuietIsDurable
  <2> SUFFICES ASSUME LogInv, boot = "up", outstanding = 0, ~committing
               PROVE  lh = <<>> /\ \A b \in Blocks : AfterRecovery(b) = View(b)
    BY Zenon DEF QuietIsDurable
  <2>1. Ops = {} /\ \A p \in Threads : ~Commits(p)
    BY FS_EmptySet, Zenon DEF LogInv, Control, Counted, Turns
  <2>2. lh = <<>> /\ hdr = <<>>
    BY <2>1, Zenon DEF LogInv, Data, Header, Commits
  <2>3. ASSUME NEW b \in Blocks
        PROVE  AfterRecovery(b) = View(b)
    <3>1. b \notin pinned
      BY <2>2 DEF LogInv, Data, Held, Logged
    <3> QED BY <2>2, <3>1, RecoversHome, UnpinnedIsHome, Zenon DEF LogInv, Data
  <2> QED BY <2>2, <2>3, Zenon
<1> QED BY <1>1, LogInvHolds, PTL

\* What the calls read: the current state of the abstract disk.
Reads(b) == IF boot = "up" THEN View(b) ELSE AfterRecovery(b)

\* A step that keeps both is a stuttering step of the abstract disk.
LEMMA DiskStutter ==
  ASSUME \A b \in Blocks : AfterRecovery(b)' = AfterRecovery(b) /\ Reads(b)' = Reads(b),
         outstanding' = outstanding
  PROVE  UNCHANGED Disk!diskVars
BY Zenon DEF Disk!diskVars, Reads

\* Steps that touch neither the disk nor a buffer.
LEMMA SameBlocks ==
  ASSUME UNCHANGED <<home, logd, hdr, cache, boot>>
  PROVE  \A b \in Blocks : AfterRecovery(b)' = AfterRecovery(b) /\ Reads(b)' = Reads(b)
BY Zenon DEF AfterRecovery, Logged, Reads, View

\* begin_op() and end_op() are Begin and End, or invisible.
LEMMA CallRefines ==
  ASSUME LogInv, NEW p \in Threads,
         \/ SysStart(p) \/ BeginOp(p) \/ EndOp(p) \/ CommitDone(p)
         \/ \E b \in Blocks : LogWritePanic(p, b)
  PROVE  [Disk!DiskNext]_(Disk!diskVars)
<1>1. UNCHANGED <<home, logd, hdr, cache, boot>>
  BY Zenon DEF SysStart, BeginOp, EndOp, CommitDone, LogWritePanic, onDisk, inMemory
<1>2. \A b \in Blocks : AfterRecovery(b)' = AfterRecovery(b) /\ Reads(b)' = Reads(b)
  BY <1>1, SameBlocks, Zenon
<1>3. CASE outstanding' = outstanding
  BY <1>2, <1>3, DiskStutter, Zenon
<1>4. CASE outstanding' = outstanding + 1
  BY <1>2, <1>4, Zenon DEF Disk!DiskNext, Disk!Begin, Reads
<1>5. CASE EndOp(p)
  <2>1. outstanding > 0 /\ outstanding' = outstanding - 1
    BY <1>5, OpIsCounted DEF EndOp, LogInv, Control, LogTypeOK
  <2> QED BY <1>2, <2>1, Zenon DEF Disk!DiskNext, Disk!End, Reads
<1> QED BY <1>3, <1>4, <1>5, Zenon DEF SysStart, BeginOp, CommitDone, LogWritePanic, inMemory

\* A write to the log while the header is empty cannot be seen.
LEMMA WriteLogRefines ==
  ASSUME LogInv, NEW p \in Threads, WriteLog(p)
  PROVE  UNCHANGED Disk!diskVars
<1>1. UNCHANGED <<home, hdr, cache, boot, outstanding>>
  BY Zenon DEF WriteLog
<1>2. boot = "up" /\ \A q \in Threads : pc[q] \notin {"install", "clear"}
  BY Zenon DEF LogInv, Control, Turns, Commits, WriteLog
<1>3. hdr = <<>>
  BY <1>2, Zenon DEF LogInv, Data, Header
<1>4. ASSUME NEW b \in Blocks
      PROVE  AfterRecovery(b)' = AfterRecovery(b) /\ Reads(b)' = Reads(b)
  <2>1. ~Logged(hdr, b)
    BY <1>3 DEF Logged
  <2>2. AfterRecovery(b)' = home[b] /\ AfterRecovery(b) = home[b]
    BY <1>1, <2>1, Zenon DEF AfterRecovery, Logged
  <2> QED BY <1>1, <2>2, Zenon DEF Reads, View
<1> QED BY <1>1, <1>4, DiskStutter, Zenon

\* write_head() is the commit: from then on a crash leaves what the calls read.
LEMMA WriteHeadRefines ==
  ASSUME LogInv, NEW p \in Threads, WriteHead(p)
  PROVE  Disk!Commit
<1>0. LogTypeOK /\ Counted /\ Turns /\ Distinct(lh) /\ Held /\ Phase(p)
  BY Zenon DEF LogInv, Control, Entries, Data
<1>1. UNCHANGED <<home, logd, cache, lh, boot, outstanding>> /\ hdr' = lh
  BY Zenon DEF WriteHead, inMemory
<1>2. boot = "up" /\ outstanding = 0
  BY <1>0, FS_EmptySet, Zenon DEF Turns, Commits, Counted, WriteHead
<1>3. ASSUME NEW b \in Blocks
      PROVE  AfterRecovery(b)' = View(b)
  <2>1. CASE Logged(lh, b)
    <3>1. PICK i \in 1 .. Len(lh) : lh[i] = b
      BY <2>1, Zenon DEF Logged
    <3>2. (CHOOSE j \in 1 .. Len(lh) : lh[j] = b) = i
      BY <1>0, <3>1, Zenon DEF Distinct
    <3>3. AfterRecovery(b)' = logd[i]
      BY <1>1, <2>1, <3>2, Zenon DEF AfterRecovery, Logged
    <3> QED BY <1>0, <3>1, <3>3, Zenon DEF Phase, Copied, WriteHead
  <2>2. CASE ~Logged(lh, b)
    <3>1. View(b) = home[b]
      BY <1>0, <2>2, UnpinnedIsHome, Zenon DEF Held
    <3> QED BY <1>1, <2>2, <3>1, Zenon DEF AfterRecovery, Logged
  <2> QED BY <2>1, <2>2, Zenon
<1>4. \A b \in Blocks : Reads(b) = View(b) /\ Reads(b)' = View(b)
  BY <1>1, <1>2, Zenon DEF Reads, View
<1> QED BY <1>1, <1>2, <1>3, <1>4, Zenon DEF Disk!Commit, Reads

\* Writing home a block that the header already names changes
\* nothing that a crash would leave.
LEMMA InstallKeeps ==
  ASSUME LogInv, tail \in 1 .. Len(lh), Installed(tail - 1), hdr = lh,
         InstallBlock, lh' = lh, logd' = logd, hdr' = hdr
  PROVE  \A b \in Blocks : AfterRecovery(b)' = AfterRecovery(b)
<1>1. \A b \in Blocks : b # lh[tail] => home'[b] = home[b]
  BY InstallOne, Zenon
<1> SUFFICES ASSUME NEW b \in Blocks
             PROVE  AfterRecovery(b)' = AfterRecovery(b)
  OBVIOUS
<1>2. ~Logged(hdr, b) => home'[b] = home[b]
  BY <1>1, Zenon DEF Logged
<1> QED BY <1>2, Zenon DEF AfterRecovery, Logged

\* install_trans() cannot be seen either.
LEMMA InstallRefines ==
  ASSUME LogInv, NEW p \in Threads, InstallTrans(p)
  PROVE  UNCHANGED Disk!diskVars
<1>0. Turns /\ Phase(p) /\ boot = "up"
  BY Zenon DEF LogInv, Control, Data, Turns, InstallTrans
<1>1. UNCHANGED <<logd, hdr, lh, boot, outstanding>> /\ InstallBlock
  BY Zenon DEF InstallTrans
<1>2. tail \in 1 .. Len(lh) /\ hdr = lh /\ Installed(tail - 1) /\ Copied(Len(lh))
  BY <1>0, TailInLog, Zenon DEF Phase, InstallTrans
<1>3. \A b \in Blocks : AfterRecovery(b)' = AfterRecovery(b)
  BY <1>1, <1>2, InstallKeeps, Zenon
<1>4. /\ \A b \in Blocks : b # lh[tail] => home'[b] = home[b] /\ cache'[b] = cache[b]
      /\ home'[lh[tail]] = logd[tail] /\ cache'[lh[tail]] = logd[tail]
  BY <1>1, <1>2, InstallOne, Zenon
<1>5. View(lh[tail]) = logd[tail]
  BY <1>2, Zenon DEF Copied
<1>6. \A b \in Blocks : View(b)' = View(b)
  BY <1>4, <1>5, Zenon DEF View
<1> QED BY <1>0, <1>1, <1>3, <1>6, DiskStutter, Zenon DEF Reads

\* Clearing the header after the last block was installed.
LEMMA ClearKeeps ==
  ASSUME LogInv, hdr = lh, Installed(Len(lh)), hdr' = <<>>, home' = home
  PROVE  \A b \in Blocks : AfterRecovery(b)' = home[b] /\ AfterRecovery(b) = home[b]
<1> SUFFICES ASSUME NEW b \in Blocks
             PROVE  AfterRecovery(b)' = home[b] /\ AfterRecovery(b) = home[b]
  OBVIOUS
<1>1. AfterRecovery(b)' = home[b]
  BY DEF AfterRecovery, Logged
<1>2. CASE Logged(hdr, b)
  <2>1. PICK i \in 1 .. Len(hdr) : hdr[i] = b
    BY <1>2, Zenon DEF Logged
  <2>2. AfterRecovery(b) = logd[i]
    BY <2>1, RecoversEntry, Zenon DEF LogInv, Control, Entries
  <2> QED BY <1>1, <2>1, <2>2, Zenon DEF Installed
<1>3. CASE ~Logged(hdr, b)
  BY <1>1, <1>3, Zenon DEF AfterRecovery
<1> QED BY <1>2, <1>3, Zenon

\* Clearing the header after install_trans() changes nothing that can be observed.
LEMMA ClearRefines ==
  ASSUME LogInv, NEW p \in Threads, ClearLog(p)
  PROVE  UNCHANGED Disk!diskVars
<1>1. UNCHANGED <<home, cache, boot, outstanding>> /\ hdr' = <<>>
  BY Zenon DEF ClearLog
<1>2. hdr = lh /\ Installed(Len(lh))
  BY Zenon DEF LogInv, Data, Phase, ClearLog
<1>3. \A b \in Blocks : AfterRecovery(b)' = AfterRecovery(b)
  BY <1>1, <1>2, ClearKeeps, Zenon
<1> QED BY <1>1, <1>3, DiskStutter, Zenon DEF Reads, View

\* log_write() is a write of a call under way.
LEMMA LogWriteRefines ==
  ASSUME LogInv, NEW p \in Threads, NEW b \in Blocks, NEW v \in Vals, LogWrite(p, b, v)
  PROVE  Disk!Write(b, v)
<1>0. LogTypeOK /\ Turns /\ Counted /\ v # None
  BY LogAssumption, Zenon DEF LogInv, Control
<1>1. /\ UNCHANGED <<home, logd, hdr, boot, outstanding>> /\ boot = "up" /\ outstanding > 0
      /\ cache' = [cache EXCEPT ![b] = v]
  BY <1>0 DEF LogWrite, onDisk, Turns, LogTypeOK
<1>2. \A c \in Blocks : AfterRecovery(c)' = AfterRecovery(c)
  BY <1>1, Zenon DEF AfterRecovery, Logged
<1>3. \A c \in Blocks : Reads(c)' = IF c = b THEN v ELSE Reads(c)
  BY <1>0, <1>1, Zenon DEF Reads, View, LogTypeOK
<1>4. [c \in Blocks |-> Reads(c)'] = [[c \in Blocks |-> Reads(c)] EXCEPT ![b] = v]
  BY <1>3, Zenon
<1> QED BY <1>1, <1>2, <1>4, Zenon DEF Disk!Write, Reads

\* Recycling a buffer cannot be seen.
LEMMA EvictRefines ==
  ASSUME LogInv, NEW b \in Blocks, Evict(b)
  PROVE  UNCHANGED Disk!diskVars
<1>1. UNCHANGED <<home, logd, hdr, boot, outstanding>>
  BY Zenon DEF Evict, onDisk
<1>2. \A c \in Blocks : View(c)' = View(c)
  BY EvictKeepsView, Zenon
<1>3. \A c \in Blocks : AfterRecovery(c)' = AfterRecovery(c)
  BY <1>1, Zenon DEF AfterRecovery, Logged
<1> QED BY <1>1, <1>2, <1>3, DiskStutter, Zenon DEF Reads

\* A crash takes the calls back to the last commit.
LEMMA CrashRefines ==
  ASSUME LogInv, Crash
  PROVE  Disk!Crash
<1>1. UNCHANGED <<home, logd, hdr>> /\ boot' = "read_head" /\ outstanding' = 0
  BY Zenon DEF Crash, onDisk
<1>2. \A c \in Blocks : AfterRecovery(c)' = AfterRecovery(c)
  BY <1>1, Zenon DEF AfterRecovery, Logged
<1> QED BY <1>1, <1>2, Zenon DEF Disk!Crash

\* The recovery keeps what the crash has left.
LEMMA RecoverRefines ==
  ASSUME LogInv, Recover
  PROVE  UNCHANGED Disk!diskVars
<1>0. boot # "up" /\ outstanding' = outstanding
  BY Zenon DEF Recover, ReadHead, RecoverBlock, RecoverClear
<1>1. CASE ReadHead
  <2>1. UNCHANGED <<home, logd, hdr>> /\ boot' # "up"
    BY <1>1, Zenon DEF ReadHead, onDisk
  <2>2. \A c \in Blocks : AfterRecovery(c)' = AfterRecovery(c)
    BY <2>1, Zenon DEF AfterRecovery, Logged
  <2> QED BY <1>0, <2>1, <2>2, DiskStutter, Zenon DEF Reads
<1>2. CASE RecoverBlock
  <2>1. UNCHANGED <<logd, hdr, lh>> /\ InstallBlock /\ boot' # "up" /\ boot = "install"
    BY <1>2, Zenon DEF RecoverBlock
  <2>2. tail \in 1 .. Len(lh) /\ hdr = lh /\ Installed(tail - 1)
    BY <2>1, TailInLog, Zenon DEF LogInv, Data, Recovering
  <2>3. \A c \in Blocks : AfterRecovery(c)' = AfterRecovery(c)
    BY <2>1, <2>2, InstallKeeps, Zenon
  <2> QED BY <1>0, <2>1, <2>3, DiskStutter, Zenon DEF Reads
<1>3. CASE RecoverClear
  <2>1. UNCHANGED <<home, cache>> /\ hdr' = <<>> /\ boot' = "up" /\ boot = "clear"
    BY <1>3, Zenon DEF RecoverClear
  <2>2. hdr = lh /\ Installed(Len(lh)) /\ pinned = {} /\ Held
    BY <2>1, Zenon DEF LogInv, Data, Recovering
  <2>3. \A c \in Blocks : AfterRecovery(c)' = home[c] /\ AfterRecovery(c) = home[c]
    BY <2>1, <2>2, ClearKeeps, Zenon
  <2>4. \A c \in Blocks : View(c)' = home[c]
    <3>1. \A c \in Blocks : View(c) = home[c]
      BY <2>2, UnpinnedIsHome, Zenon
    <3> QED BY <2>1, <3>1, Zenon DEF View
  <2> QED BY <1>0, <2>1, <2>3, <2>4, DiskStutter, Zenon DEF Reads
<1> QED BY <1>1, <1>2, <1>3, Zenon DEF Recover

\* The log implements a disk with atomic transactions: whenever the power fails,
\* in commit(), in install_trans() or in the recovery from an earlier failure,
\* the blocks are as they were at the last write_head() of a transaction, and
\* no transaction is cut through the middle of a call.
THEOREM CrashAtomic == LogSpec => ImplementsAtomicDisk
<1>1. LogInit => Disk!DiskInit
  <2> SUFFICES ASSUME LogInit
               PROVE  Disk!DiskInit
    OBVIOUS
  <2>1. home \in [Blocks -> Vals] /\ outstanding = 0 /\ boot # "up"
    BY Zenon DEF LogInit
  <2>2. \A b \in Blocks : AfterRecovery(b) = home[b]
    BY RecoversHome, Zenon DEF LogInit
  <2> QED BY <2>1, <2>2, Zenon DEF Disk!DiskInit
<1>2. LogInv /\ [LogNext]_logVars => [Disk!DiskNext]_(Disk!diskVars)
  <2> SUFFICES ASSUME LogInv, [LogNext]_logVars
               PROVE  [Disk!DiskNext]_(Disk!diskVars)
    OBVIOUS
  <2>1. ASSUME NEW p \in Threads, SysStart(p) \/ EndOp(p) \/ LogStep(p)
        PROVE  [Disk!DiskNext]_(Disk!diskVars)
    BY <2>1, CallRefines, WriteLogRefines, WriteHeadRefines, InstallRefines, ClearRefines, Zenon
       DEF LogStep, Disk!DiskNext
  <2>2. ASSUME NEW p \in Threads, NEW b \in Blocks, NEW v \in Vals, LogWrite(p, b, v)
        PROVE  Disk!DiskNext
    BY <2>2, LogWriteRefines, Zenon DEF Disk!DiskNext
  <2>3. CASE Crash
    BY <2>3, CrashRefines, Zenon DEF Disk!DiskNext
  <2>4. CASE UNCHANGED logVars
    <3>1. UNCHANGED <<home, logd, hdr, cache, boot>> /\ outstanding' = outstanding
      BY <2>4, Zenon DEF logVars, onDisk, inMemory
    <3> QED BY <3>1, SameBlocks, DiskStutter, Zenon
  <2> QED BY <2>1, <2>2, <2>3, <2>4, CallRefines, EvictRefines, RecoverRefines, Zenon DEF LogNext
<1> QED BY <1>1, <1>2, LogInvHolds, PTL DEF LogSpec, ImplementsAtomicDisk, Disk!DiskSpec

-----------------------------------------------------------------------------
(* The space that begin_op() reserves.                                     *)

\* The blocks that begin_op() reserved in the log and that the calls under way
\* have not written yet, one pair for each, when f tells where each thread is
\* and w what it has written.
ReservedOf(f, w) ==
  {x \in Threads \X (1 .. MAXOPBLOCKS) :
     f[x[1]] \in {"op", "panicked"} /\ Cardinality(w[x[1]]) < x[2]}

Reserved == ReservedOf(pc, wrote)

\* What a call has written is in the log, and the log has room for all that the
\* calls under way may still write.
Room ==
  /\ \A p \in Threads :
       /\ IsFiniteSet(wrote[p]) /\ Cardinality(wrote[p]) <= MaxWrites
       /\ pc[p] \notin {"op", "panicked"} => wrote[p] = {}
       /\ \A b \in wrote[p] : Logged(lh, b)
  /\ Ops # {} => Len(lh) + Cardinality(Reserved) <= LOGBLOCKS

\* A set of pairs with first parts in S and second parts up to m is no larger
\* than m for each element of S.
LEMMA PairsBounded ==
  ASSUME NEW S, IsFiniteSet(S), NEW m \in Nat, NEW R \in SUBSET (S \X (1 .. m))
  PROVE  IsFiniteSet(R) /\ Cardinality(R) \in Nat /\ Cardinality(R) <= Cardinality(S) * m
<1>1. IsFiniteSet(1 .. m) /\ Cardinality(1 .. m) = m
  BY FS_Interval
<1>2. IsFiniteSet(S \X (1 .. m)) /\ Cardinality(S \X (1 .. m)) = Cardinality(S) * m
  BY <1>1, FS_Product, Zenon
<1>3. IsFiniteSet(R) /\ Cardinality(R) <= Cardinality(S \X (1 .. m))
  BY <1>2, FS_Subset, Zenon
<1> QED BY <1>2, <1>3, FS_CardinalityType, Zenon

\* The reservations are finitely many, MAXOPBLOCKS at most for each call.
LEMMA ReservationsFinite ==
  ASSUME NEW f, NEW w, NEW S, IsFiniteSet(S), \A p \in Threads : f[p] \in {"op", "panicked"} => p \in S
  PROVE  /\ IsFiniteSet(ReservedOf(f, w)) /\ Cardinality(ReservedOf(f, w)) \in Nat
         /\ Cardinality(ReservedOf(f, w)) <= Cardinality(S) * MAXOPBLOCKS
<1>1. ReservedOf(f, w) \in SUBSET (S \X (1 .. MAXOPBLOCKS))
  BY Zenon DEF ReservedOf
<1>2. MAXOPBLOCKS \in Nat
  BY LogAssumption, Zenon DEF LogAssumption
<1> QED BY <1>1, <1>2, PairsBounded, Zenon

\* A step that moves no thread in or out of a call, writes nothing and leaves
\* the log as it is.
LEMMA RoomKept ==
  ASSUME Room, wrote' = wrote, lh' = lh, \A q \in Threads : pc'[q] \in {"op", "panicked"} <=> pc[q] \in {"op", "panicked"}
  PROVE  Room'
<1>1. Reserved' = Reserved /\ Ops' = Ops
  BY Zenon DEF Reserved, ReservedOf, Ops
<1>2. \A p \in Threads :
        /\ IsFiniteSet(wrote'[p]) /\ Cardinality(wrote'[p]) <= MaxWrites
        /\ pc'[p] \notin {"op", "panicked"} => wrote'[p] = {}
        /\ \A b \in wrote'[p] : Logged(lh', b)
  BY Zenon DEF Room
<1> QED BY <1>1, <1>2, Zenon DEF Room, Logged

\* A step after which no call is under way.
LEMMA RoomQuiet ==
  ASSUME \A p \in Threads : pc'[p] \notin {"op", "panicked"} /\ wrote'[p] = {}
  PROVE  Room'
<1>1. Ops' = {}
  BY Zenon DEF Ops
<1>2. IsFiniteSet({}) /\ Cardinality({}) = 0
  BY FS_EmptySet, Zenon
<1>3. 0 <= MaxWrites
  BY LogAssumption DEF LogAssumption
<1> QED BY <1>1, <1>2, <1>3, Zenon DEF Room

\* begin_op() lets a call in only when its reservation fits beside the log and
\* the reservations of the others.
LEMMA BeginRoom ==
  ASSUME LogTypeOK, Counted, Counted', Room, NEW p \in Threads, BeginOp(p)
  PROVE  Room'
<1>1. CASE MustWait
  <2>1. wrote' = wrote /\ lh' = lh /\ \A q \in Threads : pc'[q] \in {"op", "panicked"} <=> pc[q] \in {"op", "panicked"}
    BY <1>1, Zenon DEF BeginOp, LogTypeOK
  <2> QED BY <2>1, RoomKept, Zenon
<1>2. CASE ~MustWait
  <2>0. LOGBLOCKS \in Nat /\ MAXOPBLOCKS \in Nat /\ outstanding \in Nat /\ Len(lh) \in Nat
    BY LogAssumption DEF LogAssumption, LogTypeOK
  <2>1. /\ pc' = [pc EXCEPT ![p] = "op"] /\ outstanding' = outstanding + 1 /\ wrote' = wrote /\ lh' = lh
        /\ pc[p] = "begin"
    BY <1>2, Zenon DEF BeginOp
  <2>2. \A q \in Threads : pc'[q] \notin {"op", "panicked"} => pc[q] \notin {"op", "panicked"}
    BY <2>1, Zenon DEF LogTypeOK
  <2>3. Len(lh) + (outstanding + 1) * MAXOPBLOCKS <= LOGBLOCKS
    BY <1>2, <2>0 DEF MustWait
  <2>4. IsFiniteSet(Ops') /\ Cardinality(Ops') = outstanding + 1
    BY <2>1, Zenon DEF Counted
  <2>5. Cardinality(ReservedOf(pc', wrote')) \in Nat
        /\ Cardinality(ReservedOf(pc', wrote')) <= (outstanding + 1) * MAXOPBLOCKS
    <3>1. \A q \in Threads : pc'[q] \in {"op", "panicked"} => q \in Ops'
      BY Zenon DEF Ops
    <3> QED BY <2>4, <3>1, ReservationsFinite, Zenon
  <2>6. PICK k \in Nat : k = (outstanding + 1) * MAXOPBLOCKS
    BY <2>0
  <2>7. Len(lh') + Cardinality(ReservedOf(pc', wrote')) <= LOGBLOCKS
    BY <2>0, <2>1, <2>3, <2>5, <2>6
  <2>8. Reserved' = ReservedOf(pc', wrote')
    BY Zenon DEF Reserved, ReservedOf
  <2>9. \A q \in Threads :
          /\ IsFiniteSet(wrote'[q]) /\ Cardinality(wrote'[q]) <= MaxWrites
          /\ pc'[q] \notin {"op", "panicked"} => wrote'[q] = {}
          /\ \A b \in wrote'[q] : Logged(lh, b)
    BY <2>1, <2>2, Zenon DEF Room
  <2> QED BY <2>1, <2>7, <2>8, <2>9, Zenon DEF Room, Logged
<1> QED BY <1>1, <1>2, Zenon

\* A call that ends gives its reservation back.
LEMMA EndRoom ==
  ASSUME LogTypeOK, Counted, Room, NEW p \in Threads, EndOp(p)
  PROVE  Room'
<1>0. LOGBLOCKS \in Nat /\ MaxWrites \in Nat /\ Len(lh) \in Nat
  BY LogAssumption DEF LogAssumption, LogTypeOK
<1>1. /\ lh' = lh /\ wrote' = [wrote EXCEPT ![p] = {}]
      /\ \A q \in Threads : pc'[q] \in {"op", "panicked"} => q # p /\ pc[q] \in {"op", "panicked"}
      /\ \A q \in Threads : pc'[q] \notin {"op", "panicked"} => q = p \/ pc[q] \notin {"op", "panicked"}
      /\ pc[p] \in {"op", "panicked"}
  BY Zenon DEF EndOp, WakeupLog, LogTypeOK
<1>2. wrote'[p] = {} /\ \A q \in Threads : q # p => wrote'[q] = wrote[q]
  BY <1>1, Zenon DEF LogTypeOK
<1>3. ReservedOf(pc', wrote') \in SUBSET ReservedOf(pc, wrote)
  BY <1>1, <1>2, Zenon DEF ReservedOf
<1>4. IsFiniteSet(ReservedOf(pc, wrote)) /\ Cardinality(ReservedOf(pc, wrote)) \in Nat
  <2>1. IsFiniteSet(Ops) /\ \A q \in Threads : pc[q] \in {"op", "panicked"} => q \in Ops
    BY Zenon DEF Counted, Ops
  <2> QED BY <2>1, ReservationsFinite, Zenon
<1>5. Cardinality(ReservedOf(pc', wrote')) \in Nat
      /\ Cardinality(ReservedOf(pc', wrote')) <= Cardinality(ReservedOf(pc, wrote))
  BY <1>3, <1>4, FS_Subset, FS_CardinalityType, Zenon
<1>6. Reserved = ReservedOf(pc, wrote) /\ Reserved' = ReservedOf(pc', wrote')
  BY Zenon DEF Reserved, ReservedOf
<1>7. Len(lh) + Cardinality(Reserved) <= LOGBLOCKS
  BY <1>1, Zenon DEF Room, Ops
<1>8. Len(lh') + Cardinality(Reserved') <= LOGBLOCKS
  BY <1>0, <1>1, <1>4, <1>5, <1>6, <1>7, SMTT(30), Z3T(30)
<1>9. IsFiniteSet({}) /\ Cardinality({}) = 0
  BY FS_EmptySet, Zenon
<1>10. ASSUME NEW q \in Threads
       PROVE  /\ IsFiniteSet(wrote'[q]) /\ Cardinality(wrote'[q]) <= MaxWrites
              /\ pc'[q] \notin {"op", "panicked"} => wrote'[q] = {}
              /\ \A b \in wrote'[q] : Logged(lh, b)
  <2>1. CASE q = p
    <3>1. wrote'[q] = {} /\ 0 <= MaxWrites
      BY <1>0, <1>2, <2>1
    <3> QED BY <1>9, <3>1, Zenon
  <2>2. CASE q # p
    BY <1>1, <1>2, <2>2, Zenon DEF Room
  <2> QED BY <2>1, <2>2, Zenon
<1> QED BY <1>1, <1>8, <1>10, Zenon DEF Room, Logged

\* A block that is in the log stays there when another one is appended.
LEMMA LoggedAppend ==
  ASSUME NEW s \in Seq(Blocks), NEW b \in Blocks
  PROVE  Logged(Append(s, b), b) /\ \A a \in Blocks : Logged(s, a) => Logged(Append(s, b), a)
<1>1. /\ Len(Append(s, b)) = Len(s) + 1 /\ Len(s) \in Nat
      /\ Append(s, b)[Len(s) + 1] = b
      /\ \A i \in 1 .. Len(s) : Append(s, b)[i] = s[i] /\ i \in 1 .. Len(s) + 1
  OBVIOUS
<1>2. Len(s) + 1 \in 1 .. Len(s) + 1
  BY <1>1
<1> QED BY <1>1, <1>2, Zenon DEF Logged

\* log_write() uses up one block of the reservation of its call when it takes a
\* new block of the log.
LEMMA WriteRoom ==
  ASSUME LogTypeOK, Counted, Room, NEW p \in Threads, NEW b \in Blocks, NEW v \in Vals, LogWrite(p, b, v)
  PROVE  Room'
<1>0. /\ LOGBLOCKS \in Nat /\ MaxWrites \in Nat /\ MAXOPBLOCKS \in Nat /\ MaxWrites <= MAXOPBLOCKS
      /\ Len(lh) \in Nat /\ lh \in Seq(Blocks)
  BY LogAssumption DEF LogAssumption, LogTypeOK
<1>1. /\ pc[p] \in {"op", "panicked"} /\ pc' = pc /\ wrote' = [wrote EXCEPT ![p] = @ \cup {b}]
      /\ Cardinality(wrote[p] \cup {b}) <= MaxWrites
      /\ (Logged(lh, b) /\ lh' = lh) \/ lh' = Append(lh, b)
  BY Zenon DEF LogWrite
<1>2. wrote'[p] = wrote[p] \cup {b} /\ \A q \in Threads : q # p => wrote'[q] = wrote[q]
  BY <1>1, Zenon DEF LogTypeOK
<1>3. IsFiniteSet(wrote[p]) /\ Cardinality(wrote[p]) \in Nat /\ \A a \in wrote[p] : Logged(lh, a)
  BY FS_CardinalityType, Zenon DEF Room
<1>4. Logged(lh', b) /\ \A a \in Blocks : Logged(lh, a) => Logged(lh', a)
  BY <1>0, <1>1, LoggedAppend, ZenonT(60)
<1>5. Len(lh') \in Nat /\ Len(lh') <= Len(lh) + 1
  BY <1>0, <1>1
<1>6. \A q \in Threads :
        /\ IsFiniteSet(wrote'[q]) /\ Cardinality(wrote'[q]) <= MaxWrites
        /\ pc'[q] \notin {"op", "panicked"} => wrote'[q] = {}
        /\ \A a \in wrote'[q] : Logged(lh', a)
  <2>1. ASSUME NEW q \in Threads, q # p
        PROVE  /\ IsFiniteSet(wrote'[q]) /\ Cardinality(wrote'[q]) <= MaxWrites
               /\ pc'[q] \notin {"op", "panicked"} => wrote'[q] = {}
               /\ \A a \in wrote'[q] : Logged(lh', a)
    <3>1. wrote[q] \subseteq Blocks
      BY Zenon DEF LogTypeOK
    <3>2. wrote'[q] = wrote[q] /\ pc'[q] = pc[q]
      BY <1>1, <1>2, <2>1, Zenon
    <3>3. /\ IsFiniteSet(wrote[q]) /\ Cardinality(wrote[q]) <= MaxWrites
          /\ pc[q] \notin {"op", "panicked"} => wrote[q] = {}
          /\ \A a \in wrote[q] : Logged(lh, a)
      BY Zenon DEF Room
    <3>4. \A a \in wrote'[q] : Logged(lh', a)
      BY <1>4, <3>1, <3>2, <3>3, ZenonT(60)
    <3> QED BY <3>2, <3>3, <3>4, Zenon
  <2>2. IsFiniteSet(wrote'[p]) /\ Cardinality(wrote'[p]) <= MaxWrites
    <3>1. IsFiniteSet(wrote[p] \cup {b})
      BY <1>3, FS_AddElement, Zenon
    <3> QED BY <1>1, <1>2, <3>1, Zenon
  <2>3. \A a \in wrote'[p] : Logged(lh', a)
    BY <1>2, <1>3, <1>4, Zenon DEF LogTypeOK
  <2> QED BY <1>1, <2>1, <2>2, <2>3, Zenon
<1>7. Reserved = ReservedOf(pc, wrote) /\ Reserved' = ReservedOf(pc', wrote')
  BY Zenon DEF Reserved, ReservedOf
<1>8. Len(lh) + Cardinality(ReservedOf(pc, wrote)) <= LOGBLOCKS
  BY <1>1, <1>7, Zenon DEF Room, Ops
<1>9. IsFiniteSet(ReservedOf(pc, wrote)) /\ Cardinality(ReservedOf(pc, wrote)) \in Nat
  <2>1. IsFiniteSet(Ops) /\ \A q \in Threads : pc[q] \in {"op", "panicked"} => q \in Ops
    BY Zenon DEF Counted, Ops
  <2> QED BY <2>1, ReservationsFinite, Zenon
<1>10. CASE b \in wrote[p]
  <2>1. Logged(lh, b) /\ wrote[p] \cup {b} = wrote[p]
    BY <1>3, <1>10, Zenon
  <2>2. lh' = lh
    BY <2>1, Zenon DEF LogWrite
  <2>3. ReservedOf(pc', wrote') = ReservedOf(pc, wrote)
    BY <1>1, <1>2, <2>1, Zenon DEF ReservedOf
  <2> QED BY <1>6, <1>7, <1>8, <2>2, <2>3, ZenonT(60) DEF Room
<1>11. CASE b \notin wrote[p]
  <2>1. PICK k \in Nat : k = Cardinality(wrote[p])
    BY <1>3, Zenon
  <2>2. Cardinality(wrote'[p]) = k + 1 /\ k + 1 <= MaxWrites
    BY <1>1, <1>2, <1>3, <1>11, <2>1, FS_AddElement, ZenonT(60)
  <2>3. k + 1 \in 1 .. MAXOPBLOCKS
    BY <1>0, <2>2
  <2>4. <<p, k + 1>> \in ReservedOf(pc, wrote)
    <3>1. Cardinality(wrote[p]) < k + 1
      BY <2>1
    <3> QED BY <1>1, <2>3, <3>1, Zenon DEF ReservedOf
  <2>5. ReservedOf(pc', wrote') \in SUBSET (ReservedOf(pc, wrote) \ {<<p, k + 1>>})
    <3>1. ASSUME NEW q \in Threads, NEW i \in 1 .. MAXOPBLOCKS, pc[q] \in {"op", "panicked"}, Cardinality(wrote'[q]) < i
          PROVE  Cardinality(wrote[q]) < i /\ <<q, i>> # <<p, k + 1>>
      <4>1. CASE q = p
        BY <2>1, <2>2, <3>1, <4>1, SMTT(30), Z3T(30)
      <4>2. CASE q # p
        BY <1>2, <3>1, <4>2, Zenon
      <4> QED BY <4>1, <4>2, Zenon
    <3>2. ASSUME NEW x \in ReservedOf(pc', wrote')
          PROVE  x \in ReservedOf(pc, wrote) /\ x # <<p, k + 1>>
      <4>1. PICK q \in Threads, i \in 1 .. MAXOPBLOCKS : x = <<q, i>>
        BY <3>2 DEF ReservedOf
      <4>2. pc[q] \in {"op", "panicked"} /\ Cardinality(wrote'[q]) < i
        BY <1>1, <3>2, <4>1, Zenon DEF ReservedOf
      <4>3. Cardinality(wrote[q]) < i /\ <<q, i>> # <<p, k + 1>>
        BY <3>1, <4>2, Zenon
      <4> QED BY <4>1, <4>2, <4>3, Zenon DEF ReservedOf
    <3> QED BY <3>2, Zenon
  <2>6. /\ IsFiniteSet(ReservedOf(pc, wrote) \ {<<p, k + 1>>})
        /\ Cardinality(ReservedOf(pc, wrote) \ {<<p, k + 1>>}) = Cardinality(ReservedOf(pc, wrote)) - 1
    BY <1>9, <2>4, FS_RemoveElement, Zenon
  <2>7. /\ Cardinality(ReservedOf(pc', wrote')) \in Nat
        /\ Cardinality(ReservedOf(pc', wrote')) <= Cardinality(ReservedOf(pc, wrote)) - 1
    BY <2>5, <2>6, FS_Subset, FS_CardinalityType, SMTT(30), Z3T(30)
  <2>8. Len(lh') + Cardinality(ReservedOf(pc', wrote')) <= LOGBLOCKS
    BY <1>0, <1>5, <1>8, <1>9, <2>7, SMTT(30), Z3T(30)
  <2> QED BY <1>6, <1>7, <2>8, ZenonT(60) DEF Room
<1> QED BY <1>10, <1>11, Zenon

\* A step of log_write() that panics moves its thread only.
LEMMA PanicRoom ==
  ASSUME LogTypeOK, Room, NEW p \in Threads, NEW b \in Blocks, LogWritePanic(p, b)
  PROVE  Room'
<1>1. wrote' = wrote /\ lh' = lh
  BY Zenon DEF LogWritePanic, inMemory
<1>2. \A q \in Threads : pc'[q] \in {"op", "panicked"} <=> pc[q] \in {"op", "panicked"}
  BY Zenon DEF LogWritePanic, LogTypeOK
<1> QED BY <1>1, <1>2, RoomKept, Zenon

\* Who has panicked in log_write() had used up its reservation.
Spent == \A p \in Threads : pc[p] = "panicked" => Cardinality(wrote[p]) = MAXOPBLOCKS

\* A full log has no room reserved any more: the call that finds it full has
\* written all its blocks.
LEMMA FullIsSpent ==
  ASSUME LogTypeOK, Counted, Room, NEW p \in Threads, pc[p] = "op",
         Len(lh) >= LOGBLOCKS \/ outstanding < 1
  PROVE  Cardinality(wrote[p]) = MAXOPBLOCKS
<1>0. /\ LOGBLOCKS \in Nat /\ MaxWrites \in Nat /\ MAXOPBLOCKS \in Nat /\ MAXOPBLOCKS >= 1
      /\ MaxWrites <= MAXOPBLOCKS /\ Len(lh) \in Nat
  BY LogAssumption DEF LogAssumption, LogTypeOK
<1>1. IsFiniteSet(wrote[p]) /\ Cardinality(wrote[p]) \in Nat /\ Cardinality(wrote[p]) <= MaxWrites
  BY FS_CardinalityType, Zenon DEF Room
<1>2. Len(lh) >= LOGBLOCKS
  <2>1. outstanding >= 1 /\ outstanding \in Nat
    BY OpIsCounted, Zenon DEF LogTypeOK
  <2> QED BY <2>1
<1>3. IsFiniteSet(Ops) /\ p \in Ops /\ \A q \in Threads : pc[q] \in {"op", "panicked"} => q \in Ops
  BY Zenon DEF Counted, Ops
<1>4. IsFiniteSet(Reserved) /\ Cardinality(Reserved) \in Nat
  BY <1>3, ReservationsFinite, Zenon DEF Reserved
<1>5. Len(lh) + Cardinality(Reserved) <= LOGBLOCKS
  BY <1>3, Zenon DEF Room
<1>6. Reserved = {}
  <2>1. Cardinality(Reserved) = 0
    BY <1>0, <1>2, <1>4, <1>5
  <2> QED BY <1>4, <2>1, FS_EmptySet, Zenon
<1>7. MAXOPBLOCKS \in 1 .. MAXOPBLOCKS
  BY <1>0
<1>8. ASSUME Cardinality(wrote[p]) < MAXOPBLOCKS
      PROVE  FALSE
  <2>1. <<p, MAXOPBLOCKS>> \in Reserved
    BY <1>7, <1>8, Zenon DEF Reserved, ReservedOf
  <2> QED BY <1>6, <2>1, Zenon
<1> QED BY <1>0, <1>1, <1>8

\* Once a thread has panicked it keeps log.lock, and what it wrote stays.
LEMMA SpentStep ==
  ASSUME LogTypeOK, Counted, Room, Spent, [LogNext]_logVars
  PROVE  Spent'
<1> SUFFICES ASSUME NEW q \in Threads, pc'[q] = "panicked"
             PROVE  Cardinality(wrote'[q]) = MAXOPBLOCKS
  BY Zenon DEF Spent
<1> USE DEF LogTypeOK
<1>1. ASSUME NEW p \in Threads, NEW b \in Blocks, LogWritePanic(p, b)
      PROVE  Cardinality(wrote'[q]) = MAXOPBLOCKS
  <2>1. wrote' = wrote /\ (q # p => pc[q] = "panicked")
    BY <1>1, Zenon DEF LogWritePanic
  <2>2. Cardinality(wrote[p]) = MAXOPBLOCKS
    BY <1>1, FullIsSpent, Zenon DEF LogWritePanic
  <2> QED BY <2>1, <2>2, Zenon DEF Spent
<1>2. ASSUME NEW p \in Threads,
             \/ SysStart(p) \/ WriteLog(p) \/ WriteHead(p) \/ InstallTrans(p) \/ ClearLog(p)
             \/ CommitDone(p) \/ BeginOp(p)
      PROVE  wrote' = wrote /\ pc[q] = "panicked"
  BY <1>2, ZenonT(60) DEF SysStart, WriteLog, WriteHead, InstallTrans, ClearLog, CommitDone, BeginOp,
         WakeupLog, inMemory
<1>3. ASSUME NEW p \in Threads, EndOp(p)
      PROVE  FALSE
  <2>1. pc[q] = "panicked"
    BY <1>3, Zenon DEF EndOp, WakeupLog
  <2> QED BY <1>3, <2>1, Zenon DEF EndOp, LockFree
<1>4. ASSUME NEW p \in Threads, NEW b \in Blocks, NEW v \in Vals, LogWrite(p, b, v)
      PROVE  FALSE
  BY <1>4, Zenon DEF LogWrite, LockFree
<1>5. CASE Crash
  BY <1>5, Zenon DEF Crash
<1>6. CASE UNCHANGED logVars \/ Recover \/ \E b \in Blocks : Evict(b)
  <2>1. wrote' = wrote /\ pc' = pc
    BY <1>6, Zenon DEF Recover, ReadHead, RecoverBlock, RecoverClear, Evict, logVars
  <2> QED BY <2>1, Zenon DEF Spent
<1> QED BY <1>1, <1>2, <1>3, <1>4, <1>5, <1>6, ZenonT(60) DEF LogNext, LogStep, Spent

\* begin_op() reserves enough, for any number of threads, blocks and log blocks:
\* log_write() finds the log full only in a call that has MAXOPBLOCKS blocks in
\* it already.
THEOREM LogHasRoom == LogSpec => []ReservationSuffices
<1>1. LogInit => Room /\ Spent
  <2> SUFFICES ASSUME LogInit PROVE Room /\ Spent
    OBVIOUS
  <2>1. \A p \in Threads : pc[p] = "idle" /\ wrote[p] = {}
    BY Zenon DEF LogInit
  <2>2. Ops = {} /\ IsFiniteSet({}) /\ Cardinality({}) = 0 /\ 0 <= MaxWrites
    BY <2>1, FS_EmptySet, LogAssumption DEF Ops, LogAssumption
  <2> QED BY <2>1, <2>2, Zenon DEF Room, Spent
<1>2. LogInv /\ Room /\ [LogNext]_logVars => Room'
  <2> SUFFICES ASSUME LogInv, Room, [LogNext]_logVars PROVE Room'
    OBVIOUS
  <2>0. LogTypeOK /\ Counted /\ Turns
    BY Zenon DEF LogInv, Control
  <2>1. ASSUME NEW p \in Threads, BeginOp(p) PROVE Room'
    BY <2>0, <2>1, CountStep, BeginRoom, Zenon
  <2>2. ASSUME NEW p \in Threads, EndOp(p) PROVE Room'
    BY <2>0, <2>2, EndRoom, Zenon
  <2>3. ASSUME NEW p \in Threads, NEW b \in Blocks, NEW v \in Vals, LogWrite(p, b, v) PROVE Room'
    BY <2>0, <2>3, WriteRoom, Zenon
  <2>4. ASSUME NEW p \in Threads, SysStart(p) \/ WriteLog(p) \/ WriteHead(p) \/ InstallTrans(p) \/ CommitDone(p)
        PROVE  Room'
    <3>1. wrote' = wrote /\ lh' = lh
      BY <2>4, Zenon DEF SysStart, WriteLog, WriteHead, InstallTrans, CommitDone, inMemory
    <3>2. \A q \in Threads : pc'[q] \in {"op", "panicked"} <=> pc[q] \in {"op", "panicked"}
      BY <2>0, <2>4, Zenon
         DEF SysStart, WriteLog, WriteHead, InstallTrans, CommitDone, WakeupLog, LogTypeOK
    <3> QED BY <3>1, <3>2, RoomKept, Zenon
  <2>5. ASSUME NEW p \in Threads, ClearLog(p) PROVE Room'
    <3>1. \A q \in Threads : pc[q] \notin {"op", "panicked"}
      BY <2>0, <2>5, Zenon DEF ClearLog, Turns, Commits, Ops
    <3>2. \A q \in Threads : pc'[q] \notin {"op", "panicked"} /\ wrote'[q] = {}
      BY <2>0, <2>5, <3>1, Zenon DEF ClearLog, Room, LogTypeOK
    <3> QED BY <3>2, RoomQuiet, Zenon
  <2>6. CASE Crash
    <3>1. \A q \in Threads : pc'[q] \notin {"op", "panicked"} /\ wrote'[q] = {}
      BY <2>6, Zenon DEF Crash
    <3> QED BY <3>1, RoomQuiet, Zenon
  <2>7. CASE Recover
    <3>1. boot # "up" /\ pc' = pc /\ wrote' = wrote
      BY <2>7, Zenon DEF Recover, ReadHead, RecoverBlock, RecoverClear
    <3>2. \A q \in Threads : pc[q] = "idle"
      BY <2>0, <3>1, Zenon DEF Turns
    <3>3. \A q \in Threads : pc'[q] \notin {"op", "panicked"} /\ wrote'[q] = {}
      BY <3>1, <3>2, Zenon DEF Room
    <3> QED BY <3>3, RoomQuiet, Zenon
  <2>8. CASE UNCHANGED logVars \/ \E b \in Blocks : Evict(b)
    <3>1. wrote' = wrote /\ lh' = lh /\ pc' = pc
      BY <2>8, Zenon DEF logVars, inMemory, Evict
    <3> QED BY <3>1, RoomKept, Zenon
  <2> QED BY <2>0, <2>1, <2>2, <2>3, <2>4, <2>5, <2>6, <2>7, <2>8, PanicRoom, ZenonT(60)
         DEF LogNext, LogStep
<1>3. LogInv /\ Room /\ Spent /\ [LogNext]_logVars => Spent'
  BY SpentStep, Zenon DEF LogInv, Control
<1>4. LogInv /\ Spent => ReservationSuffices
  <2> SUFFICES ASSUME LogInv, NEW p \in Threads, pc[p] = "op"
               PROVE  outstanding >= 1 /\ ~committing
    BY Zenon DEF ReservationSuffices, Spent
  <2>1. Counted /\ Turns /\ p \in Ops
    BY Zenon DEF LogInv, Control, Ops
  <2> QED BY <2>1, OpIsCounted, Zenon DEF Turns
<1> QED BY <1>1, <1>2, <1>3, <1>4, LogInvHolds, PTL DEF LogSpec
=============================================================================
