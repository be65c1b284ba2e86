------------------------------- MODULE Content -------------------------------
(***************************************************************************)
(* What the inodes hold (kernel/fs.c: balloc, bfree, bmap, itrunc, readi,  *)
(* writei) and the reads and writes of open files (kernel/file.c).  The    *)
(* unit of data is a word, the size of a block address, so a block holds   *)
(* BSIZE data words or BSIZE addresses.                                    *)
(*                                                                         *)
(* cache is the content of the blocks as bread() returns it, home what the *)
(* blocks hold once the log is installed, and pinned the blocks log_write()*)
(* keeps in the cache until the commit.  A buffer that was changed but not *)
(* logged falls back to home when bget() recycles it.                      *)
(***************************************************************************)
EXTENDS Integers, Sequences, FiniteSets, FiniteSetsExt

CONSTANTS
  Procs, None,
  Inums,          \* the inodes
  Files,          \* the open files: struct file, shared after fork() or dup()
  NBLOCKS,        \* data blocks 1 .. NBLOCKS; 0 is the address of no block
  NDIRECT, BSIZE, \* direct addresses of an inode; words of a block
  BPB,            \* blocks whose bits share a bitmap block
  MAXOPBLOCKS,    \* the blocks an operation may log
  Sources,        \* bound: what programs write, as sequences of words
  Lens,           \* bound: how much they read
  MaxCalls        \* bound: calls

\* A program that writes or reads nothing makes no step here, and a chunk of
\* filewrite() holds at least one block.
ASSUME ContentAssumption ==
  /\ NBLOCKS \in Nat /\ NDIRECT \in Nat /\ BSIZE \in Nat \ {0} /\ BPB \in Nat \ {0}
  /\ MAXOPBLOCKS \in Nat /\ MAXOPBLOCKS >= 6
  /\ \A src \in Sources : src \in Seq(Nat) /\ src # <<>>
  /\ Lens \subseteq Nat \ {0} /\ MaxCalls \in Nat
  /\ None \notin Procs

VARIABLES
  used,    \* the bitmap: the blocks whose bit is set
  cache, home, pinned,
  size, addrs,  \* of every inode
  lock,    \* the process that holds the inode's sleep-lock
  ip, off, \* of every open file
  loc,     \* where every process is
  calls    \* bound: calls made so far

alloc == <<used, cache, pinned>>
vars == <<used, cache, home, pinned, size, addrs, lock, ip, off, loc, calls>>

NINDIRECT == BSIZE
MAXFILE == NDIRECT + NINDIRECT
Blocks == 1 .. NBLOCKS
Zero == [w \in 0 .. BSIZE - 1 |-> 0]
Least(a, b) == IF a < b THEN a ELSE b

Idle == [pc |-> "idle", f |-> None, ino |-> 0, src |-> <<>>, i |-> 0,
         off |-> 0, n |-> 0, tot |-> 0, log |-> {}]

-----------------------------------------------------------------------------
(* Allocation, on a record of what it reads and writes: the bitmap, the    *)
(* blocks, the inode's addresses, the blocks logged, the address returned. *)

\* log_write(): the block joins the transaction.
LogWrite(s, b) == [s EXCEPT !.log = @ \cup {b}]

\* balloc() takes the first free block and zeroes it; 0 when there is none.
Balloc(s) ==
  LET free == Blocks \ s.used
      b == Min(free)
  IN IF free = {} THEN [s EXCEPT !.addr = 0]
     ELSE LogWrite(LogWrite([s EXCEPT !.used = @ \cup {b}, !.cache[b] = Zero, !.addr = b],
                            <<"bitmap", b \div BPB>>),
                   <<"data", b>>)

\* The block of entry k of the inode itself, allocated when there is none.
Entry(s, k) ==
  IF s.addrs[k] # 0 THEN [s EXCEPT !.addr = s.addrs[k]]
  ELSE LET t == Balloc(s) IN [t EXCEPT !.addrs[k] = t.addr]

\* Mutant of Bmap: a block of the indirect block is not entered there.
BmapForgets(s, bn) ==
  IF bn < NDIRECT THEN Entry(s, bn)
  ELSE LET t == Entry(s, NDIRECT)
           a == t.addr
           j == bn - NDIRECT
       IN IF a = 0 THEN t
          ELSE IF t.cache[a][j] # 0 THEN [t EXCEPT !.addr = t.cache[a][j]]
          ELSE Balloc(t)

\* bmap(): the address of block bn of the file, 0 when the disk is full.
Bmap(s, bn) ==
  IF bn < NDIRECT THEN Entry(s, bn)
  ELSE LET t == Entry(s, NDIRECT)
           a == t.addr
           j == bn - NDIRECT
       IN IF a = 0 THEN t
          ELSE IF t.cache[a][j] # 0 THEN [t EXCEPT !.addr = t.cache[a][j]]
          ELSE LET u == Balloc(t)
               IN IF u.addr = 0 THEN u
                  ELSE LogWrite([u EXCEPT !.cache[a][j] = u.addr], <<"data", a>>)

At(p) == Bmap([used |-> used, cache |-> cache, addrs |-> addrs[loc[p].ino],
               log |-> loc[p].log, addr |-> 0], loc[p].off \div BSIZE)

\* The bitmap, the addresses and the blocks of the transaction after s.
Take(p, s) ==
  /\ used' = s.used
  /\ addrs' = [addrs EXCEPT ![loc[p].ino] = s.addrs]
  /\ pinned' = pinned \cup {b \in Blocks : <<"data", b>> \in s.log}

-----------------------------------------------------------------------------
(* Reading.                                                                *)

Call(p) == loc[p].pc = "idle" /\ calls < MaxCalls /\ calls' = calls + 1

Lock(p, i) == lock[i] = None /\ lock' = [lock EXCEPT ![i] = p]

\* fileread() locks the inode; readi() ends at once when the offset lies past
\* the end, and cuts the length at the end of the file.
FileRead(p, f, n) ==
  /\ Call(p) /\ lock[ip[f]] = None
  /\ LET i == ip[f] IN
       IF off[f] >= size[i] THEN UNCHANGED <<lock, loc>>
       ELSE /\ Lock(p, i)
            /\ loc' = [loc EXCEPT ![p] = [Idle EXCEPT
                         !.pc = "readi", !.f = f, !.ino = i, !.off = off[f],
                         !.n = Least(n, size[i] - off[f])]]
  /\ UNCHANGED <<alloc, home, size, addrs, ip, off>>

\* A turn of readi()'s loop: one block, by bmap(), to the program's memory.
\* copyout() may fail, and the result is then -1 and the offset stays.
Readi(p) ==
  /\ loc[p].pc = "readi"
  /\ LET s == At(p)
         m == Least(loc[p].n - loc[p].tot, BSIZE - (loc[p].off % BSIZE))
         end(k) == /\ lock' = [lock EXCEPT ![loc[p].ino] = None]
                   /\ off' = [off EXCEPT ![loc[p].f] = @ + k]
                   /\ loc' = [loc EXCEPT ![p] = Idle]
     IN /\ Take(p, s) /\ cache' = s.cache
        /\ \/ s.addr = 0 /\ end(loc[p].tot)
           \/ s.addr # 0 /\ end(0)
           \/ s.addr # 0 /\ loc[p].tot + m = loc[p].n /\ end(loc[p].n)
           \/ /\ s.addr # 0 /\ loc[p].tot + m < loc[p].n
              /\ loc' = [loc EXCEPT ![p].tot = @ + m, ![p].off = @ + m]
              /\ UNCHANGED <<lock, off>>
  /\ UNCHANGED <<home, size, ip, calls>>

-----------------------------------------------------------------------------
(* Writing.                                                                *)

\* filewrite() is called with the words src.
FileWrite(p, f, src) ==
  /\ Call(p)
  /\ loc' = [loc EXCEPT ![p] = [Idle EXCEPT !.pc = "chunk", !.f = f,
                                            !.ino = ip[f], !.src = src]]
  /\ UNCHANGED <<alloc, home, size, addrs, lock, ip, off>>

\* Mutant of Chunk: no room is left for an unaligned end.
ChunkWide(n) == Least(n, ((MAXOPBLOCKS - 1 - 1) \div 2) * BSIZE)

\* What filewrite() passes to one writei(), so that the transaction fits.
Chunk(n) == Least(n, ((MAXOPBLOCKS - 1 - 1 - 2) \div 2) * BSIZE)

\* begin_op(), ilock() and the tests of writei(): an offset past the end, or
\* more than a file holds, is an error, which ends the call.
WriteiBegin(p) ==
  /\ loc[p].pc = "chunk" /\ lock[loc[p].ino] = None
  /\ LET o == off[loc[p].f]
         n == Chunk(Len(loc[p].src) - loc[p].i)
     IN IF o > size[loc[p].ino] \/ o + n > MAXFILE * BSIZE
        THEN loc' = [loc EXCEPT ![p] = Idle] /\ UNCHANGED lock
        ELSE /\ Lock(p, loc[p].ino)
             /\ loc' = [loc EXCEPT ![p].pc = "writei", ![p].off = o,
                                   ![p].n = n, ![p].tot = 0, ![p].log = {}]
  /\ UNCHANGED <<alloc, home, size, addrs, ip, off, calls>>

\* Mutant of Filled: the source is read from the start of the chunk.
FilledRestart(p, blk, m) ==
  [w \in 0 .. BSIZE - 1 |->
     LET k == w - (loc[p].off % BSIZE)
     IN IF k \in 0 .. m - 1 THEN loc[p].src[loc[p].i + k + 1] ELSE blk[w]]

\* Mutant of Filled: the rest of the block is cleared.
FilledCleared(p, blk, m) ==
  [w \in 0 .. BSIZE - 1 |->
     LET k == w - (loc[p].off % BSIZE)
     IN IF k \in 0 .. m - 1 THEN loc[p].src[loc[p].i + loc[p].tot + k + 1]
        ELSE IF k < 0 THEN blk[w] ELSE 0]

\* Block b after the first m words of the rest of the source are copied in.
Filled(p, blk, m) ==
  [w \in 0 .. BSIZE - 1 |->
     LET k == w - (loc[p].off % BSIZE)
     IN IF k \in 0 .. m - 1 THEN loc[p].src[loc[p].i + loc[p].tot + k + 1] ELSE blk[w]]

\* A turn of writei()'s loop.  The disk may be full; copyin() may fail having
\* copied some words, and then the buffer is released without log_write().
Writei(p) ==
  /\ loc[p].pc = "writei"
  /\ LET s == At(p)
         m == Least(loc[p].n - loc[p].tot, BSIZE - (loc[p].off % BSIZE))
         t == LogWrite(s, <<"data", s.addr>>)
     IN \/ /\ s.addr = 0
           /\ Take(p, s) /\ cache' = s.cache
           /\ loc' = [loc EXCEPT ![p].pc = "iupdate", ![p].log = s.log]
        \/ /\ s.addr # 0
           /\ Take(p, s)
           /\ \E k \in 0 .. m - 1 :
                cache' = [s.cache EXCEPT ![s.addr] = Filled(p, @, k)]
           /\ loc' = [loc EXCEPT ![p].pc = "iupdate", ![p].log = s.log]
        \/ /\ s.addr # 0
           /\ Take(p, t) /\ cache' = [s.cache EXCEPT ![s.addr] = Filled(p, @, m)]
           /\ loc' = [loc EXCEPT ![p].tot = @ + m, ![p].off = @ + m, ![p].log = t.log,
                        ![p].pc = IF loc[p].tot + m = loc[p].n THEN "iupdate" ELSE @]
  /\ UNCHANGED <<home, size, lock, ip, off, calls>>

\* The end of writei(): the size, and iupdate() in every case; filewrite()
\* moves the offset, unlocks, ends the transaction and stops on a short write.
WriteiEnd(p) ==
  /\ loc[p].pc = "iupdate"
  /\ LET i == loc[p].ino
         l == [loc[p] EXCEPT !.pc = "chunk", !.i = @ + loc[p].tot, !.log = {},
                             !.off = 0, !.n = 0, !.tot = 0]
     IN /\ size' = [size EXCEPT ![i] = IF loc[p].off > @ THEN loc[p].off ELSE @]
        /\ off' = [off EXCEPT ![loc[p].f] = @ + loc[p].tot]
        /\ lock' = [lock EXCEPT ![i] = None]
        /\ loc' = [loc EXCEPT ![p] =
                     IF loc[p].tot = loc[p].n /\ l.i < Len(l.src) THEN l ELSE Idle]
  /\ UNCHANGED <<alloc, home, addrs, ip, calls>>

-----------------------------------------------------------------------------
(* Truncating: sys_open() with O_TRUNC, and iput() of an unlinked inode.   *)

\* bfree(): the bit is cleared; a clear bit is a panic.
Bfree(b) == b \in used /\ used' = used \ {b}

Truncate(p, i) ==
  /\ Call(p) /\ Lock(p, i)
  /\ loc' = [loc EXCEPT ![p] = [Idle EXCEPT !.pc = "itrunc", !.ino = i]]
  /\ UNCHANGED <<alloc, home, size, addrs, ip, off>>

\* The turn of itrunc()'s loops for entry loc[p].i of the inode, then of its
\* indirect block, whose entries stay as they are.
TruncEntry(p) ==
  /\ loc[p].pc = "itrunc" /\ loc[p].i < MAXFILE
  /\ LET i == loc[p].ino
         k == loc[p].i
         ind == addrs[i][NDIRECT]
     IN IF k < NDIRECT
        THEN /\ addrs' = [addrs EXCEPT ![i][k] = 0]
             /\ IF addrs[i][k] # 0 THEN Bfree(addrs[i][k]) ELSE UNCHANGED used
        ELSE /\ IF ind # 0 /\ cache[ind][k - NDIRECT] # 0
                THEN Bfree(cache[ind][k - NDIRECT]) ELSE UNCHANGED used
             /\ UNCHANGED addrs
  /\ loc' = [loc EXCEPT ![p].i = @ + 1]
  /\ UNCHANGED <<cache, home, pinned, size, lock, ip, off, calls>>

\* The indirect block itself, the size, iupdate() and the unlock.
TruncEnd(p) ==
  /\ loc[p].pc = "itrunc" /\ loc[p].i = MAXFILE
  /\ LET i == loc[p].ino IN
       /\ IF addrs[i][NDIRECT] # 0 THEN Bfree(addrs[i][NDIRECT]) ELSE UNCHANGED used
       /\ addrs' = [addrs EXCEPT ![i][NDIRECT] = 0]
       /\ size' = [size EXCEPT ![i] = 0]
       /\ lock' = [lock EXCEPT ![i] = None]
  /\ loc' = [loc EXCEPT ![p] = Idle]
  /\ UNCHANGED <<cache, home, pinned, ip, off, calls>>

-----------------------------------------------------------------------------
(* The layers below: the log commits when no operation is in progress, and *)
(* bget() recycles buffers that are not pinned.                            *)

InOp(p) == loc[p].pc \in {"writei", "iupdate", "itrunc"}

Commit ==
  /\ pinned # {} /\ \A p \in Procs : ~InOp(p)
  /\ home' = [b \in Blocks |-> IF b \in pinned THEN cache[b] ELSE home[b]]
  /\ pinned' = {}
  /\ UNCHANGED <<used, cache, size, addrs, lock, ip, off, loc, calls>>

Recycle(b) ==
  /\ b \notin pinned /\ cache[b] # home[b]
  /\ cache' = [cache EXCEPT ![b] = home[b]]
  /\ UNCHANGED <<used, home, pinned, size, addrs, lock, ip, off, loc, calls>>

Init ==
  /\ used = {} /\ pinned = {}
  /\ cache = [b \in Blocks |-> Zero] /\ home = cache
  /\ size = [i \in Inums |-> 0]
  /\ addrs = [i \in Inums |-> [k \in 0 .. NDIRECT |-> 0]]
  /\ lock = [i \in Inums |-> None]
  /\ ip \in [Files -> Inums] /\ off = [f \in Files |-> 0]
  /\ loc = [p \in Procs |-> Idle]
  /\ calls = 0

\* Every call the bound allows has returned.
AllReturned ==
  calls = MaxCalls /\ (\A p \in Procs : loc[p].pc = "idle") /\ UNCHANGED vars

Step(p) == Readi(p) \/ WriteiBegin(p) \/ Writei(p) \/ WriteiEnd(p) \/ TruncEntry(p) \/ TruncEnd(p)

Next ==
  \/ \E p \in Procs :
       \/ \E f \in Files : \/ \E n \in Lens : FileRead(p, f, n)
                           \/ \E src \in Sources : FileWrite(p, f, src)
       \/ \E i \in Inums : Truncate(p, i)
       \/ Step(p)
  \/ Commit
  \/ \E b \in Blocks : Recycle(b)
  \/ AllReturned

Spec == Init /\ [][Next]_vars

-----------------------------------------------------------------------------
(* Properties.                                                             *)

Truncating(i) == lock[i] # None /\ loc[lock[i]].pc = "itrunc"

\* The entries of an inode's indirect block that itrunc() has not freed yet.
Indirect(i) ==
  LET ind == addrs[i][NDIRECT]
      done == IF Truncating(i) THEN loc[lock[i]].i - NDIRECT ELSE 0
  IN IF ind = 0 THEN {}
     ELSE {j \in 0 .. NINDIRECT - 1 : j >= done /\ cache[ind][j] # 0}

\* Every use of a block address in inode i: which entry, and the block.
Uses(i) ==
  {<<i, k, addrs[i][k]>> : k \in {x \in 0 .. NDIRECT : addrs[i][x] # 0}}
    \cup {<<i, NDIRECT + 1 + j, cache[addrs[i][NDIRECT]][j]>> : j \in Indirect(i)}

\* The address of block bn of inode i, without allocating.
Addr(i, bn) ==
  IF bn < NDIRECT THEN addrs[i][bn]
  ELSE IF addrs[i][NDIRECT] = 0 THEN 0
  ELSE cache[addrs[i][NDIRECT]][bn - NDIRECT]

\* The words of file i, as far as its size goes.
Words(i) ==
  [k \in 1 .. size[i] |->
     LET b == Addr(i, (k - 1) \div BSIZE) IN IF b = 0 THEN 0 ELSE cache[b][(k - 1) % BSIZE]]

(***************************************************************************)
(* The types of the allocation state, and sizes within the largest file.   *)
(***************************************************************************)
TypeOK ==
  /\ used \subseteq Blocks /\ pinned \subseteq Blocks
  /\ \A i \in Inums : size[i] \in 0 .. MAXFILE * BSIZE
  /\ \A i \in Inums, k \in 0 .. NDIRECT : addrs[i][k] \in Blocks \cup {0}
  /\ \A f \in Files : off[f] \in 0 .. MAXFILE * BSIZE
  /\ lock \in [Inums -> Procs \cup {None}]

(***************************************************************************)
(* The bitmap agrees with the inodes: a block is marked in use exactly when*)
(* one entry of one inode or of one indirect block holds its address, also *)
(* after a write that found the disk full half way, or whose copyin()      *)
(* failed, and while itrunc() runs beside another file's balloc().         *)
(* (balloc(), bfree(), bmap() and itrunc(); no "freeing free block".)      *)
(***************************************************************************)
BlocksOwnedOnce ==
  LET all == UNION {Uses(i) : i \in Inums}
  IN used = {u[3] : u \in all} /\ Cardinality(used) = Cardinality(all)

(***************************************************************************)
(* readi() never allocates: fileread() calls it outside a transaction,     *)
(* where bmap()'s balloc() would reach log_write()'s panic.  So no file    *)
(* has a hole below its size, however the writes before it failed.         *)
(***************************************************************************)
ReadNeverAllocates ==
  \A p \in Procs : loc[p].pc = "readi" => At(p).used = used /\ At(p).addr # 0

(***************************************************************************)
(* filewrite()'s chunk is small enough: data blocks, bitmap blocks, the    *)
(* indirect block and the inode's block together are at most MAXOPBLOCKS,  *)
(* even when every bit lies in a bitmap block of its own and the write is  *)
(* unaligned.  The log's space reservation rests on it.                    *)
(***************************************************************************)
TransactionFits ==
  \A p \in Procs : loc[p].pc = "iupdate" => Cardinality(loc[p].log) + 1 <= MAXOPBLOCKS

(***************************************************************************)
(* When writei() returns tot, those words of the source are in the file at *)
(* the offset, whatever else happens in the system.                        *)
(***************************************************************************)
WrittenIsThere ==
  \A p \in Procs : loc[p].pc = "iupdate" =>
    \A k \in 1 .. loc[p].tot :
      LET o == loc[p].off - k
          b == Addr(loc[p].ino, o \div BSIZE)
      IN b # 0 /\ cache[b][o % BSIZE] = loc[p].src[loc[p].i + loc[p].tot - k + 1]

(***************************************************************************)
(* A word of a file changes only under the lock of its inode: by a writei()*)
(* whose range holds it, or by the truncation of the whole file.  The one  *)
(* exception the code has: words a failed copyin() left in a buffer that   *)
(* was not logged are lost when the buffer is recycled.                    *)
(***************************************************************************)
OnlyWritesChange ==
  [][\A i \in Inums : \A k \in 1 .. size[i] :
       \/ Truncating(i)
       \/ Words(i)'[k] = Words(i)[k]
       \/ /\ lock[i] # None /\ loc[lock[i]].pc = "writei"
          /\ k - 1 \in off[loc[lock[i]].f] .. off[loc[lock[i]].f] + loc[lock[i]].n - 1
       \/ LET b == Addr(i, (k - 1) \div BSIZE) IN b \in Blocks \ pinned /\ cache[b] # home[b]]_vars

(***************************************************************************)
(* Bitmap, inodes and sizes agree: balloc(), bfree(), bmap() and itrunc()  *)
(* leave each block with one owner and writei() leaves no hole for readi() *)
(* to fill.                                                                *)
(***************************************************************************)
BlocksAccounted == TypeOK /\ BlocksOwnedOnce /\ ReadNeverAllocates
=============================================================================
