------------------------------ MODULE BioProofs ------------------------------
(***************************************************************************)
(* The buffer cache over the disk driver, for any number of processes,     *)
(* buffers, blocks and descriptors: the books of bio.c and virtio_disk.c   *)
(* are right, a buffer that bread() returns holds the last content of its  *)
(* block, and nobody sleeps without a wakeup to come.                      *)
(***************************************************************************)
EXTENDS Bio, FiniteSetTheorems, TLAPS

\* Where a process may be: outside, waiting for b->lock, in virtio_disk_rw(),
\* back from it, with the buffer, and in brelse().
Labels == {"idle", "lock", "lock_asleep", "rw", "desc_asleep", "rw_asleep", "rw_woken",
           "rw_ret", "have", "release", "unref"}

\* In virtio_disk_rw() before and after the descriptors are allocated.
Before == {"rw", "desc_asleep"}
After == {"rw_asleep", "rw_woken"}

\* From acquiresleep() to releasesleep().
Locking == {"rw", "desc_asleep", "rw_asleep", "rw_woken", "rw_ret", "have", "release"}

Shapes ==
  /\ num \in Nat /\ num >= 3
  /\ free \in SUBSET Ids /\ avail \in SUBSET Ids /\ used \in Seq(Ids)
  /\ desc = [i \in Ids |-> desc[i]]
  /\ info \in [Ids -> Bufs \cup {None}]
  /\ irq \in BOOLEAN /\ intr \in BOOLEAN
  /\ onDisk \in [Blocks -> BOOLEAN]
  /\ data \in [Bufs -> BOOLEAN] /\ bdisk \in [Bufs -> BOOLEAN] /\ valid \in [Bufs -> BOOLEAN]
  /\ blockno \in [Bufs -> Blocks \cup {None}]
  /\ locked \in [Bufs -> Procs \cup {None}]
  /\ refcnt \in [Bufs -> Nat]
  /\ pinned \in SUBSET Bufs
  /\ pc \in [Procs -> Labels]
  /\ req \in [Procs -> [buf : Bufs \cup {None}, write : BOOLEAN]]
  /\ idx \in [Procs -> {<<>>} \cup (Ids \X Ids \X Ids)]
  /\ lru \in [1 .. NBUF -> Bufs]

\* Every buffer is in the list.
Listed == \A b \in Bufs : \E i \in 1 .. NBUF : lru[i] = b

\* A process has a buffer from bget() to brelse(), and its lock in between.
Places ==
  \A p \in Procs :
    /\ Buf(p) = None <=> pc[p] = "idle"
    /\ Buf(p) # None => blockno[Buf(p)] # None
    /\ idx[p] # <<>> <=> pc[p] \in After
    /\ pc[p] \in Locking => locked[Buf(p)] = p

Locks ==
  \A b \in Bufs : locked[b] # None => pc[locked[b]] \in Locking /\ Buf(locked[b]) = b

\* bread() reads a buffer that is not valid; one that is valid is given out,
\* written and pinned.
Validity ==
  /\ \A p \in Procs :
       /\ pc[p] \in {"have", "release"} => valid[Buf(p)]
       /\ pc[p] \in {"idle", "lock", "lock_asleep", "have"} => ~req[p].write
       /\ pc[p] \in Before \cup After \cup {"rw_ret"} => (req[p].write <=> valid[Buf(p)])
  /\ \A b \in pinned : valid[b] /\ blockno[b] # None

\* The three descriptors of a request.
Requests ==
  \A p \in Procs : pc[p] \in After =>
    LET i == idx[p][1]  j == idx[p][2]  k == idx[p][3] IN
    /\ i # j /\ j # k /\ i # k
    /\ desc[i] = [addr |-> <<req[p].write, blockno[Buf(p)]>>, more |-> TRUE, next |-> j]
    /\ desc[j] = [addr |-> Buf(p), more |-> TRUE, next |-> k]
    /\ ~desc[k].more
    /\ info[i] = Buf(p)

Disjoint ==
  /\ \A p, q \in Procs : p # q => Taken(p) \cap Taken(q) = {}
  /\ free = {i \in Ids : \A p \in Procs : i \notin Taken(p)}

Occurs(h, s) == \E n \in 1 .. Len(s) : s[n] = h

\* The rings hold exactly the heads of the requests that are not reported yet,
\* each once.
Heads ==
  /\ \A m, n \in 1 .. Len(used) : used[m] = used[n] => m = n
  /\ \A h \in avail : ~Occurs(h, used)
  /\ \A h \in Ids : h \in avail \/ Occurs(h, used) =>
       \E p \in Procs : pc[p] \in After /\ idx[p][1] = h /\ bdisk[Buf(p)]
  /\ \A p \in Procs : pc[p] \in After /\ bdisk[Buf(p)] => idx[p][1] \in avail \/ Occurs(idx[p][1], used)
  /\ \A p \in Procs : pc[p] = "rw_asleep" => bdisk[Buf(p)]
  /\ used # <<>> => irq \/ intr

\* The device has yet to carry out the request of p, or has done so.
Pending(p) == pc[p] \in Before \/ (pc[p] \in After /\ idx[p][1] \in avail)

Done(p) == pc[p] = "rw_ret" \/ (pc[p] \in After /\ idx[p][1] \notin avail)

\* The disk is behind only for a block in a pinned buffer or in one that is
\* being written.
Behind(k) ==
  \E b \in Bufs :
    /\ blockno[b] = k /\ valid[b]
    /\ b \in pinned \/ \E p \in Procs : Buf(p) = b /\ req[p].write /\ Pending(p)

Contents ==
  /\ \A b \in Bufs : valid[b] => data[b]
  /\ \A p \in Procs : Done(p) => IF req[p].write THEN onDisk[blockno[Buf(p)]] ELSE data[Buf(p)]
  /\ \A k \in Blocks : ~onDisk[k] => Behind(k)

Waiters ==
  \A p \in Procs :
    /\ pc[p] = "lock_asleep" => locked[Buf(p)] # None
    /\ pc[p] = "desc_asleep" => Cardinality(free) < 3

BioInv ==
  /\ Shapes /\ Listed /\ Places /\ Locks /\ Validity
  /\ Requests /\ Disjoint /\ Heads
  /\ OneBufferPerBlock /\ ReferencesExact
  /\ Contents /\ Waiters

-----------------------------------------------------------------------------
(* What a step that leaves a part alone keeps.                             *)

\* A process that is woken goes on where it slept.
SamePhase(q) ==
  \/ pc'[q] = pc[q]
  \/ pc[q] \in {"lock", "lock_asleep"} /\ pc'[q] \in {"lock", "lock_asleep"}
  \/ pc[q] \in Before /\ pc'[q] \in Before
  \/ pc[q] \in After /\ pc'[q] \in After

\* A buffer that is locked has one user with the lock.
LEMMA LockIsOne ==
  ASSUME Places, NEW p \in Procs, NEW q \in Procs,
         pc[p] \in Locking, pc[q] \in Locking, Buf(p) = Buf(q)
  PROVE  p = q
BY Zenon DEF Places

\* A step of the cache that leaves the requests and the rings alone.
LEMMA DriverKept ==
  ASSUME Requests, Disjoint, Heads,
         UNCHANGED <<avail, used, irq, intr, num, free, desc, info, bdisk, idx>>,
         \A q \in Procs : /\ pc'[q] \in After <=> pc[q] \in After
                          /\ pc'[q] = "rw_asleep" => bdisk[Buf(q)]
                          /\ pc[q] \in After => /\ req'[q] = req[q]
                                                /\ blockno'[Buf(q)] = blockno[Buf(q)]
  PROVE  Requests' /\ Disjoint' /\ Heads'
<1>1. Requests'
  BY DEF Requests, Buf
<1>2. Disjoint'
  BY Zenon DEF Disjoint, Taken, Ids
<1>3. \A h : Occurs(h, used') <=> Occurs(h, used)
  BY Zenon DEF Occurs
<1>4. \A q \in Procs : pc'[q] \in After => Buf(q)' = Buf(q)
  BY Zenon DEF Buf
<1>5. \A h \in Ids : h \in avail \/ Occurs(h, used) =>
        \E q \in Procs : pc'[q] \in After /\ idx[q][1] = h /\ bdisk[Buf(q)']
  BY <1>4 DEF Heads
<1>6. \A q \in Procs : pc'[q] \in After /\ bdisk[Buf(q)'] => idx[q][1] \in avail \/ Occurs(idx[q][1], used)
  BY <1>4, ZenonT(30) DEF Heads
<1>7. \A q \in Procs : pc'[q] = "rw_asleep" => bdisk[Buf(q)']
  BY <1>4, Zenon DEF After
<1>8. Heads'
  BY <1>3, <1>5, <1>6, <1>7, Zenon DEF Heads, Ids
<1> QED BY <1>1, <1>2, <1>8, Zenon

\* A step that only wakes processes or puts them to sleep.
LEMMA UsersKept ==
  ASSUME Places, Locks, Validity, ReferencesExact, OneBufferPerBlock, Listed,
         locked \in [Bufs -> Procs \cup {None}],
         \A q \in Procs : SamePhase(q),
         UNCHANGED <<req, idx, blockno, bufState>>
  PROVE  Places' /\ Locks' /\ Validity' /\ ReferencesExact' /\ OneBufferPerBlock' /\ Listed'
<1>0. UNCHANGED <<valid, refcnt, locked, lru, pinned>> /\ \A q : Buf(q)' = Buf(q)
  BY Zenon DEF bufState, Buf
<1>1. \A q \in Procs : /\ pc'[q] = "idle" <=> pc[q] = "idle"
                       /\ pc'[q] \in Locking <=> pc[q] \in Locking
                       /\ pc'[q] \in After <=> pc[q] \in After
                       /\ pc'[q] \in {"have", "release"} <=> pc[q] \in {"have", "release"}
                       /\ pc'[q] \in {"idle", "lock", "lock_asleep", "have"}
                            => pc[q] \in {"idle", "lock", "lock_asleep", "have"}
                       /\ pc'[q] \in Before \cup After \cup {"rw_ret"}
                            => pc[q] \in Before \cup After \cup {"rw_ret"}
  BY Zenon DEF SamePhase, Locking, Before, After
<1>2. Places'
  BY <1>0, <1>1, Zenon DEF Places
<1>3. Locks'
  <2> SUFFICES ASSUME NEW b \in Bufs, locked[b] # None
               PROVE  pc'[locked[b]] \in Locking /\ Buf(locked[b]) = b
    BY <1>0, Zenon DEF Locks, Bufs
  <2>1. pc[locked[b]] \in Locking /\ Buf(locked[b]) = b
    BY Zenon DEF Locks
  <2>2. locked[b] \in Procs
    OBVIOUS
  <2> QED BY <1>1, <2>1, <2>2, Zenon
<1>4. Validity'
  BY <1>0, <1>1, Zenon DEF Validity
<1>5. ReferencesExact' /\ OneBufferPerBlock' /\ Listed'
  BY <1>0 DEF ReferencesExact, OneBufferPerBlock, Listed
<1> QED BY <1>2, <1>3, <1>4, <1>5, Zenon

\* The same for what the buffers hold.
LEMMA ContentsKept ==
  ASSUME Contents, \A q \in Procs : SamePhase(q),
         UNCHANGED <<req, idx, blockno, bufState, avail, onDisk, data>>
  PROVE  Contents'
<1>0. UNCHANGED <<valid, pinned>> /\ \A q : Buf(q)' = Buf(q)
  BY Zenon DEF bufState, Buf
<1>1. \A q \in Procs : /\ pc'[q] \in After <=> pc[q] \in After
                       /\ pc'[q] \in Before <=> pc[q] \in Before
                       /\ pc'[q] = "rw_ret" <=> pc[q] = "rw_ret"
  BY Zenon DEF SamePhase, Before, After
<1>2. \A q \in Procs : (Pending(q)' <=> Pending(q)) /\ (Done(q)' <=> Done(q))
  BY <1>1, Zenon DEF Pending, Done
<1>3. \A k : Behind(k) => Behind(k)'
  <2> SUFFICES ASSUME NEW k, Behind(k) PROVE Behind(k)'
    OBVIOUS
  <2>1. PICK b \in Bufs : /\ blockno[b] = k /\ valid[b]
                          /\ b \in pinned \/ \E q \in Procs : Buf(q) = b /\ req[q].write /\ Pending(q)
    BY Zenon DEF Behind
  <2>2. blockno'[b] = k /\ valid'[b]
    BY <1>0, <2>1, Zenon
  <2>3. b \in pinned' \/ \E q \in Procs : Buf(q)' = b /\ req'[q].write /\ Pending(q)'
    BY <1>0, <1>2, <2>1, Zenon
  <2> QED BY <2>2, <2>3, Zenon DEF Behind, Bufs
<1>4. \A q \in Procs : Done(q)' => IF req'[q].write THEN onDisk'[blockno'[Buf(q)']] ELSE data'[Buf(q)']
  BY <1>0, <1>2, Zenon DEF Contents
<1>5. \A b \in Bufs : valid'[b] => data'[b]
  BY <1>0, Zenon DEF Contents
<1>6. \A k \in Blocks : ~onDisk'[k] => Behind(k)'
  BY <1>3, Zenon DEF Contents
<1> QED BY <1>4, <1>5, <1>6, Zenon DEF Contents, Bufs

-----------------------------------------------------------------------------
(* virtio_disk.c: sleeping, waking up, and the interrupt handler.          *)

\* virtio_disk_rw() sleeps for descriptors only when they are too few.
LEMMA NoDescKeeps ==
  ASSUME BioInv, NEW p \in Procs, RwNoDesc(p), UNCHANGED bufState
  PROVE  BioInv'
<1> USE DEF BioInv
<1>1. /\ UNCHANGED <<avail, used, irq, onDisk, num, free, desc, info, intr, data, bdisk, blockno, req, idx>>
      /\ pc[p] = "rw" /\ Cardinality(free) < 3
  BY Zenon DEF RwNoDesc, ring, device, chains
<1>2. \A q \in Procs : pc'[q] = IF q = p THEN "desc_asleep"
                               ELSE IF free # {} /\ pc[q] = "desc_asleep" THEN "rw" ELSE pc[q]
  BY Zenon DEF RwNoDesc, GotoWakeFree
<1>3. \A q \in Procs : SamePhase(q)
  BY <1>1, <1>2, Zenon DEF SamePhase, Before
<1>4. \A q \in Procs : (pc'[q] \in After <=> pc[q] \in After) /\ (pc'[q] = "rw_asleep" => bdisk[Buf(q)])
  BY <1>1, <1>2, Zenon DEF After, Heads
<1>5. Requests' /\ Disjoint' /\ Heads'
  BY <1>1, <1>4, DriverKept, Zenon
<1>6. Places' /\ Locks' /\ Validity' /\ ReferencesExact' /\ OneBufferPerBlock' /\ Listed'
  BY <1>1, <1>3, UsersKept, Zenon DEF Shapes
<1>7. Contents'
  BY <1>1, <1>3, ContentsKept, Zenon
<1>8. Waiters'
  BY <1>1, <1>2, Zenon DEF Waiters, Buf, bufState
<1>9. Shapes'
  <2>1. pc' \in [Procs -> Labels]
    BY <1>1, Zenon DEF RwNoDesc, GotoWakeFree, Shapes, Labels
  <2> QED BY <1>1, <2>1, Zenon DEF Shapes, Ids, bufState
<1> QED BY <1>5, <1>6, <1>7, <1>8, <1>9, Zenon

\* A process that finds its buffer still with the device sleeps again, and one
\* that is killed in its sleep goes round its loop.
LEMMA SleepAgainKeeps ==
  ASSUME BioInv, NEW p \in Procs, (RwSleepAgain(p) /\ UNCHANGED bufState) \/ KillWakes(p)
  PROVE  BioInv'
<1> USE DEF BioInv
<1>1. UNCHANGED <<avail, used, irq, onDisk, num, free, desc, info, intr, data, bdisk, blockno, req, idx, bufState>>
  BY Zenon DEF RwSleepAgain, KillWakes, driver, ring, device, chains
<1>2. PICK l \in Labels : pc' = [pc EXCEPT ![p] = l]
  BY Zenon DEF RwSleepAgain, KillWakes, Goto, Labels
<1>3. \/ pc[p] = "rw_woken" /\ l = "rw_asleep" /\ bdisk[Buf(p)]
      \/ pc[p] = "lock_asleep" /\ l = "lock"
      \/ pc[p] = "desc_asleep" /\ l = "rw"
      \/ pc[p] = "rw_asleep" /\ l = "rw_woken"
  <2>1. pc'[p] = l
    BY <1>2, Zenon DEF Shapes
  <2> QED BY <2>1, Zenon DEF RwSleepAgain, KillWakes, Goto, Shapes, Buf
<1>4. pc'[p] = l /\ \A q \in Procs : q # p => pc'[q] = pc[q]
  BY <1>2, Zenon DEF Shapes
<1>5. \A q \in Procs : SamePhase(q)
  BY <1>3, <1>4, Zenon DEF SamePhase, Before, After
<1>6. \A q \in Procs : (pc'[q] \in After <=> pc[q] \in After) /\ (pc'[q] = "rw_asleep" => bdisk[Buf(q)])
  BY <1>3, <1>4, Zenon DEF After, Heads
<1>7. Requests' /\ Disjoint' /\ Heads'
  BY <1>1, <1>6, DriverKept, Zenon
<1>8. Places' /\ Locks' /\ Validity' /\ ReferencesExact' /\ OneBufferPerBlock' /\ Listed'
  BY <1>1, <1>5, UsersKept, Zenon DEF Shapes
<1>9. Contents'
  BY <1>1, <1>5, ContentsKept, Zenon
<1>10. Waiters'
  BY <1>1, <1>3, <1>4, Zenon DEF Waiters, Buf, bufState
<1>11. Shapes'
  BY <1>1, <1>2, Zenon DEF Shapes, Ids, bufState
<1> QED BY <1>7, <1>8, <1>9, <1>10, <1>11, Zenon

\* The head of a request is in the chain of one process.
LEMMA HeadIsOne ==
  ASSUME Disjoint, Places, NEW p \in Procs, NEW q \in Procs,
         pc[p] \in After, pc[q] \in After, idx[p][1] = idx[q][1]
  PROVE  p = q
<1>1. idx[p] # <<>> /\ idx[q] # <<>>
  BY Zenon DEF Places
<1>2. idx[p][1] \in Taken(p) /\ idx[p][1] \in Taken(q)
  BY <1>1, Zenon DEF Taken
<1> QED BY <1>2, Zenon DEF Disjoint

\* The first entry of a queue, and what is left behind it.
LEMMA TailEntries ==
  ASSUME NEW S, NEW s \in Seq(S), s # <<>>
  PROVE  /\ Head(s) = s[1] /\ Len(s) \in Nat /\ Len(s) >= 1 /\ 1 \in 1 .. Len(s)
         /\ Tail(s) \in Seq(S) /\ Len(Tail(s)) = Len(s) - 1
         /\ \A n \in 1 .. Len(s) - 1 : Tail(s)[n] = s[n + 1] /\ n + 1 \in 1 .. Len(s)
         /\ \A n \in 1 .. Len(s) : n # 1 => n - 1 \in 1 .. Len(s) - 1 /\ Tail(s)[n - 1] = s[n]
OBVIOUS

\* virtio_disk_intr() takes an entry of the used ring: it is the head of one
\* request, and its caller is told.
LEMMA IntrEntryKeeps ==
  ASSUME BioInv, IntrEntry, UNCHANGED bufState
  PROVE  BioInv'
<1> USE DEF BioInv
<1>1. /\ UNCHANGED <<avail, irq, onDisk, num, free, desc, info, intr, data, blockno, req, idx>>
      /\ intr /\ used # <<>> /\ used' = Tail(used)
      /\ bdisk' = [bdisk EXCEPT ![info[Head(used)]] = FALSE]
  BY Zenon DEF IntrEntry, device, chains
<1>2. pc' = [q \in Procs |->
                IF pc[q] = "rw_asleep" /\ req[q].buf = info[Head(used)] THEN "rw_woken" ELSE pc[q]]
  BY Zenon DEF IntrEntry
<1>3. used \in Seq(Ids) /\ bdisk \in [Bufs -> BOOLEAN] /\ pc \in [Procs -> Labels]
  BY Zenon DEF Shapes
<1>4. PICK h \in Ids : h = Head(used) /\ h = used[1] /\ Occurs(h, used)
  BY <1>1, <1>3, TailEntries DEF Occurs
<1>5. PICK o \in Procs : pc[o] \in After /\ idx[o][1] = h /\ bdisk[Buf(o)]
  BY <1>4, Zenon DEF Heads
<1>6. info[h] = Buf(o) /\ Buf(o) \in Bufs
  <2>1. Buf(o) # None
    BY <1>5, Zenon DEF Places, After
  <2> QED BY <1>5, <2>1, ZenonT(30) DEF Requests, Shapes, Buf
<1>7. /\ bdisk' = [bdisk EXCEPT ![Buf(o)] = FALSE]
      /\ \A q \in Procs : pc'[q] = IF pc[q] = "rw_asleep" /\ Buf(q) = Buf(o) THEN "rw_woken" ELSE pc[q]
  BY <1>1, <1>2, <1>4, <1>6, Zenon DEF Buf
<1>8. \A q \in Procs : pc[q] \in After /\ q # o => Buf(q) # Buf(o) /\ Buf(q) \in Bufs /\ bdisk'[Buf(q)] = bdisk[Buf(q)]
  <2> SUFFICES ASSUME NEW q \in Procs, pc[q] \in After, q # o
               PROVE  Buf(q) # Buf(o) /\ Buf(q) \in Bufs /\ bdisk'[Buf(q)] = bdisk[Buf(q)]
    OBVIOUS
  <2>1. Buf(q) # Buf(o)
    BY <1>5, LockIsOne, Zenon DEF After, Locking
  <2>2. Buf(q) \in Bufs
    BY ZenonT(30) DEF Places, Shapes, Buf, After
  <2> QED BY <1>3, <1>6, <1>7, <2>1, <2>2, Zenon
<1>9. ~bdisk'[Buf(o)]
  BY <1>3, <1>6, <1>7, Zenon
<1>10. \A x : Occurs(x, used') <=> Occurs(x, used) /\ x # h
  <2>1. ASSUME NEW x, Occurs(x, used') PROVE Occurs(x, used) /\ x # h
    <3>1. PICK n \in 1 .. Len(used) - 1 : Tail(used)[n] = x
      BY <1>1, <1>3, <2>1, TailEntries, Zenon DEF Occurs
    <3>2. used[n + 1] = x /\ n + 1 \in 1 .. Len(used) /\ 1 \in 1 .. Len(used) /\ n + 1 # 1
      BY <1>1, <1>3, <3>1, TailEntries
    <3> QED BY <1>4, <3>2 DEF Occurs, Heads
  <2>2. ASSUME NEW x, Occurs(x, used), x # h PROVE Occurs(x, used')
    <3>1. PICK n \in 1 .. Len(used) : used[n] = x
      BY <2>2, Zenon DEF Occurs
    <3>2. n # 1
      BY <1>4, <2>2, <3>1, Zenon
    <3>3. n - 1 \in 1 .. Len(Tail(used)) /\ Tail(used)[n - 1] = x
      BY <1>1, <1>3, <3>1, <3>2, TailEntries, Zenon
    <3> QED BY <1>1, <3>3, Zenon DEF Occurs
  <2> QED BY <2>1, <2>2, Zenon
<1>11. Heads'
  <2>1. \A m, n \in 1 .. Len(used') : used'[m] = used'[n] => m = n
    <3> SUFFICES ASSUME NEW m \in 1 .. Len(used) - 1, NEW n \in 1 .. Len(used) - 1, Tail(used)[m] = Tail(used)[n]
                 PROVE  m = n
      BY <1>1, <1>3, TailEntries
    <3>1. used[m + 1] = used[n + 1] /\ m + 1 \in 1 .. Len(used) /\ n + 1 \in 1 .. Len(used)
      BY <1>1, <1>3, TailEntries, Zenon
    <3>2. m + 1 = n + 1
      BY <3>1, Zenon DEF Heads
    <3> QED BY <3>2
  <2>2. \A x \in avail' : ~Occurs(x, used')
    BY <1>1, <1>10, Zenon DEF Heads
  <2>3. ASSUME NEW x \in Ids, x \in avail' \/ Occurs(x, used')
        PROVE  \E q \in Procs : pc'[q] \in After /\ idx'[q][1] = x /\ bdisk'[Buf(q)']
    <3>1. (x \in avail \/ Occurs(x, used)) /\ x # h
      BY <1>1, <1>4, <1>10, <2>3, Zenon DEF Heads
    <3>2. PICK q \in Procs : pc[q] \in After /\ idx[q][1] = x /\ bdisk[Buf(q)]
      BY <3>1, Zenon DEF Heads
    <3>3. q # o
      BY <1>5, <3>1, <3>2, Zenon
    <3>4. pc'[q] \in After /\ bdisk'[Buf(q)] /\ Buf(q)' = Buf(q) /\ idx'[q][1] = x
      BY <1>1, <1>7, <1>8, <3>2, <3>3, Zenon DEF Buf
    <3> QED BY <3>4, Zenon
  <2>4. ASSUME NEW q \in Procs, pc'[q] \in After, bdisk'[Buf(q)']
        PROVE  idx'[q][1] \in avail' \/ Occurs(idx'[q][1], used')
    <3>1. Buf(q)' = Buf(q) /\ pc[q] \in After
      BY <1>1, <1>7, <2>4, Zenon DEF Buf, After
    <3>2. q # o
      BY <1>9, <2>4, <3>1, Zenon
    <3>3. bdisk[Buf(q)]
      BY <1>8, <2>4, <3>1, <3>2, Zenon
    <3>4. idx[q][1] \in avail \/ Occurs(idx[q][1], used)
      BY <3>1, <3>3, Zenon DEF Heads
    <3>5. idx[q][1] # h
      BY <1>5, <3>1, <3>2, HeadIsOne, Zenon
    <3>6. Occurs(idx[q][1], used) => Occurs(idx[q][1], used')
      BY <1>1, <1>10, <3>5, Zenon
    <3> QED BY <1>1, <3>4, <3>6, Zenon
  <2>5. ASSUME NEW q \in Procs, pc'[q] = "rw_asleep"
        PROVE  bdisk'[Buf(q)']
    <3>1. pc[q] = "rw_asleep" /\ Buf(q) # Buf(o)
      BY <1>7, <2>5, Zenon
    <3>2. bdisk[Buf(q)]
      BY <3>1, Zenon DEF Heads
    <3>3. bdisk'[Buf(q)]
      BY <1>8, <3>1, <3>2, Zenon DEF After
    <3> QED BY <1>1, <3>3, Zenon DEF Buf
  <2>6. used' # <<>> => irq' \/ intr'
    BY <1>1, Zenon
  <2>7. Ids' = Ids
    BY <1>1, Zenon DEF Ids
  <2> QED BY <2>1, <2>2, <2>3, <2>4, <2>5, <2>6, <2>7, Zenon DEF Heads
<1>12. \A q \in Procs : SamePhase(q)
  BY <1>7, Zenon DEF SamePhase, After
<1>13. Requests'
  <2>1. \A q \in Procs : (pc'[q] \in After <=> pc[q] \in After) /\ Buf(q)' = Buf(q)
    BY <1>1, <1>7, Zenon DEF After, Buf
  <2> QED BY <1>1, <2>1, Zenon DEF Requests
<1>14. Disjoint'
  BY <1>1, Zenon DEF Disjoint, Taken, Ids
<1>15. Places' /\ Locks' /\ Validity' /\ ReferencesExact' /\ OneBufferPerBlock' /\ Listed'
  BY <1>1, <1>12, UsersKept, Zenon DEF Shapes
<1>16. Contents'
  BY <1>1, <1>12, ContentsKept, Zenon
<1>17. Waiters'
  BY <1>1, <1>7, Zenon DEF Waiters, Buf, bufState
<1>18. Shapes'
  <2>1. pc' \in [Procs -> Labels]
    BY <1>2, <1>3, Zenon DEF Labels
  <2>2. bdisk' \in [Bufs -> BOOLEAN]
    BY <1>3, <1>7, Zenon
  <2>3. used' \in Seq(Ids)
    BY <1>1, <1>3, TailEntries, Zenon
  <2> QED BY <1>1, <2>1, <2>2, <2>3, Zenon DEF Shapes, Ids, bufState
<1> QED BY <1>11, <1>13, <1>14, <1>15, <1>16, <1>17, <1>18, Zenon

\* The handler starts when the device has raised the interrupt and ends when
\* the used ring is empty.
LEMMA IntrEdgeKeeps ==
  ASSUME BioInv, IntrBegin \/ IntrEnd, UNCHANGED bufState
  PROVE  BioInv'
<1> USE DEF BioInv
<1>1. /\ UNCHANGED <<avail, used, onDisk, num, free, desc, info, data, bdisk, blockno, pc, req, idx>>
      /\ irq' \in BOOLEAN /\ intr' \in BOOLEAN /\ (used # <<>> => irq' \/ intr')
  BY Zenon DEF IntrBegin, IntrEnd, ring, device, chains, Shapes
<1>2. \A q \in Procs : SamePhase(q)
  BY <1>1, Zenon DEF SamePhase
<1>3. Requests' /\ Disjoint'
  BY <1>1, ZenonT(30) DEF Requests, Disjoint, Taken, Ids, Buf
<1>4. Heads'
  BY <1>1 DEF Heads, Occurs, Ids, Buf
<1>5. Places' /\ Locks' /\ Validity' /\ ReferencesExact' /\ OneBufferPerBlock' /\ Listed'
  BY <1>1, <1>2, UsersKept, Zenon DEF Shapes
<1>6. Contents'
  BY <1>1, <1>2, ContentsKept, Zenon
<1>7. Waiters' /\ Shapes'
  BY <1>1, Zenon DEF Waiters, Shapes, Ids, Buf, bufState
<1> QED BY <1>3, <1>4, <1>5, <1>6, <1>7, Zenon


-----------------------------------------------------------------------------
(* bio.c: the references to a buffer.                                      *)

\* The processes that have buffer b, from bget() to brelse().
UsersOf(r, b) == {q \in Procs : r[q].buf = b}

\* There are finitely many of them.
LEMMA UsersCount ==
  ASSUME NEW r, NEW b
  PROVE  IsFiniteSet(UsersOf(r, b)) /\ Cardinality(UsersOf(r, b)) \in Nat
<1>1. UsersOf(r, b) \subseteq Procs /\ IsFiniteSet(Procs)
  BY VirtioAssumption, Zenon DEF UsersOf
<1>2. IsFiniteSet(UsersOf(r, b))
  BY <1>1, FS_Subset, Zenon
<1> QED BY <1>2, FS_CardinalityType, Zenon

\* bget() gives b one user more; read backwards, brelse() takes one away.
LEMMA UserJoins ==
  ASSUME NEW r, NEW s, NEW b, NEW p \in Procs,
         \A q \in Procs : q # p => s[q].buf = r[q].buf,
         r[p].buf # b, s[p].buf = b
  PROVE  Cardinality(UsersOf(s, b)) = Cardinality(UsersOf(r, b)) + 1
<1>1. UsersOf(s, b) = UsersOf(r, b) \cup {p} /\ p \notin UsersOf(r, b)
  BY Zenon DEF UsersOf
<1>2. IsFiniteSet(UsersOf(r, b))
  BY UsersCount, Zenon
<1> QED BY <1>1, <1>2, FS_AddElement, ZenonT(30)

\* A buffer with reference count 0 has no user and is not pinned.
LEMMA NoUsers ==
  ASSUME ReferencesExact, NEW b \in Bufs, refcnt[b] = 0
  PROVE  b \notin pinned /\ \A q \in Procs : Buf(q) # b
<1>1. refcnt[b] = Cardinality(UsersOf(req, b)) + (IF b \in pinned THEN 1 ELSE 0)
  BY Zenon DEF ReferencesExact, UsersOf, Buf
<1>2. Cardinality(UsersOf(req, b)) = 0 /\ b \notin pinned
  BY <1>1, UsersCount
<1>3. UsersOf(req, b) = {}
  BY <1>2, UsersCount, FS_EmptySet, Zenon
<1> QED BY <1>2, <1>3, Zenon DEF UsersOf, Buf

\* A buffer that somebody uses has a reference.
LEMMA UserHasReference ==
  ASSUME ReferencesExact, NEW b \in Bufs, refcnt \in [Bufs -> Nat], NEW q \in Procs, Buf(q) = b
  PROVE  refcnt[b] >= 1
<1>1. refcnt[b] # 0
  BY NoUsers, Zenon
<1> QED BY <1>1

\* A step that keeps what makes the disk behind for block k.
LEMMA BehindKept ==
  ASSUME NEW k, Behind(k),
         \A b \in Bufs : blockno[b] = k /\ valid[b] =>
           /\ blockno'[b] = k /\ valid'[b]
           /\ (b \in pinned => b \in pinned'),
         \A q \in Procs : Pending(q) /\ req[q].write /\ blockno[Buf(q)] = k =>
           Pending(q)' /\ Buf(q)' = Buf(q) /\ req'[q].write
  PROVE  Behind(k)'
<1>1. PICK b \in Bufs : /\ blockno[b] = k /\ valid[b]
                        /\ b \in pinned \/ \E q \in Procs : Buf(q) = b /\ req[q].write /\ Pending(q)
  BY Zenon DEF Behind
<1>2. blockno'[b] = k /\ valid'[b]
  BY <1>1, Zenon
<1>3. b \in pinned' \/ \E q \in Procs : Buf(q)' = b /\ req'[q].write /\ Pending(q)'
  BY <1>1, Zenon
<1> QED BY <1>2, <1>3, Zenon DEF Behind, Bufs

-----------------------------------------------------------------------------
(* bget() and acquiresleep().                                              *)

\* A process between bget() and the lock, or before bget(), is no request.
LEMMA OutsideRequest ==
  ASSUME Places, Locks, NEW p \in Procs, pc[p] \in {"idle", "lock", "unref"}
  PROVE  idx[p] = <<>> /\ \A b \in Bufs : locked[b] # None => locked[b] # p
BY Zenon DEF Places, Locks, After, Locking

\* bget() finds the block in the cache: one reference more.
LEMMA BgetHitKeeps ==
  ASSUME BioInv, NEW p \in Procs, NEW k \in Blocks, BgetHit(p, k)
  PROVE  BioInv'
<1> USE DEF BioInv
<1>1. /\ UNCHANGED <<avail, used, irq, onDisk, num, free, desc, info, intr, data, bdisk, blockno, idx>>
      /\ UNCHANGED <<valid, locked, lru, pinned>>
      /\ pc[p] = "idle" /\ pc' = [pc EXCEPT ![p] = "lock"]
  BY Zenon DEF BgetHit, driver, ring, device, chains, Goto
<1>2. PICK b \in Bufs : /\ blockno[b] = k
                        /\ refcnt' = [refcnt EXCEPT ![b] = @ + 1]
                        /\ req' = [req EXCEPT ![p] = [buf |-> b, write |-> FALSE]]
  BY Zenon DEF BgetHit
<1>3. blockno[b] # None /\ b # None
  BY <1>2, VirtioAssumption, Zenon DEF Bufs
<1>4. pc'[p] = "lock" /\ \A q \in Procs : q # p => pc'[q] = pc[q]
  BY <1>1, Zenon DEF Shapes
<1>5. /\ req'[p].buf = b /\ ~req'[p].write /\ Buf(p)' = b
      /\ \A q \in Procs : q # p => req'[q] = req[q] /\ Buf(q)' = Buf(q)
  BY <1>2, Zenon DEF Shapes, Buf
<1>6. idx[p] = <<>> /\ (\A c \in Bufs : locked[c] # None => locked[c] # p) /\ Buf(p) = None
  BY <1>1, OutsideRequest, Zenon DEF Places
<1>7. Requests' /\ Disjoint' /\ Heads'
  <2>1. \A q \in Procs : /\ pc'[q] \in After <=> pc[q] \in After
                         /\ pc'[q] = "rw_asleep" => bdisk[Buf(q)]
                         /\ pc[q] \in After => req'[q] = req[q] /\ blockno'[Buf(q)] = blockno[Buf(q)]
    BY <1>1, <1>4, <1>5, Zenon DEF After, Heads
  <2> QED BY <1>1, <2>1, DriverKept, Zenon
<1>8. Places'
  <2>1. /\ Buf(p)' = None <=> pc'[p] = "idle"
        /\ Buf(p)' # None => blockno'[Buf(p)'] # None
        /\ idx'[p] # <<>> <=> pc'[p] \in After
        /\ pc'[p] \in Locking => locked'[Buf(p)'] = p
    BY <1>1, <1>3, <1>4, <1>5, <1>6, Zenon DEF After, Locking
  <2>2. \A q \in Procs : q # p =>
          /\ Buf(q)' = None <=> pc'[q] = "idle"
          /\ Buf(q)' # None => blockno'[Buf(q)'] # None
          /\ idx'[q] # <<>> <=> pc'[q] \in After
          /\ pc'[q] \in Locking => locked'[Buf(q)'] = q
    BY <1>1, <1>4, <1>5 DEF Places
  <2> QED BY <2>1, <2>2, Zenon DEF Places
<1>9. Locks'
  <2> SUFFICES ASSUME NEW c \in Bufs, locked[c] # None
               PROVE  pc'[locked[c]] \in Locking /\ Buf(locked[c])' = c
    BY <1>1, Zenon DEF Locks, Bufs, Buf
  <2>1. locked[c] \in Procs /\ locked[c] # p /\ pc[locked[c]] \in Locking /\ Buf(locked[c]) = c
    BY <1>6, Zenon DEF Locks, Shapes
  <2> QED BY <1>1, <1>4, <1>5, <2>1, Zenon DEF Buf
<1>10. Validity'
  <2>1. \A q \in Procs : /\ pc'[q] \in {"have", "release"} => valid'[Buf(q)']
                         /\ pc'[q] \in {"idle", "lock", "lock_asleep", "have"} => ~req'[q].write
                         /\ pc'[q] \in Before \cup After \cup {"rw_ret"} => (req'[q].write <=> valid'[Buf(q)'])
    BY <1>1, <1>4, <1>5, Zenon DEF Validity, Before, After
  <2> QED BY <1>1, <2>1, Zenon DEF Validity
<1>11. ReferencesExact'
  <2> SUFFICES ASSUME NEW c \in Bufs
               PROVE  refcnt'[c] = Cardinality(UsersOf(req', c)) + (IF c \in pinned THEN 1 ELSE 0)
    BY <1>1, Zenon DEF ReferencesExact, UsersOf, Buf, Bufs
  <2>1. refcnt[c] = Cardinality(UsersOf(req, c)) + (IF c \in pinned THEN 1 ELSE 0)
    BY Zenon DEF ReferencesExact, UsersOf, Buf
  <2>2. CASE c = b
    <3>1. Cardinality(UsersOf(req', c)) = Cardinality(UsersOf(req, c)) + 1
      BY <1>3, <1>5, <1>6, <2>2, UserJoins DEF Buf
    <3>2. refcnt'[c] = refcnt[c] + 1
      BY <1>2, <2>2, Zenon DEF Shapes
    <3> QED BY <2>1, <3>1, <3>2, UsersCount
  <2>3. CASE c # b
    <3>1. UsersOf(req', c) = UsersOf(req, c)
      BY <1>5, <1>6, <2>3, VirtioAssumption, Zenon DEF UsersOf, Buf, Bufs
    <3>2. refcnt'[c] = refcnt[c]
      BY <1>2, <2>3, Zenon DEF Shapes
    <3> QED BY <2>1, <3>1, <3>2, Zenon
  <2> QED BY <2>2, <2>3, Zenon
<1>12. Contents'
  <2>1. \A q \in Procs : (Pending(q)' <=> Pending(q)) /\ (Done(q)' <=> Done(q))
    BY <1>1, <1>4, Zenon DEF Pending, Done, Before, After
  <2>2. ASSUME NEW x \in Blocks, ~onDisk[x] PROVE Behind(x)'
    <3>1. Behind(x)
      BY <2>2, Zenon DEF Contents
    <3>2. \A q \in Procs : Pending(q) => q # p
      BY <1>1, Zenon DEF Pending, Before, After
    <3> QED BY <1>1, <1>5, <2>1, <3>1, <3>2, BehindKept, Zenon
  <2>3. \A q \in Procs : Done(q)' => IF req'[q].write THEN onDisk'[blockno'[Buf(q)']] ELSE data'[Buf(q)']
    <3>1. \A q \in Procs : Done(q) => q # p
      BY <1>1, Zenon DEF Done, After
    <3> QED BY <1>1, <1>5, <2>1, <3>1, Zenon DEF Contents
  <2> QED BY <1>1, <2>2, <2>3, Zenon DEF Contents, Bufs
<1>13. Waiters'
  BY <1>1, <1>4, <1>5, Zenon DEF Waiters
<1>14. Shapes'
  <2>1. pc' \in [Procs -> Labels] /\ refcnt' \in [Bufs -> Nat]
    BY <1>1, <1>2 DEF Shapes, Labels
  <2>2. req' \in [Procs -> [buf : Bufs \cup {None}, write : BOOLEAN]]
    BY <1>2, Zenon DEF Shapes
  <2> QED BY <1>1, <2>1, <2>2, Zenon DEF Shapes, Ids
<1>15. OneBufferPerBlock' /\ Listed'
  BY <1>1, Zenon DEF OneBufferPerBlock, Listed
<1> QED BY <1>7, <1>8, <1>9, <1>10, <1>11, <1>12, <1>13, <1>14, <1>15, Zenon

\* bget() recycles a buffer: nobody uses it, no other has the block.
LEMMA BgetMissKeeps ==
  ASSUME BioInv, NEW p \in Procs, NEW k \in Blocks, BgetMiss(p, k)
  PROVE  BioInv'
<1> USE DEF BioInv
<1>1. /\ UNCHANGED <<avail, used, irq, onDisk, num, free, desc, info, intr, bdisk, idx>>
      /\ UNCHANGED <<locked, lru, pinned>>
      /\ pc[p] = "idle" /\ pc' = [pc EXCEPT ![p] = "lock"] /\ ~Cached(k)
  BY Zenon DEF BgetMiss, driver, ring, device, chains, Goto
<1>2. PICK b \in Bufs : /\ LeastRecentlyUsed(b)
                        /\ blockno' = [blockno EXCEPT ![b] = k]
                        /\ valid' = [valid EXCEPT ![b] = FALSE]
                        /\ refcnt' = [refcnt EXCEPT ![b] = 1]
                        /\ data' = [data EXCEPT ![b] = FALSE]
                        /\ req' = [req EXCEPT ![p] = [buf |-> b, write |-> FALSE]]
  BY Zenon DEF BgetMiss
<1>3. k # None /\ b # None /\ refcnt[b] = 0
  BY <1>2, VirtioAssumption, Zenon DEF Bufs, LeastRecentlyUsed
<1>4. pc'[p] = "lock" /\ \A q \in Procs : q # p => pc'[q] = pc[q]
  BY <1>1, Zenon DEF Shapes
<1>5. /\ req'[p].buf = b /\ ~req'[p].write /\ Buf(p)' = b
      /\ \A q \in Procs : q # p => req'[q] = req[q] /\ Buf(q)' = Buf(q)
  BY <1>2, Zenon DEF Shapes, Buf
<1>6. idx[p] = <<>> /\ (\A c \in Bufs : locked[c] # None => locked[c] # p) /\ Buf(p) = None
  BY <1>1, OutsideRequest, Zenon DEF Places
<1>7. b \notin pinned /\ \A q \in Procs : Buf(q) # b
  BY <1>3, NoUsers, Zenon
<1>8. /\ blockno'[b] = k /\ ~valid'[b] /\ refcnt'[b] = 1 /\ ~data'[b]
      /\ \A c \in Bufs : c # b => /\ blockno'[c] = blockno[c] /\ valid'[c] = valid[c]
                                  /\ refcnt'[c] = refcnt[c] /\ data'[c] = data[c]
  BY <1>2, Zenon DEF Shapes
<1>9. \A q \in Procs : q # p /\ Buf(q) # None =>
        Buf(q) \in Bufs /\ blockno'[Buf(q)] = blockno[Buf(q)] /\ valid'[Buf(q)] = valid[Buf(q)]
                        /\ data'[Buf(q)] = data[Buf(q)]
  <2>1. \A q \in Procs : Buf(q) # None => Buf(q) \in Bufs
    BY Zenon DEF Shapes, Buf
  <2> QED BY <1>7, <1>8, <2>1, Zenon
<1>10. \A q \in Procs : pc[q] # "idle" => q # p /\ Buf(q) # None
  BY <1>1, Zenon DEF Places
<1>11. Requests' /\ Disjoint' /\ Heads'
  <2>1. \A q \in Procs : /\ pc'[q] \in After <=> pc[q] \in After
                         /\ pc'[q] = "rw_asleep" => bdisk[Buf(q)]
                         /\ pc[q] \in After => req'[q] = req[q] /\ blockno'[Buf(q)] = blockno[Buf(q)]
    BY <1>1, <1>4, <1>5, <1>9, <1>10, ZenonT(30) DEF After, Heads
  <2> QED BY <1>1, <2>1, DriverKept, Zenon
<1>12. Places'
  <2>1. /\ Buf(p)' = None <=> pc'[p] = "idle"
        /\ Buf(p)' # None => blockno'[Buf(p)'] # None
        /\ idx'[p] # <<>> <=> pc'[p] \in After
        /\ pc'[p] \in Locking => locked'[Buf(p)'] = p
    BY <1>1, <1>3, <1>4, <1>5, <1>6, <1>8, Zenon DEF After, Locking
  <2>2. \A q \in Procs : q # p =>
          /\ Buf(q)' = None <=> pc'[q] = "idle"
          /\ Buf(q)' # None => blockno'[Buf(q)'] # None
          /\ idx'[q] # <<>> <=> pc'[q] \in After
          /\ pc'[q] \in Locking => locked'[Buf(q)'] = q
    BY <1>1, <1>4, <1>5, <1>9 DEF Places
  <2> QED BY <2>1, <2>2, Zenon DEF Places
<1>13. Locks'
  <2> SUFFICES ASSUME NEW c \in Bufs, locked[c] # None
               PROVE  pc'[locked[c]] \in Locking /\ Buf(locked[c])' = c
    BY <1>1, Zenon DEF Locks, Bufs, Buf
  <2>1. locked[c] \in Procs /\ locked[c] # p /\ pc[locked[c]] \in Locking /\ Buf(locked[c]) = c
    BY <1>6, Zenon DEF Locks, Shapes
  <2> QED BY <1>1, <1>4, <1>5, <2>1, Zenon DEF Buf
<1>14. Validity'
  <2>1. \A q \in Procs : /\ pc'[q] \in {"have", "release"} => valid'[Buf(q)']
                         /\ pc'[q] \in {"idle", "lock", "lock_asleep", "have"} => ~req'[q].write
                         /\ pc'[q] \in Before \cup After \cup {"rw_ret"} => (req'[q].write <=> valid'[Buf(q)'])
    <3>1. \A q \in Procs : q # p =>
            /\ pc'[q] \in {"have", "release"} => valid'[Buf(q)']
            /\ pc'[q] \in {"idle", "lock", "lock_asleep", "have"} => ~req'[q].write
            /\ pc'[q] \in Before \cup After \cup {"rw_ret"} => (req'[q].write <=> valid'[Buf(q)'])
      BY <1>4, <1>5, <1>9, <1>10 DEF Validity, Before, After
    <3> QED BY <1>4, <1>5, <3>1, Zenon DEF Before, After
  <2>2. \A c \in pinned' : valid'[c] /\ blockno'[c] # None
    BY <1>1, <1>7, <1>8, ZenonT(30) DEF Validity, Shapes
  <2> QED BY <2>1, <2>2, Zenon DEF Validity
<1>15. ReferencesExact'
  <2> SUFFICES ASSUME NEW c \in Bufs
               PROVE  refcnt'[c] = Cardinality(UsersOf(req', c)) + (IF c \in pinned THEN 1 ELSE 0)
    BY <1>1, Zenon DEF ReferencesExact, UsersOf, Buf, Bufs
  <2>1. refcnt[c] = Cardinality(UsersOf(req, c)) + (IF c \in pinned THEN 1 ELSE 0)
    BY Zenon DEF ReferencesExact, UsersOf, Buf
  <2>2. CASE c = b
    <3>1. Cardinality(UsersOf(req', c)) = Cardinality(UsersOf(req, c)) + 1
      <4>1. req[p].buf # c /\ req'[p].buf = c /\ \A q \in Procs : q # p => req'[q].buf = req[q].buf
        BY <1>3, <1>5, <1>6, <2>2, Zenon DEF Buf
      <4> QED BY <4>1, UserJoins, Zenon
    <3> QED BY <1>3, <1>8, <2>1, <2>2, <3>1, UsersCount
  <2>3. CASE c # b
    <3>1. UsersOf(req', c) = UsersOf(req, c)
      BY <1>5, <1>6, <2>3, VirtioAssumption, Zenon DEF UsersOf, Buf, Bufs
    <3> QED BY <1>8, <2>1, <2>3, <3>1, Zenon
  <2> QED BY <2>2, <2>3, Zenon
<1>16. OneBufferPerBlock'
  <2>1. \A c \in Bufs : blockno[c] # k
    BY <1>1, Zenon DEF Cached, Listed
  <2> QED BY <1>8, <2>1 DEF OneBufferPerBlock, Bufs
<1>17. Contents'
  <2>1. \A q \in Procs : (Pending(q)' <=> Pending(q)) /\ (Done(q)' <=> Done(q))
    BY <1>1, <1>4, Zenon DEF Pending, Done, Before, After
  <2>2. ASSUME NEW x \in Blocks, ~onDisk[x] PROVE Behind(x)'
    <3>1. Behind(x)
      BY <2>2, Zenon DEF Contents
    <3>2. PICK c \in Bufs : /\ blockno[c] = x /\ valid[c]
                            /\ c \in pinned \/ \E q \in Procs : Buf(q) = c /\ req[q].write /\ Pending(q)
      BY <3>1, Zenon DEF Behind
    <3>3. c # b
      BY <1>7, <3>2, Zenon
    <3>4. c \in pinned' \/ \E q \in Procs : Buf(q)' = c /\ req'[q].write /\ Pending(q)'
      <4>1. \A q \in Procs : Pending(q) => q # p
        BY <1>1, Zenon DEF Pending, Before, After
      <4> QED BY <1>1, <1>5, <2>1, <3>2, <4>1, Zenon
    <3> QED BY <1>8, <3>2, <3>3, <3>4, Zenon DEF Behind, Bufs
  <2>3. \A q \in Procs : Done(q)' => IF req'[q].write THEN onDisk'[blockno'[Buf(q)']] ELSE data'[Buf(q)']
    <3>1. \A q \in Procs : Done(q) => q # p /\ Buf(q) # None
      BY <1>10, Zenon DEF Done, After
    <3> QED BY <1>1, <1>5, <1>9, <2>1, <3>1 DEF Contents
  <2>4. \A c \in Bufs : valid'[c] => data'[c]
    BY <1>8, Zenon DEF Contents
  <2> QED BY <1>1, <2>2, <2>3, <2>4, Zenon DEF Contents, Bufs
<1>18. Waiters'
  BY <1>1, <1>4, <1>5, Zenon DEF Waiters
<1>19. Shapes'
  <2>1. pc' \in [Procs -> Labels] /\ refcnt' \in [Bufs -> Nat]
    BY <1>1, <1>2, Zenon DEF Shapes, Labels
  <2>2. req' \in [Procs -> [buf : Bufs \cup {None}, write : BOOLEAN]]
    BY <1>2, Zenon DEF Shapes
  <2>3. blockno' \in [Bufs -> Blocks \cup {None}] /\ valid' \in [Bufs -> BOOLEAN] /\ data' \in [Bufs -> BOOLEAN]
    BY <1>2, Zenon DEF Shapes
  <2> QED BY <1>1, <2>1, <2>2, <2>3, Zenon DEF Shapes, Ids
<1>20. Listed'
  BY <1>1, Zenon DEF Listed
<1> QED BY <1>11, <1>12, <1>13, <1>14, <1>15, <1>16, <1>17, <1>18, <1>19, <1>20, Zenon

\* acquiresleep() takes a free lock or sleeps; bread() then looks at b->valid.
LEMMA AcquireSleepKeeps ==
  ASSUME BioInv, NEW p \in Procs, AcquireSleep(p)
  PROVE  BioInv'
<1> USE DEF BioInv
<1>1. /\ UNCHANGED <<avail, used, irq, onDisk, num, free, desc, info, intr, data, bdisk, blockno, idx, req>>
      /\ UNCHANGED <<valid, refcnt, lru, pinned>>
      /\ pc[p] = "lock" /\ \A q : Buf(q)' = Buf(q)
  BY Zenon DEF AcquireSleep, driver, ring, device, chains, Buf
<1>2. Buf(p) \in Bufs
  BY <1>1, Zenon DEF Places, Shapes, Buf
<1>3. CASE locked[Buf(p)] # None
  <2>1. UNCHANGED <<locked, bufState>> /\ pc' = [pc EXCEPT ![p] = "lock_asleep"]
    BY <1>1, <1>3, Zenon DEF AcquireSleep, Goto, bufState
  <2>2. pc'[p] = "lock_asleep" /\ \A q \in Procs : q # p => pc'[q] = pc[q]
    BY <2>1, Zenon DEF Shapes
  <2>3. \A q \in Procs : SamePhase(q)
    BY <1>1, <2>2, Zenon DEF SamePhase
  <2>4. \A q \in Procs : (pc'[q] \in After <=> pc[q] \in After) /\ (pc'[q] = "rw_asleep" => bdisk[Buf(q)])
    BY <1>1, <2>2, Zenon DEF After, Heads
  <2>5. Requests' /\ Disjoint' /\ Heads'
    BY <1>1, <2>4, DriverKept, Zenon
  <2>6. Places' /\ Locks' /\ Validity' /\ ReferencesExact' /\ OneBufferPerBlock' /\ Listed'
    BY <1>1, <2>1, <2>3, UsersKept, Zenon DEF Shapes
  <2>7. Contents'
    BY <1>1, <2>1, <2>3, ContentsKept, Zenon
  <2>8. Waiters'
    BY <1>1, <1>3, <2>1, <2>2, Zenon DEF Waiters
  <2>9. Shapes'
    <3>1. pc' \in [Procs -> Labels]
      BY <2>1, Zenon DEF Shapes, Labels
    <3> QED BY <1>1, <2>1, <3>1, Zenon DEF Shapes, Ids
  <2> QED BY <2>5, <2>6, <2>7, <2>8, <2>9, Zenon
<1>4. CASE locked[Buf(p)] = None
  <2>1. PICK l \in {"have", "rw"} : /\ l = "have" <=> valid[Buf(p)]
                                    /\ pc' = [pc EXCEPT ![p] = l]
                                    /\ locked' = [locked EXCEPT ![Buf(p)] = p]
    BY <1>4, Zenon DEF AcquireSleep, Goto
  <2>2. pc'[p] = l /\ \A q \in Procs : q # p => pc'[q] = pc[q]
    BY <2>1, Zenon DEF Shapes
  <2>3. locked'[Buf(p)] = p /\ \A c \in Bufs : c # Buf(p) => locked'[c] = locked[c]
    BY <1>2, <2>1, Zenon DEF Shapes
  <2>4. idx[p] = <<>> /\ (\A c \in Bufs : locked[c] # None => locked[c] # p)
    BY <1>1, OutsideRequest, Zenon
  <2>5. \A q \in Procs : pc[q] \in Locking => Buf(q) \in Bufs /\ Buf(q) # Buf(p) /\ q # p
    <3>1. \A q \in Procs : pc[q] \in Locking => locked[Buf(q)] = q /\ Buf(q) # None
      BY Zenon DEF Places, Locking
    <3>2. \A q \in Procs : pc[q] \in Locking => Buf(q) \in Bufs /\ q # p
      BY <1>1, <3>1 DEF Shapes, Buf, Locking
    <3> QED BY <1>4, <3>1, <3>2, VirtioAssumption, Zenon
  <2>6. Requests' /\ Disjoint' /\ Heads'
    <3>1. \A q \in Procs : (pc'[q] \in After <=> pc[q] \in After) /\ (pc'[q] = "rw_asleep" => bdisk[Buf(q)])
      BY <1>1, <2>2, Zenon DEF After, Heads
    <3> QED BY <1>1, <3>1, DriverKept, Zenon
  <2>7. Places'
    <3>1. /\ Buf(p) = None <=> pc'[p] = "idle"
          /\ Buf(p) # None => blockno[Buf(p)] # None
          /\ idx[p] # <<>> <=> pc'[p] \in After
          /\ pc'[p] \in Locking => locked'[Buf(p)] = p
      BY <1>1, <2>2, <2>3, <2>4, Zenon DEF After, Places
    <3>2. \A q \in Procs : q # p =>
            /\ Buf(q) = None <=> pc'[q] = "idle"
            /\ Buf(q) # None => blockno[Buf(q)] # None
            /\ idx[q] # <<>> <=> pc'[q] \in After
            /\ pc'[q] \in Locking => locked'[Buf(q)] = q
      BY <2>2, <2>3, <2>5, Zenon DEF Places
    <3> QED BY <1>1, <3>1, <3>2, Zenon DEF Places
  <2>8. Locks'
    <3> SUFFICES ASSUME NEW c \in Bufs, locked'[c] # None
                 PROVE  pc'[locked'[c]] \in Locking /\ Buf(locked'[c]) = c
      BY <1>1, Zenon DEF Locks, Bufs, Buf
    <3>1. CASE c = Buf(p)
      BY <2>2, <2>3, <3>1, Zenon DEF Locking
    <3>2. CASE c # Buf(p)
      <4>1. locked'[c] = locked[c] /\ locked[c] \in Procs /\ locked[c] # p
        BY <2>3, <2>4, <3>2, Zenon DEF Shapes
      <4>2. pc[locked[c]] \in Locking /\ Buf(locked[c]) = c
        BY <4>1, Zenon DEF Locks
      <4> QED BY <2>2, <4>1, <4>2, Zenon
    <3> QED BY <3>1, <3>2, Zenon
  <2>9. Validity'
    <3>1. ~req[p].write
      BY <1>1, Zenon DEF Validity
    <3>2. \A q \in Procs : /\ pc'[q] \in {"have", "release"} => valid[Buf(q)]
                           /\ pc'[q] \in {"idle", "lock", "lock_asleep", "have"} => ~req[q].write
                           /\ pc'[q] \in Before \cup After \cup {"rw_ret"} => (req[q].write <=> valid[Buf(q)])
      BY <2>1, <2>2, <3>1, Zenon DEF Validity, Before, After
    <3> QED BY <1>1, <3>2, Zenon DEF Validity
  <2>10. Contents'
    <3>1. \A q \in Procs : (Done(q)' <=> Done(q)) /\ (Pending(q) => Pending(q)')
      BY <1>1, <2>2, Zenon DEF Pending, Done, Before, After
    <3>2. ASSUME NEW x \in Blocks, ~onDisk[x] PROVE Behind(x)'
      <4>1. Behind(x)
        BY <3>2, Zenon DEF Contents
      <4> QED BY <1>1, <3>1, <4>1, BehindKept, Zenon
    <3> QED BY <1>1, <3>1, <3>2, Zenon DEF Contents, Bufs
  <2>11. Waiters'
    <3>1. \A q \in Procs : pc'[q] = "lock_asleep" => locked'[Buf(q)] # None
      <4>1. \A q \in Procs : pc'[q] = "lock_asleep" => pc[q] = "lock_asleep" /\ locked[Buf(q)] # None /\ Buf(q) \in Bufs
        BY <2>1, <2>2, ZenonT(30) DEF Waiters, Places, Shapes, Buf
      <4> QED BY <1>4, <2>3, <4>1, Zenon
    <3> QED BY <1>1, <2>1, <2>2, <3>1, Zenon DEF Waiters
  <2>12. Shapes'
    <3>1. pc' \in [Procs -> Labels] /\ locked' \in [Bufs -> Procs \cup {None}]
      BY <2>1, Zenon DEF Shapes, Labels
    <3> QED BY <1>1, <3>1, Zenon DEF Shapes, Ids
  <2>13. ReferencesExact' /\ OneBufferPerBlock' /\ Listed'
    BY <1>1, ZenonT(30) DEF ReferencesExact, OneBufferPerBlock, Listed
  <2> QED BY <2>6, <2>7, <2>8, <2>9, <2>10, <2>11, <2>12, <2>13, Zenon
<1> QED BY <1>3, <1>4, Zenon

\* releasesleep() gives the lock back and wakes who sleeps on it.
LEMMA ReleaseSleepKeeps ==
  ASSUME BioInv, NEW p \in Procs, ReleaseSleep(p)
  PROVE  BioInv'
<1> USE DEF BioInv
<1>1. /\ UNCHANGED <<avail, used, irq, onDisk, num, free, desc, info, intr, data, bdisk, blockno, idx, req>>
      /\ UNCHANGED <<valid, refcnt, lru, pinned>>
      /\ pc[p] \in {"have", "release"} /\ \A q : Buf(q)' = Buf(q)
      /\ locked' = [locked EXCEPT ![Buf(p)] = None]
  BY Zenon DEF ReleaseSleep, driver, ring, device, chains, Buf
<1>2. Buf(p) \in Bufs
  BY <1>1, Zenon DEF Places, Shapes, Buf
<1>3. /\ pc'[p] = "unref"
      /\ \A q \in Procs : q # p =>
           \/ pc'[q] = pc[q] /\ ~(pc[q] = "lock_asleep" /\ Buf(q) = Buf(p))
           \/ pc[q] = "lock_asleep" /\ pc'[q] = "lock" /\ Buf(q) = Buf(p)
  BY Zenon DEF ReleaseSleep
<1>4. locked'[Buf(p)] = None /\ \A c \in Bufs : c # Buf(p) => locked'[c] = locked[c]
  BY <1>1, <1>2, Zenon DEF Shapes
<1>5. \A q \in Procs : pc[q] \in Locking /\ q # p => Buf(q) \in Bufs /\ Buf(q) # Buf(p)
  <2>1. \A q \in Procs : pc[q] \in Locking => Buf(q) \in Bufs
    BY ZenonT(60) DEF Places, Shapes, Buf, Locking
  <2>2. pc[p] \in Locking
    BY <1>1, Zenon DEF Locking
  <2> QED BY <2>1, <2>2, LockIsOne, Zenon
<1>6. Requests' /\ Disjoint' /\ Heads'
  <2>1. \A q \in Procs : (pc'[q] \in After <=> pc[q] \in After) /\ (pc'[q] = "rw_asleep" => bdisk[Buf(q)])
    BY <1>1, <1>3, Zenon DEF After, Heads
  <2> QED BY <1>1, <2>1, DriverKept, Zenon
<1>7. Places'
  <2>1. /\ Buf(p) = None <=> pc'[p] = "idle"
        /\ Buf(p) # None => blockno[Buf(p)] # None
        /\ idx[p] # <<>> <=> pc'[p] \in After
        /\ pc'[p] \in Locking => locked'[Buf(p)] = p
    BY <1>1, <1>3, Zenon DEF After, Places, Locking
  <2>2. \A q \in Procs : q # p =>
          /\ Buf(q) = None <=> pc'[q] = "idle"
          /\ Buf(q) # None => blockno[Buf(q)] # None
          /\ idx[q] # <<>> <=> pc'[q] \in After
          /\ pc'[q] \in Locking => locked'[Buf(q)] = q
    <3>1. \A q \in Procs : q # p => /\ pc'[q] = "idle" <=> pc[q] = "idle"
                                    /\ pc'[q] \in After <=> pc[q] \in After
                                    /\ pc'[q] \in Locking <=> pc[q] \in Locking
      BY <1>3, Zenon DEF After, Locking
    <3> QED BY <1>4, <1>5, <3>1, Zenon DEF Places
  <2> QED BY <1>1, <2>1, <2>2, Zenon DEF Places
<1>8. Locks'
  <2> SUFFICES ASSUME NEW c \in Bufs, locked'[c] # None
               PROVE  pc'[locked'[c]] \in Locking /\ Buf(locked'[c]) = c
    BY <1>1, Zenon DEF Locks, Bufs, Buf
  <2>1. c # Buf(p) /\ locked'[c] = locked[c] /\ locked[c] \in Procs
    BY <1>4, Zenon DEF Shapes
  <2>2. pc[locked[c]] \in Locking /\ Buf(locked[c]) = c
    BY <2>1, Zenon DEF Locks
  <2> QED BY <1>3, <2>1, <2>2, Zenon DEF Locking
<1>9. Validity'
  <2>1. \A q \in Procs : /\ pc'[q] \in {"have", "release"} => valid[Buf(q)]
                         /\ pc'[q] \in {"idle", "lock", "lock_asleep", "have"} => ~req[q].write
                         /\ pc'[q] \in Before \cup After \cup {"rw_ret"} => (req[q].write <=> valid[Buf(q)])
    BY <1>3, Zenon DEF Validity, Before, After
  <2> QED BY <1>1, <2>1, Zenon DEF Validity
<1>10. Contents'
  <2>1. \A q \in Procs : (Done(q)' <=> Done(q)) /\ (Pending(q) <=> Pending(q)')
    BY <1>1, <1>3, Zenon DEF Pending, Done, Before, After
  <2>2. ASSUME NEW x \in Blocks, ~onDisk[x] PROVE Behind(x)'
    <3>1. Behind(x)
      BY <2>2, Zenon DEF Contents
    <3> QED BY <1>1, <2>1, <3>1, BehindKept, Zenon
  <2> QED BY <1>1, <2>1, <2>2, Zenon DEF Contents, Bufs
<1>11. Waiters'
  <2>1. ASSUME NEW q \in Procs, pc'[q] = "lock_asleep" PROVE locked'[Buf(q)] # None
    <3>1. pc[q] = "lock_asleep" /\ Buf(q) # Buf(p)
      BY <1>3, <2>1, Zenon
    <3>2. locked[Buf(q)] # None /\ Buf(q) \in Bufs
      BY <3>1, Zenon DEF Waiters, Places, Shapes, Buf
    <3> QED BY <1>4, <3>1, <3>2, Zenon
  <2>2. \A q \in Procs : pc'[q] = "desc_asleep" => pc[q] = "desc_asleep"
    BY <1>3, Zenon
  <2> QED BY <1>1, <2>1, <2>2, Zenon DEF Waiters
<1>12. Shapes'
  <2>1. pc' \in [Procs -> Labels]
    BY Zenon DEF Shapes, Labels, ReleaseSleep
  <2>2. locked' \in [Bufs -> Procs \cup {None}]
    BY <1>1, Zenon DEF Shapes
  <2> QED BY <1>1, <2>1, <2>2, Zenon DEF Shapes, Ids
<1>13. ReferencesExact' /\ OneBufferPerBlock' /\ Listed'
  BY <1>1, Zenon DEF ReferencesExact, OneBufferPerBlock, Listed
<1> QED BY <1>6, <1>7, <1>8, <1>9, <1>10, <1>11, <1>12, <1>13, Zenon

-----------------------------------------------------------------------------
(* What is done with a locked buffer, and brelse().                        *)

\* A step of p with a locked buffer that changes neither locks nor blocks.
LEMMA HolderMoves ==
  ASSUME Shapes, Places, Locks, NEW p \in Procs, pc[p] \in Locking \ After,
         pc'[p] \in Locking \ After, \A q \in Procs : q # p => pc'[q] = pc[q],
         \A q : Buf(q)' = Buf(q), UNCHANGED <<blockno, idx, locked>>
  PROVE  Places' /\ Locks'
<1>1. Places'
  <2>1. \A q \in Procs : /\ pc'[q] = "idle" <=> pc[q] = "idle"
                         /\ pc'[q] \in After <=> pc[q] \in After
                         /\ pc'[q] \in Locking <=> pc[q] \in Locking
    BY Zenon DEF Locking
  <2> QED BY <2>1, Zenon DEF Places
<1>2. Locks'
  <2> SUFFICES ASSUME NEW c \in Bufs, locked[c] # None
               PROVE  pc'[locked[c]] \in Locking /\ Buf(locked[c]) = c
    BY Zenon DEF Locks, Bufs
  <2>1. locked[c] \in Procs /\ pc[locked[c]] \in Locking /\ Buf(locked[c]) = c
    BY Zenon DEF Locks, Shapes
  <2> QED BY <2>1, Zenon
<1> QED BY <1>1, <1>2, Zenon

\* The buffer of a process with a lock, its block, and the others' buffers.
LEMMA HolderAlone ==
  ASSUME Shapes, Places, OneBufferPerBlock, NEW p \in Procs, pc[p] \in Locking
  PROVE  /\ Buf(p) \in Bufs /\ blockno[Buf(p)] \in Blocks
         /\ \A q \in Procs : q # p /\ pc[q] \in Locking =>
              /\ Buf(q) \in Bufs /\ Buf(q) # Buf(p)
              /\ blockno[Buf(q)] \in Blocks /\ blockno[Buf(q)] # blockno[Buf(p)]
<1>1. \A q \in Procs : pc[q] \in Locking => /\ Buf(q) \in Bufs
                                            /\ blockno[Buf(q)] \in Blocks /\ blockno[Buf(q)] # None
  <2>1. \A q \in Procs : pc[q] \in Locking => Buf(q) \in Bufs /\ blockno[Buf(q)] # None
    BY Zenon DEF Places, Shapes, Buf, Locking
  <2> QED BY <2>1, Zenon DEF Shapes
<1>2. \A q \in Procs : q # p /\ pc[q] \in Locking => Buf(q) # Buf(p)
  BY LockIsOne, Zenon
<1> QED BY <1>1, <1>2, Zenon DEF OneBufferPerBlock

\* virtio_disk_rw() is back: what was read is valid, what was written is no
\* longer pinned.
LEMMA RwReturnKeeps ==
  ASSUME BioInv, NEW p \in Procs, RwReturn(p)
  PROVE  BioInv'
<1> USE DEF BioInv
<1>1. /\ UNCHANGED <<avail, used, irq, onDisk, num, free, desc, info, intr, data, bdisk, blockno, idx, req>>
      /\ UNCHANGED <<locked, lru>>
      /\ pc[p] = "rw_ret" /\ \A q : Buf(q)' = Buf(q)
  BY Zenon DEF RwReturn, driver, ring, device, chains, Buf
<1>2. PICK l \in {"release", "have"} :
        /\ l = "release" <=> req[p].write
        /\ pc' = [pc EXCEPT ![p] = l]
        /\ pinned' = IF req[p].write THEN pinned \ {Buf(p)} ELSE pinned
        /\ refcnt' = IF req[p].write /\ Buf(p) \in pinned THEN [refcnt EXCEPT ![Buf(p)] = @ - 1] ELSE refcnt
        /\ valid' = IF req[p].write THEN valid ELSE [valid EXCEPT ![Buf(p)] = TRUE]
  BY Zenon DEF RwReturn, Bunpin, Goto
<1>3. pc'[p] = l /\ \A q \in Procs : q # p => pc'[q] = pc[q]
  BY <1>2, Zenon DEF Shapes
<1>4. pc[p] \in Locking \ After /\ pc'[p] \in Locking \ After
  BY <1>1, <1>3, Zenon DEF Locking, After
<1>5. /\ Buf(p) \in Bufs /\ blockno[Buf(p)] \in Blocks
      /\ \A q \in Procs : q # p /\ pc[q] \in Locking =>
              /\ Buf(q) \in Bufs /\ Buf(q) # Buf(p)
              /\ blockno[Buf(q)] \in Blocks /\ blockno[Buf(q)] # blockno[Buf(p)]
  BY <1>4, HolderAlone, Zenon
<1>6. valid'[Buf(p)] /\ \A c \in Bufs : c # Buf(p) => valid'[c] = valid[c]
  <2>1. req[p].write => valid[Buf(p)]
    BY <1>1, Zenon DEF Validity
  <2> QED BY <1>2, <1>5, <2>1, Zenon DEF Shapes
<1>7. IF req[p].write THEN onDisk[blockno[Buf(p)]] ELSE data[Buf(p)]
  BY <1>1, Zenon DEF Contents, Done
<1>8. Requests' /\ Disjoint' /\ Heads'
  <2>1. \A q \in Procs : (pc'[q] \in After <=> pc[q] \in After) /\ (pc'[q] = "rw_asleep" => bdisk[Buf(q)])
    BY <1>1, <1>3, Zenon DEF After, Heads
  <2> QED BY <1>1, <2>1, DriverKept, Zenon
<1>9. Places' /\ Locks'
  BY <1>1, <1>3, <1>4, HolderMoves, Zenon
<1>10. Validity'
  <2>1. ASSUME NEW q \in Procs
        PROVE  /\ pc'[q] \in {"have", "release"} => valid'[Buf(q)]
               /\ pc'[q] \in {"idle", "lock", "lock_asleep", "have"} => ~req[q].write
               /\ pc'[q] \in Before \cup After \cup {"rw_ret"} => (req[q].write <=> valid'[Buf(q)])
    <3>1. CASE q = p
      BY <1>2, <1>3, <1>6, <3>1, Zenon DEF Before, After
    <3>2. CASE q # p
      BY <1>3, <1>5, <1>6, <3>2 DEF Validity, Before, After, Locking
    <3> QED BY <3>1, <3>2, Zenon
  <2>2. \A c \in pinned' : valid'[c] /\ blockno[c] # None
    BY <1>2, <1>6, Zenon DEF Validity, Shapes
  <2> QED BY <1>1, <2>1, <2>2, Zenon DEF Validity
<1>11. \A c \in Bufs : /\ refcnt'[c] = Cardinality(UsersOf(req, c)) + (IF c \in pinned' THEN 1 ELSE 0)
                       /\ refcnt'[c] \in Nat
  <2> SUFFICES ASSUME NEW c \in Bufs
               PROVE  refcnt'[c] = Cardinality(UsersOf(req, c)) + (IF c \in pinned' THEN 1 ELSE 0)
    BY UsersCount
  <2>1. refcnt[c] = Cardinality(UsersOf(req, c)) + (IF c \in pinned THEN 1 ELSE 0)
    BY Zenon DEF ReferencesExact, UsersOf, Buf
  <2>2. refcnt'[c] = IF req[p].write /\ Buf(p) \in pinned /\ c = Buf(p) THEN refcnt[c] - 1 ELSE refcnt[c]
    BY <1>2, <1>5, Zenon DEF Shapes
  <2>3. c \in pinned' <=> c \in pinned /\ ~(req[p].write /\ c = Buf(p))
    BY <1>2, Zenon
  <2> QED BY <2>1, <2>2, <2>3, UsersCount
<1>12. Contents'
  <2>1. \A q \in Procs : q # p => (Done(q)' <=> Done(q)) /\ (Pending(q)' <=> Pending(q))
    BY <1>1, <1>3, Zenon DEF Pending, Done
  <2>2. ~Done(p)' /\ ~Pending(p)
    BY <1>1, <1>3, Zenon DEF Pending, Done, Before, After
  <2>3. ASSUME NEW x \in Blocks, ~onDisk[x] PROVE Behind(x)'
    <3>1. Behind(x)
      BY <2>3, Zenon DEF Contents
    <3>2. req[p].write => blockno[Buf(p)] # x
      BY <1>7, <2>3, Zenon
    <3>3. \A b \in Bufs : blockno[b] = x /\ valid[b] =>
            /\ blockno'[b] = x /\ valid'[b]
            /\ (b \in pinned => b \in pinned')
      BY <1>1, <1>2, <1>6, <3>2, Zenon
    <3> QED BY <1>1, <2>1, <2>2, <3>1, <3>3, BehindKept, ZenonT(30)
  <2>4. \A q \in Procs : Done(q)' => IF req[q].write THEN onDisk[blockno[Buf(q)]] ELSE data[Buf(q)]
    BY <2>1, <2>2, Zenon DEF Contents
  <2>5. \A c \in Bufs : valid'[c] => data[c]
    <3>1. ~req[p].write => data[Buf(p)]
      BY <1>7, Zenon
    <3>2. \A c \in Bufs : valid[c] => data[c]
      BY Zenon DEF Contents
    <3>3. req[p].write => valid[Buf(p)]
      BY <1>1, Zenon DEF Validity
    <3> QED BY <1>6, <3>1, <3>2, <3>3, Zenon
  <2> QED BY <1>1, <2>3, <2>4, <2>5, Zenon DEF Contents, Bufs
<1>13. Waiters'
  BY <1>1, <1>3, Zenon DEF Waiters
<1>14. Shapes'
  <2>1. pc' \in [Procs -> Labels] /\ pinned' \in SUBSET Bufs /\ valid' \in [Bufs -> BOOLEAN]
    BY <1>2, Zenon DEF Shapes, Labels
  <2>2. refcnt' \in [Bufs -> Nat]
    <3>1. refcnt' = [c \in Bufs |-> refcnt'[c]]
      BY <1>2, Zenon DEF Shapes
    <3> QED BY <1>11, <3>1, Zenon
  <2> QED BY <1>1, <2>1, <2>2, Zenon DEF Shapes, Ids
<1>15. ReferencesExact' /\ OneBufferPerBlock' /\ Listed'
  <2>1. ReferencesExact'
    BY <1>1, <1>11, Zenon DEF ReferencesExact, UsersOf, Buf, Bufs
  <2> QED BY <1>1, <2>1, Zenon DEF OneBufferPerBlock, Listed
<1> QED BY <1>8, <1>9, <1>10, <1>12, <1>13, <1>14, <1>15, Zenon

\* bwrite(): the disk is behind until the device has carried out the request.
LEMMA BwriteKeeps ==
  ASSUME BioInv, NEW p \in Procs, Bwrite(p)
  PROVE  BioInv'
<1> USE DEF BioInv
<1>1. /\ UNCHANGED <<avail, used, irq, num, free, desc, info, intr, bdisk, blockno, idx>>
      /\ UNCHANGED <<valid, refcnt, locked, lru, pinned>>
      /\ pc[p] = "have" /\ pc' = [pc EXCEPT ![p] = "rw"]
      /\ req' = [req EXCEPT ![p] = [buf |-> Buf(p), write |-> TRUE]]
  BY Zenon DEF Bwrite, ring, chains, bufState, Goto
<1>2. pc'[p] = "rw" /\ \A q \in Procs : q # p => pc'[q] = pc[q]
  BY <1>1, Zenon DEF Shapes
<1>3. /\ req'[p].write /\ \A q \in Procs : q # p => req'[q] = req[q]
      /\ \A q \in Procs : Buf(q)' = Buf(q)
  BY <1>1, Zenon DEF Shapes, Buf
<1>4. pc[p] \in Locking \ After /\ pc'[p] \in Locking \ After
  BY <1>1, <1>2, Zenon DEF Locking, After
<1>5. /\ Buf(p) \in Bufs /\ blockno[Buf(p)] \in Blocks
      /\ \A q \in Procs : q # p /\ pc[q] \in Locking =>
              /\ Buf(q) \in Bufs /\ Buf(q) # Buf(p)
              /\ blockno[Buf(q)] \in Blocks /\ blockno[Buf(q)] # blockno[Buf(p)]
  BY <1>4, HolderAlone, Zenon
<1>6. /\ onDisk' \in [Blocks -> BOOLEAN] /\ data' \in [Bufs -> BOOLEAN]
      /\ \A x \in Blocks : x # blockno[Buf(p)] => onDisk'[x] = onDisk[x]
      /\ \A c \in Bufs : data[c] => data'[c]
  <2>1. CASE Buf(p) \in pinned
    BY <2>1, Zenon DEF Bwrite, Shapes
  <2>2. CASE Buf(p) \notin pinned
    <3>1. onDisk' = [onDisk EXCEPT ![blockno[Buf(p)]] = FALSE] /\ data' = [data EXCEPT ![Buf(p)] = TRUE]
      BY <2>2, Zenon DEF Bwrite
    <3> QED BY <1>5, <3>1, Zenon DEF Shapes
  <2> QED BY <2>1, <2>2, Zenon
<1>7. valid[Buf(p)]
  BY <1>1, Zenon DEF Validity
<1>8. Requests' /\ Disjoint' /\ Heads'
  <2>1. \A q \in Procs : /\ pc'[q] \in After <=> pc[q] \in After
                         /\ pc'[q] = "rw_asleep" => bdisk[Buf(q)]
                         /\ pc[q] \in After => req'[q] = req[q]
    BY <1>1, <1>2, <1>3, ZenonT(30) DEF After, Heads
  <2> QED BY <1>1, <2>1, DriverKept, Zenon
<1>9. Places' /\ Locks'
  <2>1. Places'
    <3>1. \A q \in Procs : /\ pc'[q] = "idle" <=> pc[q] = "idle"
                           /\ pc'[q] \in After <=> pc[q] \in After
                           /\ pc'[q] \in Locking <=> pc[q] \in Locking
      BY <1>1, <1>2, <1>4, Zenon
    <3> QED BY <1>1, <1>3, <3>1 DEF Places
  <2>2. ASSUME NEW c \in Bufs, locked[c] # None PROVE pc'[locked[c]] \in Locking /\ Buf(locked[c])' = c
    <3>1. locked[c] \in Procs /\ pc[locked[c]] \in Locking /\ Buf(locked[c]) = c
      BY <2>2, Zenon DEF Locks, Shapes
    <3> QED BY <1>1, <1>2, <1>3, <1>4, <3>1, Zenon DEF Buf
  <2>3. Locks'
    BY <1>1, <2>2, Zenon DEF Locks, Bufs, Buf
  <2> QED BY <2>1, <2>3, Zenon
<1>10. Validity'
  <2>1. \A q \in Procs :
           /\ pc'[q] \in {"have", "release"} => valid[Buf(q)]
           /\ pc'[q] \in {"idle", "lock", "lock_asleep", "have"} => ~req'[q].write
           /\ pc'[q] \in Before \cup After \cup {"rw_ret"} => (req'[q].write <=> valid[Buf(q)])
    BY <1>2, <1>3, <1>7, Zenon DEF Validity
  <2> QED BY <1>1, <1>3, <2>1, Zenon DEF Validity
<1>11. Contents'
  <2>1. \A q \in Procs : q # p => (Done(q)' <=> Done(q)) /\ (Pending(q)' <=> Pending(q))
    BY <1>1, <1>2, Zenon DEF Pending, Done
  <2>2. ~Done(p)' /\ ~Pending(p) /\ Pending(p)'
    BY <1>1, <1>2, Zenon DEF Pending, Done, Before, After
  <2>3. ASSUME NEW x \in Blocks, ~onDisk'[x] PROVE Behind(x)'
    <3>1. CASE x = blockno[Buf(p)]
      BY <1>1, <1>3, <1>5, <1>7, <2>2, <3>1, Zenon DEF Behind, Bufs
    <3>2. CASE x # blockno[Buf(p)]
      <4>1. Behind(x)
        BY <1>6, <2>3, <3>2, Zenon DEF Contents
      <4>2. \A q \in Procs : Pending(q) /\ req[q].write /\ blockno[Buf(q)] = x =>
              Pending(q)' /\ Buf(q)' = Buf(q) /\ req'[q].write
        BY <1>3, <2>1, <2>2, Zenon
      <4> QED BY <1>1, <4>1, <4>2, BehindKept, Zenon
    <3> QED BY <3>1, <3>2, Zenon
  <2>4. ASSUME NEW q \in Procs, Done(q)'
        PROVE  IF req'[q].write THEN onDisk'[blockno[Buf(q)]] ELSE data'[Buf(q)]
    <3>1. q # p /\ Done(q)
      BY <2>1, <2>2, <2>4, Zenon
    <3>2. pc[q] \in Locking
      BY <3>1, Zenon DEF Done, Locking, After
    <3>3. IF req[q].write THEN onDisk[blockno[Buf(q)]] ELSE data[Buf(q)]
      BY <3>1, Zenon DEF Contents
    <3> QED BY <1>3, <1>5, <1>6, <3>1, <3>2, <3>3, Zenon
  <2>5. \A c \in Bufs : valid[c] => data'[c]
    BY <1>6, Zenon DEF Contents
  <2> QED BY <1>1, <1>3, <2>3, <2>4, <2>5, Zenon DEF Contents, Bufs
<1>12. Waiters'
  BY <1>1, <1>2, <1>3, ZenonT(30) DEF Waiters
<1>13. Shapes'
  <2>1. pc' \in [Procs -> Labels]
    BY <1>1, Zenon DEF Shapes, Labels
  <2>2. req' \in [Procs -> [buf : Bufs \cup {None}, write : BOOLEAN]]
    BY <1>1, <1>5, Zenon DEF Shapes
  <2> QED BY <1>1, <1>6, <2>1, <2>2, Zenon DEF Shapes, Ids
<1>14. ReferencesExact' /\ OneBufferPerBlock' /\ Listed'
  <2>1. \A c : UsersOf(req', c) = UsersOf(req, c)
    BY <1>3, Zenon DEF UsersOf, Buf
  <2>2. ReferencesExact'
    BY <1>1, <2>1, ZenonT(30) DEF ReferencesExact, UsersOf, Buf, Bufs
  <2> QED BY <1>1, <2>2, Zenon DEF OneBufferPerBlock, Listed
<1> QED BY <1>8, <1>9, <1>10, <1>11, <1>12, <1>13, <1>14, Zenon

\* log_write(): the disk is behind while the buffer is pinned.
LEMMA ChangeAndPinKeeps ==
  ASSUME BioInv, NEW p \in Procs, ChangeAndPin(p)
  PROVE  BioInv'
<1> USE DEF BioInv
<1>1. /\ UNCHANGED <<avail, used, irq, num, free, desc, info, intr, bdisk, blockno, idx, req>>
      /\ UNCHANGED <<valid, locked, lru>> /\ \A q : Buf(q)' = Buf(q)
      /\ pc[p] = "have" /\ pc' = [pc EXCEPT ![p] = "release"]
      /\ onDisk' = [onDisk EXCEPT ![blockno[Buf(p)]] = FALSE]
      /\ data' = [data EXCEPT ![Buf(p)] = TRUE]
      /\ pinned' = pinned \cup {Buf(p)}
      /\ refcnt' = IF Buf(p) \in pinned THEN refcnt ELSE [refcnt EXCEPT ![Buf(p)] = @ + 1]
  BY Zenon DEF ChangeAndPin, ring, chains, Goto, Buf
<1>2. pc'[p] = "release" /\ \A q \in Procs : q # p => pc'[q] = pc[q]
  BY <1>1, Zenon DEF Shapes
<1>3. pc[p] \in Locking \ After /\ pc'[p] \in Locking \ After
  BY <1>1, <1>2, Zenon DEF Locking, After
<1>4. /\ Buf(p) \in Bufs /\ blockno[Buf(p)] \in Blocks
      /\ \A q \in Procs : q # p /\ pc[q] \in Locking =>
              /\ Buf(q) \in Bufs /\ Buf(q) # Buf(p)
              /\ blockno[Buf(q)] \in Blocks /\ blockno[Buf(q)] # blockno[Buf(p)]
  BY <1>3, HolderAlone, Zenon
<1>5. /\ onDisk' \in [Blocks -> BOOLEAN] /\ data' \in [Bufs -> BOOLEAN]
      /\ \A x \in Blocks : x # blockno[Buf(p)] => onDisk'[x] = onDisk[x]
      /\ \A c \in Bufs : data[c] => data'[c]
  BY <1>1, <1>4, Zenon DEF Shapes
<1>6. valid[Buf(p)] /\ blockno[Buf(p)] # None
  BY <1>1, Zenon DEF Validity, Places
<1>7. Requests' /\ Disjoint' /\ Heads'
  <2>1. \A q \in Procs : (pc'[q] \in After <=> pc[q] \in After) /\ (pc'[q] = "rw_asleep" => bdisk[Buf(q)])
    BY <1>1, <1>2, Zenon DEF After, Heads
  <2> QED BY <1>1, <2>1, DriverKept, Zenon
<1>8. Places' /\ Locks'
  BY <1>1, <1>2, <1>3, HolderMoves, Zenon
<1>9. Validity'
  <2>1. \A q \in Procs :
           /\ pc'[q] \in {"have", "release"} => valid[Buf(q)]
           /\ pc'[q] \in {"idle", "lock", "lock_asleep", "have"} => ~req[q].write
           /\ pc'[q] \in Before \cup After \cup {"rw_ret"} => (req[q].write <=> valid[Buf(q)])
    BY <1>2, <1>6, Zenon DEF Validity, Before, After
  <2>2. \A c \in pinned' : valid[c] /\ blockno[c] # None
    BY <1>1, <1>6, Zenon DEF Validity
  <2> QED BY <1>1, <2>1, <2>2, Zenon DEF Validity
<1>10. \A c \in Bufs : refcnt'[c] = Cardinality(UsersOf(req, c)) + (IF c \in pinned' THEN 1 ELSE 0)
  <2> SUFFICES ASSUME NEW c \in Bufs
               PROVE  refcnt'[c] = Cardinality(UsersOf(req, c)) + (IF c \in pinned' THEN 1 ELSE 0)
    OBVIOUS
  <2>1. refcnt[c] = Cardinality(UsersOf(req, c)) + (IF c \in pinned THEN 1 ELSE 0)
    BY Zenon DEF ReferencesExact, UsersOf, Buf
  <2>2. refcnt'[c] = IF Buf(p) \notin pinned /\ c = Buf(p) THEN refcnt[c] + 1 ELSE refcnt[c]
    BY <1>1, <1>4, Zenon DEF Shapes
  <2>3. c \in pinned' <=> c \in pinned \/ c = Buf(p)
    BY <1>1, Zenon
  <2> QED BY <2>1, <2>2, <2>3, UsersCount
<1>11. Contents'
  <2>1. \A q \in Procs : q # p => (Done(q)' <=> Done(q)) /\ (Pending(q)' <=> Pending(q))
    BY <1>1, <1>2, Zenon DEF Pending, Done
  <2>2. ~Done(p)' /\ ~Pending(p)
    BY <1>1, <1>2, Zenon DEF Pending, Done, Before, After
  <2>3. ASSUME NEW x \in Blocks, ~onDisk'[x] PROVE Behind(x)'
    <3>1. CASE x = blockno[Buf(p)]
      BY <1>1, <1>4, <1>6, <3>1, Zenon DEF Behind, Bufs
    <3>2. CASE x # blockno[Buf(p)]
      <4>1. Behind(x)
        BY <1>5, <2>3, <3>2, Zenon DEF Contents
      <4> QED BY <1>1, <2>1, <2>2, <4>1, BehindKept, Zenon
    <3> QED BY <3>1, <3>2, Zenon
  <2>4. ASSUME NEW q \in Procs, Done(q)'
        PROVE  IF req[q].write THEN onDisk'[blockno[Buf(q)]] ELSE data'[Buf(q)]
    <3>1. q # p /\ Done(q)
      BY <2>1, <2>2, <2>4, Zenon
    <3>2. pc[q] \in Locking
      BY <3>1, Zenon DEF Done, Locking, After
    <3>3. IF req[q].write THEN onDisk[blockno[Buf(q)]] ELSE data[Buf(q)]
      BY <3>1, Zenon DEF Contents
    <3> QED BY <1>4, <1>5, <3>1, <3>2, <3>3, Zenon
  <2>5. \A c \in Bufs : valid[c] => data'[c]
    BY <1>5, Zenon DEF Contents
  <2> QED BY <1>1, <2>3, <2>4, <2>5, Zenon DEF Contents, Bufs
<1>12. Waiters'
  BY <1>1, <1>2, Zenon DEF Waiters
<1>13. Shapes'
  <2>1. pc' \in [Procs -> Labels] /\ pinned' \in SUBSET Bufs
    BY <1>1, <1>4, Zenon DEF Shapes, Labels
  <2>2. refcnt' \in [Bufs -> Nat]
    BY <1>1, <1>4 DEF Shapes
  <2> QED BY <1>1, <1>5, <2>1, <2>2, Zenon DEF Shapes, Ids
<1>14. ReferencesExact' /\ OneBufferPerBlock' /\ Listed'
  <2>1. ReferencesExact'
    BY <1>1, <1>10, ZenonT(30) DEF ReferencesExact, UsersOf, Buf, Bufs
  <2> QED BY <1>1, <2>1, Zenon DEF OneBufferPerBlock, Listed
<1> QED BY <1>7, <1>8, <1>9, <1>11, <1>12, <1>13, <1>14, Zenon

\* A buffer that moves to the front stays in the list, and so do the others.
LEMMA MovedIsListed ==
  ASSUME Listed, lru \in [1 .. NBUF -> Bufs], NEW i \in 1 .. NBUF, lru' = MoveToFront(i)
  PROVE  Listed' /\ lru' \in [1 .. NBUF -> Bufs]
<1>0. NBUF \in Nat /\ 1 \in 1 .. NBUF
  BY VirtioAssumption
<1>1. /\ \A j \in 1 .. NBUF : lru'[j] = IF j = 1 THEN lru[i] ELSE IF j <= i THEN lru[j - 1] ELSE lru[j]
      /\ lru' = [j \in 1 .. NBUF |-> lru'[j]]
  BY Zenon DEF MoveToFront
<1>2. \A j \in 1 .. NBUF : j # 1 /\ j <= i => j - 1 \in 1 .. NBUF
  BY <1>0
<1>3. \A j \in 1 .. NBUF : lru'[j] \in Bufs
  BY <1>1, <1>2, Zenon
<1>4. ASSUME NEW b \in Bufs PROVE \E j \in 1 .. NBUF : lru'[j] = b
  <2>1. PICK j \in 1 .. NBUF : lru[j] = b
    BY Zenon DEF Listed
  <2>2. CASE j = i
    BY <1>0, <1>1, <2>1, <2>2, Zenon
  <2>3. CASE j < i
    <3>1. j + 1 \in 1 .. NBUF /\ j + 1 # 1 /\ j + 1 <= i /\ (j + 1) - 1 = j
      BY <1>0, <2>3
    <3>2. lru'[j + 1] = b
      BY <1>1, <2>1, <3>1, Zenon
    <3> QED BY <3>1, <3>2, Zenon
  <2>4. CASE j > i
    <3>1. j # 1 /\ ~(j <= i)
      BY <1>0, <2>4
    <3> QED BY <1>1, <2>1, <3>1, Zenon
  <2> QED BY <1>0, <2>2, <2>3, <2>4
<1> QED BY <1>1, <1>3, <1>4, Zenon DEF Listed, Bufs

\* brelse() gives the reference back, and the last one moves the buffer.
LEMMA BrelseUnrefKeeps ==
  ASSUME BioInv, NEW p \in Procs, BrelseUnref(p)
  PROVE  BioInv'
<1> USE DEF BioInv
<1>1. /\ UNCHANGED <<avail, used, irq, onDisk, num, free, desc, info, intr, data, bdisk, blockno, idx>>
      /\ UNCHANGED <<valid, locked, pinned>>
      /\ pc[p] = "unref" /\ pc' = [pc EXCEPT ![p] = "idle"]
      /\ refcnt' = [refcnt EXCEPT ![Buf(p)] = @ - 1]
      /\ req' = [req EXCEPT ![p] = [buf |-> None, write |-> FALSE]]
  BY Zenon DEF BrelseUnref, driver, ring, device, chains, Goto
<1>2. PICK b \in Bufs : b = Buf(p)
  BY <1>1, Zenon DEF Places, Shapes, Buf
<1>3. b # None
  BY <1>2, VirtioAssumption, Zenon DEF Bufs
<1>4. pc'[p] = "idle" /\ \A q \in Procs : q # p => pc'[q] = pc[q]
  BY <1>1, Zenon DEF Shapes
<1>5. /\ req'[p].buf = None /\ ~req'[p].write /\ Buf(p)' = None
      /\ \A q \in Procs : q # p => req'[q] = req[q] /\ Buf(q)' = Buf(q)
  BY <1>1, Zenon DEF Shapes, Buf
<1>6. idx[p] = <<>> /\ (\A c \in Bufs : locked[c] # None => locked[c] # p)
  BY <1>1, OutsideRequest, Zenon
<1>7. Requests' /\ Disjoint' /\ Heads'
  <2>1. \A q \in Procs : /\ pc'[q] \in After <=> pc[q] \in After
                         /\ pc'[q] = "rw_asleep" => bdisk[Buf(q)]
                         /\ pc[q] \in After => req'[q] = req[q]
    BY <1>1, <1>4, <1>5, ZenonT(60) DEF After, Heads
  <2> QED BY <1>1, <2>1, DriverKept, Zenon
<1>8. Places'
  <2>1. /\ Buf(p)' = None <=> pc'[p] = "idle"
        /\ Buf(p)' # None => blockno'[Buf(p)'] # None
        /\ idx'[p] # <<>> <=> pc'[p] \in After
        /\ pc'[p] \in Locking => locked'[Buf(p)'] = p
    BY <1>1, <1>4, <1>5, <1>6, Zenon DEF After, Locking
  <2>2. \A q \in Procs : q # p =>
          /\ Buf(q)' = None <=> pc'[q] = "idle"
          /\ Buf(q)' # None => blockno'[Buf(q)'] # None
          /\ idx'[q] # <<>> <=> pc'[q] \in After
          /\ pc'[q] \in Locking => locked'[Buf(q)'] = q
    BY <1>1, <1>4, <1>5, ZenonT(30) DEF Places
  <2> QED BY <2>1, <2>2, Zenon DEF Places
<1>9. Locks'
  <2> SUFFICES ASSUME NEW c \in Bufs, locked[c] # None
               PROVE  pc'[locked[c]] \in Locking /\ Buf(locked[c])' = c
    BY <1>1, Zenon DEF Locks, Bufs, Buf
  <2>1. locked[c] \in Procs /\ locked[c] # p /\ pc[locked[c]] \in Locking /\ Buf(locked[c]) = c
    BY <1>6, Zenon DEF Locks, Shapes
  <2> QED BY <1>1, <1>4, <1>5, <2>1, Zenon DEF Buf
<1>10. Validity'
  <2>1. \A q \in Procs : /\ pc'[q] \in {"have", "release"} => valid'[Buf(q)']
                         /\ pc'[q] \in {"idle", "lock", "lock_asleep", "have"} => ~req'[q].write
                         /\ pc'[q] \in Before \cup After \cup {"rw_ret"} => (req'[q].write <=> valid'[Buf(q)'])
    BY <1>1, <1>4, <1>5, ZenonT(30) DEF Validity, Before, After
  <2> QED BY <1>1, <2>1, Zenon DEF Validity
<1>11. ASSUME NEW c \in Bufs
       PROVE  /\ refcnt'[c] = Cardinality(UsersOf(req', c)) + (IF c \in pinned THEN 1 ELSE 0)
              /\ refcnt'[c] \in Nat
  <2>1. refcnt[c] = Cardinality(UsersOf(req, c)) + (IF c \in pinned THEN 1 ELSE 0)
    BY Zenon DEF ReferencesExact, UsersOf, Buf
  <2>2. CASE c = b
    <3>1. \A q \in Procs : q # p => req[q].buf = req'[q].buf
      BY <1>5, Zenon
    <3>2. Cardinality(UsersOf(req, c)) = Cardinality(UsersOf(req', c)) + 1
      BY <1>2, <1>3, <1>5, <2>2, <3>1, UserJoins, ZenonT(30) DEF Buf
    <3>3. refcnt'[c] = refcnt[c] - 1
      BY <1>1, <1>2, <2>2, Zenon DEF Shapes
    <3> QED BY <2>1, <3>2, <3>3, UsersCount
  <2>3. CASE c # b
    <3>1. UsersOf(req', c) = UsersOf(req, c)
      BY <1>2, <1>5, <2>3, VirtioAssumption, Zenon DEF UsersOf, Buf, Bufs
    <3>2. refcnt'[c] = refcnt[c]
      BY <1>1, <1>2, <2>3, Zenon DEF Shapes
    <3> QED BY <2>1, <3>1, <3>2, UsersCount
  <2> QED BY <2>2, <2>3, Zenon
<1>12. Contents'
  <2>1. \A q \in Procs : (Pending(q)' <=> Pending(q)) /\ (Done(q)' <=> Done(q))
    BY <1>1, <1>4, Zenon DEF Pending, Done, Before, After
  <2>2. \A q \in Procs : Pending(q) \/ Done(q) => q # p
    BY <1>1, Zenon DEF Pending, Done, Before, After
  <2>3. ASSUME NEW x \in Blocks, ~onDisk[x] PROVE Behind(x)'
    <3>1. Behind(x)
      BY <2>3, Zenon DEF Contents
    <3> QED BY <1>1, <1>5, <2>1, <2>2, <3>1, BehindKept, Zenon
  <2>4. \A q \in Procs : Done(q)' => IF req'[q].write THEN onDisk'[blockno'[Buf(q)']] ELSE data'[Buf(q)']
    BY <1>1, <1>5, <2>1, <2>2, Zenon DEF Contents
  <2> QED BY <1>1, <2>3, <2>4, Zenon DEF Contents, Bufs
<1>13. Waiters'
  BY <1>1, <1>4, <1>5, Zenon DEF Waiters
<1>14. Listed' /\ lru' \in [1 .. NBUF -> Bufs]
  <2>1. CASE UNCHANGED lru
    BY <2>1, Zenon DEF Listed, Shapes
  <2>2. CASE \E i \in 1 .. NBUF : lru' = MoveToFront(i)
    BY <2>2, MovedIsListed, Zenon DEF Shapes
  <2> QED BY <2>1, <2>2, Zenon DEF BrelseUnref
<1>15. Shapes'
  <2>1. pc' \in [Procs -> Labels]
    BY <1>1, Zenon DEF Shapes, Labels
  <2>2. req' \in [Procs -> [buf : Bufs \cup {None}, write : BOOLEAN]]
    BY <1>1, Zenon DEF Shapes
  <2>3. refcnt' \in [Bufs -> Nat]
    <3>1. refcnt' = [c \in Bufs |-> refcnt'[c]]
      BY <1>1, Zenon DEF Shapes
    <3> QED BY <1>11, <3>1, Zenon
  <2> QED BY <1>1, <1>14, <2>1, <2>2, <2>3, Zenon DEF Shapes, Ids
<1>16. ReferencesExact'
  BY <1>1, <1>11, Zenon DEF ReferencesExact, UsersOf, Buf, Bufs
<1>17. OneBufferPerBlock'
  BY <1>1, Zenon DEF OneBufferPerBlock
<1> QED BY <1>7, <1>8, <1>9, <1>10, <1>12, <1>13, <1>14, <1>15, <1>16, <1>17, ZenonT(30)

-----------------------------------------------------------------------------
(* virtio_disk_rw(): a request begins and ends.                            *)

\* The descriptors of a request that is under way.
LEMMA RequestDescriptors ==
  ASSUME Shapes, Places, Disjoint, NEW q \in Procs, pc[q] \in After
  PROVE  /\ idx[q] # <<>> /\ Taken(q) = {idx[q][1], idx[q][2], idx[q][3]}
         /\ idx[q][1] \in Ids /\ idx[q][2] \in Ids /\ idx[q][3] \in Ids
         /\ idx[q][1] \notin free /\ idx[q][2] \notin free /\ idx[q][3] \notin free
<1>1. idx[q] # <<>> /\ idx[q] \in Ids \X Ids \X Ids
  BY Zenon DEF Places, Shapes
<1>2. Taken(q) = {idx[q][1], idx[q][2], idx[q][3]}
  BY <1>1, Zenon DEF Taken
<1>3. idx[q][1] \in Ids /\ idx[q][2] \in Ids /\ idx[q][3] \in Ids
  BY <1>1, Zenon
<1> QED BY <1>1, <1>2, <1>3, Zenon DEF Disjoint

\* A new request takes free descriptors; its head goes into the avail ring.
LEMMA RwSubmitKeeps ==
  ASSUME BioInv, NEW p \in Procs, RwSubmit(p), UNCHANGED bufState
  PROVE  BioInv'
<1> USE DEF BioInv
<1>1. /\ UNCHANGED <<used, irq, onDisk, num, intr, data, blockno, req>>
      /\ UNCHANGED <<valid, refcnt, locked, lru, pinned>>
      /\ pc[p] = "rw" /\ pc' = [pc EXCEPT ![p] = "rw_asleep"]
      /\ bdisk' = [bdisk EXCEPT ![Buf(p)] = TRUE]
      /\ \A q : Buf(q)' = Buf(q)
  BY Zenon DEF RwSubmit, device, bufState, Goto, Buf
<1>2. PICK i \in free, j \in free, k \in free :
        /\ Alloc3Desc(i, j, k)
        /\ idx' = [idx EXCEPT ![p] = <<i, j, k>>]
        /\ free' = free \ {i, j, k}
        /\ desc' = [desc EXCEPT
             ![i] = [addr |-> <<req[p].write, blockno[req[p].buf]>>, more |-> TRUE, next |-> j],
             ![j] = [addr |-> req[p].buf, more |-> TRUE, next |-> k],
             ![k] = [addr |-> "status", more |-> FALSE, next |-> 0]]
        /\ info' = [info EXCEPT ![i] = req[p].buf]
        /\ avail' = avail \cup {i}
  BY Zenon DEF RwSubmit
<1>3. i \in Ids /\ j \in Ids /\ k \in Ids /\ i # j /\ j # k /\ i # k
  <2>1. i \in Ids /\ j \in Ids /\ k \in Ids
    BY Zenon DEF Shapes
  <2> QED BY <1>2, <2>1 DEF Alloc3Desc, Ids, Shapes
<1>4. pc'[p] = "rw_asleep" /\ \A q \in Procs : q # p => pc'[q] = pc[q]
  BY <1>1, Zenon DEF Shapes
<1>5. /\ desc'[i] = [addr |-> <<req[p].write, blockno[Buf(p)]>>, more |-> TRUE, next |-> j]
      /\ desc'[j] = [addr |-> Buf(p), more |-> TRUE, next |-> k]
      /\ ~desc'[k].more
      /\ \A x \in Ids : x \notin {i, j, k} => desc'[x] = desc[x]
      /\ desc' = [x \in Ids |-> desc'[x]]
  BY <1>2, <1>3, Zenon DEF Shapes, Buf
<1>6. /\ info'[i] = Buf(p) /\ \A x \in Ids : x # i => info'[x] = info[x]
      /\ info' \in [Ids -> Bufs \cup {None}]
  BY <1>2, <1>3, Zenon DEF Shapes, Buf
<1>7. /\ idx'[p] = <<i, j, k>> /\ idx'[p][1] = i /\ idx'[p][2] = j /\ idx'[p][3] = k /\ idx'[p] # <<>>
      /\ \A q \in Procs : q # p => idx'[q] = idx[q]
  BY <1>2, Zenon DEF Shapes
<1>8. /\ Buf(p) \in Bufs
      /\ \A q \in Procs : q # p /\ pc[q] \in Locking => Buf(q) \in Bufs /\ Buf(q) # Buf(p)
  BY <1>1, HolderAlone, Zenon DEF Locking
<1>9. bdisk'[Buf(p)] /\ \A c \in Bufs : c # Buf(p) => bdisk'[c] = bdisk[c]
  BY <1>1, <1>8, Zenon DEF Shapes
<1>10. \A q \in Procs : pc[q] \in After =>
         /\ q # p /\ Buf(q) \in Bufs /\ bdisk'[Buf(q)] = bdisk[Buf(q)]
         /\ idx[q][1] \in Ids \ {i, j, k} /\ idx[q][2] \in Ids \ {i, j, k} /\ idx[q][3] \in Ids \ {i, j, k}
  <2>1. \A q \in Procs : pc[q] \in After => q # p /\ pc[q] \in Locking
    BY <1>1, Zenon DEF After, Locking
  <2>2. \A q \in Procs : pc[q] \in After =>
          idx[q][1] \in Ids \ {i, j, k} /\ idx[q][2] \in Ids \ {i, j, k} /\ idx[q][3] \in Ids \ {i, j, k}
    BY RequestDescriptors, Zenon
  <2> QED BY <1>8, <1>9, <2>1, <2>2, Zenon
<1>11. \A q \in Procs : pc'[q] \in After <=> pc[q] \in After \/ q = p
  BY <1>4, Zenon DEF After
<1>12. Requests'
  <2>1. ASSUME NEW q \in Procs, pc'[q] \in After
        PROVE  /\ idx'[q][1] # idx'[q][2] /\ idx'[q][2] # idx'[q][3] /\ idx'[q][1] # idx'[q][3]
               /\ desc'[idx'[q][1]] =
                    [addr |-> <<req[q].write, blockno[Buf(q)]>>, more |-> TRUE, next |-> idx'[q][2]]
               /\ desc'[idx'[q][2]] = [addr |-> Buf(q), more |-> TRUE, next |-> idx'[q][3]]
               /\ ~desc'[idx'[q][3]].more
               /\ info'[idx'[q][1]] = Buf(q)
    <3>1. CASE q = p
      BY <1>3, <1>5, <1>6, <1>7, <3>1, Zenon
    <3>2. CASE q # p
      <4>1. pc[q] \in After /\ idx'[q] = idx[q]
        BY <1>7, <1>11, <2>1, <3>2, Zenon
      <4>2. /\ desc'[idx[q][1]] = desc[idx[q][1]] /\ desc'[idx[q][2]] = desc[idx[q][2]]
            /\ desc'[idx[q][3]] = desc[idx[q][3]] /\ info'[idx[q][1]] = info[idx[q][1]]
        BY <1>5, <1>6, <1>10, <4>1, Zenon
      <4> QED BY <4>1, <4>2, ZenonT(30) DEF Requests
    <3> QED BY <3>1, <3>2, Zenon
  <2> QED BY <1>1, <2>1, Zenon DEF Requests
<1>13. Disjoint'
  <2>1. Taken(p)' = {i, j, k} /\ \A q \in Procs : q # p => Taken(q)' = Taken(q)
    BY <1>7, Zenon DEF Taken
  <2>2. Taken(p) = {}
    BY <1>1, Zenon DEF Taken, Places, After
  <2>3. \A q \in Procs : i \notin Taken(q) /\ j \notin Taken(q) /\ k \notin Taken(q)
    BY Zenon DEF Disjoint
  <2>4. \A q, r \in Procs : q # r => Taken(q)' \cap Taken(r)' = {}
    BY <2>1, <2>3 DEF Disjoint
  <2>5. \A x : x \in free' <=> x \in Ids /\ \A q \in Procs : x \notin Taken(q)'
    BY <1>2, <2>1, <2>2, ZenonT(60) DEF Disjoint
  <2>6. free' = {x \in Ids' : \A q \in Procs : x \notin Taken(q)'}
    BY <1>1, <2>5, Zenon DEF Ids
  <2> QED BY <2>4, <2>6, Zenon DEF Disjoint
<1>14. i \notin avail /\ ~Occurs(i, used)
  BY <1>3, <1>10, Zenon DEF Heads
<1>15. \A x : Occurs(x, used') <=> Occurs(x, used)
  BY <1>1, Zenon DEF Occurs
<1>16. Heads'
  <2>1. \A x \in avail' : ~Occurs(x, used)
    BY <1>2, <1>14, Zenon DEF Heads
  <2>2. ASSUME NEW x \in Ids, x \in avail' \/ Occurs(x, used)
        PROVE  \E q \in Procs : pc'[q] \in After /\ idx'[q][1] = x /\ bdisk'[Buf(q)]
    <3>1. CASE x = i
      BY <1>7, <1>9, <1>11, <3>1, Zenon
    <3>2. CASE x # i
      <4>1. PICK q \in Procs : pc[q] \in After /\ idx[q][1] = x /\ bdisk[Buf(q)]
        BY <1>2, <2>2, <3>2, Zenon DEF Heads
      <4> QED BY <1>7, <1>10, <1>11, <4>1, Zenon
    <3> QED BY <3>1, <3>2, Zenon
  <2>3. ASSUME NEW q \in Procs, pc'[q] \in After, bdisk'[Buf(q)]
        PROVE  idx'[q][1] \in avail' \/ Occurs(idx'[q][1], used)
    <3>1. CASE q = p
      <4>1. idx'[q][1] = i
        BY <1>7, <3>1, ZenonT(60)
      <4>2. i \in avail'
        BY <1>2, ZenonT(60)
      <4> QED BY <4>1, <4>2, Zenon
    <3>2. CASE q # p
      BY <1>2, <1>7, <1>10, <1>11, <2>3, <3>2, SMTT(30), Z3T(30) DEF Heads
    <3> QED BY <3>1, <3>2, ZenonT(30)
  <2>4. \A q \in Procs : pc'[q] = "rw_asleep" => bdisk'[Buf(q)]
    BY <1>4, <1>9, <1>10, ZenonT(30) DEF Heads, After
  <2> QED BY <1>1, <1>15, <2>1, <2>2, <2>3, <2>4, SMTT(30), Z3T(30) DEF Heads, Ids
<1>17. Places'
  <2>1. \A q \in Procs : /\ pc'[q] = "idle" <=> pc[q] = "idle"
                         /\ pc'[q] \in Locking <=> pc[q] \in Locking
                         /\ idx'[q] # <<>> <=> pc'[q] \in After
    BY <1>1, <1>4, <1>7, <1>11, ZenonT(30) DEF Locking, Places
  <2> QED BY <1>1, <2>1, Zenon DEF Places
<1>18. Locks'
  <2> SUFFICES ASSUME NEW c \in Bufs, locked[c] # None
               PROVE  pc'[locked[c]] \in Locking /\ Buf(locked[c]) = c
    BY <1>1, Zenon DEF Locks, Bufs
  <2>1. locked[c] \in Procs /\ pc[locked[c]] \in Locking /\ Buf(locked[c]) = c
    BY Zenon DEF Locks, Shapes
  <2> QED BY <1>4, <2>1, Zenon DEF Locking
<1>19. Validity'
  <2>1. \A q \in Procs :
           /\ pc'[q] \in {"have", "release"} => valid[Buf(q)]
           /\ pc'[q] \in {"idle", "lock", "lock_asleep", "have"} => ~req[q].write
           /\ pc'[q] \in Before \cup After \cup {"rw_ret"} => (req[q].write <=> valid[Buf(q)])
    BY <1>1, <1>4, Zenon DEF Validity, Before, After
  <2> QED BY <1>1, <2>1, Zenon DEF Validity
<1>20. Contents'
  <2>1. \A q \in Procs : (Done(q)' <=> Done(q)) /\ (Pending(q)' <=> Pending(q))
    <3>1. Pending(p) /\ Pending(p)' /\ ~Done(p) /\ ~Done(p)'
      BY <1>1, <1>2, <1>4, <1>7, SMTT(30) DEF Pending, Done, Before, After
    <3>2. \A q \in Procs : q # p => (Done(q)' <=> Done(q)) /\ (Pending(q)' <=> Pending(q))
      <4>1. \A q \in Procs : q # p /\ pc[q] \in After => (idx'[q][1] \in avail' <=> idx[q][1] \in avail)
        BY <1>2, <1>7, <1>10, SMTT(30)
      <4> QED BY <1>4, <4>1, ZenonT(30) DEF Pending, Done
    <3> QED BY <3>1, <3>2, ZenonT(30)
  <2>2. ASSUME NEW x \in Blocks, ~onDisk[x] PROVE Behind(x)'
    <3>1. Behind(x)
      BY <2>2, Zenon DEF Contents
    <3> QED BY <1>1, <2>1, <3>1, BehindKept, Zenon
  <2> QED BY <1>1, <2>1, <2>2, Zenon DEF Contents, Bufs
<1>21. Waiters'
  <2>1. \A q \in Procs : pc'[q] = "desc_asleep" => Cardinality(free') < 3
    <3>1. free' \subseteq free /\ IsFiniteSet(free)
      <4>1. IsFiniteSet(Ids) /\ free \subseteq Ids
        <5>1. 0 \in Int /\ num - 1 \in Int
          BY DEF Shapes
        <5>2. IsFiniteSet(0 .. num - 1)
          BY <5>1, FS_Interval, Zenon
        <5> QED BY <5>2, Zenon DEF Ids, Shapes
      <4> QED BY <1>2, <4>1, FS_Subset, Zenon
    <3>2. Cardinality(free') <= Cardinality(free) /\ Cardinality(free) \in Nat /\ Cardinality(free') \in Nat
      BY <3>1, FS_Subset, FS_CardinalityType, Zenon
    <3> QED BY <1>4, <3>2 DEF Waiters
  <2> QED BY <1>1, <1>4, <2>1, Zenon DEF Waiters
<1>22. Shapes'
  <2>1. pc' \in [Procs -> Labels] /\ bdisk' \in [Bufs -> BOOLEAN]
    BY <1>1, Zenon DEF Shapes, Labels
  <2>2. idx' \in [Procs -> {<<>>} \cup (Ids \X Ids \X Ids)]
    BY <1>2, <1>3, Zenon DEF Shapes
  <2>3. free' \in SUBSET Ids /\ avail' \in SUBSET Ids
    BY <1>2, <1>3, Zenon DEF Shapes
  <2>4. Ids' = Ids
    BY <1>1, Zenon DEF Ids
  <2> QED BY <1>1, <1>5, <1>6, <2>1, <2>2, <2>3, <2>4, ZenonT(30) DEF Shapes
<1>23. ReferencesExact' /\ OneBufferPerBlock' /\ Listed'
  BY <1>1, Zenon DEF ReferencesExact, OneBufferPerBlock, Listed
<1> QED BY <1>12, <1>13, <1>16, <1>17, <1>18, <1>19, <1>20, <1>21, <1>22, <1>23, Zenon

\* free_chain() follows the descriptors of a request to the end.
LEMMA ChainIsTaken ==
  ASSUME Shapes, Places, Disjoint, Requests, NEW q \in Procs, pc[q] \in After
  PROVE  Chain(idx[q][1]) = Taken(q)
<1>1. Taken(q) = {idx[q][1], idx[q][2], idx[q][3]}
  BY RequestDescriptors, Zenon
<1>2. /\ desc[idx[q][1]].more /\ desc[idx[q][1]].next = idx[q][2]
      /\ desc[idx[q][2]].more /\ desc[idx[q][2]].next = idx[q][3]
  <2>1. /\ desc[idx[q][1]] = [addr |-> <<req[q].write, blockno[Buf(q)]>>, more |-> TRUE, next |-> idx[q][2]]
        /\ desc[idx[q][2]] = [addr |-> Buf(q), more |-> TRUE, next |-> idx[q][3]]
    BY Zenon DEF Requests
  <2> QED BY <2>1
<1> QED BY <1>1, <1>2, Zenon DEF Chain

\* The caller finds its request done and frees its three descriptors.
LEMMA RwFinishKeeps ==
  ASSUME BioInv, NEW p \in Procs, RwFinish(p), UNCHANGED bufState
  PROVE  BioInv'
<1> USE DEF BioInv
<1>1. /\ UNCHANGED <<avail, used, irq, onDisk, num, intr, data, bdisk, blockno, req>>
      /\ UNCHANGED <<valid, refcnt, locked, lru, pinned>>
      /\ pc[p] = "rw_woken" /\ pc[p] \in After /\ ~bdisk[Buf(p)]
      /\ \A q : Buf(q)' = Buf(q)
      /\ idx' = [idx EXCEPT ![p] = <<>>]
      /\ info' = [info EXCEPT ![idx[p][1]] = None]
  BY Zenon DEF RwFinish, ring, device, bufState, Buf, After
<1>2. /\ free' = free \cup Taken(p)
      /\ desc' = [x \in Ids |-> IF x \in Taken(p) THEN FreeDesc ELSE desc[x]]
  <2>1. Chain(idx[p][1]) = Taken(p)
    BY <1>1, ChainIsTaken, Zenon
  <2> QED BY <2>1, Zenon DEF RwFinish
<1>3. /\ pc'[p] = "rw_ret"
      /\ \A q \in Procs : q # p => \/ pc'[q] = pc[q] /\ pc[q] # "desc_asleep"
                                   \/ pc[q] = "desc_asleep" /\ pc'[q] = "rw"
  BY Zenon DEF RwFinish, GotoWakeFree
<1>4. idx'[p] = <<>> /\ \A q \in Procs : q # p => idx'[q] = idx[q]
  BY <1>1, Zenon DEF Shapes
<1>5. idx[p][1] \in Taken(p) /\ Taken(p) \subseteq Ids
  BY <1>1, RequestDescriptors, Zenon
<1>6. \A q \in Procs : pc'[q] \in After <=> pc[q] \in After /\ q # p
  BY <1>3, Zenon DEF After
<1>7. \A q \in Procs : pc'[q] \in After =>
        /\ idx'[q] = idx[q]
        /\ desc'[idx[q][1]] = desc[idx[q][1]] /\ desc'[idx[q][2]] = desc[idx[q][2]]
        /\ desc'[idx[q][3]] = desc[idx[q][3]] /\ info'[idx[q][1]] = info[idx[q][1]]
  <2> SUFFICES ASSUME NEW q \in Procs, pc[q] \in After, q # p
               PROVE  /\ desc'[idx[q][1]] = desc[idx[q][1]] /\ desc'[idx[q][2]] = desc[idx[q][2]]
                      /\ desc'[idx[q][3]] = desc[idx[q][3]] /\ info'[idx[q][1]] = info[idx[q][1]]
    BY <1>4, <1>6, Zenon
  <2>1. /\ Taken(q) = {idx[q][1], idx[q][2], idx[q][3]}
        /\ idx[q][1] \in Ids /\ idx[q][2] \in Ids /\ idx[q][3] \in Ids
    BY RequestDescriptors, Zenon
  <2>2. idx[q][1] \notin Taken(p) /\ idx[q][2] \notin Taken(p) /\ idx[q][3] \notin Taken(p)
    BY <2>1, Zenon DEF Disjoint
  <2>3. info'[idx[q][1]] = info[idx[q][1]]
    BY <1>1, <1>5, <2>1, <2>2, ZenonT(60) DEF Shapes
  <2> QED BY <1>2, <2>1, <2>2, <2>3, Zenon
<1>8. Requests'
  <2>1. \A q \in Procs : pc'[q] \in After => pc[q] \in After
    BY <1>6, Zenon
  <2> QED BY <1>1, <1>7, <2>1, SMTT(30) DEF Requests
<1>9. Disjoint'
  <2>1. Taken(p)' = {} /\ \A q \in Procs : q # p => Taken(q)' = Taken(q)
    BY <1>4, Zenon DEF Taken
  <2>2. \A q, r \in Procs : q # r => Taken(q)' \cap Taken(r)' = {}
    BY <2>1, Zenon DEF Disjoint
  <2>3. \A x : x \in free' <=> x \in Ids /\ \A q \in Procs : x \notin Taken(q)'
    BY <1>2, <1>5, <2>1, ZenonT(30) DEF Disjoint
  <2>4. free' = {x \in Ids' : \A q \in Procs : x \notin Taken(q)'}
    BY <1>1, <2>3, Zenon DEF Ids
  <2> QED BY <2>2, <2>4, Zenon DEF Disjoint
<1>10. idx[p][1] \notin avail /\ ~Occurs(idx[p][1], used)
  <2>1. SUFFICES ASSUME idx[p][1] \in avail \/ Occurs(idx[p][1], used) PROVE FALSE
    OBVIOUS
  <2>2. PICK q \in Procs : pc[q] \in After /\ idx[q][1] = idx[p][1] /\ bdisk[Buf(q)]
    BY <1>5, <2>1, Zenon DEF Heads
  <2>3. q = p
    BY <1>1, <2>2, HeadIsOne, ZenonT(30)
  <2> QED BY <1>1, <2>2, <2>3, Zenon
<1>11. Heads'
  <2>1. \A x : Occurs(x, used') <=> Occurs(x, used)
    BY <1>1, Zenon DEF Occurs
  <2>2. \A x \in Ids : x \in avail \/ Occurs(x, used) =>
          \E q \in Procs : pc'[q] \in After /\ idx'[q][1] = x /\ bdisk[Buf(q)]
    <3> SUFFICES ASSUME NEW x \in Ids, x \in avail \/ Occurs(x, used)
                 PROVE  \E q \in Procs : pc'[q] \in After /\ idx'[q][1] = x /\ bdisk[Buf(q)]
      OBVIOUS
    <3>1. PICK q \in Procs : pc[q] \in After /\ idx[q][1] = x /\ bdisk[Buf(q)]
      BY Zenon DEF Heads
    <3>2. q # p
      BY <1>1, <3>1, Zenon
    <3> QED BY <1>6, <1>7, <3>1, <3>2, ZenonT(30)
  <2>3. \A q \in Procs : pc'[q] \in After /\ bdisk[Buf(q)] =>
          idx'[q][1] \in avail \/ Occurs(idx'[q][1], used)
    BY <1>6, <1>7, Zenon DEF Heads
  <2>4. \A q \in Procs : pc'[q] = "rw_asleep" => bdisk[Buf(q)]
    BY <1>3, Zenon DEF Heads
  <2> QED BY <1>1, <2>1, <2>2, <2>3, <2>4, SMTT(30) DEF Heads, Ids
<1>12. Places'
  <2>1. \A q \in Procs : /\ pc'[q] = "idle" <=> pc[q] = "idle"
                         /\ pc'[q] \in Locking <=> pc[q] \in Locking
    BY <1>1, <1>3, Zenon DEF Locking
  <2>2. \A q \in Procs : idx'[q] # <<>> <=> pc'[q] \in After
    BY <1>4, <1>6, Zenon DEF Places
  <2> QED BY <1>1, <2>1, <2>2, Zenon DEF Places
<1>13. Locks'
  <2> SUFFICES ASSUME NEW c \in Bufs, locked[c] # None
               PROVE  pc'[locked[c]] \in Locking /\ Buf(locked[c]) = c
    BY <1>1, Zenon DEF Locks, Bufs
  <2>1. locked[c] \in Procs /\ pc[locked[c]] \in Locking /\ Buf(locked[c]) = c
    BY Zenon DEF Locks, Shapes
  <2> QED BY <1>3, <2>1, Zenon DEF Locking
<1>14. Validity'
  <2>1. \A q \in Procs :
           /\ pc'[q] \in {"have", "release"} => valid[Buf(q)]
           /\ pc'[q] \in {"idle", "lock", "lock_asleep", "have"} => ~req[q].write
           /\ pc'[q] \in Before \cup After \cup {"rw_ret"} => (req[q].write <=> valid[Buf(q)])
    BY <1>1, <1>3, Zenon DEF Validity, Before, After
  <2> QED BY <1>1, <2>1, Zenon DEF Validity
<1>15. Contents'
  <2>1. \A q \in Procs : (Done(q)' <=> Done(q)) /\ (Pending(q)' <=> Pending(q))
    <3>1. ~Pending(p) /\ ~Pending(p)' /\ Done(p) /\ Done(p)'
      BY <1>1, <1>3, <1>10, ZenonT(30) DEF Pending, Done, Before, After
    <3>2. \A q \in Procs : q # p => (Done(q)' <=> Done(q)) /\ (Pending(q)' <=> Pending(q))
      <4>1. \A q \in Procs : q # p => /\ pc'[q] \in After <=> pc[q] \in After
                                      /\ pc'[q] \in Before <=> pc[q] \in Before
                                      /\ pc'[q] = "rw_ret" <=> pc[q] = "rw_ret"
        BY <1>3, Zenon DEF Before, After
      <4> QED BY <1>1, <1>4, <4>1 DEF Pending, Done
    <3> QED BY <3>1, <3>2, Zenon
  <2>2. ASSUME NEW x \in Blocks, ~onDisk[x] PROVE Behind(x)'
    <3>1. Behind(x)
      BY <2>2, Zenon DEF Contents
    <3> QED BY <1>1, <2>1, <3>1, BehindKept, Zenon
  <2> QED BY <1>1, <2>1, <2>2, Zenon DEF Contents, Bufs
<1>16. Waiters'
  BY <1>1, <1>3, Zenon DEF Waiters
<1>17. Shapes'
  <2>1. pc' \in [Procs -> Labels]
    BY Zenon DEF RwFinish, GotoWakeFree, Shapes, Labels
  <2>2. idx' \in [Procs -> {<<>>} \cup (Ids \X Ids \X Ids)] /\ info' \in [Ids -> Bufs \cup {None}]
    BY <1>1, Zenon DEF Shapes
  <2>3. free' \in SUBSET Ids /\ desc' = [x \in Ids |-> desc'[x]]
    BY <1>2, <1>5, Zenon DEF Shapes
  <2>4. Ids' = Ids
    BY <1>1, Zenon DEF Ids
  <2> QED BY <1>1, <2>1, <2>2, <2>3, <2>4, Zenon DEF Shapes
<1>18. ReferencesExact' /\ OneBufferPerBlock' /\ Listed'
  BY <1>1, ZenonT(30) DEF ReferencesExact, OneBufferPerBlock, Listed
<1> QED BY <1>8, <1>9, <1>11, <1>12, <1>13, <1>14, <1>15, <1>16, <1>17, <1>18, ZenonT(30)

-----------------------------------------------------------------------------
(* The device.                                                             *)

\* A used entry is added behind the others.
LEMMA AppendEntries ==
  ASSUME NEW S, NEW s \in Seq(S), NEW h \in S
  PROVE  /\ Append(s, h) \in Seq(S) /\ Len(Append(s, h)) = Len(s) + 1 /\ Len(s) \in Nat
         /\ \A n \in 1 .. Len(s) : Append(s, h)[n] = s[n] /\ n \in 1 .. Len(s) + 1
         /\ Append(s, h)[Len(s) + 1] = h /\ Len(s) + 1 \in 1 .. Len(s) + 1
OBVIOUS

\* The entries after the device has added h.
LEMMA OccursAppend ==
  ASSUME NEW S, NEW s \in Seq(S), NEW h \in S, NEW x
  PROVE  Occurs(x, Append(s, h)) <=> Occurs(x, s) \/ x = h
<1>1. ASSUME Occurs(x, Append(s, h)), x # h PROVE Occurs(x, s)
  <2>1. PICK n \in 1 .. Len(s) + 1 : Append(s, h)[n] = x
    BY <1>1, AppendEntries, ZenonT(30) DEF Occurs
  <2>2. n # Len(s) + 1
    BY <1>1, <2>1, AppendEntries
  <2>3. n \in 1 .. Len(s)
    BY <2>2, AppendEntries
  <2> QED BY <2>1, <2>3, AppendEntries DEF Occurs
<1>2. ASSUME Occurs(x, s) PROVE Occurs(x, Append(s, h))
  <2>1. PICK n \in 1 .. Len(s) : s[n] = x
    BY <1>2, Zenon DEF Occurs
  <2> QED BY <2>1, AppendEntries DEF Occurs
<1>3. Occurs(h, Append(s, h))
  BY AppendEntries DEF Occurs
<1> QED BY <1>1, <1>2, <1>3, Zenon

\* The entries stay different.
LEMMA AppendDifferent ==
  ASSUME NEW S, NEW s \in Seq(S), NEW h \in S, ~Occurs(h, s),
         \A m, n \in 1 .. Len(s) : s[m] = s[n] => m = n
  PROVE  \A m, n \in 1 .. Len(Append(s, h)) : Append(s, h)[m] = Append(s, h)[n] => m = n
<1> SUFFICES ASSUME NEW m \in 1 .. Len(s) + 1, NEW n \in 1 .. Len(s) + 1,
                    Append(s, h)[m] = Append(s, h)[n]
             PROVE  m = n
  BY AppendEntries
<1>1. \A i \in 1 .. Len(s) + 1 : i \in 1 .. Len(s) \/ i = Len(s) + 1
  BY AppendEntries
<1>2. \A i \in 1 .. Len(s) : Append(s, h)[i] # h
  BY AppendEntries DEF Occurs
<1>3. CASE m \in 1 .. Len(s) /\ n \in 1 .. Len(s)
  BY <1>3, AppendEntries
<1>4. CASE m = Len(s) + 1 \/ n = Len(s) + 1
  BY <1>1, <1>2, <1>4, AppendEntries
<1> QED BY <1>1, <1>3, <1>4, Zenon

\* The device carries out a request: it writes the last content, or reads it,
\* for no buffer is ahead of a block that is read.
LEMMA DeviceKeeps ==
  ASSUME BioInv, NEW h \in Ids, DeviceComplete(h), UNCHANGED bufState
  PROVE  BioInv'
<1> USE DEF BioInv
<1>1. /\ UNCHANGED <<num, free, desc, info, intr, bdisk, blockno, pc, req, idx>>
      /\ UNCHANGED <<valid, refcnt, locked, lru, pinned>>
      /\ h \in avail /\ used' = Append(used, h) /\ irq' = TRUE /\ avail' = avail \ {h}
      /\ \A q : Buf(q)' = Buf(q)
  BY Zenon DEF DeviceComplete, bufState, Buf
<1>2. PICK o \in Procs : pc[o] \in After /\ idx[o][1] = h /\ bdisk[Buf(o)]
  BY <1>1, Zenon DEF Heads
<1>3. desc[h].addr = <<req[o].write, blockno[Buf(o)]>> /\ desc[desc[h].next].addr = Buf(o)
  <2>1. /\ desc[h] = [addr |-> <<req[o].write, blockno[Buf(o)]>>, more |-> TRUE, next |-> idx[o][2]]
        /\ desc[idx[o][2]] = [addr |-> Buf(o), more |-> TRUE, next |-> idx[o][3]]
    BY <1>2, Zenon DEF Requests
  <2> QED BY <2>1
<1>4. /\ Buf(o) \in Bufs /\ blockno[Buf(o)] \in Blocks
      /\ \A q \in Procs : q # o /\ pc[q] \in Locking =>
              /\ Buf(q) \in Bufs /\ Buf(q) # Buf(o)
              /\ blockno[Buf(q)] \in Blocks /\ blockno[Buf(q)] # blockno[Buf(o)]
  <2>1. pc[o] \in Locking
    BY <1>2, Zenon DEF After, Locking
  <2> QED BY <2>1, HolderAlone, Zenon
<1>5. req[o].write <=> valid[Buf(o)]
  BY <1>2, ZenonT(30) DEF Validity
<1>6. IF req[o].write
        THEN onDisk' = [onDisk EXCEPT ![blockno[Buf(o)]] = data[Buf(o)]] /\ UNCHANGED data
        ELSE data' = [data EXCEPT ![Buf(o)] = onDisk[blockno[Buf(o)]]] /\ UNCHANGED onDisk
  BY <1>3 DEF DeviceComplete
<1>7. req[o].write => data[Buf(o)]
  BY <1>4, <1>5, Zenon DEF Contents
<1>8. ~req[o].write => onDisk[blockno[Buf(o)]]
  <2> SUFFICES ASSUME ~req[o].write, ~onDisk[blockno[Buf(o)]] PROVE FALSE
    OBVIOUS
  <2>1. Behind(blockno[Buf(o)])
    BY <1>4, Zenon DEF Contents
  <2>2. PICK c \in Bufs : blockno[c] = blockno[Buf(o)] /\ valid[c]
    BY <2>1, Zenon DEF Behind
  <2>3. c = Buf(o)
    BY <1>4, <2>2, VirtioAssumption, Zenon DEF OneBufferPerBlock
  <2> QED BY <1>5, <2>2, <2>3, ZenonT(30)
<1>9. /\ onDisk' \in [Blocks -> BOOLEAN] /\ data' \in [Bufs -> BOOLEAN]
      /\ \A x \in Blocks : onDisk[x] => onDisk'[x]
      /\ \A c \in Bufs : data[c] => data'[c]
      /\ req[o].write => onDisk'[blockno[Buf(o)]]
      /\ ~req[o].write => data'[Buf(o)]
  <2>1. CASE req[o].write
    BY <1>4, <1>6, <1>7, <2>1, ZenonT(60) DEF Shapes
  <2>2. CASE ~req[o].write
    BY <1>4, <1>6, <1>8, <2>2, ZenonT(60) DEF Shapes
  <2> QED BY <2>1, <2>2, Zenon
<1>10. \A q \in Procs : q # o /\ pc[q] \in After => idx[q][1] # h
  BY <1>2, HeadIsOne, Zenon
<1>11. used \in Seq(Ids) /\ ~Occurs(h, used)
  BY <1>1, Zenon DEF Shapes, Heads
<1>12. \A x : Occurs(x, used') <=> Occurs(x, used) \/ x = h
  BY <1>1, <1>11, OccursAppend, Zenon
<1>13. Heads'
  <2>1. \A m, n \in 1 .. Len(used') : used'[m] = used'[n] => m = n
    <3>1. \A m, n \in 1 .. Len(used) : used[m] = used[n] => m = n
      BY Zenon DEF Heads
    <3>2. \A m, n \in 1 .. Len(Append(used, h)) : Append(used, h)[m] = Append(used, h)[n] => m = n
      BY <1>11, <3>1, AppendDifferent, Zenon
    <3> QED BY <1>1, <3>2, Zenon
  <2>2. \A x \in avail' : ~Occurs(x, used')
    BY <1>1, <1>12, Zenon DEF Heads
  <2>3. \A x \in Ids : x \in avail' \/ Occurs(x, used') =>
          \E q \in Procs : pc[q] \in After /\ idx[q][1] = x /\ bdisk[Buf(q)]
    <3>1. \A x : x \in avail' \/ Occurs(x, used') => x \in avail \/ Occurs(x, used)
      BY <1>1, <1>12, Zenon
    <3> QED BY <3>1, Zenon DEF Heads
  <2>4. \A q \in Procs : pc[q] \in After /\ bdisk[Buf(q)] => idx[q][1] \in avail' \/ Occurs(idx[q][1], used')
    BY <1>1, <1>12, Zenon DEF Heads
  <2>5. \A q \in Procs : pc[q] = "rw_asleep" => bdisk[Buf(q)]
    BY Zenon DEF Heads
  <2> QED BY <1>1, <2>1, <2>2, <2>3, <2>4, <2>5, ZenonT(60) DEF Heads, Ids
<1>14. \A q \in Procs : SamePhase(q)
  BY <1>1, Zenon DEF SamePhase
<1>15. Places' /\ Locks' /\ Validity' /\ ReferencesExact' /\ OneBufferPerBlock' /\ Listed'
  BY <1>1, <1>14, UsersKept, Zenon DEF Shapes, bufState
<1>16. Requests' /\ Disjoint'
  BY <1>1, ZenonT(30) DEF Requests, Disjoint, Taken, Ids
<1>17. Contents'
  <2>1. \A q \in Procs : q # o => (Done(q)' <=> Done(q)) /\ (Pending(q)' <=> Pending(q))
    BY <1>1, <1>10, Zenon DEF Pending, Done
  <2>2. ASSUME NEW x \in Blocks, ~onDisk'[x] PROVE Behind(x)'
    <3>1. ~onDisk[x] /\ ~(req[o].write /\ x = blockno[Buf(o)])
      BY <1>9, <2>2, Zenon
    <3>2. Behind(x)
      BY <3>1, Zenon DEF Contents
    <3>3. \A q \in Procs : Pending(q) /\ req[q].write /\ blockno[Buf(q)] = x => Pending(q)'
      BY <2>1, <3>1, Zenon
    <3> QED BY <1>1, <3>2, <3>3, BehindKept, Zenon
  <2>3. ASSUME NEW q \in Procs, Done(q)'
        PROVE  IF req[q].write THEN onDisk'[blockno[Buf(q)]] ELSE data'[Buf(q)]
    <3>1. CASE q = o
      BY <1>9, <3>1, Zenon
    <3>2. CASE q # o
      <4>1. Done(q)
        BY <2>1, <2>3, <3>2, Zenon
      <4>2. pc[q] \in Locking
        BY <4>1, Zenon DEF Done, After, Locking
      <4>3. IF req[q].write THEN onDisk[blockno[Buf(q)]] ELSE data[Buf(q)]
        BY <4>1, Zenon DEF Contents
      <4> QED BY <1>4, <1>9, <3>2, <4>2, <4>3, ZenonT(60)
    <3> QED BY <3>1, <3>2, Zenon
  <2>4. \A c \in Bufs : valid[c] => data'[c]
    BY <1>9, Zenon DEF Contents
  <2> QED BY <1>1, <2>2, <2>3, <2>4, Zenon DEF Contents, Bufs
<1>18. Waiters'
  BY <1>1, Zenon DEF Waiters
<1>19. Shapes'
  <2>1. used' \in Seq(Ids) /\ avail' \in SUBSET Ids
    BY <1>1, <1>11, AppendEntries, Zenon DEF Shapes
  <2> QED BY <1>1, <1>9, <2>1, Zenon DEF Shapes, Ids
<1> QED BY <1>13, <1>15, <1>16, <1>17, <1>18, <1>19, Zenon

-----------------------------------------------------------------------------
(* The whole disk: binit() and virtio_disk_init(), then every step.        *)

\* At the start every descriptor is free and no buffer is used.
LEMMA InitBio == BioInit => BioInv
<1> SUFFICES ASSUME BioInit PROVE BioInv
  OBVIOUS
<1>1. /\ num \in Nat /\ num >= 3 /\ NBUF \in Nat
      /\ None \notin Procs /\ None \notin Blocks /\ None \notin Bufs
  BY VirtioAssumption DEF BioInit, VirtioInit, Bufs
<1>2. \A q \in Procs : pc[q] = "idle" /\ Buf(q) = None /\ ~req[q].write /\ idx[q] = <<>> /\ Taken(q) = {}
  BY Zenon DEF BioInit, Buf, Taken
<1>3. \A b \in Bufs : blockno[b] = None /\ locked[b] = None /\ ~valid[b] /\ refcnt[b] = 0
  BY Zenon DEF BioInit, VirtioInit
<1>4. Shapes
  <2>1. /\ free \in SUBSET Ids /\ avail \in SUBSET Ids /\ used \in Seq(Ids)
        /\ desc = [i \in Ids |-> desc[i]] /\ info \in [Ids -> Bufs \cup {None}]
        /\ irq \in BOOLEAN /\ intr \in BOOLEAN
    <3>1. free = Ids /\ avail = {} /\ used = <<>> /\ irq = FALSE /\ intr = FALSE
      BY Zenon DEF BioInit, VirtioInit
    <3>2. desc = [i \in Ids |-> FreeDesc] /\ info = [i \in Ids |-> None]
      BY Zenon DEF BioInit, VirtioInit
    <3>3. desc = [i \in Ids |-> desc[i]]
      BY <3>2, Zenon
    <3>4. used \in Seq(Ids)
      BY <3>1
    <3> QED BY <3>1, <3>2, <3>3, <3>4, Zenon
  <2>2. /\ onDisk \in [Blocks -> BOOLEAN] /\ data \in [Bufs -> BOOLEAN] /\ bdisk \in [Bufs -> BOOLEAN]
        /\ valid \in [Bufs -> BOOLEAN] /\ blockno \in [Bufs -> Blocks \cup {None}]
    BY Zenon DEF BioInit, VirtioInit
  <2>3. /\ locked \in [Bufs -> Procs \cup {None}] /\ refcnt \in [Bufs -> Nat] /\ pinned \in SUBSET Bufs
        /\ pc \in [Procs -> Labels] /\ idx \in [Procs -> {<<>>} \cup (Ids \X Ids \X Ids)]
    BY Zenon DEF BioInit, Labels
  <2>4. req \in [Procs -> [buf : Bufs \cup {None}, write : BOOLEAN]]
    BY Zenon DEF BioInit
  <2>5. lru \in [1 .. NBUF -> Bufs]
    BY <1>1 DEF BioInit, Bufs
  <2> QED BY <1>1, <2>1, <2>2, <2>3, <2>4, <2>5, Zenon DEF Shapes
<1>5. Listed
  <2> SUFFICES ASSUME NEW b \in Bufs PROVE \E i \in 1 .. NBUF : lru[i] = b
    BY Zenon DEF Listed
  <2>1. NBUF + 1 - b \in 1 .. NBUF /\ NBUF + 1 - (NBUF + 1 - b) = b
    BY <1>1 DEF Bufs
  <2>2. lru[NBUF + 1 - b] = b
    BY <2>1, Zenon DEF BioInit
  <2> QED BY <2>1, <2>2, Zenon
<1>6. Places /\ Locks
  BY <1>1, <1>2, <1>3, Zenon DEF Places, Locks, After, Locking
<1>7. Validity
  BY <1>2, Zenon DEF Validity, BioInit, Before, After
<1>8. Requests /\ Waiters
  BY <1>2, Zenon DEF Requests, Waiters, After
<1>9. Disjoint
  BY <1>2, Zenon DEF Disjoint, BioInit, VirtioInit
<1>10. Heads
  BY <1>2 DEF Heads, Occurs, After, BioInit, VirtioInit
<1>11. OneBufferPerBlock
  BY <1>3, Zenon DEF OneBufferPerBlock
<1>12. ReferencesExact
  <2> SUFFICES ASSUME NEW b \in Bufs
               PROVE  refcnt[b] = Cardinality(UsersOf(req, b)) + (IF b \in pinned THEN 1 ELSE 0)
    BY Zenon DEF ReferencesExact, UsersOf, Buf
  <2>1. UsersOf(req, b) = {}
    BY <1>1, <1>2, Zenon DEF UsersOf, Buf
  <2>2. Cardinality(UsersOf(req, b)) = 0
    BY <2>1, FS_EmptySet, Zenon
  <2> QED BY <1>3, <2>2 DEF BioInit
<1>13. Contents
  <2>1. \A k \in Blocks : onDisk[k]
    BY Zenon DEF BioInit, VirtioInit
  <2> QED BY <1>2, <1>3, <2>1, Zenon DEF Contents, Done, After
<1> QED BY <1>4, <1>5, <1>6, <1>7, <1>8, <1>9, <1>10, <1>11, <1>12, <1>13, ZenonT(60) DEF BioInv

\* The invariant is about the variables only.
LEMMA BioStutters == ASSUME BioInv, UNCHANGED bioVars PROVE BioInv'
<1>1. /\ UNCHANGED <<avail, used, irq, onDisk, num, free, desc, info, intr, data, bdisk, blockno, pc, req, idx>>
      /\ UNCHANGED <<bufState, valid, refcnt, locked, lru, pinned>>
  BY Zenon DEF bioVars, virtioVars, ring, device, chains, bufState
<1>2. \A q \in Procs : SamePhase(q)
  BY <1>1, Zenon DEF SamePhase
<1>3. Requests' /\ Disjoint' /\ Heads'
  BY <1>1, DriverKept, Zenon DEF BioInv, Heads
<1>4. Places' /\ Locks' /\ Validity' /\ ReferencesExact' /\ OneBufferPerBlock' /\ Listed'
  BY <1>1, <1>2, UsersKept, Zenon DEF BioInv, Shapes
<1>5. Contents'
  BY <1>1, <1>2, ContentsKept, Zenon DEF BioInv
<1>6. Waiters' /\ Shapes'
  BY <1>1, Zenon DEF BioInv, Waiters, Shapes, Ids, Buf
<1> QED BY <1>3, <1>4, <1>5, <1>6, Zenon DEF BioInv

\* Every step of a process, of the device and of the handler keeps it.
LEMMA BioStep == BioInv /\ [BioNext]_bioVars => BioInv'
<1> SUFFICES ASSUME BioInv, [BioNext]_bioVars PROVE BioInv'
  OBVIOUS
<1>1. ASSUME NEW p \in Procs, Finish(p) PROVE BioInv'
  BY <1>1, NoDescKeeps, RwSubmitKeeps, SleepAgainKeeps, RwFinishKeeps, AcquireSleepKeeps,
     RwReturnKeeps,
     BrelseUnrefKeeps, Zenon DEF Finish, RwStep
<1>2. ASSUME NEW p \in Procs, Use(p) PROVE BioInv'
  BY <1>2, ReleaseSleepKeeps, BwriteKeeps, ChangeAndPinKeeps, Zenon DEF Use
<1>3. ASSUME NEW p \in Procs, KillWakes(p) PROVE BioInv'
  BY <1>3, SleepAgainKeeps, Zenon
<1>4. ASSUME NEW p \in Procs, NEW k \in Blocks, BgetHit(p, k) \/ BgetMiss(p, k) PROVE BioInv'
  BY <1>4, BgetHitKeeps, BgetMissKeeps, Zenon
<1>5. ASSUME DeviceStep \/ IntrStep, UNCHANGED bufState PROVE BioInv'
  BY <1>5, DeviceKeeps, IntrEntryKeeps, IntrEdgeKeeps, Zenon DEF DeviceStep, IntrStep
<1> QED BY <1>1, <1>2, <1>3, <1>4, <1>5, BioStutters, Zenon DEF BioNext

\* BioInv holds of every reachable state.
THEOREM BioInvariant == BioSpec => []BioInv
BY InitBio, BioStep, PTL DEF BioSpec

\* The books of bio.c and virtio_disk.c are right for any number of processes,
\* buffers, blocks and descriptors: one buffer for a block, every reference
\* counted, every descriptor free or in the chain of one request.
THEOREM CacheIsAccounted == BioSpec => []CacheAccounted
<1>1. BioInv => CacheAccounted
  <2> SUFFICES ASSUME BioInv PROVE CacheAccounted
    OBVIOUS
  <2> USE DEF BioInv
  <2>1. refcnt \in [Bufs -> 0 .. Cardinality(Procs) + 1]
    <3>1. IsFiniteSet(Procs) /\ Cardinality(Procs) \in Nat
      BY VirtioAssumption, FS_CardinalityType, Zenon
    <3>2. ASSUME NEW b \in Bufs PROVE refcnt[b] \in 0 .. Cardinality(Procs) + 1
      <4>1. UsersOf(req, b) \subseteq Procs
        BY Zenon DEF UsersOf
      <4>2. Cardinality(UsersOf(req, b)) <= Cardinality(Procs) /\ Cardinality(UsersOf(req, b)) \in Nat
        BY <3>1, <4>1, FS_Subset, UsersCount, Zenon
      <4>3. refcnt[b] = Cardinality(UsersOf(req, b)) + (IF b \in pinned THEN 1 ELSE 0)
        BY Zenon DEF ReferencesExact, UsersOf, Buf
      <4> QED BY <3>1, <4>2, <4>3
    <3> QED BY <3>2, Zenon DEF Shapes
  <2>2. BioTypeOK
    <3>1. \A p \in Procs : idx[p] \in {<<>>} \cup (Ids \X Ids \X Ids)
      BY Zenon DEF Shapes
    <3> QED BY <2>1, <3>1, Zenon DEF BioTypeOK, Shapes, Listed
  <2>3. \A p \in Procs : idx[p] # <<>> => Taken(p) = Chain(idx[p][1])
    BY ChainIsTaken, Zenon DEF Places
  <2>4. DescriptorsAccounted
    BY <2>3, Zenon DEF DescriptorsAccounted, Disjoint
  <2> QED BY <2>2, <2>4, Zenon DEF CacheAccounted
<1> QED BY <1>1, BioInvariant, PTL

\* Whoever has a buffer from bread() alone holds it, with the last content.
THEOREM HoldersSeeLatest == BioSpec => []HolderSeesLatest
<1>1. BioInv => HolderSeesLatest
  <2> SUFFICES ASSUME BioInv, NEW p \in Procs, pc[p] = "have"
               PROVE  data[Buf(p)] /\ locked[Buf(p)] = p
    BY Zenon DEF HolderSeesLatest
  <2>1. pc[p] \in Locking
    BY Zenon DEF Locking
  <2>2. Buf(p) \in Bufs
    BY <2>1, HolderAlone, Zenon DEF BioInv
  <2> QED BY <2>1, <2>2, Zenon DEF BioInv, Places, Validity, Contents
<1> QED BY <1>1, BioInvariant, PTL

\* No wakeup of the disk is lost: there is always somebody, or the device, to
\* come and wake who sleeps.
THEOREM DiskSleepersJustified == BioSpec => []BioSleepersJustified
<1>1. BioInv => BioSleepersJustified
  <2> SUFFICES ASSUME BioInv, NEW p \in Procs
               PROVE  /\ pc[p] = "lock_asleep" => locked[Buf(p)] # None
                      /\ pc[p] = "desc_asleep" => /\ Cardinality(free) < 3
                                                  /\ \E q \in Procs : pc[q] \in {"rw_asleep", "rw_woken"}
                      /\ pc[p] = "rw_asleep" => bdisk[Buf(p)] /\ InFlight(p)
    BY Zenon DEF BioSleepersJustified
  <2> USE DEF BioInv
  <2>1. ASSUME pc[p] = "desc_asleep" PROVE \E q \in Procs : pc[q] \in After
    <3> SUFFICES ASSUME \A q \in Procs : pc[q] \notin After PROVE FALSE
      OBVIOUS
    <3>1. \A q \in Procs : Taken(q) = {}
      BY Zenon DEF Taken, Places
    <3>2. free = Ids
      BY <3>1, Zenon DEF Disjoint
    <3>3. Cardinality(free) = num /\ num >= 3 /\ num \in Nat
      <4>1. num \in Nat /\ num >= 3 /\ 0 \in Int /\ num - 1 \in Int
        BY DEF Shapes
      <4>2. Cardinality(0 .. num - 1) = IF 0 > num - 1 THEN 0 ELSE (num - 1) - 0 + 1
        BY <4>1, FS_Interval, Zenon
      <4> QED BY <3>2, <4>1, <4>2, SMTT(30), Z3T(30) DEF Ids
    <3>4. Cardinality(free) < 3
      BY <2>1, Zenon DEF Waiters
    <3> QED BY <3>3, <3>4
  <2>2. ASSUME pc[p] = "rw_asleep" PROVE bdisk[Buf(p)] /\ InFlight(p)
    <3>1. bdisk[Buf(p)] /\ pc[p] \in After
      BY <2>2, Zenon DEF Heads, After
    <3>2. idx[p][1] \in avail \/ Occurs(idx[p][1], used)
      BY <3>1, Zenon DEF Heads
    <3>3. Occurs(idx[p][1], used) => irq \/ intr
      BY DEF Occurs, Heads
    <3> QED BY <3>1, <3>2, <3>3, Zenon DEF InFlight, Occurs
  <2> QED BY <2>1, <2>2, Zenon DEF Waiters, After
<1> QED BY <1>1, BioInvariant, PTL
=============================================================================
