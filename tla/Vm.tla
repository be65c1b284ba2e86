--------------------------------- MODULE Vm ----------------------------------
(***************************************************************************)
(* User memory: page tables (kernel/vm.c), exec() (kernel/exec.c and       *)
(* sys_exec()), sbrk() in both forms, page faults, fork() and the end of a *)
(* process as far as memory goes.  A page table belongs to one process, so *)
(* a call is one step; kalloc() may return 0 at any of its calls, when the *)
(* process is killed as it waits for memory, and left counts the calls     *)
(* before that one.                                                        *)
(***************************************************************************)
EXTENDS Integers, Sequences, FiniteSets, SequencesExt

CONSTANTS
  Procs, None,
  NPAGES,         \* physical pages 1 .. NPAGES; 0 is no page
  PGSIZE,
  FANOUT,         \* entries of a page-table page
  USERSTACK, MAXARG,
  Images,         \* bound: the files given to exec()
  Args,           \* bound: the argument vectors
  Ends,           \* bound: the pages their arrays end on
  Steps,          \* bound: what is added to the size
  Lefts,          \* bound: how many kalloc() calls succeed
  MaxCalls        \* bound: calls

VARIABLES
  free,   \* the free list, as a set
  pt,     \* the page table of every process, or None
  sz,     \* p->sz
  tf,     \* the page of p->trapframe, or 0
  last,   \* the last call and whether it succeeded
  panic,  \* whether the kernel has panicked
  calls   \* bound: calls made so far

vars == <<free, pt, sz, tf, last, panic, calls>>

\* The user address space in pages, under the trapframe and the trampoline.
MAXVA == FANOUT * FANOUT * FANOUT
TRAMPOLINE == MAXVA - 1
TRAPFRAME == MAXVA - 2
TrampolinePage == NPAGES + 1
VAs == 0 .. MAXVA - 1

PGROUNDUP(a) == (a + PGSIZE - 1) \div PGSIZE

\* The page-table pages below the root on the way to va.
Path(va) == <<<<1, va \div (FANOUT * FANOUT)>>, <<0, va \div FANOUT>>>>
Tables == {<<2, 0>>} \cup {Path(va)[i] : va \in VAs, i \in 1 .. 2}

Empty == [tab |-> [t \in Tables |-> 0], leaf |-> [v \in VAs |-> 0],
          user |-> {}, write |-> {}]

\* What the functions below pass on: the free pages, the calls of kalloc()
\* left, a page table and the size of its user part, the last page allocated,
\* the pages of argument strings, success, and a panic.
State(f, t, size, left) ==
  [free |-> f, left |-> left, pt |-> t, size |-> size, page |-> 0, args |-> {},
   ok |-> TRUE, panic |-> FALSE]

From(a, n) == [i \in 1 .. n |-> a + i - 1]
Fail(s) == [s EXCEPT !.ok = FALSE]

\* Go on with F after success; undo with G after a failure.
Then(s, F(_)) == IF s.ok THEN F(s) ELSE s
OrElse(s, G(_)) == IF s.ok THEN s ELSE G(s)

Kalloc(s) ==
  IF s.left = 0 \/ s.free = {} THEN [s EXCEPT !.page = 0, !.ok = FALSE]
  ELSE LET b == CHOOSE x \in s.free : \A y \in s.free : x <= y
       IN [s EXCEPT !.page = b, !.free = @ \ {b}, !.left = @ - 1]

Kfree(s, pages) == [s EXCEPT !.free = @ \cup pages]

-----------------------------------------------------------------------------
(* Page tables.                                                            *)

\* walk() with alloc: the pages on the way, up to the first that is missing.
Walk(s, va) ==
  LET table(u, t) ==
        IF ~u.ok \/ u.pt.tab[t] # 0 THEN u
        ELSE Then(Kalloc(u), LAMBDA k : [k EXCEPT !.pt.tab[t] = k.page])
  IN FoldLeft(table, s, Path(va))

\* mappages() of one page.
Mappages(s, va, pa, user, write) ==
  LET entry(w) ==
        IF w.pt.leaf[va] # 0 THEN [w EXCEPT !.panic = TRUE]
        ELSE [w EXCEPT !.pt.leaf[va] = pa,
                       !.pt.user = IF user THEN @ \cup {va} ELSE @ \ {va},
                       !.pt.write = IF write THEN @ \cup {va} ELSE @ \ {va}]
  IN Then(Walk(s, va), entry)

\* Mutant of MapNew: the page is not given back.
MapNewLost(s, va, user, write) ==
  Then(Kalloc(s), LAMBDA k : Mappages(k, va, k.page, user, write))

\* A new page at va: kalloc() and mappages(), which gives the page back when
\* it fails.
MapNew(s, va, user, write) ==
  Then(Kalloc(s), LAMBDA k : OrElse(Mappages(k, va, k.page, user, write),
                                    LAMBDA w : Kfree(w, {k.page})))

\* uvmunmap(): pages that are not there are passed over.
Uvmunmap(s, va, n, do_free) ==
  LET there == {v \in va .. va + n - 1 : s.pt.leaf[v] # 0}
  IN [s EXCEPT !.pt.leaf = [v \in VAs |-> IF v \in there THEN 0 ELSE @[v]],
               !.pt.user = @ \ there, !.pt.write = @ \ there,
               !.free = IF do_free THEN @ \cup {s.pt.leaf[v] : v \in there} ELSE @]

Uvmdealloc(s, oldsz, newsz) ==
  LET a == PGROUNDUP(newsz)
      b == PGROUNDUP(oldsz)
  IN IF newsz < oldsz /\ a < b THEN Uvmunmap(s, a, b - a, TRUE) ELSE s

\* uvmalloc(): pages from the old size to the new; all are given back when
\* one cannot be had.
Uvmalloc(s, oldsz, newsz, write) ==
  LET a0 == PGROUNDUP(oldsz)
      page(u, a) ==
        Then(u, LAMBDA x : OrElse(MapNew(x, a, TRUE, write),
                                  LAMBDA m : Uvmdealloc(m, a * PGSIZE, a0 * PGSIZE)))
  IN FoldLeft(page, s, From(a0, PGROUNDUP(newsz) - a0))

\* uvmfree(): the user pages, then freewalk(), which panics on a leaf.
Uvmfree(s, size) ==
  LET freewalk(u) == [u EXCEPT !.free = @ \cup ({u.pt.tab[t] : t \in Tables} \ {0}),
                               !.panic = @ \/ \E v \in VAs : u.pt.leaf[v] # 0,
                               !.pt = Empty]
  IN freewalk(Uvmunmap(s, 0, PGROUNDUP(size), TRUE))

\* proc_freepagetable()
FreePagetable(s, size) ==
  Uvmfree(Uvmunmap(Uvmunmap(s, TRAMPOLINE, 1, FALSE), TRAPFRAME, 1, FALSE), size)

\* proc_pagetable(), for the trapframe page f.
ProcPagetable(s, f) ==
  LET root(k) == [k EXCEPT !.pt = [Empty EXCEPT !.tab[<<2, 0>>] = k.page]]
      trampoline(k) == OrElse(Mappages(root(k), TRAMPOLINE, TrampolinePage, FALSE, FALSE),
                              LAMBDA m : Uvmfree(m, 0))
      trapframe(m) == OrElse(Mappages(m, TRAPFRAME, f, FALSE, TRUE),
                             LAMBDA n : Uvmfree(Uvmunmap(n, TRAMPOLINE, 1, FALSE), 0))
  IN Then(Then(Kalloc(s), trampoline), trapframe)

\* uvmcopy() into the table of s; a failure unmaps what was copied.
Uvmcopy(s, old, size) ==
  LET page(u, v) == IF ~u.ok \/ old.leaf[v] = 0 THEN u
                    ELSE OrElse(MapNew(u, v, v \in old.user, v \in old.write),
                                LAMBDA m : Uvmunmap(m, 0, v, TRUE))
  IN FoldLeft(page, s, From(0, PGROUNDUP(size)))

\* Mutant of Vmfault: a page that is mapped is mapped again.
VmfaultAgain(s, va, size) ==
  IF va * PGSIZE >= size THEN Fail(s) ELSE MapNew(s, va, TRUE, TRUE)

\* vmfault(): a page below the size that is not mapped.
Vmfault(s, va, size) ==
  IF va * PGSIZE >= size \/ s.pt.leaf[va] # 0 THEN Fail(s) ELSE MapNew(s, va, TRUE, TRUE)

-----------------------------------------------------------------------------
(* exec().                                                                 *)

\* fetchaddr() of a word on page va: copyin() maps a page that was grown lazily.
Fetchaddr(s, va, size) ==
  IF va * PGSIZE < size /\ va \in s.pt.user THEN s ELSE Vmfault(s, va, size)

\* sys_exec() copies one argument, of length len, 0 when it cannot be read.
\* Its address is not 0, so it comes from a page that was mapped before.
FetchArg(s, len) ==
  Then(Then(s, Kalloc), LAMBDA k : [k EXCEPT !.args = @ \cup {k.page}, !.ok = len # 0])

\* A turn of kexec()'s loop over the segments, with loadseg().
LoadSegment(s, g) ==
  LET end == g.vaddr + g.memsz
      sz1 == IF end < s.size THEN s.size ELSE end
      pages == {(g.vaddr + i) \div PGSIZE : i \in 0 .. g.filesz - 1}
      loadseg(u) == IF sz1 = 0 THEN Fail(u)
                    ELSE [u EXCEPT !.size = sz1, !.ok = g.whole,
                                   !.panic = @ \/ ~(pages \subseteq u.pt.user)]
  IN IF ~s.ok \/ ~g.load THEN s
     ELSE IF g.memsz < g.filesz \/ g.vaddr % PGSIZE # 0 THEN Fail(s)
     ELSE Then(Uvmalloc(s, s.size, end, g.write), loadseg)

\* The guard page and the stack above the program.
AddStack(s) ==
  LET base == PGROUNDUP(s.size) * PGSIZE
      top == base + (USERSTACK + 1) * PGSIZE
      guard == PGROUNDUP(base)
      uvmclear(u) == [u EXCEPT !.size = top, !.pt.user = @ \ {guard},
                               !.panic = @ \/ u.pt.leaf[guard] = 0]
  IN Then(Uvmalloc([s EXCEPT !.size = base], base, top, TRUE), uvmclear)

\* The strings and the array of their addresses, pushed on the stack; copyout()
\* writes to pages of the new table.
PushArgs(s, args) ==
  LET stackbase == s.size - USERSTACK * PGSIZE
      push(sp, len) == IF sp < stackbase THEN sp ELSE sp - len
      sp == FoldLeft(push, s.size, args) - (Len(args) + 1)
  IN IF sp < stackbase \/ ~({a \div PGSIZE : a \in sp .. s.size - 1}
                              \subseteq s.pt.user \cap s.pt.write)
     THEN Fail(s) ELSE s

\* kexec() up to the commit: the new table, or on a failure all of it freed.
Kexec(s, f, img, args) ==
  LET fill(t) == Then(Then(FoldLeft(LoadSegment, t, img.segs), AddStack),
                      LAMBDA u : PushArgs(u, args))
      build(t) == OrElse(fill(t), LAMBDA v : FreePagetable(v, v.size))
  IN IF img.elf THEN Then(ProcPagetable(s, f), build) ELSE Fail(s)

\* The page table and the size of p, the free pages and the outcome after s.
Becomes(p, s, call) ==
  /\ pt' = [pt EXCEPT ![p] = s.pt] /\ sz' = [sz EXCEPT ![p] = s.size]
  /\ free' = s.free /\ panic' = (panic \/ s.panic)
  /\ last' = [call |-> call, ok |-> s.ok] /\ UNCHANGED tf

\* The argument strings are freed, also after a failure.
Argfree(s) == Kfree(s, s.args)

\* The commit: the old table own, of the given size, is freed.
Commit(s, own, size) == [FreePagetable([s EXCEPT !.pt = own], size) EXCEPT !.pt = s.pt]

\* sys_exec(): the arguments, the word on page end that closes their array,
\* kexec(), the commit, and the arguments freed.  The page of end may be
\* mapped on the way, and stays mapped when exec fails.
Exec(p, img, args, end, left) ==
  LET fetched == Then(FoldLeft(FetchArg, State(free, pt[p], sz[p], left), args),
                      LAMBDA a : IF Len(args) < MAXARG THEN Fetchaddr(a, end, sz[p])
                                 ELSE Fail(a))
      keep(s) == [s EXCEPT !.pt = fetched.pt, !.size = sz[p]]
      done(s) == IF s.ok THEN Commit(s, fetched.pt, sz[p]) ELSE keep(s)
      kexec(a) == done(Kexec([a EXCEPT !.pt = Empty, !.size = 0], tf[p], img, args))
  IN /\ pt[p] # None
     /\ args # <<>> => pt[p].user # {}
     /\ Becomes(p, Argfree(Then(fetched, kexec)), "exec")

-----------------------------------------------------------------------------
(* The other calls.                                                        *)

\* Mutant of Growproc: the size grows although the memory is not there.
GrowprocSized(p, n, left) ==
  LET s == State(free, pt[p], sz[p], left)
      new == sz[p] + n
  IN /\ pt[p] # None
     /\ Becomes(p, IF n > 0 THEN IF new > TRAPFRAME * PGSIZE THEN Fail(s)
                                 ELSE [Uvmalloc(s, sz[p], new, TRUE) EXCEPT !.size = new]
                   ELSE IF new < 0 THEN s
                   ELSE [Uvmdealloc(s, sz[p], new) EXCEPT !.size = new], "sbrk")

\* growproc(), for SBRK_EAGER and for every shrinking.  A size below zero
\* wraps to a large one, which uvmdealloc() ignores.
Growproc(p, n, left) ==
  LET s == State(free, pt[p], sz[p], left)
      new == sz[p] + n
  IN /\ pt[p] # None
     /\ Becomes(p, IF n > 0 THEN IF new > TRAPFRAME * PGSIZE THEN Fail(s)
                                 ELSE Then(Uvmalloc(s, sz[p], new, TRUE),
                                           LAMBDA u : [u EXCEPT !.size = new])
                   ELSE IF new < 0 THEN s
                   ELSE [Uvmdealloc(s, sz[p], new) EXCEPT !.size = new], "sbrk")

\* sys_sbrk() with SBRK_LAZY: only the size grows.
SbrkLazy(p, n) ==
  LET s == State(free, pt[p], sz[p], 0)
  IN /\ pt[p] # None /\ n > 0
     /\ Becomes(p, IF sz[p] + n > TRAPFRAME * PGSIZE THEN Fail(s)
                   ELSE [s EXCEPT !.size = @ + n], "lazy")

\* usertrap(), copyin() or copyout() meets an address the user part does not
\* have.
Touch(p, va, left) ==
  /\ pt[p] # None /\ va \notin pt[p].user
  /\ Becomes(p, Vmfault(State(free, pt[p], sz[p], left), va, sz[p]), "touch")

\* kfork(): allocproc() and uvmcopy(); freeproc() undoes them, with size 0.
Fork(p, q, left) ==
  LET copy(t) == OrElse(Uvmcopy(t, pt[p], sz[p]), LAMBDA c : FreePagetable(c, 0))
      child(k) == OrElse(Then(ProcPagetable(k, k.page), copy), LAMBDA f : Kfree(f, {k.page}))
      done(k, c) == /\ free' = c.free /\ panic' = (panic \/ c.panic)
                    /\ last' = [call |-> "fork", ok |-> c.ok]
                    /\ IF c.ok
                       THEN /\ pt' = [pt EXCEPT ![q] = c.pt] /\ sz' = [sz EXCEPT ![q] = sz[p]]
                            /\ tf' = [tf EXCEPT ![q] = k.page]
                       ELSE UNCHANGED <<pt, sz, tf>>
      alloced(k) == done(k, Then(k, child))
  IN /\ pt[p] # None /\ pt[q] = None
     /\ alloced(Kalloc(State(free, Empty, 0, left)))

\* freeproc(), when the parent has waited for p.
Freeproc(p) ==
  /\ pt[p] # None /\ \E q \in Procs \ {p} : pt[q] # None
  /\ LET gone(s) == free' = s.free \cup {tf[p]} /\ panic' = (panic \/ s.panic)
     IN gone(FreePagetable(State(free, pt[p], sz[p], 0), sz[p]))
  /\ pt' = [pt EXCEPT ![p] = None] /\ sz' = [sz EXCEPT ![p] = 0]
  /\ tf' = [tf EXCEPT ![p] = 0]
  /\ last' = [call |-> "free", ok |-> TRUE]

\* userinit(), and forkret()'s exec of the first program by the first process.
Init ==
  \E p \in Procs, img \in Images :
    LET k == Kalloc(State(1 .. NPAGES, Empty, 0, NPAGES))
        u == ProcPagetable(k, k.page)
        e == Kexec([u EXCEPT !.pt = Empty], k.page, img, <<1>>)
        s == Commit(e, u.pt, 0)
    IN /\ e.ok
       /\ free = s.free /\ panic = s.panic
       /\ pt = [q \in Procs |-> IF q = p THEN s.pt ELSE None]
       /\ sz = [q \in Procs |-> IF q = p THEN s.size ELSE 0]
       /\ tf = [q \in Procs |-> IF q = p THEN k.page ELSE 0]
       /\ last = [call |-> "boot", ok |-> TRUE]
       /\ calls = 0

Call ==
  \E p \in Procs :
    \/ \E left \in Lefts :
         \/ \E img \in Images, args \in Args, end \in Ends : Exec(p, img, args, end, left)
         \/ \E n \in Steps : Growproc(p, n, left)
         \/ \E va \in 0 .. TRAPFRAME - 1 : Touch(p, va, left)
         \/ \E q \in Procs : Fork(p, q, left)
    \/ \E n \in Steps : SbrkLazy(p, n)
    \/ Freeproc(p)

Next ==
  \/ calls < MaxCalls /\ calls' = calls + 1 /\ Call
  \/ calls = MaxCalls /\ UNCHANGED vars

Spec == Init /\ [][Next]_vars

-----------------------------------------------------------------------------
(* Properties.                                                             *)

Live == {p \in Procs : pt[p] # None}
Mapped(p) == {v \in VAs : pt[p].leaf[v] # 0}

(***************************************************************************)
(* The types of the memory state.                                          *)
(***************************************************************************)
TypeOK ==
  /\ free \subseteq 1 .. NPAGES
  /\ \A p \in Live : /\ pt[p].tab \in [Tables -> 0 .. NPAGES]
                     /\ pt[p].leaf \in [VAs -> 0 .. TrampolinePage]
                     /\ pt[p].user \cup pt[p].write \subseteq Mapped(p)
                     /\ sz[p] \in 0 .. TRAPFRAME * PGSIZE

(***************************************************************************)
(* Every physical page has exactly one owner, after every failure on the   *)
(* way too: the free list, one trapframe, one page-table page or one user  *)
(* mapping.  So no path of exec(), fork(), sbrk() or a fault loses a page, *)
(* frees one twice or shares one between processes.                        *)
(***************************************************************************)
PagesOwnedOnce ==
  LET uses == {<<"free", None, 0, b>> : b \in free}
                \cup {<<"trapframe", p, 0, tf[p]>> : p \in Live}
                \cup {<<"table", p, t[1] * MAXVA + t[2], pt[p].tab[t]>> : p \in Live, t \in Tables}
                \cup UNION {{<<"leaf", p, v, pt[p].leaf[v]>> :
                               v \in Mapped(p) \ {TRAPFRAME, TRAMPOLINE}} : p \in Live}
      owned == {u \in uses : u[4] # 0}
  IN {u[4] : u \in owned} = 1 .. NPAGES /\ Cardinality(owned) = NPAGES

(***************************************************************************)
(* Nothing is mapped above the size rounded up, whatever sequence of eager *)
(* and lazy growing, shrinking into the middle of a page, faulting, fork   *)
(* and exec led there; freewalk() would meet it as a leaf and panic.       *)
(***************************************************************************)
MappedBelowSize ==
  \A p \in Live : \A v \in Mapped(p) : v < PGROUNDUP(sz[p]) \/ v \in {TRAPFRAME, TRAMPOLINE}

(***************************************************************************)
(* The kernel does not panic in mappages() (remap), freewalk() (leaf),     *)
(* loadseg() (address should exist) or uvmclear().                         *)
(***************************************************************************)
NoVmPanic == ~panic

\* The physical pages of a table: its own pages and what it maps.
PagesOf(t) == ({t.tab[x] : x \in Tables} \cup {t.leaf[v] : v \in VAs}) \ {0}

(***************************************************************************)
(* A call that fails leaves the size and the mappings of every process as  *)
(* they were, except that a failed exec() may have mapped lazily grown     *)
(* pages it read its arguments from (fetchaddr(), copyin(), vmfault()).    *)
(* Those, with their page-table pages, are all that it has taken: its own  *)
(* new table and the argument strings are given back, and so is everything *)
(* a failed fork() took.  (A failed sbrk() or fault may keep page-table    *)
(* pages.)                                                                 *)
(***************************************************************************)
FailureKeepsMemory ==
  [][~last'.ok =>
       /\ sz' = sz /\ tf' = tf
       /\ last'.call = "fork" => free' = free
       /\ \A p \in Live :
            LET new == {v \in VAs : pt'[p].leaf[v] # pt[p].leaf[v]}
            IN /\ new # {} => last'.call = "exec"
               /\ \A v \in new : pt[p].leaf[v] = 0 /\ v * PGSIZE < sz[p]
       /\ last'.call = "exec" =>
            free \ free' = UNION {PagesOf(pt'[p]) \ PagesOf(pt[p]) : p \in Live}]_vars

(***************************************************************************)
(* vm.c and exec.c keep the books of memory: every page has one owner, and *)
(* what uvmfree() will look at, the pages below p->sz, is all that is      *)
(* mapped.                                                                 *)
(***************************************************************************)
MemoryAccounted == TypeOK /\ PagesOwnedOnce /\ MappedBelowSize
=============================================================================
