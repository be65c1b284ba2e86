------------------------------- MODULE Inode -------------------------------
(***************************************************************************)
(* Inodes, directories and path names (kernel/fs.c): reference counts in   *)
(* memory, link counts on disk, sleep-locks on inodes, and namex() walking *)
(* a path that other processes change under it.                            *)
(*                                                                         *)
(* fs is what the disk holds as seen through the buffer cache, saved what  *)
(* a crash leaves: the log commits when the last call in a transaction     *)
(* ends (module Log shows that a commit is atomic).  A section in which    *)
(* the process holds the locks it needs and waits for no other is one      *)
(* action.  An entry of itable is known by its inode number: iget() finds  *)
(* or makes it in one section under itable.lock.  File contents are in     *)
(* module Content.                                                         *)
(***************************************************************************)
EXTENDS Integers, Sequences, FiniteSets, FiniteSetsExt

CONSTANTS
  Procs, None,
  NINODES,     \* inodes of the disk; 1 is ROOTINO
  Names,       \* entries of a directory, apart from "." and ".."
  Paths        \* [abs, elems]: the paths that calls pass

ROOTINO == 1
Inums == 1 .. NINODES

VARIABLES
  fs, saved,         \* [type, nlink, dent, up]: current, and after a crash
  ref, valid, ilk,   \* itable: references, valid, holder of the sleep-lock
  cwd,               \* p->cwd
  loc                \* where a process is and its locals

itable == <<ref, valid, ilk>>
disk == <<fs, saved>>

\* The locals of a call: inode being walked, rest of the path, inode kept
\* from an earlier part of the call, inode for iput() and where to go on, files
\* that have no descriptor yet.
Idle == [pc |-> "idle", call |-> None, at |-> 0, path |-> <<>>, path2 |-> None, ip |-> 0,
         put |-> 0, ret |-> None, held |-> <<>>]

IsDir(i) == fs.type[i] = "dir"

\* dirlookup(): 0 if there is no such entry.
Lookup(d, n) == IF n = "." THEN d ELSE IF n = ".." THEN fs.up[d] ELSE fs.dent[d][n]

DirEmpty(d) == \A n \in Names : fs.dent[d][n] = 0

\* ilock() returns; it panics if the inode is free on disk.
CanIlock(i) == ilk[i] = None /\ fs.type[i] # "free"

-----------------------------------------------------------------------------
(* iget() and idup() count a reference.  A new entry is not valid, and the *)
(* entry that the last iput() leaves is nobody's.                          *)

Iget(i) == ref' = [ref EXCEPT ![i] = @ + 1]

\* The valid flags after ilock() of i; a new entry starts with valid = 0.
Ilock(i) == valid' = [valid EXCEPT ![i] = TRUE]

\* Go on with iput() of an inode, of "at", of "ip", and after it at label.
GoPut(p, i, label) == loc' = [loc EXCEPT ![p].pc = "iput", ![p].put = i, ![p].ret = label]
PutAt(p, label) ==
  loc' = [loc EXCEPT ![p].pc = "iput", ![p].put = loc[p].at, ![p].at = 0, ![p].ret = label]
PutIp(p, label) ==
  loc' = [loc EXCEPT ![p].pc = "iput", ![p].put = loc[p].ip, ![p].ip = 0, ![p].ret = label]

Goto(p, label) == loc' = [loc EXCEPT ![p].pc = label]

\* iput(): with no other reference and no link the inode is freed; the
\* acquiresleep() under itable.lock never waits.
Iput(p) ==
  /\ loc[p].pc = "iput"
  /\ LET i == loc[p].put IN
       IF ref[i] = 1 /\ valid[i] /\ fs.nlink[i] = 0
       THEN /\ ilk' = [ilk EXCEPT ![i] = p]
            /\ Goto(p, "free") /\ UNCHANGED <<ref, valid>>
       ELSE /\ ref' = [ref EXCEPT ![i] = @ - 1]
            /\ valid' = [valid EXCEPT ![i] = @ /\ ref[i] > 1]
            /\ loc' = [loc EXCEPT ![p].pc = loc[p].ret, ![p].put = 0]
            /\ UNCHANGED ilk
  /\ UNCHANGED <<disk, cwd>>

\* itrunc(), type = 0, iupdate(), valid = 0, releasesleep().
Freed(i) == [fs EXCEPT !.type[i] = "free", !.dent[i] = [n \in Names |-> 0], !.up[i] = 0]

IputFree(p) ==
  /\ loc[p].pc = "free"
  /\ LET i == loc[p].put IN
       /\ fs' = Freed(i)
       /\ valid' = [valid EXCEPT ![i] = FALSE]
       /\ ilk' = [ilk EXCEPT ![i] = None]
  /\ Goto(p, "drop")
  /\ UNCHANGED <<saved, ref, cwd>>

IputDrop(p) ==
  /\ loc[p].pc = "drop"
  /\ LET i == loc[p].put IN
       /\ ref' = [ref EXCEPT ![i] = @ - 1]
       /\ valid' = [valid EXCEPT ![i] = @ /\ ref[i] > 1]
  /\ loc' = [loc EXCEPT ![p].pc = loc[p].ret, ![p].put = 0]
  /\ UNCHANGED <<disk, ilk, cwd>>

-----------------------------------------------------------------------------
(* begin_op(), end_op() *)

InOp(q) == loc[q].pc \notin {"idle", "gone", "exit", "pipe", "pipe_bad", "boot"}

\* The last call that ends commits.
EndOp(p, next) ==
  /\ loc' = [loc EXCEPT ![p] = next]
  /\ saved' = IF \E q \in Procs \ {p} : InOp(q) THEN saved ELSE fs

-----------------------------------------------------------------------------
(* namex() *)

\* iget(ROOTDEV, ROOTINO) or idup(cwd); first is the rest of the locals.
StartWalk(p, path, first) ==
  LET i == IF path.abs THEN ROOTINO ELSE cwd[p] IN
  /\ Iget(i)
  /\ loc' = [loc EXCEPT ![p] = [first EXCEPT !.pc = "walk", !.at = i, !.path = path.elems]]

\* The part of the call that walks wants the parent.
WantsParent(p) ==
  \/ loc[p].call \in {"create", "mkdir", "mknod", "unlink"}
  \/ loc[p].call = "link" /\ loc[p].ip # 0

\* Where a walk that fails goes on: link() takes its nlink++ back.
FailLabel(p) == IF loc[p].call = "link" /\ loc[p].ip # 0 THEN "link_bad" ELSE "fail"

\* One element: lock, look up, iget() the next, unlock; then iput().
Walk(p) ==
  /\ loc[p].pc = "walk" /\ loc[p].path # <<>>
  /\ ~(WantsParent(p) /\ Len(loc[p].path) = 1)
  /\ LET d == loc[p].at  n == Head(loc[p].path)  next == Lookup(d, n) IN
       /\ CanIlock(d)
       /\ Ilock(d)
       /\ IF IsDir(d) /\ next # 0
            THEN /\ Iget(next)
                 /\ loc' = [loc EXCEPT ![p].at = next, ![p].path = Tail(@),
                              ![p].pc = "iput", ![p].put = d, ![p].ret = "walk"]
            ELSE PutAt(p, FailLabel(p)) /\ UNCHANGED ref
  /\ UNCHANGED <<disk, ilk, cwd>>

\* The walk is over: at the last but one element, or at the last.
WalkParent(p) ==
  /\ loc[p].pc = "walk" /\ WantsParent(p) /\ Len(loc[p].path) = 1
  /\ LET d == loc[p].at IN
       /\ CanIlock(d)
       /\ Ilock(d)
       /\ IF IsDir(d) THEN Goto(p, "at") ELSE PutAt(p, FailLabel(p))
  /\ UNCHANGED <<disk, ref, ilk, cwd>>

WalkEnd(p) ==
  /\ loc[p].pc = "walk" /\ loc[p].path = <<>>
  /\ IF WantsParent(p) THEN PutAt(p, FailLabel(p)) ELSE Goto(p, "at")
  /\ UNCHANGED <<disk, itable, cwd>>

-----------------------------------------------------------------------------
(* What the disk holds.                                                    *)

\* Inodes without a link, which ireclaim() looks for.
Orphans(f) == {i \in Inums : f.type[i] # "free" /\ f.nlink[i] = 0}

\* mkfs: the root directory alone.
RootOnly ==
  [type |-> [i \in Inums |-> IF i = ROOTINO THEN "dir" ELSE "free"],
   nlink |-> [i \in Inums |-> IF i = ROOTINO THEN 1 ELSE 0],
   dent |-> [i \in Inums |-> [n \in Names |-> 0]],
   up |-> [i \in Inums |-> IF i = ROOTINO THEN ROOTINO ELSE 0]]

\* ialloc(), nlink = 1, "." and "..", the entry, and the link that ".." is.
Created(f, d, n, i, type) ==
  [f EXCEPT !.type[i] = type, !.nlink[i] = 1, !.dent[d][n] = i,
            !.up[i] = IF type = "dir" THEN d ELSE 0,
            !.nlink[d] = IF type = "dir" THEN @ + 1 ELSE @]

InodeStep(p) ==
  Iput(p) \/ IputFree(p) \/ IputDrop(p) \/ Walk(p) \/ WalkParent(p) \/ WalkEnd(p)
=============================================================================
