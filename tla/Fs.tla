--------------------------------- MODULE Fs ---------------------------------
(***************************************************************************)
(* The file system calls (kernel/sysfile.c) over inodes and the file table *)
(* (kernel/file.c): open, create, link, unlink, mkdir, mknod, chdir, dup,  *)
(* close, pipe, fork and exit of processes that interleave at every inode  *)
(* lock and every iput(), and a crash at any point with ireclaim() after   *)
(* it.  A path walk or an allocation may fail wherever the code handles    *)
(* it.                                                                     *)
(***************************************************************************)
EXTENDS Inode

CONSTANTS
  Files,       \* the entries of ftable
  NOFILE,      \* descriptors of a process
  Calls,       \* the calls that processes make
  Images,      \* the file systems to start from
  MaxCrashes,  \* bound on the crashes
  MaxCalls     \* bound on the calls of a behaviour

ASSUME FsAssumption == NINODES \in Nat \ {0} /\ NOFILE \in Nat

VARIABLES
  file,       \* ftable: [ref, type, ip]
  ofile,      \* p->ofile
  boot,       \* the inode ireclaim() looks at, NINODES + 1 when the system is up
  crashes, calls,  \* how many there have been
  reused      \* history: inodes allocated before the iput() that freed them was done

files == <<file, ofile>>
env == <<boot, crashes, calls, reused>>
fsVars == <<disk, itable, cwd, loc, files, env>>

FDs == 0 .. NOFILE - 1
NoFile == [ref |-> 0, type |-> "none", ip |-> 0]
FreeFiles == {f \in Files : file[f].ref = 0}
FreeFds(p) == {fd \in FDs : ofile[p][fd] = None}
Up == boot > NINODES
\* p is in user mode and makes a call.
Enters(p) ==
  /\ Up /\ loc[p].pc = "idle" /\ calls < MaxCalls
  /\ calls' = calls + 1
  /\ UNCHANGED <<boot, crashes, reused>>

At(p, label, call) == loc[p].pc = label /\ loc[p].call \in call

-----------------------------------------------------------------------------
(* Calls that take a path begin a transaction and walk. *)

Call(p, call, path) ==
  /\ Enters(p) /\ call \in Calls
  /\ StartWalk(p, path, [Idle EXCEPT !.call = call])
  /\ UNCHANGED <<disk, valid, ilk, cwd, files>>

LinkCall(p, old, new) ==
  /\ Enters(p) /\ "link" \in Calls
  /\ StartWalk(p, old, [Idle EXCEPT !.call = "link", !.path2 = new])
  /\ UNCHANGED <<disk, valid, ilk, cwd, files>>

\* end_op() and return; exit() goes on with the next descriptor.
Return(p) ==
  /\ loc[p].pc \in {"fail", "done"}
  /\ EndOp(p, Idle)
  /\ UNCHANGED <<fs, itable, cwd, files, env>>

-----------------------------------------------------------------------------
(* sys_open() *)

\* The part after create() or namei(), with i locked: a file and a
\* descriptor; without a file iunlockput() and failure, without a descriptor
\* fileclose() first.
OpenTail(p, i) ==
  LET f == CHOOSE g \in FreeFiles : TRUE IN
  IF FreeFiles = {}
    THEN /\ ilk' = [ilk EXCEPT ![i] = None]
         /\ PutAt(p, "fail") /\ UNCHANGED files
  ELSE IF FreeFds(p) = {}
    THEN /\ ilk' = [ilk EXCEPT ![i] = p]
         /\ file' = [file EXCEPT ![f].ref = 1]
         /\ loc' = [loc EXCEPT ![p].pc = "open_bad", ![p].held = <<f>>]
         /\ UNCHANGED ofile
  ELSE /\ ilk' = [ilk EXCEPT ![i] = None]
       /\ file' = [file EXCEPT ![f] = [ref |-> 1, type |-> "inode", ip |-> i]]
       /\ ofile' = [ofile EXCEPT ![p][Min(FreeFds(p))] = f]
       /\ loc' = [loc EXCEPT ![p].pc = "done", ![p].at = 0]

\* fileclose(f), which has no inode yet, and iunlockput(ip).
OpenBad(p) ==
  /\ loc[p].pc = "open_bad"
  /\ file' = [file EXCEPT ![Head(loc[p].held)] = NoFile]
  /\ ilk' = [ilk EXCEPT ![loc[p].at] = None]
  /\ loc' = [loc EXCEPT ![p].pc = "iput", ![p].put = loc[p].at, ![p].at = 0,
                         ![p].ret = "fail", ![p].held = <<>>]
  /\ UNCHANGED <<disk, ref, valid, cwd, ofile, env>>

\* Without O_CREATE; a directory opens for reading only, a device only if
\* it has a driver.
Open(p) ==
  /\ At(p, "at", {"open"})
  /\ LET i == loc[p].at IN
       /\ CanIlock(i) /\ Ilock(i)
       /\ \/ OpenTail(p, i)
          \/ fs.type[i] # "file" /\ PutAt(p, "fail") /\ UNCHANGED <<ilk, files>>
  /\ UNCHANGED <<disk, ref, cwd, env>>

-----------------------------------------------------------------------------
(* create() *)

NewType(call) == [create |-> "file", mkdir |-> "dir", mknod |-> "dev"][call]

CreateExists(p) ==
  /\ At(p, "at", {"create", "mkdir", "mknod"})
  /\ LET d == loc[p].at  i == Lookup(d, Head(loc[p].path)) IN
       /\ CanIlock(d) /\ Ilock(d)
       /\ i # 0
       /\ Iget(i)
       /\ loc' = [loc EXCEPT ![p].pc = "iput", ![p].put = d, ![p].ret = "exists", ![p].at = i]
  /\ UNCHANGED <<disk, ilk, cwd, files, env>>

CreateOpenExisting(p) ==
  /\ loc[p].pc = "exists"
  /\ LET i == loc[p].at IN
       /\ CanIlock(i) /\ Ilock(i)
       /\ \/ loc[p].call = "create" /\ ~IsDir(i) /\ OpenTail(p, i)
          \/ /\ loc[p].call # "create" \/ fs.type[i] # "file"
             /\ PutAt(p, "fail") /\ UNCHANGED <<ilk, files>>
  /\ UNCHANGED <<disk, ref, cwd, env>>

FreeInodes == {i \in Inums : fs.type[i] = "free"}

\* ialloc() of i: its entry of itable is new, or still that of an iput().
Ialloc(i) ==
  /\ Iget(i)
  /\ reused' = IF ref[i] > 0 THEN reused \cup {i} ELSE reused \ {i}
  /\ UNCHANGED <<boot, crashes, calls>>

CreateNoInode(p) ==
  /\ At(p, "at", {"create", "mkdir", "mknod"})
  /\ LET d == loc[p].at IN
       /\ CanIlock(d) /\ Ilock(d)
       /\ Lookup(d, Head(loc[p].path)) = 0 /\ FreeInodes = {}
       /\ PutAt(p, "fail")
  /\ UNCHANGED <<disk, ref, ilk, cwd, files, env>>

\* dp and ip are both locked; the lock of ip is kept.
CreateNew(p) ==
  /\ At(p, "at", {"create", "mkdir", "mknod"})
  /\ LET d == loc[p].at  n == Head(loc[p].path)  i == Min(FreeInodes) IN
       /\ CanIlock(d)
       /\ Lookup(d, n) = 0 /\ FreeInodes # {}
       /\ ilk[i] = None
       /\ fs' = Created(fs, d, n, i, NewType(loc[p].call))
       /\ Ialloc(i)
       /\ valid' = [valid EXCEPT ![d] = TRUE, ![i] = TRUE]
       /\ ilk' = [ilk EXCEPT ![i] = p]
       /\ loc' = [loc EXCEPT ![p].pc = "iput", ![p].put = d, ![p].ret = "created", ![p].at = i]
  /\ UNCHANGED <<saved, cwd, files>>

\* dirlink() fails for want of a block: nlink = 0 and iput() of the new
\* inode, with dp still locked.
CreateFails(p) ==
  /\ At(p, "at", {"create", "mkdir", "mknod"})
  /\ LET d == loc[p].at  n == Head(loc[p].path)  i == Min(FreeInodes) IN
       /\ CanIlock(d)
       /\ Lookup(d, n) = 0 /\ FreeInodes # {}
       /\ ilk[i] = None
       /\ fs' = [fs EXCEPT !.type[i] = NewType(loc[p].call), !.nlink[i] = 0]
       /\ Ialloc(i)
       /\ valid' = [valid EXCEPT ![d] = TRUE, ![i] = TRUE]
       /\ ilk' = [ilk EXCEPT ![d] = p]
       /\ GoPut(p, i, "unlock_at")
  /\ UNCHANGED <<saved, cwd, files>>

\* iunlockput(dp) at the label bad of unlink() or fail of create().
UnlockAt(p) ==
  /\ loc[p].pc = "unlock_at"
  /\ ilk' = [ilk EXCEPT ![loc[p].at] = None]
  /\ PutAt(p, "fail")
  /\ UNCHANGED <<disk, ref, valid, cwd, files, env>>

\* open() goes on with the inode it created, mkdir() and mknod() let it go.
CreateReturn(p) ==
  /\ loc[p].pc = "created"
  /\ LET i == loc[p].at IN
       \/ loc[p].call = "create" /\ OpenTail(p, i)
       \/ /\ loc[p].call # "create"
          /\ ilk' = [ilk EXCEPT ![i] = None]
          /\ PutAt(p, "done") /\ UNCHANGED files
  /\ UNCHANGED <<disk, ref, valid, cwd, env>>

-----------------------------------------------------------------------------
(* sys_unlink() *)

UnlinkLookup(p) ==
  /\ At(p, "at", {"unlink"})
  /\ LET d == loc[p].at  n == Head(loc[p].path)  i == Lookup(d, n) IN
       /\ CanIlock(d) /\ Ilock(d)
       /\ IF n \in {".", ".."} \/ i = 0
            THEN PutAt(p, "fail") /\ UNCHANGED <<ref, ilk>>
            ELSE /\ Iget(i)
                 /\ ilk' = [ilk EXCEPT ![d] = p]
                 /\ loc' = [loc EXCEPT ![p].pc = "unlink_ip", ![p].ip = i]
  /\ UNCHANGED <<disk, cwd, files, env>>

\* Mutant of UnlinkNotEmpty: the directory that stays is not put.
UnlinkNotEmptyKept(p) ==
  /\ loc[p].pc = "unlink_ip"
  /\ LET i == loc[p].ip IN
       /\ CanIlock(i) /\ Ilock(i)
       /\ IsDir(i) /\ ~DirEmpty(i)
       /\ loc' = [loc EXCEPT ![p].pc = "unlock_at", ![p].ip = 0]
  /\ UNCHANGED <<disk, ref, ilk, cwd, files, env>>

UnlinkNotEmpty(p) ==
  /\ loc[p].pc = "unlink_ip"
  /\ LET i == loc[p].ip IN
       /\ CanIlock(i) /\ Ilock(i)
       /\ IsDir(i) /\ ~DirEmpty(i)
       /\ PutIp(p, "unlock_at")
  /\ UNCHANGED <<disk, ref, ilk, cwd, files, env>>

UnlinkEntry(p) ==
  /\ loc[p].pc = "unlink_ip"
  /\ LET i == loc[p].ip  d == loc[p].at IN
       /\ CanIlock(i) /\ Ilock(i)
       /\ ~(IsDir(i) /\ ~DirEmpty(i))
       /\ fs' = [fs EXCEPT !.dent[d][Head(loc[p].path)] = 0,
                           !.nlink[d] = IF IsDir(i) THEN @ - 1 ELSE @]
       /\ ilk' = [ilk EXCEPT ![d] = None, ![i] = p]
       /\ PutAt(p, "unlink_drop")
  /\ UNCHANGED <<saved, ref, cwd, files, env>>

UnlinkDrop(p) ==
  /\ loc[p].pc = "unlink_drop"
  /\ LET i == loc[p].ip IN
       /\ fs' = [fs EXCEPT !.nlink[i] = @ - 1]
       /\ ilk' = [ilk EXCEPT ![i] = None]
       /\ PutIp(p, "done")
  /\ UNCHANGED <<saved, ref, valid, cwd, files, env>>

-----------------------------------------------------------------------------
(* sys_link() *)

\* Mutant of LinkOld: the new link is not counted.
LinkOldUncounted(p) ==
  /\ At(p, "at", {"link"}) /\ loc[p].ip = 0
  /\ LET i == loc[p].at IN
       /\ CanIlock(i) /\ Ilock(i)
       /\ IF IsDir(i) THEN PutAt(p, "fail") /\ UNCHANGED ref
          ELSE StartWalk(p, loc[p].path2, [loc[p] EXCEPT !.ip = i, !.path2 = None])
  /\ UNCHANGED <<disk, ilk, cwd, files, env>>

LinkOld(p) ==
  /\ At(p, "at", {"link"}) /\ loc[p].ip = 0
  /\ LET i == loc[p].at IN
       /\ CanIlock(i) /\ Ilock(i)
       /\ IF IsDir(i) THEN PutAt(p, "fail") /\ UNCHANGED <<fs, ref>>
          ELSE /\ fs' = [fs EXCEPT !.nlink[i] = @ + 1]
               /\ StartWalk(p, loc[p].path2, [loc[p] EXCEPT !.ip = i, !.path2 = None])
  /\ UNCHANGED <<saved, ilk, cwd, files, env>>

\* dirlink() fails if the name is there or for want of a block.
LinkNew(p) ==
  /\ At(p, "at", {"link"}) /\ loc[p].ip # 0
  /\ LET d == loc[p].at  n == Head(loc[p].path) IN
       /\ CanIlock(d) /\ Ilock(d)
       /\ \/ PutAt(p, "link_bad") /\ UNCHANGED fs
          \/ /\ Lookup(d, n) = 0
             /\ fs' = [fs EXCEPT !.dent[d][n] = loc[p].ip]
             /\ PutAt(p, "link_ok")
  /\ UNCHANGED <<saved, ref, ilk, cwd, files, env>>

LinkOk(p) ==
  /\ loc[p].pc = "link_ok"
  /\ PutIp(p, "done")
  /\ UNCHANGED <<disk, itable, cwd, files, env>>

LinkBad(p) ==
  /\ loc[p].pc = "link_bad"
  /\ LET i == loc[p].ip IN
       /\ CanIlock(i) /\ Ilock(i)
       /\ fs' = [fs EXCEPT !.nlink[i] = @ - 1]
       /\ PutIp(p, "fail")
  /\ UNCHANGED <<saved, ref, ilk, cwd, files, env>>

-----------------------------------------------------------------------------
(* sys_chdir() *)

Chdir(p) ==
  /\ At(p, "at", {"chdir"})
  /\ LET i == loc[p].at IN
       /\ CanIlock(i) /\ Ilock(i)
       /\ IF IsDir(i) THEN GoPut(p, cwd[p], "set_cwd") ELSE PutAt(p, "fail")
  /\ UNCHANGED <<disk, ref, ilk, cwd, files, env>>

\* end_op() comes before the assignment.
ChdirSet(p) ==
  /\ loc[p].pc = "set_cwd"
  /\ cwd' = [cwd EXCEPT ![p] = loc[p].at]
  /\ EndOp(p, Idle)
  /\ UNCHANGED <<fs, itable, files, env>>

-----------------------------------------------------------------------------
(* Descriptors *)

\* fileclose(f), then at label next: the last reference lets the inode go.
FileClose(p, f, next) ==
  IF file[f].ref > 1
    THEN /\ file' = [file EXCEPT ![f].ref = @ - 1]
         /\ loc' = [loc EXCEPT ![p] = next]
    ELSE /\ file' = [file EXCEPT ![f] = NoFile]
         /\ IF file[f].type = "inode"
              THEN loc' = [loc EXCEPT ![p] = [next EXCEPT !.pc = "iput", !.put = file[f].ip,
                              !.ret = IF next = Idle THEN "done" ELSE "exit_done"]]
              ELSE loc' = [loc EXCEPT ![p] = next]

Close(p, fd) ==
  /\ Enters(p) /\ ofile[p][fd] # None
  /\ ofile' = [ofile EXCEPT ![p][fd] = None]
  /\ FileClose(p, ofile[p][fd], Idle)
  /\ UNCHANGED <<disk, itable, cwd>>

Dup(p, fd) ==
  /\ Enters(p) /\ ofile[p][fd] # None /\ FreeFds(p) # {}
  /\ ofile' = [ofile EXCEPT ![p][Min(FreeFds(p))] = ofile[p][fd]]
  /\ file' = [file EXCEPT ![ofile[p][fd]].ref = @ + 1]
  /\ UNCHANGED <<disk, itable, cwd, loc>>

\* sys_pipe()
PipeCall(p) ==
  /\ Enters(p) /\ "pipe" \in Calls
  /\ loc' = [loc EXCEPT ![p] = [Idle EXCEPT !.pc = "pipe", !.call = "pipe"]]
  /\ UNCHANGED <<disk, itable, cwd, files>>

\* A filealloc() of pipealloc().
PipeFile(p) ==
  /\ loc[p].pc = "pipe" /\ Len(loc[p].held) < 2
  /\ IF FreeFiles = {} THEN Goto(p, "pipe_bad") /\ UNCHANGED file
     ELSE LET f == CHOOSE g \in FreeFiles : TRUE IN
          /\ file' = [file EXCEPT ![f].ref = 1]
          /\ loc' = [loc EXCEPT ![p].held = Append(@, f)]
  /\ UNCHANGED <<disk, itable, cwd, ofile, env>>

\* kalloc(), two descriptors, which only p sees, and copyout().  The call
\* fails at each of them, and takes its descriptors back.
PipeFds(p) ==
  /\ loc[p].pc = "pipe" /\ Len(loc[p].held) = 2
  /\ \/ Goto(p, "pipe_bad") /\ UNCHANGED files
     \/ /\ Cardinality(FreeFds(p)) >= 2
        /\ LET rf == loc[p].held[1]  fd0 == Min(FreeFds(p))
               wf == loc[p].held[2]  fd1 == Min(FreeFds(p) \ {fd0})
           IN  /\ file' = [file EXCEPT ![rf].type = "pipe", ![wf].type = "pipe"]
               /\ ofile' = [ofile EXCEPT ![p][fd0] = rf, ![p][fd1] = wf]
        /\ loc' = [loc EXCEPT ![p] = Idle]
  /\ UNCHANGED <<disk, itable, cwd, env>>

\* The fileclose() calls of the error paths of pipealloc() and sys_pipe().
PipeBad(p) ==
  /\ loc[p].pc = "pipe_bad"
  /\ IF loc[p].held = <<>> THEN loc' = [loc EXCEPT ![p] = Idle] /\ UNCHANGED file
     ELSE FileClose(p, Head(loc[p].held), [loc[p] EXCEPT !.held = Tail(@)])
  /\ UNCHANGED <<disk, itable, cwd, ofile, env>>

-----------------------------------------------------------------------------
(* Processes *)

\* kfork(): filedup() of every descriptor, idup() of cwd.
Fork(p, q) ==
  /\ Enters(p) /\ loc[q].pc = "gone"
  /\ ofile' = [ofile EXCEPT ![q] = ofile[p]]
  /\ file' = [f \in Files |->
       [file[f] EXCEPT !.ref = @ + Cardinality({fd \in FDs : ofile[p][fd] = f})]]
  /\ cwd' = [cwd EXCEPT ![q] = cwd[p]]
  /\ Iget(cwd[p])
  /\ loc' = [loc EXCEPT ![q] = Idle]
  /\ UNCHANGED <<disk, valid, ilk>>

Exiting == [Idle EXCEPT !.pc = "exit", !.call = "exit"]

\* kexit(): close every descriptor, then let cwd go.  The first process
\* never exits, so somebody is left.
Exit(p) ==
  /\ Enters(p)
  /\ \E q \in Procs \ {p} : loc[q].pc # "gone" /\ loc[q].call # "exit"
  /\ loc' = [loc EXCEPT ![p] = Exiting]
  /\ UNCHANGED <<disk, itable, cwd, files>>

ExitClose(p) ==
  /\ loc[p].pc = "exit" /\ FreeFds(p) # FDs
  /\ LET fd == Min(FDs \ FreeFds(p)) IN
       /\ ofile' = [ofile EXCEPT ![p][fd] = None]
       /\ FileClose(p, ofile[p][fd], Exiting)
  /\ UNCHANGED <<disk, itable, cwd, env>>

ExitCloseDone(p) ==
  /\ loc[p].pc = "exit_done"
  /\ EndOp(p, Exiting)
  /\ UNCHANGED <<fs, itable, cwd, files, env>>

ExitCwd(p) ==
  /\ loc[p].pc = "exit" /\ FreeFds(p) = FDs
  /\ cwd' = [cwd EXCEPT ![p] = 0]
  /\ GoPut(p, cwd[p], "exit_end")
  /\ UNCHANGED <<disk, itable, files, env>>

ExitEnd(p) ==
  /\ loc[p].pc = "exit_end"
  /\ EndOp(p, [Idle EXCEPT !.pc = "gone"])
  /\ UNCHANGED <<fs, itable, cwd, files, env>>

-----------------------------------------------------------------------------
(* Crash, and the boot that follows. *)

\* Every crash that hits a running system counts; one during ireclaim() does
\* not.  The log is recovered, userinit() has set up the first process at the
\* root, and fsinit() runs in it.
Booting == [Idle EXCEPT !.pc = "boot"]

Crash ==
  /\ Up => crashes < MaxCrashes
  /\ crashes' = IF Up THEN crashes + 1 ELSE crashes
  /\ fs' = saved /\ boot' = ROOTINO
  /\ ref' = [i \in Inums |-> IF i = ROOTINO THEN 1 ELSE 0]
  /\ valid' = [i \in Inums |-> FALSE]
  /\ ilk' = [i \in Inums |-> None]
  /\ \E first \in Procs :
       /\ cwd' = [p \in Procs |-> IF p = first THEN ROOTINO ELSE 0]
       /\ loc' = [p \in Procs |-> IF p = first THEN Booting ELSE [Idle EXCEPT !.pc = "gone"]]
  /\ file' = [f \in Files |-> NoFile]
  /\ ofile' = [p \in Procs |-> [fd \in FDs |-> None]]
  /\ reused' = {}
  /\ UNCHANGED <<saved, calls>>

\* The loop of ireclaim() goes on; after the last inode p runs init.
NextInum(p) ==
  /\ boot' = boot + 1
  /\ loc' = [loc EXCEPT ![p] = IF boot = NINODES THEN Idle ELSE Booting]

\* An orphan gets an entry of itable.
Reclaim(p) ==
  /\ loc[p].pc = "boot"
  /\ IF boot \in Orphans(fs)
       THEN /\ Iget(boot) /\ UNCHANGED boot
            /\ loc' = [loc EXCEPT ![p].pc = "reclaim", ![p].at = boot]
       ELSE NextInum(p) /\ UNCHANGED ref
  /\ UNCHANGED <<disk, valid, ilk, cwd, files, crashes, calls, reused>>

\* Mutant of ReclaimLock: the inode is not read.
ReclaimUnlocked(p) ==
  /\ loc[p].pc = "reclaim"
  /\ PutAt(p, "reclaimed")
  /\ UNCHANGED <<disk, itable, cwd, files, env>>

\* begin_op(), ilock(), iunlock(), and on to iput(), which frees the inode if
\* the entry is valid.
ReclaimLock(p) ==
  /\ loc[p].pc = "reclaim"
  /\ CanIlock(loc[p].at) /\ Ilock(loc[p].at)
  /\ PutAt(p, "reclaimed")
  /\ UNCHANGED <<disk, ref, ilk, cwd, files, env>>

\* end_op()
ReclaimEnd(p) ==
  /\ loc[p].pc = "reclaimed"
  /\ saved' = fs
  /\ NextInum(p)
  /\ UNCHANGED <<fs, itable, cwd, files, crashes, calls, reused>>

-----------------------------------------------------------------------------
\* A file system of an earlier boot; the processes have been forked and are at the root.
FsInit ==
  /\ fs \in Images /\ saved = fs
  /\ ref = [i \in Inums |-> IF i = ROOTINO THEN Cardinality(Procs) ELSE 0]
  /\ valid = [i \in Inums |-> FALSE]
  /\ ilk = [i \in Inums |-> None]
  /\ cwd = [p \in Procs |-> ROOTINO]
  /\ loc = [p \in Procs |-> Idle]
  /\ file = [f \in Files |-> NoFile]
  /\ ofile = [p \in Procs |-> [fd \in FDs |-> None]]
  /\ boot = NINODES + 1 /\ crashes = 0 /\ calls = 0 /\ reused = {}

Step(p) ==
  \/ InodeStep(p) /\ UNCHANGED <<files, env>>
  \/ Return(p) \/ Open(p) \/ OpenBad(p)
  \/ CreateExists(p) \/ CreateOpenExisting(p) \/ CreateNoInode(p) \/ CreateNew(p)
  \/ CreateFails(p) \/ UnlockAt(p) \/ CreateReturn(p)
  \/ UnlinkLookup(p) \/ UnlinkNotEmpty(p) \/ UnlinkEntry(p) \/ UnlinkDrop(p)
  \/ LinkOld(p) \/ LinkNew(p) \/ LinkOk(p) \/ LinkBad(p)
  \/ Chdir(p) \/ ChdirSet(p) \/ PipeFile(p) \/ PipeFds(p) \/ PipeBad(p)
  \/ ExitClose(p) \/ ExitCloseDone(p) \/ ExitCwd(p) \/ ExitEnd(p)
  \/ Reclaim(p) \/ ReclaimLock(p) \/ ReclaimEnd(p)

NewCall(p) ==
  \/ \E path \in Paths, c \in {"open", "create", "mkdir", "mknod", "unlink", "chdir"} :
       Call(p, c, path)
  \/ \E old, new \in Paths : LinkCall(p, old, new)
  \/ \E fd \in FDs : Close(p, fd) \/ Dup(p, fd)
  \/ \E q \in Procs : Fork(p, q)
  \/ PipeCall(p) \/ Exit(p)

\* All calls of the bound have returned; otherwise somebody can go on.
AllReturned ==
  /\ calls = MaxCalls /\ Up
  /\ \A p \in Procs : loc[p].pc \in {"idle", "gone"}
  /\ UNCHANGED fsVars

FsNext == (\E p \in Procs : Step(p) \/ NewCall(p)) \/ Crash \/ AllReturned

FsSpec == FsInit /\ [][FsNext]_fsVars
-----------------------------------------------------------------------------
(***************************************************************************)
(* Types.                                                                  *)
(***************************************************************************)
FsTypeOK ==
  /\ \A f \in {fs, saved} :
       /\ f.type \in [Inums -> {"free", "dir", "file", "dev"}]
       /\ f.nlink \in [Inums -> Nat]
       /\ f.dent \in [Inums -> [Names -> 0 .. NINODES]]
       /\ f.up \in [Inums -> 0 .. NINODES]
  /\ ref \in [Inums -> Nat] /\ valid \in [Inums -> BOOLEAN]
  /\ ilk \in [Inums -> Procs \cup {None}]
  /\ cwd \in [Procs -> 0 .. NINODES]
  /\ \A f \in Files : file[f].ref \in Nat
  /\ ofile \in [Procs -> [FDs -> Files \cup {None}]]
  /\ boot \in 1 .. NINODES + 1

\* chdir() has let the old directory go and has not stored the new one yet.
CwdStale(p) == loc[p].call = "chdir" /\ "set_cwd" \in {loc[p].pc, loc[p].ret}

References(i) ==
  LET one(b) == IF b THEN 1 ELSE 0 IN
  Cardinality({f \in Files : file[f].ref > 0 /\ file[f].ip = i})
  + FoldSet(LAMBDA p, sum : sum + one(loc[p].at = i) + one(loc[p].ip = i) + one(loc[p].put = i)
                                + one(cwd[p] = i /\ ~CwdStale(p)),
            0, Procs)

(***************************************************************************)
(* The reference count of an inode is the number of open files, current    *)
(* directories and calls under way that point to it, after every failure   *)
(* path of sysfile.c: no entry of itable leaks and none is let go twice.   *)
(***************************************************************************)
InodeRefsExact == \A i \in Inums : ref[i] = References(i)

(***************************************************************************)
(* The reference count of a file is the number of descriptors for it, over *)
(* all processes (dup, fork, pipe, exit), and of calls that have taken it  *)
(* and not filled it in yet.                                               *)
(***************************************************************************)
FileRefsExact ==
  \A f \in Files :
    file[f].ref = Cardinality({<<p, fd>> \in Procs \X FDs : ofile[p][fd] = f})
                  + Cardinality({p \in Procs : \E k \in DOMAIN loc[p].held : loc[p].held[k] = f})

\* The inode that p will lock next, 0 if none.
NextIlock(p) ==
  CASE loc[p].pc \in {"at", "exists", "reclaim"} -> loc[p].at
    [] loc[p].pc = "walk" /\ loc[p].path # <<>> -> loc[p].at
    [] loc[p].pc \in {"unlink_ip", "link_bad"} -> loc[p].ip
    [] OTHER -> 0

(***************************************************************************)
(* An inode in use is never freed: ilock() never finds type 0 (it would    *)
(* panic), and an open file and a current directory stay allocated however *)
(* often they are unlinked.  That is so as long as no path goes through    *)
(* "..", whose inode the directory does not hold (run fs_dotdot).          *)
(***************************************************************************)
NoIlockPanic ==
  \A p \in Procs :
    /\ NextIlock(p) # 0 => fs.type[NextIlock(p)] # "free"
    /\ cwd[p] # 0 /\ ~CwdStale(p) => IsDir(cwd[p])
    /\ \A fd \in FDs : LET f == ofile[p][fd] IN
         f # None /\ file[f].type = "inode" => fs.type[file[f].ip] # "free"

\* The links to i: entries, the ".." of its subdirectories, and the root.
Links(f, i) ==
  Cardinality({<<d, n>> \in Inums \X Names : f.type[d] = "dir" /\ f.dent[d][n] = i})
  + Cardinality({n \in Names : f.dent[i][n] # 0 /\ f.type[f.dent[i][n]] = "dir"})
  + (IF i = ROOTINO THEN 1 ELSE 0)

(***************************************************************************)
(* What a crash leaves is a file system: an entry names an allocated inode *)
(* and no inode has more links than its nlink says, so nothing is freed    *)
(* that has a name.  (nlink may be too large: an entry made in a directory *)
(* that is being removed goes with it, and the inode it named stays.)      *)
(***************************************************************************)
SavedConsistent ==
  /\ saved.type[ROOTINO] = "dir"
  /\ \A i \in Inums :
       /\ saved.type[i] = "dir" =>
            \A n \in Names : saved.dent[i][n] # 0 => saved.type[saved.dent[i][n]] # "free"
       /\ saved.type[i] # "free" => saved.nlink[i] >= Links(saved, i)

(***************************************************************************)
(* No inode is lost: one without a name is in use, so that its last iput() *)
(* frees it, or still ahead of ireclaim() after a crash.  That is so for   *)
(* every order of unlink, close and exit, for the failures of create() and *)
(* link(), and when power fails again during ireclaim().  The exception is *)
(* an inode that ialloc() hands out while the iput() that freed it has yet *)
(* to drop its reference: the next iput() may count that one too, and then *)
(* only a boot frees it.                                                   *)
(***************************************************************************)
OrphansReclaimed ==
  \A i \in Orphans(fs) : ref[i] > 0 \/ i >= boot \/ i \in reused

(***************************************************************************)
(* The counts of itable and ftable are exact on every path of sysfile.c,   *)
(* and what they count is not freed under its users by iput(), where no    *)
(* path goes through "..".                                                 *)
(***************************************************************************)
ReferencesSound == FsTypeOK /\ InodeRefsExact /\ FileRefsExact /\ NoIlockPanic
=============================================================================
