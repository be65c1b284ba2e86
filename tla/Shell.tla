------------------------------- MODULE Shell -------------------------------
(***************************************************************************)
(* The shell (user/sh.c) and init (user/init.c): a line typed at the       *)
(* prompt is parsed into a tree in a child of the shell, and the tree is   *)
(* run by processes that fork, rewire their descriptors and exec.          *)
(*                                                                         *)
(* A line is the sequence of the tokens that gettoken() returns, "a" for   *)
(* every word; a word is told apart by its position.  A pipe is a count of *)
(* bytes, as ByteQueue promises of the kernel's; it is named after the bar *)
(* that made it.  System calls of one process that touch only its own      *)
(* descriptors and cannot wait are one step.                               *)
(***************************************************************************)
EXTENDS Integers, Sequences, FiniteSetsExt

CONSTANTS
  Scripts,   \* what may be typed: sequences of lines; <<"eof">> is ^D
  NSLOT,     \* processes at a time
  MAXARGS,
  MaxLine,   \* bound on the tokens of a line
  PIPECAP,   \* bytes a pipe holds
  MaxOut     \* bound on the bytes a program writes

ASSUME ShellAssumption ==
  /\ NSLOT \in Nat \ {0} /\ MAXARGS \in Nat /\ PIPECAP \in Nat \ {0} /\ MaxOut \in Nat
  /\ \A s \in Scripts : \A k \in DOMAIN s : Len(s[k]) <= MaxLine

VARIABLES
  script, typed,   \* the lines to be typed, how many have been
  proc,            \* the processes; slot 1 is init
  pid,             \* the local of init's main(): the shell it started
  inpipe,          \* bytes in each pipe
  failed           \* a fork, pipe, open or exec has failed, or a process was killed

shVars == <<script, typed, proc, pid, inpipe, failed>>

-----------------------------------------------------------------------------
(* Constructors *)

ExecCmd == [type |-> "EXEC", argv |-> <<>>]
RedirCmd(subcmd, file, fd) == [type |-> "REDIR", cmd |-> subcmd, file |-> file, fd |-> fd]
PipeCmd(left, right, bar) == [type |-> "PIPE", left |-> left, right |-> right, bar |-> bar]
ListCmd(left, right) == [type |-> "LIST", left |-> left, right |-> right]
BackCmd(subcmd) == [type |-> "BACK", cmd |-> subcmd]

-----------------------------------------------------------------------------
(* The parser.  A result is the tree and the position reached; panic() is  *)
(* the position 0, where every look sees the end, so the callers return.   *)

Token(l, ps) == IF ps \in DOMAIN l THEN l[ps] ELSE "end"
Peek(l, r, toks) == Token(l, r.ps) \in toks
Parsed(cmd, ps) == [cmd |-> cmd, ps |-> ps]
SyntaxPanic(r) == [r EXCEPT !.ps = 0]

RECURSIVE ParseRedirs(_, _)
ParseRedirs(l, r) ==
  IF ~Peek(l, r, {"<", ">", ">>"}) THEN r
  ELSE IF Token(l, r.ps + 1) # "a" THEN SyntaxPanic(r)
  ELSE ParseRedirs(l, Parsed(RedirCmd(r.cmd, r.ps + 1, IF Peek(l, r, {"<"}) THEN 0 ELSE 1),
                             r.ps + 2))

\* cmd->argv[argc] = q, on the leaf below the redirections that surround it.
RECURSIVE AddArg(_, _)
AddArg(c, q) ==
  IF c.type = "EXEC" THEN [c EXCEPT !.argv = Append(@, q)]
                     ELSE [c EXCEPT !.cmd = AddArg(@, q)]

RECURSIVE Argc(_)
Argc(c) == IF c.type = "EXEC" THEN Len(c.argv) ELSE Argc(c.cmd)

\* The loop of parseexec().
RECURSIVE ParseArgs(_, _)
ParseArgs(l, r) ==
  LET more == AddArg(r.cmd, r.ps)
  IN  IF Peek(l, r, {"|", ")", "&", ";", "end"}) THEN r
      ELSE IF ~Peek(l, r, {"a"}) \/ Argc(more) >= MAXARGS THEN SyntaxPanic(r)
      ELSE ParseArgs(l, ParseRedirs(l, Parsed(more, r.ps + 1)))

RECURSIVE ParseBacks(_, _)
ParseBacks(l, r) ==
  IF Peek(l, r, {"&"}) THEN ParseBacks(l, Parsed(BackCmd(r.cmd), r.ps + 1)) ELSE r

RECURSIVE ParseLine(_, _), ParsePipe(_, _), ParseBlock(_, _)

ParseExec(l, ps) ==
  IF Token(l, ps) = "(" THEN ParseBlock(l, ps)
  ELSE ParseArgs(l, ParseRedirs(l, Parsed(ExecCmd, ps)))

ParsePipe(l, ps) ==
  LET left == ParseExec(l, ps)
      right == ParsePipe(l, left.ps + 1)
  IN  IF Peek(l, left, {"|"}) THEN Parsed(PipeCmd(left.cmd, right.cmd, left.ps), right.ps)
                              ELSE left

ParseLine(l, ps) ==
  LET left == ParseBacks(l, ParsePipe(l, ps))
      right == ParseLine(l, left.ps + 1)
  IN  IF Peek(l, left, {";"}) THEN Parsed(ListCmd(left.cmd, right.cmd), right.ps) ELSE left

ParseBlock(l, ps) ==
  LET body == ParseLine(l, ps + 1)
  IN  IF Peek(l, body, {")"}) THEN ParseRedirs(l, Parsed(body.cmd, body.ps + 1))
                              ELSE SyntaxPanic(body)

\* parsecmd(), for every line that may be typed.
Lines == UNION {{s[k] : k \in DOMAIN s} : s \in Scripts}
ParseCmd == [l \in Lines |-> ParseLine(l, 1)]
Accepted(l) == ParseCmd[l].ps = Len(l) + 1

-----------------------------------------------------------------------------
(* Processes and descriptors *)

Slots == 1 .. NSLOT
FDs == 0 .. 4
Obj(kind, at) == [kind |-> kind, at |-> at]
Closed == Obj("closed", 0)
Console == Obj("console", 0)
Standard == [fd \in FDs |-> IF fd < 3 THEN Console ELSE Closed]

Unused == [at |-> "unused", cmd |-> ExecCmd, line |-> 0, fd |-> [fd \in FDs |-> Closed],
           p |-> <<0, 0>>, parent |-> 0, out |-> 0, eof |-> FALSE]

CloseFd(fds, fd) == [fds EXCEPT ![fd] = Closed]
\* fdalloc(): the lowest free descriptor.
LowestFd(fds) == Min({fd \in FDs : fds[fd] = Closed})
OpenFd(fds, obj) == [fds EXCEPT ![LowestFd(fds)] = obj]
DupFd(fds, fd) == OpenFd(fds, fds[fd])

\* The name of the pipe that the bar at a position of a line makes.
PipeName(line, bar) == (MaxLine + 1) * line + bar
Holds(p, obj) == \E fd \in FDs : proc[p].fd[fd] = obj
HasEnd(kind, name) == \E p \in Slots : Holds(p, Obj(kind, name))

\* exit(): descriptors closed, children given to init, a zombie for the parent.
Exit(p) ==
  proc' = [q \in Slots |->
    IF q = p THEN [Unused EXCEPT !.at = "zombie", !.parent = proc[p].parent]
    ELSE IF proc[q].parent = p THEN [proc[q] EXCEPT !.parent = 1]
    ELSE proc[q]]

\* The kernel panics, and nothing runs any more.
Panic == proc' = [q \in Slots |-> [Unused EXCEPT !.at = "panic"]]
Panicked == proc[1].at = "panic"

\* wait(0): the first zombie child in the table goes, p moves on; at once,
\* with -1, when it has no child.  Or kfree() asks for the lock that kwait()
\* holds on the child, as in Proc, and acquire() panics.
Children(p) == {q \in Slots : proc[q].at # "unused" /\ proc[q].parent = p}
Zombies(p) == {q \in Children(p) : proc[q].at = "zombie"}
Wait(p, at) ==
  IF Children(p) = {} THEN proc' = [proc EXCEPT ![p].at = at]
  ELSE /\ Zombies(p) # {}
       /\ Panic \/ proc' = [proc EXCEPT ![Min(Zombies(p))] = Unused, ![p].at = at]

Fail(p) == failed' = TRUE /\ Exit(p)

\* The slot fork() fills.
FreeSlots == {q \in Slots : proc[q].at = "unused"}

\* fork1(): the child continues at label at with cmd, the parent at next; on
\* failure panic() exits.
Fork1(p, at, cmd, next) ==
  \/ /\ FreeSlots # {}
     /\ proc' = [proc EXCEPT ![Min(FreeSlots)] =
                               [proc[p] EXCEPT !.at = at, !.cmd = cmd, !.parent = p],
                             ![p].at = next]
     /\ UNCHANGED failed
  \/ (FreeSlots = {} \/ ~failed) /\ Fail(p)

-----------------------------------------------------------------------------
(* init *)

\* The child goes on to exec("sh").  A fork that fails ends init, and kexit()
\* panics.
InitFork ==
  /\ proc[1].at = "init"
  /\ \/ /\ FreeSlots # {} /\ pid' = Min(FreeSlots)
        /\ proc' = [proc EXCEPT ![pid'] = [proc[1] EXCEPT !.at = "sh_exec", !.parent = 1],
                                ![1].at = "init_wait"]
     \/ (FreeSlots = {} \/ ~failed) /\ Panic /\ UNCHANGED pid
  /\ UNCHANGED <<script, typed, inpipe, failed>>

\* Descriptors 0, 1 and 2 are inherited, so the shell's first open("console")
\* yields 3 and is closed again.
ShExec(p) ==
  /\ proc[p].at = "sh_exec"
  /\ \/ proc' = [proc EXCEPT ![p].at = "prompt"] /\ UNCHANGED failed
     \/ ~failed /\ Fail(p)
  /\ UNCHANGED <<script, typed, pid, inpipe>>

\* Mutant of InitWait: parentless processes are left alone.
InitWaitShell ==
  /\ proc[1].at = "init_wait" /\ pid \in Zombies(1)
  /\ proc' = [proc EXCEPT ![pid] = Unused, ![1].at = "init"]
  /\ UNCHANGED <<script, typed, pid, inpipe, failed>>

\* wpid == pid: the shell is restarted; otherwise it was a parentless process.
\* Without a child init would exit.
InitWait ==
  /\ proc[1].at = "init_wait"
  /\ IF Children(1) = {} THEN Panic
     ELSE Wait(1, IF Min(Zombies(1)) = pid THEN "init" ELSE "init_wait")
  /\ UNCHANGED <<script, typed, pid, inpipe, failed>>

-----------------------------------------------------------------------------
(* main() of the shell *)

GetCmd(p) ==
  LET l == script[typed + 1]
  IN  /\ proc[p].at = "prompt" /\ typed < Len(script)
      /\ typed' = typed + 1
      /\ IF l = <<"eof">> THEN Exit(p)
         ELSE proc' = [proc EXCEPT ![p].at = IF l = <<>> THEN "prompt" ELSE "sh_fork",
                                   ![p].line = typed']
      /\ UNCHANGED <<script, pid, inpipe, failed>>

ShFork(p) ==
  /\ proc[p].at = "sh_fork"
  /\ Fork1(p, "parse", ExecCmd, "sh_wait")
  /\ UNCHANGED <<script, typed, pid, inpipe>>

ShWait(p) ==
  /\ proc[p].at = "sh_wait"
  /\ Wait(p, "prompt")
  /\ UNCHANGED <<script, typed, pid, inpipe, failed>>

\* runcmd(parsecmd(cmd)), in the child.
ShParse(p) ==
  LET l == script[proc[p].line]
  IN  /\ proc[p].at = "parse"
      /\ IF Accepted(l)
           THEN proc' = [proc EXCEPT ![p].at = "run", ![p].cmd = ParseCmd[l].cmd]
           ELSE Exit(p)
      /\ UNCHANGED <<script, typed, pid, inpipe, failed>>

-----------------------------------------------------------------------------
(* runcmd() *)

Runs(p, type) == proc[p].at = "run" /\ proc[p].cmd.type = type

RunExec(p) ==
  /\ Runs(p, "EXEC")
  /\ \/ /\ proc[p].cmd.argv = <<>>
        /\ Exit(p) /\ UNCHANGED failed
     \/ /\ proc[p].cmd.argv # <<>>
        /\ proc' = [proc EXCEPT ![p].at = "program"] /\ UNCHANGED failed
     \/ proc[p].cmd.argv # <<>> /\ ~failed /\ Fail(p)
  /\ UNCHANGED <<script, typed, pid, inpipe>>

RunRedir(p) ==
  LET c == proc[p].cmd
  IN  /\ Runs(p, "REDIR")
      /\ \/ /\ proc' = [proc EXCEPT ![p].cmd = c.cmd,
                                    ![p].fd = OpenFd(CloseFd(@, c.fd), Obj("file", c.file))]
            /\ UNCHANGED failed
         \/ ~failed /\ Fail(p)
      /\ UNCHANGED <<script, typed, pid, inpipe>>

\* Mutant of RunList: the right side does not wait for the left.
RunListAtOnce(p) ==
  /\ \/ /\ Runs(p, "LIST")
        /\ Fork1(p, "run", proc[p].cmd.left, "list_wait")
     \/ /\ proc[p].at = "list_wait"
        /\ proc' = [proc EXCEPT ![p].at = "run", ![p].cmd = @.right]
        /\ UNCHANGED failed
  /\ UNCHANGED <<script, typed, pid, inpipe>>

RunList(p) ==
  /\ \/ /\ Runs(p, "LIST")
        /\ Fork1(p, "run", proc[p].cmd.left, "list_wait")
     \/ /\ proc[p].at = "list_wait"
        /\ Wait(p, "list_right")
        /\ UNCHANGED failed
     \/ /\ proc[p].at = "list_right"
        /\ proc' = [proc EXCEPT ![p].at = "run", ![p].cmd = @.right]
        /\ UNCHANGED failed
  /\ UNCHANGED <<script, typed, pid, inpipe>>

RunBack(p) ==
  /\ \/ Runs(p, "BACK") /\ Fork1(p, "run", proc[p].cmd.cmd, "exit")
     \/ proc[p].at = "exit" /\ Exit(p) /\ UNCHANGED failed
  /\ UNCHANGED <<script, typed, pid, inpipe>>

\* pipe(p), which takes the two lowest free descriptors.
RunPipe(p) ==
  LET name == PipeName(proc[p].line, proc[p].cmd.bar)
      p0 == LowestFd(proc[p].fd)
      withRead == OpenFd(proc[p].fd, Obj("read", name))
      p1 == LowestFd(withRead)
  IN  /\ Runs(p, "PIPE")
      /\ \/ /\ proc' = [proc EXCEPT ![p].at = "pipe_left", ![p].p = <<p0, p1>>,
                                    ![p].fd = OpenFd(withRead, Obj("write", name))]
            /\ UNCHANGED failed
         \/ ~failed /\ Fail(p)
      /\ UNCHANGED <<script, typed, pid, inpipe>>

PipeFork(p) ==
  /\ \/ proc[p].at = "pipe_left" /\ Fork1(p, "left", proc[p].cmd.left, "pipe_right")
     \/ proc[p].at = "pipe_right" /\ Fork1(p, "right", proc[p].cmd.right, "pipe_close")
  /\ UNCHANGED <<script, typed, pid, inpipe>>

CloseBoth(fds, ends) == CloseFd(CloseFd(fds, ends[1]), ends[2])

\* Mutant of PipeSide: the ends of the pipe stay open in the children.
PipeSideOpen(p, at, fd, end) ==
  /\ proc[p].at = at
  /\ proc' = [proc EXCEPT ![p].at = "run", ![p].fd = DupFd(CloseFd(@, fd), end)]
  /\ UNCHANGED <<script, typed, pid, inpipe, failed>>

\* The child on one side of a bar: close(fd); dup(end); close(p[0]); close(p[1]).
PipeSide(p, at, fd, end) ==
  /\ proc[p].at = at
  /\ proc' = [proc EXCEPT ![p].at = "run",
                          ![p].fd = CloseBoth(DupFd(CloseFd(@, fd), end), proc[p].p)]
  /\ UNCHANGED <<script, typed, pid, inpipe, failed>>

PipeLeft(p) == PipeSide(p, "left", 1, proc[p].p[2])
PipeRight(p) == PipeSide(p, "right", 0, proc[p].p[1])

\* Mutant of PipeWait: the parent keeps the ends of the pipe while it waits.
PipeWaitOpen(p) ==
  /\ \/ /\ proc[p].at = "pipe_close"
        /\ proc' = [proc EXCEPT ![p].at = "pipe_wait1"]
     \/ proc[p].at = "pipe_wait1" /\ Wait(p, "pipe_wait2")
     \/ proc[p].at = "pipe_wait2" /\ Wait(p, "exit")
  /\ UNCHANGED <<script, typed, pid, inpipe, failed>>

PipeWait(p) ==
  /\ \/ /\ proc[p].at = "pipe_close"
        /\ proc' = [proc EXCEPT ![p].at = "pipe_wait1", ![p].fd = CloseBoth(@, proc[p].p)]
     \/ proc[p].at = "pipe_wait1" /\ Wait(p, "pipe_wait2")
     \/ proc[p].at = "pipe_wait2" /\ Wait(p, "exit")
  /\ UNCHANGED <<script, typed, pid, inpipe, failed>>

-----------------------------------------------------------------------------
(* The programs, as the shell relies on them: they read their input to its *)
(* end, write up to MaxOut bytes and exit; some quit early.                *)

Input(p) == proc[p].fd[0]
Output(p) == proc[p].fd[1]
Written(p) == Output(p).kind # "write" \/ proc[p].out = MaxOut

ProgRead(p) ==
  /\ proc[p].at = "program" /\ Input(p).kind = "read" /\ ~proc[p].eof
  /\ \/ /\ inpipe[Input(p).at] > 0
        /\ inpipe' = [inpipe EXCEPT ![Input(p).at] = @ - 1]
        /\ UNCHANGED proc
     \/ /\ inpipe[Input(p).at] = 0 /\ ~HasEnd("write", Input(p).at)
        /\ proc' = [proc EXCEPT ![p].eof = TRUE]
        /\ UNCHANGED inpipe
  /\ UNCHANGED <<script, typed, pid, failed>>

ProgWrite(p) ==
  /\ proc[p].at = "program" /\ ~Written(p)
  /\ \/ /\ HasEnd("read", Output(p).at) /\ inpipe[Output(p).at] < PIPECAP
        /\ inpipe' = [inpipe EXCEPT ![Output(p).at] = @ + 1]
        /\ proc' = [proc EXCEPT ![p].out = @ + 1]
     \/ /\ ~HasEnd("read", Output(p).at)
        /\ Exit(p)
        /\ UNCHANGED inpipe
  /\ UNCHANGED <<script, typed, pid, failed>>

ProgExit(p) ==
  /\ proc[p].at = "program" /\ Written(p)
  /\ Input(p).kind = "read" => proc[p].eof
  /\ Exit(p)
  /\ UNCHANGED <<script, typed, pid, inpipe, failed>>

ProgQuit(p) ==
  /\ proc[p].at = "program"
  /\ Exit(p)
  /\ UNCHANGED <<script, typed, pid, inpipe, failed>>

\* A program calls kill(): the process exits when it next returns from the
\* kernel, its wait() cut short; init may not.  (A program that is killed has
\* quit.)
ShKill(p) ==
  /\ ~failed /\ proc[p].at \notin {"unused", "zombie", "program"}
  /\ \E q \in Slots : proc[q].at = "program"
  /\ IF p = 1 THEN Panic /\ UNCHANGED failed ELSE Fail(p)
  /\ UNCHANGED <<script, typed, pid, inpipe>>

-----------------------------------------------------------------------------
Bars(s) == {PipeName(k, j) : k \in DOMAIN s, j \in 1 .. MaxLine}

ShInit ==
  /\ script \in Scripts /\ typed = 0
  /\ proc = [p \in Slots |-> IF p = 1 THEN [Unused EXCEPT !.at = "init", !.fd = Standard]
                                      ELSE Unused]
  /\ pid = 0 /\ failed = FALSE
  /\ inpipe = [b \in Bars(script) |-> 0]

\* What a process does by itself; a user need not type, a program need not quit
\* or kill.
ShStep(p) ==
  \/ p = 1 /\ (InitFork \/ InitWait)
  \/ ShExec(p) \/ ShFork(p) \/ ShWait(p) \/ ShParse(p)
  \/ RunExec(p) \/ RunRedir(p) \/ RunList(p) \/ RunBack(p)
  \/ RunPipe(p) \/ PipeFork(p) \/ PipeLeft(p) \/ PipeRight(p) \/ PipeWait(p)
  \/ ProgRead(p) \/ ProgWrite(p) \/ ProgExit(p)

ShNext == \E p \in Slots : ShStep(p) \/ GetCmd(p) \/ ProgQuit(p) \/ ShKill(p)

\* The scheduler runs every runnable process again and again.
ShFairness == \A p \in Slots : WF_shVars(ShStep(p))
ShSpec == ShInit /\ [][ShNext]_shVars /\ ShFairness

-----------------------------------------------------------------------------
(* What a line means, read off its tokens without the parser.              *)

\* Parentheses open before the token at j.
Depth(l, j) == Cardinality({k \in 1 .. j - 1 : l[k] = "("})
               - Cardinality({k \in 1 .. j - 1 : l[k] = ")"})
Joints == {"|", "&", ";", "(", ")"}

\* A unit is a command or a group: first and last token, and the first token
\* of its own redirections.
FirstFrom(S, otherwise) == IF S = {} THEN otherwise ELSE Min(S)
EndOf(l, j) == FirstFrom({k \in j + 1 .. Len(l) : l[k] \in Joints}, Len(l) + 1) - 1
CommandOf(l, w) ==
  LET joint == Max({k \in 1 .. w : l[k] \in Joints} \cup {0})
  IN  [s |-> joint + 1, from |-> joint + 1, t |-> EndOf(l, w)]
GroupOf(l, u) ==
  LET b == Max({k \in 1 .. u.s - 1 : l[k] = "(" /\ Depth(l, k) = Depth(l, u.s) - 1})
      e == Min({k \in b + 1 .. Len(l) : l[k] = ")" /\ Depth(l, k) = Depth(l, u.s)})
  IN  [s |-> b, from |-> e + 1, t |-> EndOf(l, e)]

Redirections(l, u, kinds) == {k \in u.from .. u.t : l[k] \in kinds}

\* Where a unit reads from: its first redirection (the innermost, opened last),
\* else the bar before it, else what its group reads.
RECURSIVE Source(_, _, _)
Source(l, no, u) ==
  IF Redirections(l, u, {"<"}) # {} THEN Obj("file", Min(Redirections(l, u, {"<"})) + 1)
  ELSE IF Token(l, u.s - 1) = "|" THEN Obj("read", PipeName(no, u.s - 1))
  ELSE IF Depth(l, u.s) > 0 THEN Source(l, no, GroupOf(l, u))
  ELSE Console

RECURSIVE Sink(_, _, _)
Sink(l, no, u) ==
  IF Redirections(l, u, {">", ">>"}) # {}
    THEN Obj("file", Min(Redirections(l, u, {">", ">>"})) + 1)
  ELSE IF Token(l, u.t + 1) = "|" THEN Obj("write", PipeName(no, u.t + 1))
  ELSE IF Depth(l, u.s) > 0 THEN Sink(l, no, GroupOf(l, u))
  ELSE Console

\* The pipeline of the unit, or a group around it, is followed by &.
RECURSIVE InBackground(_, _)
InBackground(l, u) ==
  LET stop == FirstFrom({k \in u.t + 1 .. Len(l) : l[k] \in {"&", ";", ")"}
                                                  /\ Depth(l, k) = Depth(l, u.s)}, 0)
  IN  \/ Token(l, stop) = "&"
      \/ Depth(l, u.s) > 0 /\ InBackground(l, GroupOf(l, u))

\* A semicolon that is not inside a group orders w before v.
Ordered(l, w, v) ==
  \E j \in w .. v : /\ l[j] = ";"
                    /\ \A k \in w .. v : Depth(l, k) >= Depth(l, j)
                    /\ \A k \in w .. j : l[k] # "&"

-----------------------------------------------------------------------------
(***************************************************************************)
(* Types; and every process but init has a parent that has not exited, so  *)
(* somebody can wait for it.                                               *)
(***************************************************************************)
ShTypeOK ==
  /\ typed \in 0 .. Len(script)
  /\ pid \in 0 .. NSLOT /\ failed \in BOOLEAN
  /\ inpipe \in [Bars(script) -> 0 .. PIPECAP]
  /\ DOMAIN proc = Slots
  /\ \A p \in Slots :
       /\ proc[p].line \in 0 .. typed /\ proc[p].out \in 0 .. MaxOut
       /\ \A fd \in FDs : proc[p].fd[fd].kind \in {"closed", "console", "file", "read", "write"}
       /\ p # 1 /\ proc[p].at # "unused" /\ ~Panicked =>
            proc[p].parent \in Slots /\ proc[proc[p].parent].at \notin {"unused", "zombie"}

(***************************************************************************)
(* A program starts with the words of its command and with descriptors 0   *)
(* and 1 where the line says: at its redirection, at the bar next to it,   *)
(* or at what the group around it uses.  It holds no other descriptor but  *)
(* 2: runcmd() has closed every end of every pipe it passed on the way.    *)
(***************************************************************************)
WiredAsWritten ==
  \A p \in Slots : proc[p].at = "program" =>
    LET l == script[proc[p].line]
        argv == proc[p].cmd.argv
        u == CommandOf(l, argv[1])
    IN  /\ {argv[k] : k \in DOMAIN argv}
             = {k \in u.s .. u.t : l[k] = "a" /\ Token(l, k - 1) \notin {"<", ">", ">>"}}
        /\ \A k \in 2 .. Len(argv) : argv[k - 1] < argv[k]
        /\ proc[p].fd = [Standard EXCEPT ![0] = Source(l, proc[p].line, u),
                                         ![1] = Sink(l, proc[p].line, u)]

(***************************************************************************)
(* The prompt comes back only when every program of the line has exited,   *)
(* but those that an & left behind.  The calls to wait(0) count children   *)
(* without looking at who exited; a call that fails ends a runcmd() early  *)
(* and its children run on.                                                *)
(***************************************************************************)
PromptAfterForeground ==
  (\E p \in Slots : proc[p].at = "prompt") /\ ~failed =>
    \A p \in Slots : proc[p].at = "program" =>
      LET l == script[proc[p].line] IN InBackground(l, CommandOf(l, proc[p].cmd.argv[1]))

(***************************************************************************)
(* Programs on the two sides of a semicolon never run at the same time,    *)
(* also inside a group and next to pipes.                                  *)
(***************************************************************************)
SemicolonOrders ==
  \A p, q \in Slots :
    /\ ~failed /\ proc[p].at = "program" /\ proc[q].at = "program"
    /\ proc[p].line = proc[q].line
    => ~Ordered(script[proc[p].line], proc[p].cmd.argv[1], proc[q].cmd.argv[1])

(***************************************************************************)
(* The waits of runcmd() and main() order the programs as the line says: a *)
(* semicolon separates them and the prompt follows the foreground.         *)
(***************************************************************************)
RunsInOrder == ShTypeOK /\ PromptAfterForeground /\ SemicolonOrders

(***************************************************************************)
(* Unless the kernel panics, the prompt always comes back, from every      *)
(* line, failed call, kill and early exit, and after the shell itself has  *)
(* gone: no reader waits for an end of file that an open descriptor holds  *)
(* up, no wait() for a child that somebody else has reaped.                *)
(***************************************************************************)
PromptReturns == []<>(Panicked \/ \E p \in Slots : proc[p].at = "prompt")

(***************************************************************************)
(* No zombie stays unless the kernel panics: its parent waits for it, or   *)
(* exits and leaves it to init, which waits for ever.                      *)
(***************************************************************************)
ZombiesReaped == []<>(Panicked \/ \A p \in Slots : proc[p].at # "zombie")
=============================================================================
