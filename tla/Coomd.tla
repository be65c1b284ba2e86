-------------------------------- MODULE Coomd --------------------------------
(***************************************************************************)
(* The OOM daemon for Linux (coomd/daemon): its loop, which watches the    *)
(* pressure, lists the processes, asks the helper (coomd/LLM_client) over  *)
(* two pipes and validates the pids of the answer, while processes start   *)
(* and end around it and pids are used again.  A pass is only reported: no *)
(* signal is sent in either mode.                                          *)
(***************************************************************************)
EXTENDS Integers, Sequences, FiniteSets, Functions

CONSTANTS
  None,
  Self,            \* the daemon's pid
  Users,           \* the pids of the other processes, except 1
  Names,           \* what those are called
  Rss,             \* bound: how much memory a process may have
  BootRss,         \* bound: how much of it init and the daemon have
  R2_TMP_MAX, MAX_CANDIDATES,
  FDLIMIT,         \* descriptors the daemon may have beside its standard ones
  Answers          \* bound: the lists of numbers a model may answer

ASSUME CoomdAssumption ==
  /\ Self \in Nat /\ Self > 1 /\ Users \subseteq Nat \ {0, 1, Self}
  /\ Rss \subseteq Nat /\ BootRss \subseteq Rss
  /\ R2_TMP_MAX \in Nat \ {0} /\ MAX_CANDIDATES \in Nat \ {0} /\ FDLIMIT \in Nat
  /\ Answers \subseteq Seq(Int)

VARIABLES
  world,    \* the process of every pid, or None
  fresh,    \* the verdict's pid, once a process got it or a name since
  pc,       \* where the daemon is
  fds,      \* its open descriptors, beside the standard ones
  failed,   \* whether a pipe() or fork() has ever failed
  todo,     \* the pids readdir() has not returned yet
  tmp, candidates,
  seen,     \* history: what r2_collect_candidates() has read
  child,    \* the helper: "none", "exec", "run", "answered" or "exited"
  request,  \* what is in the pipe to the helper, or None
  answer,   \* the numbers in the pipe from the helper, or None
  victims,  \* the pids not validated yet
  verdict   \* the last pid of the cycle validated and the outcome

daemon == <<pc, fds, failed, todo, tmp, candidates, seen, victims, verdict>>
pipes == <<child, request, answer>>
vars == <<world, fresh, daemon, pipes>>

PROTECTED_NAMES == {"systemd", "sshd", "dbus-daemon", "init", "coomd"}
always_safe == {"systemd", "init", "sshd", "dbus-daemon"}

Pids == {1, Self} \cup Users
NoVerdict == [pid |-> 0, pass |-> FALSE, named |-> FALSE]
Process == [name : Names, rss : Rss]
Candidate == [pid : Pids, name : Names \cup {"init", "coomd"}, rss : Nat]

-----------------------------------------------------------------------------
(* The other processes.                                                    *)

Start(q) ==
  /\ world[q] = None /\ fresh' = fresh \cup ({q} \cap {verdict.pid})
  /\ \E x \in Process : world' = [world EXCEPT ![q] = x]
  /\ UNCHANGED <<daemon, pipes>>

\* exec() or prctl() gives a running process another name.
Rename(q) ==
  /\ world[q] # None /\ fresh' = fresh \cup ({q} \cap {verdict.pid})
  /\ \E n \in Names : world' = [world EXCEPT ![q] = [@ EXCEPT !.name = n]]
  /\ UNCHANGED <<daemon, pipes>>

End(q) ==
  /\ world[q] # None /\ world' = [world EXCEPT ![q] = None]
  /\ UNCHANGED <<fresh, daemon, pipes>>

-----------------------------------------------------------------------------
(* Watching and listing.                                                   *)

\* sleep(5), then the top of the loop.
Again == pc' = "check"

\* r1_check_pressure() opens the pressure file, and says no when it cannot.
CheckPressure ==
  /\ pc = "check" /\ fds < FDLIMIT
  /\ pc' = "scan" /\ todo' = Pids /\ verdict' = NoVerdict /\ fresh' = {}
  /\ UNCHANGED <<world, fds, failed, tmp, candidates, seen, victims, pipes>>

\* readdir() returns the least pid left; r2_read_status() reads it now, beside
\* the directory's own descriptor, or cannot open its file, for want of a
\* descriptor or for any other reason.  The gone and those without memory are
\* left out, and so is everything past R2_TMP_MAX.
ScanOne ==
  /\ pc = "scan" /\ Len(tmp) < R2_TMP_MAX
  /\ \E q \in todo :
       /\ \A x \in todo : q <= x
       /\ todo' = todo \ {q}
       /\ \/ /\ fds + 1 < FDLIMIT /\ world[q] # None /\ world[q].rss > 0
             /\ LET c == [pid |-> q, name |-> world[q].name, rss |-> world[q].rss]
                IN tmp' = Append(tmp, c) /\ seen' = seen \cup {c}
          \/ UNCHANGED <<tmp, seen>>
  /\ UNCHANGED <<world, fresh, pc, fds, failed, candidates, victims, verdict, pipes>>

ScanEnd ==
  /\ pc = "scan" /\ (todo = {} \/ Len(tmp) = R2_TMP_MAX)
  /\ todo' = {} /\ pc' = "sort"
  /\ UNCHANGED <<world, fresh, fds, failed, tmp, candidates, seen, victims, verdict, pipes>>

Limit(s) == IF Len(s) < MAX_CANDIDATES THEN Len(s) ELSE MAX_CANDIDATES

\* Mutant of Largest: the search ends where the list does.
LargestShort(s, i) ==
  {m \in i .. Limit(s) : /\ \A k \in i .. Limit(s) : s[k].rss <= s[m].rss
                         /\ \A k \in i .. m - 1 : s[k].rss < s[m].rss}

\* The first largest of s from position i on.
Largest(s, i) ==
  {m \in i .. Len(s) : /\ \A k \in i .. Len(s) : s[k].rss <= s[m].rss
                       /\ \A k \in i .. m - 1 : s[k].rss < s[m].rss}

\* A turn of r2_collect_candidates()'s selection sort, which ends with the list.
SortOne ==
  /\ pc = "sort" /\ Len(candidates) < Limit(tmp)
  /\ LET i == Len(candidates) + 1 IN
       \E m \in Largest(tmp, i) :
         /\ tmp' = [tmp EXCEPT ![i] = tmp[m], ![m] = tmp[i]]
         /\ candidates' = Append(candidates, tmp[m])
  /\ UNCHANGED <<world, fresh, pc, fds, failed, todo, seen, victims, verdict, pipes>>

SortEnd ==
  /\ pc = "sort" /\ Len(candidates) = Limit(tmp) /\ pc' = "ask"
  /\ UNCHANGED <<world, fresh, fds, failed, todo, tmp, candidates, seen, victims, verdict, pipes>>

-----------------------------------------------------------------------------
(* Asking: ask_llm_helper().                                               *)

\* The first pipe(), the second one, or fork() fails, at the limit or for any
\* other reason: -1, and the k descriptors opened so far stay open.
AskFails(k) ==
  /\ pc = "ask" /\ Again
  /\ fds + k <= FDLIMIT
  /\ fds' = fds + k /\ failed' = TRUE /\ tmp' = <<>> /\ candidates' = <<>> /\ seen' = {}
  /\ UNCHANGED <<world, fresh, todo, victims, verdict, pipes>>

Fork ==
  /\ pc = "ask" /\ fds + 4 <= FDLIMIT
  /\ fds' = fds + 2 /\ child' = "exec" /\ pc' = "write" /\ tmp' = <<>> /\ seen' = {}
  /\ UNCHANGED <<world, fresh, failed, todo, candidates, victims, verdict, request, answer>>

\* The request goes into the pipe.  When the helper has ended already, nobody
\* can read it any more, and SIGPIPE ends the daemon.
WriteRequest ==
  /\ pc = "write"
  /\ IF child = "exited" THEN pc' = "dead" /\ UNCHANGED <<fds, request>>
     ELSE pc' = "read" /\ fds' = fds - 1 /\ request' = candidates
  /\ UNCHANGED <<world, fresh, failed, todo, tmp, candidates, seen, victims, verdict, child, answer>>

Abs(x) == IF x < 0 THEN 0 - x ELSE x

\* The digits between the brackets, a sign left out, as far as there is room.
ParseVictims(s) ==
  [i \in 1 .. Limit(s) |-> Abs(s[i])]

\* Mutant of ReadAnswer: the daemon keeps its copy of the helper's end of the
\* pipe, and never sees its end.
ReadAnswerOpen ==
  /\ pc = "read" /\ fds' = fds - 1 /\ candidates' = <<>>
  /\ answer # None /\ pc' = "wait"
  /\ victims' \in {ParseVictims(answer), <<>>}
  /\ UNCHANGED <<world, fresh, failed, todo, tmp, seen, verdict, pipes>>

\* One read(): the whole answer, or less, without the closing bracket, which
\* is no victim; nothing when the helper ended without an answer.
ReadAnswer ==
  /\ pc = "read" /\ fds' = fds - 1 /\ candidates' = <<>>
  /\ \/ /\ answer # None /\ pc' = "wait"
        /\ victims' \in {ParseVictims(answer), <<>>}
     \/ answer = None /\ child = "exited" /\ pc' = "wait" /\ UNCHANGED victims
  /\ UNCHANGED <<world, fresh, failed, todo, tmp, seen, verdict, pipes>>

\* Mutant of WaitHelper: the helper is not waited for when it had no victims.
WaitHelperNot ==
  /\ pc = "wait"
  /\ IF victims = <<>> THEN UNCHANGED pipes
     ELSE child = "exited" /\ child' = "none" /\ request' = None /\ answer' = None
  /\ pc' = "victims"
  /\ UNCHANGED <<world, fresh, fds, failed, todo, tmp, candidates, seen, victims, verdict>>

\* waitpid() reaps the helper once it has ended.
WaitHelper ==
  /\ pc = "wait" /\ child = "exited"
  /\ child' = "none" /\ request' = None /\ answer' = None
  /\ pc' = "victims"
  /\ UNCHANGED <<world, fresh, fds, failed, todo, tmp, candidates, seen, victims, verdict>>

-----------------------------------------------------------------------------
(* Validating.                                                             *)

\* Mutant of ValidatorOk: the name is not compared.
ValidatorOkUnnamed(q, opened) == q > 1 /\ q # Self

\* validator_ok(): a pid whose file cannot be opened passes.
ValidatorOk(q, opened) ==
  /\ q > 1 /\ q # Self
  /\ opened => world[q].name \notin PROTECTED_NAMES

\* fopen() needs a descriptor and a process, and may fail although it has both.
Validate ==
  /\ pc = "victims"
  /\ IF victims = <<>> THEN Again /\ UNCHANGED <<victims, verdict, fresh>>
     ELSE \E opened \in BOOLEAN :
            LET q == Head(victims) IN
            /\ opened => fds < FDLIMIT /\ q \in Pids /\ world[q] # None
            /\ verdict' = [pid |-> q, pass |-> ValidatorOk(q, opened), named |-> opened]
            /\ victims' = Tail(victims) /\ fresh' = {} /\ UNCHANGED pc
  /\ UNCHANGED <<world, fds, failed, todo, tmp, candidates, seen, pipes>>

-----------------------------------------------------------------------------
(* The helper (helper.py).                                                 *)

\* ask_mock() answers with the largest of the candidates that are no system
\* process.
AskMock(c) ==
  LET left == {i \in 1 .. Len(c) : c[i].name \notin always_safe /\ c[i].pid # 1}
      above(i, j) == c[i].rss > c[j].rss \/ (c[i].rss = c[j].rss /\ c[i].pid >= c[j].pid)
  IN IF left = {} THEN {<<>>} ELSE {<<c[i].pid>> : i \in {i \in left : \A j \in left : above(i, j)}}

HelperStart ==
  /\ child = "exec" /\ child' = "run"
  /\ UNCHANGED <<world, fresh, daemon, request, answer>>

\* main(): the model's answer, or the mock's without a key or on an error.
HelperAnswer ==
  /\ child = "run" /\ request # None
  /\ child' = "answered" /\ request' = None
  /\ answer' \in AskMock(request) \cup Answers
  /\ UNCHANGED <<world, fresh, daemon>>

\* execlp() fails, the interpreter gives up, or the work is done.
HelperExit ==
  /\ child \in {"exec", "run", "answered"} /\ child' = "exited"
  /\ UNCHANGED <<world, fresh, daemon, request, answer>>

-----------------------------------------------------------------------------
Init ==
  /\ \E k, n \in BootRss :
       world = [q \in Pids |-> IF q = 1 THEN [name |-> "init", rss |-> k]
                               ELSE IF q = Self THEN [name |-> "coomd", rss |-> n] ELSE None]
  /\ fresh = {} /\ pc = "check" /\ fds = 0 /\ failed = FALSE
  /\ todo = {} /\ tmp = <<>> /\ candidates = <<>> /\ seen = {} /\ victims = <<>>
  /\ child = "none" /\ request = None /\ answer = None
  /\ verdict = NoVerdict

Daemon ==
  \/ ScanOne \/ ScanEnd \/ SortOne \/ SortEnd \/ (\E k \in {0, 2, 4} : AskFails(k)) \/ Fork
  \/ WriteRequest \/ ReadAnswer \/ WaitHelper \/ Validate

Helper == HelperStart \/ HelperAnswer \/ HelperExit

Next == (\E q \in Users : Start(q) \/ Rename(q) \/ End(q)) \/ CheckPressure \/ Daemon \/ Helper

\* The daemon runs on.  That the helper ends some time is an assumption: the daemon
\* waits for it without a timeout.
Spec == Init /\ [][Next]_vars /\ WF_vars(Daemon) /\ WF_vars(HelperExit)

-----------------------------------------------------------------------------
(* Properties.                                                             *)

(***************************************************************************)
(* The types, and lists within their arrays.                               *)
(***************************************************************************)
TypeOK ==
  /\ world \in [Pids -> [name : Names \cup {"init", "coomd"}, rss : Nat] \cup {None}]
  /\ fds \in 0 .. FDLIMIT /\ fresh \subseteq Users /\ todo \subseteq Pids /\ failed \in BOOLEAN
  /\ pc \in {"check", "scan", "sort", "ask", "write", "read", "wait", "victims", "dead"}
  /\ tmp \in Seq(Candidate) /\ Len(tmp) <= R2_TMP_MAX
  /\ candidates \in Seq(Candidate) /\ Len(candidates) <= MAX_CANDIDATES
  /\ victims \in Seq(Nat) /\ Len(victims) <= MAX_CANDIDATES
  /\ child \in {"none", "exec", "run", "answered", "exited"}
  /\ request \in Seq(Candidate) \cup {None} /\ answer \in Seq(Int) \cup {None}
  /\ verdict \in [pid : Nat, pass : BOOLEAN, named : BOOLEAN]

(***************************************************************************)
(* A pid that passed is not the daemon and not 1, and when its name could  *)
(* be read it is not a protected process, unless one was started under     *)
(* that pid, or took that name, after the verdict: whatever the helper     *)
(* answered and however old its list is, since validator_ok() reads the    *)
(* name again.  (A file under /proc that cannot be opened is taken for a   *)
(* process that has ended: then any name passes.)                          *)
(***************************************************************************)
PassedIsUnprotected ==
  verdict.pass =>
    /\ verdict.pid > 1 /\ verdict.pid # Self
    /\ LET x == IF verdict.pid \in Pids THEN world[verdict.pid] ELSE None
       IN verdict.named /\ x # None /\ x.name \in PROTECTED_NAMES => verdict.pid \in fresh

(***************************************************************************)
(* r2_collect_candidates() returns the largest of the processes it has     *)
(* read, in falling order, each once, and as many as fit; no table of the  *)
(* daemon overflows (TypeOK).                                              *)
(***************************************************************************)
LargestAreCandidates ==
  /\ TypeOK
  /\ pc = "ask" =>
       /\ \A i, j \in 1 .. Len(candidates) :
            i < j => candidates[i].rss >= candidates[j].rss /\ candidates[i].pid # candidates[j].pid
       /\ Range(candidates) \subseteq seen
       /\ Range(candidates) = seen \/ Len(candidates) = MAX_CANDIDATES
       /\ \A x \in seen \ Range(candidates), y \in Range(candidates) : x.rss <= y.rss

(***************************************************************************)
(* At the top of the loop the pipes are closed and the helper is reaped,   *)
(* whatever it did; descriptors are left over only after a pipe() or fork()*)
(* has failed.                                                             *)
(***************************************************************************)
LoopLeavesNothing ==
  pc = "check" => child = "none" /\ (failed \/ fds = 0)

(***************************************************************************)
(* No cycle lasts for ever: the daemon waits for the helper's answer and   *)
(* for its end, and comes back to the top of its loop, unless SIGPIPE has  *)
(* ended it.                                                               *)
(***************************************************************************)
CycleEnds == pc # "check" ~> pc \in {"check", "dead"}
=============================================================================
