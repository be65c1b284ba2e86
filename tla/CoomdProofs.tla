---------------------------- MODULE CoomdProofs -----------------------------
(***************************************************************************)
(* The proofs about the daemon: what it may name to the helper, what it    *)
(* may pass, and what a turn of its loop leaves behind.                    *)
(***************************************************************************)
EXTENDS Coomd, TLAPS

-----------------------------------------------------------------------------
(* The inductive invariant.                                                *)

\* Descriptors: what the daemon holds of the two pipes, and the room for them
\* that it had when it asked; it keeps at least one of the four it found free.
Descriptors ==
  /\ pc \in {"check", "scan", "sort", "ask", "wait", "victims"} => failed \/ fds = 0
  /\ pc = "write" => fds >= 2 /\ fds + 2 <= FDLIMIT /\ (failed \/ fds = 2)
  /\ pc = "read" => fds >= 1 /\ fds + 3 <= FDLIMIT /\ (failed \/ fds = 1)
  /\ pc \in {"wait", "victims"} => fds + 4 <= FDLIMIT

\* The helper is there only while ask_llm_helper() runs.
Reaped == pc \in {"check", "scan", "sort", "ask", "victims"} => child = "none"

\* The processes read are those of tmp, each once; none of them is read again.
Collected ==
  /\ pc \in {"scan", "sort", "ask"} =>
       /\ \A i, j \in 1 .. Len(tmp) : i # j => tmp[i].pid # tmp[j].pid
       /\ \A i \in 1 .. Len(tmp) : tmp[i].pid \notin todo
       /\ seen = {tmp[i] : i \in 1 .. Len(tmp)}
  /\ pc \in {"check", "write", "read", "wait", "victims"} => tmp = <<>> /\ seen = {}
  /\ pc \in {"check", "scan", "wait", "victims"} => candidates = <<>>

\* The selection sort: the list is the front of tmp, and whatever stands at one
\* of its places is at least as large as everything behind it.
Selected ==
  pc \in {"sort", "ask"} =>
    /\ Len(candidates) <= Len(tmp)
    /\ \A i \in 1 .. Len(candidates) :
         /\ candidates[i] = tmp[i]
         /\ \A j \in i .. Len(tmp) : tmp[i].rss >= tmp[j].rss
    /\ pc = "ask" => Len(candidates) = Limit(tmp)

CoomdInv ==
  TypeOK /\ Descriptors /\ Reaped /\ Collected /\ Selected /\ PassedIsUnprotected

-----------------------------------------------------------------------------
(* Types.                                                                  *)

\* parse_victims() leaves pids, signs dropped, and no more than fit.
LEMMA Parsed ==
  ASSUME NEW s \in Seq(Int)
  PROVE  ParseVictims(s) \in Seq(Nat) /\ Len(ParseVictims(s)) <= MAX_CANDIDATES
<1>1. Limit(s) \in Nat /\ Limit(s) <= Len(s) /\ Limit(s) <= MAX_CANDIDATES
  BY CoomdAssumption DEF Limit
<1>2. \A i \in 1 .. Limit(s) : Abs(s[i]) \in Nat
  BY <1>1 DEF Abs
<1> QED
  BY <1>1, <1>2 DEF ParseVictims

\* ask_mock() names at most one process, and by its pid.
LEMMA MockAnswers ==
  ASSUME NEW c \in Seq(Candidate)
  PROVE  AskMock(c) \subseteq Seq(Int)
<1>1. ASSUME NEW i \in 1 .. Len(c) PROVE <<c[i].pid>> \in Seq(Int)
  <2>0. c[i] \in Candidate
    OBVIOUS
  <2>1. c[i].pid \in Pids
    BY <2>0, Zenon DEF Candidate
  <2>2. Pids \subseteq Int
    BY CoomdAssumption DEF Pids
  <2> QED
    <3>1. \A x \in Int : <<x>> \in Seq(Int)
      OBVIOUS
    <3> QED
      BY <2>1, <2>2, <3>1, Zenon
<1>2. <<>> \in Seq(Int)
  OBVIOUS
<1> QED
  BY <1>1, <1>2, Zenon DEF AskMock

\* The daemon's arrays and descriptors stay within their limits: the pipes are
\* opened only when there is room, closed only when they are open.
LEMMA TypesKept ==
  ASSUME TypeOK, Descriptors, Selected, Collected, [Next]_vars
  PROVE  TypeOK'
<1> USE DEF TypeOK, daemon, pipes
<1>1. ASSUME NEW q \in Users, Start(q) \/ Rename(q) \/ End(q) PROVE TypeOK'
  <2>1. q \in Pids
    BY Zenon DEF Pids
  <2>2. Process \subseteq [name : Names \cup {"init", "coomd"}, rss : Nat]
    BY CoomdAssumption, Zenon DEF Process
  <2>3. world' \in [Pids -> [name : Names \cup {"init", "coomd"}, rss : Nat] \cup {None}]
    <3>1. CASE Start(q) \/ End(q)
      BY <3>1, <2>1, <2>2, ZenonT(60) DEF Start, End
    <3>2. CASE Rename(q)
      <4>1. PICK n \in Names : world' = [world EXCEPT ![q] = [world[q] EXCEPT !.name = n]]
        BY <3>2, Zenon DEF Rename
      <4>2. world[q] \in [name : Names \cup {"init", "coomd"}, rss : Nat]
        BY <3>2, <2>1, Zenon DEF Rename
      <4>3. [world[q] EXCEPT !.name = n] \in [name : Names \cup {"init", "coomd"}, rss : Nat]
        BY <4>2
      <4> QED
        BY <4>1, <4>3, <2>1, Zenon
    <3> QED
      BY <1>1, <3>1, <3>2, Zenon
  <2>4. fresh' \subseteq Users
    BY <1>1, Zenon DEF Start, Rename, End
  <2> QED
    BY <1>1, <2>3, <2>4, ZenonT(60) DEF Start, Rename, End
<1>2. CASE CheckPressure
  BY <1>2, Zenon DEF CheckPressure, NoVerdict
<1>3. CASE ScanOne
  <2>1. PICK q \in todo : todo' = todo \ {q} /\
          \/ /\ world[q] # None
             /\ tmp' = Append(tmp, [pid |-> q, name |-> world[q].name, rss |-> world[q].rss])
          \/ UNCHANGED tmp
    BY <1>3, Zenon DEF ScanOne
  <2>2. tmp' \in Seq(Candidate) /\ Len(tmp') <= R2_TMP_MAX
    <3>1. CASE /\ world[q] # None
               /\ tmp' = Append(tmp, [pid |-> q, name |-> world[q].name, rss |-> world[q].rss])
      <4>1. [pid |-> q, name |-> world[q].name, rss |-> world[q].rss] \in Candidate
        <5>1. q \in Pids /\ world[q] \in [name : Names \cup {"init", "coomd"}, rss : Nat]
          BY <3>1, Zenon
        <5> QED
          BY <5>1, Zenon DEF Candidate
      <4> QED
        <5>1. Len(tmp) < R2_TMP_MAX /\ tmp' = Append(tmp, [pid |-> q, name |-> world[q].name, rss |-> world[q].rss])
          BY <3>1, <1>3, Zenon DEF ScanOne
        <5>2. tmp' \in Seq(Candidate) /\ Len(tmp') = Len(tmp) + 1
          BY <5>1, <4>1
        <5> QED
          BY <5>1, <5>2, CoomdAssumption
    <3> QED
      BY <3>1, <2>1, Zenon
  <2> QED
    BY <1>3, <2>1, <2>2, Zenon DEF ScanOne
<1>4. CASE ScanEnd
  BY <1>4, Zenon DEF ScanEnd
<1>5. CASE SortOne
  <2> DEFINE i == Len(candidates) + 1
  <2>1. PICK m \in Largest(tmp, i) :
          tmp' = [tmp EXCEPT ![i] = tmp[m], ![m] = tmp[i]] /\ candidates' = Append(candidates, tmp[m])
    BY <1>5, Zenon DEF SortOne
  <2>2. i \in 1 .. Len(tmp) /\ m \in 1 .. Len(tmp) /\ i <= MAX_CANDIDATES
    BY <1>5, CoomdAssumption, SMTT(30), Z3T(30) DEF SortOne, Largest, Limit
  <2>3. tmp[m] \in Candidate /\ tmp[i] \in Candidate
    BY <2>2, SMTT(30), Z3T(30)
  <2>4. tmp' \in Seq(Candidate) /\ Len(tmp') = Len(tmp)
    BY <2>1, <2>2, <2>3, SMTT(30)
  <2>5. candidates' \in Seq(Candidate) /\ Len(candidates') <= MAX_CANDIDATES
    BY <2>1, <2>2, <2>3
  <2> QED
    BY <1>5, <2>4, <2>5, Zenon DEF SortOne
<1>6. CASE SortEnd
  BY <1>6, Zenon DEF SortEnd
<1>7. ASSUME NEW k \in {0, 2, 4}, AskFails(k) PROVE TypeOK'
  BY <1>7, CoomdAssumption DEF AskFails, Again
<1>8. CASE Fork
  BY <1>8, CoomdAssumption DEF Fork
<1>9. CASE WriteRequest
  BY <1>9, CoomdAssumption, SMTT(30), Z3T(30) DEF WriteRequest, Descriptors
<1>10. CASE ReadAnswer
  <2>1. fds' \in 0 .. FDLIMIT
    BY <1>10, CoomdAssumption DEF ReadAnswer, Descriptors
  <2>2. victims' \in Seq(Nat) /\ Len(victims') <= MAX_CANDIDATES
    <3>1. CASE answer # None /\ victims' \in {ParseVictims(answer), <<>>}
      <4>1. answer \in Seq(Int)
        BY <3>1, Zenon
      <4>2. ParseVictims(answer) \in Seq(Nat) /\ Len(ParseVictims(answer)) <= MAX_CANDIDATES
        BY <4>1, Parsed, Zenon
      <4>3. <<>> \in Seq(Nat) /\ Len(<<>>) <= MAX_CANDIDATES
        BY CoomdAssumption
      <4> QED
        BY <3>1, <4>2, <4>3, Zenon
    <3> QED
      BY <1>10, <3>1, Zenon DEF ReadAnswer
  <2> QED
    BY <1>10, <2>1, <2>2, CoomdAssumption, SMTT(30), Z3T(30) DEF ReadAnswer
<1>11. CASE WaitHelper
  BY <1>11, Zenon DEF WaitHelper
<1>12. CASE Validate
  <2>1. CASE victims = <<>>
    BY <1>12, <2>1, Zenon DEF Validate, Again
  <2>2. CASE victims # <<>>
    <3>1. Head(victims) \in Nat /\ Tail(victims) \in Seq(Nat) /\ Len(Tail(victims)) <= MAX_CANDIDATES
      BY <2>2, CoomdAssumption, SMTT(30), Z3T(30)
    <3>2. \A o \in BOOLEAN : ValidatorOk(Head(victims), o) \in BOOLEAN
      BY Zenon DEF ValidatorOk
    <3>3. PICK o \in BOOLEAN :
            verdict' = [pid |-> Head(victims), pass |-> ValidatorOk(Head(victims), o), named |-> o]
      BY <1>12, <2>2, Zenon DEF Validate
    <3>4. verdict' \in [pid : Nat, pass : BOOLEAN, named : BOOLEAN]
      BY <3>1, <3>2, <3>3, Zenon
    <3> QED
      BY <1>12, <2>2, <3>1, <3>4, Zenon DEF Validate
  <2> QED
    BY <2>1, <2>2, SMTT(30), Z3T(30)
<1>13. CASE Helper
  <2>1. CASE HelperAnswer
    <3>1. answer' \in Seq(Int)
      BY <2>1, MockAnswers, CoomdAssumption, Zenon DEF HelperAnswer
    <3> QED
      BY <2>1, <3>1, Zenon DEF HelperAnswer
  <2> QED
    BY <1>13, <2>1, Zenon DEF Helper, HelperStart, HelperExit
<1>14. CASE UNCHANGED vars
  BY <1>14, SMTT(30) DEF vars
<1> QED
  BY <1>1, <1>2, <1>3, <1>4, <1>5, <1>6, <1>7, <1>8, <1>9, <1>10, <1>11, <1>12, <1>13, <1>14, Zenon
  DEF Next, Daemon

-----------------------------------------------------------------------------
(* Descriptors and the helper.                                             *)

\* What the daemon opened to ask it has closed when the answer is parsed, and
\* the helper it forked it has waited for.
LEMMA DescriptorsKept ==
  ASSUME TypeOK, Descriptors, Reaped, [Next]_vars
  PROVE  Descriptors' /\ Reaped'
<1> USE CoomdAssumption DEF Descriptors, Reaped, daemon, pipes
<1>0. fds \in Nat /\ FDLIMIT \in Nat /\ failed \in BOOLEAN
  BY DEF TypeOK
<1>1. ASSUME NEW q \in Users, Start(q) \/ Rename(q) \/ End(q) PROVE Descriptors' /\ Reaped'
  BY <1>1, Zenon DEF Start, Rename, End
<1>2. CASE CheckPressure \/ ScanOne \/ ScanEnd \/ SortOne \/ SortEnd
  BY <1>2, Zenon DEF CheckPressure, ScanOne, ScanEnd, SortOne, SortEnd
<1>3. ASSUME NEW k \in {0, 2, 4}, AskFails(k) PROVE Descriptors' /\ Reaped'
  BY <1>3, Zenon DEF AskFails, Again
<1>4. CASE Fork
  BY <1>0, <1>4 DEF Fork
<1>5. CASE WriteRequest
  BY <1>0, <1>5 DEF WriteRequest
<1>6. CASE ReadAnswer
  <2>1. pc = "read" /\ fds' = fds - 1 /\ pc' = "wait" /\ failed' = failed
    BY <1>6, Zenon DEF ReadAnswer
  <2> QED
    BY <1>0, <2>1
<1>7. CASE WaitHelper
  BY <1>7, Zenon DEF WaitHelper
<1>8. CASE Validate
  BY <1>8, Zenon DEF Validate, Again
<1>9. CASE Helper
  BY <1>9, Zenon DEF Helper, HelperStart, HelperAnswer, HelperExit
<1>10. CASE UNCHANGED vars
  BY <1>10, SMTT(30) DEF vars
<1> QED
  BY <1>1, <1>2, <1>3, <1>4, <1>5, <1>6, <1>7, <1>8, <1>9, <1>10, SMTT(30) DEF Next, Daemon

-----------------------------------------------------------------------------
(* Collecting.                                                             *)

\* readdir() returns no process twice, and a swap loses none.
LEMMA CollectedKept ==
  ASSUME TypeOK, Collected, [Next]_vars
  PROVE  Collected'
<1> USE DEF Collected, daemon, pipes
<1>1. ASSUME NEW q \in Users, Start(q) \/ Rename(q) \/ End(q) PROVE Collected'
  BY <1>1 DEF Start, Rename, End
<1>2. CASE CheckPressure
  BY <1>2 DEF CheckPressure
<1>3. CASE ScanOne
  <2>1. PICK q \in todo :
          /\ todo' = todo \ {q}
          /\ \/ LET c == [pid |-> q, name |-> world[q].name, rss |-> world[q].rss]
                IN tmp' = Append(tmp, c) /\ seen' = seen \cup {c}
             \/ UNCHANGED <<tmp, seen>>
    BY <1>3, Zenon DEF ScanOne
  <2>2. pc = "scan" /\ pc' = "scan" /\ candidates' = candidates /\ tmp \in Seq(Candidate)
    BY <1>3, Zenon DEF ScanOne, TypeOK
  <2>3. CASE ~ UNCHANGED <<tmp, seen>>
    <3> DEFINE c == [pid |-> q, name |-> world[q].name, rss |-> world[q].rss]
    <3>1. tmp' = Append(tmp, c) /\ seen' = seen \cup {c} /\ c.pid = q
      BY <2>1, <2>3, Zenon
    <3> HIDE DEF c
    <3>2. /\ Len(tmp') = Len(tmp) + 1 /\ Len(tmp) \in Nat
          /\ \A i \in 1 .. Len(tmp) : tmp'[i] = tmp[i]
          /\ tmp'[Len(tmp) + 1] = c
      BY <2>2, <3>1, SMTT(30)
    <3>3. \A i, j \in 1 .. Len(tmp') : i # j => tmp'[i].pid # tmp'[j].pid
      BY <2>1, <2>2, <3>1, <3>2, SMTT(30)
    <3>4. \A i \in 1 .. Len(tmp') : tmp'[i].pid \notin todo'
      BY <2>1, <2>2, <3>1, <3>2, SMTT(30)
    <3>5. seen' = {tmp'[i] : i \in 1 .. Len(tmp')}
      BY <2>2, <3>1, <3>2
    <3> QED
      BY <2>2, <3>3, <3>4, <3>5, SMTT(30)
  <2> QED
    BY <2>1, <2>2, <2>3, SMTT(30)
<1>4. CASE ScanEnd
  BY <1>4 DEF ScanEnd
<1>5. CASE SortOne
  <2> DEFINE i == Len(candidates) + 1
  <2>1. PICK m \in Largest(tmp, i) : tmp' = [tmp EXCEPT ![i] = tmp[m], ![m] = tmp[i]]
    BY <1>5, Zenon DEF SortOne
  <2>2. i \in 1 .. Len(tmp) /\ m \in 1 .. Len(tmp) /\ tmp \in Seq(Candidate)
    BY <1>5, CoomdAssumption, SMTT(30), Z3T(30) DEF SortOne, Largest, Limit, TypeOK
  <2>3. pc = "sort" /\ pc' = "sort" /\ todo' = todo /\ seen' = seen
    BY <1>5, Zenon DEF SortOne
  <2> HIDE DEF i
  <2> DEFINE to(k) == IF k = i THEN m ELSE IF k = m THEN i ELSE k
  <2>4. /\ Len(tmp') = Len(tmp)
        /\ \A k \in 1 .. Len(tmp) : to(k) \in 1 .. Len(tmp) /\ tmp'[k] = tmp[to(k)] /\ to(to(k)) = k
    BY <2>1, <2>2
  <2> HIDE DEF to
  <2>5. \A k, n \in 1 .. Len(tmp') : k # n => tmp'[k].pid # tmp'[n].pid
    BY <2>3, <2>4
  <2>6. \A k \in 1 .. Len(tmp') : tmp'[k].pid \notin todo'
    BY <2>3, <2>4, Zenon
  <2>7. seen' = {tmp'[k] : k \in 1 .. Len(tmp')}
    BY <2>3, <2>4
  <2> QED
    BY <2>3, <2>5, <2>6, <2>7, Zenon
<1>6. CASE SortEnd
  BY <1>6 DEF SortEnd
<1>7. ASSUME NEW k \in {0, 2, 4}, AskFails(k) PROVE Collected'
  BY <1>7, Zenon DEF AskFails, Again
<1>8. CASE Fork \/ WriteRequest \/ ReadAnswer \/ WaitHelper
  BY <1>8, Zenon DEF Fork, WriteRequest, ReadAnswer, WaitHelper
<1>9. CASE Validate
  BY <1>9, Zenon DEF Validate, Again
<1>10. CASE Helper
  BY <1>10, Zenon DEF Helper, HelperStart, HelperAnswer, HelperExit
<1>11. CASE UNCHANGED vars
  BY <1>11, SMTT(30) DEF vars
<1> QED
  BY <1>1, <1>2, <1>3, <1>4, <1>5, <1>6, <1>7, <1>8, <1>9, <1>10, <1>11, SMTT(30) DEF Next, Daemon

\* A turn of the selection sort puts the largest of the rest at the end of the
\* list; what is in the list already stays, and is at least as large.
LEMMA SelectedKept ==
  ASSUME TypeOK, Collected, Selected, [Next]_vars
  PROVE  Selected'
<1> USE DEF Selected, daemon, pipes
<1>1. ASSUME NEW q \in Users, Start(q) \/ Rename(q) \/ End(q) PROVE Selected'
  BY <1>1, Zenon DEF Start, Rename, End, Limit
<1>2. CASE CheckPressure \/ ScanOne
  BY <1>2, Zenon DEF CheckPressure, ScanOne
<1>3. CASE ScanEnd
  <2>1. candidates = <<>> /\ candidates' = <<>> /\ pc' = "sort" /\ tmp' = tmp
    BY <1>3, Zenon DEF ScanEnd, Collected
  <2>2. Len(candidates') = 0 /\ Len(tmp') \in Nat
    BY <2>1 DEF TypeOK
  <2> QED
    BY <2>1, <2>2
<1>4. CASE SortOne
  <2> DEFINE i == Len(candidates) + 1
  <2>1. PICK m \in Largest(tmp, i) :
          tmp' = [tmp EXCEPT ![i] = tmp[m], ![m] = tmp[i]] /\ candidates' = Append(candidates, tmp[m])
    BY <1>4, Zenon DEF SortOne
  <2>2. /\ i \in 1 .. Len(tmp) /\ m \in i .. Len(tmp) /\ i = Len(candidates) + 1
        /\ tmp \in Seq(Candidate) /\ candidates \in Seq(Candidate)
        /\ \A k \in i .. Len(tmp) : tmp[k].rss <= tmp[m].rss
    BY <1>4, CoomdAssumption DEF SortOne, Largest, Limit, TypeOK
  <2>3. pc = "sort" /\ pc' = "sort"
    BY <1>4, Zenon DEF SortOne
  <2> HIDE DEF i
  <2> DEFINE to(k) == IF k = i THEN m ELSE IF k = m THEN i ELSE k
  <2>4. /\ Len(tmp') = Len(tmp)
        /\ \A k \in 1 .. Len(tmp) : to(k) \in 1 .. Len(tmp) /\ tmp'[k] = tmp[to(k)]
        /\ \A k \in i .. Len(tmp) : to(k) \in i .. Len(tmp)
        /\ \A k \in 1 .. Len(candidates) : to(k) = k
        /\ to(i) = m
    BY <2>1, <2>2
  <2> HIDE DEF to
  <2>5. /\ Len(candidates') = i
        /\ \A k \in 1 .. Len(candidates) : candidates'[k] = candidates[k]
        /\ candidates'[i] = tmp[m]
    BY <2>1, <2>2
  <2>6. ASSUME NEW k \in 1 .. Len(candidates')
        PROVE  candidates'[k] = tmp'[k] /\ \A j \in k .. Len(tmp') : tmp'[k].rss >= tmp'[j].rss
    <3>0. Len(candidates) \in Nat /\ Len(tmp) \in Nat /\ i \in Nat
      BY <2>2
    <3>a. \A j \in 1 .. Len(tmp) : tmp[j].rss \in Nat
      <4>1. \A j \in 1 .. Len(tmp) : tmp[j] \in Candidate
        BY <2>2
      <4> QED
        BY <4>1, Zenon DEF Candidate
    <3>1. CASE k = i
      <4>1. candidates'[k] = tmp'[k] /\ tmp'[k] = tmp[m]
        BY <3>1, <2>2, <2>4, <2>5, SMTT(30)
      <4>2. ASSUME NEW j \in k .. Len(tmp') PROVE tmp'[k].rss >= tmp'[j].rss
        <5>1. tmp'[j] = tmp[to(j)] /\ to(j) \in i .. Len(tmp)
          BY <3>0, <3>1, <2>2, <2>4, SMTT(30)
        <5>2. tmp[to(j)].rss <= tmp[m].rss /\ m \in 1 .. Len(tmp) /\ to(j) \in 1 .. Len(tmp)
          BY <5>1, <2>2, <3>0, SMTT(30), Z3T(30)
        <5>3. tmp[m].rss \in Nat /\ tmp[to(j)].rss \in Nat
          BY <5>2, <3>a, Zenon
        <5> QED
          BY <4>1, <5>1, <5>2, <5>3, SMTT(30)
      <4> QED
        BY <4>1, <4>2, Zenon
    <3>2. CASE k # i
      <4>0. k \in 1 .. Len(candidates) /\ k \in 1 .. Len(tmp)
        BY <3>0, <3>2, <2>2, <2>5, SMTT(30)
      <4>1. candidates'[k] = tmp'[k] /\ tmp'[k] = tmp[k]
        BY <4>0, <2>3, <2>4, <2>5, SMTT(30)
      <4>2. ASSUME NEW j \in k .. Len(tmp') PROVE tmp'[k].rss >= tmp'[j].rss
        <5>0. j \in 1 .. Len(tmp) /\ tmp'[j] = tmp[to(j)]
          BY <4>0, <2>4, <3>0
        <5>1. to(j) \in k .. Len(tmp)
          <6>1. CASE j >= i
            BY <6>1, <5>0, <4>0, <3>0, <2>2, <2>4, SMTT(30), Z3T(30)
          <6>2. CASE j < i
            <7>1. j \in 1 .. Len(candidates)
              BY <6>2, <5>0, <3>0, <2>2, SMTT(30)
            <7>2. to(j) = j
              BY <7>1, <2>4, SMTT(30)
            <7> QED
              BY <7>2, <5>0, <4>0
          <6> QED
            BY <6>1, <6>2, <3>0, <5>0, SMTT(30)
        <5>2. tmp[k].rss >= tmp[to(j)].rss
          BY <5>1, <4>0, <2>3, SMTT(30)
        <5> QED
          BY <5>0, <5>2, <4>1, SMTT(30)
      <4> QED
        BY <4>1, <4>2, Zenon
    <3> QED
      BY <3>1, <3>2, SMTT(30)
  <2> QED
    <3>1. Len(candidates') <= Len(tmp')
      BY <2>2, <2>4, <2>5
    <3> QED
      BY <3>1, <2>3, <2>6, Zenon
<1>5. CASE SortEnd
  BY <1>5, Zenon DEF SortEnd, Limit
<1>6. ASSUME NEW k \in {0, 2, 4}, AskFails(k) PROVE Selected'
  BY <1>6, Zenon DEF AskFails, Again
<1>7. CASE Fork \/ WriteRequest \/ ReadAnswer \/ WaitHelper
  BY <1>7, SMTT(30) DEF Fork, WriteRequest, ReadAnswer, WaitHelper
<1>8. CASE Validate
  BY <1>8, Zenon DEF Validate, Again
<1>9. CASE Helper
  BY <1>9, SMTT(30) DEF Helper, HelperStart, HelperAnswer, HelperExit, Limit
<1>10. CASE UNCHANGED vars
  BY <1>10, Zenon DEF vars, Limit
<1> QED
  BY <1>1, <1>2, <1>3, <1>4, <1>5, <1>6, <1>7, <1>8, <1>9, <1>10, SMTT(30) DEF Next, Daemon

-----------------------------------------------------------------------------
(* Validating.                                                             *)

\* A verdict is about the name the process has now; whoever gets the pid or a
\* name afterwards is on record.
LEMMA PassedKept ==
  ASSUME TypeOK, PassedIsUnprotected, [Next]_vars
  PROVE  PassedIsUnprotected'
<1> USE DEF daemon, pipes
<1>0. verdict \in [pid : Nat, pass : BOOLEAN, named : BOOLEAN]
  BY Zenon DEF TypeOK
<1>1. ASSUME NEW q \in Users, Start(q) \/ Rename(q) PROVE PassedIsUnprotected'
  <2>1. /\ verdict' = verdict /\ fresh' = fresh \cup ({q} \cap {verdict.pid})
        /\ \A p \in Pids \ {q} : world'[p] = world[p]
    BY <1>1, Zenon DEF Start, Rename, TypeOK
  <2> QED
    BY <2>1, Zenon DEF PassedIsUnprotected
<1>2. ASSUME NEW q \in Users, End(q) PROVE PassedIsUnprotected'
  <2>1. /\ verdict' = verdict /\ fresh' = fresh /\ \A p \in Pids \ {q} : world'[p] = world[p]
        /\ world'[q] = None
    BY <1>2, Zenon DEF End, TypeOK, Pids
  <2> QED
    BY <2>1, Zenon DEF PassedIsUnprotected
<1>3. CASE CheckPressure
  BY <1>3, Zenon DEF CheckPressure, PassedIsUnprotected, NoVerdict
<1>4. CASE Validate
  <2>1. CASE victims = <<>>
    BY <1>4, <2>1 DEF Validate, PassedIsUnprotected
  <2>2. CASE victims # <<>>
    <3> DEFINE q == Head(victims)
    <3>1. PICK o \in BOOLEAN :
            verdict' = [pid |-> q, pass |-> ValidatorOk(q, o), named |-> o] /\ world' = world
      BY <1>4, <2>2, Zenon DEF Validate
    <3> HIDE DEF q
    <3> QED
      BY <3>1, Zenon DEF PassedIsUnprotected, ValidatorOk
  <2> QED
    BY <2>1, <2>2, SMTT(30)
<1>5. ASSUME UNCHANGED <<verdict, world, fresh>> PROVE PassedIsUnprotected'
  BY <1>5, Zenon DEF PassedIsUnprotected
<1>6. ASSUME NEW k \in {0, 2, 4}, AskFails(k) PROVE PassedIsUnprotected'
  BY <1>5, <1>6, Zenon DEF AskFails
<1>7. CASE ScanOne \/ ScanEnd \/ SortOne \/ SortEnd
  BY <1>5, <1>7, Zenon DEF ScanOne, ScanEnd, SortOne, SortEnd
<1>8. CASE Fork \/ WriteRequest \/ ReadAnswer \/ WaitHelper
  BY <1>5, <1>8, Zenon DEF Fork, WriteRequest, ReadAnswer, WaitHelper
<1>9. CASE Helper
  BY <1>5, <1>9, Zenon DEF Helper, HelperStart, HelperAnswer, HelperExit
<1>10. CASE UNCHANGED vars
  BY <1>5, <1>10, Zenon DEF vars
<1> QED
  BY <1>1, <1>2, <1>3, <1>4, <1>6, <1>7, <1>8, <1>9, <1>10, SMTT(30) DEF Next, Daemon

-----------------------------------------------------------------------------
(* The theorems.                                                           *)

\* The state main() starts in.
LEMMA CoomdStarts == Init => CoomdInv
<1> SUFFICES ASSUME Init PROVE CoomdInv
  OBVIOUS
<1>1. PICK k \in BootRss, n \in BootRss :
        world = [q \in Pids |-> IF q = 1 THEN [name |-> "init", rss |-> k]
                                ELSE IF q = Self THEN [name |-> "coomd", rss |-> n] ELSE None]
  BY Zenon DEF Init
<1>2. k \in Nat /\ n \in Nat
  BY CoomdAssumption, Zenon
<1>3. TypeOK
  <2>1. world \in [Pids -> [name : Names \cup {"init", "coomd"}, rss : Nat] \cup {None}]
    BY <1>1, <1>2, Zenon
  <2> QED
    <3>1. <<>> \in Seq(Candidate) /\ <<>> \in Seq(Nat) /\ Len(<<>>) = 0
      OBVIOUS
    <3>2. 0 \in 0 .. FDLIMIT /\ 0 <= R2_TMP_MAX /\ 0 <= MAX_CANDIDATES
      BY CoomdAssumption
    <3>3. verdict \in [pid : Nat, pass : BOOLEAN, named : BOOLEAN]
      BY Zenon DEF Init, NoVerdict
    <3> QED
      BY <2>1, <3>1, <3>2, <3>3, Zenon DEF Init, TypeOK
<1>4. Descriptors /\ Reaped /\ Collected /\ Selected
  BY Zenon DEF Init, Descriptors, Reaped, Collected, Selected
<1>5. PassedIsUnprotected
  BY Zenon DEF Init, PassedIsUnprotected, NoVerdict
<1> QED
  BY <1>3, <1>4, <1>5, Zenon DEF CoomdInv

\* Whatever the daemon, the helper and the processes around them do, in
\* whatever order, CoomdInv holds.
LEMMA CoomdInvariance == Spec => []CoomdInv
<1>1. CoomdInv /\ [Next]_vars => CoomdInv'
  BY TypesKept, DescriptorsKept, CollectedKept, SelectedKept, PassedKept, SMTT(30) DEF CoomdInv
<1> QED
  BY <1>1, CoomdStarts, PTL DEF Spec

\* What the daemon finds at the end of its sort are the largest processes read.
LEMMA SortedAre == CoomdInv => LargestAreCandidates
<1> SUFFICES ASSUME CoomdInv, pc = "ask"
             PROVE  /\ \A i, j \in 1 .. Len(candidates) :
                         i < j => candidates[i].rss >= candidates[j].rss /\ candidates[i].pid # candidates[j].pid
                    /\ Range(candidates) \subseteq seen
                    /\ Range(candidates) = seen \/ Len(candidates) = MAX_CANDIDATES
                    /\ \A x \in seen \ Range(candidates), y \in Range(candidates) : x.rss <= y.rss
  BY Zenon DEF CoomdInv, LargestAreCandidates
<1> DEFINE n == Len(candidates)
<1>1. /\ n \in Nat /\ Len(tmp) \in Nat /\ n <= Len(tmp) /\ n = Limit(tmp)
      /\ \A i \in 1 .. n : candidates[i] = tmp[i] /\ \A j \in i .. Len(tmp) : tmp[i].rss >= tmp[j].rss
      /\ \A i, j \in 1 .. Len(tmp) : i # j => tmp[i].pid # tmp[j].pid
      /\ seen = {tmp[i] : i \in 1 .. Len(tmp)}
  <2>1. tmp \in Seq(Candidate) /\ candidates \in Seq(Candidate)
    BY Zenon DEF CoomdInv, TypeOK
  <2>2. n \in Nat /\ Len(tmp) \in Nat
    BY <2>1
  <2>3. /\ n <= Len(tmp) /\ n = Limit(tmp)
        /\ \A i \in 1 .. n : candidates[i] = tmp[i] /\ \A j \in i .. Len(tmp) : tmp[i].rss >= tmp[j].rss
    BY Zenon DEF CoomdInv, Selected
  <2>4. /\ \A i, j \in 1 .. Len(tmp) : i # j => tmp[i].pid # tmp[j].pid
        /\ seen = {tmp[i] : i \in 1 .. Len(tmp)}
    BY Zenon DEF CoomdInv, Collected
  <2> QED BY <2>2, <2>3, <2>4, Zenon
<1>2. Range(candidates) = {candidates[i] : i \in 1 .. n}
  <2>1. candidates \in Seq(Candidate)
    BY Zenon DEF CoomdInv, TypeOK
  <2>2. DOMAIN candidates = 1 .. n
    BY <2>1
  <2> HIDE DEF n
  <2> QED
    BY <2>2, Zenon DEF Range
<1>3. \A i \in 1 .. Len(tmp) : tmp[i].rss \in Nat
  <2>1. \A i \in 1 .. Len(tmp) : tmp[i] \in Candidate
    BY DEF CoomdInv, TypeOK
  <2> QED
    BY <2>1, Zenon DEF Candidate
<1> HIDE DEF n
<1>4. \A i, j \in 1 .. n : i < j => candidates[i].rss >= candidates[j].rss /\ candidates[i].pid # candidates[j].pid
  BY <1>1
<1>5. Range(candidates) \subseteq seen
  BY <1>1, <1>2
<1>6. Range(candidates) = seen \/ n = MAX_CANDIDATES
  BY <1>1, <1>2 DEF Limit
<1>7. ASSUME NEW x \in seen \ Range(candidates), NEW y \in Range(candidates) PROVE x.rss <= y.rss
  <2>1. PICK i \in 1 .. Len(tmp) : x = tmp[i]
    BY <1>1, Zenon
  <2>2. PICK j \in 1 .. n : y = tmp[j]
    BY <1>1, <1>2, ZenonT(60)
  <2>3. i \notin 1 .. n
    BY <1>1, <1>2, <2>1, SMTT(30), Z3T(30)
  <2>4. i \in j .. Len(tmp) /\ j \in 1 .. Len(tmp)
    BY <1>1, <2>3
  <2> QED
    BY <1>1, <1>3, <2>1, <2>2, <2>4, SMTT(30)
<1> QED
  BY <1>4, <1>5, <1>6, <1>7, SMTT(30) DEF n

(***************************************************************************)
(* validator_ok() lets no protected process through whose name it could    *)
(* read, whatever the helper answered and however many processes there     *)
(* are: a verdict stays true until a process is started or renamed under   *)
(* the pid.                                                                *)
(***************************************************************************)
THEOREM NothingProtectedPasses == Spec => []PassedIsUnprotected
<1>1. CoomdInv => PassedIsUnprotected
  BY SMTT(30) DEF CoomdInv
<1> QED
  BY <1>1, CoomdInvariance, PTL

(***************************************************************************)
(* r2_collect_candidates() lists the largest of the processes it read, in  *)
(* falling order, none twice, and no table of the daemon overflows, for    *)
(* every size of its tables and every number of processes.                 *)
(***************************************************************************)
THEOREM CandidatesAreLargest == Spec => []LargestAreCandidates
BY SortedAre, CoomdInvariance, PTL

(***************************************************************************)
(* ask_llm_helper() leaves no descriptor open and no helper unreaped when  *)
(* its pipe() and fork() calls have succeeded, for every limit on open     *)
(* files.                                                                  *)
(***************************************************************************)
THEOREM LoopIsClean == Spec => []LoopLeavesNothing
<1>1. CoomdInv => LoopLeavesNothing
  BY Zenon DEF CoomdInv, Descriptors, Reaped, LoopLeavesNothing
<1> QED
  BY <1>1, CoomdInvariance, PTL
=============================================================================
