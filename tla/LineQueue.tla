------------------------------ MODULE LineQueue ------------------------------
(***************************************************************************)
(* What the console's input promises: characters are edited at the end of  *)
(* an unfinished line, a finished line can no longer be edited, and the    *)
(* readers take the finished characters in the order they were typed, each *)
(* once.  A full buffer finishes its line by itself.                       *)
(***************************************************************************)
EXTENDS Naturals, Sequences

CONSTANTS
  Chars,      \* the characters that can be stored
  Finishing,  \* the ones that finish a line
  Capacity

VARIABLES
  ready,  \* finished characters nobody has taken yet
  edit    \* the unfinished line

lines == <<ready, edit>>

LinesInit == ready = <<>> /\ edit = <<>>

Insert(c) ==
  /\ Len(ready) + Len(edit) < Capacity
  /\ IF c \in Finishing \/ Len(ready) + Len(edit) + 1 = Capacity
     THEN ready' = ready \o Append(edit, c) /\ edit' = <<>>
     ELSE edit' = Append(edit, c) /\ UNCHANGED ready

Erase ==
  /\ edit # <<>> /\ edit' = SubSeq(edit, 1, Len(edit) - 1)
  /\ UNCHANGED ready

KillLine == edit' = <<>> /\ UNCHANGED ready

Take == ready # <<>> /\ ready' = Tail(ready) /\ UNCHANGED edit

LinesNext == (\E c \in Chars : Insert(c)) \/ Erase \/ KillLine \/ Take

LinesSpec == LinesInit /\ [][LinesNext]_lines
=============================================================================
