----------------------------- MODULE MCConsole ------------------------------
(***************************************************************************)
(* The instance of Console that TLC explores: readers of lines ended by    *)
(* newline or by ^D and edited by ^U or backspace, and writers with the    *)
(* kernel printing beside them.                                            *)
(***************************************************************************)
EXTENDS Console, TLC

MCScenes ==
  {[calls |-> {"acquire"}, keys |-> {"x", "nl", "kill"}, prints |-> FALSE],
   [calls |-> {"acquire"}, keys |-> {"x", "eof", "erase"}, prints |-> FALSE],
   [calls |-> {"copyin"}, keys |-> {"x", "erase", "dump"}, prints |-> TRUE]}

\* Processes are interchangeable.
MCSymmetry == Permutations(Procs)
=============================================================================
