----------------------------- MODULE MCContent ------------------------------
(***************************************************************************)
(* The instance of Content that TLC explores: files of one direct block and*)
(* two behind the indirect block, a disk one such file fills.              *)
(***************************************************************************)
EXTENDS Content, TLC

MCSources == {<<1>>, <<2, 1, 2>>}

\* Processes are interchangeable, and so are open files.
MCSymmetry == Permutations(Procs) \cup Permutations(Files)
=============================================================================
