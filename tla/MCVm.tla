-------------------------------- MODULE MCVm --------------------------------
(***************************************************************************)
(* The instance of Vm that TLC explores.                                   *)
(***************************************************************************)
EXTENDS Vm, TLC

Seg(vaddr, memsz, filesz, whole) ==
  [load |-> TRUE, vaddr |-> vaddr, memsz |-> memsz, filesz |-> filesz,
   write |-> FALSE, whole |-> whole]

\* A program; one whose second segment cannot be read, after a gap; no program.
MCImages ==
  {[elf |-> TRUE, segs |-> <<Seg(0, 3, 2, TRUE)>>],
   [elf |-> TRUE, segs |-> <<Seg(0, 3, 2, TRUE), [Seg(0, 1, 1, TRUE) EXCEPT !.load = FALSE],
                             Seg(8, 4, 4, FALSE)>>],
   [elf |-> FALSE, segs |-> <<>>]}

\* No argument, one, one that cannot be read, and more than the stack holds.
MCArgs == {<<>>, <<1>>, <<0>>, <<1, 2>>}

\* Into the middle of a page, and over one.
MCSteps == {-5, 6}

\* Processes are interchangeable.
MCSymmetry == Permutations(Procs)
=============================================================================
