-------------------------------- MODULE MCFs --------------------------------
(***************************************************************************)
(* Instances of Fs.  Paths: /a, b in the current directory, /a/b.          *)
(***************************************************************************)
EXTENDS Fs, TLC

MCPaths == {[abs |-> TRUE, elems |-> <<"a">>], [abs |-> FALSE, elems |-> <<"b">>],
            [abs |-> TRUE, elems |-> <<"a", "b">>]}

\* The root with a directory a, and room for one more inode.
MCImages == {Created(RootOnly, ROOTINO, "a", 2, "dir")}

\* The way from a directory to its parent, with a directory a/b.
DotDotPaths == {[abs |-> TRUE, elems |-> <<"a">>], [abs |-> TRUE, elems |-> <<"a", "b">>],
                [abs |-> FALSE, elems |-> <<"..">>]}

DotDotImages ==
  {Created(Created(RootOnly, ROOTINO, "a", 2, "dir"), 2, "b", 3, "dir")}

\* Processes and file table entries are interchangeable.
MCSymmetry == Permutations(Procs) \cup Permutations(Files)
=============================================================================
