------------------------------ MODULE MCCoomd -------------------------------
(***************************************************************************)
(* The instance of Coomd that TLC explores.                                *)
(***************************************************************************)
EXTENDS Coomd

\* Processes, with a sign before one, and pid 1; more than fit, with a pid
\* nobody has and the daemon's own.
MCAnswers == {<<>>, <<-3>>, <<4, 1>>, <<9, 2, 3>>}

MCRss == 0 .. 2
=============================================================================
