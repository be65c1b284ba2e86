----------------------------- MODULE MCPipeline -----------------------------
(***************************************************************************)
(* The pipe and the shell that builds pipelines from it, in two scenes: in *)
(* "ring" threads read, write and close one pipe of the kernel while the   *)
(* shell waits at its prompt; in "shell" lines are typed and run over      *)
(* pipes that behave as the ring is shown to.                              *)
(*                                                                         *)
(* The lines are every sequence of up to three tokens, each typed alone,   *)
(* and longer ones with pipes, groups, lists, background and ^D.           *)
(***************************************************************************)
EXTENDS Pipe, Shell

MCTokens == {"a", "|", "&", ";", "(", ")", "<", ">"}
MCShort == UNION {[1 .. k -> MCTokens] : k \in 0 .. 3}
MCLong ==
  {<<"a", "|", "a", "|", "a">>,
   <<"(", "a", "&", ";", "a", ")">>,
   <<"(", "a", "|", "a", ")", ">", "a", ";", "a">>,
   <<"a", ">", "a", ">>", "a", "|", "a">>,
   <<"a", ";", "a", "|", "a", ";", "a">>,
   <<"a", "<", "a", "a", "a">>,
   <<"a", "|", "(", "a", ";", "a", ")", "&">>}
MCScripts ==
  {<<l>> : l \in MCShort \cup MCLong}
  \cup {<<>>, <<<<"a", "&">>, <<"a">>>>, <<<<"a", "&">>, <<>>, <<"eof">>, <<"a">>>>}

VARIABLE scene
mcVars == <<scene, pipeVars, shVars>>

\* The shell at its prompt, with nothing typed.
AtPrompt ==
  /\ script = <<>> /\ typed = 0 /\ pid = 2 /\ failed = FALSE /\ inpipe = <<>>
  /\ proc = [p \in Slots |->
       IF p > 2 THEN Unused
       ELSE [Unused EXCEPT !.at = IF p = 1 THEN "init_wait" ELSE "prompt", !.fd = Standard,
                           !.parent = p - 1]]

\* kalloc() fills the pipe's page with one byte.
MCInit ==
  /\ PipeInit /\ data = [k \in 0 .. PIPESIZE - 1 |-> 0]
  /\ (scene = "ring" /\ AtPrompt) \/ (scene = "shell" /\ ShInit)

MCNext ==
  /\ UNCHANGED scene
  /\ \/ scene = "ring" /\ PipeNext /\ UNCHANGED shVars
     \/ scene = "shell" /\ ShNext /\ UNCHANGED pipeVars

\* ShFairness, of the scene in which the shell's processes run.
MCFairness == \A p \in Slots : WF_shVars(scene = "shell" /\ ShStep(p))
MCSpec == MCInit /\ [][MCNext]_mcVars /\ MCFairness
=============================================================================
