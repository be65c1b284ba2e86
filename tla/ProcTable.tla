----------------------------- MODULE ProcTable -----------------------------
(***************************************************************************)
(* The process table as an implementation of its abstract specification.   *)
(***************************************************************************)
EXTENDS Proc

(***************************************************************************)
(* The process table keeps the promises of Lifecycle: every step of the    *)
(* kernel changes states and parents as that specification allows.         *)
(***************************************************************************)
Life == INSTANCE Lifecycle
ImplementsLifecycle == Life!LifeSpec
=============================================================================
