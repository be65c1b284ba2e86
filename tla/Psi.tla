-------------------------------- MODULE Psi --------------------------------
(***************************************************************************)
(* The two pressure averages of update_psi() (kernel/proc.c) on their own: *)
(* fixed-point exponential averages, scale 1024, of the samples "somebody  *)
(* is stalled on memory" and "and nobody could run", taken at every tick.  *)
(* The arithmetic is uint64 and stays far below its width.  Module Clock   *)
(* says where the samples come from and is proved to implement PsiSpec.    *)
(***************************************************************************)
EXTENDS Integers

VARIABLES some_avg10, full_avg10

psiVars == <<some_avg10, full_avg10>>

\* The division truncates, as in C.
Ema(flag, avg) == (flag * 1024 + 99 * avg) \div 100

\* The end of update_psi(), under psi_lock.
UpdatePsi(some, full) ==
  /\ some_avg10' = Ema(some, some_avg10)
  /\ full_avg10' = Ema(full, full_avg10)

PsiInit == some_avg10 = 0 /\ full_avg10 = 0

\* A full sample is also a some sample.
PsiNext == \E some \in {0, 1} : \E full \in 0 .. some : UpdatePsi(some, full)

PsiSpec == PsiInit /\ [][PsiNext]_psiVars

(***************************************************************************)
(* What get_psi_stats() may report: the averages saturate at 925 / 1024    *)
(* whatever the samples, never at 1024, and full never exceeds some.       *)
(***************************************************************************)
PsiBounded ==
  /\ some_avg10 \in 0 .. 925
  /\ full_avg10 \in 0 .. some_avg10
=============================================================================
