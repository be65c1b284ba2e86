------------------------------- MODULE MCProc -------------------------------
EXTENDS ProcInv, ProcTable, TLC

CpuSymmetry == Permutations(Cpus)
=============================================================================
