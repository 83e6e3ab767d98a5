-------------------------- MODULE MCKernelMemoria ---------------------------
(* Instances of KernelMemoria for TLC. *)
EXTENDS KernelMemoria, TLC

Simetria == Permutations(Procs) \cup Permutations(CPUs)
=============================================================================
