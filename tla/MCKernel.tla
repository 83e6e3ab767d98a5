------------------------------ MODULE MCKernel ------------------------------
(* Instances of Kernel for TLC. *)
EXTENDS Kernel, TLC

(* Carpinchos and CPUs are only compared for equality and kept in lists in *)
(* order of arrival: exchanging two of them exchanges two behaviours.      *)
Simetria == Permutations(Procs) \cup Permutations(CPUs)
=============================================================================
