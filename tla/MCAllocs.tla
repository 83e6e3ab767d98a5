------------------------------- MODULE MCAllocs -------------------------------
(* Instances of Allocs for TLC. *)
EXTENDS Allocs, TLC
=============================================================================
