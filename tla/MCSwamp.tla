------------------------------- MODULE MCSwamp -------------------------------
(* Instances of Swamp for TLC. *)
EXTENDS Swamp, TLC

CONSTANTS d1, d2

(* One of the two contents has a newline in it; both weigh the same. *)
MCEnteros == {d1}
MCPeso == [x \in Datos \cup {Cero, Basura} |-> IF x = Cero THEN 0 ELSE 1]
MCMenosUno == -1
=============================================================================
