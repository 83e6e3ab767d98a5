---------------------------- MODULE MCMemoriaSwamp ----------------------------
(* Instances of MemoriaSwamp for TLC. *)
EXTENDS MemoriaSwamp, TLC

CONSTANTS x, y

MCEnteros == Contenidos \cup {Vacio}
MCPeso == [d \in Contenidos \cup {Vacio, Roto, Cero, Basura} |->
             IF d = Cero THEN 0 ELSE 1]
=============================================================================
