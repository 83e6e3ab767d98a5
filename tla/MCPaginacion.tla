----------------------------- MODULE MCPaginacion -----------------------------
(* Instances of Paginacion for TLC. *)
EXTENDS Paginacion, TLC

CONSTANTS x, y

(* No content has a zero byte inside: a page survives the trip as a string. *)
MCEnteros == Contenidos \cup {Vacio}
=============================================================================
