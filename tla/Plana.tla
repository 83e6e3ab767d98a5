--------------------------------- MODULE Plana ---------------------------------
(***************************************************************************)
(* What the memory promises to a carpincho, and all it promises: pages     *)
(* that keep what was last written to them, whatever frame, TLB entry or   *)
(* swap file they travel through.                                          *)
(***************************************************************************)
EXTENDS Integers

CONSTANTS Carpinchos, MaxPaginas, Contenidos, Vacio

VARIABLES cantidad,  \* pages of each carpincho
          mem        \* what each of them holds

planaVars == <<cantidad, mem>>

Numeros == 1..MaxPaginas
Init ==
  /\ cantidad = [c \in Carpinchos |-> 0]
  /\ mem = [c \in Carpinchos |-> [n \in Numeros |-> Vacio]]

Crear(c) ==
  /\ cantidad[c] < MaxPaginas
  /\ cantidad' = [cantidad EXCEPT ![c] = @ + 1]
  /\ mem' = mem

Escribir(c, n, d) ==
  /\ n <= cantidad[c]
  /\ mem' = [mem EXCEPT ![c][n] = d]
  /\ UNCHANGED cantidad

Terminar(c) ==
  /\ cantidad' = [cantidad EXCEPT ![c] = 0]
  /\ mem' = [mem EXCEPT ![c] = [n \in Numeros |-> Vacio]]

Next == \E c \in Carpinchos : \/ Crear(c) \/ Terminar(c)
                              \/ \E n \in Numeros, d \in Contenidos : Escribir(c, n, d)

Spec == Init /\ [][Next]_planaVars
=============================================================================
