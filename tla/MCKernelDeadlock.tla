-------------------------- MODULE MCKernelDeadlock --------------------------
(* Instances of KernelDeadlock for TLC. *)
EXTENDS KernelDeadlock, TLC

CONSTANTS p1, p2, p3, s1, s2, c1, c2

De(p, t, s) == <<p, [tipo |-> t, nombre |-> s]>>

(* A semaphore reads as nobody's, or as p1's or nobody's. *)
MCEntornos == {{Ajeno}, {p1, Ajeno}}

(* Three processes wait for one semaphore. *)
Tres == [pedidos |-> <<De(p1, "INIT", s1), De(p1, "INIT", s2), De(p1, "WAIT", s1),
                       De(p2, "WAIT", s1), De(p3, "WAIT", s1)>>,
         cierran |-> {}, cpus |-> {c1}]

(* An orphan of a DESTROY, whose semaphore is made again and posted. *)
Huerfano == [pedidos |-> <<De(p1, "INIT", s1), De(p1, "WAIT", s1), De(p2, "DESTROY", s1),
                           De(p2, "INIT", s1), De(p2, "INIT", s2), De(p2, "WAIT", s2),
                           De(p3, "POST", s1)>>,
             cierran |-> {}, cpus |-> {c1}]

(* Two CPUs wait for a semaphore of value one; or one of them destroys it. *)
DosWait == [pedidos |-> <<De(p1, "INIT", s1), De(p1, "POST", s1), De(p1, "WAIT", s1),
                          De(p2, "WAIT", s1)>>,
            cierran |-> {p1, p2}, cpus |-> {c1, c2}]
WaitYDestroy == [DosWait EXCEPT !.pedidos = Append(Front(@), De(p2, "DESTROY", s1)),
                                !.cierran = {}]

(* Two wait at once for the last semaphore of the list. *)
ElUltimo == [pedidos |-> <<De(p1, "INIT", s1), De(p1, "INIT", s2), De(p1, "WAIT", s2),
                           De(p2, "WAIT", s2)>>,
             cierran |-> {}, cpus |-> {c1, c2}]

MCGuiones == {Tres, Huerfano, DosWait, WaitYDestroy, ElUltimo}
=============================================================================
