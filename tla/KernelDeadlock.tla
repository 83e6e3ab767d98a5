--------------------------- MODULE KernelDeadlock ---------------------------
(***************************************************************************)
(* The scheduler of Kernel with the thread that looks for deadlocks        *)
(* (chequearDeadlock and the functions it calls).                          *)
(*                                                                         *)
(* A sweep walks processBlocked, the last process excluded, and follows    *)
(* from each one the semaphore it requires and the holder of that          *)
(* semaphore.  No semaphore has a holder: the list holds t_sem_kernel, of  *)
(* 24 bytes, and the detector reads them as semaforo, whose PID lies       *)
(* beyond.  What it reads there belongs to the allocator: a number that is *)
(* nobody's PID (Ajeno), unless it happens to be one.  leidos is what it   *)
(* may read in this execution.  Writing there is undefined.                *)
(*                                                                         *)
(* A process that is terminated is freed and taken out of processBlocked,  *)
(* and nothing else: its carpincho gets no answer, and its place in the    *)
(* system is not given back.  Afterwards any thread that still has it may  *)
(* break.                                                                  *)
(*                                                                         *)
(* Each function that walks a list once is one step, as are those of       *)
(* Kernel; other threads run between them.                                 *)
(***************************************************************************)
EXTENDS Kernel

CONSTANTS
  Ajeno,        \* a number that is no process's PID
  Entornos,     \* the sets of numbers a semaphore's PID may read as
  Guiones       \* bound: the scripts.  The carpinchos make the requests of a
                \* script in its order, though without waiting for one
                \* another; the carpinchos it names in "cierran" then close.  It has the CPUs of "cpus"

ASSUME DeadlockAssumption ==
  /\ Ajeno \notin Procs \cup {Nada}
  /\ Entornos \subseteq SUBSET (Procs \cup {Ajeno})
  /\ Guiones \subseteq [pedidos : Seq(Procs \X Peticion), cierran : SUBSET Procs,
                  cpus : SUBSET CPUs]

VARIABLES
  guion, leidos,
  orden,        \* semaforosKernel in the order of the list
  muertos,      \* the processes terminarProceso has freed
  enDeadlock,   \* procesosEnDeadlock: the PIDs followed in this sweep
  det           \* the thread: where it is, index of the sweep, PID it looks
                \* for or must terminate, process found, whether it is in the
                \* outermost comprobarDeadlock, index of terminarProceso

detector == <<guion, leidos, orden, muertos, enDeadlock, det>>
varsDeadlock == <<vars, detector>>

(* What the detector never writes.                                         *)
aparte == <<clientes, sem, globales, otros, hilos, guion, leidos, orden>>

Quieto == [pc |-> "duerme", i |-> 1, pid |-> Nada, x |-> Nada, raiz |-> TRUE, j |-> 1]

InitDeadlock ==
  /\ Init
  /\ guion \in Guiones /\ leidos \in Entornos
  /\ orden = <<>> /\ muertos = {} /\ enDeadlock = <<>>
  /\ det = Quieto

-----------------------------------------------------------------------------
(* Every loop but those of reasignarProceso, pasarDeBloqueadoAReady and    *)
(* sacarRecursos stops before the last element.                            *)
SinUltimo(lista) == 1..(Len(lista) - 1)
ConPID(pid) == {k \in SinUltimo(blocked) : pcb[blocked[k]].pid = pid}

Seguir_EnElLugar == [Quieto EXCEPT !.pc = "barrer", !.i = det.i]

Seguir == [Quieto EXCEPT !.pc = "barrer", !.i = det.i + 1]
Matar(pid) == [Quieto EXCEPT !.pc = "matar", !.i = det.i, !.pid = pid]

(* The outermost call returns r; a nested one's result is ignored, and the *)
(* outermost returns -1.                                                   *)
DevolverPID(r) == det' = Matar(IF det.raiz THEN r ELSE Nada)
DevolverCero   == det' = IF det.raiz THEN Seguir ELSE Matar(Nada)

DetDespertar ==
  /\ det.pc = "duerme" /\ blocked # <<>>
  /\ det' = [Quieto EXCEPT !.pc = "barrer"]
  /\ UNCHANGED <<vars, guion, leidos, orden, muertos, enDeadlock>>

DetBarrer ==
  /\ det.pc = "barrer"
  /\ IF det.i \in SinUltimo(blocked)
       THEN /\ det' = [det EXCEPT !.pc = "pcb", !.pid = pcb[blocked[det.i]].pid]
            /\ UNCHANGED enDeadlock
       ELSE /\ det' = Quieto /\ enDeadlock' = <<>>
  /\ UNCHANGED <<vars, guion, leidos, orden, muertos>>

(* conseguirPcb.  When it finds none and two PIDs were followed, the last  *)
(* of them, a number, is taken for the address of a PCB.                   *)
DetPcb ==
  /\ det.pc = "pcb"
  /\ \/ /\ ConPID(det.pid) # {}
        /\ det' = [det EXCEPT !.pc = "semaforo", !.x = blocked[Min(ConPID(det.pid))]]
        /\ UNCHANGED indefinido
     \/ /\ ConPID(det.pid) = {}
        /\ DevolverCero
        /\ indefinido' = (Len(enDeadlock) >= 2)
  /\ UNCHANGED <<aparte, pcb, listas, muertos, enDeadlock>>

-----------------------------------------------------------------------------
(* comprobarDeadlock, from conseguirSemaforo on.                           *)

Requerido(x) == \E k \in SinUltimo(orden) : orden[k] = pcb[x].semReq

DetSinSemaforo ==
  /\ det.pc = "semaforo" /\ ~Requerido(det.x)
  /\ det' = [det EXCEPT !.pc = "anular"]
  /\ indefinido' \in IF pcb[det.x].semReq = Nada /\ SinUltimo(orden) # {}
                       THEN BOOLEAN ELSE {FALSE}   \* strcmp
  /\ UNCHANGED <<aparte, pcb, listas, muertos, enDeadlock>>

(* It holds what it waits for.  With a process followed before, that one's *)
(* PID is taken for the address of its PCB.                                *)
DetPropio(h) ==
  /\ h = pcb[det.x].pid
  /\ det' = [det EXCEPT !.pc = "listo", !.pid = h]
  /\ indefinido' = (enDeadlock # <<>>)
  /\ UNCHANGED enDeadlock

(* The holder was followed before: a cycle.  The first ones of the list    *)
(* are dropped and the greatest PID left is chosen.                        *)
Mayores(pids) == IF pids \ {Nada} = {} THEN pids ELSE pids \ {Nada}
DetCiclo(h) ==
  /\ h # pcb[det.x].pid
  /\ \E k \in DOMAIN enDeadlock :
       /\ enDeadlock[k] = h /\ \A l \in 1..(k - 1) : enDeadlock[l] # h
       /\ enDeadlock' = SubSeq(enDeadlock, k, Len(enDeadlock))
  /\ \E pid \in Mayores(ToSet(enDeadlock')) : DevolverPID(pid)
  /\ UNCHANGED indefinido

DetOtro(h) ==
  /\ h # pcb[det.x].pid /\ h \notin ToSet(enDeadlock)
  /\ enDeadlock' = Append(enDeadlock, pcb[det.x].pid)
  /\ det' = [det EXCEPT !.pc = "pcb", !.pid = h, !.raiz = FALSE]
  /\ UNCHANGED indefinido

DetSemaforo ==
  /\ det.pc = "semaforo" /\ Requerido(det.x)
  /\ \E h \in leidos : DetPropio(h) \/ DetCiclo(h) \/ DetOtro(h)
  /\ UNCHANGED <<aparte, pcb, listas, muertos>>

(* reasignarProceso(PID, NULL) *)
DetAnular ==
  /\ det.pc = "anular"
  /\ pcb' = [x \in Procs |->
               IF x \in ToSet(blocked) /\ pcb[x].pid = pcb[det.x].pid
                 THEN [pcb[x] EXCEPT !.semReq = Nada] ELSE pcb[x]]
  /\ DevolverCero
  /\ UNCHANGED <<aparte, indefinido, listas, muertos, enDeadlock>>

(* pasarDeBloqueadoAReady: neither the status nor the semaphore of READY   *)
(* is told.                                                                *)
DetListo ==
  LET aca == {k \in DOMAIN blocked : pcb[blocked[k]].pid = det.pid}
  IN  /\ det.pc = "listo"
      /\ IF aca = {} THEN UNCHANGED <<blocked, ready>>
         ELSE /\ blocked' = RemoveAt(blocked, Min(aca))
              /\ ready' = Append(ready, blocked[Min(aca)])
      /\ DevolverCero
      /\ UNCHANGED <<aparte, indefinido, pcb, new, suspendedBlocked,
                     exit, colaIO, muertos, enDeadlock>>

-----------------------------------------------------------------------------
(* terminarProceso, with sacarRecursos.  The removal is by index, after    *)
(* the search, and the loop goes on one past it.                           *)
AMatar_Cualquiera == {k \in SinUltimo(blocked) : k >= det.j}

AMatar == {k \in ConPID(det.pid) : k >= det.j}

DetMatar ==
  /\ det.pc = "matar"
  /\ IF AMatar = {}
       THEN det' = Seguir /\ UNCHANGED <<indefinido, muertos>>
       ELSE /\ muertos' = muertos \cup {blocked[Min(AMatar)]}
            /\ det' = [det EXCEPT !.pc = "sacar", !.j = Min(AMatar)]
            /\ indefinido' \in IF det.pid \in leidos /\ orden # <<>>
                                 THEN BOOLEAN ELSE {FALSE}
  /\ UNCHANGED <<aparte, pcb, listas, enDeadlock>>

DetSacar ==
  /\ det.pc = "sacar"
  /\ IF det.j \in DOMAIN blocked
       THEN blocked' = RemoveAt(blocked, det.j) /\ UNCHANGED indefinido
       ELSE UNCHANGED blocked /\ SeRompe
  /\ det' = [det EXCEPT !.pc = "matar", !.j = @ + 1]
  /\ UNCHANGED <<aparte, pcb, new, ready, suspendedBlocked, exit, colaIO,
                 muertos, enDeadlock>>

Detector == \/ DetDespertar \/ DetBarrer \/ DetPcb \/ DetSinSemaforo
            \/ DetSemaforo \/ DetAnular \/ DetListo \/ DetMatar \/ DetSacar

-----------------------------------------------------------------------------
(* The other threads, with the order crearSemaforoKernel and               *)
(* eliminarSemaforoKernel give to the list.                                *)
CPUOrdenada(c) ==
  \/ /\ OpInit(c)
     /\ orden' = IF ValorDe(c) = Nada THEN Append(orden, cpu[c].ped.nombre) ELSE orden
  \/ /\ OpDestroy(c)
     /\ IF ValorDe(c) = Nada THEN UNCHANGED orden
        ELSE \E k \in DOMAIN orden : /\ orden[k] = cpu[c].ped.nombre
                                     /\ orden' = RemoveAt(orden, k)
  \/ /\ ~EnOp(c, "INIT") /\ ~EnOp(c, "DESTROY")
     /\ CPU(c) /\ UNCHANGED orden

(* The carpinchos follow what is left of the script.                       *)
Toca(p) == guion.pedidos # <<>> /\ Head(guion.pedidos)[1] = p

CarpinchoGuionado(p) ==
  \/ Toca(p) /\ Conectar(p) /\ UNCHANGED guion
  \/ /\ Toca(p) /\ Pedir(p, Head(guion.pedidos)[2])
     /\ guion' = [guion EXCEPT !.pedidos = Tail(@)]
  \/ /\ p \in guion.cierran /\ \A r \in ToSet(guion.pedidos) : r[1] # p
     /\ Cerrar(p) /\ UNCHANGED guion

(* A list or a CPU still has a process that was freed.                     *)
UsarMuerto ==
  /\ \/ \E p \in muertos : p \in ToSet(blocked \o ready \o suspendedBlocked)
     \/ \E c \in CPUs : cpu[c].pc # "libre" /\ cpu[c].p \in muertos
  /\ SeRompe
  /\ UNCHANGED <<clientes, pcb, listas, sem, globales, otros, hilos, detector>>

NextDeadlock ==
  /\ ~indefinido
  /\ \/ /\ \E p \in Procs : CarpinchoGuionado(p)
        /\ UNCHANGED <<leidos, orden, muertos, enDeadlock, det>>
     \/ /\ \/ PCP /\ \A c \in CPUs \ guion.cpus : cpu'[c] = cpu[c]
           \/ Llegada \/ PLP \/ PMP \/ PIO \/ Finalizar
        /\ UNCHANGED detector
     \/ /\ \E c \in CPUs : CPUOrdenada(c)
        /\ UNCHANGED <<guion, leidos, muertos, enDeadlock, det>>
     \/ Detector \/ UsarMuerto

SpecDeadlock == InitDeadlock /\ [][NextDeadlock]_varsDeadlock

(* The thread of the detector waits for nobody: the host runs it.          *)
FairSpecDeadlock == SpecDeadlock /\ WF_varsDeadlock(~indefinido /\ Detector)

-----------------------------------------------------------------------------
TipoDetector ==
  /\ guion \in [pedidos : Seq(Procs \X Peticion), cierran : SUBSET Procs,
                cpus : SUBSET CPUs]
  /\ leidos \in SUBSET (Procs \cup {Ajeno})
  /\ orden \in Seq(Sems)
  /\ muertos \in SUBSET Procs
  /\ enDeadlock \in Seq(Procs \cup {Nada})
  /\ det \in [pc : {"duerme", "barrer", "pcb", "semaforo", "anular", "listo",
                    "matar", "sacar"},
              i : Nat, pid : Procs \cup {Nada, Ajeno}, x : Procs \cup {Nada},
              raiz : BOOLEAN, j : Nat]
  /\ det.pc \in {"semaforo", "anular"} => det.x \in Procs

(* What the detector terminates (kernel.c:190).  Unless the bytes beyond a *)
(* semaphore look like a PID, never a process in a cycle, nor any other    *)
(* that has its PID: only the orphans of a DESTROY, whose PID is the -1    *)
(* that a search which finds no cycle returns.                             *)
SoloHuerfanos ==
  leidos \cap Procs = {} => \A p \in muertos : pcb[p].pid = Nada

(* Liveness: a sweep ends although the lists change under it.              *)
BarridoTermina == det.pc # "duerme" ~> (det.pc = "duerme" \/ indefinido)
=============================================================================
