------------------------------- MODULE Kernel -------------------------------
(***************************************************************************)
(* The scheduler of the kernel (kernel/src/kernel.c).                      *)
(*                                                                         *)
(* Every thread the kernel starts is a record with a program counter: the  *)
(* accept loop of main (llegando), the long-term planner (plp), the        *)
(* short-term planner (pcp), the medium-term planner (pmp), the IO planner *)
(* (pio), the process finaliser and one thread per CPU (cpu).  They meet   *)
(* on POSIX semaphores (sem) and on lists of PCBs.  An action is a run of  *)
(* statements no other thread can tell apart from one step; a thread stops *)
(* at each semaphore and wherever it acts on something it read earlier.    *)
(*                                                                         *)
(* A carpincho (client process) holds one connection: it writes a request  *)
(* and waits for the reply.  "deuda" is requests written minus replies     *)
(* written.                                                                *)
(*                                                                         *)
(* "indefinido" becomes TRUE when the program dereferences a null or       *)
(* uninitialised pointer, writes freed memory, or lets two threads read    *)
(* one connection: from there on the code promises nothing, and the model  *)
(* stops.                                                                  *)
(*                                                                         *)
(* An operator with an underscore in its name (OpWait_UnoDeMas) is not part *)
(* of the specification: it is the next definition with a plausible        *)
(* mistake in it, which a property has to notice.                          *)
(***************************************************************************)
EXTENDS Integers, FiniteSets, SequencesExt

CONSTANTS
  Procs,        \* the carpinchos
  CPUs,         \* GRADO_MULTIPROCESAMIENTO threads running ejecutarCarpincho
  Sems,         \* names of the semaphores carpinchos share
  Nada,         \* a null pointer, a PID of -1, no request
  GRADO,        \* GRADO_MULTIPROGRAMACION
  Algoritmos,   \* values of ALGORITMO_PLANIFICACION to start with
  ValoresIni,   \* initial values carpinchos give to a semaphore
  Tipos,        \* the kinds of request the carpinchos make before they close
  MaxOps        \* bound: requests of one carpincho before it must close

Peticion ==
  [tipo : {"MEMORIA", "IO", "FINALIZACION"}]
    \cup [tipo : {"INIT", "WAIT", "POST", "DESTROY"}, nombre : Sems]

ASSUME KernelAssumption ==
  /\ GRADO \in Nat \ {0}
  /\ Algoritmos \subseteq {"SJF", "HRRN"}
  /\ ValoresIni \subseteq Nat
  /\ MaxOps \in Nat
  /\ Tipos \subseteq {"MEMORIA", "IO", "INIT", "WAIT", "POST", "DESTROY"}
  /\ IsFiniteSet(Procs) /\ IsFiniteSet(CPUs)
  /\ Nada \notin Procs \cup Peticion

SemKernelNombres == {"puedeEntrar", "procesoNuevo", "enReady", "planificar",
                     "planifMedianoPlazo", "ejecutarIO", "finalizar"}

VARIABLES
  indefinido,       \* the program has left its defined behaviour
  fase, pedido, deuda, ops,            \* the carpinchos and their connections
  pcb,              \* status, semaforoRequerido, IO_finished and PID of a PCB
  new, ready, blocked, suspendedBlocked, exit, colaIO,   \* the lists
  sem,              \* the POSIX semaphores
  planificacion, uso,                  \* the globals of kernel.h
  semaforosKernel,  \* the named semaphores: Nada when it does not exist
  liberados,        \* carpinchos whose PCB the finaliser has freed
  llegando, plp, pcp, pio, pmp, cpu    \* the threads

clientes == <<fase, pedido, deuda, ops>>
listas   == <<new, ready, blocked, suspendedBlocked, exit, colaIO>>
globales == <<planificacion, uso>>
otros    == <<semaforosKernel, liberados>>
planificadores == <<plp, pcp, pio, pmp>>
hilos    == <<llegando, planificadores, cpu>>
vars == <<indefinido, clientes, pcb, listas, sem, globales, otros, hilos>>

Init ==
  /\ indefinido = FALSE
  /\ fase   = [p \in Procs |-> "afuera"]
  /\ pedido = [p \in Procs |-> Nada]
  /\ deuda  = [p \in Procs |-> 0]
  /\ ops    = [p \in Procs |-> 0]
  /\ pcb = [p \in Procs |-> [status |-> "NEW", semReq |-> Nada,
                             ioFin |-> FALSE, pid |-> p]]
  /\ new = <<>> /\ ready = <<>> /\ blocked = <<>>
  /\ suspendedBlocked = <<>> /\ exit = <<>> /\ colaIO = <<>>
  /\ sem = [s \in SemKernelNombres |->
              IF s = "puedeEntrar" THEN GRADO
              ELSE IF s = "planificar" THEN 1 ELSE 0]
  /\ planificacion = 0 /\ uso = FALSE
  /\ semaforosKernel = [s \in Sems |-> Nada]
  /\ liberados = {}
  /\ llegando = Nada
  /\ plp = [pc |-> "espera", p |-> Nada]
  /\ pcp \in {[alg |-> a, pc |-> "espera", p |-> Nada] : a \in Algoritmos}
  /\ pio = [pc |-> "espera", pid |-> Nada, i |-> 0]
  /\ pmp = "espera"
  /\ cpu = [c \in CPUs |-> [pc |-> "libre", estado |-> "FREE", semCPU |-> 0,
                            p |-> Nada, ped |-> Nada, i |-> 0]]

-----------------------------------------------------------------------------
(* Vocabulary *)

Puede(s)     == sem[s] > 0
Bajar(s)     == [sem EXCEPT ![s] = @ - 1]
Subir(s)     == [sem EXCEPT ![s] = @ + 1]
IrA(h, pc)   == [h EXCEPT !.pc = pc]
IrCPU(c, pc) == cpu' = [cpu EXCEPT ![c].pc = pc]
Responder(p) == deuda' = [deuda EXCEPT ![p] = @ - 1]
Estado(p, e) == [pcb EXCEPT ![p].status = e]

(* The positions of a list whose PCB passes a test. *)
Donde(lista, Test(_)) == {i \in DOMAIN lista : Test(lista[i])}

(* The program dereferences something it should not.                       *)
SeRompe == indefinido' = TRUE

-----------------------------------------------------------------------------
(* The carpincho, through matelib: one request at a time.                  *)

Conectar(p) ==
  /\ fase[p] = "afuera"
  /\ fase'  = [fase EXCEPT ![p] = "conectado"]
  /\ deuda' = [deuda EXCEPT ![p] = @ + 1]
  /\ UNCHANGED <<indefinido, pedido, ops, pcb, listas, sem, globales, otros, hilos>>

Enviar(p, o) ==
  /\ fase[p] = "aceptado" /\ deuda[p] <= 0 /\ pedido[p] = Nada
  /\ pedido' = [pedido EXCEPT ![p] = o]
  /\ deuda'  = [deuda EXCEPT ![p] = @ + 1]

Pedir(p, o) ==
  /\ ops[p] < MaxOps /\ o.tipo \in Tipos
  /\ Enviar(p, o)
  /\ ops' = [ops EXCEPT ![p] = @ + 1]
  /\ UNCHANGED <<indefinido, fase, pcb, listas, sem, globales, otros, hilos>>

Cerrar(p) ==
  /\ Enviar(p, [tipo |-> "FINALIZACION"])
  /\ fase' = [fase EXCEPT ![p] = "cerrando"]
  /\ UNCHANGED <<indefinido, ops, pcb, listas, sem, globales, otros, hilos>>

-----------------------------------------------------------------------------
(* main: accept a carpincho, answer its INICIALIZACION, queue its PCB.     *)

Aceptar(p) ==
  /\ llegando = Nada /\ fase[p] = "conectado"
  /\ fase' = [fase EXCEPT ![p] = "aceptado"]
  /\ Responder(p)
  /\ llegando' = p
  /\ UNCHANGED <<indefinido, pedido, ops, pcb, listas, sem, globales, otros,
                 planificadores, cpu>>

EncolarNuevo_OtroSemaforo ==
  /\ llegando # Nada
  /\ planificacion' = 0
  /\ new' = Append(new, llegando)
  /\ sem' = Subir("enReady")
  /\ llegando' = Nada
  /\ UNCHANGED <<indefinido, clientes, pcb, ready, blocked, suspendedBlocked,
                 exit, colaIO, uso, otros, planificadores, cpu>>

EncolarNuevo ==
  /\ llegando # Nada
  /\ planificacion' = 0
  /\ new' = Append(new, llegando)
  /\ sem' = Subir("procesoNuevo")
  /\ llegando' = Nada
  /\ UNCHANGED <<indefinido, clientes, pcb, ready, blocked, suspendedBlocked,
                 exit, colaIO, uso, otros, planificadores, cpu>>

-----------------------------------------------------------------------------
(* planificadorLargoPlazo.  processSuspendedReady stays empty: a process   *)
(* only gets there through m_colaSuspendedBlocked, which the medium-term   *)
(* planner never releases.                                                 *)

PLPEspera ==
  /\ plp.pc = "espera" /\ Puede("procesoNuevo")
  /\ sem' = Bajar("procesoNuevo")
  /\ plp' = IrA(plp, IF new # <<>> THEN "cupo" ELSE "espera")
  /\ UNCHANGED <<indefinido, clientes, pcb, listas, globales, otros, llegando,
                 pcp, pio, pmp, cpu>>

PLPCupo ==
  /\ plp.pc = "cupo" /\ Puede("puedeEntrar")
  /\ sem' = Bajar("puedeEntrar")
  /\ new' = Tail(new)
  /\ plp' = [pc |-> "admitir", p |-> Head(new)]
  /\ UNCHANGED <<indefinido, clientes, pcb, ready, blocked, suspendedBlocked,
                 exit, colaIO, globales, otros, llegando, pcp, pio, pmp, cpu>>

PLPAdmitir ==
  /\ plp.pc = "admitir"
  /\ ready' = Append(ready, plp.p)
  /\ sem' = Subir("enReady")
  /\ plp' = [pc |-> "empujar", p |-> Nada]
  /\ UNCHANGED <<indefinido, clientes, pcb, new, blocked, suspendedBlocked,
                 exit, colaIO, globales, otros, llegando, pcp, pio, pmp, cpu>>

(* "TODO: esto esta bien????": an extra planificar token when READY is     *)
(* already empty again or some CPU waits for a request.                    *)
PLPEmpujar ==
  /\ plp.pc = "empujar"
  /\ IF ready = <<>> \/ uso
     THEN /\ planificacion' = 0
          /\ sem' = Subir("planificar")
          /\ plp' = IrA(plp, "dormir")
     ELSE /\ plp' = IrA(plp, "espera")
          /\ UNCHANGED <<planificacion, sem>>
  /\ UNCHANGED <<indefinido, clientes, pcb, listas, uso, otros, llegando, pcp,
                 pio, pmp, cpu>>

PLPDormir ==
  /\ plp.pc = "dormir"
  /\ planificacion' = planificacion - 1
  /\ uso' = FALSE
  /\ plp' = IrA(plp, "espera")
  /\ UNCHANGED <<indefinido, clientes, pcb, listas, sem, otros, llegando, pcp,
                 pio, pmp, cpu>>

PLP == PLPEspera \/ PLPCupo \/ PLPAdmitir \/ PLPEmpujar \/ PLPDormir

-----------------------------------------------------------------------------
(* planificarPorSJFSinDesalojo and planificarPorHRRN.  The estimates are   *)
(* times: any process of READY may have the smallest.                      *)

PCPEspera ==
  /\ pcp.pc = "espera" /\ Puede("enReady")
  /\ sem' = Bajar("enReady")
  /\ pcp' = IrA(pcp, "token")
  /\ UNCHANGED <<indefinido, clientes, pcb, listas, globales, otros, llegando,
                 plp, pio, pmp, cpu>>

PCPToken ==
  /\ pcp.pc = "token" /\ Puede("planificar")
  /\ sem' = Bajar("planificar")
  /\ pcp' = IrA(pcp, IF pcp.alg = "SJF" THEN "mirar" ELSE "elegir")
  /\ UNCHANGED <<indefinido, clientes, pcb, listas, globales, otros, llegando,
                 plp, pio, pmp, cpu>>

SJFMirar ==
  /\ pcp.pc = "mirar"
  /\ pcp' = IrA(pcp, IF planificacion = 0 THEN "elegir" ELSE "espera")
  /\ planificacion' = 0
  /\ UNCHANGED <<indefinido, clientes, pcb, listas, sem, uso, otros, llegando,
                 plp, pio, pmp, cpu>>

SJFElegir ==
  /\ pcp.alg = "SJF" /\ pcp.pc = "elegir"
  /\ \E i \in DOMAIN ready :
       /\ ready' = RemoveAt(ready, i)
       /\ pcb' = Estado(ready[i], "EXEC")
       /\ pcp' = [alg |-> pcp.alg, pc |-> "asignar", p |-> ready[i]]
  /\ UNCHANGED <<indefinido, clientes, new, blocked, suspendedBlocked, exit,
                 colaIO, sem, globales, otros, llegando, plp, pio, pmp, cpu>>

HRRNElegir ==
  /\ pcp.alg = "HRRN" /\ pcp.pc = "elegir"
  /\ \E i \in DOMAIN ready : pcb' = Estado(ready[i], "EXEC")
  /\ pcp' = IrA(pcp, "espera")
  /\ UNCHANGED <<indefinido, clientes, listas, sem, globales, otros, llegando,
                 plp, pio, pmp, cpu>>

AsignarCPU_SinOcupar(c) ==
  /\ pcp.pc = "asignar" /\ cpu[c].estado = "FREE"
  /\ cpu' = [cpu EXCEPT ![c].p = pcp.p, ![c].semCPU = @ + 1]
  /\ pcp' = [alg |-> pcp.alg, pc |-> "espera", p |-> Nada]
  /\ UNCHANGED <<indefinido, clientes, pcb, listas, sem, globales, otros,
                 llegando, plp, pio, pmp>>

(* asignarCPU: buscarCPULibre spins until it sees a FREE CPU.              *)
AsignarCPU(c) ==
  /\ pcp.pc = "asignar" /\ cpu[c].estado = "FREE"
  /\ cpu' = [cpu EXCEPT ![c].estado = "BUSY", ![c].p = pcp.p,
                        ![c].semCPU = @ + 1]
  /\ pcp' = [alg |-> pcp.alg, pc |-> "espera", p |-> Nada]
  /\ UNCHANGED <<indefinido, clientes, pcb, listas, sem, globales, otros,
                 llegando, plp, pio, pmp>>

(* buscarCPULibre first reads through an uninitialised pointer: it may     *)
(* fault, or find FREE there and return NULL, and the process is dropped.  *)
BuscarCPUSinIniciar ==
  /\ pcp.pc = "asignar"
  /\ pcp' = [alg |-> pcp.alg, pc |-> "espera", p |-> Nada]
  /\ indefinido' \in BOOLEAN
  /\ UNCHANGED <<clientes, pcb, listas, sem, globales, otros, llegando, plp,
                 pio, pmp, cpu>>

PCP == \/ PCPEspera \/ PCPToken \/ SJFMirar \/ SJFElegir \/ HRRNElegir
       \/ \E c \in CPUs : AsignarCPU(c)
       \/ BuscarCPUSinIniciar

-----------------------------------------------------------------------------
(* planificadorMedianoPlazo.  It suspends the last blocked process when    *)
(* READY is empty and somebody waits in NEW, then locks                    *)
(* m_colaSuspendedBlocked a second time where it should unlock it: it      *)
(* never gets to post puedeEntrarAlSistema, and nobody else gets the lock. *)

PMPEspera ==
  /\ pmp = "espera" /\ Puede("planifMedianoPlazo")
  /\ sem' = Bajar("planifMedianoPlazo")
  /\ pmp' = "mirar"
  /\ UNCHANGED <<indefinido, clientes, pcb, listas, globales, otros, llegando,
                 plp, pcp, pio, cpu>>

PMPMirar ==
  /\ pmp = "mirar"
  /\ pmp' = IF ready = <<>> /\ blocked # <<>> /\ new # <<>>
            THEN "suspender" ELSE "espera"
  /\ UNCHANGED <<indefinido, clientes, pcb, listas, sem, globales, otros,
                 llegando, plp, pcp, pio, cpu>>

PMPSuspender ==
  /\ pmp = "suspender"
  /\ IF blocked = <<>>
     THEN SeRompe /\ UNCHANGED <<blocked, suspendedBlocked, pmp>>
     ELSE /\ suspendedBlocked' = Append(suspendedBlocked, Last(blocked))
          /\ blocked' = Front(blocked)
          /\ pmp' = "colgado"
          /\ UNCHANGED indefinido
  /\ UNCHANGED <<clientes, pcb, new, ready, exit, colaIO, sem, globales, otros,
                 llegando, plp, pcp, pio, cpu>>

PMP == PMPEspera \/ PMPMirar \/ PMPSuspender

-----------------------------------------------------------------------------
(* planificadorIO and desbloquearPID.  A search that stops at a suspended  *)
(* process waits for m_colaSuspendedBlocked: forever ("colgado").          *)

PIOEspera ==
  /\ pio.pc = "espera" /\ Puede("ejecutarIO")
  /\ sem' = Bajar("ejecutarIO")
  /\ pio' = [pc |-> "rafaga", pid |-> Head(colaIO), i |-> 0]
  /\ colaIO' = Tail(colaIO)
  /\ UNCHANGED <<indefinido, clientes, pcb, new, ready, blocked,
                 suspendedBlocked, exit, globales, otros, llegando, plp, pcp,
                 pmp, cpu>>

PIOBuscar ==
  LET EsElPID(x) == pcb[x].pid = pio.pid
      aca  == Donde(blocked, EsElPID)
      alla == Donde(suspendedBlocked, EsElPID)
  IN  /\ pio.pc = "rafaga"
      /\ pio' = IF aca # {} THEN [pio EXCEPT !.pc = "sacar", !.i = Min(aca)]
                ELSE IrA(pio, IF alla # {} THEN "colgado" ELSE "espera")
      /\ UNCHANGED <<indefinido, clientes, pcb, listas, sem, globales, otros,
                     llegando, plp, pcp, pmp, cpu>>

Despertar_SinSacar(i) ==
  IF i \notin DOMAIN blocked
  THEN SeRompe /\ UNCHANGED <<blocked, ready, pcb, sem>>
  ELSE /\ pcb' = Estado(blocked[i], "READY")
       /\ ready' = Append(ready, blocked[i])
       /\ sem' = Subir("enReady")
       /\ UNCHANGED <<indefinido, blocked>>

(* list_remove at the index found before, then READY: the list may have    *)
(* changed in between.                                                     *)
Despertar(i) ==
  IF i \notin DOMAIN blocked
  THEN SeRompe /\ UNCHANGED <<blocked, ready, pcb, sem>>
  ELSE /\ blocked' = RemoveAt(blocked, i)
       /\ pcb' = Estado(blocked[i], "READY")
       /\ ready' = Append(ready, blocked[i])
       /\ sem' = Subir("enReady")
       /\ UNCHANGED indefinido

PIOSacar ==
  /\ pio.pc = "sacar"
  /\ Despertar(pio.i)
  /\ pio' = [pc |-> "espera", pid |-> Nada, i |-> 0]
  /\ UNCHANGED <<clientes, new, suspendedBlocked, exit, colaIO, globales,
                 otros, llegando, plp, pcp, pmp, cpu>>

PIO == PIOEspera \/ PIOBuscar \/ PIOSacar

-----------------------------------------------------------------------------
(* finalizarProceso *)

Finalizar_SinCupo ==
  /\ Puede("finalizar")
  /\ exit' = Tail(exit)
  /\ liberados' = liberados \cup {Head(exit)}
  /\ sem' = Bajar("finalizar")
  /\ UNCHANGED <<indefinido, clientes, pcb, new, ready, blocked,
                 suspendedBlocked, colaIO, globales, semaforosKernel, hilos>>

Finalizar ==
  /\ Puede("finalizar")
  /\ exit' = Tail(exit)
  /\ liberados' = liberados \cup {Head(exit)}
  /\ sem' = [sem EXCEPT !["finalizar"] = @ - 1, !["puedeEntrar"] = @ + 1]
  /\ UNCHANGED <<indefinido, clientes, pcb, new, ready, blocked,
                 suspendedBlocked, colaIO, globales, semaforosKernel, hilos>>

-----------------------------------------------------------------------------
(* ejecutarCarpincho *)

CPUEspera(c) ==
  /\ cpu[c].pc = "libre" /\ cpu[c].semCPU > 0
  /\ cpu' = [cpu EXCEPT ![c].semCPU = @ - 1, ![c].pc = "mientras"]
  /\ planificacion' = 0
  /\ UNCHANGED <<indefinido, clientes, pcb, listas, sem, uso, otros, llegando,
                 planificadores>>

(* while(status == EXEC): a pending IO answer first, then the next request.*)
CPUMientras(c) ==
  LET p == cpu[c].p
  IN  /\ cpu[c].pc = "mientras" /\ pcb[p].status = "EXEC"
      /\ IrCPU(c, IF pcb[p].ioFin THEN "io_avisar" ELSE "recv")
      /\ uso' = (uso \/ ~pcb[p].ioFin)
      /\ UNCHANGED <<indefinido, clientes, pcb, listas, sem, planificacion,
                     otros, llegando, planificadores>>

CPUAvisarIO(c) ==
  LET p == cpu[c].p
  IN  /\ cpu[c].pc = "io_avisar"
      /\ Responder(p)
      /\ pcb' = [pcb EXCEPT ![p].ioFin = FALSE]
      /\ uso' = TRUE
      /\ IrCPU(c, "recv")
      /\ UNCHANGED <<indefinido, fase, pedido, ops, listas, sem, planificacion,
                     otros, llegando, planificadores>>

(* Two CPUs in recv on one connection split the bytes of the message, and  *)
(* a recv on a connection that was closed leaves the request uninitialised.*)
CPURecv(c) ==
  LET p == cpu[c].p
  IN  /\ cpu[c].pc = "recv" /\ pedido[p] # Nada
      /\ cpu' = [cpu EXCEPT ![c].pc = "op", ![c].ped = pedido[p]]
      /\ pedido' = [pedido EXCEPT ![p] = Nada]
      /\ uso' = FALSE
      /\ indefinido' = (\E d \in CPUs \ {c} : cpu[d].pc = "recv" /\ cpu[d].p = p)
      /\ UNCHANGED <<fase, deuda, ops, pcb, listas, sem, planificacion, otros,
                     llegando, planificadores>>

CPURecvCerrado(c) ==
  /\ cpu[c].pc = "recv" /\ fase[cpu[c].p] = "cerrado"
  /\ SeRompe
  /\ UNCHANGED <<clientes, pcb, listas, sem, globales, otros, hilos>>

(* The process leaves the CPU.  The finaliser may have freed the PCB whose *)
(* status the loop reads.                                                  *)
CPUSalir(c) ==
  /\ cpu[c].pc = "mientras" /\ pcb[cpu[c].p].status # "EXEC"
  /\ indefinido' \in IF cpu[c].p \in liberados THEN BOOLEAN ELSE {FALSE}
  /\ sem' = [sem EXCEPT !["planifMedianoPlazo"] = @ + 1, !["planificar"] = @ + 1]
  /\ IrCPU(c, "soltar")
  /\ UNCHANGED <<clientes, pcb, listas, globales, otros, llegando,
                 planificadores>>

CPUSoltar(c) ==
  /\ cpu[c].pc = "soltar"
  /\ planificacion' = 0
  /\ cpu' = [cpu EXCEPT ![c].pc = "libre", ![c].estado = "FREE"]
  /\ UNCHANGED <<indefinido, clientes, pcb, listas, sem, uso, otros, llegando,
                 planificadores>>

EnOp(c, tipo) == cpu[c].pc = "op" /\ cpu[c].ped.tipo = tipo

(* MEMORIA: serializar_instancia relays the request and the answer.        *)
OpMemoria(c) ==
  /\ EnOp(c, "MEMORIA")
  /\ Responder(cpu[c].p)
  /\ IrCPU(c, "mientras")
  /\ UNCHANGED <<indefinido, fase, pedido, ops, pcb, listas, sem, globales,
                 otros, llegando, planificadores>>

(* IO: the request is queued before the process is in processBlocked, and  *)
(* IO_finished is set last.                                                *)
OpIO(c) ==
  /\ EnOp(c, "IO")
  /\ pcb' = Estado(cpu[c].p, "BLOCKED")
  /\ colaIO' = Append(colaIO, pcb[cpu[c].p].pid)
  /\ sem' = Subir("ejecutarIO")
  /\ IrCPU(c, "io_bloquear")
  /\ UNCHANGED <<indefinido, clientes, new, ready, blocked, suspendedBlocked,
                 exit, globales, otros, llegando, planificadores>>

IOBloquear(c) ==
  /\ cpu[c].pc = "io_bloquear"
  /\ blocked' = Append(blocked, cpu[c].p)
  /\ IrCPU(c, "io_marcar")
  /\ UNCHANGED <<indefinido, clientes, pcb, new, ready, suspendedBlocked, exit,
                 colaIO, sem, globales, otros, llegando, planificadores>>

IOMarcar_Respondiendo(c) ==
  /\ cpu[c].pc = "io_marcar"
  /\ pcb' = [pcb EXCEPT ![cpu[c].p].ioFin = TRUE]
  /\ Responder(cpu[c].p)
  /\ IrCPU(c, "mientras")
  /\ UNCHANGED <<indefinido, fase, pedido, ops, listas, sem, globales, otros,
                 llegando, planificadores>>

IOMarcar(c) ==
  /\ cpu[c].pc = "io_marcar"
  /\ pcb' = [pcb EXCEPT ![cpu[c].p].ioFin = TRUE]
  /\ IrCPU(c, "mientras")
  /\ UNCHANGED <<indefinido, clientes, listas, sem, globales, otros, llegando,
                 planificadores>>

OpFinalizacion(c) ==
  LET p == cpu[c].p
  IN  /\ EnOp(c, "FINALIZACION")
      /\ Responder(p)
      /\ fase' = [fase EXCEPT ![p] = "cerrado"]
      /\ pcb' = Estado(p, "FINISHED")
      /\ exit' = Append(exit, p)
      /\ sem' = Subir("finalizar")
      /\ IrCPU(c, "mientras")
      /\ UNCHANGED <<indefinido, pedido, ops, new, ready, blocked,
                     suspendedBlocked, colaIO, globales, otros, llegando,
                     planificadores>>

-----------------------------------------------------------------------------
(* operacionesSemaforo.  Every operation first leaves its semaphore's name *)
(* in semaforoRequerido, which nothing clears, and ends with a reply: also *)
(* for the process a WAIT has just blocked.                                *)

Requerir(c)  == [pcb EXCEPT ![cpu[c].p].semReq = cpu[c].ped.nombre]
ValorDe(c)   == semaforosKernel[cpu[c].ped.nombre]

OpInit(c) ==
  /\ EnOp(c, "INIT")
  /\ pcb' = Requerir(c)
  /\ IF ValorDe(c) # Nada
     THEN UNCHANGED semaforosKernel
     ELSE \E v \in ValoresIni :
            semaforosKernel' = [semaforosKernel EXCEPT ![cpu[c].ped.nombre] = v]
  /\ Responder(cpu[c].p)
  /\ IrCPU(c, "mientras")
  /\ UNCHANGED <<indefinido, fase, pedido, ops, listas, sem, globales,
                 liberados, llegando, planificadores>>

OpWait_UnoDeMas(c) ==
  /\ EnOp(c, "WAIT")
  /\ pcb' = Requerir(c)
  /\ IrCPU(c, IF ValorDe(c) = Nada THEN "responder"
              ELSE IF ValorDe(c) >= 0 THEN "restar" ELSE "bloquear")
  /\ UNCHANGED <<indefinido, clientes, listas, sem, globales, otros, llegando,
                 planificadores>>

(* restarSem tests the value before it takes m_semaforosKernel.            *)
OpWait(c) ==
  /\ EnOp(c, "WAIT")
  /\ pcb' = Requerir(c)
  /\ IrCPU(c, IF ValorDe(c) = Nada THEN "responder"
              ELSE IF ValorDe(c) >= 1 THEN "restar" ELSE "bloquear")
  /\ UNCHANGED <<indefinido, clientes, listas, sem, globales, otros, llegando,
                 planificadores>>

WaitRestar(c) ==
  /\ cpu[c].pc = "restar"
  /\ IF ValorDe(c) = Nada    \* destroyed and freed meanwhile
     THEN SeRompe /\ UNCHANGED semaforosKernel
     ELSE /\ semaforosKernel' = [semaforosKernel EXCEPT ![cpu[c].ped.nombre] = @ - 1]
          /\ UNCHANGED indefinido
  /\ IrCPU(c, "responder")
  /\ UNCHANGED <<clientes, pcb, listas, sem, globales, liberados, llegando,
                 planificadores>>

WaitBloquear_SinEstado(c) ==
  /\ cpu[c].pc = "bloquear"
  /\ blocked' = Append(blocked, cpu[c].p)
  /\ IrCPU(c, "responder")
  /\ UNCHANGED <<indefinido, clientes, pcb, new, ready, suspendedBlocked, exit,
                 colaIO, sem, globales, otros, llegando, planificadores>>

WaitBloquear(c) ==
  /\ cpu[c].pc = "bloquear"
  /\ pcb' = Estado(cpu[c].p, "BLOCKED")
  /\ blocked' = Append(blocked, cpu[c].p)
  /\ IrCPU(c, "responder")
  /\ UNCHANGED <<indefinido, clientes, new, ready, suspendedBlocked, exit,
                 colaIO, sem, globales, otros, llegando, planificadores>>

SemResponder(c) ==
  /\ cpu[c].pc = "responder"
  /\ Responder(cpu[c].p)
  /\ IrCPU(c, "mientras")
  /\ UNCHANGED <<indefinido, fase, pedido, ops, pcb, listas, sem, globales,
                 otros, llegando, planificadores>>

(* sumarSem *)
OpPost(c) ==
  /\ EnOp(c, "POST")
  /\ pcb' = Requerir(c)
  /\ IF ValorDe(c) = Nada
     THEN UNCHANGED semaforosKernel
     ELSE semaforosKernel' = [semaforosKernel EXCEPT ![cpu[c].ped.nombre] = @ + 1]
  /\ IrCPU(c, "buscar")
  /\ UNCHANGED <<indefinido, clientes, listas, sem, globales, liberados,
                 llegando, planificadores>>

(* desbloquearProcesoPorSemaforo: strcmp on every semaforoRequerido up to  *)
(* the match.  A process that never used a semaphore has none: its strcmp  *)
(* may fault.  A match among the suspended waits for their mutex.          *)
PostBuscar(c) ==
  LET Requiere(x)   == pcb[x].semReq = cpu[c].ped.nombre
      SinIniciar(x) == pcb[x].semReq = Nada
      aca  == Donde(blocked, Requiere)
      alla == Donde(suspendedBlocked, Requiere)
  IN  /\ cpu[c].pc = "buscar"
      /\ \/ /\ alla # {}
            /\ IrCPU(c, "colgada")
         \/ /\ alla = {} /\ aca # {}
            /\ cpu' = [cpu EXCEPT ![c].pc = "sacar", ![c].i = Min(aca)]
         \/ /\ alla = {} /\ aca = {}
            /\ IrCPU(c, "responder")
      /\ indefinido' \in IF Donde(suspendedBlocked \o blocked, SinIniciar) # {}
                        THEN BOOLEAN ELSE {FALSE}
      /\ UNCHANGED <<clientes, pcb, listas, sem, globales, otros, llegando,
                     planificadores>>

PostSacar(c) ==
  /\ cpu[c].pc = "sacar"
  /\ Despertar(cpu[c].i)
  /\ IrCPU(c, "responder")
  /\ UNCHANGED <<clientes, new, suspendedBlocked, exit, colaIO, globales, otros,
                 llegando, planificadores>>

(* eliminarSemaforoKernel and reasignarProcesos: every blocked process     *)
(* waiting for it gets PID -1; the list_replace on the wrong list misses.  *)
OpDestroy(c) ==
  LET s == cpu[c].ped.nombre
      SinIniciar(x) == pcb[x].semReq = Nada
      alcanzados == {x \in Procs : /\ ValorDe(c) # Nada
                                   /\ Requerir(c)[x].semReq = s
                                   /\ \E i \in DOMAIN blocked : blocked[i] = x}
  IN  /\ EnOp(c, "DESTROY")
      /\ semaforosKernel' = [semaforosKernel EXCEPT ![s] = Nada]
      /\ pcb' = [x \in Procs |-> IF x \in alcanzados
                                 THEN [Requerir(c)[x] EXCEPT !.pid = Nada]
                                 ELSE Requerir(c)[x]]
      /\ indefinido' \in IF ValorDe(c) # Nada /\ Donde(blocked, SinIniciar) # {}
                        THEN BOOLEAN ELSE {FALSE}
      /\ Responder(cpu[c].p)
      /\ IrCPU(c, "mientras")
      /\ UNCHANGED <<fase, pedido, ops, listas, sem, globales, liberados,
                     llegando, planificadores>>

CPU(c) ==
  \/ CPUEspera(c) \/ CPUMientras(c) \/ CPUAvisarIO(c) \/ CPURecv(c) \/ CPURecvCerrado(c)
  \/ CPUSalir(c) \/ CPUSoltar(c)
  \/ OpMemoria(c) \/ OpIO(c) \/ IOBloquear(c) \/ IOMarcar(c)
  \/ OpFinalizacion(c)
  \/ OpInit(c) \/ OpWait(c) \/ WaitRestar(c) \/ WaitBloquear(c)
  \/ SemResponder(c) \/ OpPost(c) \/ PostBuscar(c) \/ PostSacar(c)
  \/ OpDestroy(c)

-----------------------------------------------------------------------------
Llegada   == EncolarNuevo \/ \E p \in Procs : Aceptar(p)
Carpincho(p) == Conectar(p) \/ Cerrar(p) \/ \E o \in Peticion : Pedir(p, o)

Next ==
  /\ ~indefinido
  /\ \/ \E p \in Procs : Carpincho(p)
     \/ Llegada
     \/ PLP \/ PCP \/ PMP \/ PIO \/ Finalizar
     \/ \E c \in CPUs : CPU(c)

Spec == Init /\ [][Next]_vars

-----------------------------------------------------------------------------
TipoClientes ==
  /\ fase \in [Procs -> {"afuera", "conectado", "aceptado", "cerrando", "cerrado"}]
  /\ pedido \in [Procs -> Peticion \cup {Nada}]
  /\ deuda \in [Procs -> Int]
  /\ ops \in [Procs -> 0..MaxOps]

TipoPCB ==
  pcb \in [Procs -> [status : {"NEW", "READY", "BLOCKED", "EXEC", "FINISHED"},
                     semReq : Sems \cup {Nada}, ioFin : BOOLEAN,
                     pid : Procs \cup {Nada}]]

TipoListas ==
  /\ new \in Seq(Procs) /\ ready \in Seq(Procs) /\ blocked \in Seq(Procs)
  /\ suspendedBlocked \in Seq(Procs) /\ exit \in Seq(Procs)
  /\ colaIO \in Seq(Procs \cup {Nada})

TipoBanderas == indefinido \in BOOLEAN /\ uso \in BOOLEAN

TipoGlobales ==
  /\ sem \in [SemKernelNombres -> Nat]
  /\ planificacion \in Int
  /\ semaforosKernel \in [Sems -> Int \cup {Nada}]
  /\ liberados \in SUBSET Procs

TipoPlanificadores ==
  /\ llegando \in Procs \cup {Nada}
  /\ plp \in [pc : {"espera", "cupo", "admitir", "empujar", "dormir"},
              p : Procs \cup {Nada}]
  /\ pcp \in [alg : {"SJF", "HRRN"},
              pc : {"espera", "token", "mirar", "elegir", "asignar"},
              p : Procs \cup {Nada}]
  /\ pio \in [pc : {"espera", "rafaga", "sacar", "colgado"},
              pid : Procs \cup {Nada}, i : Nat]
  /\ pmp \in {"espera", "mirar", "suspender", "colgado"}

PCsCPU == {"libre", "mientras", "io_avisar", "recv", "op", "soltar",
           "io_bloquear", "io_marcar", "responder", "restar", "bloquear",
           "buscar", "sacar", "colgada"}
TipoCPU ==
  cpu \in [CPUs -> [pc : PCsCPU, estado : {"FREE", "BUSY"}, semCPU : Nat,
                    p : Procs \cup {Nada}, ped : Peticion \cup {Nada}, i : Nat]]

TypeOK == /\ TipoClientes /\ TipoPCB /\ TipoListas /\ TipoBanderas
          /\ TipoGlobales /\ TipoPlanificadores /\ TipoCPU

-----------------------------------------------------------------------------
(* Safety *)

Valor(b) == IF b THEN 1 ELSE 0
Veces(lista, p) == Cardinality({i \in DOMAIN lista : lista[i] = p})
EnLista(lista) == {lista[i] : i \in DOMAIN lista}

(* The processes that were taken out of NEW, and those whose PCB is not    *)
(* freed yet.                                                              *)
Entrados == {p \in Procs : /\ fase[p] \in {"aceptado", "cerrando", "cerrado"}
                           /\ p # llegando
                           /\ \A i \in DOMAIN new : new[i] # p}
Adentro  == Entrados \ liberados

(* Multiprogramming: the slots left in puedeEntrarAlSistema and the        *)
(* processes inside always add up to GRADO_MULTIPROGRAMACION, whatever     *)
(* order admission, suspension and finalisation take (lines 1238, 1129).   *)
CupoConservado == sem["puedeEntrar"] + Cardinality(Adentro) = GRADO

(* Every list a thread pops after a sem_wait has the element the semaphore *)
(* announced: the planners and the finaliser never take from an empty list *)
(* (list_get, queue_pop at 1239, 1328, 1500, 1118).                        *)
NadieSacaDeVacia ==
  /\ sem["procesoNuevo"] + Valor(plp.pc = "cupo") = Len(new)
  /\ sem["enReady"] + Valor(pcp.pc \in {"token", "mirar", "elegir"}) <= Len(ready)
  /\ sem["ejecutarIO"] = Len(colaIO)
  /\ sem["finalizar"] = Len(exit)

(* A PCB is in one place: in one list, once, or between two lists in the   *)
(* hands of a planner.                                                     *)
UnSoloLugar ==
  \A p \in Procs :
    Veces(new, p) + Veces(ready, p) + Veces(blocked, p)
      + Veces(suspendedBlocked, p) + Veces(exit, p)
      + Valor(plp.pc = "admitir" /\ plp.p = p) <= 1

(* The kernel owes a carpincho at most one reply and never answers what    *)
(* was not asked: matelib reads one reply per request.                     *)
UnaRespuestaPorPedido == \A p \in Procs : deuda[p] \in 0..1

(* A CPU's pcbCarpincho is replaced only while its thread waits for work:  *)
(* never under a thread that is serving a process (asignarCPU, 1413).      *)
PCBNoCambiaEnUso ==
  [][\A c \in CPUs : cpu'[c].p # cpu[c].p =>
       cpu[c].pc = "libre" /\ cpu[c].semCPU = 0]_vars

(* Lists and PCB status agree: what is in processBlocked is BLOCKED (a     *)
(* wake-up would otherwise pull a running process under its CPU), and what *)
(* the SJF planner can pick from processReady is not running or finished.  *)
ListaConcuerdaConEstado ==
  /\ \A p \in EnLista(blocked) \cup EnLista(suspendedBlocked) :
       pcb[p].status = "BLOCKED"
  /\ \A p \in EnLista(exit) : pcb[p].status = "FINISHED"
  /\ pcp.alg = "SJF" =>
       \A p \in EnLista(ready) : pcb[p].status \in {"NEW", "READY"}

(* restarSem tests outside the mutex: with n CPUs a named semaphore may go *)
(* below zero, by less than n.                                             *)
SemaforoAcotado ==
  \A s \in Sems : semaforosKernel[s] # Nada =>
    semaforosKernel[s] >= 1 - Cardinality(CPUs)

(* What makes CupoConservado inductive.  A thread past its semaphore holds *)
(* a process; everything a planner or a CPU handles came out of NEW; each  *)
(* carpincho closes once, so its FINALIZACION is in one place: its socket, *)
(* one CPU, or already turned into one entry of processExit; a CPU is BUSY *)
(* exactly from the post of its semaforoCPU until its thread is done.      *)
FIN == [tipo |-> "FINALIZACION"]
PideFin(c) == cpu[c].pc = "op" /\ cpu[c].ped = FIN

HilosConProceso ==
  /\ plp.pc = "admitir" => plp.p \in Entrados
  /\ pcp.pc = "asignar" => pcp.p \in Entrados
  /\ \A c \in CPUs :
       /\ cpu[c].pc # "libre" \/ cpu[c].semCPU > 0 => cpu[c].p \in Entrados
       /\ cpu[c].pc = "op" => cpu[c].ped \in Peticion

CPUOcupada ==
  \A c \in CPUs : cpu[c].semCPU + Valor(cpu[c].pc # "libre")
                     = Valor(cpu[c].estado = "BUSY")

ListasDeEntrados ==
  /\ \A i \in DOMAIN ready : ready[i] \in Entrados
  /\ \A i \in DOMAIN blocked : blocked[i] \in Entrados
  /\ \A i \in DOMAIN suspendedBlocked : suspendedBlocked[i] \in Entrados
  /\ \A i \in DOMAIN exit : exit[i] \in Adentro /\ fase[exit[i]] = "cerrado"

NuevosDistintos ==
  /\ \A i, j \in DOMAIN new : new[i] = new[j] => i = j
  /\ \A i \in DOMAIN new : /\ fase[new[i]] \in {"aceptado", "cerrando", "cerrado"}
                            /\ new[i] # llegando
  /\ llegando # Nada => fase[llegando] \in {"aceptado", "cerrando", "cerrado"}

UnSoloFin ==
  /\ \A p \in Procs : pedido[p] = FIN => fase[p] = "cerrando"
  /\ \A c \in CPUs : PideFin(c) => /\ fase[cpu[c].p] = "cerrando"
                                    /\ pedido[cpu[c].p] # FIN
  /\ \A c, d \in CPUs : PideFin(c) /\ PideFin(d) /\ cpu[c].p = cpu[d].p => c = d
  /\ \A i, j \in DOMAIN exit : exit[i] = exit[j] => i = j
  /\ \A p \in liberados : p \in Entrados /\ fase[p] = "cerrado"

IInv == /\ TypeOK /\ NadieSacaDeVacia /\ HilosConProceso /\ CPUOcupada
        /\ ListasDeEntrados /\ NuevosDistintos /\ UnSoloFin /\ CupoConservado
=============================================================================
