------------------------ MODULE KernelDeadlockProofs ------------------------
(* What TLAPS proves of the scheduler with the deadlock detector           *)
(* (KernelDeadlock), for any number of carpinchos and CPUs, any script and *)
(* whatever lies beyond a semaphore: the detector keeps the account of     *)
(* KernelProofs, what it terminates when no semaphore reads as a PID, and  *)
(* how far the race of restarSem takes a named semaphore.                  *)
EXTENDS KernelDeadlock, KernelProofs

-----------------------------------------------------------------------------
(* The race of restarSem.  The CPUs that have tested a semaphore and not   *)
(* yet decremented it can still take that much from it.                    *)
Restando(s) == {c \in CPUs : cpu[c].pc = "restar" /\ cpu[c].ped.nombre = s}

InvSemaforos ==
  \A s \in Sems : semaforosKernel[s] # Nada =>
    semaforosKernel[s] - Cardinality(Restando(s)) >= 1 - Cardinality(CPUs)

LEMMA RestandoAcotado ==
  /\ Cardinality(CPUs) \in Nat
  /\ \A s : /\ Cardinality(Restando(s)) \in Nat
            /\ Cardinality(Restando(s)) <= Cardinality(CPUs)
  /\ \A s : \A c \in CPUs \ Restando(s) :
       Cardinality(Restando(s)) <= Cardinality(CPUs) - 1
  /\ \A s : \A c \in Restando(s) :
       Cardinality(Restando(s) \ {c}) = Cardinality(Restando(s)) - 1
<1>0. IsFiniteSet(CPUs) /\ Cardinality(CPUs) \in Nat
  BY KernelAssumption, FS_CardinalityType
<1>1. ASSUME NEW s
      PROVE  /\ IsFiniteSet(Restando(s)) /\ Cardinality(Restando(s)) \in Nat
             /\ Cardinality(Restando(s)) <= Cardinality(CPUs)
  BY <1>0, FS_Subset, FS_CardinalityType DEF Restando
<1>2. ASSUME NEW s, NEW c \in CPUs \ Restando(s)
      PROVE  Cardinality(Restando(s)) <= Cardinality(CPUs) - 1
  <2>1. IsFiniteSet(CPUs \ {c}) /\ Cardinality(CPUs \ {c}) = Cardinality(CPUs) - 1
    BY <1>0, <1>2, FS_RemoveElement
  <2>2. Restando(s) \in SUBSET (CPUs \ {c})
    BY <1>2 DEF Restando
  <2> QED BY <2>1, <2>2, FS_Subset
<1>3. ASSUME NEW s, NEW c \in Restando(s)
      PROVE  Cardinality(Restando(s) \ {c}) = Cardinality(Restando(s)) - 1
  BY <1>1, <1>3, FS_RemoveElement
<1> QED BY <1>0, <1>1, <1>2, <1>3

(* A step that leaves the same CPUs about to decrement, and no semaphore   *)
(* lower than it was, or than zero if it is new, keeps the bound.          *)
LEMMA MismosRestando ==
  ASSUME InvSemaforos,
         \A s \in Sems : Restando(s)' = Restando(s),
         \A s \in Sems : semaforosKernel'[s] = semaforosKernel[s]
                           \/ semaforosKernel'[s] = Nada
  PROVE  InvSemaforos'
BY DEF InvSemaforos

LEMMA CPUSemaforos ==
  ASSUME IInv, InvSemaforos, NEW c \in CPUs, CPU(c)
  PROVE  InvSemaforos'
<1> USE DEF IInv
<1>t. /\ cpu \in [CPUs -> [pc : PCsCPU, estado : {"FREE", "BUSY"}, semCPU : Nat,
                           p : Procs \cup {Nada}, ped : Peticion \cup {Nada}, i : Nat]]
      /\ semaforosKernel \in [Sems -> Int \cup {Nada}]
  BY DEF TypeOK, TipoCPU, TipoGlobales
<1>1. ASSUME NEW x \in PCsCPU \ {"restar"}, IrCPU(c, x), cpu[c].pc # "restar"
      PROVE  \A s : Restando(s)' = Restando(s)
  BY <1>t, <1>1 DEF IrCPU, Restando
<1>2. CASE OpWait(c)
  <2> PICK n : n = cpu[c].ped.nombre
    OBVIOUS
  <2>1. cpu[c].pc # "restar" /\ UNCHANGED semaforosKernel
    BY <1>2 DEF OpWait, EnOp, otros
  <2>2. CASE IrCPU(c, "responder") \/ IrCPU(c, "bloquear")
    BY <1>1, <2>1, <2>2, MismosRestando DEF PCsCPU
  <2>3. CASE IrCPU(c, "restar") /\ semaforosKernel[n] # Nada /\ semaforosKernel[n] >= 1
    <3>1. \A s : s # n => Restando(s)' = Restando(s)
      BY <1>t, <2>1, <2>3 DEF IrCPU, Restando
    <3>2. /\ Cardinality(Restando(n))' \in Nat
          /\ Cardinality(Restando(n))' <= Cardinality(CPUs)
      <4>1. Restando(n)' \in SUBSET CPUs
        BY DEF Restando
      <4> QED BY <4>1, KernelAssumption, FS_Subset, FS_CardinalityType
    <3>3. \A s \in Sems : semaforosKernel[s] # Nada => semaforosKernel[s] \in Int
      BY <1>t
    <3> QED BY <2>1, <2>3, <3>1, <3>2, <3>3, RestandoAcotado DEF InvSemaforos
  <2> QED BY <1>2, <2>2, <2>3 DEF OpWait, ValorDe
<1>3. CASE WaitRestar(c)
  <2> PICK n : n = cpu[c].ped.nombre
    OBVIOUS
  <2>1. /\ cpu[c].pc = "restar" /\ IrCPU(c, "responder")
        /\ semaforosKernel[n] # Nada =>
             semaforosKernel' = [semaforosKernel EXCEPT ![n] = @ - 1]
        /\ semaforosKernel[n] = Nada => UNCHANGED semaforosKernel
    BY <1>3 DEF WaitRestar, ValorDe
  <2>2. /\ \A s : s # n => Restando(s)' = Restando(s)
        /\ Restando(n)' = Restando(n) \ {c}
        /\ c \in Restando(n)
    BY <1>t, <2>1 DEF IrCPU, Restando
  <2>3. /\ Cardinality(Restando(n)') = Cardinality(Restando(n)) - 1
        /\ Cardinality(Restando(n)) \in Nat
    BY <2>2, RestandoAcotado
  <2>4. \A s \in Sems \ {n} : semaforosKernel'[s] = semaforosKernel[s]
    BY <1>t, <2>1
  <2>5. \A s \in Sems \ {n} : InvSemaforos /\ semaforosKernel'[s] # Nada =>
           semaforosKernel'[s] - Cardinality(Restando(s)') >= 1 - Cardinality(CPUs)
    BY <2>2, <2>4 DEF InvSemaforos
  <2>6. CASE semaforosKernel[n] # Nada /\ n \in Sems
    <3>1. semaforosKernel[n] \in Int /\ semaforosKernel'[n] = semaforosKernel[n] - 1
      BY <1>t, <2>1, <2>6
    <3>2. semaforosKernel'[n] - Cardinality(Restando(n)')
            >= 1 - Cardinality(CPUs)
      BY <2>3, <2>6, <3>1, RestandoAcotado DEF InvSemaforos
    <3> QED BY <2>5, <3>2 DEF InvSemaforos
  <2>7. CASE semaforosKernel[n] = Nada
    BY <2>1, <2>5, <2>7 DEF InvSemaforos
  <2> QED BY <2>5, <2>6, <2>7 DEF InvSemaforos
<1>4. CASE OpInit(c)
  <2> PICK n : n = cpu[c].ped.nombre
    OBVIOUS
  <2>1. cpu[c].pc = "op" /\ IrCPU(c, "mientras")
    BY <1>4 DEF OpInit, EnOp
  <2>2. \A s : Restando(s)' = Restando(s) /\ c \notin Restando(s)
    BY <1>1, <2>1 DEF Restando, PCsCPU
  <2>3. CASE UNCHANGED semaforosKernel
    BY <2>2, <2>3, MismosRestando
  <2>4. ASSUME NEW v \in ValoresIni, semaforosKernel' = [semaforosKernel EXCEPT ![n] = v]
        PROVE  InvSemaforos'
    <3>1. \A s \in Sems \ {n} : semaforosKernel'[s] = semaforosKernel[s]
      BY <1>t, <2>4
    <3>2. n \in Sems => semaforosKernel'[n] = v /\ v \in Nat
      BY <1>t, <2>4, KernelAssumption
    <3>3. /\ Cardinality(Restando(n)) \in Nat /\ Cardinality(CPUs) \in Nat
          /\ Cardinality(Restando(n)) <= Cardinality(CPUs) - 1
      BY <2>2, RestandoAcotado
    <3>4. n \in Sems => semaforosKernel'[n] - Cardinality(Restando(n)')
                           >= 1 - Cardinality(CPUs)
      BY <2>2, <3>2, <3>3
    <3> QED BY <2>2, <3>1, <3>4 DEF InvSemaforos
  <2> QED BY <1>4, <2>3, <2>4 DEF OpInit
<1>5. CASE OpPost(c)
  <2> PICK n : n = cpu[c].ped.nombre
    OBVIOUS
  <2>1. \A s : Restando(s)' = Restando(s)
    BY <1>1, <1>5 DEF OpPost, EnOp, PCsCPU
  <2>2. \A s \in Sems : \/ semaforosKernel'[s] = semaforosKernel[s]
                        \/ /\ semaforosKernel[s] # Nada
                           /\ semaforosKernel'[s] = semaforosKernel[s] + 1
    BY <1>t, <1>5 DEF OpPost, ValorDe
  <2>3. \A s \in Sems : semaforosKernel[s] # Nada => semaforosKernel[s] \in Int
    BY <1>t
  <2> QED BY <2>1, <2>2, <2>3, RestandoAcotado DEF InvSemaforos
<1>6. CASE OpDestroy(c)
  <2>1. \A s : Restando(s)' = Restando(s)
    BY <1>1, <1>6 DEF OpDestroy, EnOp, PCsCPU
  <2>2. \A s \in Sems : \/ semaforosKernel'[s] = semaforosKernel[s]
                        \/ semaforosKernel'[s] = Nada
    BY <1>t, <1>6 DEF OpDestroy
  <2> QED BY <2>1, <2>2, MismosRestando
<1>7. CASE CPUEspera(c) \/ CPUMientras(c) \/ CPUAvisarIO(c) \/ CPURecv(c)
           \/ CPURecvCerrado(c) \/ CPUSalir(c) \/ CPUSoltar(c)
  <2>1. UNCHANGED semaforosKernel
    BY <1>7 DEF CPUEspera, CPUMientras, CPUAvisarIO, CPURecv, CPURecvCerrado,
       CPUSalir, CPUSoltar, otros
  <2>2. \A s : Restando(s)' = Restando(s)
    <3>1. CASE CPUEspera(c) \/ CPURecv(c) \/ CPUSoltar(c)
      BY <1>t, <3>1 DEF CPUEspera, CPURecv, CPUSoltar, Restando
    <3>2. CASE CPUMientras(c) \/ CPUAvisarIO(c) \/ CPUSalir(c)
      BY <1>1, <3>2 DEF CPUMientras, CPUAvisarIO, CPUSalir, PCsCPU
    <3>3. CASE CPURecvCerrado(c)
      BY <3>3 DEF CPURecvCerrado, hilos, Restando
    <3> QED BY <1>7, <3>1, <3>2, <3>3
  <2> QED BY <2>1, <2>2, MismosRestando
<1>8. CASE OpMemoria(c) \/ OpIO(c) \/ IOBloquear(c) \/ IOMarcar(c) \/ OpFinalizacion(c)
           \/ WaitBloquear(c) \/ SemResponder(c) \/ PostBuscar(c) \/ PostSacar(c)
  <2>1. UNCHANGED semaforosKernel
    BY <1>8 DEF OpMemoria, OpIO, IOBloquear, IOMarcar, OpFinalizacion, WaitBloquear,
       SemResponder, PostBuscar, PostSacar, otros
  <2>2. \A s : Restando(s)' = Restando(s)
    <3>1. CASE PostBuscar(c)
      BY <1>t, <3>1 DEF PostBuscar, IrCPU, Restando
    <3>2. CASE ~PostBuscar(c)
      BY <1>1, <1>8, <3>2 DEF OpMemoria, OpIO, IOBloquear, IOMarcar, OpFinalizacion,
         WaitBloquear, SemResponder, PostSacar, EnOp, PCsCPU
    <3> QED BY <3>1, <3>2
  <2> QED BY <2>1, <2>2, MismosRestando
<1> QED BY <1>2, <1>3, <1>4, <1>5, <1>6, <1>7, <1>8 DEF CPU

LEMMA SemaforosPaso ==
  ASSUME IInv, InvSemaforos, [Next]_vars
  PROVE  InvSemaforos'
<1> USE DEF IInv
<1>1. ASSUME NEW p \in Procs, Carpincho(p) PROVE UNCHANGED <<cpu, semaforosKernel>>
  BY <1>1 DEF Carpincho, Conectar, Cerrar, Pedir, hilos, otros
<1>2. Llegada \/ PLP \/ PMP \/ PIO \/ Finalizar => UNCHANGED <<cpu, semaforosKernel>>
  BY DEF Llegada, EncolarNuevo, Aceptar, PLP, PLPEspera, PLPCupo, PLPAdmitir, PLPEmpujar,
     PLPDormir, PMP, PMPEspera, PMPMirar, PMPSuspender, PIO, PIOEspera, PIOBuscar,
     PIOSacar, Finalizar, hilos, otros
<1>3. ASSUME PCP
      PROVE  UNCHANGED semaforosKernel /\ \A s : Restando(s)' = Restando(s)
  <2>1. ASSUME NEW c \in CPUs, AsignarCPU(c) PROVE \A s : Restando(s)' = Restando(s)
    BY <2>1 DEF AsignarCPU, Restando, TypeOK, TipoCPU
  <2>2. UNCHANGED cpu => \A s : Restando(s)' = Restando(s)
    BY DEF Restando
  <2> QED BY <1>3, <2>1, <2>2 DEF PCP, PCPEspera, PCPToken, SJFMirar, SJFElegir,
         HRRNElegir, BuscarCPUSinIniciar, AsignarCPU, otros
<1>4. UNCHANGED <<cpu, semaforosKernel>> => InvSemaforos'
  BY DEF InvSemaforos, Restando
<1>5. UNCHANGED vars => UNCHANGED <<cpu, semaforosKernel>>
  BY DEF vars, hilos, otros
<1> QED BY <1>1, <1>2, <1>3, <1>4, <1>5, CPUSemaforos, MismosRestando DEF Next

LEMMA SemaforosInicial == Init => InvSemaforos
BY DEF Init, InvSemaforos

LEMMA SemaforosCota == TypeOK /\ InvSemaforos => SemaforoAcotado
<1> SUFFICES ASSUME TypeOK, InvSemaforos, NEW s \in Sems, semaforosKernel[s] # Nada
             PROVE  semaforosKernel[s] >= 1 - Cardinality(CPUs)
  BY DEF SemaforoAcotado
<1>1. semaforosKernel[s] \in Int
  BY DEF TypeOK, TipoGlobales
<1> QED BY <1>1, RestandoAcotado DEF InvSemaforos

(* Whatever the CPUs do between the test and the decrement of restarSem,   *)
(* GRADO_MULTIPROCESAMIENTO of them take a named semaphore to one less     *)
(* than their number below zero, and no further.                           *)
THEOREM SemaforoSiempreAcotado == Spec => []SemaforoAcotado
<1>1. IInv /\ InvSemaforos => SemaforoAcotado
  BY SemaforosCota DEF IInv
<1>2. Init => InvSemaforos
  BY SemaforosInicial
<1>3. IInv /\ InvSemaforos /\ [Next]_vars => InvSemaforos'
  BY SemaforosPaso
<1> QED BY <1>1, <1>2, <1>3, Invariante, PTL DEF Spec

-----------------------------------------------------------------------------
(* The threads of the scheduler, with the detector beside them.            *)

LEMMA GuionadoEsCarpincho ==
  ASSUME TipoDetector, NEW p \in Procs, CarpinchoGuionado(p)
  PROVE  /\ Carpincho(p)
         /\ guion' \in [pedidos : Seq(Procs \X Peticion), cierran : SUBSET Procs,
                       cpus : SUBSET CPUs]
<1> USE DEF TipoDetector
<1>1. CASE Toca(p) /\ Pedir(p, Head(guion.pedidos)[2])
           /\ guion' = [guion EXCEPT !.pedidos = Tail(@)]
  <2>1. guion.pedidos \in Seq(Procs \X Peticion) /\ guion.pedidos # <<>>
    BY <1>1 DEF Toca
  <2>2. /\ Head(guion.pedidos) \in Procs \X Peticion
        /\ Tail(guion.pedidos) \in Seq(Procs \X Peticion)
    BY <2>1, SacarDeCola
  <2>3. Head(guion.pedidos)[2] \in Peticion
    BY <2>2
  <2> QED BY <1>1, <2>2, <2>3 DEF Carpincho
<1>2. CASE (Conectar(p) \/ Cerrar(p)) /\ UNCHANGED guion
  BY <1>2 DEF Carpincho
<1> QED BY <1>1, <1>2 DEF CarpinchoGuionado

LEMMA OrdenadaEsCPU ==
  ASSUME IInv, TipoDetector, NEW c \in CPUs, CPUOrdenada(c)
  PROVE  CPU(c) /\ orden' \in Seq(Sems)
<1> USE DEF IInv, TipoDetector
<1>1. CASE /\ OpInit(c)
           /\ orden' = IF ValorDe(c) = Nada THEN Append(orden, cpu[c].ped.nombre) ELSE orden
  <2>1. cpu[c].ped.nombre \in Sems
    BY <1>1 DEF OpInit, EnOp, HilosConProceso, Peticion
  <2>2. orden' = Append(orden, cpu[c].ped.nombre) \/ orden' = orden
    BY <1>1
  <2>3. orden' \in Seq(Sems)
    <3>1. orden \in Seq(Sems)
      OBVIOUS
    <3>2. Append(orden, cpu[c].ped.nombre) \in Seq(Sems)
      BY <2>1, <3>1, Agregar
    <3> QED BY <2>2, <3>1, <3>2
  <2> QED BY <1>1, <2>3 DEF CPU
<1>2. CASE /\ OpDestroy(c)
           /\ IF ValorDe(c) = Nada THEN UNCHANGED orden
              ELSE \E k \in DOMAIN orden : /\ orden[k] = cpu[c].ped.nombre
                                           /\ orden' = RemoveAt(orden, k)
  <2>1. orden' = orden \/ \E k \in DOMAIN orden : orden' = RemoveAt(orden, k)
    BY <1>2
  <2>2. orden' \in Seq(Sems)
    BY <2>1, SacarDeLista
  <2> QED BY <1>2, <2>2 DEF CPU
<1>3. CASE CPU(c) /\ UNCHANGED orden
  BY <1>3
<1> QED BY <1>1, <1>2, <1>3 DEF CPUOrdenada

(* A step is one of the scheduler's, with the detector where it was, or    *)
(* one of the detector's, or the end of the defined behaviour.             *)
LEMMA PasoPartido ==
  ASSUME IInv, TipoDetector, NextDeadlock
  PROVE  \/ Next /\ UNCHANGED <<leidos, muertos, enDeadlock, det>> /\ TipoDetector'
         \/ Detector
         \/ UsarMuerto
<1>1. ASSUME NEW p \in Procs, CarpinchoGuionado(p), ~indefinido,
             UNCHANGED <<leidos, orden, muertos, enDeadlock, det>>
      PROVE  Next /\ TipoDetector'
  BY <1>1, GuionadoEsCarpincho DEF Next, TipoDetector
<1>2. ASSUME NEW c \in CPUs, CPUOrdenada(c), ~indefinido,
             UNCHANGED <<guion, leidos, muertos, enDeadlock, det>>
      PROVE  Next /\ TipoDetector'
  BY <1>2, OrdenadaEsCPU DEF Next, TipoDetector
<1>3. ASSUME PCP \/ Llegada \/ PLP \/ PMP \/ PIO \/ Finalizar, ~indefinido,
             UNCHANGED detector
      PROVE  Next /\ TipoDetector' /\ UNCHANGED <<leidos, muertos, enDeadlock, det>>
  BY <1>3 DEF Next, TipoDetector, detector
<1> QED BY <1>1, <1>2, <1>3 DEF NextDeadlock

-----------------------------------------------------------------------------
(* The detector's own steps.                                               *)

LEMMA Indices ==
  ASSUME TypeOK, NEW T \in SUBSET (DOMAIN blocked), T # {}
  PROVE  Min(T) \in DOMAIN blocked /\ Min(T) \in T /\ Min(T) \in Nat
         /\ blocked[Min(T)] \in Procs
<1>1. blocked \in Seq(Procs) /\ DOMAIN blocked \in SUBSET Nat
  BY DEF TypeOK, TipoListas
<1>2. Min(T) \in T /\ Min(T) \in Nat
  BY <1>1, MinimoEsta
<1> QED BY <1>1, <1>2

LEMMA DetTipos ==
  ASSUME TypeOK, TipoDetector, Detector
  PROVE  TipoDetector'
<1> USE DEF TypeOK, TipoDetector
<1>0. /\ pcb \in [Procs -> [status : {"NEW", "READY", "BLOCKED", "EXEC", "FINISHED"},
                            semReq : Sems \cup {Nada}, ioFin : BOOLEAN,
                            pid : Procs \cup {Nada}]]
      /\ blocked \in Seq(Procs)
      /\ \A k \in SinUltimo(blocked) : k \in DOMAIN blocked /\ blocked[k] \in Procs
      /\ \A q : ConPID(q) \in SUBSET (DOMAIN blocked)
  BY DEF TipoPCB, TipoListas, SinUltimo, ConPID
<1>q. /\ Quieto.pc = "duerme" /\ Quieto.i = 1 /\ Quieto.pid = Nada /\ Quieto.x = Nada
      /\ Quieto.raiz = TRUE /\ Quieto.j = 1
  BY DEF Quieto
<1> DEFINE R == [pc : {"duerme", "barrer", "pcb", "semaforo", "anular", "listo",
                       "matar", "sacar"},
                 i : Nat, pid : Procs \cup {Nada, Ajeno}, x : Procs \cup {Nada},
                 raiz : BOOLEAN, j : Nat]
<1>r. /\ Quieto \in R
      /\ Seguir \in R /\ Seguir.pc = "barrer"
      /\ \A q \in Procs \cup {Nada, Ajeno} : Matar(q) \in R /\ Matar(q).pc = "matar"
  <2>1. det.i \in Nat /\ det.i + 1 \in Nat
    OBVIOUS
  <2>2. Quieto \in R
    BY DEF Quieto
  <2>3. Seguir \in R /\ Seguir.pc = "barrer"
    BY <2>1 DEF Seguir, Quieto
  <2>4. \A q \in Procs \cup {Nada, Ajeno} : Matar(q) \in R /\ Matar(q).pc = "matar"
    BY <2>1 DEF Matar, Quieto
  <2> QED BY <2>2, <2>3, <2>4
<1>c. DevolverCero => det' \in R /\ det'.pc \notin {"semaforo", "anular"}
  BY <1>r DEF DevolverCero
<1>1. CASE DetDespertar
  BY <1>1 DEF DetDespertar, Quieto
<1>2. CASE DetBarrer
  <2>1. UNCHANGED <<guion, leidos, orden, muertos>>
    BY <1>2 DEF DetBarrer
  <2>2. CASE det' = Quieto /\ enDeadlock' = <<>>
    BY <1>r, <1>q, <2>1, <2>2
  <2>3. CASE /\ det.i \in SinUltimo(blocked) /\ UNCHANGED enDeadlock
             /\ det' = [det EXCEPT !.pc = "pcb", !.pid = pcb[blocked[det.i]].pid]
    <3>1. pcb[blocked[det.i]].pid \in Procs \cup {Nada}
      BY <1>0, <2>3
    <3> QED BY <2>1, <2>3, <3>1
  <2> QED BY <1>2, <2>2, <2>3 DEF DetBarrer
<1>3. CASE DetPcb
  <2>1. UNCHANGED <<guion, leidos, orden, muertos, enDeadlock>>
    BY <1>3 DEF DetPcb, aparte
  <2>2. CASE DevolverCero
    BY <1>c, <2>1, <2>2
  <2>3. CASE /\ ConPID(det.pid) # {}
             /\ det' = [det EXCEPT !.pc = "semaforo", !.x = blocked[Min(ConPID(det.pid))]]
    <3>1. blocked[Min(ConPID(det.pid))] \in Procs
      BY <1>0, <2>3, Indices
    <3> QED BY <2>1, <2>3, <3>1
  <2> QED BY <1>3, <2>2, <2>3 DEF DetPcb
<1>4. CASE DetSinSemaforo
  BY <1>4 DEF DetSinSemaforo, aparte
<1>5. CASE DetSemaforo
  <2>0. det.x \in Procs /\ pcb[det.x].pid \in Procs \cup {Nada}
    BY <1>0, <1>5 DEF DetSemaforo
  <2>1. UNCHANGED <<guion, leidos, orden, muertos>>
    BY <1>5 DEF DetSemaforo, aparte
  <2>2. ASSUME NEW h \in leidos, DetPropio(h) PROVE TipoDetector'
    BY <2>0, <2>1, <2>2 DEF DetPropio
  <2>3. ASSUME NEW h \in leidos, DetOtro(h) PROVE TipoDetector'
    <3>1. enDeadlock' \in Seq(Procs \cup {Nada})
      BY <2>0, <2>3, Agregar DEF DetOtro
    <3> QED BY <2>1, <2>3, <3>1 DEF DetOtro
  <2>4. ASSUME NEW h \in leidos, DetCiclo(h) PROVE TipoDetector'
    <3>1. PICK k \in DOMAIN enDeadlock : enDeadlock' = SubSeq(enDeadlock, k, Len(enDeadlock))
      BY <2>4 DEF DetCiclo
    <3>2. enDeadlock' \in Seq(Procs \cup {Nada})
      BY <3>1
    <3>3. PICK q \in Mayores(ToSet(enDeadlock')) : DevolverPID(q)
      BY <2>4 DEF DetCiclo
    <3>4. q \in Procs \cup {Nada}
      BY <3>2, <3>3 DEF Mayores, ToSet
    <3>5. det' \in R /\ det'.pc = "matar"
      BY <1>r, <3>3, <3>4 DEF DevolverPID
    <3> QED BY <2>1, <3>2, <3>5
  <2> QED BY <1>5, <2>2, <2>3, <2>4 DEF DetSemaforo
<1>6. CASE DetAnular \/ DetListo
  <2>1. UNCHANGED <<guion, leidos, orden, muertos, enDeadlock>> /\ DevolverCero
    BY <1>6 DEF DetAnular, DetListo, aparte
  <2> QED BY <1>c, <2>1
<1>7. CASE DetMatar
  <2>1. UNCHANGED <<guion, leidos, orden, enDeadlock>>
    BY <1>7 DEF DetMatar, aparte
  <2>2. CASE AMatar = {}
    BY <1>7, <1>r, <2>1, <2>2 DEF DetMatar
  <2>3. CASE AMatar # {}
    <3>1. blocked[Min(AMatar)] \in Procs /\ Min(AMatar) \in Nat
      BY <1>0, <2>3, Indices DEF AMatar
    <3> QED BY <1>7, <2>1, <2>3, <3>1 DEF DetMatar
  <2> QED BY <2>2, <2>3
<1>8. CASE DetSacar
  <2>1. UNCHANGED <<guion, leidos, orden, muertos, enDeadlock>>
    BY <1>8 DEF DetSacar, aparte
  <2>2. det' = [det EXCEPT !.pc = "matar", !.j = det.j + 1]
    BY <1>8 DEF DetSacar
  <2>3. det.j + 1 \in Nat
    OBVIOUS
  <2> QED BY <2>1, <2>2, <2>3
<1> QED BY <1>1, <1>2, <1>3, <1>4, <1>5, <1>6, <1>7, <1>8 DEF Detector

(* What a step of the detector may change for the other threads: the       *)
(* semaforoRequerido of some PCBs, or one process less in processBlocked,  *)
(* with or without it at the end of processReady.                          *)
LEMMA DetMarco ==
  ASSUME TypeOK, TipoDetector, Detector
  PROVE  /\ UNCHANGED <<clientes, sem, globales, otros, hilos, leidos>>
         /\ UNCHANGED <<new, suspendedBlocked, exit, colaIO>>
         /\ indefinido' \in BOOLEAN
         /\ \/ UNCHANGED <<blocked, ready>>
            \/ \E k \in DOMAIN blocked :
                 /\ blocked' = RemoveAt(blocked, k)
                 /\ ready' = ready \/ ready' = Append(ready, blocked[k])
         /\ TipoPCB' /\ \A x \in Procs : pcb'[x].pid = pcb[x].pid
<1>0. indefinido \in BOOLEAN /\ TipoPCB
  BY DEF TypeOK, TipoBanderas
<1>1. CASE DetDespertar \/ DetBarrer
  BY <1>0, <1>1, MarcoTipos DEF DetDespertar, DetBarrer, vars, listas
<1>2. CASE DetPcb
  <2> DEFINE dos == Len(enDeadlock) >= 2
  <2>0. dos \in BOOLEAN
    OBVIOUS
  <2>1. UNCHANGED <<aparte, pcb, listas>> /\ indefinido' \in BOOLEAN
    <3>1. UNCHANGED <<aparte, pcb, listas>> /\ (indefinido' = indefinido \/ indefinido' = dos)
      BY <1>2 DEF DetPcb
    <3> HIDE DEF dos
    <3> QED BY <1>0, <2>0, <3>1
  <2> QED BY <1>0, <2>1, MarcoTipos DEF aparte, listas
<1>3. CASE DetSinSemaforo \/ DetMatar
  <2>1. UNCHANGED <<aparte, pcb, listas>> /\ indefinido' \in BOOLEAN
    BY <1>0, <1>3 DEF DetSinSemaforo, DetMatar
  <2> QED BY <1>0, <2>1, MarcoTipos DEF aparte, listas
<1>4. CASE DetSemaforo
  <2>1. UNCHANGED <<aparte, pcb, listas>> /\ indefinido' \in BOOLEAN
    BY <1>0, <1>4 DEF DetSemaforo, DetPropio, DetCiclo, DetOtro
  <2> QED BY <1>0, <2>1, MarcoTipos DEF aparte, listas
<1>5. CASE DetAnular
  <2>1. UNCHANGED <<aparte, listas, indefinido>>
    BY <1>5 DEF DetAnular
  <2>2. \A x \in Procs : pcb'[x] = pcb[x] \/ pcb'[x] = [pcb[x] EXCEPT !.semReq = Nada]
    BY <1>5 DEF DetAnular
  <2>3. /\ TipoPCB' /\ \A x \in Procs : pcb'[x].pid = pcb[x].pid
    <3>1. pcb' = [x \in Procs |-> pcb'[x]]
      BY <1>5 DEF DetAnular
    <3>2. \A x \in Procs :
            /\ pcb'[x] \in [status : {"NEW", "READY", "BLOCKED", "EXEC", "FINISHED"},
                            semReq : Sems \cup {Nada}, ioFin : BOOLEAN,
                            pid : Procs \cup {Nada}]
            /\ pcb'[x].pid = pcb[x].pid
      BY <1>0, <2>2 DEF TipoPCB
    <3> QED BY <3>1, <3>2 DEF TipoPCB
  <2> QED BY <1>0, <2>1, <2>3 DEF aparte, listas
<1>6. CASE DetListo
  <2> DEFINE aca == {k \in DOMAIN blocked : pcb[blocked[k]].pid = det.pid}
  <2>1. UNCHANGED <<aparte, indefinido, pcb, new, suspendedBlocked, exit, colaIO>>
    BY <1>6 DEF DetListo
  <2>2. \/ UNCHANGED <<blocked, ready>>
        \/ /\ aca # {} /\ blocked' = RemoveAt(blocked, Min(aca))
           /\ ready' = Append(ready, blocked[Min(aca)])
    BY <1>6 DEF DetListo
  <2>3. aca # {} => Min(aca) \in DOMAIN blocked
    BY Indices
  <2> HIDE DEF aca
  <2> QED BY <1>0, <2>1, <2>2, <2>3, MarcoTipos DEF aparte
<1>7. CASE DetSacar
  <2>1. /\ UNCHANGED <<aparte, pcb, new, ready, suspendedBlocked, exit, colaIO>>
        /\ indefinido' \in BOOLEAN
        /\ \/ UNCHANGED blocked
           \/ det.j \in DOMAIN blocked /\ blocked' = RemoveAt(blocked, det.j)
    BY <1>0, <1>7 DEF DetSacar, SeRompe
  <2> QED BY <1>0, <2>1, MarcoTipos DEF aparte
<1> QED BY <1>1, <1>2, <1>3, <1>4, <1>5, <1>6, <1>7 DEF Detector

(* The account of IInv survives it: neither counts what is blocked, and a  *)
(* process more in processReady than the semaphore announces is no less.   *)
LEMMA DetectorInv ==
  ASSUME IInv, TipoDetector, Detector
  PROVE  IInv'
<1> USE DEF IInv
<1>0. /\ UNCHANGED <<clientes, sem, globales, otros, hilos>>
      /\ UNCHANGED <<new, suspendedBlocked, exit, colaIO>>
      /\ indefinido' \in BOOLEAN /\ TipoPCB'
  BY DetMarco
<1>m. /\ UNCHANGED <<fase, pedido, liberados, llegando, plp, pcp, cpu, sem>>
      /\ sem \in [SemKernelNombres -> Nat]
  BY <1>0 DEF clientes, otros, hilos, planificadores, TypeOK, TipoGlobales
<1>e. Entrados' = Entrados
  BY <1>0, <1>m, Marco
<1>l. blocked \in Seq(Procs) /\ ready \in Seq(Procs)
  BY DEF TypeOK, TipoListas
<1> DEFINE Listas == /\ blocked' \in Seq(Procs) /\ ready' \in Seq(Procs)
                     /\ Len(ready') >= Len(ready)
                     /\ \A j \in DOMAIN blocked' : blocked'[j] \in Entrados
                     /\ \A j \in DOMAIN ready' : ready'[j] \in Entrados
<1>1. Listas
  <2>1. CASE UNCHANGED <<blocked, ready>>
    BY <1>l, <2>1 DEF ListasDeEntrados
  <2>2. ASSUME NEW k \in DOMAIN blocked, blocked' = RemoveAt(blocked, k),
               ready' = ready \/ ready' = Append(ready, blocked[k])
        PROVE  Listas
    <3>1. blocked[k] \in Procs /\ blocked[k] \in Entrados
      BY <1>l DEF ListasDeEntrados
    <3>2. /\ blocked' \in Seq(Procs)
          /\ \A j \in DOMAIN blocked' : \E i \in DOMAIN blocked : blocked'[j] = blocked[i]
      BY <1>l, <2>2, SacarDeLista
    <3>3. \A j \in DOMAIN blocked' : blocked'[j] \in Entrados
      BY <3>2 DEF ListasDeEntrados
    <3>4. /\ ready' \in Seq(Procs) /\ Len(ready') >= Len(ready)
          /\ \A j \in DOMAIN ready' : ready'[j] \in Entrados
      BY <1>l, <2>2, <3>1, Agregar DEF ListasDeEntrados
    <3> QED BY <3>2, <3>3, <3>4
  <2> QED BY <2>1, <2>2, DetMarco
<1>2. TypeOK'
  <2>1. TipoListas'
    BY <1>0, <1>1 DEF TypeOK, TipoListas
  <2>2. TipoBanderas'
    BY <1>0 DEF TypeOK, TipoBanderas, globales
  <2> QED BY <1>0, <2>1, <2>2, MarcoTipos DEF TypeOK, globales, hilos
<1>3. NadieSacaDeVacia'
  BY <1>0, <1>1, <1>l, <1>m DEF NadieSacaDeVacia, Valor, SemKernelNombres
<1>4. ListasDeEntrados'
  BY <1>0, <1>1, <1>e, <1>m DEF ListasDeEntrados, Adentro
<1> QED BY <1>0, <1>2, <1>3, <1>4, <1>e, <1>m, Marco

(* Using a process that was freed changes nothing but what is defined.     *)
LEMMA UsarMuertoInv ==
  ASSUME IInv, TipoDetector, UsarMuerto
  PROVE  IInv' /\ TipoDetector'
<1>1. /\ indefinido' = TRUE
      /\ UNCHANGED <<clientes, pcb, listas, sem, globales, otros, hilos, detector>>
  BY DEF UsarMuerto, SeRompe
<1>2. TipoDetector'
  BY <1>1 DEF TipoDetector, detector
<1>3. TypeOK'
  <2>1. TipoBanderas'
    BY <1>1 DEF IInv, TypeOK, TipoBanderas, globales
  <2> QED BY <1>1, <2>1, MarcoTipos DEF IInv, TypeOK, globales, hilos
<1>4. Entrados' = Entrados
  BY <1>1, Marco DEF clientes, listas, hilos
<1> QED BY <1>1, <1>2, <1>3, <1>4, Marco DEF IInv, clientes, listas, otros, hilos, planificadores

LEMMA DetectorInicial == InitDeadlock => IInv /\ TipoDetector
<1>1. InitDeadlock => IInv
  BY InvInicial DEF InitDeadlock
<1>2. InitDeadlock => TipoDetector
  BY DeadlockAssumption DEF InitDeadlock, TipoDetector, Quieto
<1> QED BY <1>1, <1>2

LEMMA DetectorPaso ==
  ASSUME IInv, TipoDetector, [NextDeadlock]_varsDeadlock
  PROVE  IInv' /\ TipoDetector'
<1>1. CASE NextDeadlock
  <2>1. CASE Next /\ TipoDetector'
    BY <2>1, InvPaso
  <2>2. CASE Detector
    BY <2>2, DetectorInv, DetTipos DEF IInv
  <2> QED BY <1>1, <2>1, <2>2, UsarMuertoInv, PasoPartido
<1>2. CASE UNCHANGED varsDeadlock
  <2>1. UNCHANGED vars /\ TipoDetector'
    BY <1>2 DEF varsDeadlock, detector, TipoDetector
  <2> QED BY <2>1, InvPaso
<1> QED BY <1>1, <1>2

(* The detector takes processes out of processBlocked under everybody      *)
(* else, and makes one ready without telling the semaphore: the account of *)
(* the planners, the CPUs and the finaliser survives it.                   *)
THEOREM InvarianteConDetector == SpecDeadlock => [](IInv /\ TipoDetector)
BY DetectorInicial, DetectorPaso, PTL DEF SpecDeadlock

-----------------------------------------------------------------------------
(* Whom the detector terminates.                                           *)

(* Only a semaphore whose PID reads as a process's names a process.        *)
InvHuerfanos ==
  leidos \cap Procs = {} =>
    /\ det.pc \in {"matar", "sacar"} => det.pid = Nada
    /\ \A p \in muertos : pcb[p].pid = Nada

LEMMA HuerfanosDetector ==
  ASSUME TypeOK, TipoDetector, InvHuerfanos, Detector
  PROVE  InvHuerfanos'
<1> SUFFICES ASSUME leidos \cap Procs = {}
             PROVE  /\ det'.pc \in {"matar", "sacar"} => det'.pid = Nada
                    /\ \A p \in muertos' : pcb'[p].pid = Nada
  BY DetMarco DEF InvHuerfanos
<1>0. /\ \A p \in muertos : pcb[p].pid = Nada
      /\ \A p \in muertos : pcb'[p].pid = Nada
      /\ \A p \in Procs : pcb'[p].pid = pcb[p].pid
      /\ det.pc \in {"matar", "sacar"} => det.pid = Nada
  BY DetMarco DEF InvHuerfanos, TipoDetector
<1>1. /\ Quieto.pc = "duerme" /\ Seguir.pc = "barrer" /\ Matar(Nada).pid = Nada
  BY DEF Quieto, Seguir, Matar
<1>2. DevolverCero => (det'.pc \in {"matar", "sacar"} => det'.pid = Nada)
  BY <1>1 DEF DevolverCero
<1>d. det = [pc |-> det.pc, i |-> det.i, pid |-> det.pid, x |-> det.x,
             raiz |-> det.raiz, j |-> det.j]
  BY DEF TipoDetector
<1>3. CASE DetDespertar \/ DetBarrer
  BY <1>0, <1>1, <1>3, <1>d DEF DetDespertar, DetBarrer, Quieto
<1>4. CASE DetPcb \/ DetAnular \/ DetListo
  <2>1. UNCHANGED muertos
    BY <1>4 DEF DetPcb, DetAnular, DetListo
  <2>2. DevolverCero \/ det'.pc = "semaforo"
    BY <1>4, <1>d DEF DetPcb, DetAnular, DetListo
  <2> QED BY <1>0, <1>2, <2>1, <2>2
<1>5. CASE DetSinSemaforo
  BY <1>0, <1>5, <1>d DEF DetSinSemaforo
<1>6. CASE DetSemaforo
  <2>1. UNCHANGED muertos /\ det.x \in Procs /\ pcb[det.x].pid \in Procs \cup {Nada}
    BY <1>6 DEF DetSemaforo, TipoDetector, TypeOK, TipoPCB
  <2>2. leidos \subseteq {Ajeno} /\ Ajeno \notin Procs \cup {Nada}
    BY DeadlockAssumption DEF TipoDetector
  <2>3. \A h \in leidos : ~DetPropio(h)
    BY <2>1, <2>2 DEF DetPropio
  <2>4. \A h \in leidos : ~DetCiclo(h)
    BY <2>2 DEF DetCiclo, TipoDetector
  <2>5. PICK h \in leidos : DetOtro(h)
    BY <1>6, <2>3, <2>4 DEF DetSemaforo
  <2>6. det'.pc = "pcb"
    BY <1>d, <2>5 DEF DetOtro
  <2> QED BY <1>0, <2>1, <2>6
<1>7. CASE DetMatar
  <2>1. CASE AMatar = {}
    BY <1>0, <1>1, <1>7, <2>1 DEF DetMatar
  <2>2. CASE AMatar # {}
    <3>1. /\ muertos' = muertos \cup {blocked[Min(AMatar)]}
          /\ det' = [det EXCEPT !.pc = "sacar", !.j = Min(AMatar)] /\ det.pc = "matar"
      BY <1>7, <2>2 DEF DetMatar
    <3>2. AMatar \in SUBSET (DOMAIN blocked)
      BY DEF AMatar, ConPID, SinUltimo, TypeOK, TipoListas
    <3>3. /\ blocked[Min(AMatar)] \in Procs
          /\ pcb[blocked[Min(AMatar)]].pid = det.pid
      <4>1. Min(AMatar) \in AMatar /\ blocked[Min(AMatar)] \in Procs
        BY <2>2, <3>2, Indices
      <4> QED BY <4>1 DEF AMatar, ConPID
    <3>4. det'.pid = det.pid
      BY <1>d, <3>1
    <3> QED BY <1>0, <3>1, <3>3, <3>4
  <2> QED BY <2>1, <2>2
<1>8. CASE DetSacar
  <2>1. det'.pid = det.pid /\ UNCHANGED muertos /\ det.pc = "sacar"
    BY <1>8, <1>d DEF DetSacar
  <2> QED BY <1>0, <2>1
<1> QED BY <1>3, <1>4, <1>5, <1>6, <1>7, <1>8 DEF Detector

LEMMA HuerfanosPaso ==
  ASSUME IInv, TipoDetector, InvHuerfanos, [NextDeadlock]_varsDeadlock
  PROVE  InvHuerfanos'
<1> USE DEF IInv
<1>1. ASSUME [Next]_vars, UNCHANGED <<leidos, muertos, det>> PROVE InvHuerfanos'
  <2>1. \A p \in muertos : pcb[p].pid = Nada => pcb'[p].pid = Nada
    BY <1>1, PidSigue DEF SiguePid, TipoDetector
  <2> QED BY <1>1, <2>1 DEF InvHuerfanos
<1>2. CASE Detector
  BY <1>2, HuerfanosDetector
<1>3. CASE UsarMuerto
  BY <1>3 DEF UsarMuerto, detector, InvHuerfanos
<1>4. CASE UNCHANGED varsDeadlock
  BY <1>1, <1>4 DEF varsDeadlock, detector
<1> QED BY <1>1, <1>2, <1>3, <1>4, PasoPartido

(* The detector terminates no process of a cycle: unless the bytes beyond  *)
(* a semaphore look like a PID, whom terminarProceso frees has lost its    *)
(* PID to a DESTROY.                                                       *)
THEOREM TerminaSoloHuerfanos == SpecDeadlock => []SoloHuerfanos
<1>1. InitDeadlock => InvHuerfanos
  BY DEF InitDeadlock, InvHuerfanos, Quieto
<1>2. IInv /\ TipoDetector /\ InvHuerfanos /\ [NextDeadlock]_varsDeadlock => InvHuerfanos'
  BY HuerfanosPaso
<1>3. InvHuerfanos => SoloHuerfanos
  BY DEF InvHuerfanos, SoloHuerfanos
<1> QED BY <1>1, <1>2, <1>3, InvarianteConDetector, PTL DEF SpecDeadlock

(* The detector takes no part in the race of restarSem.                    *)
THEOREM SemaforoAcotadoConDetector == SpecDeadlock => []SemaforoAcotado
<1>1. InitDeadlock => InvSemaforos
  BY SemaforosInicial DEF InitDeadlock
<1>2. IInv /\ TipoDetector /\ InvSemaforos /\ [NextDeadlock]_varsDeadlock => InvSemaforos'
  <2> SUFFICES ASSUME IInv, TipoDetector, InvSemaforos, [NextDeadlock]_varsDeadlock
               PROVE  InvSemaforos'
    OBVIOUS
  <2>1. ASSUME UNCHANGED <<cpu, semaforosKernel>> PROVE InvSemaforos'
    BY <2>1 DEF InvSemaforos, Restando
  <2>2. CASE Detector
    BY <2>1, <2>2, DetMarco DEF IInv, hilos, otros
  <2>3. CASE UsarMuerto
    BY <2>1, <2>3 DEF UsarMuerto, hilos, otros
  <2>4. CASE UNCHANGED varsDeadlock
    BY <2>1, <2>4 DEF varsDeadlock, vars, hilos, otros
  <2> QED BY <2>2, <2>3, <2>4, PasoPartido, SemaforosPaso
<1>3. IInv /\ InvSemaforos => SemaforoAcotado
  BY SemaforosCota DEF IInv
<1> QED BY <1>1, <1>2, <1>3, InvarianteConDetector, PTL DEF SpecDeadlock

=============================================================================
