------------------------ MODULE KernelUnaCPUProofs --------------------------
(* What TLAPS proves of the scheduler with one CPU                         *)
(* (GRADO_MULTIPROCESAMIENTO = 1): where a PCB is, what its status says,   *)
(* how many replies it is owed, and what travels to the memory and back.   *)
(* With two CPUs none of it is true: a process woken before its CPU has    *)
(* left it may be given to another.                                        *)
EXTENDS KernelMemoriaProofs

UnaCPU == \A c, d \in CPUs : c = d

-----------------------------------------------------------------------------
(* A PCB has one place.  The lists repeat nobody, and the status tells the *)
(* list a process is in, or that it is in none.                            *)
Distintos(lista) == \A i, j \in DOMAIN lista : lista[i] = lista[j] => i = j
DeOtra(lista, otra) == \A i \in DOMAIN lista, j \in DOMAIN otra : lista[i] # otra[j]
Fuera(p, lista) == \A i \in DOMAIN lista : lista[i] # p

SinRepetir == /\ Distintos(ready) /\ Distintos(blocked) /\ Distintos(suspendedBlocked)
              /\ DeOtra(blocked, suspendedBlocked)

EnReady == IF pcp.alg = "SJF" THEN {"NEW", "READY"} ELSE {"NEW", "READY", "EXEC"}

EstadoDice ==
  /\ \A i \in DOMAIN ready : pcb[ready[i]].status \in EnReady
  /\ \A i \in DOMAIN blocked : pcb[blocked[i]].status = "BLOCKED"
  /\ \A i \in DOMAIN suspendedBlocked : pcb[suspendedBlocked[i]].status = "BLOCKED"
  /\ \A i \in DOMAIN exit : pcb[exit[i]].status = "FINISHED"
  /\ \A p \in Procs \ Entrados : pcb[p].status = "NEW"
  /\ plp.pc = "admitir" => pcb[plp.p].status = "NEW" /\ Fuera(plp.p, ready)

(* A CPU serves a process that runs, and HRRN, that never assigns one,     *)
(* leaves them all idle.                                                   *)
CPUSirve ==
  \A c \in CPUs :
    /\ cpu[c].pc \in {"io_avisar", "recv", "op", "bloquear"} => pcb[cpu[c].p].status = "EXEC"
    /\ cpu[c].pc = "io_bloquear" => /\ pcb[cpu[c].p].status = "BLOCKED"
                                    /\ Fuera(cpu[c].p, blocked)
                                    /\ Fuera(cpu[c].p, suspendedBlocked)

HRRNParado ==
  pcp.alg = "HRRN" => /\ pcp.pc # "asignar"
                      /\ \A c \in CPUs : cpu[c].pc = "libre" /\ cpu[c].semCPU = 0

UnLugar == SinRepetir /\ EstadoDice /\ CPUSirve /\ HRRNParado

(* The one reply a carpincho waits for is still to be written by main, by  *)
(* whoever reads its request, by the CPU that has it, or at the end of IO. *)
Sirviendo == {"op", "io_bloquear", "io_marcar", "restar", "bloquear", "responder",
              "buscar", "sacar", "colgada"}
EnManos(p) == \E c \in CPUs : cpu[c].pc \in Sirviendo /\ cpu[c].p = p

CuentaDe(p) ==
  /\ deuda[p] = Valor(fase[p] = "conectado") + Valor(pedido[p] # Nada)
                  + Valor(EnManos(p)) + Valor(pcb[p].ioFin)
  /\ deuda[p] \in 0..1
  /\ fase[p] = "afuera" => deuda[p] = 0
AvisaTerminado(c) == cpu[c].pc = "io_avisar" => pcb[cpu[c].p].ioFin

Cuenta == (\A p \in Procs : CuentaDe(p)) /\ \A c \in CPUs : AvisaTerminado(c)

-----------------------------------------------------------------------------
(* Lists *)

LEMMA AgregarAjeno ==
  ASSUME NEW S, NEW s \in Seq(S), NEW x \in S, Distintos(s), Fuera(x, s)
  PROVE  Distintos(Append(s, x))
<1>1. \A j \in DOMAIN Append(s, x) :
        \/ j \in DOMAIN s /\ Append(s, x)[j] = s[j]
        \/ j = Len(s) + 1 /\ Append(s, x)[j] = x
  BY Agregar
<1> QED
  BY <1>1 DEF Distintos, Fuera

LEMMA FueraAgregar ==
  ASSUME NEW S, NEW s \in Seq(S), NEW x \in S, NEW y, Fuera(y, s), y # x
  PROVE  Fuera(y, Append(s, x))
BY Agregar DEF Fuera

LEMMA SacarDistinto ==
  ASSUME NEW S, NEW s \in Seq(S), Distintos(s), NEW i \in DOMAIN s
  PROVE  /\ Distintos(RemoveAt(s, i)) /\ Fuera(s[i], RemoveAt(s, i))
         /\ \A j \in DOMAIN RemoveAt(s, i) : \E k \in DOMAIN s : RemoveAt(s, i)[j] = s[k]
<1>0. \A j \in DOMAIN RemoveAt(s, i) :
        /\ j \in DOMAIN s /\ j + 1 \in DOMAIN s
        /\ RemoveAt(s, i)[j] = IF j < i THEN s[j] ELSE s[j + 1]
  BY SacarDeLista
<1> DEFINE t == RemoveAt(s, i)
           k(j) == IF j < i THEN j ELSE j + 1
<1>1. \A j \in DOMAIN t : k(j) \in DOMAIN s /\ t[j] = s[k(j)]
  BY <1>0
<1>2. \A j \in DOMAIN t : j \in Nat /\ i \in Nat
  BY <1>0
<1>3. \A j \in DOMAIN t : k(j) # i
  BY <1>2
<1>4. \A j, l \in DOMAIN t : k(j) = k(l) => j = l
  BY <1>2
<1> HIDE DEF t, k
<1>5. Distintos(t) /\ Fuera(s[i], t)
  BY <1>1, <1>3, <1>4 DEF Distintos, Fuera
<1> QED
  BY <1>1, <1>5 DEF t

LEMMA UltimoDistinto ==
  ASSUME NEW S, NEW s \in Seq(S), Distintos(s), s # <<>>
  PROVE  /\ Distintos(Front(s)) /\ Fuera(Last(s), Front(s)) /\ Last(s) \in S
         /\ \E i \in DOMAIN s : Last(s) = s[i]
         /\ \A j \in DOMAIN Front(s) : j \in DOMAIN s /\ Front(s)[j] = s[j]
<1>1. Len(s) \in DOMAIN s /\ Last(s) = s[Len(s)] /\ Len(s) \in Nat
  BY DEF Last
<1>2. Front(s) = SubSeq(s, 1, Len(s) - 1)
  BY DEF Front
<1>3. DOMAIN Front(s) = 1..(Len(s) - 1)
  BY <1>1, <1>2
<1>4. \A j \in DOMAIN Front(s) : j \in DOMAIN s /\ Front(s)[j] = s[j]
  BY SacarUltimo
<1>5. \A j \in DOMAIN Front(s) : j # Len(s)
  BY <1>1, <1>3
<1> QED
  BY <1>1, <1>4, <1>5 DEF Distintos, Fuera

(* A list without repetitions has a process once, or not at all.           *)
LEMMA UnaVez ==
  ASSUME NEW S, NEW s \in Seq(S), NEW p, Distintos(s)
  PROVE  /\ Veces(s, p) = 0 \/ Veces(s, p) = 1
         /\ Fuera(p, s) => Veces(s, p) = 0
<1> DEFINE I == {i \in DOMAIN s : s[i] = p}
<1>1. CASE Fuera(p, s)
  <2>1. I = {}
    BY <1>1 DEF Fuera
  <2> QED
    BY <2>1, FS_EmptySet DEF Veces
<1>2. CASE ~Fuera(p, s)
  <2>1. PICK i \in DOMAIN s : s[i] = p
    BY <1>2 DEF Fuera
  <2>2. I = {i}
    BY <2>1 DEF Distintos
  <2>3. Cardinality({i}) = 1
    BY FS_Singleton
  <2>4. Veces(s, p) = 1
    BY <2>2, <2>3 DEF Veces
  <2> QED
    BY <1>2, <2>4
<1> QED
  BY <1>1, <1>2

-----------------------------------------------------------------------------
(* What the parts of IInv say of the processes the threads handle.         *)
LEMMA Constancias ==
  ASSUME IInv
  PROVE  /\ ready \in Seq(Procs) /\ blocked \in Seq(Procs) /\ exit \in Seq(Procs)
         /\ suspendedBlocked \in Seq(Procs) /\ new \in Seq(Procs)
         /\ \A i \in DOMAIN ready : ready[i] \in Procs /\ ready[i] \in Entrados
         /\ \A i \in DOMAIN blocked : blocked[i] \in Procs /\ blocked[i] \in Entrados
         /\ \A i \in DOMAIN suspendedBlocked :
              suspendedBlocked[i] \in Procs /\ suspendedBlocked[i] \in Entrados
         /\ \A i \in DOMAIN exit : exit[i] \in Procs /\ exit[i] \in Entrados
         /\ plp.pc = "admitir" => plp.p \in Procs /\ plp.p \in Entrados
         /\ \A c \in CPUs : cpu[c].pc # "libre" \/ cpu[c].semCPU > 0 =>
              cpu[c].p \in Procs /\ cpu[c].p \in Entrados
BY DEF IInv, TypeOK, TipoListas, ListasDeEntrados, HilosConProceso, Entrados, Adentro

LEMMA CambiaEstado ==
  ASSUME TypeOK, NEW p \in Procs, NEW e, pcb' = Estado(p, e)
  PROVE  \A q \in Procs : /\ pcb'[q].status = IF q = p THEN e ELSE pcb[q].status
                          /\ pcb'[q].ioFin = pcb[q].ioFin
BY DEF TypeOK, TipoPCB, Estado

(* Nobody who has come out of NEW goes back to it.                         *)
LEMMA EntradosCrece == IInv /\ [Next]_vars => Entrados \subseteq Entrados'
<1> SUFFICES ASSUME IInv, [Next]_vars PROVE Entrados \subseteq Entrados'
  OBVIOUS
<1> USE DEF Entrados
<1>0. fase \in [Procs -> {"afuera", "conectado", "aceptado", "cerrando", "cerrado"}]
  BY DEF IInv, TypeOK, TipoClientes
<1>1. ASSUME NEW p \in Procs, Carpincho(p) PROVE Entrados \subseteq Entrados'
  BY <1>0, <1>1 DEF Carpincho, Conectar, Cerrar, Pedir, Enviar, listas, hilos
<1>2. CASE EncolarNuevo
  <2>1. llegando \in Procs /\ new' = Append(new, llegando) /\ llegando' = Nada
    BY <1>2 DEF EncolarNuevo, IInv, TypeOK, TipoPlanificadores
  <2>2. \A q \in Procs : q # llegando /\ Fuera(q, new) => Fuera(q, new')
    BY <2>1, Constancias, FueraAgregar
  <2>3. fase' = fase /\ \A q \in Procs : q # llegando'
    BY <1>2, <2>1, KernelAssumption DEF EncolarNuevo, clientes
  <2> QED
    BY <2>2, <2>3 DEF Fuera
<1>3. ASSUME NEW p \in Procs, Aceptar(p) PROVE Entrados \subseteq Entrados'
  BY <1>0, <1>3 DEF Aceptar, listas
<1>4. CASE PLPCupo
  <2>1. new' = Tail(new) /\ new # <<>>
    BY <1>4, Constancias DEF PLPCupo, IInv, NadieSacaDeVacia, Valor, TypeOK, TipoGlobales,
       SemKernelNombres
  <2>2. \A j \in DOMAIN new' : j + 1 \in DOMAIN new /\ new'[j] = new[j + 1]
    BY <2>1, Constancias, SacarDeCola
  <2> QED
    BY <1>4, <2>2 DEF PLPCupo, clientes
<1>5. CASE PLPEspera \/ PLPAdmitir \/ PLPEmpujar \/ PLPDormir
  BY <1>5 DEF PLPEspera, PLPAdmitir, PLPEmpujar, PLPDormir, clientes, listas
<1>6. CASE PCP \/ PMP \/ PIO \/ Finalizar
  BY <1>6 DEF PCP, PCPEspera, PCPToken, SJFMirar, SJFElegir, HRRNElegir, AsignarCPU,
     BuscarCPUSinIniciar, PMP, PMPEspera, PMPMirar, PMPSuspender, PIO, PIOEspera, PIOBuscar,
     PIOSacar, Finalizar, clientes, listas, hilos
<1>7. ASSUME NEW c \in CPUs, CPU(c) PROVE Entrados \subseteq Entrados'
  <2>1. CASE OpFinalizacion(c)
    BY <1>0, <2>1 DEF OpFinalizacion
  <2>2. CASE ~OpFinalizacion(c)
    <3>1. UNCHANGED <<fase, new, llegando>>
      BY <1>7, <2>2 DEF CPU, CPUEspera, CPUMientras, CPUAvisarIO, CPURecv, CPURecvCerrado,
         CPUSalir, CPUSoltar, OpMemoria, OpIO, IOBloquear, IOMarcar, OpInit, OpWait,
         WaitRestar, WaitBloquear, SemResponder, OpPost, PostBuscar, PostSacar, OpDestroy,
         clientes, listas, hilos
    <3> QED
      BY <3>1
  <2> QED
    BY <2>1, <2>2
<1>8. CASE UNCHANGED vars
  BY <1>8 DEF vars, clientes, listas, hilos
<1> QED
  BY <1>1, <1>2, <1>3, <1>4, <1>5, <1>6, <1>7, <1>8 DEF Next, Llegada, PLP

-----------------------------------------------------------------------------
(* A step that moves nobody                                                *)

LEMMA LugarQuieto ==
  ASSUME IInv, UnLugar, Entrados \subseteq Entrados',
         UNCHANGED <<ready, blocked, suspendedBlocked, exit>>,
         \A p \in Procs : pcb'[p].status = pcb[p].status,
         pcp'.alg = pcp.alg,
         plp'.pc = "admitir" => plp.pc = "admitir" /\ plp'.p = plp.p
  PROVE  SinRepetir' /\ EstadoDice'
<1>1. SinRepetir'
  BY DEF UnLugar, SinRepetir
<1>2. EnReady' = EnReady
  BY DEF EnReady
<1>3. EstadoDice'
  BY <1>2, Constancias DEF UnLugar, EstadoDice
<1> QED
  BY <1>1, <1>3

(* ... and the CPUs, if nobody changes the status of what they serve.      *)
LEMMA CPUQuieta ==
  ASSUME IInv, UnLugar, UNCHANGED <<cpu, blocked, suspendedBlocked>>,
         \A p \in Procs : pcb[p].status \in {"EXEC", "BLOCKED"} => pcb'[p].status = pcb[p].status
  PROVE  CPUSirve'
BY Constancias DEF UnLugar, CPUSirve

LEMMA HRRNQuieto ==
  ASSUME UnLugar, UNCHANGED cpu, pcp'.alg = pcp.alg,
         pcp'.pc = "asignar" => pcp.pc = "asignar" \/ pcp.alg # "HRRN"
  PROVE  HRRNParado'
BY DEF UnLugar, HRRNParado

(* Waking a process: it was in BLOCKED, once, so it was nowhere else.      *)
LEMMA UnLugarDespertar ==
  ASSUME IInv, UnLugar, NEW i, Despertar(i), Entrados \subseteq Entrados',
         UNCHANGED <<suspendedBlocked, exit, plp, pcp>>
  PROVE  /\ SinRepetir' /\ EstadoDice'
         /\ UNCHANGED cpu => CPUSirve'
<1> USE DEF UnLugar
<1>1. CASE i \notin DOMAIN blocked
  <2>1. UNCHANGED <<blocked, ready, pcb>>
    BY <1>1 DEF Despertar
  <2> QED
    BY <2>1, LugarQuieto, CPUQuieta
<1>2. CASE i \in DOMAIN blocked
  <2> DEFINE q == blocked[i]
  <2>1. /\ blocked' = RemoveAt(blocked, i) /\ ready' = Append(ready, q)
        /\ pcb' = Estado(q, "READY")
    BY <1>2 DEF Despertar
  <2>2. q \in Procs /\ q \in Entrados /\ pcb[q].status = "BLOCKED"
    BY <1>2, Constancias DEF EstadoDice
  <2>3. \A p \in Procs : pcb'[p].status = IF p = q THEN "READY" ELSE pcb[p].status
    BY <2>1, <2>2, CambiaEstado DEF IInv
  <2>4. /\ Distintos(blocked') /\ Fuera(q, blocked')
        /\ \A j \in DOMAIN blocked' : \E k \in DOMAIN blocked : blocked'[j] = blocked[k]
    BY <1>2, <2>1, Constancias, SacarDistinto DEF SinRepetir
  <2>5. "BLOCKED" \notin EnReady /\ "READY" \in EnReady /\ EnReady' = EnReady
    BY DEF EnReady
  <2>6. Fuera(q, ready) /\ Fuera(q, suspendedBlocked) /\ Fuera(q, exit)
    BY <1>2, <2>2, <2>5 DEF Fuera, EstadoDice, SinRepetir, DeOtra
  <2>7. Distintos(ready') /\ \A j \in DOMAIN ready' : \/ j \in DOMAIN ready /\ ready'[j] = ready[j]
                                                      \/ ready'[j] = q
    BY <2>1, <2>2, <2>6, Constancias, AgregarAjeno, Agregar DEF SinRepetir
  <2>8. SinRepetir'
    BY <2>4, <2>7 DEF SinRepetir, DeOtra
  <2> HIDE DEF q
  <2>9. EstadoDice'
    <3>1. \A j \in DOMAIN ready' : pcb'[ready'[j]].status \in EnReady
      BY <2>2, <2>3, <2>5, <2>7, Constancias DEF EstadoDice
    <3>2. \A j \in DOMAIN blocked' : pcb'[blocked'[j]].status = "BLOCKED"
      BY <2>3, <2>4, Constancias DEF EstadoDice, Fuera
    <3>3. \A j \in DOMAIN suspendedBlocked : pcb'[suspendedBlocked[j]].status = "BLOCKED"
      BY <2>3, <2>6, Constancias DEF EstadoDice, Fuera
    <3>4. \A j \in DOMAIN exit : pcb'[exit[j]].status = "FINISHED"
      BY <2>3, <2>6, Constancias DEF EstadoDice, Fuera
    <3>5. \A p \in Procs \ Entrados' : pcb'[p].status = "NEW"
      BY <2>2, <2>3 DEF EstadoDice
    <3>6. plp.pc = "admitir" => pcb'[plp.p].status = "NEW" /\ Fuera(plp.p, ready')
      BY <2>2, <2>3, <2>7, Constancias DEF EstadoDice, Fuera
    <3> QED
      BY <2>5, <3>1, <3>2, <3>3, <3>4, <3>5, <3>6 DEF EstadoDice
  <2>10. ASSUME UNCHANGED cpu PROVE CPUSirve'
    <3>1. \A c \in CPUs : cpu[c].pc \in {"io_avisar", "recv", "op", "bloquear", "io_bloquear"}
                             => cpu[c].p \in Procs /\ cpu[c].p # q
      BY <1>2, <2>2, Constancias DEF CPUSirve, Fuera, q
    <3> QED
      BY <2>3, <2>4, <2>10, <3>1 DEF CPUSirve, Fuera
  <2> QED
    BY <2>8, <2>9, <2>10
<1> QED
  BY <1>1, <1>2

-----------------------------------------------------------------------------
(* One lemma per thread                                                    *)

LEMMA UnLugarAfuera ==
  ASSUME IInv, UnLugar, Entrados \subseteq Entrados',
         Llegada \/ \E p \in Procs : Carpincho(p)
  PROVE  UnLugar'
<1>1. UNCHANGED <<ready, blocked, suspendedBlocked, exit, pcb, plp, pcp, cpu>>
  BY DEF Llegada, EncolarNuevo, Aceptar, Carpincho, Conectar, Cerrar, Pedir, listas, hilos,
     planificadores
<1> QED
  BY <1>1, LugarQuieto, CPUQuieta, HRRNQuieto DEF UnLugar

(* The long-term planner takes out of NEW a process that is nowhere else.  *)
LEMMA UnLugarPLP ==
  ASSUME IInv, UnLugar, Entrados \subseteq Entrados', PLP
  PROVE  UnLugar'
<1>1. UNCHANGED <<blocked, suspendedBlocked, exit, pcb, pcp, cpu>>
  BY DEF PLP, PLPEspera, PLPCupo, PLPAdmitir, PLPEmpujar, PLPDormir, listas
<1>2. CPUSirve' /\ HRRNParado'
  BY <1>1, CPUQuieta, HRRNQuieto
<1>3. CASE PLPEspera \/ PLPEmpujar \/ PLPDormir
  <2>1. ready' = ready /\ plp'.pc # "admitir"
    BY <1>3 DEF PLPEspera, PLPEmpujar, PLPDormir, IrA, listas, IInv, TypeOK, TipoPlanificadores
  <2> QED
    BY <1>1, <1>2, <2>1, LugarQuieto DEF UnLugar
<1>4. CASE PLPCupo
  <2>1. /\ ready' = ready /\ plp' = [pc |-> "admitir", p |-> Head(new)]
        /\ plp.pc = "cupo"
    BY <1>4 DEF PLPCupo
  <2>2. new # <<>>
    BY <2>1, Constancias DEF IInv, NadieSacaDeVacia, Valor, TypeOK, TipoGlobales,
       SemKernelNombres
  <2>3. Head(new) \in Procs \ Entrados
    BY <2>2, Constancias, SacarDeCola DEF Entrados
  <2>4. pcb[Head(new)].status = "NEW" /\ Fuera(Head(new), ready)
    BY <2>3, Constancias DEF UnLugar, EstadoDice, Fuera
  <2>5. SinRepetir' /\ EnReady' = EnReady
    BY <1>1, <2>1 DEF UnLugar, SinRepetir, EnReady
  <2>6. EstadoDice'
    BY <1>1, <2>1, <2>4, <2>5 DEF UnLugar, EstadoDice
  <2> QED
    BY <1>2, <2>5, <2>6 DEF UnLugar
<1>5. CASE PLPAdmitir
  <2>1. /\ plp.pc = "admitir" /\ ready' = Append(ready, plp.p)
        /\ plp' = [pc |-> "empujar", p |-> Nada]
    BY <1>5 DEF PLPAdmitir
  <2>2. plp.p \in Procs /\ Fuera(plp.p, ready) /\ pcb[plp.p].status = "NEW"
    BY <2>1, Constancias DEF UnLugar, EstadoDice
  <2>3. Distintos(ready') /\ \A j \in DOMAIN ready' : \/ j \in DOMAIN ready /\ ready'[j] = ready[j]
                                                      \/ ready'[j] = plp.p
    BY <2>1, <2>2, Constancias, AgregarAjeno, Agregar DEF UnLugar, SinRepetir
  <2>4. SinRepetir'
    BY <1>1, <2>3 DEF UnLugar, SinRepetir
  <2>5. EnReady' = EnReady /\ "NEW" \in EnReady
    BY <1>1 DEF EnReady
  <2>6. EstadoDice'
    BY <1>1, <2>1, <2>2, <2>3, <2>5 DEF UnLugar, EstadoDice
  <2> QED
    BY <1>2, <2>4, <2>6 DEF UnLugar
<1> QED
  BY <1>3, <1>4, <1>5 DEF PLP

LEMMA UnLugarPCP ==
  ASSUME IInv, UnLugar, Entrados \subseteq Entrados', PCP
  PROVE  UnLugar'
<1>0. UNCHANGED <<blocked, suspendedBlocked, exit, plp>>
  BY DEF PCP, PCPEspera, PCPToken, SJFMirar, SJFElegir, HRRNElegir, AsignarCPU,
     BuscarCPUSinIniciar, listas
<1>a. pcp'.alg = pcp.alg
  <2>1. DOMAIN pcp = {"alg", "pc", "p"}
    BY DEF IInv, TypeOK, TipoPlanificadores
  <2>2. CASE PCPEspera \/ PCPToken \/ SJFMirar \/ HRRNElegir
    <3>1. PICK x : pcp' = [pcp EXCEPT !.pc = x]
      BY <2>2 DEF PCPEspera, PCPToken, SJFMirar, HRRNElegir, IrA
    <3> QED
      BY <2>1, <3>1
  <2>3. CASE SJFElegir
    <3>1. PICK i \in DOMAIN ready : pcp' = [alg |-> pcp.alg, pc |-> "asignar", p |-> ready[i]]
      BY <2>3 DEF SJFElegir
    <3> QED
      BY <3>1
  <2>4. CASE BuscarCPUSinIniciar
    BY <2>4 DEF BuscarCPUSinIniciar
  <2>5. ASSUME NEW c \in CPUs, AsignarCPU(c) PROVE pcp'.alg = pcp.alg
    BY <2>5 DEF AsignarCPU
  <2> QED
    BY <2>2, <2>3, <2>4, <2>5 DEF PCP
<1>1. UNCHANGED <<blocked, suspendedBlocked, exit, plp>> /\ pcp'.alg = pcp.alg
  BY <1>0, <1>a
<1>2. EnReady' = EnReady
  BY <1>1 DEF EnReady
<1>3. CASE PCPEspera \/ PCPToken \/ SJFMirar \/ BuscarCPUSinIniciar
  <2>1. UNCHANGED <<ready, pcb, cpu>> /\ pcp'.pc # "asignar"
    BY <1>3 DEF PCPEspera, PCPToken, SJFMirar, BuscarCPUSinIniciar, IrA, listas, IInv, TypeOK,
       TipoPlanificadores
  <2> QED
    BY <1>1, <2>1, LugarQuieto, CPUQuieta, HRRNQuieto DEF UnLugar
<1>4. CASE SJFElegir
  <2>0. PICK i \in DOMAIN ready : /\ ready' = RemoveAt(ready, i)
                                  /\ pcb' = Estado(ready[i], "EXEC")
    BY <1>4 DEF SJFElegir
  <2> DEFINE q == ready[i]
  <2>1. pcp.alg = "SJF" /\ cpu' = cpu
    BY <1>4 DEF SJFElegir
  <2>2. q \in Procs /\ q \in Entrados /\ pcb[q].status \in {"NEW", "READY"}
    BY <2>1, Constancias DEF UnLugar, EstadoDice, EnReady
  <2>3. \A p \in Procs : pcb'[p].status = IF p = q THEN "EXEC" ELSE pcb[p].status
    BY <2>0, <2>2, CambiaEstado DEF IInv
  <2>4. /\ Distintos(ready') /\ Fuera(q, ready')
        /\ \A j \in DOMAIN ready' : \E k \in DOMAIN ready : ready'[j] = ready[k]
    BY <2>0, Constancias, SacarDistinto DEF UnLugar, SinRepetir
  <2>5. SinRepetir'
    BY <1>1, <2>4 DEF UnLugar, SinRepetir
  <2>6. plp.pc = "admitir" => plp.p \in Procs /\ plp.p # q
    BY Constancias DEF UnLugar, EstadoDice, Fuera
  <2> HIDE DEF q
  <2>7. EstadoDice'
    <3>1. \A j \in DOMAIN ready' : pcb'[ready'[j]].status \in EnReady
      <4>1. \A j \in DOMAIN ready : ready[j] \in Procs /\ pcb[ready[j]].status \in EnReady
        BY Constancias DEF UnLugar, EstadoDice
      <4>2. \A j \in DOMAIN ready' : ready'[j] # q
        BY <2>4 DEF Fuera
      <4> QED
        BY <2>3, <2>4, <4>1, <4>2
    <3>2. /\ \A j \in DOMAIN blocked : pcb'[blocked[j]].status = "BLOCKED"
          /\ \A j \in DOMAIN suspendedBlocked : pcb'[suspendedBlocked[j]].status = "BLOCKED"
          /\ \A j \in DOMAIN exit : pcb'[exit[j]].status = "FINISHED"
      BY <2>2, <2>3, Constancias DEF UnLugar, EstadoDice
    <3>3. \A p \in Procs \ Entrados' : pcb'[p].status = "NEW"
      BY <2>2, <2>3 DEF UnLugar, EstadoDice
    <3>4. plp.pc = "admitir" => pcb'[plp.p].status = "NEW" /\ Fuera(plp.p, ready')
      BY <2>3, <2>4, <2>6 DEF UnLugar, EstadoDice, Fuera
    <3> QED
      BY <1>1, <1>2, <3>1, <3>2, <3>3, <3>4 DEF EstadoDice
  <2>8. CPUSirve' /\ HRRNParado'
    <3>1. \A p \in Procs : pcb[p].status \in {"EXEC", "BLOCKED"} => pcb'[p].status = pcb[p].status
      BY <2>2, <2>3
    <3> QED
      BY <1>1, <2>1, <3>1, CPUQuieta, HRRNQuieto
  <2> QED
    BY <2>5, <2>7, <2>8 DEF UnLugar
<1>5. CASE HRRNElegir
  <2>0. PICK i \in DOMAIN ready : pcb' = Estado(ready[i], "EXEC")
    BY <1>5 DEF HRRNElegir
  <2> DEFINE q == ready[i]
  <2>1. pcp.alg = "HRRN" /\ UNCHANGED <<ready, cpu>> /\ pcp'.pc # "asignar"
    BY <1>5 DEF HRRNElegir, IrA, listas, IInv, TypeOK, TipoPlanificadores
  <2>2. q \in Procs /\ q \in Entrados /\ pcb[q].status \in {"NEW", "READY", "EXEC"}
    BY <2>1, Constancias DEF UnLugar, EstadoDice, EnReady
  <2>3. \A p \in Procs : pcb'[p].status = IF p = q THEN "EXEC" ELSE pcb[p].status
    BY <2>0, <2>2, CambiaEstado DEF IInv
  <2>4. SinRepetir' /\ "EXEC" \in EnReady
    BY <1>1, <2>1 DEF UnLugar, SinRepetir, EnReady
  <2>5. plp.pc = "admitir" => plp.p \in Procs /\ plp.p # q
    BY Constancias DEF UnLugar, EstadoDice, Fuera
  <2> HIDE DEF q
  <2>6. EstadoDice'
    <3>1. \A j \in DOMAIN ready : pcb'[ready[j]].status \in EnReady
      BY <2>3, <2>4, Constancias DEF UnLugar, EstadoDice
    <3>2. /\ \A j \in DOMAIN blocked : pcb'[blocked[j]].status = "BLOCKED"
          /\ \A j \in DOMAIN suspendedBlocked : pcb'[suspendedBlocked[j]].status = "BLOCKED"
          /\ \A j \in DOMAIN exit : pcb'[exit[j]].status = "FINISHED"
      BY <2>2, <2>3, Constancias DEF UnLugar, EstadoDice
    <3>3. \A p \in Procs \ Entrados' : pcb'[p].status = "NEW"
      BY <2>2, <2>3 DEF UnLugar, EstadoDice
    <3>4. plp.pc = "admitir" => pcb'[plp.p].status = "NEW" /\ Fuera(plp.p, ready)
      BY <2>3, <2>5 DEF UnLugar, EstadoDice
    <3> QED
      BY <1>1, <1>2, <2>1, <3>1, <3>2, <3>3, <3>4 DEF EstadoDice
  <2>7. CPUSirve' /\ HRRNParado'
    <3>1. \A p \in Procs : pcb[p].status \in {"EXEC", "BLOCKED"} => pcb'[p].status = pcb[p].status
      BY <2>2, <2>3
    <3> QED
      BY <1>1, <2>1, <3>1, CPUQuieta, HRRNQuieto
  <2> QED
    BY <2>4, <2>6, <2>7 DEF UnLugar
<1>6. ASSUME NEW c \in CPUs, AsignarCPU(c) PROVE UnLugar'
  <2>1. /\ UNCHANGED <<ready, pcb>> /\ pcp.pc = "asignar" /\ pcp'.pc # "asignar"
        /\ cpu[c].estado = "FREE"
        /\ \A d \in CPUs : cpu'[d].pc = cpu[d].pc /\ (d # c => cpu'[d] = cpu[d])
    BY <1>6 DEF AsignarCPU, listas, IInv, TypeOK, TipoCPU
  <2>2. cpu[c].pc = "libre"
    BY <2>1 DEF IInv, CPUOcupada, Valor, TypeOK, TipoCPU
  <2>3. SinRepetir' /\ EstadoDice'
    BY <1>1, <2>1, LugarQuieto
  <2>4. CPUSirve'
    BY <1>1, <2>1, <2>2 DEF UnLugar, CPUSirve
  <2>5. HRRNParado'
    BY <1>1, <2>1 DEF UnLugar, HRRNParado
  <2> QED
    BY <2>3, <2>4, <2>5 DEF UnLugar
<1> QED
  BY <1>3, <1>4, <1>5, <1>6 DEF PCP

(* Suspending moves the last of BLOCKED, and it keeps its status.          *)
LEMMA UnLugarPMP ==
  ASSUME IInv, UnLugar, Entrados \subseteq Entrados', PMP
  PROVE  UnLugar'
<1>1. UNCHANGED <<ready, exit, pcb, plp, pcp, cpu>>
  BY DEF PMP, PMPEspera, PMPMirar, PMPSuspender, listas
<1>2. CASE UNCHANGED <<blocked, suspendedBlocked>>
  BY <1>1, <1>2, LugarQuieto, CPUQuieta, HRRNQuieto DEF UnLugar
<1>3. CASE PMPSuspender /\ blocked # <<>>
  <2> DEFINE q == Last(blocked)
  <2>1. /\ suspendedBlocked' = Append(suspendedBlocked, q) /\ blocked' = Front(blocked)
    BY <1>3 DEF PMPSuspender
  <2>2. /\ Distintos(blocked') /\ Fuera(q, blocked') /\ q \in Procs
        /\ \E i \in DOMAIN blocked : q = blocked[i]
        /\ \A j \in DOMAIN blocked' : j \in DOMAIN blocked /\ blocked'[j] = blocked[j]
    BY <1>3, <2>1, Constancias, UltimoDistinto DEF UnLugar, SinRepetir
  <2>3. Fuera(q, suspendedBlocked) /\ pcb[q].status = "BLOCKED"
    BY <2>2 DEF UnLugar, SinRepetir, DeOtra, Fuera, EstadoDice
  <2>4. /\ Distintos(suspendedBlocked')
        /\ \A j \in DOMAIN suspendedBlocked' :
             \/ j \in DOMAIN suspendedBlocked /\ suspendedBlocked'[j] = suspendedBlocked[j]
             \/ suspendedBlocked'[j] = q
    BY <2>1, <2>2, <2>3, Constancias, AgregarAjeno, Agregar DEF UnLugar, SinRepetir
  <2> HIDE DEF q
  <2>5. SinRepetir'
    <3>1. DeOtra(blocked, suspendedBlocked)'
      BY <2>2, <2>4 DEF UnLugar, SinRepetir, DeOtra, Fuera
    <3> QED
      BY <1>1, <2>2, <2>4, <3>1 DEF UnLugar, SinRepetir
  <2>6. EstadoDice'
    <3>1. EnReady' = EnReady
      BY <1>1 DEF EnReady
    <3>2. /\ \A j \in DOMAIN blocked' : pcb[blocked'[j]].status = "BLOCKED"
          /\ \A j \in DOMAIN suspendedBlocked' : pcb[suspendedBlocked'[j]].status = "BLOCKED"
      BY <2>2, <2>3, <2>4 DEF UnLugar, EstadoDice
    <3> QED
      BY <1>1, <3>1, <3>2 DEF UnLugar, EstadoDice
  <2>7. CPUSirve'
    BY <1>1, <2>2, <2>4 DEF UnLugar, CPUSirve, Fuera
  <2> QED
    BY <1>1, <2>5, <2>6, <2>7, HRRNQuieto DEF UnLugar
<1> QED
  BY <1>2, <1>3 DEF PMP, PMPEspera, PMPMirar, PMPSuspender, listas

LEMMA UnLugarPIO ==
  ASSUME IInv, UnLugar, Entrados \subseteq Entrados', PIO
  PROVE  UnLugar'
<1>1. UNCHANGED <<suspendedBlocked, exit, plp, pcp, cpu>>
  BY DEF PIO, PIOEspera, PIOBuscar, PIOSacar, listas
<1>2. CASE PIOEspera \/ PIOBuscar
  <2>1. UNCHANGED <<ready, blocked, pcb>>
    BY <1>2 DEF PIOEspera, PIOBuscar, listas
  <2> QED
    BY <1>1, <2>1, LugarQuieto, CPUQuieta, HRRNQuieto DEF UnLugar
<1>3. CASE PIOSacar
  <2>1. Despertar(pio.i)
    BY <1>3 DEF PIOSacar
  <2> QED
    BY <1>1, <2>1, UnLugarDespertar, HRRNQuieto DEF UnLugar
<1> QED
  BY <1>2, <1>3 DEF PIO

LEMMA UnLugarFinalizar ==
  ASSUME IInv, UnLugar, Entrados \subseteq Entrados', Finalizar
  PROVE  UnLugar'
<1>1. /\ UNCHANGED <<ready, blocked, suspendedBlocked, pcb, plp, pcp, cpu>>
      /\ exit' = Tail(exit) /\ sem["finalizar"] > 0
  BY DEF Finalizar, Puede, hilos, planificadores
<1>2. exit # <<>>
  BY <1>1, Constancias DEF IInv, NadieSacaDeVacia
<1>3. \A j \in DOMAIN exit' : j + 1 \in DOMAIN exit /\ exit'[j] = exit[j + 1]
  BY <1>1, <1>2, Constancias, SacarDeCola
<1>4. SinRepetir' /\ EnReady' = EnReady
  BY <1>1 DEF UnLugar, SinRepetir, EnReady
<1>5. EstadoDice'
  BY <1>1, <1>3, <1>4 DEF UnLugar, EstadoDice
<1> QED
  BY <1>1, <1>4, <1>5, CPUQuieta, HRRNQuieto DEF UnLugar

-----------------------------------------------------------------------------
(* The CPU                                                                 *)

(* A CPU at work means SJF, and the process in its hands came out of NEW.  *)
LEMMA CPUTrabaja ==
  ASSUME IInv, UnLugar, NEW c \in CPUs, CPU(c)
  PROVE  /\ cpu[c].pc # "libre" \/ cpu[c].semCPU > 0
         /\ pcp.alg = "SJF" /\ cpu[c].p \in Procs /\ cpu[c].p \in Entrados
         /\ EnReady = {"NEW", "READY"}
<1>1. cpu[c].pc # "libre" \/ cpu[c].semCPU > 0
  BY DEF CPU, CPUEspera, CPUMientras, CPUAvisarIO, CPURecv, CPURecvCerrado,
     CPUSalir, CPUSoltar, OpMemoria, OpIO, IOBloquear, IOMarcar, OpFinalizacion, OpInit, OpWait,
     WaitRestar, WaitBloquear, SemResponder, OpPost, PostBuscar, PostSacar, OpDestroy, EnOp
<1>2. pcp.alg = "SJF"
  BY <1>1 DEF UnLugar, HRRNParado, IInv, TypeOK, TipoPlanificadores
<1> QED
  BY <1>1, <1>2, Constancias DEF EnReady

LEMMA SigueLibre ==
  ASSUME IInv, UnLugar, NEW c \in CPUs, CPU(c), pcp' = pcp
  PROVE  HRRNParado'
BY CPUTrabaja DEF HRRNParado

(* The steps of a CPU that move nobody and change no status.               *)
LEMMA UnLugarCPUQuieta ==
  ASSUME IInv, UnLugar, UnaCPU, Entrados \subseteq Entrados', NEW c \in CPUs, CPU(c),
         UNCHANGED <<ready, blocked, suspendedBlocked, exit, plp, pcp>>,
         \A p \in Procs : pcb'[p].status = pcb[p].status,
         cpu'[c].p = cpu[c].p,
         cpu'[c].pc # "io_bloquear",
         cpu'[c].pc \in {"io_avisar", "recv", "op", "bloquear"} => pcb[cpu[c].p].status = "EXEC"
  PROVE  UnLugar'
<1>1. SinRepetir' /\ EstadoDice' /\ HRRNParado'
  BY LugarQuieto, SigueLibre
<1>2. CPUSirve'
  BY CPUTrabaja DEF UnaCPU, CPUSirve
<1> QED
  BY <1>1, <1>2 DEF UnLugar

LEMMA UnLugarCPU ==
  ASSUME IInv, UnLugar, UnaCPU, Entrados \subseteq Entrados', NEW c \in CPUs, CPU(c)
  PROVE  UnLugar'
<1> DEFINE q == cpu[c].p
<1>0. /\ pcp.alg = "SJF" /\ q \in Procs /\ q \in Entrados
      /\ EnReady = {"NEW", "READY"}
  BY CPUTrabaja
<1>g. UNCHANGED <<suspendedBlocked, plp, pcp>>
  BY DEF CPU, CPUEspera, CPUMientras, CPUAvisarIO, CPURecv, CPURecvCerrado, CPUSalir,
     CPUSoltar, OpMemoria, OpIO, IOBloquear, IOMarcar, OpFinalizacion, OpInit, OpWait,
     WaitRestar, WaitBloquear, SemResponder, OpPost, PostBuscar, PostSacar, OpDestroy,
     listas, hilos, planificadores
<1>c. /\ cpu[c] \in [pc : PCsCPU, estado : {"FREE", "BUSY"}, semCPU : Nat,
                      p : Procs \cup {Nada}, ped : Peticion \cup {Nada}, i : Nat]
      /\ DOMAIN cpu = CPUs
  BY DEF IInv, TypeOK, TipoCPU
<1>i. ASSUME NEW x, IrCPU(c, x) PROVE cpu'[c].pc = x /\ cpu'[c].p = q
  BY <1>c, <1>i DEF IrCPU
<1>h. HRRNParado' /\ EnReady' = EnReady
  BY <1>g, SigueLibre DEF EnReady
<1>s. /\ cpu[c].pc \in {"io_avisar", "recv", "op", "bloquear"} => pcb[q].status = "EXEC"
      /\ cpu[c].pc = "io_bloquear" => /\ pcb[q].status = "BLOCKED"
                                      /\ Fuera(q, blocked) /\ Fuera(q, suspendedBlocked)
  BY DEF UnLugar, CPUSirve
<1>e. pcb[q].status = "EXEC" =>
        /\ Fuera(q, ready) /\ Fuera(q, blocked) /\ Fuera(q, suspendedBlocked) /\ Fuera(q, exit)
        /\ plp.pc = "admitir" => plp.p # q
  BY <1>0 DEF UnLugar, EstadoDice, Fuera
<1>p. pcb \in [Procs -> [status : {"NEW", "READY", "BLOCKED", "EXEC", "FINISHED"},
                          semReq : Sems \cup {Nada}, ioFin : BOOLEAN,
                          pid : Procs \cup {Nada}]]
  BY DEF IInv, TypeOK, TipoPCB
<1>1. CASE CPUEspera(c) \/ CPUSoltar(c)
  <2>1. UNCHANGED <<ready, blocked, exit, pcb>>
    BY <1>1 DEF CPUEspera, CPUSoltar, listas
  <2>2. cpu'[c].p = q /\ cpu'[c].pc \in {"mientras", "libre"}
    BY <1>1, <1>c DEF CPUEspera, CPUSoltar
  <2> QED
    BY <1>g, <2>1, <2>2, UnLugarCPUQuieta
<1>2. CASE CPUMientras(c)
  <2>1. UNCHANGED <<ready, blocked, exit, pcb>> /\ pcb[q].status = "EXEC"
    BY <1>2 DEF CPUMientras, listas
  <2>2. cpu'[c].p = q /\ cpu'[c].pc \in {"io_avisar", "recv"}
    BY <1>2, <1>i DEF CPUMientras
  <2> QED
    BY <1>g, <2>1, <2>2, UnLugarCPUQuieta
<1>3. CASE CPUAvisarIO(c) \/ IOMarcar(c)
  <2>1. UNCHANGED <<ready, blocked, exit>> /\ \A p \in Procs : pcb'[p].status = pcb[p].status
    BY <1>3, <1>p DEF CPUAvisarIO, IOMarcar, listas
  <2>2. cpu'[c].p = q /\ cpu'[c].pc \in {"mientras", "recv"}
    BY <1>3, <1>i DEF CPUAvisarIO, IOMarcar
  <2>3. cpu'[c].pc = "recv" => pcb[q].status = "EXEC"
    BY <1>3, <1>i, <1>s DEF CPUAvisarIO, IOMarcar
  <2> QED
    BY <1>g, <2>1, <2>2, <2>3, UnLugarCPUQuieta
<1>4. CASE CPURecv(c) \/ CPURecvCerrado(c)
  <2>1. UNCHANGED <<ready, blocked, exit, pcb>> /\ pcb[q].status = "EXEC"
    BY <1>4, <1>s DEF CPURecv, CPURecvCerrado, listas
  <2>2. cpu'[c].p = q /\ cpu'[c].pc \in {"op", "recv"}
    BY <1>4, <1>c DEF CPURecv, CPURecvCerrado, hilos
  <2> QED
    BY <1>g, <2>1, <2>2, UnLugarCPUQuieta
<1>5. CASE CPUSalir(c) \/ OpMemoria(c) \/ WaitRestar(c) \/ SemResponder(c) \/ PostBuscar(c)
  <2>1. UNCHANGED <<ready, blocked, exit, pcb>>
    BY <1>5 DEF CPUSalir, OpMemoria, WaitRestar, SemResponder, PostBuscar, listas
  <2>2. cpu'[c].p = q /\ cpu'[c].pc \in {"soltar", "mientras", "responder", "colgada", "sacar"}
    <3>1. CASE PostBuscar(c)
      <4>1. CASE \E n : cpu' = [cpu EXCEPT ![c].pc = "sacar", ![c].i = n]
        BY <1>c, <4>1
      <4> QED
        BY <1>i, <3>1, <4>1 DEF PostBuscar
    <3> QED
      BY <1>5, <1>i, <3>1 DEF CPUSalir, OpMemoria, WaitRestar, SemResponder
  <2> QED
    BY <1>g, <2>1, <2>2, UnLugarCPUQuieta
<1>6. CASE OpInit(c) \/ OpWait(c) \/ OpPost(c) \/ OpDestroy(c)
  <2>1. UNCHANGED <<ready, blocked, exit>> /\ pcb[q].status = "EXEC"
    BY <1>6, <1>s DEF OpInit, OpWait, OpPost, OpDestroy, EnOp, listas
  <2>2. \A p \in Procs : pcb'[p].status = pcb[p].status
    <3>1. \A x \in Procs : Requerir(c)[x].status = pcb[x].status
      BY <1>p DEF Requerir
    <3>2. CASE OpDestroy(c)
      <4>1. \A x \in Procs : \/ pcb'[x] = Requerir(c)[x]
                             \/ pcb'[x] = [Requerir(c)[x] EXCEPT !.pid = Nada]
        BY <3>2 DEF OpDestroy
      <4>2. \A x \in Procs : [Requerir(c)[x] EXCEPT !.pid = Nada].status = Requerir(c)[x].status
        BY <1>p DEF Requerir
      <4> QED
        BY <3>1, <4>1, <4>2
    <3> QED
      BY <1>6, <3>1, <3>2 DEF OpInit, OpWait, OpPost
  <2>3. cpu'[c].p = q /\ cpu'[c].pc \in {"mientras", "responder", "restar", "bloquear", "buscar"}
    BY <1>6, <1>i DEF OpInit, OpWait, OpPost, OpDestroy
  <2> QED
    BY <1>g, <2>1, <2>2, <2>3, UnLugarCPUQuieta
<1>7. CASE OpIO(c)
  <2>1. /\ UNCHANGED <<ready, blocked, exit>> /\ pcb[q].status = "EXEC"
        /\ pcb' = Estado(q, "BLOCKED")
    BY <1>7, <1>s DEF OpIO, EnOp
  <2>2. \A p \in Procs : pcb'[p].status = IF p = q THEN "BLOCKED" ELSE pcb[p].status
    BY <1>0, <2>1, CambiaEstado DEF IInv
  <2>3. cpu'[c].p = q /\ cpu'[c].pc = "io_bloquear"
    BY <1>7, <1>i DEF OpIO
  <2> HIDE DEF q
  <2>4. SinRepetir'
    BY <1>g, <2>1 DEF UnLugar, SinRepetir
  <2>5. EstadoDice'
    <3>1. /\ \A j \in DOMAIN ready : pcb'[ready[j]].status \in EnReady
          /\ \A j \in DOMAIN suspendedBlocked : pcb'[suspendedBlocked[j]].status = "BLOCKED"
          /\ \A j \in DOMAIN blocked : pcb'[blocked[j]].status = "BLOCKED"
          /\ \A j \in DOMAIN exit : pcb'[exit[j]].status = "FINISHED"
      BY <1>e, <2>1, <2>2, Constancias DEF UnLugar, EstadoDice, Fuera
    <3>2. \A p \in Procs \ Entrados' : pcb'[p].status = "NEW"
      BY <1>0, <2>2 DEF UnLugar, EstadoDice
    <3>3. plp.pc = "admitir" => pcb'[plp.p].status = "NEW" /\ Fuera(plp.p, ready)
      BY <1>e, <2>1, <2>2, Constancias DEF UnLugar, EstadoDice
    <3> QED
      BY <1>g, <1>h, <2>1, <3>1, <3>2, <3>3 DEF EstadoDice
  <2>6. CPUSirve'
    BY <1>0, <1>e, <1>g, <2>1, <2>2, <2>3 DEF UnaCPU, CPUSirve
  <2> QED
    BY <1>h, <2>4, <2>5, <2>6 DEF UnLugar
<1>8. CASE IOBloquear(c) \/ WaitBloquear(c)
  <2>1. UNCHANGED <<ready, exit>> /\ blocked' = Append(blocked, q)
    BY <1>8 DEF IOBloquear, WaitBloquear
  <2>2. \A p \in Procs : pcb'[p].status = IF p = q THEN "BLOCKED" ELSE pcb[p].status
    <3>1. CASE WaitBloquear(c)
      BY <1>0, <3>1, CambiaEstado DEF WaitBloquear, IInv
    <3> QED
      BY <1>8, <1>s, <3>1 DEF IOBloquear
  <2>3. cpu'[c].p = q /\ cpu'[c].pc \in {"io_marcar", "responder"}
    BY <1>8, <1>i DEF IOBloquear, WaitBloquear
  <2>4. /\ Fuera(q, ready) /\ Fuera(q, blocked) /\ Fuera(q, suspendedBlocked) /\ Fuera(q, exit)
        /\ plp.pc = "admitir" => plp.p # q
    <3>1. CASE IOBloquear(c)
      BY <1>0, <1>s, <3>1 DEF IOBloquear, UnLugar, EstadoDice, Fuera
    <3>2. CASE WaitBloquear(c)
      BY <1>s, <1>e, <3>2 DEF WaitBloquear
    <3> QED
      BY <1>8, <3>1, <3>2
  <2>5. /\ Distintos(blocked')
        /\ \A j \in DOMAIN blocked' : \/ j \in DOMAIN blocked /\ blocked'[j] = blocked[j]
                                      \/ blocked'[j] = q
    BY <1>0, <2>1, <2>4, Constancias, AgregarAjeno, Agregar DEF UnLugar, SinRepetir
  <2> HIDE DEF q
  <2>6. SinRepetir'
    <3>1. DeOtra(blocked, suspendedBlocked)'
      BY <1>g, <2>4, <2>5 DEF UnLugar, SinRepetir, DeOtra, Fuera
    <3> QED
      BY <1>g, <2>1, <2>5, <3>1 DEF UnLugar, SinRepetir
  <2>7. EstadoDice'
    <3>1. \A j \in DOMAIN blocked' : pcb'[blocked'[j]].status = "BLOCKED"
      <4>1. \A j \in DOMAIN blocked : blocked[j] \in Procs /\ pcb[blocked[j]].status = "BLOCKED"
        BY Constancias DEF UnLugar, EstadoDice
      <4> QED
        BY <1>0, <2>2, <2>5, <4>1
    <3>2. /\ \A j \in DOMAIN ready : pcb'[ready[j]].status \in EnReady
          /\ \A j \in DOMAIN suspendedBlocked : pcb'[suspendedBlocked[j]].status = "BLOCKED"
          /\ \A j \in DOMAIN exit : pcb'[exit[j]].status = "FINISHED"
      BY <2>2, <2>4, Constancias DEF UnLugar, EstadoDice, Fuera
    <3>3. \A p \in Procs \ Entrados' : pcb'[p].status = "NEW"
      BY <1>0, <2>2 DEF UnLugar, EstadoDice
    <3>4. plp.pc = "admitir" => pcb'[plp.p].status = "NEW" /\ Fuera(plp.p, ready)
      BY <2>2, <2>4, Constancias DEF UnLugar, EstadoDice
    <3> QED
      BY <1>g, <1>h, <2>1, <3>1, <3>2, <3>3, <3>4 DEF EstadoDice
  <2>8. CPUSirve'
    BY <2>3 DEF UnaCPU, CPUSirve
  <2> QED
    BY <1>h, <2>6, <2>7, <2>8 DEF UnLugar
<1>9. CASE OpFinalizacion(c)
  <2>1. /\ UNCHANGED <<ready, blocked>> /\ pcb[q].status = "EXEC"
        /\ pcb' = Estado(q, "FINISHED") /\ exit' = Append(exit, q)
    BY <1>9, <1>s DEF OpFinalizacion, EnOp
  <2>2. \A p \in Procs : pcb'[p].status = IF p = q THEN "FINISHED" ELSE pcb[p].status
    BY <1>0, <2>1, CambiaEstado DEF IInv
  <2>3. cpu'[c].p = q /\ cpu'[c].pc = "mientras"
    BY <1>9, <1>i DEF OpFinalizacion
  <2>4. \A j \in DOMAIN exit' : \/ j \in DOMAIN exit /\ exit'[j] = exit[j]
                                \/ exit'[j] = q
    BY <1>0, <2>1, Constancias, Agregar
  <2> HIDE DEF q
  <2>5. SinRepetir'
    BY <1>g, <2>1 DEF UnLugar, SinRepetir
  <2>6. EstadoDice'
    <3>1. \A j \in DOMAIN exit' : pcb'[exit'[j]].status = "FINISHED"
      <4>1. \A j \in DOMAIN exit : exit[j] \in Procs /\ pcb[exit[j]].status = "FINISHED"
        BY Constancias DEF UnLugar, EstadoDice
      <4> QED
        BY <1>0, <2>2, <2>4, <4>1
    <3>2. /\ \A j \in DOMAIN ready : pcb'[ready[j]].status \in EnReady
          /\ \A j \in DOMAIN suspendedBlocked : pcb'[suspendedBlocked[j]].status = "BLOCKED"
          /\ \A j \in DOMAIN blocked : pcb'[blocked[j]].status = "BLOCKED"
      BY <1>e, <2>1, <2>2, Constancias DEF UnLugar, EstadoDice, Fuera
    <3>3. \A p \in Procs \ Entrados' : pcb'[p].status = "NEW"
      BY <1>0, <2>2 DEF UnLugar, EstadoDice
    <3>4. plp.pc = "admitir" => pcb'[plp.p].status = "NEW" /\ Fuera(plp.p, ready)
      BY <1>e, <2>1, <2>2, Constancias DEF UnLugar, EstadoDice
    <3> QED
      BY <1>g, <1>h, <2>1, <3>1, <3>2, <3>3, <3>4 DEF EstadoDice
  <2>7. CPUSirve'
    BY <2>3 DEF UnaCPU, CPUSirve
  <2> QED
    BY <1>h, <2>5, <2>6, <2>7 DEF UnLugar
<1>10. CASE PostSacar(c)
  <2>1. Despertar(cpu[c].i) /\ UNCHANGED exit
    BY <1>10 DEF PostSacar
  <2>2. SinRepetir' /\ EstadoDice'
    BY <1>g, <2>1, UnLugarDespertar
  <2>3. cpu'[c].p = q /\ cpu'[c].pc = "responder"
    BY <1>10, <1>i DEF PostSacar
  <2>4. CPUSirve'
    BY <2>3 DEF UnaCPU, CPUSirve
  <2> QED
    BY <1>h, <2>2, <2>4 DEF UnLugar
<1> QED
  BY <1>1, <1>2, <1>3, <1>4, <1>5, <1>6, <1>7, <1>8, <1>9, <1>10 DEF CPU

LEMMA UnLugarPaso ==
  ASSUME IInv, UnLugar, UnaCPU, [Next]_vars
  PROVE  UnLugar'
<1>1. Entrados \subseteq Entrados'
  BY EntradosCrece
<1>2. CASE UNCHANGED vars
  <2>1. UNCHANGED <<ready, blocked, suspendedBlocked, exit, pcb, plp, pcp, cpu>>
    BY <1>2 DEF vars, listas, hilos, planificadores
  <2> QED
    BY <1>1, <2>1, LugarQuieto, CPUQuieta, HRRNQuieto DEF UnLugar
<1> QED
  BY <1>1, <1>2, UnLugarAfuera, UnLugarPLP, UnLugarPCP, UnLugarPMP, UnLugarPIO,
     UnLugarFinalizar, UnLugarCPU DEF Next

LEMMA UnLugarAlEmpezar == Init => UnLugar
<1> SUFFICES ASSUME Init PROVE UnLugar
  OBVIOUS
<1>1. SinRepetir
  BY DEF Init, SinRepetir, Distintos, DeOtra
<1>2. EstadoDice
  BY DEF Init, EstadoDice
<1>3. CPUSirve /\ HRRNParado
  BY DEF Init, CPUSirve, HRRNParado
<1> QED
  BY <1>1, <1>2, <1>3 DEF UnLugar

LEMMA UnLugarSiempre ==
  ASSUME UnaCPU
  PROVE  Spec => [](IInv /\ UnLugar)
<1>1. IInv /\ UnLugar /\ [Next]_vars => UnLugar'
  BY UnLugarPaso
<1> QED
  BY <1>1, UnLugarAlEmpezar, Invariante, PTL DEF Spec

-----------------------------------------------------------------------------
(* A PCB is in one place only.                                             *)
LEMMA UnLugarDice ==
  ASSUME IInv, UnLugar
  PROVE  UnSoloLugar
<1> SUFFICES ASSUME NEW p \in Procs
             PROVE  Veces(new, p) + Veces(ready, p) + Veces(blocked, p)
                      + Veces(suspendedBlocked, p) + Veces(exit, p)
                      + Valor(plp.pc = "admitir" /\ plp.p = p) <= 1
  BY DEF UnSoloLugar
<1> DEFINE admite == plp.pc = "admitir" /\ plp.p = p
<1>1. Distintos(new) /\ Distintos(exit)
  BY DEF IInv, NuevosDistintos, UnSoloFin, Distintos
<1>2. ASSUME NEW s \in {new, ready, blocked, suspendedBlocked, exit}
      PROVE  /\ Veces(s, p) = 0 \/ Veces(s, p) = 1
             /\ Fuera(p, s) => Veces(s, p) = 0
  <2>1. s \in Seq(Procs) /\ Distintos(s)
    BY <1>1, Constancias DEF UnLugar, SinRepetir
  <2> QED
    BY <2>1, UnaVez
<1>3. (Valor(admite) = 0 \/ Valor(admite) = 1) /\ (~admite => Valor(admite) = 0)
  BY DEF Valor
<1>4. /\ ~Fuera(p, new) => p \notin Entrados
      /\ ~Fuera(p, ready) => p \in Entrados /\ pcb[p].status \in {"NEW", "READY", "EXEC"}
      /\ ~Fuera(p, blocked) => p \in Entrados /\ pcb[p].status = "BLOCKED"
      /\ ~Fuera(p, suspendedBlocked) => p \in Entrados /\ pcb[p].status = "BLOCKED"
      /\ ~Fuera(p, exit) => p \in Entrados /\ pcb[p].status = "FINISHED"
      /\ admite => p \in Entrados /\ pcb[p].status = "NEW" /\ Fuera(p, ready)
  <2>1. ~Fuera(p, new) => p \notin Entrados
    BY DEF Entrados, Fuera
  <2>2. ~Fuera(p, ready) => p \in Entrados /\ pcb[p].status \in {"NEW", "READY", "EXEC"}
    BY Constancias DEF UnLugar, EstadoDice, EnReady, Fuera
  <2>3. /\ ~Fuera(p, blocked) => p \in Entrados /\ pcb[p].status = "BLOCKED"
        /\ ~Fuera(p, suspendedBlocked) => p \in Entrados /\ pcb[p].status = "BLOCKED"
        /\ ~Fuera(p, exit) => p \in Entrados /\ pcb[p].status = "FINISHED"
    BY Constancias DEF UnLugar, EstadoDice, Fuera
  <2>4. admite => p \in Entrados /\ pcb[p].status = "NEW" /\ Fuera(p, ready)
    BY Constancias DEF UnLugar, EstadoDice
  <2> QED
    BY <2>1, <2>2, <2>3, <2>4
<1>5. Fuera(p, blocked) \/ Fuera(p, suspendedBlocked)
  BY DEF UnLugar, SinRepetir, DeOtra, Fuera
<1>6. CASE ~Fuera(p, new)
  <2>1. /\ Veces(ready, p) = 0 /\ Veces(blocked, p) = 0 /\ Veces(suspendedBlocked, p) = 0
        /\ Veces(exit, p) = 0 /\ Valor(admite) = 0
    BY <1>2, <1>3, <1>4, <1>6
  <2> QED
    BY <1>2, <2>1
<1>7. CASE Fuera(p, new) /\ admite
  <2>1. /\ Veces(ready, p) = 0 /\ Veces(blocked, p) = 0 /\ Veces(suspendedBlocked, p) = 0
        /\ Veces(exit, p) = 0 /\ Veces(new, p) = 0
    BY <1>2, <1>4, <1>7
  <2> QED
    BY <1>3, <2>1
<1>8. CASE Fuera(p, new) /\ ~admite
  <2>1. Veces(new, p) = 0 /\ Valor(admite) = 0
    BY <1>2, <1>3, <1>8
  <2>2. CASE ~Fuera(p, ready)
    <3>1. Veces(blocked, p) = 0 /\ Veces(suspendedBlocked, p) = 0 /\ Veces(exit, p) = 0
      BY <1>2, <1>4, <2>2
    <3> QED
      BY <1>2, <2>1, <3>1
  <2>3. CASE Fuera(p, ready) /\ ~Fuera(p, exit)
    <3>1. Veces(blocked, p) = 0 /\ Veces(suspendedBlocked, p) = 0 /\ Veces(ready, p) = 0
      BY <1>2, <1>4, <2>3
    <3> QED
      BY <1>2, <2>1, <3>1
  <2>4. CASE Fuera(p, ready) /\ Fuera(p, exit)
    <3>1. /\ Veces(ready, p) = 0 /\ Veces(exit, p) = 0
          /\ Veces(blocked, p) = 0 \/ Veces(suspendedBlocked, p) = 0
      BY <1>2, <1>5, <2>4
    <3> QED
      BY <1>2, <2>1, <3>1
  <2> QED
    BY <2>2, <2>3, <2>4
<1> QED
  BY <1>6, <1>7, <1>8

LEMMA EstadoConcuerda ==
  ASSUME IInv, UnLugar
  PROVE  ListaConcuerdaConEstado
BY DEF UnLugar, EstadoDice, EnReady, ListaConcuerdaConEstado, EnLista

(* With one CPU no PCB is ever in two lists, nor twice in one, nor in a    *)
(* list while a planner has it in its hands: the planners, IOBloquear,     *)
(* operacionesSemaforo and the wake-ups hand a process over and never      *)
(* copy it, though none of them holds two mutexes at once.                 *)
THEOREM UnSoloLugarConUnaCPU == UnaCPU => (Spec => []UnSoloLugar)
<1>1. IInv /\ UnLugar => UnSoloLugar
  BY UnLugarDice
<1> SUFFICES ASSUME UnaCPU PROVE Spec => []UnSoloLugar
  OBVIOUS
<1> QED
  BY <1>1, UnLugarSiempre, PTL

(* With one CPU a wake-up finds only processes that are BLOCKED, and the   *)
(* SJF planner only such as neither run nor finished, in spite of the      *)
(* status that OpIO writes before it moves the process.                    *)
THEOREM ListasYEstadosConUnaCPU == UnaCPU => (Spec => []ListaConcuerdaConEstado)
<1>1. IInv /\ UnLugar => ListaConcuerdaConEstado
  BY EstadoConcuerda
<1> SUFFICES ASSUME UnaCPU PROVE Spec => []ListaConcuerdaConEstado
  OBVIOUS
<1> QED
  BY <1>1, UnLugarSiempre, PTL

-----------------------------------------------------------------------------
(* One reply per request                                                   *)

LEMMA CuentaIgual ==
  ASSUME IInv, Cuenta, UNCHANGED <<fase, pedido, deuda>>,
         \A p \in Procs : pcb'[p].ioFin = pcb[p].ioFin,
         \A c \in CPUs : \/ cpu'[c].pc = cpu[c].pc /\ cpu'[c].p = cpu[c].p
                         \/ cpu[c].pc = "libre" /\ cpu'[c].pc = "libre"
  PROVE  Cuenta'
<1>1. ASSUME NEW p \in Procs PROVE EnManos(p)' <=> EnManos(p)
  BY DEF EnManos, Sirviendo
<1>2. ASSUME NEW p \in Procs PROVE CuentaDe(p)'
  BY <1>1 DEF Cuenta, CuentaDe, Valor
<1>3. ASSUME NEW c \in CPUs PROVE AvisaTerminado(c)'
  BY Constancias DEF Cuenta, AvisaTerminado
<1> QED
  BY <1>2, <1>3 DEF Cuenta

LEMMA CuentaAfuera ==
  ASSUME IInv, Cuenta, Llegada \/ \E p \in Procs : Carpincho(p)
  PROVE  Cuenta'
<1>1. UNCHANGED <<pcb, cpu>>
  BY DEF Llegada, EncolarNuevo, Aceptar, Carpincho, Conectar, Cerrar, Pedir, hilos
<1>2. \A c \in CPUs : AvisaTerminado(c)'
  BY <1>1 DEF Cuenta, AvisaTerminado
<1>3. \A p \in Procs : (EnManos(p)' <=> EnManos(p))
  BY <1>1 DEF EnManos
<1>4. CASE EncolarNuevo
  BY <1>1, <1>4, CuentaIgual DEF EncolarNuevo, clientes
<1>5. ASSUME NEW q \in Procs, Conectar(q) PROVE \A p \in Procs : CuentaDe(p)'
  <2>1. /\ pedido' = pedido /\ fase[q] = "afuera" /\ fase'[q] = "conectado"
        /\ deuda'[q] = deuda[q] + 1
        /\ \A p \in Procs \ {q} : fase'[p] = fase[p] /\ deuda'[p] = deuda[p]
    BY <1>5 DEF Conectar, IInv, TypeOK, TipoClientes
  <2>2. CuentaDe(q)'
    BY <1>1, <1>3, <2>1 DEF Cuenta, CuentaDe, Valor
  <2>3. ASSUME NEW p \in Procs \ {q} PROVE CuentaDe(p)'
    BY <1>1, <1>3, <2>1 DEF Cuenta, CuentaDe, Valor
  <2> QED
    BY <2>2, <2>3
<1>6. ASSUME NEW q \in Procs, NEW o \in Peticion, Enviar(q, o),
             fase'[q] \in {"aceptado", "cerrando"}, \A p \in Procs \ {q} : fase'[p] = fase[p]
      PROVE  \A p \in Procs : CuentaDe(p)'
  <2>1. /\ fase[q] = "aceptado" /\ pedido[q] = Nada /\ pedido'[q] = o /\ o # Nada
        /\ deuda[q] <= 0 /\ deuda'[q] = deuda[q] + 1
        /\ \A p \in Procs \ {q} : pedido'[p] = pedido[p] /\ deuda'[p] = deuda[p]
    BY <1>6, KernelAssumption DEF Enviar, IInv, TypeOK, TipoClientes
  <2>2. CuentaDe(q)'
    BY <1>1, <1>3, <1>6, <2>1 DEF Cuenta, CuentaDe, Valor
  <2>3. ASSUME NEW p \in Procs \ {q} PROVE CuentaDe(p)'
    BY <1>1, <1>3, <1>6, <2>1 DEF Cuenta, CuentaDe, Valor
  <2> QED
    BY <2>2, <2>3
<1>7. ASSUME NEW q \in Procs, Carpincho(q) PROVE \A p \in Procs : CuentaDe(p)'
  <2>1. CASE Cerrar(q)
    <3>1. Enviar(q, FIN) /\ FIN \in Peticion /\ fase' = [fase EXCEPT ![q] = "cerrando"]
      BY <2>1 DEF Cerrar, FIN, Peticion
    <3> QED
      BY <1>6, <3>1 DEF IInv, TypeOK, TipoClientes
  <2>2. ASSUME NEW o \in Peticion, Pedir(q, o) PROVE \A p \in Procs : CuentaDe(p)'
    BY <1>6, <2>2 DEF Pedir, Enviar
  <2> QED
    BY <1>5, <1>7, <2>1, <2>2 DEF Carpincho
<1>8. ASSUME NEW q \in Procs, Aceptar(q) PROVE \A p \in Procs : CuentaDe(p)'
  <2>1. /\ pedido' = pedido /\ fase[q] = "conectado" /\ fase'[q] = "aceptado"
        /\ deuda'[q] = deuda[q] - 1
        /\ \A p \in Procs \ {q} : fase'[p] = fase[p] /\ deuda'[p] = deuda[p]
    BY <1>8 DEF Aceptar, Responder, IInv, TypeOK, TipoClientes
  <2>2. CuentaDe(q)'
    BY <1>1, <1>3, <2>1 DEF Cuenta, CuentaDe, Valor
  <2>3. ASSUME NEW p \in Procs \ {q} PROVE CuentaDe(p)'
    BY <1>1, <1>3, <2>1 DEF Cuenta, CuentaDe, Valor
  <2> QED
    BY <2>2, <2>3
<1> QED
  BY <1>2, <1>4, <1>7, <1>8 DEF Cuenta, Llegada

(* The planners, the IO planner and the finaliser answer nobody.           *)
LEMMA CuentaPlanificadores ==
  ASSUME IInv, Cuenta, PLP \/ PCP \/ PMP \/ PIO \/ Finalizar
  PROVE  Cuenta'
<1>p. pcb \in [Procs -> [status : {"NEW", "READY", "BLOCKED", "EXEC", "FINISHED"},
                          semReq : Sems \cup {Nada}, ioFin : BOOLEAN,
                          pid : Procs \cup {Nada}]]
  BY DEF IInv, TypeOK, TipoPCB
<1>1. ASSUME NEW c \in CPUs, AsignarCPU(c) PROVE Cuenta'
  <2>1. /\ UNCHANGED <<fase, pedido, deuda, pcb>> /\ cpu[c].estado = "FREE"
        /\ \A d \in CPUs : cpu'[d].pc = cpu[d].pc /\ (d # c => cpu'[d] = cpu[d])
    BY <1>1 DEF AsignarCPU, clientes, IInv, TypeOK, TipoCPU
  <2>2. cpu[c].pc = "libre"
    BY <2>1 DEF IInv, CPUOcupada, Valor, TypeOK, TipoCPU
  <2> QED
    BY <2>1, <2>2, CuentaIgual
<1>2. CASE ~\E c \in CPUs : AsignarCPU(c)
  <2>1. UNCHANGED <<fase, pedido, deuda, cpu>>
    BY <1>2 DEF PLP, PLPEspera, PLPCupo, PLPAdmitir, PLPEmpujar, PLPDormir, PCP, PCPEspera,
       PCPToken, SJFMirar, SJFElegir, HRRNElegir, BuscarCPUSinIniciar, PMP, PMPEspera,
       PMPMirar, PMPSuspender, PIO, PIOEspera, PIOBuscar, PIOSacar, Finalizar, clientes, hilos
  <2>2. pcb' = pcb \/ \E p, e : pcb' = Estado(p, e)
    BY <1>2 DEF PLP, PLPEspera, PLPCupo, PLPAdmitir, PLPEmpujar, PLPDormir, PCP, PCPEspera,
       PCPToken, SJFMirar, SJFElegir, HRRNElegir, BuscarCPUSinIniciar, PMP, PMPEspera,
       PMPMirar, PMPSuspender, PIO, PIOEspera, PIOBuscar, PIOSacar, Despertar, Finalizar
  <2>3. \A p \in Procs : pcb'[p].ioFin = pcb[p].ioFin
    BY <1>p, <2>2 DEF Estado
  <2> QED
    BY <2>1, <2>3, CuentaIgual
<1> QED
  BY <1>1, <1>2

(* A step of the CPU leaves the reply it owes where it is, writes it,      *)
(* takes a request from the socket, or puts it off to the end of the IO.   *)
Aplaza(c) ==
  LET q == cpu[c].p
  IN  \/ /\ UNCHANGED <<deuda, pedido>> /\ pcb'[q].ioFin = pcb[q].ioFin
         /\ cpu'[c].pc \in Sirviendo <=> cpu[c].pc \in Sirviendo
      \/ /\ UNCHANGED <<deuda, pedido>> /\ pcb'[q].ioFin
         /\ cpu[c].pc \in Sirviendo /\ cpu'[c].pc \notin Sirviendo
Recibe(c) ==
  LET q == cpu[c].p
  IN  /\ pedido[q] # Nada /\ pedido' = [pedido EXCEPT ![q] = Nada] /\ deuda' = deuda
      /\ pcb'[q].ioFin = pcb[q].ioFin
      /\ cpu[c].pc \notin Sirviendo /\ cpu'[c].pc \in Sirviendo
Contesta(c) ==
  LET q == cpu[c].p
  IN  /\ pedido' = pedido /\ deuda' = [deuda EXCEPT ![q] = @ - 1]
      /\ \/ /\ pcb'[q].ioFin = pcb[q].ioFin
            /\ cpu[c].pc \in Sirviendo /\ cpu'[c].pc \notin Sirviendo
         \/ /\ pcb[q].ioFin /\ ~pcb'[q].ioFin
            /\ cpu[c].pc \notin Sirviendo /\ cpu'[c].pc \notin Sirviendo

LEMMA CuentaCPU ==
  ASSUME IInv, Cuenta, UnaCPU, NEW c \in CPUs, cpu[c].p \in Procs, cpu[c].p \in Entrados,
         Aplaza(c) \/ Recibe(c) \/ Contesta(c),
         cpu'[c].p = cpu[c].p,
         fase'[cpu[c].p] \in {"aceptado", "cerrando", "cerrado"},
         \A p \in Procs \ {cpu[c].p} : fase'[p] = fase[p] /\ pcb'[p].ioFin = pcb[p].ioFin,
         cpu'[c].pc = "io_avisar" => pcb'[cpu[c].p].ioFin
  PROVE  Cuenta'
<1> DEFINE q == cpu[c].p
<1>1. \A d \in CPUs : d = c
  BY DEF UnaCPU
<1>2. \A p \in Procs : /\ EnManos(p) <=> p = q /\ cpu[c].pc \in Sirviendo
                       /\ EnManos(p)' <=> p = q /\ cpu'[c].pc \in Sirviendo
  BY <1>1 DEF EnManos
<1>3. \A d \in CPUs : AvisaTerminado(d)'
  BY <1>1 DEF AvisaTerminado
<1>4. deuda \in [Procs -> Int] /\ pedido \in [Procs -> Peticion \cup {Nada}]
  BY DEF IInv, TypeOK, TipoClientes
<1>5. ASSUME NEW p \in Procs \ {q} PROVE CuentaDe(p)'
  <2>1. deuda'[p] = deuda[p] /\ pedido'[p] = pedido[p]
    BY <1>4 DEF Aplaza, Recibe, Contesta
  <2>2. fase'[p] = fase[p] /\ pcb'[p].ioFin = pcb[p].ioFin /\ (EnManos(p)' <=> EnManos(p))
    BY <1>2
  <2>3. CuentaDe(p)
    BY DEF Cuenta
  <2> QED
    BY <2>1, <2>2, <2>3 DEF CuentaDe, Valor
<1>6. CuentaDe(q)'
  <2>1. CuentaDe(q) /\ fase[q] \in {"aceptado", "cerrando", "cerrado"}
    BY DEF Cuenta, Entrados
  <2>2. (EnManos(q) <=> cpu[c].pc \in Sirviendo) /\ (EnManos(q)' <=> cpu'[c].pc \in Sirviendo)
    BY <1>2
  <2>3. CASE Aplaza(c)
    <3>1. deuda'[q] = deuda[q] /\ pedido'[q] = pedido[q]
      BY <2>3 DEF Aplaza
    <3> QED
      BY <2>1, <2>2, <2>3, <3>1 DEF Aplaza, CuentaDe, Valor
  <2>4. CASE Recibe(c)
    <3>1. deuda'[q] = deuda[q] /\ pedido[q] # Nada /\ pedido'[q] = Nada
      BY <1>4, <2>4 DEF Recibe
    <3> QED
      BY <2>1, <2>2, <2>4, <3>1 DEF Recibe, CuentaDe, Valor
  <2>5. CASE Contesta(c)
    <3>1. deuda'[q] = deuda[q] - 1 /\ pedido'[q] = pedido[q]
      BY <1>4, <2>5 DEF Contesta
    <3> QED
      BY <2>1, <2>2, <2>5, <3>1 DEF Contesta, CuentaDe, Valor
  <2> QED
    BY <2>3, <2>4, <2>5
<1> QED
  BY <1>3, <1>5, <1>6 DEF Cuenta

LEMMA CuentaPasoCPU ==
  ASSUME IInv, UnLugar, Cuenta, UnaCPU, NEW c \in CPUs, CPU(c)
  PROVE  Cuenta'
<1> DEFINE q == cpu[c].p
<1>0. q \in Procs /\ q \in Entrados /\ fase[q] \in {"aceptado", "cerrando", "cerrado"}
  BY CPUTrabaja DEF Entrados
<1>c. /\ cpu[c] \in [pc : PCsCPU, estado : {"FREE", "BUSY"}, semCPU : Nat,
                      p : Procs \cup {Nada}, ped : Peticion \cup {Nada}, i : Nat]
      /\ DOMAIN cpu = CPUs
  BY DEF IInv, TypeOK, TipoCPU
<1>i. ASSUME NEW x, IrCPU(c, x) PROVE cpu'[c].pc = x /\ cpu'[c].p = q
  BY <1>c, <1>i DEF IrCPU
<1>p. pcb \in [Procs -> [status : {"NEW", "READY", "BLOCKED", "EXEC", "FINISHED"},
                          semReq : Sems \cup {Nada}, ioFin : BOOLEAN,
                          pid : Procs \cup {Nada}]]
  BY DEF IInv, TypeOK, TipoPCB
<1>r. \A p \in Procs : Requerir(c)[p].ioFin = pcb[p].ioFin
  BY <1>p DEF Requerir
<1>e. ASSUME NEW p \in Procs, NEW e, pcb' = Estado(p, e)
      PROVE  \A x \in Procs : pcb'[x].ioFin = pcb[x].ioFin
  BY <1>e, CambiaEstado DEF IInv
<1>1. CASE CPURecvCerrado(c) \/ CPUEspera(c) \/ CPUSoltar(c) \/ CPUMientras(c) \/ CPUSalir(c)
  <2>1. UNCHANGED <<fase, pedido, deuda, pcb>>
    BY <1>1 DEF CPURecvCerrado, CPUEspera, CPUSoltar, CPUMientras, CPUSalir, clientes
  <2>2. /\ cpu'[c].p = q /\ cpu'[c].pc \notin Sirviendo /\ cpu[c].pc \notin Sirviendo
        /\ cpu'[c].pc = "io_avisar" => pcb[q].ioFin
    <3>1. CASE CPUEspera(c) \/ CPUSoltar(c)
      BY <1>c, <3>1 DEF CPUEspera, CPUSoltar, Sirviendo
    <3>2. CASE CPUMientras(c)
      BY <1>i, <3>2 DEF CPUMientras, Sirviendo
    <3>3. CASE CPUSalir(c)
      BY <1>i, <3>3 DEF CPUSalir, Sirviendo
    <3>4. CASE CPURecvCerrado(c)
      BY <3>4 DEF CPURecvCerrado, hilos, Sirviendo
    <3> QED
      BY <1>1, <3>1, <3>2, <3>3, <3>4
  <2>3. Aplaza(c)
    BY <2>1, <2>2 DEF Aplaza
  <2> QED
    BY <1>0, <2>1, <2>2, <2>3, CuentaCPU
<1>2. CASE CPUAvisarIO(c)
  <2>1. /\ UNCHANGED <<fase, pedido>> /\ deuda' = [deuda EXCEPT ![q] = @ - 1]
        /\ pcb' = [pcb EXCEPT ![q].ioFin = FALSE]
    BY <1>2 DEF CPUAvisarIO, Responder
  <2>2. cpu'[c].p = q /\ cpu'[c].pc = "recv" /\ cpu[c].pc = "io_avisar"
    BY <1>2, <1>i DEF CPUAvisarIO
  <2>3. pcb[q].ioFin
    BY <2>2 DEF Cuenta, AvisaTerminado
  <2>4. ~pcb'[q].ioFin /\ \A p \in Procs \ {q} : pcb'[p].ioFin = pcb[p].ioFin
    BY <1>0, <1>p, <2>1
  <2>5. Contesta(c)
    BY <2>1, <2>2, <2>3, <2>4 DEF Contesta, Sirviendo
  <2> QED
    BY <1>0, <2>1, <2>2, <2>4, <2>5, CuentaCPU
<1>3. CASE CPURecv(c)
  <2>1. /\ UNCHANGED <<fase, deuda, pcb>> /\ pedido' = [pedido EXCEPT ![q] = Nada]
        /\ pedido[q] # Nada
    BY <1>3 DEF CPURecv
  <2>2. cpu'[c].p = q /\ cpu'[c].pc = "op" /\ cpu[c].pc = "recv"
    BY <1>3, <1>c DEF CPURecv
  <2>3. Recibe(c)
    BY <2>1, <2>2 DEF Recibe, Sirviendo
  <2> QED
    BY <1>0, <2>1, <2>2, <2>3, CuentaCPU
<1>4. CASE OpMemoria(c) \/ OpFinalizacion(c) \/ OpInit(c) \/ OpDestroy(c) \/ SemResponder(c)
  <2>1. /\ pedido' = pedido /\ deuda' = [deuda EXCEPT ![q] = @ - 1]
        /\ cpu'[c].p = q /\ cpu'[c].pc = "mientras" /\ cpu[c].pc \in {"op", "responder"}
    BY <1>4, <1>i DEF OpMemoria, OpFinalizacion, OpInit, OpDestroy, SemResponder, EnOp, Responder
  <2>2. /\ fase'[q] \in {"aceptado", "cerrando", "cerrado"}
        /\ \A p \in Procs \ {q} : fase'[p] = fase[p]
    BY <1>0, <1>4 DEF OpMemoria, OpFinalizacion, OpInit, OpDestroy, SemResponder, IInv, TypeOK,
       TipoClientes
  <2>3. \A p \in Procs : pcb'[p].ioFin = pcb[p].ioFin
    <3>1. CASE OpFinalizacion(c)
      BY <1>0, <1>e, <3>1 DEF OpFinalizacion
    <3>2. CASE OpDestroy(c)
      <4>1. \A p \in Procs : \/ pcb'[p] = Requerir(c)[p]
                             \/ pcb'[p] = [Requerir(c)[p] EXCEPT !.pid = Nada]
        BY <3>2 DEF OpDestroy
      <4>2. \A p \in Procs : [Requerir(c)[p] EXCEPT !.pid = Nada].ioFin = Requerir(c)[p].ioFin
        BY <1>p DEF Requerir
      <4> QED
        BY <1>r, <4>1, <4>2
    <3>3. CASE OpInit(c)
      BY <1>r, <3>3 DEF OpInit
    <3> QED
      BY <1>4, <3>1, <3>2, <3>3 DEF OpMemoria, SemResponder
  <2>4. Contesta(c)
    BY <1>0, <2>1, <2>3 DEF Contesta, Sirviendo
  <2> QED
    BY <1>0, <2>1, <2>2, <2>3, <2>4, CuentaCPU
<1>5. CASE OpIO(c) \/ IOBloquear(c) \/ OpWait(c) \/ WaitRestar(c) \/ WaitBloquear(c)
           \/ OpPost(c) \/ PostBuscar(c) \/ PostSacar(c)
  <2>1. UNCHANGED <<fase, pedido, deuda>>
    BY <1>5 DEF OpIO, IOBloquear, OpWait, WaitRestar, WaitBloquear, OpPost, PostBuscar,
       PostSacar, clientes
  <2>2. cpu[c].pc \in Sirviendo
    BY <1>5 DEF OpIO, IOBloquear, OpWait, WaitRestar, WaitBloquear, OpPost, PostBuscar,
       PostSacar, EnOp, Sirviendo
  <2>3. cpu'[c].p = q /\ cpu'[c].pc \in Sirviendo
    <3>1. CASE PostBuscar(c)
      <4>1. CASE \E n : cpu' = [cpu EXCEPT ![c].pc = "sacar", ![c].i = n]
        BY <1>c, <4>1 DEF Sirviendo
      <4> QED
        BY <1>i, <3>1, <4>1 DEF PostBuscar, Sirviendo
    <3> QED
      BY <1>5, <1>i, <3>1 DEF OpIO, IOBloquear, OpWait, WaitRestar, WaitBloquear, OpPost,
         PostSacar, Sirviendo
  <2>4. \A p \in Procs : pcb'[p].ioFin = pcb[p].ioFin
    <3>1. CASE OpIO(c) \/ WaitBloquear(c)
      BY <1>0, <1>e, <3>1 DEF OpIO, WaitBloquear
    <3>2. CASE PostSacar(c)
      <4>1. pcb' = pcb \/ \E p \in Procs : pcb' = Estado(p, "READY")
        BY <3>2, Constancias DEF PostSacar, Despertar
      <4> QED
        BY <1>e, <4>1
    <3>3. CASE OpWait(c) \/ OpPost(c)
      BY <1>r, <3>3 DEF OpWait, OpPost
    <3> QED
      BY <1>5, <3>1, <3>2, <3>3 DEF IOBloquear, WaitRestar, PostBuscar
  <2>5. Aplaza(c)
    BY <1>0, <2>1, <2>2, <2>3, <2>4 DEF Aplaza
  <2>6. cpu'[c].pc # "io_avisar"
    BY <2>3 DEF Sirviendo
  <2> QED
    BY <1>0, <2>1, <2>3, <2>4, <2>5, <2>6, CuentaCPU
<1>6. CASE IOMarcar(c)
  <2>1. UNCHANGED <<fase, pedido, deuda>> /\ pcb' = [pcb EXCEPT ![q].ioFin = TRUE]
    BY <1>6 DEF IOMarcar, clientes
  <2>2. cpu'[c].p = q /\ cpu'[c].pc = "mientras" /\ cpu[c].pc = "io_marcar"
    BY <1>6, <1>i DEF IOMarcar
  <2>3. pcb'[q].ioFin /\ \A p \in Procs \ {q} : pcb'[p].ioFin = pcb[p].ioFin
    BY <1>0, <1>p, <2>1
  <2>4. Aplaza(c)
    BY <2>1, <2>2, <2>3 DEF Aplaza, Sirviendo
  <2> QED
    BY <1>0, <2>1, <2>2, <2>3, <2>4, CuentaCPU
<1> QED
  BY <1>1, <1>2, <1>3, <1>4, <1>5, <1>6 DEF CPU

LEMMA CuentaPaso ==
  ASSUME IInv, UnLugar, Cuenta, UnaCPU, [Next]_vars
  PROVE  Cuenta'
<1>1. CASE UNCHANGED vars
  <2>1. UNCHANGED <<fase, pedido, deuda, pcb, cpu>>
    BY <1>1 DEF vars, clientes, hilos
  <2> QED
    BY <2>1, CuentaIgual
<1> QED
  BY <1>1, CuentaAfuera, CuentaPlanificadores, CuentaPasoCPU DEF Next

LEMMA CuentaAlEmpezar == Init => Cuenta
<1> SUFFICES ASSUME Init PROVE Cuenta
  OBVIOUS
<1>1. ASSUME NEW p \in Procs PROVE CuentaDe(p)
  BY DEF Init, CuentaDe, EnManos, Sirviendo, Valor
<1>2. ASSUME NEW c \in CPUs PROVE AvisaTerminado(c)
  BY DEF Init, AvisaTerminado
<1> QED
  BY <1>1, <1>2 DEF Cuenta

LEMMA CuentaSiempre ==
  ASSUME UnaCPU
  PROVE  Spec => [](IInv /\ UnLugar /\ Cuenta)
<1>1. IInv /\ UnLugar /\ Cuenta /\ [Next]_vars => Cuenta'
  BY CuentaPaso
<1> QED
  BY <1>1, CuentaAlEmpezar, UnLugarSiempre, PTL DEF Spec

(* With one CPU matelib reads one reply per request: the kernel never owes *)
(* a carpincho two, nor answers what was not asked, though the reply to an *)
(* IO is written at another pass of the loop, from the flag IO_finished.   *)
THEOREM UnaRespuestaConUnaCPU == UnaCPU => (Spec => []UnaRespuestaPorPedido)
<1>1. Cuenta => UnaRespuestaPorPedido
  BY DEF Cuenta, CuentaDe, UnaRespuestaPorPedido
<1> SUFFICES ASSUME UnaCPU PROVE Spec => []UnaRespuestaPorPedido
  OBVIOUS
<1> QED
  BY <1>1, CuentaSiempre, PTL

(* The connection to the memory changes none of the three, whatever the    *)
(* memory answers and also once it hangs.                                  *)
THEOREM UnaCPUConMemoria ==
  UnaCPU => (SpecMemoria => [](UnSoloLugar /\ ListaConcuerdaConEstado /\ UnaRespuestaPorPedido))
<1>1. SpecMemoria => Spec
  BY ConexionImplementaKernel DEF ImplementaKernel
<1> SUFFICES ASSUME UnaCPU
             PROVE  SpecMemoria => [](UnSoloLugar /\ ListaConcuerdaConEstado /\ UnaRespuestaPorPedido)
  OBVIOUS
<1> QED
  BY <1>1, UnSoloLugarConUnaCPU, ListasYEstadosConUnaCPU, UnaRespuestaConUnaCPU, PTL

-----------------------------------------------------------------------------
(* The answers                                                             *)

(* Who has closed is owed nothing: no request of its own is left anywhere. *)
CerradoSinDeuda == \A p \in Procs : fase[p] = "cerrado" => deuda[p] = 0

(* Each freed process that kept its PID has one PROCESS_ENDED, on its way  *)
(* or served, and nobody else has any; nothing of it comes behind.         *)
EsFin(i) == aMemoria[i].op = "FIN"
AvisoUnico ==
  /\ \A p \in Procs : pcb[p].pid \in {p, Nada}
  /\ \A p \in liberados : pcb[p].pid = p =>
        p \in terminados \/ \E i \in DOMAIN aMemoria : EsFin(i) /\ aMemoria[i].de = p
  /\ \A i \in DOMAIN aMemoria : EsFin(i) => aMemoria[i].de \in (liberados \ terminados) \cup {Nada}
  /\ terminados \subseteq liberados
NadaDetras ==
  /\ \A i, j \in DOMAIN aMemoria :
        EsFin(i) /\ aMemoria[j].de = aMemoria[i].de /\ aMemoria[i].de # Nada => j <= i
  /\ \A j \in DOMAIN aMemoria : ~EsFin(j) => aMemoria[j].de \notin terminados
InvFin == AvisoUnico /\ NadaDetras

(* Until a process ends, all there is on the connection is the request of  *)
(* the CPU that waits, or its answer, of the kind that CPU expects.        *)
EsperaEnOp == \A c \in CPUs : relay[c] # "no" => EnOp(c, "MEMORIA")

DelPedido(c, x) == x.de = cpu[c].p /\ x.nro = ops[cpu[c].p]
SoloPedido(c, esLectura) ==
  /\ deMemoria = <<>> /\ Len(aMemoria) = 1
  /\ DelPedido(c, aMemoria[1])
  /\ aMemoria[1].op # "FIN" /\ (aMemoria[1].op = "LECTURA" <=> esLectura)
SoloRespuesta(c, clases) ==
  /\ aMemoria = <<>> /\ Len(deMemoria) = Len(clases)
  /\ \A i \in 1..Len(clases) : DelPedido(c, deMemoria[i]) /\ deMemoria[i].clase = clases[i]

EnTransito(c) ==
  \/ relay[c] = "no" /\ aMemoria = <<>> /\ deMemoria = <<>>
  \/ relay[c] = "palabra" /\ (SoloPedido(c, FALSE) \/ SoloRespuesta(c, <<"palabra">>))
  \/ relay[c] = "largo" /\ \/ SoloPedido(c, TRUE)
                           \/ SoloRespuesta(c, <<"fallo">>)
                           \/ SoloRespuesta(c, <<"largo", "datos">>)
  \/ relay[c] = "datos" /\ SoloRespuesta(c, <<"datos">>)

InvPropia ==
  /\ EsperaEnOp
  /\ liberados = {} => /\ ~ajena /\ enlace # "desalineado"
                       /\ enlace \in {"bien", "colgada"} => \A c \in CPUs : EnTransito(c)

LEMMA CerradoPaso ==
  ASSUME IInv, UnLugar, Cuenta, UnaCPU, CerradoSinDeuda, [Next]_vars
  PROVE  CerradoSinDeuda'
<1>0. Cuenta'
  BY CuentaPaso
<1>t. /\ fase \in [Procs -> {"afuera", "conectado", "aceptado", "cerrando", "cerrado"}]
      /\ deuda \in [Procs -> Int]
  BY DEF IInv, TypeOK, TipoClientes
<1> SUFFICES ASSUME NEW p \in Procs, fase'[p] = "cerrado" PROVE deuda'[p] = 0
  BY DEF CerradoSinDeuda
<1>1. deuda[p] \in 0..1 /\ deuda'[p] \in 0..1
  BY <1>0 DEF Cuenta, CuentaDe
<1>2. ASSUME deuda'[p] <= deuda[p], fase[p] = "cerrado" \/ deuda'[p] = deuda[p] - 1
      PROVE  deuda'[p] = 0
  BY <1>1, <1>2 DEF CerradoSinDeuda
<1>3. ASSUME UNCHANGED <<fase, deuda>> PROVE deuda'[p] = 0
  BY <1>1, <1>2, <1>3
<1>4. ASSUME NEW q \in Procs, Carpincho(q) \/ Aceptar(q) PROVE deuda'[p] = 0
  <2>1. p # q /\ fase'[p] = fase[p] /\ deuda'[p] = deuda[p]
    BY <1>4, <1>t DEF Carpincho, Conectar, Cerrar, Pedir, Enviar, Aceptar, Responder
  <2> QED
    BY <1>1, <1>2, <2>1
<1>5. EncolarNuevo \/ PLP \/ PCP \/ PMP \/ PIO \/ Finalizar => UNCHANGED <<fase, deuda>>
  BY DEF EncolarNuevo, PLP, PLPEspera, PLPCupo, PLPAdmitir, PLPEmpujar, PLPDormir, PCP,
     PCPEspera, PCPToken, SJFMirar, SJFElegir, HRRNElegir, BuscarCPUSinIniciar, AsignarCPU,
     PMP, PMPEspera, PMPMirar, PMPSuspender, PIO, PIOEspera, PIOBuscar, PIOSacar, Finalizar,
     clientes
<1>6. ASSUME NEW c \in CPUs, CPU(c) PROVE deuda'[p] = 0
  <2>1. CASE OpFinalizacion(c)
    BY <1>1, <1>2, <1>t, <2>1 DEF OpFinalizacion, Responder
  <2>2. CASE ~OpFinalizacion(c)
    <3>1. fase' = fase /\ (deuda' = deuda \/ Responder(cpu[c].p))
      BY <1>6, <2>2 DEF CPU, CPUEspera, CPUMientras, CPUAvisarIO, CPURecv, CPURecvCerrado,
         CPUSalir, CPUSoltar, OpMemoria, OpIO, IOBloquear, IOMarcar, OpInit, OpWait,
         WaitRestar, WaitBloquear, SemResponder, OpPost, PostBuscar, PostSacar, OpDestroy,
         clientes
    <3> QED
      BY <1>1, <1>2, <1>t, <3>1 DEF Responder
  <2> QED
    BY <2>1, <2>2
<1>7. CASE UNCHANGED vars
  BY <1>3, <1>7 DEF vars, clientes
<1> QED
  BY <1>3, <1>4, <1>5, <1>6, <1>7 DEF Next, Llegada

(* A CPU in a MEMORIA request owes its process the reply: so the process   *)
(* has not closed, and sends no other.                                     *)
LEMMA EnOpDebe ==
  ASSUME IInv, Cuenta, CerradoSinDeuda, NEW c \in CPUs, EnOp(c, "MEMORIA")
  PROVE  cpu[c].p \in Procs /\ cpu[c].p \notin liberados /\ deuda[cpu[c].p] = 1
<1> DEFINE p == cpu[c].p
<1>1. p \in Procs
  BY Constancias DEF EnOp
<1>2. EnManos(p)
  BY DEF EnOp, EnManos, Sirviendo
<1>3. deuda[p] = 1
  <2>1. CuentaDe(p)
    BY <1>1 DEF Cuenta
  <2> HIDE DEF p
  <2> QED
    BY <1>2, <2>1 DEF CuentaDe, Valor
<1> QED
  BY <1>1, <1>3 DEF CerradoSinDeuda, IInv, UnSoloFin

(* So while it is there no other thread changes what it relays.            *)
LEMMA SigueEnOp ==
  ASSUME IInv, Cuenta, CerradoSinDeuda, UnaCPU, NEW c \in CPUs, EnOp(c, "MEMORIA"),
         \/ \E p \in Procs : Carpincho(p)
         \/ Llegada \/ PLP \/ PCP \/ PMP \/ PIO \/ Finalizar
         \/ \E d \in CPUs : CPUAparte(d)
  PROVE  /\ EnOp(c, "MEMORIA")' /\ cpu'[c].p = cpu[c].p
         /\ ops'[cpu[c].p] = ops[cpu[c].p]
<1>1. cpu[c].p \in Procs /\ deuda[cpu[c].p] = 1
  BY EnOpDebe
<1>2. ASSUME UNCHANGED <<cpu, ops>>
      PROVE  EnOp(c, "MEMORIA")' /\ cpu'[c].p = cpu[c].p /\ ops'[cpu[c].p] = ops[cpu[c].p]
  BY <1>2 DEF EnOp
<1>3. ASSUME NEW q \in Procs, Carpincho(q)
      PROVE  cpu' = cpu /\ ops'[cpu[c].p] = ops[cpu[c].p]
  <2>1. CASE \E o \in Peticion : Pedir(q, o)
    <3>1. deuda[q] <= 0 /\ cpu' = cpu /\ ops' = [ops EXCEPT ![q] = @ + 1]
      BY <2>1 DEF Pedir, Enviar, hilos
    <3>2. q # cpu[c].p
      BY <1>1, <3>1
    <3> QED
      BY <3>1, <3>2
  <2>2. CASE Conectar(q) \/ Cerrar(q)
    BY <2>2 DEF Conectar, Cerrar, hilos
  <2> QED
    BY <1>3, <2>1, <2>2 DEF Carpincho
<1>4. ASSUME NEW d \in CPUs, AsignarCPU(d)
      PROVE  cpu'[c] = cpu[c] /\ ops' = ops
  <2>1. d # c
    BY <1>4 DEF AsignarCPU, EnOp, IInv, CPUOcupada, Valor, TypeOK, TipoCPU
  <2> QED
    BY <1>4, <2>1 DEF AsignarCPU, clientes, IInv, TypeOK, TipoCPU
<1>5. CASE PCP
  <2>1. CASE \E d \in CPUs : AsignarCPU(d)
    BY <1>4, <2>1 DEF EnOp
  <2>2. CASE ~\E d \in CPUs : AsignarCPU(d)
    BY <1>2, <1>5, <2>2 DEF PCP, PCPEspera, PCPToken, SJFMirar, SJFElegir, HRRNElegir,
       BuscarCPUSinIniciar, clientes
  <2> QED
    BY <2>1, <2>2
<1>6. Llegada \/ PLP \/ PMP \/ PIO \/ Finalizar => UNCHANGED <<cpu, ops>>
  BY DEF Llegada, EncolarNuevo, Aceptar, PLP, PLPEspera, PLPCupo, PLPAdmitir, PLPEmpujar,
     PLPDormir, PMP, PMPEspera, PMPMirar, PMPSuspender, PIO, PIOEspera, PIOBuscar,
     PIOSacar, Finalizar, clientes, hilos
<1>7. ~\E d \in CPUs : CPUAparte(d)
  BY DEF CPUAparte, UnaCPU
<1>8. CASE \E q \in Procs : Carpincho(q)
  BY <1>3, <1>8 DEF EnOp
<1> QED
  BY <1>2, <1>5, <1>6, <1>7, <1>8

-----------------------------------------------------------------------------
(* With one CPU only a process that ended crosses the answers              *)

(* A step of another thread leaves the connection to whom it serves.       *)
LEMMA PropiaQuieta ==
  ASSUME IInv, Cuenta, CerradoSinDeuda, UnaCPU, InvPropia,
         UNCHANGED conexion, UNCHANGED liberados,
         \/ \E p \in Procs : Carpincho(p)
         \/ Llegada \/ PLP \/ PCP \/ PMP \/ PIO
         \/ \E d \in CPUs : CPUAparte(d)
  PROVE  InvPropia'
<1>0. UNCHANGED <<aMemoria, deMemoria, relay, terminados, enlace, ajena>>
  BY DEF conexion
<1>1. ASSUME NEW c \in CPUs, EnOp(c, "MEMORIA")
      PROVE  /\ EnOp(c, "MEMORIA")' /\ cpu'[c].p = cpu[c].p
             /\ ops'[cpu[c].p] = ops[cpu[c].p]
  BY <1>1, SigueEnOp
<1>2. EsperaEnOp'
  BY <1>0, <1>1 DEF InvPropia, EsperaEnOp
<1>3. ASSUME NEW c \in CPUs, EnTransito(c) PROVE EnTransito(c)'
  <2>1. CASE relay[c] = "no"
    BY <1>0, <1>3, <2>1 DEF EnTransito
  <2>2. CASE relay[c] # "no"
    <3>1. cpu'[c].p = cpu[c].p /\ ops'[cpu[c].p] = ops[cpu[c].p]
      BY <1>1, <2>2 DEF InvPropia, EsperaEnOp
    <3>2. \A x : DelPedido(c, x)' <=> DelPedido(c, x)
      BY <3>1 DEF DelPedido
    <3>3. /\ \A b \in BOOLEAN : SoloPedido(c, b)' <=> SoloPedido(c, b)
          /\ \A s : SoloRespuesta(c, s)' <=> SoloRespuesta(c, s)
      BY <1>0, <3>1 DEF SoloPedido, SoloRespuesta, DelPedido
    <3> QED
      BY <1>0, <1>3, <3>3 DEF EnTransito
  <2> QED
    BY <2>1, <2>2
<1> QED
  BY <1>0, <1>2, <1>3 DEF InvPropia

LEMMA PropiaEnviar ==
  ASSUME IInv, TipoConexion, UnaCPU, InvPropia, Vive, NEW c \in CPUs, RelayEnviar(c)
  PROVE  InvPropia'
<1>1. PICK o \in OpsMemoria :
        /\ aMemoria' = Append(aMemoria, [de |-> cpu[c].p, nro |-> ops[cpu[c].p], op |-> o])
        /\ relay' = [relay EXCEPT ![c] = IF o = "LECTURA" THEN "largo" ELSE "palabra"]
  BY DEF RelayEnviar
<1>2. /\ UNCHANGED <<deMemoria, enlace, ajena, cpu, ops, liberados>>
      /\ EnOp(c, "MEMORIA") /\ relay[c] = "no" /\ enlace \in {"bien", "colgada"}
  BY DEF RelayEnviar, vars, clientes, otros, hilos, Vive
<1>3. \A d \in CPUs : d = c
  BY DEF UnaCPU
<1>4. relay'[c] = IF o = "LECTURA" THEN "largo" ELSE "palabra"
  BY <1>1 DEF TipoConexion
<1>5. EsperaEnOp'
  BY <1>2, <1>3 DEF EsperaEnOp, EnOp
<1>6. ASSUME liberados = {} PROVE EnTransito(c)'
  <2>1. aMemoria = <<>> /\ deMemoria = <<>>
    BY <1>2, <1>6 DEF InvPropia, EnTransito
  <2>2. aMemoria' = <<[de |-> cpu[c].p, nro |-> ops[cpu[c].p], op |-> o]>>
    BY <1>1, <2>1
  <2>3. o # "FIN" /\ o \in {"PALABRA", "LECTURA"}
    BY MemoriaAssumption
  <2>4. SoloPedido(c, o = "LECTURA")'
    BY <1>2, <2>1, <2>2, <2>3 DEF SoloPedido, DelPedido
  <2>5. CASE o = "LECTURA"
    BY <1>4, <2>4, <2>5 DEF EnTransito
  <2>6. CASE o # "LECTURA"
    BY <1>4, <2>4, <2>6 DEF EnTransito
  <2> QED
    BY <2>5, <2>6
<1> QED
  BY <1>2, <1>3, <1>5, <1>6 DEF InvPropia

LEMMA PropiaPerder ==
  ASSUME InvPropia, NEW e, Perder(e), deMemoria # <<>>, NEW c \in CPUs, deMemoria' = Tail(deMemoria),
         liberados = {} => e = "caido"
  PROVE  InvPropia'
BY DEF InvPropia, EsperaEnOp, Perder, vars, otros, hilos, EnOp

(* What the CPU reads, it asked for.                                       *)
LEMMA PropiaLeer ==
  ASSUME TipoConexion, UnaCPU, InvPropia, Vive, NEW c \in CPUs,
         NEW w \in {"palabra", "largo", "datos"}, Espera(c, w), liberados = {}
  PROVE  /\ ~DeOtro(c) /\ aMemoria = <<>>
         /\ w = "palabra" => Head(deMemoria).clase = "palabra" /\ deMemoria' = <<>>
         /\ w = "datos" => Head(deMemoria).clase = "datos" /\ deMemoria' = <<>>
         /\ w = "largo" => \/ Head(deMemoria).clase = "fallo"
                           \/ /\ Head(deMemoria).clase = "largo" /\ Len(deMemoria') = 1
                              /\ DelPedido(c, deMemoria'[1]) /\ deMemoria'[1].clase = "datos"
<1>1. relay[c] = w /\ deMemoria # <<>> /\ deMemoria' = Tail(deMemoria) /\ EnTransito(c)
  BY DEF Espera, InvPropia, Vive
<1>2. deMemoria \in Seq(Respuesta) /\ Head(deMemoria) = deMemoria[1]
  BY <1>1 DEF TipoConexion
<1>3. PICK s \in {<<"palabra">>, <<"fallo">>, <<"largo", "datos">>, <<"datos">>} :
        /\ SoloRespuesta(c, s)
        /\ w = "palabra" <=> s = <<"palabra">>
        /\ w = "datos" <=> s = <<"datos">>
  <2>1. ~SoloPedido(c, TRUE) /\ ~SoloPedido(c, FALSE)
    BY <1>1 DEF SoloPedido
  <2>2. /\ <<"palabra">>[1] = "palabra" /\ <<"fallo">>[1] = "fallo" /\ <<"datos">>[1] = "datos"
        /\ <<"largo", "datos">>[1] = "largo"
    OBVIOUS
  <2> QED
    BY <1>1, <2>1, <2>2 DEF EnTransito
<1>4. /\ aMemoria = <<>> /\ Len(deMemoria) = Len(s)
      /\ \A i \in 1..Len(s) : DelPedido(c, deMemoria[i]) /\ deMemoria[i].clase = s[i]
  BY <1>3 DEF SoloRespuesta
<1>5. DelPedido(c, deMemoria[1]) /\ deMemoria[1].clase = s[1]
  BY <1>3, <1>4
<1>6. ~DeOtro(c)
  BY <1>2, <1>5 DEF DeOtro, DelPedido
<1>7. CASE s = <<"largo", "datos">>
  <2>1. Len(deMemoria) = 2 /\ DelPedido(c, deMemoria[2]) /\ deMemoria[2].clase = "datos"
    BY <1>4, <1>7
  <2>2. Len(deMemoria') = 1 /\ deMemoria'[1] = deMemoria[2]
    BY <1>1, <1>2, <2>1
  <2> QED
    BY <1>2, <1>3, <1>4, <1>5, <1>6, <1>7, <2>1, <2>2
<1>8. CASE s # <<"largo", "datos">>
  <2>1. Len(deMemoria) = 1
    BY <1>3, <1>4, <1>8
  <2>2. deMemoria' = <<>>
    BY <1>1, <1>2, <2>1
  <2> QED
    BY <1>2, <1>3, <1>4, <1>5, <1>6, <1>8, <2>2
<1> QED
  BY <1>7, <1>8

LEMMA PropiaRelay ==
  ASSUME IInv, TipoConexion, UnaCPU, InvPropia, Vive, NEW c \in CPUs, Relay(c)
  PROVE  InvPropia'
<1>0. \A d \in CPUs : d = c
  BY DEF UnaCPU
<1>1. ASSUME NEW w \in {"palabra", "largo", "datos"}, Espera(c, w), Entregar(c),
             liberados = {} => ~DeOtro(c) /\ aMemoria = <<>> /\ deMemoria' = <<>>
      PROVE  InvPropia'
  <2>1. /\ UNCHANGED <<aMemoria, enlace, liberados>> /\ ajena' = (ajena \/ DeOtro(c))
        /\ relay' = [relay EXCEPT ![c] = "no"]
    BY <1>1 DEF Entregar, OpMemoria, otros
  <2>2. relay'[c] = "no"
    BY <2>1 DEF TipoConexion
  <2>3. EsperaEnOp'
    BY <1>0, <2>2 DEF EsperaEnOp
  <2>4. liberados = {} => ~ajena' /\ EnTransito(c)'
    BY <1>1, <2>1, <2>2 DEF InvPropia, EnTransito
  <2> QED
    BY <1>0, <2>1, <2>3, <2>4 DEF InvPropia
<1>2. ASSUME NEW w, Espera(c, w) PROVE deMemoria # <<>> /\ deMemoria' = Tail(deMemoria)
  BY <1>2 DEF Espera
<1>3. CASE RelayPalabra(c)
  <2>1. Espera(c, "palabra")
    BY <1>3 DEF RelayPalabra
  <2>2. CASE Head(deMemoria).clase \in {"palabra", "fallo"}
    BY <1>1, <1>3, <2>1, <2>2, PropiaLeer DEF RelayPalabra
  <2>3. CASE Head(deMemoria).clase \notin {"palabra", "fallo"}
    BY <1>2, <1>3, <2>1, <2>3, PropiaLeer, PropiaPerder DEF RelayPalabra
  <2> QED
    BY <2>2, <2>3
<1>4. CASE RelayDatos(c)
  <2>1. Espera(c, "datos")
    BY <1>4 DEF RelayDatos
  <2>2. CASE Head(deMemoria).clase = "datos"
    BY <1>1, <1>4, <2>1, <2>2, PropiaLeer DEF RelayDatos
  <2>3. CASE Head(deMemoria).clase # "datos"
    BY <1>2, <1>4, <2>1, <2>3, PropiaLeer, PropiaPerder DEF RelayDatos
  <2> QED
    BY <2>2, <2>3
<1>5. CASE RelayLargo(c)
  <2>1. Espera(c, "largo")
    BY <1>5 DEF RelayLargo
  <2>2. CASE /\ Head(deMemoria).clase = "largo"
             /\ relay' = [relay EXCEPT ![c] = "datos"]
             /\ ajena' = (ajena \/ DeOtro(c))
             /\ UNCHANGED <<vars, aMemoria, terminados, enlace>>
    <3>1. UNCHANGED <<cpu, ops, liberados>> /\ relay'[c] = "datos" /\ relay[c] # "no"
      BY <2>1, <2>2 DEF vars, clientes, otros, hilos, TipoConexion, Espera
    <3>2. EsperaEnOp'
      BY <1>0, <3>1 DEF InvPropia, EsperaEnOp, EnOp
    <3>3. ASSUME liberados = {} PROVE ~ajena' /\ EnTransito(c)'
      <4>1. /\ ~DeOtro(c) /\ aMemoria = <<>> /\ Len(deMemoria') = 1
            /\ DelPedido(c, deMemoria'[1]) /\ deMemoria'[1].clase = "datos"
        BY <2>1, <2>2, <3>3, PropiaLeer
      <4>2. SoloRespuesta(c, <<"datos">>)'
        BY <2>2, <3>1, <4>1 DEF SoloRespuesta, DelPedido
      <4> QED
        BY <2>2, <3>1, <3>3, <4>1, <4>2 DEF InvPropia, EnTransito
    <3> QED
      BY <1>0, <2>2, <3>1, <3>2, <3>3 DEF InvPropia
  <2>3. CASE Head(deMemoria).clase \in {"fallo", "palabra"} /\ Perder("caido")
    BY <1>2, <2>1, <2>3, PropiaPerder
  <2>4. CASE Head(deMemoria).clase \in {"datos", "palabra"} /\ Perder("desalineado")
    BY <1>2, <2>1, <2>4, PropiaLeer, PropiaPerder
  <2> QED
    BY <1>5, <2>2, <2>3, <2>4 DEF RelayLargo
<1> QED
  BY <1>3, <1>4, <1>5, PropiaEnviar DEF Relay

(* The memory answers the request there is, in the kind it asks for.       *)
LEMMA PropiaAtender ==
  ASSUME TipoConexion, UnaCPU, InvPropia, MemAtender
  PROVE  InvPropia'
<1> DEFINE m == Head(aMemoria)
           P(clase) == [de |-> m.de, nro |-> m.nro, clase |-> clase]
<1>1. /\ UNCHANGED <<relay, enlace, ajena, cpu, ops, liberados>>
      /\ enlace = "bien" /\ aMemoria # <<>> /\ aMemoria' = Tail(aMemoria)
  BY DEF MemAtender, vars, clientes, otros, hilos
<1>2. EsperaEnOp'
  BY <1>1 DEF InvPropia, EsperaEnOp, EnOp
<1>3. ASSUME NEW c \in CPUs, liberados = {} PROVE EnTransito(c)'
  <2>1. PICK b \in BOOLEAN :
          SoloPedido(c, b) /\ relay[c] = IF b THEN "largo" ELSE "palabra"
    BY <1>1, <1>3 DEF InvPropia, EnTransito, SoloRespuesta
  <2>2. /\ deMemoria = <<>> /\ m = aMemoria[1] /\ DelPedido(c, m) /\ aMemoria' = <<>>
        /\ m.op = "LECTURA" <=> b
    BY <1>1, <2>1 DEF SoloPedido, TipoConexion
  <2>3. \A k : P(k).de = cpu'[c].p /\ P(k).nro = ops'[cpu'[c].p] /\ P(k).clase = k
    BY <1>1, <2>2 DEF DelPedido
  <2>4. \/ ~b /\ deMemoria' = <<P("palabra")>>
        \/ b /\ deMemoria' = <<P("largo"), P("datos")>>
        \/ b /\ deMemoria' = <<P("fallo")>>
    BY <2>2 DEF MemAtender, Contestar
  <2> HIDE DEF P
  <2>5. ASSUME NEW k, deMemoria' = <<P(k)>> PROVE SoloRespuesta(c, <<k>>)'
    BY <2>2, <2>3, <2>5 DEF SoloRespuesta, DelPedido
  <2>6. ASSUME deMemoria' = <<P("largo"), P("datos")>>
        PROVE  SoloRespuesta(c, <<"largo", "datos">>)'
    BY <2>2, <2>3, <2>6 DEF SoloRespuesta, DelPedido
  <2> QED
    BY <1>1, <2>1, <2>4, <2>5, <2>6 DEF EnTransito
<1> QED
  BY <1>1, <1>2, <1>3 DEF InvPropia

LEMMA PropiaPaso ==
  ASSUME IInv, UnLugar, Cuenta, CerradoSinDeuda, InvMemoria, UnaCPU, InvPropia,
         [NextMemoria]_varsMemoria
  PROVE  InvPropia'
<1>0. TipoConexion
  BY DEF InvMemoria
<1>1. CASE UNCHANGED varsMemoria
  BY <1>1 DEF varsMemoria, conexion, vars, clientes, otros, hilos, InvPropia, EsperaEnOp, EnOp,
     EnTransito, SoloPedido, SoloRespuesta, DelPedido
<1>2. CASE /\ \/ \E p \in Procs : Carpincho(p)
              \/ Llegada \/ PLP \/ PCP \/ PMP \/ PIO
              \/ \E c \in CPUs : CPUAparte(c)
           /\ UNCHANGED conexion
  <2>1. UNCHANGED liberados
    BY <1>2, SoloFinalizarLibera DEF CPUAparte
  <2> QED
    BY <1>2, <2>1, PropiaQuieta
<1>3. CASE FinalizarConAviso
  <2>1. Finalizar /\ relay' = relay /\ liberados' # {}
    BY <1>3 DEF FinalizarConAviso, Finalizar
  <2>2. EsperaEnOp'
    BY <2>1, SigueEnOp DEF InvPropia, EsperaEnOp
  <2> QED
    BY <2>1, <2>2 DEF InvPropia
<1>4. CASE \E c \in CPUs : Vive /\ Relay(c)
  BY <1>0, <1>4, PropiaRelay
<1>5. CASE MemAtender
  BY <1>0, <1>5, PropiaAtender
<1>6. CASE MemColgarse
  BY <1>6 DEF MemColgarse, vars, clientes, otros, hilos, InvPropia, EsperaEnOp, EnOp,
     EnTransito, SoloPedido, SoloRespuesta, DelPedido
<1> QED
  BY <1>1, <1>2, <1>3, <1>4, <1>5, <1>6 DEF NextMemoria

LEMMA InvMemoriaSiempre == SpecMemoria => [](IInv /\ InvMemoria)
BY InvMemoriaInicial, InvMemoriaPaso, InvarianteConMemoria, PTL DEF SpecMemoria

LEMMA SinDeudaSiempre ==
  ASSUME UnaCPU
  PROVE  SpecMemoria => [](UnLugar /\ Cuenta /\ CerradoSinDeuda)
<1>1. SpecMemoria => Spec
  BY ConexionImplementaKernel DEF ImplementaKernel
<1>2. Init => CerradoSinDeuda
  BY DEF Init, CerradoSinDeuda
<1>3. IInv /\ UnLugar /\ Cuenta /\ CerradoSinDeuda /\ [Next]_vars => CerradoSinDeuda'
  BY CerradoPaso
<1> QED
  BY <1>1, <1>2, <1>3, CuentaSiempre, PTL DEF Spec

(* With one CPU, until the first process ends every carpincho gets the     *)
(* answer to its own request and no length is read where there is none:    *)
(* the requests nobody reads the answer of (kernel.c:1221) are the only    *)
(* thing that crosses them, since the CPU does not send a second request   *)
(* before it has read all of the answer to the first.                      *)
THEOREM RespuestaPropiaSiempre == SpecMemoria => []RespuestaPropia
<1>1. CASE ~UnaCPU
  <2>1. Cardinality(CPUs) # 1
    BY <1>1, MemoriaAssumption, FS_Singleton DEF UnaCPU
  <2>2. RespuestaPropia
    BY <2>1 DEF RespuestaPropia
  <2> QED
    BY <2>2, PTL
<1>2. CASE UnaCPU
  <2>1. InitMemoria => InvPropia
    BY DEF InitMemoria, Init, InvPropia, EsperaEnOp, EnTransito
  <2>2. IInv /\ InvMemoria /\ UnLugar /\ Cuenta /\ CerradoSinDeuda /\ InvPropia
          /\ [NextMemoria]_varsMemoria => InvPropia'
    BY <1>2, PropiaPaso
  <2>3. InvPropia => RespuestaPropia
    BY DEF InvPropia, RespuestaPropia
  <2>4. SpecMemoria => [](UnLugar /\ Cuenta /\ CerradoSinDeuda)
    BY <1>2, SinDeudaSiempre
  <2> QED
    BY <2>1, <2>2, <2>3, <2>4, InvMemoriaSiempre, PTL DEF SpecMemoria
<1> QED
  BY <1>1, <1>2

-----------------------------------------------------------------------------
(* With one CPU the end of a process is the last the memory hears of it    *)

LEMMA FinQuieto ==
  ASSUME IInv, InvFin, SiguePid, UNCHANGED <<aMemoria, terminados, liberados>>
  PROVE  InvFin'
<1>1. \A p \in Procs : pcb'[p].pid \in {p, Nada} /\ (pcb'[p].pid = Nada \/ pcb'[p].pid = pcb[p].pid)
  BY DEF SiguePid, InvFin, AvisoUnico
<1>2. liberados \subseteq Procs /\ Nada \notin Procs
  BY KernelAssumption DEF IInv, TypeOK, TipoGlobales
<1>3. AvisoUnico'
  BY <1>1, <1>2 DEF InvFin, AvisoUnico, EsFin
<1>4. NadaDetras'
  BY DEF InvFin, NadaDetras, EsFin
<1> QED
  BY <1>3, <1>4 DEF InvFin

(* A request is sent for a process that is not freed, behind the others.   *)
LEMMA FinEnviar ==
  ASSUME IInv, Cuenta, CerradoSinDeuda, TipoConexion, InvFin, NEW c \in CPUs, RelayEnviar(c)
  PROVE  InvFin'
<1> DEFINE p == cpu[c].p
<1>1. PICK o \in OpsMemoria :
        aMemoria' = Append(aMemoria, [de |-> p, nro |-> ops[p], op |-> o])
  BY DEF RelayEnviar
<1> DEFINE x == [de |-> p, nro |-> ops[p], op |-> o]
<1>2. UNCHANGED <<pcb, liberados, terminados>> /\ p \in Procs /\ p \notin liberados
  BY EnOpDebe DEF RelayEnviar, vars, otros
<1>3. x.op # "FIN" /\ x.de = p
  BY MemoriaAssumption
<1> HIDE DEF x, p
<1>4. /\ DOMAIN aMemoria' = DOMAIN aMemoria \cup {Len(aMemoria) + 1}
      /\ Len(aMemoria) + 1 \notin DOMAIN aMemoria
      /\ aMemoria'[Len(aMemoria) + 1] = x
      /\ \A i \in DOMAIN aMemoria : aMemoria'[i] = aMemoria[i]
  BY <1>1 DEF TipoConexion, x
<1>5. p # Nada
  BY <1>2, KernelAssumption
<1>6. AvisoUnico'
  BY <1>2, <1>3, <1>4 DEF InvFin, AvisoUnico, EsFin
<1>7. \A i \in DOMAIN aMemoria : EsFin(i) => aMemoria[i].de # p
  BY <1>2, <1>5 DEF InvFin, AvisoUnico
<1>8. NadaDetras'
  BY <1>2, <1>3, <1>4, <1>7 DEF InvFin, NadaDetras, AvisoUnico, EsFin
<1> QED
  BY <1>6, <1>8 DEF InvFin

LEMMA FinFinalizar ==
  ASSUME IInv, TipoConexion, InvFin, FinalizarConAviso
  PROVE  InvFin'
<1> DEFINE q == Head(exit)
           x == [de |-> pcb[q].pid, nro |-> 0, op |-> "FIN"]
<1>1. exit \in Seq(Procs) /\ exit # <<>>
  BY DEF FinalizarConAviso, Finalizar, Puede, IInv, NadieSacaDeVacia, TypeOK,
         TipoGlobales, TipoListas, SemKernelNombres
<1>2. q \in Procs /\ q \notin liberados
  <2>1. 1 \in DOMAIN exit /\ q = exit[1]
    BY <1>1
  <2> QED
    BY <1>1, <2>1 DEF IInv, ListasDeEntrados, Adentro, Entrados
<1>3. /\ aMemoria' = Append(aMemoria, x) /\ liberados' = liberados \cup {q}
      /\ UNCHANGED <<pcb, terminados>>
  BY DEF FinalizarConAviso, Finalizar
<1>4. x.op = "FIN" /\ x.de = pcb[q].pid /\ pcb[q].pid \in {q, Nada}
  BY <1>2 DEF InvFin, AvisoUnico
<1> HIDE DEF x, q
<1>5. /\ DOMAIN aMemoria' = DOMAIN aMemoria \cup {Len(aMemoria) + 1}
      /\ Len(aMemoria) + 1 \notin DOMAIN aMemoria
      /\ \A i \in DOMAIN aMemoria : i <= Len(aMemoria) + 1
      /\ aMemoria'[Len(aMemoria) + 1] = x
      /\ \A i \in DOMAIN aMemoria : aMemoria'[i] = aMemoria[i]
  BY <1>3 DEF TipoConexion
<1>6. q # Nada /\ q \notin terminados
  BY <1>2, KernelAssumption DEF InvFin, AvisoUnico
<1>7. AvisoUnico'
  BY <1>2, <1>3, <1>4, <1>5, <1>6 DEF InvFin, AvisoUnico, EsFin
<1>8. \A i \in DOMAIN aMemoria : EsFin(i) => aMemoria[i].de # q
  BY <1>2, <1>6 DEF InvFin, AvisoUnico
<1>9. Len(aMemoria) + 1 <= Len(aMemoria) + 1
  BY DEF TipoConexion
<1>10. NadaDetras'
  BY <1>3, <1>4, <1>5, <1>6, <1>8, <1>9 DEF InvFin, NadaDetras, EsFin
<1> QED
  BY <1>7, <1>10 DEF InvFin

(* What is served is the first of the queue: if it is a PROCESS_ENDED,     *)
(* nothing of that process is left behind it.                              *)
LEMMA FinAtender ==
  ASSUME TipoConexion, IInv, InvFin, MemAtender
  PROVE  InvFin'
<1> DEFINE m == Head(aMemoria)
<1>1. /\ UNCHANGED <<pcb, liberados>> /\ aMemoria' = Tail(aMemoria)
      /\ terminados' = terminados \cup (IF m.op = "FIN" THEN {m.de} \cap Procs ELSE {})
      /\ aMemoria \in Seq(Mensaje) /\ aMemoria # <<>>
  BY DEF MemAtender, TerminarSiEsFIN, vars, otros, TipoConexion
<1>2. /\ 1 \in DOMAIN aMemoria /\ m = aMemoria[1]
      /\ \A j \in DOMAIN aMemoria' : j \in Nat /\ j + 1 \in DOMAIN aMemoria
                                      /\ aMemoria'[j] = aMemoria[j + 1] /\ ~(j + 1 <= 1)
      /\ \A j \in DOMAIN aMemoria : j = 1 \/ (j - 1 \in DOMAIN aMemoria' /\ (j - 1) + 1 = j)
  BY <1>1
<1>3. liberados \subseteq Procs
  BY DEF IInv, TypeOK, TipoGlobales
<1> HIDE DEF m
<1>4. ASSUME m.op = "FIN", m.de # Nada
      PROVE  m.de \in liberados /\ \A j \in DOMAIN aMemoria' : aMemoria'[j].de # m.de
  BY <1>2, <1>4 DEF InvFin, AvisoUnico, NadaDetras, EsFin
<1>5. Nada \notin Procs
  BY KernelAssumption
<1>6. terminados' = IF m.op = "FIN" /\ m.de # Nada THEN terminados \cup {m.de} ELSE terminados
  <2>1. CASE m.op = "FIN" /\ m.de # Nada
    BY <1>1, <1>3, <1>4, <2>1
  <2>2. CASE ~(m.op = "FIN" /\ m.de # Nada)
    BY <1>1, <1>5, <2>2
  <2> QED
    BY <2>1, <2>2
<1>7. terminados' \subseteq liberados
  BY <1>4, <1>6 DEF InvFin, AvisoUnico
<1>8. \A j \in DOMAIN aMemoria' : EsFin(j)' <=> EsFin(j + 1)
  BY <1>2 DEF EsFin
<1>9. \A p \in liberados : pcb[p].pid = p =>
        p \in terminados' \/ \E i \in DOMAIN aMemoria' : EsFin(i)' /\ aMemoria'[i].de = p
  <2> SUFFICES ASSUME NEW p \in liberados, pcb[p].pid = p, p \notin terminados'
               PROVE  \E i \in DOMAIN aMemoria' : EsFin(i)' /\ aMemoria'[i].de = p
    OBVIOUS
  <2>1. PICK i \in DOMAIN aMemoria : EsFin(i) /\ aMemoria[i].de = p
    BY <1>6 DEF InvFin, AvisoUnico
  <2>2. i # 1
    BY <1>2, <1>3, <1>5, <1>6, <2>1 DEF EsFin
  <2>3. i - 1 \in DOMAIN aMemoria' /\ (i - 1) + 1 = i
    BY <1>2, <2>2
  <2>4. EsFin(i - 1)' /\ aMemoria'[i - 1].de = p
    BY <1>2, <1>8, <2>1, <2>3
  <2> QED
    BY <2>3, <2>4
<1>10. \A j \in DOMAIN aMemoria' :
         /\ EsFin(j)' => aMemoria'[j].de \in (liberados \ terminados') \cup {Nada}
         /\ ~EsFin(j)' => aMemoria'[j].de \notin terminados'
  BY <1>2, <1>4, <1>6, <1>8 DEF InvFin, AvisoUnico, NadaDetras
<1>11. \A i, j \in DOMAIN aMemoria' :
         EsFin(i)' /\ aMemoria'[j].de = aMemoria'[i].de /\ aMemoria'[i].de # Nada => j <= i
  <2> SUFFICES ASSUME NEW i \in DOMAIN aMemoria', NEW j \in DOMAIN aMemoria', EsFin(i)',
                      aMemoria'[j].de = aMemoria'[i].de, aMemoria'[i].de # Nada
               PROVE  j <= i
    OBVIOUS
  <2>1. j + 1 <= i + 1
    BY <1>2, <1>8 DEF InvFin, NadaDetras
  <2> QED
    BY <1>2, <2>1
<1> QED
  BY <1>1, <1>7, <1>9, <1>10, <1>11 DEF InvFin, AvisoUnico, NadaDetras

LEMMA FinPaso ==
  ASSUME IInv, Cuenta, CerradoSinDeuda, InvMemoria, InvFin, [NextMemoria]_varsMemoria
  PROVE  InvFin'
<1>0. TipoConexion
  BY DEF InvMemoria
<1>1. SiguePid
  BY PasoImplementa, PidSigue DEF IInv
<1>2. CASE UNCHANGED varsMemoria
  BY <1>1, <1>2, FinQuieto DEF varsMemoria, conexion, vars, otros
<1>3. CASE /\ \/ \E p \in Procs : Carpincho(p)
              \/ Llegada \/ PLP \/ PCP \/ PMP \/ PIO
              \/ \E c \in CPUs : CPUAparte(c)
           /\ UNCHANGED conexion
  <2>1. UNCHANGED liberados
    BY <1>3, SoloFinalizarLibera DEF CPUAparte
  <2> QED
    BY <1>1, <1>3, <2>1, FinQuieto DEF conexion
<1>4. ASSUME NEW c \in CPUs, Relay(c) PROVE InvFin'
  <2>1. CASE RelayEnviar(c)
    BY <1>0, <2>1, FinEnviar
  <2>2. CASE RelayPalabra(c) \/ RelayLargo(c) \/ RelayDatos(c)
    <3>1. UNCHANGED <<aMemoria, terminados, liberados>>
      BY <2>2 DEF RelayPalabra, RelayLargo, RelayDatos, Entregar, Perder, OpMemoria, vars, otros
    <3> QED
      BY <1>1, <3>1, FinQuieto
  <2> QED
    BY <1>4, <2>1, <2>2 DEF Relay
<1>5. CASE MemColgarse
  BY <1>1, <1>5, FinQuieto DEF MemColgarse, vars, otros
<1> QED
  BY <1>0, <1>2, <1>3, <1>4, <1>5, FinFinalizar, FinAtender DEF NextMemoria

LEMMA FinDice ==
  ASSUME TipoConexion, InvFin
  PROVE  FinEnOrden
<1> SUFFICES ASSUME NEW p \in Procs
             PROVE  /\ p \in liberados /\ pcb[p].pid = p =>
                         Cardinality(AvisosDe(p)) + Valor(p \in terminados) = 1
                    /\ \A i \in AvisosDe(p) : \A j \in PedidosDe(p) : j < i
                    /\ p \in terminados => PedidosDe(p) = {}
  BY DEF FinEnOrden
<1>1. p # Nada
  BY KernelAssumption
<1>2. \A i \in DOMAIN aMemoria : i \in Nat
  BY DEF TipoConexion
<1>3. \A i \in AvisosDe(p), j \in PedidosDe(p) : j < i
  <2> SUFFICES ASSUME NEW i \in AvisosDe(p), NEW j \in PedidosDe(p) PROVE j < i
    OBVIOUS
  <2>1. j <= i /\ j # i /\ i \in Nat /\ j \in Nat
    BY <1>1, <1>2 DEF InvFin, NadaDetras, EsFin, AvisosDe, PedidosDe
  <2> QED
    BY <2>1
<1>4. p \in terminados => PedidosDe(p) = {}
  BY DEF InvFin, NadaDetras, EsFin, PedidosDe
<1>5. ASSUME p \in liberados, pcb[p].pid = p
      PROVE  Cardinality(AvisosDe(p)) + Valor(p \in terminados) = 1
  <2>1. CASE p \in terminados
    <3>1. AvisosDe(p) = {}
      BY <1>1, <2>1 DEF InvFin, AvisoUnico, EsFin, AvisosDe
    <3> QED
      BY <2>1, <3>1, FS_EmptySet DEF Valor
  <2>2. CASE p \notin terminados
    <3>1. PICK i \in DOMAIN aMemoria : EsFin(i) /\ aMemoria[i].de = p
      BY <1>5, <2>2 DEF InvFin, AvisoUnico
    <3>2. \A j \in AvisosDe(p) : j <= i /\ i <= j /\ j \in Nat /\ i \in Nat
      BY <1>1, <1>2, <3>1 DEF InvFin, NadaDetras, EsFin, AvisosDe
    <3>3. \A j \in AvisosDe(p) : j = i
      BY <3>2
    <3>4. AvisosDe(p) = {i}
      BY <3>1, <3>3 DEF AvisosDe, EsFin
    <3>5. Cardinality({i}) = 1
      BY FS_Singleton
    <3> QED
      BY <2>2, <3>4, <3>5 DEF Valor
  <2> QED
    BY <2>1, <2>2
<1> QED
  BY <1>3, <1>4, <1>5

(* With one CPU the memory is told once of the end of each process that    *)
(* kept its PID, and after all of its requests: finalizarProceso and the   *)
(* relays write on one socket without a lock, and yet none comes late      *)
(* (memory_memalloc would register the process again).                     *)
THEOREM FinEnOrdenConUnaCPU == UnaCPU => (SpecMemoria => []FinEnOrden)
<1>1. InitMemoria => InvFin
  BY DEF InitMemoria, Init, InvFin, AvisoUnico, NadaDetras, EsFin
<1>2. IInv /\ InvMemoria /\ Cuenta /\ CerradoSinDeuda /\ InvFin /\ [NextMemoria]_varsMemoria
        => InvFin'
  BY FinPaso
<1>3. InvMemoria /\ InvFin => FinEnOrden
  BY FinDice DEF InvMemoria
<1> SUFFICES ASSUME UnaCPU PROVE SpecMemoria => []FinEnOrden
  OBVIOUS
<1> QED
  BY <1>1, <1>2, <1>3, SinDeudaSiempre, InvMemoriaSiempre, PTL DEF SpecMemoria
=============================================================================
