------------------------ MODULE KernelMemoriaProofs -------------------------
(* What TLAPS proves of the scheduler with its connection to the memory    *)
(* (KernelMemoria), for any number of carpinchos and CPUs: the connection  *)
(* leaves every result of KernelProofs standing, and the answers in        *)
(* transit are those somebody waits for and one per process that ended.    *)
EXTENDS KernelMemoria, KernelProofs

-----------------------------------------------------------------------------
(* Refinement *)

(* A step of the composition is a step of the scheduler or leaves it alone:*)
(* the CPU that relays takes its OpMemoria when it forwards an answer.     *)
LEMMA PasoImplementa == [NextMemoria]_varsMemoria => [Next]_vars
<1> SUFFICES ASSUME NextMemoria PROVE [Next]_vars
  BY DEF varsMemoria
<1>0. ~indefinido
  BY DEF NextMemoria, Vive
<1>1. ASSUME NEW c \in CPUs, CPU(c) PROVE Next
  BY <1>0, <1>1 DEF Next
<1>2. CASE \/ \E p \in Procs : Carpincho(p)
           \/ Llegada \/ PLP \/ PCP \/ PMP \/ PIO
           \/ \E c \in CPUs : CPUAparte(c)
  BY <1>0, <1>2 DEF Next, CPUAparte
<1>3. ASSUME NEW c \in CPUs, Relay(c) PROVE [Next]_vars
  <2>1. OpMemoria(c) => Next
    BY <1>1 DEF CPU
  <2>2. RelayEnviar(c) => UNCHANGED vars
    BY DEF RelayEnviar
  <2>3. RelayPalabra(c) \/ RelayLargo(c) \/ RelayDatos(c) => OpMemoria(c) \/ UNCHANGED vars
    BY DEF RelayPalabra, RelayLargo, RelayDatos, Entregar, Perder
  <2> QED BY <1>3, <2>1, <2>2, <2>3 DEF Relay
<1>4. FinalizarConAviso => Next
  BY <1>0 DEF FinalizarConAviso, Next
<1>5. MemAtender \/ MemColgarse => UNCHANGED vars
  BY DEF MemAtender, MemColgarse
<1> QED BY <1>2, <1>3, <1>4, <1>5 DEF NextMemoria

(* The scheduler with its connection implements the scheduler: whatever    *)
(* the memory answers, fails to answer or crosses, serializar_instancia    *)
(* and finalizacionCarpincho take no step the scheduler does not have.     *)
THEOREM ConexionImplementaKernel == SpecMemoria => ImplementaKernel
<1>1. InitMemoria => Init
  BY DEF InitMemoria
<1> QED BY <1>1, PasoImplementa, PTL DEF SpecMemoria, Spec, ImplementaKernel

(* So the multiprogramming account, and all that makes it inductive, holds *)
(* of the composition too.                                                 *)
THEOREM InvarianteConMemoria == SpecMemoria => []IInv
<1>1. SpecMemoria => Spec
  BY ConexionImplementaKernel DEF ImplementaKernel
<1> QED BY <1>1, Invariante, PTL

-----------------------------------------------------------------------------
(* Counting the answers *)

LEMMA CabezasFinitas ==
  ASSUME NEW S, NEW s \in Seq(S)
  PROVE  IsFiniteSet(Cabezas(s)) /\ Cardinality(Cabezas(s)) \in Nat
<1>1. Cabezas(s) \in SUBSET (1..Len(s)) /\ Len(s) \in Int
  BY DEF Cabezas
<1>2. IsFiniteSet(1..Len(s))
  BY <1>1, FS_Interval
<1> QED BY <1>1, <1>2, FS_Subset, FS_CardinalityType

(* Sending a word back adds a head unless it is the data of a MEMREAD.     *)
LEMMA CabezasAgregar ==
  ASSUME NEW S, NEW s \in Seq(S), NEW x \in S
  PROVE  /\ IsFiniteSet(Cabezas(s))
         /\ Cardinality(Cabezas(s)) \in Nat
         /\ Cardinality(Cabezas(Append(s, x)))
              = Cardinality(Cabezas(s)) + Valor(x.clase # "datos")
<1>1. IsFiniteSet(Cabezas(s))
  BY CabezasFinitas
<1>2. CASE x.clase = "datos"
  <2>1. Cabezas(Append(s, x)) = Cabezas(s)
    BY <1>2 DEF Cabezas
  <2>2. Valor(x.clase # "datos") = 0
    BY <1>2 DEF Valor
  <2> QED BY <1>1, <2>1, <2>2, FS_CardinalityType
<1>3. CASE x.clase # "datos"
  <2>1. Cabezas(Append(s, x)) = Cabezas(s) \cup {Len(s) + 1}
    BY <1>3 DEF Cabezas
  <2>2. Len(s) + 1 \notin Cabezas(s)
    BY DEF Cabezas
  <2>3. Valor(x.clase # "datos") = 1
    BY <1>3 DEF Valor
  <2> QED BY <1>1, <2>1, <2>2, <2>3, FS_AddElement, FS_CardinalityType
<1> QED BY <1>2, <1>3

(* Reading the first word takes a head unless it is the data of a MEMREAD. *)
LEMMA CabezasSacar ==
  ASSUME NEW S, NEW s \in Seq(S), s # <<>>
  PROVE  /\ IsFiniteSet(Cabezas(Tail(s)))
         /\ Cardinality(Cabezas(Tail(s))) \in Nat
         /\ Cardinality(Cabezas(s))
              = Cardinality(Cabezas(Tail(s))) + Valor(Head(s).clase # "datos")
<1> DEFINE A == Cabezas(Tail(s))
           B == Cabezas(s) \ {1}
           f == [i \in A |-> i + 1]
<1>1. IsFiniteSet(Cabezas(s)) /\ IsFiniteSet(A)
  <2>1. Tail(s) \in Seq(S)
    OBVIOUS
  <2> QED BY <2>1, CabezasFinitas
<1>2. f \in Bijection(A, B)
  <2>1. ASSUME NEW i \in A PROVE i + 1 \in B
    BY DEF Cabezas
  <2>2. ASSUME NEW j \in B PROVE \E i \in A : f[i] = j
    <3>1. j \in 2..Len(s) /\ s[j].clase # "datos"
      BY DEF Cabezas
    <3>2. j - 1 \in A
      BY <3>1 DEF Cabezas
    <3> QED BY <3>1, <3>2
  <2>3. ASSUME NEW i \in A, NEW j \in A, f[i] = f[j] PROVE i = j
    BY <2>3 DEF Cabezas
  <2> QED BY <2>1, <2>2, <2>3 DEF Bijection, Injection, Surjection, IsInjective
<1>3. Cardinality(B) = Cardinality(A) /\ IsFiniteSet(B) /\ Cardinality(A) \in Nat
  <2>1. ExistsBijection(A, B)
    BY <1>2 DEF ExistsBijection
  <2> QED BY <1>1, <2>1, FS_Bijection, FS_CardinalityType
<1>4. 1 \in Cabezas(s) <=> Head(s).clase # "datos"
  BY DEF Cabezas
<1>5. Cardinality(B) = IF 1 \in Cabezas(s) THEN Cardinality(Cabezas(s)) - 1
                       ELSE Cardinality(Cabezas(s))
  BY <1>1, FS_RemoveElement
<1>6. Cardinality(Cabezas(s)) \in Nat
  BY <1>1, FS_CardinalityType
<1>7. Valor(Head(s).clase # "datos") = IF 1 \in Cabezas(s) THEN 1 ELSE 0
  BY <1>4 DEF Valor
<1>8. Cardinality(Cabezas(s)) = Cardinality(A) + Valor(Head(s).clase # "datos")
  <2> HIDE DEF A, B
  <2> QED BY <1>3, <1>5, <1>6, <1>7
<1> QED BY <1>1, <1>3, <1>8

-----------------------------------------------------------------------------
(* The inductive invariant: types, the count, and the CPUs that wait are   *)
(* in a MEMORIA request.                                                   *)
InvMemoria == TipoConexion /\ RespuestasDeMas

LEMMA InvMemoriaInicial == InitMemoria => InvMemoria
<1> SUFFICES ASSUME InitMemoria PROVE InvMemoria
  OBVIOUS
<1>1. TipoConexion
  <2>1. aMemoria \in Seq(Mensaje) /\ deMemoria \in Seq(Respuesta)
    BY DEF InitMemoria
  <2>2. relay \in [CPUs -> {"no", "palabra", "largo", "datos"}]
    BY DEF InitMemoria
  <2>3. enlace = "bien" /\ ajena = FALSE /\ terminados = {}
    BY DEF InitMemoria
  <2> QED BY <2>1, <2>2, <2>3 DEF TipoConexion
<1>2. EsperaRespuesta = {} /\ Cabezas(deMemoria) = {} /\ liberados = {}
  BY DEF InitMemoria, Init, EsperaRespuesta, Cabezas
<1>3. Len(aMemoria) = 0
  BY DEF InitMemoria
<1> QED BY <1>1, <1>2, <1>3, FS_EmptySet DEF InvMemoria, RespuestasDeMas

(* A step that leaves the connection and the freed processes alone.        *)
LEMMA ConexionQuieta ==
  ASSUME InvMemoria, UNCHANGED conexion, UNCHANGED liberados
  PROVE  InvMemoria'
BY DEF InvMemoria, conexion, TipoConexion, RespuestasDeMas, EsperaRespuesta, Cabezas

(* Only the finaliser frees PCBs.                                          *)
LEMMA SoloFinalizarLibera ==
  /\ \A p \in Procs : Carpincho(p) => UNCHANGED liberados
  /\ Llegada \/ PLP \/ PCP \/ PMP \/ PIO => UNCHANGED liberados
  /\ \A c \in CPUs : CPU(c) => UNCHANGED liberados
<1>1. ASSUME NEW p \in Procs PROVE Carpincho(p) => UNCHANGED liberados
  BY DEF Carpincho, Conectar, Cerrar, Pedir, otros
<1>2. Llegada => UNCHANGED liberados
  BY DEF Llegada, EncolarNuevo, Aceptar, otros
<1>3. PLP => UNCHANGED liberados
  BY DEF PLP, PLPEspera, PLPCupo, PLPAdmitir, PLPEmpujar, PLPDormir, otros
<1>4. PCP => UNCHANGED liberados
  BY DEF PCP, PCPEspera, PCPToken, SJFMirar, SJFElegir, HRRNElegir, AsignarCPU,
         BuscarCPUSinIniciar, otros
<1>5. PMP => UNCHANGED liberados
  BY DEF PMP, PMPEspera, PMPMirar, PMPSuspender, otros
<1>6. PIO => UNCHANGED liberados
  BY DEF PIO, PIOEspera, PIOBuscar, PIOSacar, otros
<1>7. ASSUME NEW c \in CPUs, CPU(c) PROVE UNCHANGED liberados
  <2>1. CASE \/ CPUEspera(c) \/ CPUMientras(c) \/ CPUAvisarIO(c) \/ CPURecv(c)
             \/ CPURecvCerrado(c) \/ CPUSalir(c) \/ CPUSoltar(c)
    BY <2>1 DEF CPUEspera, CPUMientras, CPUAvisarIO, CPURecv, CPURecvCerrado,
                CPUSalir, CPUSoltar, otros
  <2>2. CASE OpMemoria(c) \/ OpIO(c) \/ IOBloquear(c) \/ IOMarcar(c) \/ OpFinalizacion(c)
    BY <2>2 DEF OpMemoria, OpIO, IOBloquear, IOMarcar, OpFinalizacion, otros
  <2>3. CASE OpInit(c) \/ OpWait(c) \/ WaitRestar(c) \/ WaitBloquear(c) \/ SemResponder(c)
    BY <2>3 DEF OpInit, OpWait, WaitRestar, WaitBloquear, SemResponder, otros
  <2>4. CASE OpPost(c) \/ PostBuscar(c) \/ PostSacar(c) \/ OpDestroy(c)
    BY <2>4 DEF OpPost, PostBuscar, PostSacar, OpDestroy, otros
  <2> QED BY <1>7, <2>1, <2>2, <2>3, <2>4 DEF CPU
<1> QED BY <1>1, <1>2, <1>3, <1>4, <1>5, <1>6, <1>7

LEMMA Numeros ==
  ASSUME InvMemoria, IInv
  PROVE  /\ IsFiniteSet(EsperaRespuesta) /\ Cardinality(EsperaRespuesta) \in Nat
         /\ IsFiniteSet(liberados) /\ Cardinality(liberados) \in Nat
         /\ Cardinality(Cabezas(deMemoria)) \in Nat
         /\ Len(aMemoria) \in Nat
<1>1. aMemoria \in Seq(Mensaje) /\ deMemoria \in Seq(Respuesta)
  BY DEF InvMemoria, TipoConexion
<1>2. liberados \in SUBSET Procs
  BY DEF IInv, TypeOK, TipoGlobales
<1>3. EsperaRespuesta \in SUBSET CPUs
  BY DEF EsperaRespuesta
<1>4. IsFiniteSet(liberados) /\ IsFiniteSet(EsperaRespuesta)
  BY <1>2, <1>3, KernelAssumption, MemoriaAssumption, FS_Subset
<1> QED BY <1>1, <1>4, CabezasFinitas, FS_CardinalityType

(* serializar_instancia: what it sends it waits for.                       *)
LEMMA EnviarInv ==
  ASSUME InvMemoria, IInv, NEW c \in CPUs, RelayEnviar(c)
  PROVE  InvMemoria'
<1>1. PICK o \in OpsMemoria :
        /\ aMemoria' = Append(aMemoria, [de |-> cpu[c].p, nro |-> ops[cpu[c].p], op |-> o])
        /\ relay' = [relay EXCEPT ![c] = IF o = "LECTURA" THEN "largo" ELSE "palabra"]
  BY DEF RelayEnviar
<1>2. cpu[c].p \in Procs /\ ops[cpu[c].p] \in Nat
  <2>1. cpu[c].p \in Procs
    BY DEF RelayEnviar, EnOp, IInv, HilosConProceso, Entrados
  <2> QED BY <2>1, KernelAssumption DEF IInv, TypeOK, TipoClientes
<1>3. [de |-> cpu[c].p, nro |-> ops[cpu[c].p], op |-> o] \in Mensaje
  BY <1>2 DEF Mensaje
<1>4. /\ aMemoria \in Seq(Mensaje) /\ aMemoria' \in Seq(Mensaje)
      /\ Len(aMemoria') = Len(aMemoria) + 1
  BY <1>1, <1>3 DEF InvMemoria, TipoConexion
<1>5. TipoConexion'
  BY <1>1, <1>4 DEF InvMemoria, TipoConexion, RelayEnviar
<1>6. EsperaRespuesta' = EsperaRespuesta \cup {c} /\ c \notin EsperaRespuesta
  BY <1>1 DEF EsperaRespuesta, RelayEnviar, InvMemoria, TipoConexion
<1>7. Cardinality(EsperaRespuesta') = Cardinality(EsperaRespuesta) + 1
  BY <1>6, Numeros, FS_AddElement
<1>8. UNCHANGED <<deMemoria, enlace, liberados>>
  BY DEF RelayEnviar, vars, otros
<1>9. RespuestasDeMas'
  <2>1. Cabezas(deMemoria)' = Cabezas(deMemoria)
    BY <1>8 DEF Cabezas
  <2>2. CASE enlace \notin {"bien", "colgada"}
    BY <1>8, <2>2 DEF RespuestasDeMas
  <2>3. CASE enlace \in {"bien", "colgada"}
    BY <1>4, <1>7, <1>8, <2>1, <2>3, Numeros DEF InvMemoria, RespuestasDeMas
  <2> QED BY <2>2, <2>3
<1> QED BY <1>5, <1>9 DEF InvMemoria

(* A connection that has lost its meaning promises nothing more.           *)
LEMMA PerderInv ==
  ASSUME InvMemoria, NEW e \in {"desalineado", "caido"}, Perder(e),
         deMemoria # <<>>, deMemoria' = Tail(deMemoria)
  PROVE  InvMemoria'
<1>1. deMemoria' \in Seq(Respuesta)
  BY DEF InvMemoria, TipoConexion
<1>2. TipoConexion'
  BY <1>1 DEF InvMemoria, TipoConexion, Perder
<1>3. RespuestasDeMas'
  BY DEF RespuestasDeMas, Perder
<1> QED BY <1>2, <1>3 DEF InvMemoria

(* A CPU reads the word it waits for: a head when it waits for one, data   *)
(* when it waits for data.                                                 *)
LEMMA LeerInv ==
  ASSUME InvMemoria, IInv, NEW c \in CPUs, NEW w \in {"palabra", "largo", "datos"},
         NEW x \in {"no", "datos"},
         Espera(c, w), relay' = [relay EXCEPT ![c] = x],
         w = "datos" <=> Head(deMemoria).clase = "datos",
         ajena' \in BOOLEAN, UNCHANGED <<aMemoria, terminados, enlace, liberados>>
  PROVE  InvMemoria'
<1>1. deMemoria \in Seq(Respuesta) /\ deMemoria # <<>> /\ deMemoria' = Tail(deMemoria)
  BY DEF InvMemoria, TipoConexion, Espera
<1>2. TipoConexion'
  <2>1. deMemoria' \in Seq(Respuesta)
    BY <1>1
  <2>2. relay' \in [CPUs -> {"no", "palabra", "largo", "datos"}]
    BY DEF InvMemoria, TipoConexion
  <2> QED BY <2>1, <2>2 DEF InvMemoria, TipoConexion
<1>3. /\ Cardinality(Cabezas(deMemoria)') \in Nat
      /\ Cardinality(Cabezas(deMemoria))
           = Cardinality(Cabezas(deMemoria)') + Valor(Head(deMemoria).clase # "datos")
  BY <1>1, CabezasSacar
<1>4. EsperaRespuesta' = IF w = "datos" THEN EsperaRespuesta ELSE EsperaRespuesta \ {c}
  BY DEF EsperaRespuesta, Espera, InvMemoria, TipoConexion
<1>5. w # "datos" => c \in EsperaRespuesta
  BY DEF EsperaRespuesta, Espera
<1>6. Cardinality(EsperaRespuesta)
        = Cardinality(EsperaRespuesta') + Valor(Head(deMemoria).clase # "datos")
  <2>1. CASE w = "datos"
    BY <1>4, <2>1, Numeros DEF Valor
  <2>2. CASE w # "datos"
    <3>1. Cardinality(EsperaRespuesta') = Cardinality(EsperaRespuesta) - 1
      BY <1>4, <1>5, <2>2, Numeros, FS_RemoveElement
    <3> QED BY <2>2, <3>1, Numeros DEF Valor
  <2> QED BY <2>1, <2>2
<1>7. Valor(Head(deMemoria).clase # "datos") \in {0, 1}
  BY DEF Valor
<1>8. Cardinality(EsperaRespuesta') \in Nat
  BY <1>4, Numeros, FS_RemoveElement, FS_CardinalityType
<1>9. RespuestasDeMas'
  <2> HIDE DEF EsperaRespuesta, Cabezas
  <2> QED BY <1>3, <1>6, <1>7, <1>8, Numeros DEF InvMemoria, RespuestasDeMas
<1> QED BY <1>2, <1>9 DEF InvMemoria

LEMMA EntregarQuieta ==
  ASSUME InvMemoria, NEW c \in CPUs, Entregar(c)
  PROVE  /\ UNCHANGED <<aMemoria, terminados, enlace, liberados>>
         /\ relay' = [relay EXCEPT ![c] = "no"] /\ ajena' \in BOOLEAN
BY DEF Entregar, OpMemoria, otros, InvMemoria, TipoConexion, DeOtro

LEMMA RelayInv ==
  ASSUME InvMemoria, IInv, NEW c \in CPUs, Relay(c)
  PROVE  InvMemoria'
<1>0. ASSUME NEW w, Espera(c, w)
      PROVE  /\ deMemoria # <<>> /\ deMemoria' = Tail(deMemoria)
             /\ Head(deMemoria).clase \in {"palabra", "largo", "datos", "fallo"}
  <2>1. deMemoria \in Seq(Respuesta) /\ deMemoria # <<>> /\ deMemoria' = Tail(deMemoria)
    BY <1>0 DEF Espera, InvMemoria, TipoConexion
  <2>2. Head(deMemoria) \in Respuesta
    BY <2>1
  <2> QED BY <2>1, <2>2 DEF Respuesta
<1>1. CASE RelayEnviar(c)
  BY <1>1, EnviarInv
<1>2. CASE RelayPalabra(c)
  <2>1. Espera(c, "palabra")
    BY <1>2 DEF RelayPalabra
  <2>2. CASE Head(deMemoria).clase \in {"palabra", "fallo"} /\ Entregar(c)
    BY <2>1, <2>2, EntregarQuieta, LeerInv
  <2>3. CASE Perder("desalineado")
    BY <1>0, <2>1, <2>3, PerderInv
  <2> QED BY <1>2, <2>2, <2>3 DEF RelayPalabra
<1>3. CASE RelayLargo(c)
  <2>1. Espera(c, "largo")
    BY <1>3 DEF RelayLargo
  <2>2. CASE /\ Head(deMemoria).clase = "largo"
             /\ relay' = [relay EXCEPT ![c] = "datos"]
             /\ ajena' = (ajena \/ DeOtro(c))
             /\ UNCHANGED <<vars, aMemoria, terminados, enlace>>
    <3>1. ajena' \in BOOLEAN /\ UNCHANGED liberados
      BY <2>2 DEF InvMemoria, TipoConexion, DeOtro, vars, otros
    <3> QED BY <2>1, <2>2, <3>1, LeerInv
  <2>3. CASE Perder("desalineado") \/ Perder("caido")
    BY <1>0, <2>1, <2>3, PerderInv
  <2> QED BY <1>3, <2>2, <2>3 DEF RelayLargo
<1>4. CASE RelayDatos(c)
  <2>1. Espera(c, "datos")
    BY <1>4 DEF RelayDatos
  <2>2. CASE Head(deMemoria).clase = "datos" /\ Entregar(c)
    BY <2>1, <2>2, EntregarQuieta, LeerInv
  <2>3. CASE Perder("desalineado")
    BY <1>0, <2>1, <2>3, PerderInv
  <2> QED BY <1>4, <2>2, <2>3 DEF RelayDatos
<1> QED BY <1>1, <1>2, <1>3, <1>4 DEF Relay

(* finalizacionCarpincho: one process more is freed, one request more is   *)
(* on its way.                                                             *)
LEMMA FinalizarConAvisoInv ==
  ASSUME InvMemoria, IInv, FinalizarConAviso
  PROVE  InvMemoria'
<1> DEFINE m == [de |-> pcb[Head(exit)].pid, nro |-> 0, op |-> "FIN"]
<1>1. exit \in Seq(Procs) /\ exit # <<>>
  BY DEF FinalizarConAviso, Finalizar, Puede, IInv, NadieSacaDeVacia, TypeOK,
         TipoGlobales, TipoListas, SemKernelNombres
<1>2. Head(exit) \in Procs /\ Head(exit) \notin liberados
  <2>1. 1 \in DOMAIN exit /\ Head(exit) = exit[1]
    BY <1>1
  <2> QED BY <1>1, <2>1 DEF IInv, ListasDeEntrados, Adentro, Entrados
<1>3. m \in Mensaje
  BY <1>2 DEF Mensaje, IInv, TypeOK, TipoPCB
<1>4. /\ aMemoria \in Seq(Mensaje) /\ aMemoria' \in Seq(Mensaje)
      /\ Len(aMemoria') = Len(aMemoria) + 1
  BY <1>3 DEF FinalizarConAviso, InvMemoria, TipoConexion
<1>5. liberados' = liberados \cup {Head(exit)}
  BY DEF FinalizarConAviso, Finalizar
<1>6. Cardinality(liberados') = Cardinality(liberados) + 1
  BY <1>2, <1>5, Numeros, FS_AddElement
<1>7. UNCHANGED <<deMemoria, relay, terminados, enlace, ajena>>
  BY DEF FinalizarConAviso
<1>8. TipoConexion'
  BY <1>4, <1>7 DEF InvMemoria, TipoConexion
<1>9. EsperaRespuesta' = EsperaRespuesta /\ Cabezas(deMemoria)' = Cabezas(deMemoria)
  BY <1>7 DEF EsperaRespuesta, Cabezas
<1>10. RespuestasDeMas'
  BY <1>4, <1>6, <1>7, <1>9, Numeros DEF InvMemoria, RespuestasDeMas
<1> QED BY <1>8, <1>10 DEF InvMemoria

(* server_procesar_mensaje: a request served becomes one head.             *)
LEMMA AtenderInv ==
  ASSUME InvMemoria, IInv, MemAtender
  PROVE  InvMemoria'
<1> DEFINE m == Head(aMemoria)
           P(clase) == [de |-> m.de, nro |-> m.nro, clase |-> clase]
<1>1. /\ aMemoria \in Seq(Mensaje) /\ aMemoria # <<>> /\ m \in Mensaje
      /\ aMemoria' \in Seq(Mensaje) /\ Len(aMemoria) = Len(aMemoria') + 1
      /\ Len(aMemoria') \in Nat
  BY DEF MemAtender, InvMemoria, TipoConexion
<1>2. deMemoria \in Seq(Respuesta)
  BY DEF InvMemoria, TipoConexion
<1>3. \A k \in {"palabra", "largo", "datos", "fallo"} : P(k) \in Respuesta
  BY <1>1 DEF Mensaje, Respuesta
<1>4. /\ deMemoria' \in Seq(Respuesta)
      /\ Cardinality(Cabezas(deMemoria)') = Cardinality(Cabezas(deMemoria)) + 1
  <2>1. ASSUME NEW k \in {"palabra", "fallo"}, deMemoria' = Append(deMemoria, P(k))
        PROVE  /\ deMemoria' \in Seq(Respuesta)
               /\ Cardinality(Cabezas(deMemoria)') = Cardinality(Cabezas(deMemoria)) + 1
    <3>1. P(k) \in Respuesta /\ Valor(P(k).clase # "datos") = 1
      BY <1>3, <2>1 DEF Valor
    <3> HIDE DEF P
    <3> QED BY <1>2, <2>1, <3>1, CabezasAgregar
  <2>2. ASSUME deMemoria' = Append(Append(deMemoria, P("largo")), P("datos"))
        PROVE  /\ deMemoria' \in Seq(Respuesta)
               /\ Cardinality(Cabezas(deMemoria)') = Cardinality(Cabezas(deMemoria)) + 1
    <3>1. /\ P("largo") \in Respuesta /\ Valor(P("largo").clase # "datos") = 1
          /\ P("datos") \in Respuesta /\ Valor(P("datos").clase # "datos") = 0
      BY <1>3 DEF Valor
    <3> HIDE DEF P
    <3>2. Append(deMemoria, P("largo")) \in Seq(Respuesta)
      BY <1>2, <3>1
    <3>3. Cardinality(Cabezas(Append(deMemoria, P("largo")))) = Cardinality(Cabezas(deMemoria)) + 1
      BY <1>2, <3>1, CabezasAgregar
    <3>4. Cardinality(Cabezas(deMemoria)')
            = Cardinality(Cabezas(Append(deMemoria, P("largo")))) + 0
      BY <2>2, <3>1, <3>2, CabezasAgregar
    <3> QED BY <2>2, <3>1, <3>2, <3>3, <3>4, <1>2, CabezasFinitas
  <2>3. \/ \E k \in {"palabra", "fallo"} : deMemoria' = Append(deMemoria, P(k))
        \/ deMemoria' = Append(Append(deMemoria, P("largo")), P("datos"))
    BY DEF MemAtender, Contestar
  <2> QED BY <2>1, <2>2, <2>3
<1>5. UNCHANGED <<relay, enlace, ajena, liberados>>
  BY DEF MemAtender, vars, otros
<1>6. terminados' \in SUBSET Procs
  BY DEF MemAtender, TerminarSiEsFIN, InvMemoria, TipoConexion
<1>7. TipoConexion'
  BY <1>1, <1>4, <1>5, <1>6 DEF InvMemoria, TipoConexion
<1>8. EsperaRespuesta' = EsperaRespuesta
  BY <1>5 DEF EsperaRespuesta
<1>9. RespuestasDeMas'
  BY <1>1, <1>4, <1>5, <1>8, Numeros DEF InvMemoria, RespuestasDeMas
<1> QED BY <1>7, <1>9 DEF InvMemoria

LEMMA ColgarseInv ==
  ASSUME InvMemoria, IInv, MemColgarse
  PROVE  InvMemoria'
<1>1. /\ UNCHANGED <<aMemoria, deMemoria, relay, terminados, ajena, liberados>>
      /\ enlace = "bien" /\ enlace' = "colgada"
  BY DEF MemColgarse, vars, otros
<1> QED
  BY <1>1 DEF InvMemoria, TipoConexion, RespuestasDeMas, EsperaRespuesta, Cabezas

LEMMA InvMemoriaPaso == InvMemoria /\ IInv /\ [NextMemoria]_varsMemoria => InvMemoria'
<1> SUFFICES ASSUME InvMemoria, IInv, [NextMemoria]_varsMemoria PROVE InvMemoria'
  OBVIOUS
<1>1. CASE UNCHANGED varsMemoria
  <2>1. UNCHANGED conexion /\ UNCHANGED liberados
    BY <1>1 DEF varsMemoria, vars, otros
  <2> QED BY <2>1, ConexionQuieta
<1>2. CASE /\ \/ \E p \in Procs : Carpincho(p)
              \/ Llegada \/ PLP \/ PCP \/ PMP \/ PIO
              \/ \E c \in CPUs : CPUAparte(c)
           /\ UNCHANGED conexion
  <2>1. UNCHANGED liberados
    BY <1>2, SoloFinalizarLibera DEF CPUAparte
  <2> QED BY <1>2, <2>1, ConexionQuieta
<1>3. CASE \E c \in CPUs : Relay(c)
  BY <1>3, RelayInv
<1> QED BY <1>1, <1>2, <1>3, FinalizarConAvisoInv, AtenderInv, ColgarseInv DEF NextMemoria

(* The answers and requests in transit are those the CPUs wait for and one *)
(* for each process that ended (kernel.c:1221 sends and never reads): no   *)
(* CPU waits for an answer nobody will send, and the crossing of answers   *)
(* grows by one with each process that ends, whatever the interleaving.    *)
THEOREM UnaRespuestaDeMasPorFin == SpecMemoria => []RespuestasDeMas
<1>1. InvMemoria => RespuestasDeMas
  BY DEF InvMemoria
<1>2. SpecMemoria => []InvMemoria
  BY InvMemoriaInicial, InvMemoriaPaso, InvarianteConMemoria, PTL DEF SpecMemoria
<1> QED BY <1>1, <1>2, PTL
=============================================================================
