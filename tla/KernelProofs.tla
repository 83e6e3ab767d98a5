---------------------------- MODULE KernelProofs ----------------------------
(* What TLAPS proves of the scheduler (Kernel), for any number of          *)
(* carpinchos, CPUs and semaphores and any GRADO_MULTIPROGRAMACION.        *)
EXTENDS Kernel, FiniteSetTheorems, WellFoundedInduction, TLAPS

-----------------------------------------------------------------------------
(* Lists *)

(* list_remove at an index of the list: the list keeps its other elements, *)
(* those after the index one place down.                                   *)
LEMMA SacarDeLista ==
  ASSUME NEW S, NEW s \in Seq(S), NEW i \in DOMAIN s
  PROVE  /\ RemoveAt(s, i) \in Seq(S)
         /\ Len(RemoveAt(s, i)) = Len(s) - 1
         /\ \A j \in DOMAIN RemoveAt(s, i) :
              /\ j \in DOMAIN s /\ j + 1 \in DOMAIN s
              /\ RemoveAt(s, i)[j] = IF j < i THEN s[j] ELSE s[j + 1]
<1> DEFINE a == SubSeq(s, 1, i - 1)
           b == SubSeq(s, i + 1, Len(s))
<1>1. i \in 1..Len(s) /\ Len(s) \in Nat
  OBVIOUS
<1>2. a \in Seq(S) /\ Len(a) = i - 1 /\ \A j \in 1..(i - 1) : a[j] = s[j]
  BY <1>1
<1>3. /\ b \in Seq(S) /\ Len(b) = Len(s) - i
      /\ \A j \in 1..(Len(s) - i) : b[j] = s[i + j]
  BY <1>1
<1>4. /\ a \o b \in Seq(S) /\ Len(a \o b) = Len(s) - 1
      /\ \A j \in 1..(Len(s) - 1) :
           (a \o b)[j] = IF j <= i - 1 THEN a[j] ELSE b[j - (i - 1)]
  <2> HIDE DEF a, b
  <2> QED BY <1>1, <1>2, <1>3
<1>5. RemoveAt(s, i) = a \o b
  BY DEF RemoveAt
<1>6. ASSUME NEW j \in 1..(Len(s) - 1)
      PROVE  /\ j \in DOMAIN s /\ j + 1 \in DOMAIN s
             /\ (a \o b)[j] = IF j < i THEN s[j] ELSE s[j + 1]
  <2>0. j \in DOMAIN s /\ j + 1 \in DOMAIN s /\ j \in Nat
    BY <1>1
  <2>1. CASE j < i
    <3>1. j <= i - 1 /\ j \in 1..(i - 1)
      BY <1>1, <2>1
    <3> HIDE DEF a, b
    <3> QED BY <1>2, <1>4, <2>0, <2>1, <3>1
  <2>2. CASE ~(j < i)
    <3>1. /\ ~(j <= i - 1) /\ j - (i - 1) \in 1..(Len(s) - i)
          /\ i + (j - (i - 1)) = j + 1
      BY <1>1, <2>2
    <3> HIDE DEF a, b
    <3> QED BY <1>3, <1>4, <2>0, <2>2, <3>1
  <2> QED BY <2>1, <2>2
<1>7. DOMAIN (a \o b) = 1..(Len(s) - 1)
  <2> HIDE DEF a, b
  <2> QED BY <1>4
<1> QED BY <1>4, <1>5, <1>6, <1>7

(* queue_pop: the first element leaves, the others move one place down.    *)
LEMMA SacarDeCola ==
  ASSUME NEW S, NEW s \in Seq(S), s # <<>>
  PROVE  /\ Head(s) = s[1] /\ 1 \in DOMAIN s /\ Head(s) \in S
         /\ Tail(s) \in Seq(S) /\ Len(Tail(s)) = Len(s) - 1
         /\ \A j \in DOMAIN Tail(s) : j + 1 \in DOMAIN s /\ Tail(s)[j] = s[j + 1]
OBVIOUS

(* The last element leaves, the others stay where they are.                *)
LEMMA SacarUltimo ==
  ASSUME NEW S, NEW s \in Seq(S), s # <<>>
  PROVE  /\ Last(s) \in S /\ Front(s) \in Seq(S)
         /\ \E i \in DOMAIN s : Last(s) = s[i]
         /\ \A j \in DOMAIN Front(s) : j \in DOMAIN s /\ Front(s)[j] = s[j]
<1>1. Len(s) \in DOMAIN s /\ Last(s) = s[Len(s)]
  BY DEF Last
<1>2. Front(s) = SubSeq(s, 1, Len(s) - 1)
  BY DEF Front
<1>3. /\ SubSeq(s, 1, Len(s) - 1) \in Seq(S)
      /\ DOMAIN SubSeq(s, 1, Len(s) - 1) = 1..(Len(s) - 1)
      /\ \A j \in 1..(Len(s) - 1) : SubSeq(s, 1, Len(s) - 1)[j] = s[j]
  <2>1. Len(s) \in Nat \ {0}
    OBVIOUS
  <2> QED BY <2>1
<1> QED BY <1>1, <1>2, <1>3

(* list_add: the elements of the list and the new one, at its end.         *)
LEMMA Agregar ==
  ASSUME NEW S, NEW s \in Seq(S), NEW x \in S
  PROVE  /\ Append(s, x) \in Seq(S) /\ Len(Append(s, x)) = Len(s) + 1
         /\ \A j \in DOMAIN Append(s, x) :
              \/ j \in DOMAIN s /\ Append(s, x)[j] = s[j]
              \/ j = Len(s) + 1 /\ Append(s, x)[j] = x
OBVIOUS

(* The search loops stop at a position of the list.                        *)
LEMMA MinimoEsta ==
  ASSUME NEW S \in SUBSET Nat, S # {}
  PROVE  Min(S) \in S /\ Min(S) \in Nat
<1> DEFINE R == {ss \in Nat \X Nat : ss[1] < ss[2]}
<1>0. IsWellFoundedOn(R, Nat)
  BY NatLessThanWellFounded DEF OpToRel
<1>1. PICK x \in S : \A y \in S : ~(<<y, x>> \in R)
  <2> HIDE DEF R
  <2> QED BY <1>0, WFMin
<1>2. ASSUME NEW y \in S PROVE x <= y
  <2>1. x \in Nat /\ y \in Nat
    OBVIOUS
  <2>2. CASE y < x
    <3>1. <<y, x>> \in Nat \X Nat /\ <<y, x>>[1] < <<y, x>>[2]
      BY <2>1, <2>2
    <3>2. <<y, x>> \in R
      BY <3>1
    <3> QED BY <1>1, <3>2
  <2> QED BY <2>1, <2>2
<1>3. \E z \in S : \A y \in S : z <= y
  BY <1>2
<1> QED BY <1>3 DEF Min

-----------------------------------------------------------------------------
(* Types *)

(* A part of the state that a step leaves alone keeps its type.            *)
LEMMA MarcoTipos ==
  /\ TipoClientes /\ UNCHANGED clientes => TipoClientes'
  /\ TipoPCB /\ UNCHANGED pcb => TipoPCB'
  /\ TipoListas /\ UNCHANGED listas => TipoListas'
  /\ TipoBanderas /\ UNCHANGED <<indefinido, uso>> => TipoBanderas'
  /\ TipoGlobales /\ UNCHANGED <<sem, planificacion, otros>> => TipoGlobales'
  /\ TipoPlanificadores /\ UNCHANGED <<llegando, planificadores>> => TipoPlanificadores'
  /\ TipoCPU /\ UNCHANGED cpu => TipoCPU'
<1>1. TipoClientes /\ UNCHANGED clientes => TipoClientes'
  BY DEF TipoClientes, clientes
<1>2. TipoPCB /\ UNCHANGED pcb => TipoPCB'
  BY DEF TipoPCB
<1>3. TipoListas /\ UNCHANGED listas => TipoListas'
  BY DEF TipoListas, listas
<1>4. TipoBanderas /\ UNCHANGED <<indefinido, uso>> => TipoBanderas'
  BY DEF TipoBanderas
<1>5. TipoGlobales /\ UNCHANGED <<sem, planificacion, otros>> => TipoGlobales'
  BY DEF TipoGlobales, otros
<1>6. TipoPlanificadores /\ UNCHANGED <<llegando, planificadores>> => TipoPlanificadores'
  BY DEF TipoPlanificadores, planificadores
<1>7. TipoCPU /\ UNCHANGED cpu => TipoCPU'
  BY DEF TipoCPU
<1> QED BY <1>1, <1>2, <1>3, <1>4, <1>5, <1>6, <1>7

(* A CPU moves to another point of its loop.                               *)
LEMMA IrCPUTipos ==
  ASSUME TipoCPU, NEW c \in CPUs, NEW x \in PCsCPU, IrCPU(c, x)
  PROVE  TipoCPU'
BY DEF TipoCPU, IrCPU

(* Two fields of a CPU change at once.                                     *)
RegistroCPU == [pc : PCsCPU, estado : {"FREE", "BUSY"}, semCPU : Nat,
                p : Procs \cup {Nada}, ped : Peticion \cup {Nada}, i : Nat]

LEMMA CambioCPUTipos ==
  ASSUME TipoCPU, NEW c \in CPUs
  PROVE  /\ \A r \in RegistroCPU : cpu' = [cpu EXCEPT ![c] = r] => TipoCPU'
         /\ \A x \in PCsCPU, e \in {"FREE", "BUSY"} :
              [cpu[c] EXCEPT !.pc = x, !.estado = e] \in RegistroCPU
         /\ \A x \in PCsCPU, o \in Peticion :
              [cpu[c] EXCEPT !.pc = x, !.ped = o] \in RegistroCPU
         /\ \A x \in PCsCPU, n \in Nat :
              [cpu[c] EXCEPT !.pc = x, !.i = n] \in RegistroCPU
<1>1. cpu[c] \in RegistroCPU
  BY DEF TipoCPU, RegistroCPU
<1>2. \A r \in RegistroCPU : cpu' = [cpu EXCEPT ![c] = r] => TipoCPU'
  BY DEF TipoCPU, RegistroCPU
<1>3. \A x \in PCsCPU, e \in {"FREE", "BUSY"} :
        [cpu[c] EXCEPT !.pc = x, !.estado = e] \in RegistroCPU
  BY <1>1 DEF RegistroCPU
<1>4. \A x \in PCsCPU, o \in Peticion :
        [cpu[c] EXCEPT !.pc = x, !.ped = o] \in RegistroCPU
  BY <1>1 DEF RegistroCPU
<1>5. \A x \in PCsCPU, n \in Nat :
        [cpu[c] EXCEPT !.pc = x, !.i = n] \in RegistroCPU
  BY <1>1 DEF RegistroCPU
<1> QED BY <1>2, <1>3, <1>4, <1>5

(* Waking a blocked process: one PCB moves from processBlocked to          *)
(* processReady and becomes READY.                                         *)
LEMMA DespertarTipos ==
  ASSUME TypeOK, NEW i, Despertar(i),
         UNCHANGED <<new, suspendedBlocked, exit, colaIO, globales, otros>>
  PROVE  TipoPCB' /\ TipoListas' /\ TipoGlobales' /\ TipoBanderas'
<1> USE DEF TypeOK
<1>1. CASE i \notin DOMAIN blocked
  BY <1>1, MarcoTipos DEF Despertar, SeRompe, TipoBanderas, listas, globales, otros
<1>2. CASE i \in DOMAIN blocked
  <2>1. blocked[i] \in Procs
    BY <1>2 DEF TipoListas
  <2>2. TipoPCB'
    BY <1>2, <2>1 DEF Despertar, Estado, TipoPCB
  <2>3. blocked' \in Seq(Procs)
    BY <1>2, SacarDeLista DEF Despertar, TipoListas
  <2>4. ready' \in Seq(Procs)
    <3>1. ready' = Append(ready, blocked[i])
      BY <1>2 DEF Despertar
    <3> QED BY <2>1, <3>1, Agregar DEF TipoListas
  <2>5. TipoListas'
    BY <2>3, <2>4 DEF TipoListas
  <2>6. TipoGlobales' /\ TipoBanderas'
    BY <1>2 DEF Despertar, Subir, TipoGlobales, TipoBanderas, globales, otros, SemKernelNombres
  <2> QED BY <2>2, <2>5, <2>6
<1> QED BY <1>1, <1>2


(* Types are kept by every step of the carpincho. *)
LEMMA CarpinchoTipos ==
  ASSUME TypeOK, NadieSacaDeVacia, HilosConProceso, NEW p \in Procs, Carpincho(p)
  PROVE  TypeOK'
<1> USE KernelAssumption DEF TypeOK
<1>1. CASE Conectar(p)
  <2>1. TipoClientes'
    BY <1>1 DEF Conectar, TipoClientes
  <2> QED
    BY <1>1, <2>1, MarcoTipos
    DEF Conectar, clientes, listas, globales, otros, hilos, planificadores
<1>2. CASE Cerrar(p)
  <2>1. TipoClientes'
    BY <1>2 DEF Cerrar, Enviar, Peticion, TipoClientes
  <2> QED
    BY <1>2, <2>1, MarcoTipos
    DEF Cerrar, clientes, listas, globales, otros, hilos, planificadores, Enviar
<1>3. CASE \E o \in Peticion : Pedir(p, o)
  <2>1. TipoClientes'
    BY <1>3 DEF Pedir, Enviar, TipoClientes
  <2> QED
    BY <1>3, <2>1, MarcoTipos
    DEF Pedir, clientes, listas, globales, otros, hilos, planificadores, Enviar
<1> QED
  BY <1>1, <1>2, <1>3 DEF Carpincho

(* Types are kept by every step of the accept loop of main. *)
LEMMA LlegadaTipos ==
  ASSUME TypeOK, NadieSacaDeVacia, HilosConProceso, Llegada
  PROVE  TypeOK'
<1> USE KernelAssumption DEF TypeOK
<1>1. CASE EncolarNuevo
  <2>1. TipoListas'
    BY <1>1 DEF EncolarNuevo, TipoPlanificadores, TipoListas
  <2>2. TipoGlobales'
    BY <1>1 DEF EncolarNuevo, Subir, TipoGlobales, globales, otros, SemKernelNombres
  <2>3. TipoPlanificadores'
    BY <1>1 DEF EncolarNuevo, TipoPlanificadores, planificadores
  <2> QED
    BY <1>1, <2>1, <2>2, <2>3, MarcoTipos
    DEF EncolarNuevo, clientes, listas, globales, otros, hilos, planificadores
<1>2. CASE \E p \in Procs : Aceptar(p)
  <2>1. TipoClientes'
    BY <1>2 DEF Aceptar, Responder, TipoClientes
  <2>2. TipoPlanificadores'
    BY <1>2 DEF Aceptar, TipoPlanificadores, planificadores
  <2> QED
    BY <1>2, <2>1, <2>2, MarcoTipos
    DEF Aceptar, clientes, listas, globales, otros, hilos, planificadores
<1> QED
  BY <1>1, <1>2 DEF Llegada

(* Types are kept by every step of the long-term planner. *)
LEMMA PLPTipos ==
  ASSUME TypeOK, NadieSacaDeVacia, HilosConProceso, PLP
  PROVE  TypeOK'
<1> USE KernelAssumption DEF TypeOK
<1>n. plp.pc = "cupo" => new # <<>>
  BY DEF NadieSacaDeVacia, Valor, TipoGlobales, TipoListas, SemKernelNombres
<1>a. plp.pc = "admitir" => plp.p \in Procs
  BY DEF HilosConProceso, Entrados
<1>1. CASE PLPEspera
  <2>1. TipoGlobales'
    BY <1>1 DEF PLPEspera, Puede, Bajar, TipoGlobales, globales, otros, SemKernelNombres
  <2>2. TipoPlanificadores'
    BY <1>1 DEF PLPEspera, IrA, TipoPlanificadores, planificadores
  <2> QED
    BY <1>1, <2>1, <2>2, MarcoTipos
    DEF PLPEspera, clientes, listas, globales, otros, hilos, planificadores
<1>2. CASE PLPCupo
  <2>1. TipoListas'
    BY <1>2, <1>n, SacarDeCola DEF PLPCupo, TipoListas
  <2>2. TipoGlobales'
    BY <1>2 DEF PLPCupo, Puede, Bajar, TipoGlobales, globales, otros, SemKernelNombres
  <2>3. TipoPlanificadores'
    BY <1>2, <1>n, SacarDeCola DEF PLPCupo, TipoListas, TipoPlanificadores, planificadores
  <2> QED
    BY <1>2, <2>1, <2>2, <2>3, MarcoTipos
    DEF PLPCupo, clientes, listas, globales, otros, hilos, planificadores
<1>3. CASE PLPAdmitir
  <2>1. TipoListas'
    BY <1>3, <1>a DEF PLPAdmitir, TipoListas
  <2>2. TipoGlobales'
    BY <1>3 DEF PLPAdmitir, Subir, TipoGlobales, globales, otros, SemKernelNombres
  <2>3. TipoPlanificadores'
    BY <1>3 DEF PLPAdmitir, TipoPlanificadores, planificadores
  <2> QED
    BY <1>3, <2>1, <2>2, <2>3, MarcoTipos
    DEF PLPAdmitir, clientes, listas, globales, otros, hilos, planificadores
<1>4. CASE PLPEmpujar
  <2>1. TipoGlobales'
    BY <1>4 DEF PLPEmpujar, Subir, TipoGlobales, globales, otros, SemKernelNombres
  <2>2. TipoPlanificadores'
    BY <1>4 DEF PLPEmpujar, IrA, TipoPlanificadores, planificadores
  <2> QED
    BY <1>4, <2>1, <2>2, MarcoTipos
    DEF PLPEmpujar, clientes, listas, globales, otros, hilos, planificadores
<1>5. CASE PLPDormir
  <2>1. TipoBanderas'
    BY <1>5 DEF PLPDormir, TipoBanderas, globales
  <2>2. TipoGlobales'
    BY <1>5 DEF PLPDormir, TipoGlobales, globales, otros, SemKernelNombres
  <2>3. TipoPlanificadores'
    BY <1>5 DEF PLPDormir, IrA, TipoPlanificadores, planificadores
  <2> QED
    BY <1>5, <2>1, <2>2, <2>3, MarcoTipos
    DEF PLPDormir, clientes, listas, globales, otros, hilos, planificadores
<1> QED
  BY <1>1, <1>2, <1>3, <1>4, <1>5 DEF PLP

(* Types are kept by every step of the short-term planner. *)
LEMMA PCPTipos ==
  ASSUME TypeOK, NadieSacaDeVacia, HilosConProceso, PCP
  PROVE  TypeOK'
<1> USE KernelAssumption DEF TypeOK
<1>r. \A i \in DOMAIN ready : ready[i] \in Procs
  BY DEF TipoListas
<1>1. CASE PCPEspera
  <2>1. TipoGlobales'
    BY <1>1 DEF PCPEspera, Puede, Bajar, TipoGlobales, globales, otros, SemKernelNombres
  <2>2. TipoPlanificadores'
    BY <1>1 DEF PCPEspera, IrA, TipoPlanificadores, planificadores
  <2> QED
    BY <1>1, <2>1, <2>2, MarcoTipos
    DEF PCPEspera, clientes, listas, globales, otros, hilos, planificadores
<1>2. CASE PCPToken
  <2>1. TipoGlobales'
    BY <1>2 DEF PCPToken, Puede, Bajar, TipoGlobales, globales, otros, SemKernelNombres
  <2>2. TipoPlanificadores'
    BY <1>2 DEF PCPToken, IrA, TipoPlanificadores, planificadores
  <2> QED
    BY <1>2, <2>1, <2>2, MarcoTipos
    DEF PCPToken, clientes, listas, globales, otros, hilos, planificadores
<1>3. CASE SJFMirar
  <2>1. TipoGlobales'
    BY <1>3 DEF SJFMirar, TipoGlobales, globales, otros, SemKernelNombres
  <2>2. TipoPlanificadores'
    BY <1>3 DEF SJFMirar, IrA, TipoPlanificadores, planificadores
  <2> QED
    BY <1>3, <2>1, <2>2, MarcoTipos
    DEF SJFMirar, clientes, listas, globales, otros, hilos, planificadores
<1>4. CASE SJFElegir
  <2>1. TipoPCB'
    BY <1>4, <1>r DEF SJFElegir, Estado, TipoPCB
  <2>2. TipoListas'
    BY <1>4, SacarDeLista DEF SJFElegir, TipoListas
  <2>3. TipoPlanificadores'
    BY <1>4, <1>r DEF SJFElegir, TipoPlanificadores, planificadores
  <2> QED
    BY <1>4, <2>1, <2>2, <2>3, MarcoTipos
    DEF SJFElegir, clientes, listas, globales, otros, hilos, planificadores
<1>5. CASE HRRNElegir
  <2>1. TipoPCB'
    BY <1>5, <1>r DEF HRRNElegir, Estado, TipoPCB
  <2>2. TipoPlanificadores'
    BY <1>5 DEF HRRNElegir, IrA, TipoPlanificadores, planificadores
  <2> QED
    BY <1>5, <2>1, <2>2, MarcoTipos
    DEF HRRNElegir, clientes, listas, globales, otros, hilos, planificadores
<1>6. CASE \E c \in CPUs : AsignarCPU(c)
  <2>1. TipoPlanificadores'
    BY <1>6 DEF AsignarCPU, TipoPlanificadores, planificadores
  <2>2. TipoCPU'
    BY <1>6 DEF AsignarCPU, TipoPlanificadores, TipoCPU
  <2> QED
    BY <1>6, <2>1, <2>2, MarcoTipos
    DEF AsignarCPU, clientes, listas, globales, otros, hilos, planificadores
<1>7. CASE BuscarCPUSinIniciar
  <2>1. TipoBanderas'
    BY <1>7 DEF BuscarCPUSinIniciar, TipoBanderas, globales
  <2>2. TipoPlanificadores'
    BY <1>7 DEF BuscarCPUSinIniciar, TipoPlanificadores, planificadores
  <2> QED
    BY <1>7, <2>1, <2>2, MarcoTipos
    DEF BuscarCPUSinIniciar, clientes, listas, globales, otros, hilos, planificadores
<1> QED
  BY <1>1, <1>2, <1>3, <1>4, <1>5, <1>6, <1>7 DEF PCP

(* Types are kept by every step of the medium-term planner. *)
LEMMA PMPTipos ==
  ASSUME TypeOK, NadieSacaDeVacia, HilosConProceso, PMP
  PROVE  TypeOK'
<1> USE KernelAssumption DEF TypeOK
<1>1. CASE PMPEspera
  <2>1. TipoGlobales'
    BY <1>1 DEF PMPEspera, Puede, Bajar, TipoGlobales, globales, otros, SemKernelNombres
  <2>2. TipoPlanificadores'
    BY <1>1 DEF PMPEspera, TipoPlanificadores, planificadores
  <2> QED
    BY <1>1, <2>1, <2>2, MarcoTipos
    DEF PMPEspera, clientes, listas, globales, otros, hilos, planificadores
<1>2. CASE PMPMirar
  <2>1. TipoPlanificadores'
    BY <1>2 DEF PMPMirar, TipoPlanificadores, planificadores
  <2> QED
    BY <1>2, <2>1, MarcoTipos
    DEF PMPMirar, clientes, listas, globales, otros, hilos, planificadores
<1>3. CASE PMPSuspender
  <2>1. TipoListas'
    <3>1. CASE blocked = <<>>
      BY <1>3, <3>1 DEF PMPSuspender, TipoListas
    <3>2. CASE blocked # <<>>
      <4>1. Last(blocked) \in Procs /\ Front(blocked) \in Seq(Procs)
        BY <3>2, SacarUltimo DEF TipoListas
      <4>2. blocked' = Front(blocked) /\ suspendedBlocked' = Append(suspendedBlocked, Last(blocked))
        BY <1>3, <3>2 DEF PMPSuspender
      <4>3. suspendedBlocked' \in Seq(Procs)
        BY <4>1, <4>2, Agregar DEF TipoListas
      <4> QED BY <1>3, <4>1, <4>2, <4>3 DEF PMPSuspender, TipoListas
    <3> QED BY <3>1, <3>2
  <2>2. TipoBanderas'
    BY <1>3 DEF PMPSuspender, SeRompe, TipoBanderas, globales
  <2>3. TipoPlanificadores'
    BY <1>3 DEF PMPSuspender, TipoPlanificadores, planificadores
  <2> QED
    BY <1>3, <2>1, <2>2, <2>3, MarcoTipos
    DEF PMPSuspender, clientes, listas, globales, otros, hilos, planificadores
<1> QED
  BY <1>1, <1>2, <1>3 DEF PMP

(* Types are kept by every step of the IO planner. *)
LEMMA PIOTipos ==
  ASSUME TypeOK, NadieSacaDeVacia, HilosConProceso, PIO
  PROVE  TypeOK'
<1> USE KernelAssumption DEF TypeOK
<1>e. Puede("ejecutarIO") => colaIO # <<>>
  BY DEF Puede, NadieSacaDeVacia, TipoGlobales, TipoListas, SemKernelNombres
<1>b. \A S \in SUBSET DOMAIN blocked : S # {} => Min(S) \in Nat
  <2>1. blocked \in Seq(Procs)
    BY DEF TipoListas
  <2>2. DOMAIN blocked \subseteq Nat
    BY <2>1
  <2> QED
    BY <2>2, MinimoEsta
<1>1. CASE PIOEspera
  <2>1. TipoListas'
    BY <1>1, <1>e, SacarDeCola DEF PIOEspera, TipoListas
  <2>2. TipoGlobales'
    BY <1>1 DEF PIOEspera, Puede, Bajar, TipoGlobales, globales, otros, SemKernelNombres
  <2>3. TipoPlanificadores'
    BY <1>1, <1>e, SacarDeCola DEF PIOEspera, TipoListas, TipoPlanificadores, planificadores
  <2> QED
    BY <1>1, <2>1, <2>2, <2>3, MarcoTipos
    DEF PIOEspera, clientes, listas, globales, otros, hilos, planificadores
<1>2. CASE PIOBuscar
  <2>1. TipoPlanificadores'
    BY <1>2, <1>b, ZenonT(60) DEF PIOBuscar, IrA, Donde, TipoPlanificadores, planificadores
  <2> QED
    BY <1>2, <2>1, MarcoTipos
    DEF PIOBuscar, clientes, listas, globales, otros, hilos, planificadores
<1>3. CASE PIOSacar
  <2>1. TipoPCB' /\ TipoListas' /\ TipoGlobales' /\ TipoBanderas'
    BY <1>3, DespertarTipos DEF PIOSacar, globales, otros
  <2>2. TipoPlanificadores'
    BY <1>3 DEF PIOSacar, TipoPlanificadores, planificadores
  <2> QED
    BY <1>3, <2>1, <2>2, MarcoTipos
    DEF PIOSacar, clientes, listas, globales, otros, hilos, planificadores
<1> QED
  BY <1>1, <1>2, <1>3 DEF PIO

(* Types are kept by every step of the finaliser. *)
LEMMA FinalizarTipos ==
  ASSUME TypeOK, NadieSacaDeVacia, HilosConProceso, Finalizar
  PROVE  TypeOK'
<1> USE KernelAssumption DEF TypeOK
<1>e. Puede("finalizar") => exit # <<>>
  BY DEF Puede, NadieSacaDeVacia, TipoGlobales, TipoListas, SemKernelNombres
<1>1. CASE Finalizar
  <2>1. TipoListas'
    BY <1>1, <1>e, SacarDeCola DEF Finalizar, TipoListas
  <2>2. TipoGlobales'
    <3>1. sem' \in [SemKernelNombres -> Nat]
      BY <1>1 DEF Finalizar, Puede, TipoGlobales, SemKernelNombres
    <3>2. Head(exit) \in Procs
      BY <1>1, <1>e, SacarDeCola DEF Finalizar, TipoListas
    <3> QED BY <1>1, <3>1, <3>2 DEF Finalizar, TipoGlobales, globales
  <2> QED
    BY <1>1, <2>1, <2>2, MarcoTipos
    DEF Finalizar, clientes, listas, globales, otros, hilos, planificadores
<1> QED
  BY <1>1 DEF Finalizar

(* Types are kept by every step of a CPU. *)
LEMMA CPUTipos ==
  ASSUME TypeOK, NadieSacaDeVacia, HilosConProceso, NEW c \in CPUs, CPU(c)
  PROVE  TypeOK'
<1> USE KernelAssumption DEF TypeOK
<1>q. cpu[c].p \in Procs /\ pedido[cpu[c].p] # Nada => pedido[cpu[c].p] \in Peticion
  BY DEF TipoClientes
<1>p. cpu[c].pc # "libre" => cpu[c].p \in Procs
  BY DEF HilosConProceso, Entrados
<1>s. \A t \in {"INIT", "WAIT", "POST", "DESTROY"} : EnOp(c, t) => cpu[c].ped.nombre \in Sems
  BY DEF HilosConProceso, EnOp, Peticion
<1>b. \A S \in SUBSET DOMAIN blocked : S # {} => Min(S) \in Nat
  <2>1. blocked \in Seq(Procs)
    BY DEF TipoListas
  <2>2. DOMAIN blocked \subseteq Nat
    BY <2>1
  <2> QED
    BY <2>2, MinimoEsta
<1>1. CASE CPUEspera(c)
  <2>1. TipoGlobales'
    BY <1>1 DEF CPUEspera, TipoGlobales, globales, otros, SemKernelNombres
  <2>2. TipoCPU'
    BY <1>1 DEF CPUEspera, TipoCPU
  <2> QED
    BY <1>1, <2>1, <2>2, MarcoTipos
    DEF CPUEspera, clientes, listas, globales, otros, hilos, planificadores
<1>2. CASE CPUMientras(c)
  <2>1. TipoBanderas'
    BY <1>2 DEF CPUMientras, TipoBanderas, globales
  <2>2. TipoCPU'
    BY <1>2, IrCPUTipos DEF CPUMientras, PCsCPU, TipoCPU
  <2> QED
    BY <1>2, <2>1, <2>2, MarcoTipos
    DEF CPUMientras, clientes, listas, globales, otros, hilos, planificadores
<1>3. CASE CPUAvisarIO(c)
  <2>1. TipoClientes'
    BY <1>3, <1>p DEF CPUAvisarIO, Responder, TipoClientes
  <2>2. TipoPCB'
    <3>1. cpu[c].p \in Procs /\ pcb' = [pcb EXCEPT ![cpu[c].p].ioFin = FALSE]
      BY <1>3, <1>p DEF CPUAvisarIO
    <3> QED
      BY <3>1, ZenonT(60) DEF TipoPCB
  <2>3. TipoBanderas'
    BY <1>3 DEF CPUAvisarIO, TipoBanderas, globales
  <2>4. TipoCPU'
    BY <1>3, IrCPUTipos DEF CPUAvisarIO, PCsCPU, TipoCPU
  <2> QED
    BY <1>3, <2>1, <2>2, <2>3, <2>4, MarcoTipos
    DEF CPUAvisarIO, clientes, listas, globales, otros, hilos, planificadores
<1>4. CASE CPURecv(c)
  <2>1. TipoClientes'
    BY <1>4, <1>p DEF CPURecv, TipoClientes
  <2>2. TipoBanderas'
    BY <1>4 DEF CPURecv, TipoBanderas, globales
  <2>3. TipoCPU'
    <3> DEFINE r == [cpu[c] EXCEPT !.pc = "op", !.ped = pedido[cpu[c].p]]
    <3>1. cpu' = [cpu EXCEPT ![c] = r]
      BY <1>4 DEF CPURecv
    <3>2. r \in RegistroCPU
      BY <1>4, <1>p, <1>q, CambioCPUTipos DEF CPURecv, PCsCPU
    <3> QED BY <3>1, <3>2, CambioCPUTipos
  <2> QED
    BY <1>4, <2>1, <2>2, <2>3, MarcoTipos
    DEF CPURecv, clientes, listas, globales, otros, hilos, planificadores
<1>5. CASE CPURecvCerrado(c)
  <2>1. TipoBanderas'
    BY <1>5 DEF CPURecvCerrado, SeRompe, TipoBanderas, globales
  <2> QED
    BY <1>5, <2>1, MarcoTipos
    DEF CPURecvCerrado, clientes, listas, globales, otros, hilos, planificadores
<1>6. CASE CPUSalir(c)
  <2>1. TipoBanderas'
    BY <1>6 DEF CPUSalir, TipoBanderas, globales
  <2>2. TipoGlobales'
    BY <1>6 DEF CPUSalir, TipoGlobales, globales, otros, SemKernelNombres
  <2>3. TipoCPU'
    BY <1>6, IrCPUTipos DEF CPUSalir, PCsCPU, TipoCPU
  <2> QED
    BY <1>6, <2>1, <2>2, <2>3, MarcoTipos
    DEF CPUSalir, clientes, listas, globales, otros, hilos, planificadores
<1>7. CASE CPUSoltar(c)
  <2>1. TipoGlobales'
    BY <1>7 DEF CPUSoltar, TipoGlobales, globales, otros, SemKernelNombres
  <2>2. TipoCPU'
    <3> DEFINE r == [cpu[c] EXCEPT !.pc = "libre", !.estado = "FREE"]
    <3>1. cpu' = [cpu EXCEPT ![c] = r]
      BY <1>7 DEF CPUSoltar
    <3>2. r \in RegistroCPU
      BY CambioCPUTipos DEF PCsCPU
    <3> QED BY <3>1, <3>2, CambioCPUTipos
  <2> QED
    BY <1>7, <2>1, <2>2, MarcoTipos
    DEF CPUSoltar, clientes, listas, globales, otros, hilos, planificadores
<1>8. CASE OpMemoria(c)
  <2>1. TipoClientes'
    BY <1>8, <1>p DEF OpMemoria, EnOp, Responder, TipoClientes
  <2>2. TipoCPU'
    BY <1>8, IrCPUTipos DEF OpMemoria, PCsCPU, TipoCPU
  <2> QED
    BY <1>8, <2>1, <2>2, MarcoTipos
    DEF OpMemoria, clientes, listas, globales, otros, hilos, planificadores
<1>9. CASE OpIO(c)
  <2>1. TipoPCB'
    BY <1>9, <1>p DEF OpIO, EnOp, Estado, TipoPCB
  <2>2. TipoListas'
    BY <1>9, <1>p DEF OpIO, EnOp, TipoPCB, TipoListas
  <2>3. TipoGlobales'
    BY <1>9 DEF OpIO, Subir, TipoGlobales, globales, otros, SemKernelNombres
  <2>4. TipoCPU'
    BY <1>9, IrCPUTipos DEF OpIO, PCsCPU, TipoCPU
  <2> QED
    BY <1>9, <2>1, <2>2, <2>3, <2>4, MarcoTipos
    DEF OpIO, clientes, listas, globales, otros, hilos, planificadores
<1>10. CASE IOBloquear(c)
  <2>1. TipoListas'
    BY <1>10, <1>p DEF IOBloquear, TipoListas
  <2>2. TipoCPU'
    BY <1>10, IrCPUTipos DEF IOBloquear, PCsCPU, TipoCPU
  <2> QED
    BY <1>10, <2>1, <2>2, MarcoTipos, SMTT(20)
    DEF IOBloquear, clientes, listas, globales, otros, hilos, planificadores
<1>11. CASE IOMarcar(c)
  <2>1. TipoPCB'
    <3>1. cpu[c].p \in Procs /\ pcb' = [pcb EXCEPT ![cpu[c].p].ioFin = TRUE]
      BY <1>11, <1>p DEF IOMarcar
    <3> QED
      BY <3>1, ZenonT(60) DEF TipoPCB
  <2>2. TipoCPU'
    BY <1>11, IrCPUTipos DEF IOMarcar, PCsCPU, TipoCPU
  <2> QED
    BY <1>11, <2>1, <2>2, MarcoTipos
    DEF IOMarcar, clientes, listas, globales, otros, hilos, planificadores
<1>12. CASE OpFinalizacion(c)
  <2>1. TipoClientes'
    BY <1>12, <1>p DEF OpFinalizacion, EnOp, Responder, TipoClientes
  <2>2. TipoPCB'
    BY <1>12, <1>p DEF OpFinalizacion, EnOp, Estado, TipoPCB
  <2>3. TipoListas'
    BY <1>12, <1>p DEF OpFinalizacion, EnOp, TipoListas
  <2>4. TipoGlobales'
    BY <1>12 DEF OpFinalizacion, Subir, TipoGlobales, globales, otros, SemKernelNombres
  <2>5. TipoCPU'
    BY <1>12, IrCPUTipos DEF OpFinalizacion, PCsCPU, TipoCPU
  <2> QED
    BY <1>12, <2>1, <2>2, <2>3, <2>4, <2>5, MarcoTipos
    DEF OpFinalizacion, clientes, listas, globales, otros, hilos, planificadores
<1>13. CASE OpInit(c)
  <2>1. TipoClientes'
    BY <1>13, <1>p DEF OpInit, EnOp, Responder, TipoClientes
  <2>2. TipoPCB'
    BY <1>13, <1>p, <1>s DEF OpInit, EnOp, Requerir, TipoPCB
  <2>3. TipoGlobales'
    BY <1>13, <1>s DEF OpInit, EnOp, ValorDe, TipoGlobales, globales, otros, SemKernelNombres
  <2>4. TipoCPU'
    BY <1>13, IrCPUTipos DEF OpInit, PCsCPU, TipoCPU
  <2> QED
    BY <1>13, <2>1, <2>2, <2>3, <2>4, MarcoTipos
    DEF OpInit, clientes, listas, globales, otros, hilos, planificadores
<1>14. CASE OpWait(c)
  <2>1. TipoPCB'
    BY <1>14, <1>p, <1>s DEF OpWait, EnOp, Requerir, TipoPCB
  <2>2. TipoCPU'
    BY <1>14, IrCPUTipos DEF OpWait, PCsCPU, TipoCPU
  <2> QED
    BY <1>14, <2>1, <2>2, MarcoTipos
    DEF OpWait, clientes, listas, globales, otros, hilos, planificadores
<1>15. CASE WaitRestar(c)
  <2>1. TipoBanderas'
    BY <1>15 DEF WaitRestar, SeRompe, TipoBanderas, globales
  <2>2. TipoGlobales'
    BY <1>15 DEF WaitRestar, ValorDe, TipoGlobales, globales, otros, SemKernelNombres
  <2>3. TipoCPU'
    BY <1>15, IrCPUTipos DEF WaitRestar, PCsCPU, TipoCPU
  <2> QED
    BY <1>15, <2>1, <2>2, <2>3, MarcoTipos
    DEF WaitRestar, clientes, listas, globales, otros, hilos, planificadores
<1>16. CASE WaitBloquear(c)
  <2>1. TipoPCB'
    BY <1>16, <1>p DEF WaitBloquear, Estado, TipoPCB
  <2>2. TipoListas'
    BY <1>16, <1>p DEF WaitBloquear, TipoListas
  <2>3. TipoCPU'
    BY <1>16, IrCPUTipos DEF WaitBloquear, PCsCPU, TipoCPU
  <2> QED
    BY <1>16, <2>1, <2>2, <2>3, MarcoTipos
    DEF WaitBloquear, clientes, listas, globales, otros, hilos, planificadores
<1>17. CASE SemResponder(c)
  <2>1. TipoClientes'
    BY <1>17, <1>p DEF SemResponder, Responder, TipoClientes
  <2>2. TipoCPU'
    BY <1>17, IrCPUTipos DEF SemResponder, PCsCPU, TipoCPU
  <2> QED
    BY <1>17, <2>1, <2>2, MarcoTipos
    DEF SemResponder, clientes, listas, globales, otros, hilos, planificadores
<1>18. CASE OpPost(c)
  <2>1. TipoPCB'
    BY <1>18, <1>p, <1>s DEF OpPost, EnOp, Requerir, TipoPCB
  <2>2. TipoGlobales'
    BY <1>18, <1>s DEF OpPost, EnOp, ValorDe, TipoGlobales, globales, otros, SemKernelNombres
  <2>3. TipoCPU'
    BY <1>18, IrCPUTipos DEF OpPost, PCsCPU, TipoCPU
  <2> QED
    BY <1>18, <2>1, <2>2, <2>3, MarcoTipos
    DEF OpPost, clientes, listas, globales, otros, hilos, planificadores
<1>19. CASE PostBuscar(c)
  <2>1. TipoBanderas'
    BY <1>19 DEF PostBuscar, TipoBanderas, globales
  <2>2. TipoCPU'
    <3>1. CASE \E x \in {"colgada", "responder"} : IrCPU(c, x)
      BY <3>1, IrCPUTipos DEF PCsCPU
    <3>2. CASE \E n \in Nat : cpu' = [cpu EXCEPT ![c].pc = "sacar", ![c].i = n]
      <4>1. PICK n \in Nat : cpu' = [cpu EXCEPT ![c] = [cpu[c] EXCEPT !.pc = "sacar", !.i = n]]
        BY <3>2
      <4> QED BY <4>1, CambioCPUTipos DEF PCsCPU
    <3> QED BY <1>19, <1>b, <3>1, <3>2 DEF PostBuscar, Donde
  <2> QED
    BY <1>19, <2>1, <2>2, MarcoTipos
    DEF PostBuscar, clientes, listas, globales, otros, hilos, planificadores
<1>20. CASE PostSacar(c)
  <2>1. TipoPCB' /\ TipoListas' /\ TipoGlobales' /\ TipoBanderas'
    BY <1>20, DespertarTipos DEF PostSacar, globales, otros
  <2>2. TipoCPU'
    BY <1>20, IrCPUTipos DEF PostSacar, PCsCPU, TipoCPU
  <2> QED
    BY <1>20, <2>1, <2>2, MarcoTipos
    DEF PostSacar, clientes, listas, globales, otros, hilos, planificadores
<1>21. CASE OpDestroy(c)
  <2>1. TipoClientes'
    BY <1>21, <1>p DEF OpDestroy, EnOp, Responder, TipoClientes
  <2>2. TipoPCB'
    BY <1>21, <1>p, <1>s DEF OpDestroy, EnOp, Requerir, TipoPCB
  <2>3. TipoBanderas'
    BY <1>21 DEF OpDestroy, TipoBanderas, globales
  <2>4. TipoGlobales'
    BY <1>21, <1>s DEF OpDestroy, EnOp, TipoGlobales, globales, otros, SemKernelNombres
  <2>5. TipoCPU'
    BY <1>21, IrCPUTipos DEF OpDestroy, PCsCPU, TipoCPU
  <2> QED
    BY <1>21, <2>1, <2>2, <2>3, <2>4, <2>5, MarcoTipos
    DEF OpDestroy, clientes, listas, globales, otros, hilos, planificadores
<1> QED
  BY <1>1, <1>2, <1>3, <1>4, <1>5, <1>6, <1>7, <1>8, <1>9, <1>10, <1>11, <1>12, <1>13, <1>14, <1>15, <1>16, <1>17, <1>18, <1>19, <1>20, <1>21 DEF CPU

-----------------------------------------------------------------------------
(* The inductive invariant.  The types are kept by the lemmas above; here  *)
(* are the other conjuncts of IInv.                                        *)

(* IInv without the types.                                                 *)
Resto == /\ NadieSacaDeVacia /\ HilosConProceso /\ CPUOcupada
         /\ ListasDeEntrados /\ NuevosDistintos /\ UnSoloFin /\ CupoConservado

(* A conjunct whose variables a step leaves alone survives it; those about *)
(* who has entered survive when more processes enter.                      *)
LEMMA Marco ==
  ASSUME IInv
  PROVE
  /\ UNCHANGED <<sem, new, ready, colaIO, exit, plp, pcp>> => NadieSacaDeVacia'
  /\ UNCHANGED <<fase, llegando, new>> => Entrados' = Entrados
  /\ Entrados \subseteq Entrados' /\ UNCHANGED <<plp, pcp, cpu>> => HilosConProceso'
  /\ UNCHANGED cpu => CPUOcupada'
  /\ Entrados \subseteq Entrados'
       /\ UNCHANGED <<ready, blocked, suspendedBlocked, exit, fase, liberados>>
     => ListasDeEntrados'
  /\ UNCHANGED <<new, fase, llegando>> => NuevosDistintos'
  /\ Entrados \subseteq Entrados' /\ UNCHANGED <<pedido, fase, cpu, exit, liberados>>
     => UnSoloFin'
  /\ Entrados' = Entrados /\ UNCHANGED liberados
       /\ sem'["puedeEntrar"] = sem["puedeEntrar"]
     => CupoConservado'
<1>1. UNCHANGED <<sem, new, ready, colaIO, exit, plp, pcp>> => NadieSacaDeVacia'
  BY DEF IInv, NadieSacaDeVacia, Valor
<1>2. UNCHANGED <<fase, llegando, new>> => Entrados' = Entrados
  BY DEF Entrados
<1>3. Entrados \subseteq Entrados' /\ UNCHANGED <<plp, pcp, cpu>> => HilosConProceso'
  BY DEF IInv, HilosConProceso
<1>4. Entrados \subseteq Entrados'
        /\ UNCHANGED <<ready, blocked, suspendedBlocked, exit, fase, liberados>>
      => ListasDeEntrados'
  BY DEF IInv, ListasDeEntrados, Adentro
<1>5. UNCHANGED <<new, fase, llegando>> => NuevosDistintos'
  BY DEF IInv, NuevosDistintos
<1>6. Entrados \subseteq Entrados' /\ UNCHANGED <<pedido, fase, cpu, exit, liberados>>
      => UnSoloFin'
  BY DEF IInv, UnSoloFin, PideFin
<1>7. Entrados' = Entrados /\ UNCHANGED liberados
        /\ sem'["puedeEntrar"] = sem["puedeEntrar"]
      => CupoConservado'
  BY DEF IInv, CupoConservado, Adentro
<1>8. UNCHANGED cpu => CPUOcupada'
  BY DEF IInv, CPUOcupada
<1> QED BY <1>1, <1>2, <1>3, <1>4, <1>5, <1>6, <1>7, <1>8

(* Every conjunct but the types is kept by the carpinchos: they only write *)
(* requests, at most one FINALIZACION each.                                *)
LEMMA CarpinchoInv ==
  ASSUME IInv, NEW p \in Procs, Carpincho(p)
  PROVE  Resto'
<1> USE KernelAssumption DEF IInv
<1>1. CASE Conectar(p)
  <2>1. UNCHANGED <<pedido, new, listas, sem, liberados, llegando, plp, pcp, cpu>>
    BY <1>1 DEF Conectar, hilos, planificadores, otros, listas
  <2>2. /\ fase[p] = "afuera" /\ fase'[p] = "conectado"
        /\ \A q \in Procs \ {p} : fase'[q] = fase[q]
    BY <1>1 DEF Conectar, TypeOK, TipoClientes
  <2>3. Entrados' = Entrados
    BY <2>1, <2>2 DEF Entrados
  <2>4. ListasDeEntrados'
    BY <2>1, <2>2, <2>3 DEF ListasDeEntrados, Adentro, Entrados, listas
  <2>5. NuevosDistintos'
    <3>1. (\A i \in DOMAIN new : new[i] \in Procs) /\ llegando \in Procs \cup {Nada}
      BY DEF TypeOK, TipoListas, TipoPlanificadores
    <3> QED BY <2>1, <2>2, <3>1 DEF NuevosDistintos
  <2>6. UnSoloFin'
    BY <2>1, <2>2, <2>3 DEF UnSoloFin, PideFin, HilosConProceso, Entrados, TypeOK,
       TipoGlobales, listas
  <2> QED BY <2>1, <2>3, <2>4, <2>5, <2>6, Marco DEF Resto, listas
<1>2. CASE Cerrar(p)
  <2>1. UNCHANGED <<new, listas, sem, liberados, llegando, plp, pcp, cpu>>
    BY <1>2 DEF Cerrar, hilos, planificadores, otros, listas
  <2>2. /\ fase[p] = "aceptado" /\ fase'[p] = "cerrando"
        /\ \A q \in Procs \ {p} : fase'[q] = fase[q] /\ pedido'[q] = pedido[q]
    BY <1>2 DEF Cerrar, Enviar, TypeOK, TipoClientes
  <2>3. Entrados' = Entrados
    BY <2>1, <2>2 DEF Entrados
  <2>4. ListasDeEntrados'
    BY <2>1, <2>2, <2>3 DEF ListasDeEntrados, Adentro, Entrados, listas
  <2>5. NuevosDistintos'
    <3>1. (\A i \in DOMAIN new : new[i] \in Procs) /\ llegando \in Procs \cup {Nada}
      BY DEF TypeOK, TipoListas, TipoPlanificadores
    <3> QED BY <2>1, <2>2, <3>1 DEF NuevosDistintos
  <2>6. UnSoloFin'
    BY <2>1, <2>2, <2>3 DEF UnSoloFin, PideFin, HilosConProceso, Entrados, TypeOK,
       TipoGlobales, listas
  <2> QED BY <2>1, <2>3, <2>4, <2>5, <2>6, Marco DEF Resto, listas
<1>3. CASE \E o \in Peticion : Pedir(p, o)
  <2>1. UNCHANGED <<fase, new, listas, sem, liberados, llegando, plp, pcp, cpu>>
    BY <1>3 DEF Pedir, hilos, planificadores, otros, listas
  <2>2. PICK o \in Peticion : Pedir(p, o)
    BY <1>3
  <2>3. o.tipo # "FINALIZACION" /\ o # FIN
    BY <2>2 DEF Pedir, FIN
  <2>4. pedido'[p] # FIN /\ \A q \in Procs \ {p} : pedido'[q] = pedido[q]
    BY <2>2, <2>3 DEF Pedir, Enviar, TypeOK, TipoClientes
  <2>5. Entrados' = Entrados
    BY <2>1, Marco
  <2>6. UnSoloFin'
    BY <2>1, <2>4, <2>5 DEF UnSoloFin, PideFin, HilosConProceso, Entrados, TypeOK,
       TipoGlobales, listas
  <2> QED BY <2>1, <2>5, <2>6, Marco DEF Resto, listas
<1> QED BY <1>1, <1>2, <1>3 DEF Carpincho

(* ... by the accept loop: a carpincho is in NEW, or in the hands of main, *)
(* until the long-term planner takes it.                                   *)
LEMMA LlegadaInv ==
  ASSUME IInv, Llegada
  PROVE  Resto'
<1> USE KernelAssumption DEF IInv
<1>1. CASE EncolarNuevo
  <2>1. UNCHANGED <<fase, pedido, ready, blocked, suspendedBlocked, exit, colaIO,
                    liberados, plp, pcp, cpu>>
    BY <1>1 DEF EncolarNuevo, clientes, otros, planificadores
  <2>2. /\ llegando \in Procs /\ llegando' = Nada
        /\ new' = Append(new, llegando) /\ new \in Seq(Procs)
    BY <1>1 DEF EncolarNuevo, TypeOK, TipoPlanificadores, TipoListas
  <2>3. /\ DOMAIN new = 1..Len(new) /\ DOMAIN new' = 1..(Len(new) + 1)
        /\ \A i \in 1..Len(new) : new'[i] = new[i]
        /\ new'[Len(new) + 1] = llegando /\ Len(new) \in Nat
    BY <2>2, Agregar
  <2>4. sem' = [sem EXCEPT !["procesoNuevo"] = @ + 1]
    BY <1>1 DEF EncolarNuevo, Subir
  <2>5. NadieSacaDeVacia'
    BY <2>1, <2>2, <2>4 DEF NadieSacaDeVacia, Valor, TypeOK, TipoGlobales, SemKernelNombres
  <2>6. Entrados' = Entrados
    <3>1. \A q \in Procs : (\A i \in DOMAIN new' : new'[i] # q)
                            <=> (q # llegando /\ \A i \in DOMAIN new : new[i] # q)
      BY <2>3
    <3> QED BY <2>1, <2>2, <3>1 DEF Entrados
  <2>7. NuevosDistintos'
    <3>1. \A i \in DOMAIN new' : /\ new'[i] \in Procs
                                 /\ fase[new'[i]] \in {"aceptado", "cerrando", "cerrado"}
      BY <2>2, <2>3 DEF NuevosDistintos
    <3>2. \A i, j \in DOMAIN new' : new'[i] = new'[j] => i = j
      BY <2>2, <2>3 DEF NuevosDistintos
    <3> QED BY <2>1, <2>2, <3>1, <3>2 DEF NuevosDistintos
  <2>8. CupoConservado'
    BY <2>1, <2>4, <2>6, Marco DEF TypeOK, TipoGlobales, SemKernelNombres
  <2> QED BY <2>1, <2>5, <2>6, <2>7, <2>8, Marco DEF Resto
<1>2. CASE \E p \in Procs : Aceptar(p)
  <2>0. PICK p \in Procs : Aceptar(p)
    BY <1>2
  <2>1. UNCHANGED <<pedido, new, listas, sem, liberados, plp, pcp, cpu>>
    BY <2>0 DEF Aceptar, clientes, otros, planificadores, listas
  <2>2. /\ fase[p] = "conectado" /\ fase'[p] = "aceptado"
        /\ \A q \in Procs \ {p} : fase'[q] = fase[q]
        /\ llegando = Nada /\ llegando' = p
    BY <2>0 DEF Aceptar, TypeOK, TipoClientes
  <2>3. Entrados' = Entrados
    BY <2>1, <2>2 DEF Entrados
  <2>4. ListasDeEntrados'
    BY <2>1, <2>2, <2>3 DEF ListasDeEntrados, Adentro, Entrados, listas
  <2>5. NuevosDistintos'
    BY <2>1, <2>2 DEF NuevosDistintos, TypeOK, TipoListas
  <2>6. UnSoloFin'
    BY <2>1, <2>2, <2>3 DEF UnSoloFin, PideFin, HilosConProceso, Entrados, TypeOK,
       TipoGlobales, listas
  <2> QED BY <2>1, <2>3, <2>4, <2>5, <2>6, Marco DEF Resto, listas
<1> QED BY <1>1, <1>2 DEF Llegada

(* ... by the long-term planner: the slot it takes from puedeEntrar is the *)
(* one the process it takes from NEW comes to occupy.                      *)
LEMMA PLPInv ==
  ASSUME IInv, PLP
  PROVE  Resto'
<1> USE KernelAssumption DEF IInv
<1>s. sem \in [SemKernelNombres -> Nat]
  BY DEF TypeOK, TipoGlobales
<1>1. CASE PLPEspera
  <2>1. UNCHANGED <<fase, pedido, listas, liberados, llegando, pcp, cpu>>
    BY <1>1 DEF PLPEspera, clientes, otros, listas
  <2>2. /\ plp.pc = "espera" /\ sem["procesoNuevo"] > 0
        /\ sem' = [sem EXCEPT !["procesoNuevo"] = @ - 1]
        /\ plp'.pc = IF new # <<>> THEN "cupo" ELSE "espera"
        /\ plp'.p = plp.p
    BY <1>1 DEF PLPEspera, Puede, Bajar, IrA, TypeOK, TipoPlanificadores
  <2>3. NadieSacaDeVacia'
    BY <1>s, <2>1, <2>2 DEF NadieSacaDeVacia, Valor, SemKernelNombres, listas,
       TypeOK, TipoListas
  <2>4. Entrados' = Entrados
    BY <2>1, Marco DEF listas
  <2>5. HilosConProceso'
    BY <2>1, <2>2, <2>4 DEF HilosConProceso
  <2>6. CupoConservado'
    BY <1>s, <2>1, <2>2, <2>4, Marco DEF SemKernelNombres
  <2> QED BY <2>1, <2>3, <2>4, <2>5, <2>6, Marco DEF Resto, listas
<1>2. CASE PLPCupo
  <2>1. UNCHANGED <<fase, pedido, ready, blocked, suspendedBlocked, exit, colaIO,
                    liberados, llegando, pcp, cpu>>
    BY <1>2 DEF PLPCupo, clientes, otros
  <2> DEFINE h == Head(new)
  <2>2. /\ plp.pc = "cupo" /\ sem["puedeEntrar"] > 0
        /\ sem' = [sem EXCEPT !["puedeEntrar"] = @ - 1]
        /\ plp' = [pc |-> "admitir", p |-> h] /\ new' = Tail(new)
    BY <1>2 DEF PLPCupo, Puede, Bajar
  <2>3. new \in Seq(Procs) /\ new # <<>>
    BY <1>s, <2>2 DEF NadieSacaDeVacia, Valor, TypeOK, TipoListas, SemKernelNombres
  <2>4. /\ h = new[1] /\ 1 \in DOMAIN new /\ h \in Procs
        /\ new' \in Seq(Procs) /\ Len(new') = Len(new) - 1
        /\ \A j \in DOMAIN new' : j + 1 \in DOMAIN new /\ new'[j] = new[j + 1]
    BY <2>2, <2>3, SacarDeCola
  <2>5. NadieSacaDeVacia'
    <3>1. \A s \in {"procesoNuevo", "enReady", "ejecutarIO", "finalizar"} : sem'[s] = sem[s]
      BY <1>s, <2>2 DEF SemKernelNombres
    <3>2. plp'.pc # "cupo" /\ Len(new) \in Nat
      BY <2>2, <2>3
    <3>3. sem["procesoNuevo"] + 1 = Len(new)
      BY <2>2 DEF NadieSacaDeVacia, Valor
    <3>4. sem'["procesoNuevo"] + Valor((plp.pc = "cupo")') = Len(new')
      <4>1. Valor((plp.pc = "cupo")') = 0
        BY <3>2 DEF Valor
      <4>2. sem["procesoNuevo"] \in Nat
        BY <1>s DEF SemKernelNombres
      <4> QED
        BY <2>4, <3>1, <3>2, <3>3, <4>1, <4>2
    <3> QED
      BY <2>1, <3>1, <3>4 DEF NadieSacaDeVacia
  <2>6. \A j \in DOMAIN new' : new'[j] # h
    <3>1. \A j \in DOMAIN new' : j + 1 # 1
      BY <2>4
    <3> QED BY <2>4, <3>1 DEF NuevosDistintos
  <2>7. \A q \in Procs \ {h} : (\A i \in DOMAIN new : new[i] # q)
                                 <=> (\A i \in DOMAIN new' : new'[i] # q)
    <3>1. \A i \in DOMAIN new \ {1} : i - 1 \in DOMAIN new' /\ new'[i - 1] = new[i]
      BY <2>3, <2>4, SMTT(60)
    <3> QED BY <2>4, <3>1
  <2>8. h \notin Entrados /\ Entrados' = Entrados \cup {h}
    BY <2>1, <2>4, <2>6, <2>7 DEF Entrados, NuevosDistintos
  <2>9. HilosConProceso'
    BY <2>1, <2>2, <2>8 DEF HilosConProceso
  <2>10. NuevosDistintos'
    <3>1. \A i, j \in DOMAIN new' : new'[i] = new'[j] => i = j
      <4>1. \A i, j \in DOMAIN new' : new'[i] = new'[j] => i + 1 = j + 1
        BY <2>4 DEF NuevosDistintos
      <4>2. \A i \in DOMAIN new' : i \in Nat
        BY <2>4
      <4> QED BY <4>1, <4>2
    <3> QED BY <2>1, <2>4, <3>1 DEF NuevosDistintos
  <2>11. CupoConservado'
    <3>1. h \notin Adentro /\ Adentro' = Adentro \cup {h}
      BY <2>1, <2>8 DEF Adentro, UnSoloFin
    <3>2. IsFiniteSet(Adentro)
      BY FS_Subset DEF Adentro, Entrados
    <3>3. Cardinality(Adentro') = Cardinality(Adentro) + 1 /\ Cardinality(Adentro) \in Nat
      BY <3>1, <3>2, FS_AddElement, FS_CardinalityType
    <3> QED BY <1>s, <2>2, <3>3 DEF CupoConservado, SemKernelNombres
  <2> QED BY <2>1, <2>5, <2>8, <2>9, <2>10, <2>11, Marco DEF Resto
<1>3. CASE PLPAdmitir
  <2>1. UNCHANGED <<fase, pedido, new, blocked, suspendedBlocked, exit, colaIO,
                    liberados, llegando, pcp, cpu>>
    BY <1>3 DEF PLPAdmitir, clientes, otros
  <2>2. /\ plp.pc = "admitir" /\ plp.p \in Procs /\ plp.p \in Entrados
        /\ ready' = Append(ready, plp.p) /\ ready \in Seq(Procs)
        /\ sem' = [sem EXCEPT !["enReady"] = @ + 1]
        /\ plp' = [pc |-> "empujar", p |-> Nada]
    BY <1>3 DEF PLPAdmitir, Subir, HilosConProceso, Entrados, TypeOK, TipoListas
  <2>3. NadieSacaDeVacia'
    BY <1>s, <2>1, <2>2, Agregar DEF NadieSacaDeVacia, Valor, SemKernelNombres
  <2>4. Entrados' = Entrados
    BY <2>1, Marco
  <2>5. HilosConProceso'
    BY <2>1, <2>2, <2>4 DEF HilosConProceso
  <2>6. ListasDeEntrados'
    <3>1. \A i \in DOMAIN ready' : ready'[i] \in Entrados
      BY <2>2, Agregar DEF ListasDeEntrados
    <3> QED BY <2>1, <2>4, <3>1 DEF ListasDeEntrados, Adentro
  <2>7. CupoConservado'
    BY <1>s, <2>1, <2>2, <2>4, Marco DEF SemKernelNombres
  <2> QED BY <2>1, <2>3, <2>4, <2>5, <2>6, <2>7, Marco DEF Resto
<1>4. CASE PLPEmpujar \/ PLPDormir
  <2>1. UNCHANGED <<fase, pedido, listas, liberados, llegando, pcp, cpu>>
    BY <1>4 DEF PLPEmpujar, PLPDormir, clientes, otros, listas
  <2>2. /\ plp.pc \in {"empujar", "dormir"} /\ plp'.pc \in {"espera", "dormir"}
        /\ plp'.p = plp.p
    BY <1>4 DEF PLPEmpujar, PLPDormir, IrA, TypeOK, TipoPlanificadores
  <2>3. \A x \in SemKernelNombres \ {"planificar"} : sem'[x] = sem[x]
    BY <1>4, <1>s DEF PLPEmpujar, PLPDormir, Subir, SemKernelNombres
  <2>4. NadieSacaDeVacia'
    BY <1>s, <2>1, <2>2, <2>3 DEF NadieSacaDeVacia, Valor, SemKernelNombres, listas
  <2>5. Entrados' = Entrados
    BY <2>1, Marco DEF listas
  <2>6. HilosConProceso'
    BY <2>1, <2>2, <2>5 DEF HilosConProceso
  <2>7. CupoConservado'
    BY <2>1, <2>3, <2>5, Marco DEF SemKernelNombres
  <2> QED BY <2>1, <2>4, <2>5, <2>6, <2>7, Marco DEF Resto, listas
<1> QED BY <1>1, <1>2, <1>3, <1>4 DEF PLP

(* ... by the short-term planner, which holds an enReady token from the    *)
(* wait to the removal: READY still has its element then.                  *)
LEMMA PCPInv ==
  ASSUME IInv, PCP
  PROVE  Resto'
<1> USE KernelAssumption DEF IInv
<1>s. sem \in [SemKernelNombres -> Nat]
  BY DEF TypeOK, TipoGlobales
<1>1. CASE PCPEspera \/ PCPToken \/ SJFMirar \/ HRRNElegir \/ BuscarCPUSinIniciar
  <2>1. UNCHANGED <<fase, pedido, listas, liberados, llegando, plp, cpu>>
    BY <1>1 DEF PCPEspera, PCPToken, SJFMirar, HRRNElegir, BuscarCPUSinIniciar,
       clientes, otros, listas
  <2>2. /\ pcp'.pc # "asignar"
        /\ sem'["enReady"] + Valor(pcp'.pc \in {"token", "mirar", "elegir"})
             <= sem["enReady"] + Valor(pcp.pc \in {"token", "mirar", "elegir"})
        /\ \A x \in SemKernelNombres \ {"enReady", "planificar"} : sem'[x] = sem[x]
        /\ sem'["enReady"] \in Nat
    BY <1>1, <1>s DEF PCPEspera, PCPToken, SJFMirar, HRRNElegir, BuscarCPUSinIniciar,
       Puede, Bajar, IrA, Valor, SemKernelNombres, TypeOK, TipoPlanificadores
  <2>3. NadieSacaDeVacia'
    BY <1>s, <2>1, <2>2, SMTT(30)
    DEF NadieSacaDeVacia, Valor, SemKernelNombres, listas, TypeOK, TipoListas
  <2>4. Entrados' = Entrados
    BY <2>1, Marco DEF listas
  <2>5. HilosConProceso'
    BY <2>1, <2>2, <2>4 DEF HilosConProceso
  <2>6. CupoConservado'
    BY <2>1, <2>2, <2>4, Marco DEF SemKernelNombres
  <2> QED BY <2>1, <2>3, <2>4, <2>5, <2>6, Marco DEF Resto, listas
<1>2. CASE SJFElegir
  <2>1. UNCHANGED <<fase, pedido, new, blocked, suspendedBlocked, exit, colaIO, sem,
                    liberados, llegando, plp, cpu>>
    BY <1>2 DEF SJFElegir, clientes, otros
  <2>2. PICK i \in DOMAIN ready : /\ ready' = RemoveAt(ready, i)
                                  /\ pcp' = [alg |-> pcp.alg, pc |-> "asignar", p |-> ready[i]]
    BY <1>2 DEF SJFElegir
  <2>3. pcp.pc = "elegir" /\ ready \in Seq(Procs)
    BY <1>2 DEF SJFElegir, TypeOK, TipoListas
  <2>4. /\ ready' \in Seq(Procs) /\ Len(ready') = Len(ready) - 1
        /\ \A j \in DOMAIN ready' : \E k \in DOMAIN ready : ready'[j] = ready[k]
    BY <2>2, <2>3, SacarDeLista
  <2>5. NadieSacaDeVacia'
    BY <1>s, <2>1, <2>2, <2>3, <2>4 DEF NadieSacaDeVacia, Valor, SemKernelNombres
  <2>6. Entrados' = Entrados
    BY <2>1, Marco
  <2>7. HilosConProceso'
    BY <2>1, <2>2, <2>6 DEF HilosConProceso, ListasDeEntrados
  <2>8. ListasDeEntrados'
    BY <2>1, <2>4, <2>6 DEF ListasDeEntrados, Adentro
  <2> QED BY <2>1, <2>5, <2>6, <2>7, <2>8, Marco DEF Resto
<1>3. CASE \E c \in CPUs : AsignarCPU(c)
  <2>0. PICK c \in CPUs : AsignarCPU(c)
    BY <1>3
  <2>1. UNCHANGED <<fase, pedido, listas, sem, liberados, llegando, plp>>
    BY <2>0 DEF AsignarCPU, clientes, otros, listas
  <2>2. /\ pcp.pc = "asignar" /\ pcp' = [alg |-> pcp.alg, pc |-> "espera", p |-> Nada]
        /\ \A d \in CPUs : /\ cpu'[d].pc = cpu[d].pc /\ cpu'[d].ped = cpu[d].ped
                           /\ d # c => cpu'[d] = cpu[d]
        /\ cpu'[c].p = pcp.p
        /\ cpu[c].estado = "FREE" /\ cpu'[c].estado = "BUSY"
        /\ cpu'[c].semCPU = cpu[c].semCPU + 1 /\ cpu[c].semCPU \in Nat
    BY <2>0 DEF AsignarCPU, TypeOK, TipoCPU
  <2>3. cpu[c].pc = "libre" /\ CPUOcupada'
    BY <2>2 DEF CPUOcupada, Valor
  <2>4. NadieSacaDeVacia'
    BY <1>s, <2>1, <2>2 DEF NadieSacaDeVacia, Valor, SemKernelNombres, listas
  <2>5. Entrados' = Entrados
    BY <2>1, Marco DEF listas
  <2>6. HilosConProceso'
    BY <2>1, <2>2, <2>5 DEF HilosConProceso
  <2>7. UnSoloFin'
    <3>1. \A d \in CPUs : PideFin(d)' => PideFin(d) /\ d # c /\ cpu'[d] = cpu[d]
      BY <2>2, <2>3 DEF PideFin
    <3> QED BY <2>1, <2>5, <3>1 DEF UnSoloFin, listas
  <2> QED BY <2>1, <2>3, <2>4, <2>5, <2>6, <2>7, Marco DEF Resto, listas
<1> QED BY <1>1, <1>2, <1>3 DEF PCP

(* ... by the medium-term planner: suspending moves a process from one     *)
(* list to another and gives no slot back.                                 *)
LEMMA PMPInv ==
  ASSUME IInv, PMP
  PROVE  Resto'
<1> USE KernelAssumption DEF IInv
<1>s. sem \in [SemKernelNombres -> Nat]
  BY DEF TypeOK, TipoGlobales
<1>1. UNCHANGED <<fase, pedido, new, ready, exit, colaIO, liberados, llegando, plp, pcp, cpu>>
  BY DEF PMP, PMPEspera, PMPMirar, PMPSuspender, clientes, otros, listas
<1>2. \A x \in SemKernelNombres \ {"planifMedianoPlazo"} : sem'[x] = sem[x]
  BY <1>s DEF PMP, PMPEspera, PMPMirar, PMPSuspender, Bajar, SemKernelNombres
<1>3. NadieSacaDeVacia'
  BY <1>1, <1>2 DEF NadieSacaDeVacia, Valor, SemKernelNombres
<1>4. Entrados' = Entrados
  BY <1>1, Marco
<1>5. /\ \A i \in DOMAIN blocked' : blocked'[i] \in Entrados
      /\ \A i \in DOMAIN suspendedBlocked' : suspendedBlocked'[i] \in Entrados
  <2>1. CASE UNCHANGED <<blocked, suspendedBlocked>>
    BY <2>1 DEF ListasDeEntrados
  <2>2. CASE PMPSuspender /\ blocked # <<>>
    <3>1. /\ suspendedBlocked' = Append(suspendedBlocked, Last(blocked))
          /\ blocked' = Front(blocked)
      BY <2>2 DEF PMPSuspender
    <3>2. blocked \in Seq(Procs) /\ suspendedBlocked \in Seq(Procs)
      BY DEF TypeOK, TipoListas
    <3>3. /\ Last(blocked) \in Procs /\ Last(blocked) \in Entrados
          /\ \A j \in DOMAIN Front(blocked) : j \in DOMAIN blocked
                                             /\ Front(blocked)[j] = blocked[j]
      BY <2>2, <3>2, SacarUltimo DEF ListasDeEntrados
    <3>4. \A i \in DOMAIN suspendedBlocked' : suspendedBlocked'[i] \in Entrados
      BY <3>1, <3>2, <3>3, Agregar DEF ListasDeEntrados
    <3> QED BY <3>1, <3>3, <3>4 DEF ListasDeEntrados
  <2> QED BY <2>1, <2>2 DEF PMP, PMPEspera, PMPMirar, PMPSuspender, listas
<1>6. ListasDeEntrados'
  BY <1>1, <1>4, <1>5 DEF ListasDeEntrados, Adentro
<1>7. CupoConservado'
  BY <1>1, <1>2, <1>4, Marco DEF SemKernelNombres
<1> QED BY <1>1, <1>3, <1>4, <1>6, <1>7, Marco DEF Resto

(* Waking a process posts enReady once and adds one process to READY.      *)
LEMMA DespertarInv ==
  ASSUME IInv, NEW i, Despertar(i),
         UNCHANGED <<fase, new, suspendedBlocked, exit, colaIO, liberados,
                     llegando, plp, pcp>>
  PROVE  NadieSacaDeVacia' /\ ListasDeEntrados' /\ CupoConservado'
<1> USE KernelAssumption DEF IInv
<1>s. sem \in [SemKernelNombres -> Nat]
  BY DEF TypeOK, TipoGlobales
<1>e. Entrados' = Entrados
  BY Marco
<1>1. CASE i \notin DOMAIN blocked
  <2>1. UNCHANGED <<blocked, ready, sem>>
    BY <1>1 DEF Despertar
  <2> QED BY <2>1, <1>e, Marco
<1>2. CASE i \in DOMAIN blocked
  <2>1. /\ blocked' = RemoveAt(blocked, i) /\ ready' = Append(ready, blocked[i])
        /\ sem' = [sem EXCEPT !["enReady"] = @ + 1]
    BY <1>2 DEF Despertar, Subir
  <2>2. blocked \in Seq(Procs) /\ ready \in Seq(Procs)
    BY DEF TypeOK, TipoListas
  <2>3. blocked[i] \in Procs /\ blocked[i] \in Entrados
    BY <1>2, <2>2 DEF ListasDeEntrados
  <2>4. /\ Len(ready') = Len(ready) + 1
        /\ \A j \in DOMAIN ready' : ready'[j] \in Entrados
    BY <2>1, <2>2, <2>3, Agregar DEF ListasDeEntrados
  <2>5. \A j \in DOMAIN blocked' : blocked'[j] \in Entrados
    <3>1. \A j \in DOMAIN blocked' : \E k \in DOMAIN blocked : blocked'[j] = blocked[k]
      BY <1>2, <2>1, <2>2, SacarDeLista
    <3> QED BY <3>1 DEF ListasDeEntrados
  <2>6. NadieSacaDeVacia'
    BY <1>s, <2>1, <2>2, <2>4 DEF NadieSacaDeVacia, Valor, SemKernelNombres
  <2>7. ListasDeEntrados'
    BY <1>e, <2>4, <2>5 DEF ListasDeEntrados, Adentro
  <2>8. CupoConservado'
    BY <1>e, <1>s, <2>1, Marco DEF SemKernelNombres
  <2> QED BY <2>6, <2>7, <2>8
<1> QED BY <1>1, <1>2

(* ... by the IO planner.                                                  *)
LEMMA PIOInv ==
  ASSUME IInv, PIO
  PROVE  Resto'
<1> USE KernelAssumption DEF IInv
<1>s. sem \in [SemKernelNombres -> Nat]
  BY DEF TypeOK, TipoGlobales
<1>1. UNCHANGED <<fase, pedido, new, suspendedBlocked, exit, liberados, llegando, plp, pcp, cpu>>
  BY DEF PIO, PIOEspera, PIOBuscar, PIOSacar, clientes, otros, listas
<1>e. Entrados' = Entrados
  BY <1>1, Marco
<1>2. CASE PIOEspera
  <2>1. /\ UNCHANGED <<ready, blocked>> /\ sem["ejecutarIO"] > 0
        /\ sem' = [sem EXCEPT !["ejecutarIO"] = @ - 1] /\ colaIO' = Tail(colaIO)
    BY <1>2 DEF PIOEspera, Puede, Bajar
  <2>2. Len(colaIO') = Len(colaIO) - 1
    BY <1>s, <2>1, SacarDeCola DEF NadieSacaDeVacia, TypeOK, TipoListas, SemKernelNombres
  <2>3. NadieSacaDeVacia'
    BY <1>1, <1>s, <2>1, <2>2 DEF NadieSacaDeVacia, Valor, SemKernelNombres
  <2>4. CupoConservado'
    BY <1>1, <1>e, <1>s, <2>1, Marco DEF SemKernelNombres
  <2> QED BY <1>1, <1>e, <2>1, <2>3, <2>4, Marco DEF Resto
<1>3. CASE PIOBuscar
  <2>1. UNCHANGED <<ready, blocked, colaIO, sem>>
    BY <1>3 DEF PIOBuscar, listas
  <2> QED BY <1>1, <1>e, <2>1, Marco DEF Resto
<1>4. CASE PIOSacar
  <2>1. Despertar(pio.i) /\ UNCHANGED colaIO
    BY <1>4 DEF PIOSacar
  <2>2. NadieSacaDeVacia' /\ ListasDeEntrados' /\ CupoConservado'
    BY <1>1, <2>1, DespertarInv
  <2> QED BY <1>1, <1>e, <2>2, Marco DEF Resto
<1> QED BY <1>2, <1>3, <1>4 DEF PIO

(* ... by the finaliser: it frees a process that was inside, once, and     *)
(* gives its slot back.                                                    *)
LEMMA FinalizarInv ==
  ASSUME IInv, Finalizar
  PROVE  Resto'
<1> USE KernelAssumption DEF IInv
<1>s. sem \in [SemKernelNombres -> Nat]
  BY DEF TypeOK, TipoGlobales
<1> DEFINE h == Head(exit)
<1>1. UNCHANGED <<fase, pedido, new, ready, blocked, suspendedBlocked, colaIO,
                  llegando, plp, pcp, cpu>>
  BY DEF Finalizar, clientes, hilos, planificadores
<1>2. /\ sem["finalizar"] > 0 /\ exit' = Tail(exit) /\ liberados' = liberados \cup {h}
      /\ sem' = [sem EXCEPT !["finalizar"] = @ - 1, !["puedeEntrar"] = @ + 1]
  BY DEF Finalizar, Puede
<1>3. exit \in Seq(Procs) /\ exit # <<>>
  BY <1>s, <1>2 DEF NadieSacaDeVacia, TypeOK, TipoListas, SemKernelNombres
<1>4. /\ h = exit[1] /\ 1 \in DOMAIN exit /\ h \in Procs /\ Len(exit') = Len(exit) - 1
      /\ exit' \in Seq(Procs)
      /\ \A j \in DOMAIN exit' : j + 1 \in DOMAIN exit /\ exit'[j] = exit[j + 1]
  BY <1>2, <1>3, SacarDeCola
<1>e. Entrados' = Entrados
  BY <1>1, Marco
<1>5. h \in Adentro /\ fase[h] = "cerrado" /\ Adentro' = Adentro \ {h}
  BY <1>2, <1>4, <1>e DEF Adentro, ListasDeEntrados
<1>6. NadieSacaDeVacia'
  BY <1>s, <1>1, <1>2, <1>4 DEF NadieSacaDeVacia, Valor, SemKernelNombres
<1>7. /\ \A j \in DOMAIN exit' : j \in Nat \ {0} /\ exit'[j] # h
      /\ \A i, j \in DOMAIN exit' : exit'[i] = exit'[j] => i = j
  <2>1. \A j \in DOMAIN exit' : j \in Nat \ {0} /\ j + 1 # 1
    BY <1>4
  <2>2. \A i, j \in DOMAIN exit' : exit'[i] = exit'[j] => i + 1 = j + 1
    BY <1>4 DEF UnSoloFin
  <2> QED BY <1>4, <2>1, <2>2 DEF UnSoloFin
<1>8. ListasDeEntrados'
  BY <1>1, <1>4, <1>5, <1>7, <1>e DEF ListasDeEntrados
<1>9. UnSoloFin'
  BY <1>1, <1>2, <1>5, <1>7, <1>e DEF UnSoloFin, PideFin, Adentro
<1>10. CupoConservado'
  <2>1. IsFiniteSet(Adentro)
    BY FS_Subset DEF Adentro, Entrados
  <2>2. Cardinality(Adentro') = Cardinality(Adentro) - 1 /\ Cardinality(Adentro) \in Nat
    BY <1>5, <2>1, FS_RemoveElement, FS_CardinalityType
  <2> QED BY <1>s, <1>2, <2>2 DEF CupoConservado, SemKernelNombres
<1> QED BY <1>1, <1>e, <1>6, <1>8, <1>9, <1>10, Marco DEF Resto

(* A CPU that goes on in its loop keeps its process, does not turn to      *)
(* another request and stays as busy as it was.                            *)
Sigue(c) ==
  /\ \A d \in CPUs \ {c} : cpu'[d] = cpu[d]
  /\ cpu'[c].p = cpu[c].p
  /\ cpu'[c].pc # "op"
  /\ \/ /\ cpu[c].pc # "libre" \/ cpu[c].semCPU > 0
        /\ cpu'[c].semCPU + Valor(cpu'[c].pc # "libre")
             = cpu[c].semCPU + Valor(cpu[c].pc # "libre")
        /\ cpu'[c].estado = cpu[c].estado
     \/ /\ cpu[c].pc # "libre" /\ cpu'[c].pc = "libre"
        /\ cpu'[c].semCPU = cpu[c].semCPU /\ cpu'[c].estado = "FREE"

LEMMA CPUSigue ==
  ASSUME IInv, NEW c \in CPUs, Sigue(c), UNCHANGED <<plp, pcp>>,
         Entrados' = Entrados
  PROVE  /\ HilosConProceso' /\ CPUOcupada'
         /\ UNCHANGED <<pedido, fase, exit, liberados>> => UnSoloFin'
<1> USE DEF IInv
<1>0. \A d \in CPUs : /\ cpu[d].semCPU \in Nat /\ cpu[d].estado \in {"FREE", "BUSY"}
  BY DEF TypeOK, TipoCPU
<1>1. HilosConProceso'
  <2>1. cpu[c].p \in Entrados
    BY DEF Sigue, HilosConProceso
  <2> QED BY <2>1 DEF Sigue, HilosConProceso
<1>2. CPUOcupada'
  BY <1>0 DEF Sigue, CPUOcupada, Valor
<1>3. \A d \in CPUs : PideFin(d)' => d # c /\ PideFin(d) /\ cpu'[d] = cpu[d]
  BY DEF Sigue, PideFin
<1>4. UNCHANGED <<pedido, fase, exit, liberados>> => UnSoloFin'
  BY <1>3 DEF UnSoloFin
<1> QED BY <1>1, <1>2, <1>4

(* Each point of ejecutarCarpincho but the recv goes on.                   *)
LEMMA PasosSiguen ==
  ASSUME IInv, NEW c \in CPUs, CPU(c)
  PROVE  CPURecv(c) \/ CPURecvCerrado(c) \/ Sigue(c)
<1> USE DEF IInv, TypeOK
<1>0. /\ cpu[c] \in [pc : PCsCPU, estado : {"FREE", "BUSY"}, semCPU : Nat,
                      p : Procs \cup {Nada}, ped : Peticion \cup {Nada}, i : Nat]
      /\ DOMAIN cpu = CPUs
  BY DEF TipoCPU
<1>1. ASSUME NEW x \in PCsCPU \ {"op", "libre"}, IrCPU(c, x), cpu[c].pc # "libre"
      PROVE  Sigue(c)
  BY <1>0, <1>1 DEF IrCPU, Sigue, Valor, TipoCPU
<1>2. CASE CPUEspera(c)
  BY <1>0, <1>2 DEF CPUEspera, Sigue, Valor, TipoCPU
<1>3. CASE CPUSoltar(c)
  BY <1>0, <1>3 DEF CPUSoltar, Sigue, Valor, TipoCPU
<1>4. CASE PostBuscar(c)
  <2>1. CASE \E n : cpu' = [cpu EXCEPT ![c].pc = "sacar", ![c].i = n]
    BY <1>0, <1>4, <2>1 DEF PostBuscar, Sigue, Valor, TipoCPU
  <2> QED BY <1>1, <1>4, <2>1 DEF PostBuscar, PCsCPU
<1>5. CASE CPUMientras(c) \/ CPUAvisarIO(c) \/ CPUSalir(c)
  BY <1>1, <1>5 DEF CPUMientras, CPUAvisarIO, CPUSalir, PCsCPU
<1>6. CASE OpMemoria(c) \/ OpIO(c) \/ IOBloquear(c) \/ IOMarcar(c) \/ OpFinalizacion(c)
  BY <1>1, <1>6 DEF OpMemoria, OpIO, IOBloquear, IOMarcar, OpFinalizacion, EnOp, PCsCPU
<1>7. CASE OpInit(c) \/ OpWait(c) \/ WaitRestar(c) \/ WaitBloquear(c) \/ SemResponder(c)
  BY <1>1, <1>7 DEF OpInit, OpWait, WaitRestar, WaitBloquear, SemResponder, EnOp, PCsCPU
<1>8. CASE OpPost(c) \/ PostSacar(c) \/ OpDestroy(c)
  BY <1>1, <1>8 DEF OpPost, PostSacar, OpDestroy, EnOp, PCsCPU
<1> QED BY <1>2, <1>3, <1>4, <1>5, <1>6, <1>7, <1>8 DEF CPU

(* ... by the CPUs.  A FINALIZACION, served, becomes one entry of          *)
(* processExit.                                                            *)
LEMMA CPUInv ==
  ASSUME IInv, NEW c \in CPUs, CPU(c)
  PROVE  Resto'
<1> USE KernelAssumption DEF IInv
<1>s. sem \in [SemKernelNombres -> Nat]
  BY DEF TypeOK, TipoGlobales
<1>g. UNCHANGED <<new, suspendedBlocked, llegando, plp, pcp>>
  BY DEF CPU, CPUEspera, CPUMientras, CPUAvisarIO, CPURecv, CPURecvCerrado, CPUSalir,
     CPUSoltar, OpMemoria, OpIO, IOBloquear, IOMarcar, OpFinalizacion, OpInit, OpWait,
     WaitRestar, WaitBloquear, SemResponder, OpPost, PostBuscar, PostSacar, OpDestroy,
     listas, hilos, planificadores
<1>1. CASE UNCHANGED <<fase, pedido, listas, sem, liberados>> /\ Sigue(c)
  <2>1. Entrados' = Entrados
    BY <1>1, <1>g, Marco
  <2> QED BY <1>1, <1>g, <2>1, CPUSigue, Marco DEF Resto, listas
<1>2. CASE CPURecvCerrado(c)
  <2>1. UNCHANGED <<fase, pedido, listas, sem, liberados, cpu>>
    BY <1>2 DEF CPURecvCerrado, clientes, otros, hilos
  <2>2. Entrados' = Entrados
    BY <2>1, <1>g, Marco
  <2> QED BY <2>1, <1>g, <2>2, Marco DEF Resto, listas
<1>3. CASE CPURecv(c)
  <2> DEFINE p == cpu[c].p
  <2>1. UNCHANGED <<fase, listas, sem, liberados>>
    BY <1>3 DEF CPURecv, otros
  <2>2. /\ cpu[c].pc = "recv" /\ pedido[p] # Nada /\ p \in Procs
        /\ cpu'[c] = [cpu[c] EXCEPT !.pc = "op", !.ped = pedido[p]]
        /\ \A d \in CPUs \ {c} : cpu'[d] = cpu[d]
        /\ pedido'[p] = Nada /\ \A q \in Procs \ {p} : pedido'[q] = pedido[q]
        /\ pedido[p] \in Peticion
    <3>1. cpu[c].pc = "recv" /\ p \in Procs
      BY <1>3 DEF CPURecv, HilosConProceso, Entrados
    <3>2. /\ cpu'[c] = [cpu[c] EXCEPT !.pc = "op", !.ped = pedido[p]]
          /\ \A d \in CPUs \ {c} : cpu'[d] = cpu[d]
      BY <1>3 DEF CPURecv, TypeOK, TipoCPU
    <3>3. pedido' = [pedido EXCEPT ![p] = Nada] /\ pedido[p] # Nada
      BY <1>3 DEF CPURecv
    <3>4. pedido \in [Procs -> Peticion \cup {Nada}]
      BY DEF TypeOK, TipoClientes
    <3> QED BY <3>1, <3>2, <3>3, <3>4
  <2>3. /\ cpu'[c].pc = "op" /\ cpu'[c].ped = pedido[p] /\ cpu'[c].p = p
        /\ cpu'[c].semCPU = cpu[c].semCPU /\ cpu'[c].estado = cpu[c].estado
    BY <2>2, SMTT(30) DEF TypeOK, TipoCPU
  <2>4. Entrados' = Entrados
    BY <2>1, <1>g, Marco
  <2>5. HilosConProceso' /\ CPUOcupada'
    <3>1. HilosConProceso'
      BY <1>g, <2>2, <2>3, <2>4 DEF HilosConProceso
    <3>2. CPUOcupada'
      <4>1. \A d \in CPUs : /\ cpu'[d].semCPU = cpu[d].semCPU
                            /\ cpu'[d].estado = cpu[d].estado
                            /\ cpu'[d].pc # "libre" <=> cpu[d].pc # "libre"
        BY <2>2, <2>3
      <4> QED BY <4>1 DEF CPUOcupada, Valor
    <3> QED BY <3>1, <3>2
  <2>6. UnSoloFin'
    <3>0. Nada # FIN
      BY DEF FIN, Peticion
    <3>1. \A d \in CPUs : PideFin(d)' =>
            \/ d = c /\ pedido[p] = FIN
            \/ d # c /\ PideFin(d) /\ cpu'[d] = cpu[d]
      BY <2>2, <2>3 DEF PideFin
    <3>2. \A q \in Procs : pedido'[q] = FIN => q # p /\ pedido[q] = FIN
      BY <2>2, <3>0
    <3>3. \A d \in CPUs : PideFin(d)' => fase[cpu'[d].p] = "cerrando" /\ pedido'[cpu'[d].p] # FIN
      <4>1. ASSUME NEW d \in CPUs, d # c, PideFin(d), cpu'[d] = cpu[d]
            PROVE  fase[cpu'[d].p] = "cerrando" /\ pedido'[cpu'[d].p] # FIN
        <5>1. cpu[d].p \in Procs /\ fase[cpu[d].p] = "cerrando" /\ pedido[cpu[d].p] # FIN
          BY <4>1 DEF UnSoloFin, PideFin, HilosConProceso, Entrados
        <5> QED BY <3>2, <4>1, <5>1
      <4>2. pedido[p] = FIN => fase[cpu'[c].p] = "cerrando" /\ pedido'[cpu'[c].p] # FIN
        BY <2>2, <2>3, <3>0 DEF UnSoloFin
      <4> QED BY <3>1, <4>1, <4>2
    <3>4. \A d, e \in CPUs : PideFin(d)' /\ PideFin(e)' /\ cpu'[d].p = cpu'[e].p => d = e
      BY <2>3, <3>1 DEF UnSoloFin
    <3> QED BY <2>1, <2>4, <3>2, <3>3, <3>4 DEF UnSoloFin, listas
  <2> QED BY <2>1, <1>g, <2>4, <2>5, <2>6, Marco DEF Resto, listas
<1>4. CASE OpFinalizacion(c)
  <2> DEFINE p == cpu[c].p
  <2>1. UNCHANGED <<pedido, ready, blocked, colaIO, liberados>>
    BY <1>4 DEF OpFinalizacion, otros
  <2>2. /\ PideFin(c) /\ p \in Procs /\ p \in Entrados
        /\ fase[p] = "cerrando" /\ pedido[p] # FIN
    <3>1. \A o \in Peticion : o.tipo = "FINALIZACION" => o = FIN
      BY DEF Peticion, FIN
    <3>2. cpu[c].pc = "op" /\ cpu[c].ped.tipo = "FINALIZACION"
      BY <1>4 DEF OpFinalizacion, EnOp
    <3> QED BY <3>1, <3>2 DEF HilosConProceso, PideFin, UnSoloFin, Entrados
  <2>3. /\ fase'[p] = "cerrado" /\ \A q \in Procs \ {p} : fase'[q] = fase[q]
        /\ exit' = Append(exit, p) /\ exit \in Seq(Procs)
        /\ sem' = [sem EXCEPT !["finalizar"] = @ + 1]
    BY <1>4, <2>2 DEF OpFinalizacion, Subir, TypeOK, TipoClientes, TipoListas
  <2>4. /\ DOMAIN exit = 1..Len(exit) /\ DOMAIN exit' = 1..(Len(exit) + 1)
        /\ Len(exit) \in Nat /\ Len(exit') = Len(exit) + 1
        /\ \A j \in 1..Len(exit) : exit'[j] = exit[j] /\ exit[j] \in Procs
        /\ exit'[Len(exit) + 1] = p
    BY <2>2, <2>3, Agregar
  <2>5. NadieSacaDeVacia'
    BY <1>s, <1>g, <2>1, <2>3, <2>4 DEF NadieSacaDeVacia, Valor, SemKernelNombres
  <2>6. Entrados' = Entrados
    BY <1>g, <2>2, <2>3 DEF Entrados
  <2>7. HilosConProceso' /\ CPUOcupada' /\ Sigue(c)
    <3>1. ~CPURecv(c) /\ ~CPURecvCerrado(c)
      BY <2>2 DEF PideFin, CPURecv, CPURecvCerrado
    <3> QED BY <1>g, <2>6, <3>1, PasosSiguen, CPUSigue
  <2>8. p \notin liberados /\ \A j \in DOMAIN exit : exit[j] # p /\ fase[exit[j]] = "cerrado"
    BY <2>2 DEF UnSoloFin, ListasDeEntrados
  <2>9. ListasDeEntrados'
    <3>1. \A j \in DOMAIN exit' : exit'[j] \in Adentro' /\ fase'[exit'[j]] = "cerrado"
      BY <2>1, <2>2, <2>3, <2>4, <2>6, <2>8 DEF ListasDeEntrados, Adentro
    <3> QED BY <1>g, <2>1, <2>6, <3>1 DEF ListasDeEntrados
  <2>10. NuevosDistintos'
    <3>1. (\A i \in DOMAIN new : new[i] \in Procs) /\ llegando \in Procs \cup {Nada}
      BY DEF TypeOK, TipoListas, TipoPlanificadores
    <3> QED BY <1>g, <2>2, <2>3, <3>1 DEF NuevosDistintos
  <2>11. UnSoloFin'
    <3>1. \A d \in CPUs : PideFin(d)' => d # c /\ PideFin(d) /\ cpu'[d] = cpu[d]
                                          /\ cpu[d].p # p /\ cpu[d].p \in Procs
      BY <2>2, <2>7 DEF Sigue, PideFin, UnSoloFin, HilosConProceso, Entrados
    <3>2. \A i, j \in DOMAIN exit' : exit'[i] = exit'[j] => i = j
      BY <2>4, <2>8 DEF UnSoloFin
    <3>3. \A q \in Procs : pedido'[q] = FIN => fase'[q] = "cerrando"
      BY <2>1, <2>2, <2>3 DEF UnSoloFin
    <3>4. \A q \in liberados : q \in Entrados /\ fase'[q] = "cerrado"
      BY <2>2, <2>3, <2>8 DEF UnSoloFin, Entrados
    <3>5. \A d \in CPUs : PideFin(d)' => fase'[cpu'[d].p] = "cerrando" /\ pedido'[cpu'[d].p] # FIN
      BY <2>1, <2>3, <3>1 DEF UnSoloFin
    <3>6. \A d, e \in CPUs : PideFin(d)' /\ PideFin(e)' /\ cpu'[d].p = cpu'[e].p => d = e
      BY <3>1 DEF UnSoloFin
    <3> QED BY <2>1, <2>6, <3>2, <3>3, <3>4, <3>5, <3>6 DEF UnSoloFin
  <2>12. CupoConservado'
    BY <1>s, <2>1, <2>3, <2>6, Marco DEF SemKernelNombres
  <2> QED BY <2>5, <2>7, <2>9, <2>10, <2>11, <2>12 DEF Resto
<1>5. CASE PostSacar(c)
  <2>1. /\ Despertar(cpu[c].i) /\ cpu[c].pc = "sacar"
        /\ UNCHANGED <<fase, pedido, exit, colaIO, liberados>>
    BY <1>5 DEF PostSacar, clientes, otros
  <2>2. NadieSacaDeVacia' /\ ListasDeEntrados' /\ CupoConservado'
    BY <1>g, <2>1, DespertarInv
  <2>3. Entrados' = Entrados
    BY <1>g, <2>1, Marco
  <2>4. Sigue(c)
    BY <2>1, PasosSiguen DEF CPURecv, CPURecvCerrado
  <2> QED BY <1>g, <2>1, <2>2, <2>3, <2>4, CPUSigue, Marco DEF Resto
<1>6. CASE CPUSalir(c)
  <2>1. UNCHANGED <<fase, pedido, listas, liberados>> /\ cpu[c].pc = "mientras"
    BY <1>6 DEF CPUSalir, clientes, otros
  <2>2. \A x \in SemKernelNombres \ {"planificar", "planifMedianoPlazo"} : sem'[x] = sem[x]
    BY <1>6, <1>s DEF CPUSalir, SemKernelNombres
  <2>3. NadieSacaDeVacia'
    BY <1>g, <2>1, <2>2 DEF NadieSacaDeVacia, Valor, SemKernelNombres, listas
  <2>4. Entrados' = Entrados
    BY <1>g, <2>1, Marco
  <2>5. Sigue(c)
    BY <2>1, PasosSiguen DEF CPURecv, CPURecvCerrado
  <2>6. CupoConservado'
    BY <2>1, <2>2, <2>4, Marco DEF SemKernelNombres
  <2> QED BY <1>g, <2>1, <2>3, <2>4, <2>5, <2>6, CPUSigue, Marco DEF Resto, listas
<1>7. CASE OpIO(c)
  <2>1. /\ UNCHANGED <<fase, pedido, ready, blocked, exit, liberados>> /\ cpu[c].pc = "op"
        /\ sem' = [sem EXCEPT !["ejecutarIO"] = @ + 1]
        /\ colaIO' = Append(colaIO, pcb[cpu[c].p].pid)
    BY <1>7 DEF OpIO, EnOp, Subir, clientes, otros
  <2>2. Len(colaIO') = Len(colaIO) + 1
    BY <2>1 DEF TypeOK, TipoListas
  <2>3. NadieSacaDeVacia'
    BY <1>s, <1>g, <2>1, <2>2 DEF NadieSacaDeVacia, Valor, SemKernelNombres
  <2>4. Entrados' = Entrados
    BY <1>g, <2>1, Marco
  <2>5. Sigue(c)
    BY <2>1, PasosSiguen DEF CPURecv, CPURecvCerrado
  <2>6. CupoConservado'
    BY <1>s, <2>1, <2>4, Marco DEF SemKernelNombres
  <2> QED BY <1>g, <2>1, <2>3, <2>4, <2>5, <2>6, CPUSigue, Marco DEF Resto
<1>8. CASE IOBloquear(c) \/ WaitBloquear(c)
  <2>1. /\ UNCHANGED <<fase, pedido, ready, exit, colaIO, sem, liberados>>
        /\ cpu[c].pc \in {"io_bloquear", "bloquear"}
        /\ blocked' = Append(blocked, cpu[c].p) /\ blocked \in Seq(Procs)
    BY <1>8 DEF IOBloquear, WaitBloquear, clientes, otros, TypeOK, TipoListas
  <2>2. cpu[c].p \in Procs /\ cpu[c].p \in Entrados
    BY <2>1 DEF HilosConProceso, Entrados
  <2>3. \A j \in DOMAIN blocked' : blocked'[j] \in Entrados
    BY <2>1, <2>2, Agregar DEF ListasDeEntrados
  <2>4. Entrados' = Entrados
    BY <1>g, <2>1, Marco
  <2>5. ListasDeEntrados'
    BY <1>g, <2>1, <2>3, <2>4 DEF ListasDeEntrados, Adentro
  <2>6. Sigue(c)
    BY <2>1, PasosSiguen DEF CPURecv, CPURecvCerrado
  <2> QED BY <1>g, <2>1, <2>4, <2>5, <2>6, CPUSigue, Marco DEF Resto
<1>9. CASE CPUEspera(c) \/ CPUMientras(c) \/ CPUAvisarIO(c) \/ CPUSoltar(c) \/ OpMemoria(c)
           \/ IOMarcar(c)
  BY <1>1, <1>9, PasosSiguen DEF CPUEspera, CPUMientras, CPUAvisarIO, CPUSoltar, OpMemoria,
     IOMarcar, EnOp, CPURecv, CPURecvCerrado, clientes, otros
<1>10. CASE OpInit(c) \/ OpWait(c) \/ WaitRestar(c) \/ SemResponder(c) \/ OpPost(c)
            \/ PostBuscar(c) \/ OpDestroy(c)
  BY <1>1, <1>10, PasosSiguen DEF OpInit, OpWait, WaitRestar, SemResponder, OpPost,
     PostBuscar, OpDestroy, EnOp, CPURecv, CPURecvCerrado, clientes, otros
<1> QED BY <1>2, <1>3, <1>4, <1>5, <1>6, <1>7, <1>8, <1>9, <1>10 DEF CPU

-----------------------------------------------------------------------------
(* The invariant holds initially: nobody has entered, every list is empty. *)
LEMMA InvInicial == Init => IInv
<1> SUFFICES ASSUME Init PROVE IInv
  OBVIOUS
<1> USE KernelAssumption DEF Init
<1>1. TypeOK
  <2>1. TipoClientes /\ TipoPCB
    BY DEF TipoClientes, TipoPCB
  <2>2. TipoListas
    BY DEF TipoListas
  <2>6. TipoBanderas
    BY DEF TipoBanderas
  <2>3. TipoGlobales
    BY DEF TipoGlobales, SemKernelNombres
  <2>4. TipoPlanificadores
    BY DEF TipoPlanificadores
  <2>5. TipoCPU
    BY DEF TipoCPU, PCsCPU
  <2> QED BY <2>1, <2>2, <2>3, <2>4, <2>5, <2>6 DEF TypeOK
<1>2. NadieSacaDeVacia
  BY DEF NadieSacaDeVacia, Valor, SemKernelNombres
<1>3. HilosConProceso
  BY DEF HilosConProceso
<1>4. CPUOcupada
  BY DEF CPUOcupada, Valor
<1>5. ListasDeEntrados /\ NuevosDistintos
  BY DEF ListasDeEntrados, NuevosDistintos
<1>6. UnSoloFin
  BY DEF UnSoloFin, PideFin, FIN, Peticion
<1>7. CupoConservado
  <2>1. Adentro = {}
    BY DEF Adentro, Entrados
  <2>2. sem["puedeEntrar"] = GRADO
    BY DEF SemKernelNombres
  <2> QED BY <2>1, <2>2, FS_EmptySet DEF CupoConservado
<1> QED BY <1>1, <1>2, <1>3, <1>4, <1>5, <1>6, <1>7 DEF IInv

(* Every step of every thread keeps it.                                    *)
LEMMA InvPaso == IInv /\ [Next]_vars => IInv'
<1> SUFFICES ASSUME IInv, [Next]_vars PROVE IInv'
  OBVIOUS
<1>0. TypeOK /\ NadieSacaDeVacia /\ HilosConProceso
  BY DEF IInv
<1>1. ASSUME NEW p \in Procs, Carpincho(p) PROVE TypeOK' /\ Resto'
  BY <1>0, <1>1, CarpinchoTipos, CarpinchoInv
<1>2. CASE Llegada
  BY <1>0, <1>2, LlegadaTipos, LlegadaInv DEF IInv, Resto
<1>3. CASE PLP
  BY <1>0, <1>3, PLPTipos, PLPInv DEF IInv, Resto
<1>4. CASE PCP
  BY <1>0, <1>4, PCPTipos, PCPInv DEF IInv, Resto
<1>5. CASE PMP
  BY <1>0, <1>5, PMPTipos, PMPInv DEF IInv, Resto
<1>6. CASE PIO
  BY <1>0, <1>6, PIOTipos, PIOInv DEF IInv, Resto
<1>7. CASE Finalizar
  BY <1>0, <1>7, FinalizarTipos, FinalizarInv DEF IInv, Resto
<1>8. ASSUME NEW c \in CPUs, CPU(c) PROVE TypeOK' /\ Resto'
  BY <1>0, <1>8, CPUTipos, CPUInv
<1>9. CASE UNCHANGED vars
  <2>1. TypeOK'
    BY <1>0, <1>9, MarcoTipos
    DEF TypeOK, vars, clientes, listas, globales, otros, hilos, planificadores
  <2>2. Entrados' = Entrados
    BY <1>9, Marco DEF vars, clientes, listas, hilos
  <2>3. Resto'
    BY <1>9, <2>2, Marco DEF Resto, vars, clientes, listas, otros, hilos, planificadores
  <2> QED BY <2>1, <2>3 DEF IInv, Resto
<1> QED BY <1>1, <1>2, <1>3, <1>4, <1>5, <1>6, <1>7, <1>8, <1>9 DEF Next, IInv, Resto

(* The inductive invariant, of every reachable state.                      *)
THEOREM Invariante == Spec => []IInv
BY InvInicial, InvPaso, PTL DEF Spec

(* Type correctness: in particular no semaphore count ever goes below zero *)
(* and no planner's index or PCB is garbage while the program is defined.  *)
THEOREM TiposCorrectos == Spec => []TypeOK
<1>1. IInv => TypeOK
  BY DEF IInv
<1> QED BY <1>1, Invariante, PTL

(* planificadorLargoPlazo and finalizarProceso keep the multiprogramming   *)
(* account: free slots plus processes inside are GRADO_MULTIPROGRAMACION.  *)
THEOREM CupoSiempreConservado == Spec => []CupoConservado
<1>1. IInv => CupoConservado
  BY DEF IInv
<1> QED BY <1>1, Invariante, PTL

(* No planner, and not the finaliser, takes from an empty list.            *)
THEOREM NadieSacaNuncaDeVacia == Spec => []NadieSacaDeVacia
<1>1. IInv => NadieSacaDeVacia
  BY DEF IInv
<1> QED BY <1>1, Invariante, PTL

(* A busy CPU is never FREE, so asignarCPU does not pick it.               *)
LEMMA PasoPCBNoCambia ==
  ASSUME IInv, [Next]_vars
  PROVE  \A c \in CPUs : cpu'[c].p # cpu[c].p =>
                            cpu[c].pc = "libre" /\ cpu[c].semCPU = 0
<1> USE DEF IInv
<1> DEFINE Cambia(c) == cpu'[c].p # cpu[c].p => cpu[c].pc = "libre" /\ cpu[c].semCPU = 0
<1>0. \A c \in CPUs : cpu[c].semCPU \in Nat
  BY DEF TypeOK, TipoCPU
<1>1. ASSUME NEW d \in CPUs, AsignarCPU(d) PROVE \A c \in CPUs : Cambia(c)
  <2>1. cpu[d].estado = "FREE" /\ \A c \in CPUs \ {d} : cpu'[c] = cpu[c]
    BY <1>1 DEF AsignarCPU, TypeOK, TipoCPU
  <2> QED BY <1>0, <2>1 DEF CPUOcupada, Valor
<1>2. ASSUME NEW d \in CPUs, CPU(d) PROVE \A c \in CPUs : Cambia(c)
  <2>1. CASE CPURecv(d)
    BY <2>1 DEF CPURecv, TypeOK, TipoCPU
  <2>2. CASE CPURecvCerrado(d)
    BY <2>2 DEF CPURecvCerrado, hilos
  <2>3. CASE Sigue(d)
    BY <2>3 DEF Sigue
  <2> QED BY <1>2, <2>1, <2>2, <2>3, PasosSiguen
<1>3. CASE PCP
  <2>1. CASE UNCHANGED cpu
    BY <2>1
  <2> QED BY <1>1, <1>3, <2>1 DEF PCP, PCPEspera, PCPToken, SJFMirar, SJFElegir,
         HRRNElegir, BuscarCPUSinIniciar
<1>4. CASE UNCHANGED vars
  BY <1>4 DEF vars, hilos
<1>5. ASSUME NEW p \in Procs, Carpincho(p) PROVE UNCHANGED cpu
  BY <1>5 DEF Carpincho, Conectar, Cerrar, Pedir, hilos
<1>6. Llegada \/ PLP \/ PMP \/ PIO \/ Finalizar => UNCHANGED cpu
  BY DEF Llegada, EncolarNuevo, Aceptar, PLP, PLPEspera, PLPCupo, PLPAdmitir, PLPEmpujar,
     PLPDormir, PMP, PMPEspera, PMPMirar, PMPSuspender, PIO, PIOEspera, PIOBuscar,
     PIOSacar, Finalizar, hilos
<1> QED BY <1>2, <1>3, <1>4, <1>5, <1>6 DEF Next

(* asignarCPU never replaces the PCB of a CPU that is serving a process.   *)
THEOREM PCBNuncaCambiaEnUso == Spec => PCBNoCambiaEnUso
BY PasoPCBNoCambia, Invariante, PTL DEF Spec, PCBNoCambiaEnUso

-----------------------------------------------------------------------------
(* A PID is only ever lost: eliminarSemaforoKernel writes -1 over it.      *)
SiguePid == \A p \in Procs : pcb'[p].pid \in {pcb[p].pid, Nada}

LEMMA PidSigue ==
  ASSUME TypeOK, [Next]_vars
  PROVE  SiguePid
<1>0. \A q : \A x : /\ pcb' = [pcb EXCEPT ![q].status = x] => SiguePid
                    /\ pcb' = [pcb EXCEPT ![q].ioFin = x] => SiguePid
                    /\ pcb' = [pcb EXCEPT ![q].semReq = x] => SiguePid
  BY DEF SiguePid, TypeOK, TipoPCB
<1>1. UNCHANGED pcb => SiguePid
  BY DEF SiguePid
<1>2. ASSUME NEW p \in Procs, Carpincho(p) PROVE UNCHANGED pcb
  BY <1>2 DEF Carpincho, Conectar, Cerrar, Pedir
<1>3. Llegada \/ PLP \/ PMP \/ Finalizar => UNCHANGED pcb
  BY DEF Llegada, EncolarNuevo, Aceptar, PLP, PLPEspera, PLPCupo, PLPAdmitir, PLPEmpujar,
     PLPDormir, PMP, PMPEspera, PMPMirar, PMPSuspender, Finalizar
<1>4. PCP => SiguePid
  BY <1>0, <1>1 DEF PCP, PCPEspera, PCPToken, SJFMirar, SJFElegir, HRRNElegir, Estado,
     BuscarCPUSinIniciar, AsignarCPU
<1>5. ASSUME NEW k, Despertar(k) PROVE SiguePid
  BY <1>0, <1>1, <1>5 DEF Despertar, Estado
<1>6. PIO => SiguePid
  BY <1>1, <1>5 DEF PIO, PIOEspera, PIOBuscar, PIOSacar
<1>7. ASSUME NEW c \in CPUs, CPU(c) PROVE SiguePid
  <2>1. CASE OpDestroy(c)
    <3>1. \A p \in Procs : pcb'[p].pid \in {Requerir(c)[p].pid, Nada}
      BY <2>1 DEF OpDestroy, Requerir, TypeOK, TipoPCB
    <3>2. \A p \in Procs : Requerir(c)[p].pid = pcb[p].pid
      BY DEF Requerir, TypeOK, TipoPCB
    <3> QED BY <3>1, <3>2 DEF SiguePid
  <2>2. CASE OpInit(c) \/ OpWait(c) \/ OpPost(c)
    BY <1>0, <2>2 DEF OpInit, OpWait, OpPost, Requerir
  <2>3. CASE PostSacar(c)
    BY <1>5, <2>3 DEF PostSacar
  <2>4. CASE OpIO(c) \/ IOMarcar(c) \/ CPUAvisarIO(c) \/ OpFinalizacion(c) \/ WaitBloquear(c)
    BY <1>0, <2>4 DEF OpIO, IOMarcar, CPUAvisarIO, OpFinalizacion, WaitBloquear, Estado
  <2>5. CASE CPUEspera(c) \/ CPUMientras(c) \/ CPURecv(c) \/ CPURecvCerrado(c) \/ CPUSalir(c)
             \/ CPUSoltar(c) \/ OpMemoria(c) \/ IOBloquear(c) \/ WaitRestar(c)
             \/ SemResponder(c) \/ PostBuscar(c)
    BY <1>1, <2>5 DEF CPUEspera, CPUMientras, CPURecv, CPURecvCerrado, CPUSalir, CPUSoltar,
       OpMemoria, IOBloquear, WaitRestar, SemResponder, PostBuscar
  <2> QED BY <1>7, <2>1, <2>2, <2>3, <2>4, <2>5 DEF CPU
<1>8. UNCHANGED vars => UNCHANGED pcb
  BY DEF vars
<1> QED BY <1>1, <1>2, <1>3, <1>4, <1>6, <1>7, <1>8 DEF Next
=============================================================================
