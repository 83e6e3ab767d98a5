--------------------------- MODULE KernelMemoria ----------------------------
(***************************************************************************)
(* The scheduler of Kernel with the connection it shares with the memory:  *)
(* the relay of a MEMORIA request (serializar_instancia), the notice that  *)
(* a process ended (finalizacionCarpincho) and the thread of the memory    *)
(* that serves the connection (recibirOperaciones).                        *)
(*                                                                         *)
(* There is one socket, conexionMemoria, for every CPU and the finaliser,  *)
(* and an answer does not say whom it is for.  An answer is a word of four *)
(* bytes, or, for a MEMREAD that succeeds, a length and that many bytes.   *)
(*                                                                         *)
(* "enlace" leaves "bien" when the connection stops meaning anything: one  *)
(* side has read a length where there was none, or data as if it were a    *)
(* word (desalineado); the kernel has copied through the null of a         *)
(* malloc(-6 + 4) (caido); the memory waits for ever for its swap          *)
(* (colgada).  After the first two the model stops; when the memory hangs  *)
(* the kernel goes on.                                                     *)
(***************************************************************************)
EXTENDS Kernel

CONSTANT OpsMemoria   \* kinds of request relayed: PALABRA (MEMALLOC, MEMFREE,
                      \* MEMWRITE, answered with a word), LECTURA (MEMREAD)
ASSUME MemoriaAssumption == /\ OpsMemoria \subseteq {"PALABRA", "LECTURA"}
                            /\ IsFiniteSet(CPUs)

VARIABLES
  aMemoria,    \* requests sent and not yet served: [de, nro, op]
  deMemoria,   \* words sent back and not yet read: [de, nro, clase]
  relay,       \* what each CPU waits for in serializar_instancia
  terminados,  \* the processes whose memory memory_memfree_all has released
  enlace,
  ajena        \* history: a carpincho got the answer to another request

conexion == <<aMemoria, deMemoria, relay, terminados, enlace, ajena>>
varsMemoria == <<vars, conexion>>

InitMemoria ==
  /\ Init
  /\ aMemoria = <<>> /\ deMemoria = <<>>
  /\ relay = [c \in CPUs |-> "no"]
  /\ terminados = {} /\ enlace = "bien" /\ ajena = FALSE

Vive == ~indefinido /\ enlace \in {"bien", "colgada"}

-----------------------------------------------------------------------------
(* serializar_instancia.  The carpincho's ops counts its requests: the     *)
(* number of the one being relayed.                                        *)

RelayEnviar(c) ==
  LET p == cpu[c].p
  IN  /\ EnOp(c, "MEMORIA") /\ relay[c] = "no"
      /\ \E o \in OpsMemoria :
           /\ aMemoria' = Append(aMemoria, [de |-> p, nro |-> ops[p], op |-> o])
           /\ relay' = [relay EXCEPT ![c] = IF o = "LECTURA" THEN "largo" ELSE "palabra"]
      /\ UNCHANGED <<vars, deMemoria, terminados, enlace, ajena>>

Espera(c, w)   == /\ relay[c] = w /\ deMemoria # <<>>
                  /\ deMemoria' = Tail(deMemoria)
DeOtro(c)      == LET p == cpu[c].p
                  IN  Head(deMemoria).de # p \/ Head(deMemoria).nro # ops[p]

Entregar_AlQuePidio(c) ==
  /\ EnOp(c, "MEMORIA")
  /\ Responder(Head(deMemoria).de)
  /\ IrCPU(c, "mientras")
  /\ relay' = [relay EXCEPT ![c] = "no"]
  /\ ajena' = (ajena \/ DeOtro(c))
  /\ UNCHANGED <<aMemoria, terminados, enlace, indefinido, fase, pedido, ops,
                 pcb, listas, sem, globales, otros, llegando, planificadores>>

(* The answer goes to the carpincho of this CPU, whoever asked for it.     *)
Entregar(c) ==
  /\ OpMemoria(c)
  /\ relay' = [relay EXCEPT ![c] = "no"]
  /\ ajena' = (ajena \/ DeOtro(c))
  /\ UNCHANGED <<aMemoria, terminados, enlace>>

Perder(e) ==
  /\ enlace' = e
  /\ UNCHANGED <<vars, aMemoria, relay, terminados, ajena>>

RelayPalabra(c) ==
  /\ Espera(c, "palabra")
  /\ IF Head(deMemoria).clase \in {"palabra", "fallo"}
     THEN Entregar(c) ELSE Perder("desalineado")

RelayLargo_SinDatos(c) ==
  /\ Espera(c, "largo")
  /\ IF Head(deMemoria).clase = "largo"
     THEN Entregar(c) ELSE Perder("desalineado")

(* A word taken for a length: memcpy to a null when it is negative, a wait *)
(* for bytes of the answers that follow when it is not.                    *)
RelayLargo(c) ==
  /\ Espera(c, "largo")
  /\ LET clase == Head(deMemoria).clase
     IN  \/ /\ clase = "largo"
            /\ relay' = [relay EXCEPT ![c] = "datos"]
            /\ ajena' = (ajena \/ DeOtro(c))
            /\ UNCHANGED <<vars, aMemoria, terminados, enlace>>
         \/ clase \in {"fallo", "palabra"} /\ Perder("caido")
         \/ clase \in {"datos", "palabra"} /\ Perder("desalineado")

RelayDatos(c) ==
  /\ Espera(c, "datos")
  /\ IF Head(deMemoria).clase = "datos"
     THEN Entregar(c) ELSE Perder("desalineado")

Relay(c) == RelayEnviar(c) \/ RelayPalabra(c) \/ RelayLargo(c) \/ RelayDatos(c)

-----------------------------------------------------------------------------
(* finalizarProceso with finalizacionCarpincho: the notice carries the PID *)
(* of the PCB, which is -1 after a DESTROY of what the process waited for. *)
(* Nobody reads the answer.                                                *)
FinalizarConAviso_Esperando ==
  /\ enlace = "bien"
  /\ Finalizar
  /\ aMemoria' = Append(aMemoria, [de |-> pcb[Head(exit)].pid, nro |-> 0, op |-> "FIN"])
  /\ UNCHANGED <<deMemoria, relay, terminados, enlace, ajena>>

FinalizarConAviso_OtroPID ==
  /\ Finalizar
  /\ aMemoria' = Append(aMemoria, [de |-> pcb[Last(exit)].pid, nro |-> 0, op |-> "FIN"])
  /\ UNCHANGED <<deMemoria, relay, terminados, enlace, ajena>>

FinalizarConAviso_SinAviso ==
  /\ Finalizar
  /\ UNCHANGED conexion

FinalizarConAviso ==
  /\ Finalizar
  /\ aMemoria' = Append(aMemoria, [de |-> pcb[Head(exit)].pid, nro |-> 0, op |-> "FIN"])
  /\ UNCHANGED <<deMemoria, relay, terminados, enlace, ajena>>

-----------------------------------------------------------------------------
(* recibirOperaciones and server_procesar_mensaje, on the thread of this   *)
(* connection.  PROCESS_ENDED has the code of its case FINALIZACION.       *)
Contestar(s, clase) ==
  LET m == Head(aMemoria) IN Append(s, [de |-> m.de, nro |-> m.nro, clase |-> clase])

TerminarSiEsFIN(m) ==
  terminados' = terminados \cup (IF m.op = "FIN" THEN {m.de} \cap Procs ELSE {})

MemAtender_SinFallo ==
  LET m == Head(aMemoria)
  IN  /\ enlace = "bien" /\ aMemoria # <<>>
      /\ aMemoria' = Tail(aMemoria)
      /\ \/ m.op # "LECTURA" /\ deMemoria' = Contestar(deMemoria, "palabra")
         \/ m.op = "LECTURA" /\ deMemoria' = Contestar(Contestar(deMemoria, "largo"), "datos")
         \/ m.op = "LECTURA" /\ UNCHANGED deMemoria
      /\ TerminarSiEsFIN(m)
      /\ UNCHANGED <<vars, relay, enlace, ajena>>

MemAtender ==
  LET m == Head(aMemoria)
  IN  /\ enlace = "bien" /\ aMemoria # <<>>
      /\ aMemoria' = Tail(aMemoria)
      /\ \/ m.op # "LECTURA" /\ deMemoria' = Contestar(deMemoria, "palabra")
         \/ m.op = "LECTURA" /\ deMemoria' = Contestar(Contestar(deMemoria, "largo"), "datos")
         \/ m.op = "LECTURA" /\ deMemoria' = Contestar(deMemoria, "fallo")
      /\ TerminarSiEsFIN(m)
      /\ UNCHANGED <<vars, relay, enlace, ajena>>

(* A page fault whose page the swap does not send: the memory never        *)
(* answers this request, nor any other.                                    *)
MemColgarse ==
  /\ enlace = "bien" /\ aMemoria # <<>> /\ Head(aMemoria).op # "FIN"
  /\ enlace' = "colgada"
  /\ UNCHANGED <<vars, aMemoria, deMemoria, relay, terminados, ajena>>

-----------------------------------------------------------------------------
(* The rest of the kernel does not touch the connection.                   *)
CPUAparte(c) == ~EnOp(c, "MEMORIA") /\ CPU(c)

NextMemoria ==
  /\ Vive
  /\ \/ /\ \/ \E p \in Procs : Carpincho(p)
           \/ Llegada \/ PLP \/ PCP \/ PMP \/ PIO
           \/ \E c \in CPUs : CPUAparte(c)
        /\ UNCHANGED conexion
     \/ FinalizarConAviso
     \/ \E c \in CPUs : Relay(c)
     \/ MemAtender \/ MemColgarse

SpecMemoria == InitMemoria /\ [][NextMemoria]_varsMemoria

(* The threads of the kernel, and that of the memory, run on the host's    *)
(* schedulers: each of them keeps taking the steps that stay enabled.      *)
(* Carpinchos owe nothing, and neither does the swap (MemColgarse).        *)
FairnessMemoria ==
  /\ WF_varsMemoria(Vive /\ Llegada /\ UNCHANGED conexion)
  /\ WF_varsMemoria(Vive /\ PLP /\ UNCHANGED conexion)
  /\ WF_varsMemoria(Vive /\ PCP /\ UNCHANGED conexion)
  /\ WF_varsMemoria(Vive /\ PMP /\ UNCHANGED conexion)
  /\ WF_varsMemoria(Vive /\ PIO /\ UNCHANGED conexion)
  /\ WF_varsMemoria(Vive /\ FinalizarConAviso)
  /\ \A c \in CPUs :
       WF_varsMemoria(Vive /\ ((CPUAparte(c) /\ UNCHANGED conexion) \/ Relay(c)))
  /\ WF_varsMemoria(Vive /\ MemAtender)

FairSpecMemoria == SpecMemoria /\ FairnessMemoria

-----------------------------------------------------------------------------
Mensaje == [de : Procs \cup {Nada}, nro : Nat, op : OpsMemoria \cup {"FIN"}]
Respuesta == [de : Procs \cup {Nada}, nro : Nat,
              clase : {"palabra", "largo", "datos", "fallo"}]

TipoConexion ==
  /\ aMemoria \in Seq(Mensaje)
  /\ deMemoria \in Seq(Respuesta)
  /\ relay \in [CPUs -> {"no", "palabra", "largo", "datos"}]
  /\ terminados \in SUBSET Procs
  /\ enlace \in {"bien", "colgada", "desalineado", "caido"}
  /\ ajena \in BOOLEAN

(* Nobody reads the answer to PROCESS_ENDED (kernel.c:1221): at any time   *)
(* the requests to serve and the answers to read are those the CPUs wait   *)
(* for and one more for each process that ended.  So no CPU waits for an   *)
(* answer that will not come, and every finished process shifts by one the *)
(* answers that all the later requests get.                                *)
EsperaRespuesta == {c \in CPUs : relay[c] \in {"palabra", "largo"}}
Cabezas(s) == {i \in DOMAIN s : s[i].clase # "datos"}

RespuestasDeMas ==
  enlace \in {"bien", "colgada"} =>
    Len(aMemoria) + Cardinality(Cabezas(deMemoria))
      = Cardinality(EsperaRespuesta) + Cardinality(liberados)

(* The memory of a process is released once, after the last of its         *)
(* requests was served: a request served later would create the process    *)
(* again in the memory (memory_memalloc), and nothing would remove it.     *)
(* Only the processes whose PID a DESTROY had overwritten are left out.    *)
AvisosDe(p)   == {i \in DOMAIN aMemoria : aMemoria[i].de = p /\ aMemoria[i].op = "FIN"}
PedidosDe(p)  == {i \in DOMAIN aMemoria : aMemoria[i].de = p /\ aMemoria[i].op # "FIN"}

FinEnOrden ==
  \A p \in Procs :
    /\ p \in liberados /\ pcb[p].pid = p =>
         Cardinality(AvisosDe(p)) + Valor(p \in terminados) = 1
    /\ \A i \in AvisosDe(p) : \A j \in PedidosDe(p) : j < i
    /\ p \in terminados => PedidosDe(p) = {}

(* With one CPU the answers can only be crossed by a process that ended.   *)
RespuestaPropia ==
  Cardinality(CPUs) = 1 /\ liberados = {} => ~ajena /\ enlace # "desalineado"

(* The connection does not change what the scheduler promises.             *)
ImplementaKernel == Spec

(* Liveness: a request relayed to the memory gets an answer, its own or    *)
(* another's, while the memory and the connection live.                    *)
RelaySeContesta ==
  \A c \in CPUs :
    relay[c] # "no" ~> (relay[c] = "no" \/ indefinido \/ enlace # "bien")

(* Liveness: a memory that hangs stops no more than the CPUs that wait for *)
(* it: arrivals are still admitted, and a process that finished still has  *)
(* its PCB freed and gives its slot back (finalizacionCarpincho sends and  *)
(* does not wait).                                                         *)
LlegadaAunqueCuelgue ==
  GRADO >= Cardinality(Procs) =>
    \A p \in Procs : fase[p] = "conectado" ~> (p \in Entrados \/ ~Vive)

FinAunqueCuelgue ==
  \A p \in Procs : pcb[p].status = "FINISHED" ~> (p \in liberados \/ ~Vive)
=============================================================================
