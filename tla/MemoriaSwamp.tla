----------------------------- MODULE MemoriaSwamp -----------------------------
(***************************************************************************)
(* The paging of the memory (Paginacion) with the swap server (Swamp)      *)
(* behind its socket: what Paginacion supposes of the swap is here what    *)
(* the server does with its files.                                         *)
(*                                                                         *)
(* The memory serves one connection, so one operation is under way at a    *)
(* time.  A replacement takes two steps: the page that leaves is written   *)
(* to the swap (Sacar), then its frame is reused, for a page read from the *)
(* swap (Traer) or for a new one (Ocupar).  The client reads the answer to *)
(* a write and ignores it.  Pages are asked for before they are created    *)
(* (Pedir), and check_size_swamp keeps the answer, 1 or -1, in a bool: it  *)
(* is true both ways.                                                      *)
(*                                                                         *)
(* The server that breaks (indefinido) stops the model: the memory dies    *)
(* with it, of its next send.                                              *)
(***************************************************************************)
EXTENDS Integers, FiniteSets, Sequences

CONSTANTS
  Carpinchos, MaxPaginas, Contenidos, Enteros, Vacio, Roto, Nada,
  MARCOS, ENTRADAS, MARCOS_POR_CARPINCHO, TIPO_ASIGNACION,
  ALGORITMO_REEMPLAZO_MMU, ALGORITMO_REEMPLAZO_TLB, MaxReloj,   \* Paginacion
  Cero, Basura, Peso, F, N, Maximo, Pisa                        \* Swamp

(* What a replacement under way is told by.                                *)
Salidas == [v : Carpinchos \X (1..MaxPaginas), p : Carpinchos \X (1..MaxPaginas),
            para : Contenidos \cup {Nada, "crear"}]

ASSUME MemoriaSwampAssumption ==
  /\ IsFiniteSet(Carpinchos)
  /\ MaxPaginas \in Nat \ {0} /\ MARCOS \in Nat \ {0} /\ ENTRADAS \in Nat \ {0}
  /\ MARCOS_POR_CARPINCHO \in Nat /\ MaxReloj \in Nat
  /\ TIPO_ASIGNACION \in {"FIJA", "DINAMICA"}
  /\ ALGORITMO_REEMPLAZO_MMU \in {"M-CLOCK", "LRU"}
  /\ ALGORITMO_REEMPLAZO_TLB \in {"FIFO", "LRU"}
  /\ F \in Nat \ {0} /\ N \in Nat \ {0} /\ Maximo \in Nat \ {0} /\ Pisa \in Nat
  /\ Enteros \subseteq Contenidos \cup {Vacio}
  /\ Vacio \notin Contenidos /\ Roto \notin Contenidos \cup {Vacio}
  /\ {Cero, Basura} \cap (Contenidos \cup {Vacio, Roto}) = {}
  /\ Peso \in [Contenidos \cup {Vacio, Roto, Cero, Basura} -> Nat]
  /\ Nada \notin Contenidos \cup {Vacio, Roto} \cup Carpinchos \cup Nat
  /\ Nada \notin Carpinchos \X (1..MaxPaginas)
  /\ "crear" \notin Contenidos \cup {Nada} /\ Nada \notin Salidas

VARIABLES
  estado, fase, cantidad, pag, marcos, cache, tlb, tlb_fifo_pointer,
  algoritm_stack_pointer, contador_timestamp, contador_timestamp_tlb,
  indefinido, colgado, conectado, casoAsignacion, marcosSwap, registrados,
  archivo, cantMarcos, disco, dejado, permiso,
  pedidas,       \* pages granted to a carpincho and not yet created
  saliente       \* the replacement under way: page that leaves, page it is
                 \* for, and what for (Nada, "crear", or what to write)

CapSwap == F * N
Guardables == Contenidos \cup {Vacio, Roto}
Caso == IF TIPO_ASIGNACION = "FIJA" THEN "FIJA" ELSE "GLOBAL"

S == INSTANCE Swamp WITH
       PIDs <- Carpinchos, Paginas <- 1..MaxPaginas, Datos <- Guardables,
       CasosMemoria <- {Caso}, MinCuenta <- 0,
       marcos <- marcosSwap, carpinchos <- registrados, enSwap <- dejado

(* What the swap would send of a page.                                     *)
Recibido(p, l) == LET dato == S!Contenido(archivo[p[1]], l)
                  IN  IF dato = Basura THEN Roto ELSE dato
EnDisco(p) == IF \E l \in S!Lugares : S!Conseguir(p[1], p[2], l)
              THEN Recibido(p, CHOOSE l \in S!Lugares : S!Conseguir(p[1], p[2], l))
              ELSE Nada

(* While a replacement is under way, the memory still holds the page that  *)
(* leaves.                                                                 *)
EnSwapVisto ==
  [p \in Carpinchos \X (1..MaxPaginas) |->
     IF saliente # Nada /\ p = saliente.v THEN Nada ELSE EnDisco(p)]

Mem == INSTANCE Paginacion WITH enSwap <- EnSwapVisto, Compacta <- FALSE

varsSwamp == <<indefinido, colgado, conectado, casoAsignacion, marcosSwap,
               registrados, archivo, cantMarcos, disco, dejado, permiso>>
varsMemoria == <<estado, fase, cantidad, pag, marcos, cache, tlb,
                 tlb_fifo_pointer, algoritm_stack_pointer, contador_timestamp,
                 contador_timestamp_tlb>>
vars == <<varsMemoria, varsSwamp, pedidas, saliente>>

Init == /\ S!Init
        /\ pedidas = [c \in Carpinchos |-> 0] /\ saliente = Nada
        /\ Mem!Init

Libre == /\ estado = "anda" /\ ~indefinido /\ saliente = Nada
Ociosa == Libre /\ \A c \in Carpinchos : pedidas[c] = 0

-----------------------------------------------------------------------------
(* enviar_tipo_asignacion *)
Conectar ==
  /\ S!CasoAsignacion
  /\ UNCHANGED <<varsMemoria, pedidas, saliente>>

(* enviar_consulta_puede_escribir_en_swap *)
Consultar(c, n) == \E a \in S!Archivos : S!PuedeEscribir(c, a, n)

(* memory_memalloc and check_alloc, when new pages are needed: the answer  *)
(* of the swap changes nothing.  Under FIJA a carpincho asks for no more   *)
(* than its frames.                                                        *)
Pedir(c, n) ==
  /\ Ociosa /\ conectado /\ fase[c] \in {"nuevo", "vivo"}
  /\ cantidad[c] + n <= MaxPaginas
  /\ TIPO_ASIGNACION = "FIJA" /\ fase[c] = "vivo" =>
       cantidad[c] + n <= MARCOS_POR_CARPINCHO
  /\ Consultar(c, n)
  /\ pedidas' = [pedidas EXCEPT ![c] = IF indefinido' THEN 0 ELSE n]
  /\ fase' = [fase EXCEPT ![c] = IF indefinido' THEN @ ELSE "vivo"]
  /\ UNCHANGED <<estado, cantidad, pag, marcos, cache, tlb, tlb_fifo_pointer,
                 algoritm_stack_pointer, contador_timestamp,
                 contador_timestamp_tlb, saliente>>

-----------------------------------------------------------------------------
(* swampear_pagina and swampear_pagina_when_create_page, up to the answer  *)
(* to the write, which nobody looks at.                                    *)
Enviar_SoloModificadas(v) ==
  IF pag[v].modif
    THEN \E a \in S!Archivos : S!Escribir(v[1], a, v[2], cache[pag[v].marco])
    ELSE UNCHANGED varsSwamp

Enviar(v) ==
  IF Mem!SeEnvia(v)
    THEN \E a \in S!Archivos : S!Escribir(v[1], a, v[2], cache[pag[v].marco])
    ELSE UNCHANGED varsSwamp

Sacar(c, p, para) ==
  \/ /\ UNCHANGED <<varsSwamp, pedidas, saliente>>
     /\ Mem!SinVictima(c) \/ Mem!PunteroAfuera(c)
  \/ \E v \in Mem!Paginas :
       /\ Mem!Victima(c, v)
       /\ IF para # "crear" /\ ~Mem!EnMarco(v)
            THEN /\ UNCHANGED <<varsSwamp, pedidas, saliente>>
                 /\ Mem!SeRompe("inconsistente")
            ELSE /\ Enviar(v)
                 /\ saliente' = IF indefinido' THEN Nada
                                ELSE [v |-> v, p |-> p, para |-> para]
                 /\ estado' = IF indefinido' THEN "swap_lleno" ELSE "anda"
                 /\ UNCHANGED <<fase, cantidad, pag, marcos, cache, tlb,
                                tlb_fifo_pointer, algoritm_stack_pointer,
                                contador_timestamp, contador_timestamp_tlb,
                                pedidas>>

-----------------------------------------------------------------------------
(* create_pagina *)
Crear(c) ==
  LET p == <<c, cantidad[c] + 1>> IN
  /\ Libre /\ pedidas[c] > 0 /\ Mem!Atiende(c)
  /\ IF Mem!PuedeSumarMarco(c)
       THEN /\ UNCHANGED <<varsSwamp, saliente>>
            /\ pedidas' = [pedidas EXCEPT ![c] = @ - 1]
            /\ Mem!CrearEnLibre(c, p)
       ELSE Sacar(c, p, "crear")

Ocupar ==
  /\ saliente # Nada /\ estado = "anda" /\ saliente.para = "crear"
  /\ UNCHANGED varsSwamp
  /\ saliente' = Nada
  /\ pedidas' = [pedidas EXCEPT ![saliente.p[1]] = @ - 1]
  /\ IF Mem!TlbRota(saliente.v) THEN Mem!SeRompe("tlb")
     ELSE Mem!Reemplazar(saliente.p[1], saliente.p, saliente.v)

-----------------------------------------------------------------------------
(* leer_en_pagina and escribir_en_pagina *)
Acceder(p, d) ==
  /\ Ociosa /\ Mem!Atiende(p[1]) /\ Mem!Existe(p)
  /\ \/ /\ UNCHANGED <<varsSwamp, pedidas, saliente>>
        /\ Mem!AccederEnTlb(p, d) \/ Mem!AccederEnMarco(p, d)
     \/ /\ ~Mem!EnTlb(p) /\ ~Mem!EnMarco(p)
        /\ Sacar(p[1], p, d)

(* lectura_swamp: the page, or no answer at all.                           *)
Traer ==
  /\ saliente # Nada /\ estado = "anda" /\ saliente.para # "crear"
  /\ LET p == saliente.p IN
     \/ \E l \in S!Lugares :
          /\ S!LeerPagina(p[1], p[2], l)
          /\ saliente' = Nada
          /\ pedidas' = pedidas
          /\ IF Mem!TlbRota(saliente.v) THEN Mem!SeRompe("tlb")
             ELSE Mem!Cargar(p, saliente.para, saliente.v, Recibido(p, l))
     \/ /\ S!LeerAusente(p[1], p[2])
        /\ estado' = "colgada"
        /\ UNCHANGED <<fase, cantidad, pag, marcos, cache, tlb, tlb_fifo_pointer,
                       algoritm_stack_pointer, contador_timestamp,
                       contador_timestamp_tlb, pedidas, saliente>>
     \/ /\ S!LeerDesconocido(p[1])
        /\ estado' = "swap_lleno"
        /\ UNCHANGED <<fase, cantidad, pag, marcos, cache, tlb, tlb_fifo_pointer,
                       algoritm_stack_pointer, contador_timestamp,
                       contador_timestamp_tlb, pedidas, saliente>>

(* memory_memfree_all: the swap is not told.                               *)
Terminar(c) ==
  /\ Ociosa
  /\ UNCHANGED <<varsSwamp, pedidas, saliente>>
  /\ Mem!Terminar(c)

-----------------------------------------------------------------------------
Next ==
  \/ Conectar \/ Ocupar \/ Traer
  \/ \E c \in Carpinchos : \/ Crear(c) \/ Terminar(c)
                           \/ \E n \in 1..MaxPaginas : Pedir(c, n)
  \/ \E p \in Mem!Paginas, d \in Contenidos \cup {Nada} : Acceder(p, d)

Spec == Init /\ [][Next]_vars

-----------------------------------------------------------------------------
(* With one file, pages of 64 bytes and global assignment the server is    *)
(* the swap Paginacion supposes: a store of F * N pages that hands over    *)
(* what it was given and dies of the page too many.                        *)
SwapIdeal == Mem!Spec

(* End to end: a page keeps what was last written to it through frames,    *)
(* TLB and the files of the swap.                                          *)
MemoriaPlana == Mem!P!Spec

TlbCoherente == Mem!TlbCoherente

(* Under LRU and global assignment the memory never waits for a page the   *)
(* swap does not send (swamp.c:652).                                       *)
SiempreContesta ==
  ALGORITMO_REEMPLAZO_MMU = "LRU" /\ Caso = "GLOBAL" => estado # "colgada"

(* Nobody honours the swap's refusals (memory.c:1897), and yet, with one   *)
(* file, the swap only breaks when there is no room left anywhere: every   *)
(* frame of the memory and every frame of the swap holds a page of its own.*)
EnMemoria == {marcos[f] : f \in Mem!Marcos} \ {Nada}
EnElSwap  == {p \in Mem!Paginas : EnSwapVisto[p] # Nada}
MuereLleno ==
  indefinido /\ F = 1 /\ Caso = "GLOBAL" =>
    /\ EnMemoria \cap EnElSwap = {}
    /\ Cardinality(EnMemoria \cup EnElSwap) = MARCOS + N
=============================================================================
