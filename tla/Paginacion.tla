------------------------------ MODULE Paginacion ------------------------------
(***************************************************************************)
(* The paging of the memory (memoria/src/memory.c): frames, TLB, page      *)
(* replacement and the traffic with the swap.  The steps are the calls the *)
(* allocator makes, create_pagina, leer_en_pagina and escribir_en_pagina,  *)
(* what a compaction and the end of a carpincho do to the pages, all under *)
(* mutex_memalloc (the end of a carpincho does not take it).               *)
(*                                                                         *)
(* A page is <<PID, number>>.  The swap is seen through client.c: a write  *)
(* stores the page, a read hands it over and frees its place, and a page   *)
(* that is not there gets no answer (Swamp models the server).             *)
(*                                                                         *)
(* estado tells how the memory stopped, if it did:                         *)
(*   "colgada"       it waits for an answer the swap will not send         *)
(*   "sin_victima"   the list of pages to replace was empty                *)
(*   "puntero"       the hand of M-CLOCK was past the end of that list     *)
(*   "tlb"           actualizar_tlb took a page for a TLB entry            *)
(*   "inconsistente" a branch the code reports as an inconsistency         *)
(*   "liberada"      a page in a list was freed                            *)
(*   "swap_lleno"    the swap had no frame for a page and died             *)
(*                                                                         *)
(* An operator with an underscore in its name is not part of the           *)
(* specification: it is the next definition with a plausible mistake.      *)
(***************************************************************************)
EXTENDS Integers, FiniteSets

CONSTANTS
  Carpinchos, MaxPaginas,
  Contenidos,       \* what a page may be written with
  Enteros,          \* the contents the swap gives back as they were
  Vacio,            \* a page of '_'
  Roto,             \* what the swap gives back for the other contents
  Nada,             \* NULL, -1
  MARCOS, ENTRADAS, MARCOS_POR_CARPINCHO,
  TIPO_ASIGNACION, ALGORITMO_REEMPLAZO_MMU, ALGORITMO_REEMPLAZO_TLB,
  CapSwap,          \* frames of the swap
  Compacta,         \* whether carpinchos free all that is on a page
  MaxReloj          \* bound on the two time stamp counters

ASSUME PaginacionAssumption ==
  /\ IsFiniteSet(Carpinchos)
  /\ MaxPaginas \in Nat \ {0} /\ MARCOS \in Nat \ {0} /\ ENTRADAS \in Nat \ {0}
  /\ MARCOS_POR_CARPINCHO \in Nat /\ CapSwap \in Nat
  /\ MaxReloj \in Nat /\ Compacta \in BOOLEAN
  /\ TIPO_ASIGNACION \in {"FIJA", "DINAMICA"}
  /\ ALGORITMO_REEMPLAZO_MMU \in {"M-CLOCK", "LRU"}
  /\ ALGORITMO_REEMPLAZO_TLB \in {"FIFO", "LRU"}
  /\ Enteros \subseteq Contenidos \cup {Vacio}
  /\ Vacio \notin Contenidos /\ Roto \notin Contenidos \cup {Vacio}
  /\ Nada \notin Contenidos \cup {Vacio, Roto} \cup Carpinchos
  /\ Nada \notin Carpinchos \X (1..MaxPaginas) /\ Nada \notin 0..(MARCOS - 1)

Numeros  == 1..MaxPaginas
Paginas  == Carpinchos \X Numeros
Marcos   == 0..(MARCOS - 1)
Entradas == 0..(ENTRADAS - 1)

VARIABLES
  estado,
  fase,                 \* of each carpincho: "nuevo", "vivo", "terminado"
  cantidad,             \* list_size(carpincho->paginas)
  pag,                  \* t_pagina of each page
  marcos,               \* the page a frame belongs to, Nada if isFree
  cache,                \* what each frame holds
  tlb,                  \* t_tlb of each entry
  tlb_fifo_pointer,
  algoritm_stack_pointer, \* the hand of M-CLOCK: of all, and of each carpincho
  contador_timestamp, contador_timestamp_tlb,
  enSwap                \* what the swap holds of each page

relojes  == <<contador_timestamp, contador_timestamp_tlb>>
listas   == <<fase, cantidad>>
memoria  == <<pag, marcos, cache, enSwap, algoritm_stack_pointer>>
tablaTlb == <<tlb, tlb_fifo_pointer>>
vars == <<estado, listas, memoria, tablaTlb, relojes>>

PaginaNueva == [presencia |-> FALSE, marco |-> 0, uso |-> FALSE,
                modif |-> FALSE, timestamp |-> 0]

(* inicializarMemoria: only an LRU TLB draws a time stamp for each entry.  *)
Init ==
  /\ estado = "anda"
  /\ fase = [c \in Carpinchos |-> "nuevo"]
  /\ cantidad = [c \in Carpinchos |-> 0]
  /\ pag = [p \in Paginas |-> PaginaNueva]
  /\ marcos = [f \in Marcos |-> Nada]
  /\ cache = [f \in Marcos |-> Vacio]
  /\ tlb = [e \in Entradas |-> [pagina |-> Nada, marco |-> Nada, timestamp |-> 0]]
  /\ tlb_fifo_pointer = 0
  /\ algoritm_stack_pointer = [c \in Carpinchos \cup {Nada} |-> 0]
  /\ contador_timestamp = 0
  /\ contador_timestamp_tlb =
       IF ALGORITMO_REEMPLAZO_TLB = "LRU" THEN ENTRADAS ELSE 0
  /\ enSwap = [p \in Paginas |-> Nada]

-----------------------------------------------------------------------------
(* Vocabulary *)

Atiende(c) == /\ estado = "anda" /\ fase[c] = "vivo"
              /\ contador_timestamp <= MaxReloj /\ contador_timestamp_tlb <= MaxReloj
SeRompe(causa) ==
  estado' = causa /\ UNCHANGED <<listas, memoria, tablaTlb, relojes>>

Existe(p)  == p[2] <= cantidad[p[1]]
EnMarco(p) == \E f \in Marcos : marcos[f] = p      \* pagina_is_in_cache
EnTlb(p)   == \E e \in Entradas : tlb[e].pagina = p
Presentes  == {p \in Paginas : Existe(p) /\ pag[p].presencia}
MarcosDe(c) == {f \in Marcos : marcos[f] # Nada /\ marcos[f][1] = c}
Libres     == {f \in Marcos : marcos[f] = Nada}
Primero(f, S) == f \in S /\ \A g \in S : f <= g

-----------------------------------------------------------------------------
(* The TLB.  vaciar_marco_en_cache drops the entry of a frame;             *)
(* actualizar_tlb loads a page over the first free entry, or else over the *)
(* one the algorithm gives up.  Time stamps of entries matter under LRU.   *)

MarcoEnTlb_SinUltima(t, f) == \E e \in 0..(ENTRADAS - 2) : t[e].marco = f

MarcoEnTlb(t, f) == \E e \in Entradas : t[e].marco = f    \* is_marco_in_tlb

TlbSinMarco_Intacta(f) == tlb

TlbSinMarco(f) ==
  IF MarcoEnTlb(tlb, f)
    THEN [e \in Entradas |-> IF tlb[e].marco = f
                               THEN [tlb[e] EXCEPT !.pagina = Nada, !.marco = Nada]
                               ELSE tlb[e]]
    ELSE tlb

SelloTlb == IF ALGORITMO_REEMPLAZO_TLB = "LRU" THEN contador_timestamp_tlb ELSE 0

TlbLibres(t) == {e \in Entradas : t[e].pagina = Nada}
SaleDeTlb(t, e) ==
  IF TlbLibres(t) # {} THEN Primero(e, TlbLibres(t))
  ELSE IF ALGORITMO_REEMPLAZO_TLB = "FIFO" THEN e = tlb_fifo_pointer
  ELSE e \in Entradas /\ \A g \in Entradas : t[e].timestamp <= t[g].timestamp

FifoTras_SinVuelta(t) ==
  IF TlbLibres(t) = {} /\ ALGORITMO_REEMPLAZO_TLB = "FIFO"
    THEN tlb_fifo_pointer + 1 ELSE tlb_fifo_pointer

FifoTras(t) ==
  IF TlbLibres(t) = {} /\ ALGORITMO_REEMPLAZO_TLB = "FIFO"
    THEN (tlb_fifo_pointer + 1) % ENTRADAS ELSE tlb_fifo_pointer

ActualizarTlb(t, p, f) ==
  \E e \in Entradas :
     /\ SaleDeTlb(t, e)
     /\ tlb' = [t EXCEPT ![e] = [pagina |-> p, marco |-> f, timestamp |-> SelloTlb]]
     /\ tlb_fifo_pointer' = FifoTras(t)
     /\ contador_timestamp_tlb' =
          IF ALGORITMO_REEMPLAZO_TLB = "LRU" THEN contador_timestamp_tlb + 1
                                             ELSE contador_timestamp_tlb

-----------------------------------------------------------------------------
(* Which page leaves its frame: one of the carpincho's own under FIJA,     *)
(* else one of all those present.  LRU takes the oldest time stamp.        *)
(* M-CLOCK walks the list sorted by frame from the hand to its end, four   *)
(* times: not used and not modified, not used and modified (clearing the   *)
(* use bit of those it passes), and both again.  It never goes back to     *)
(* the head of the list.                                                   *)

Victimas(c) == IF TIPO_ASIGNACION = "FIJA"
                 THEN {p \in Paginas : p[1] = c /\ Existe(p) /\ EnMarco(p)}
                 ELSE Presentes

ClaveReloj(c) == IF TIPO_ASIGNACION = "FIJA" THEN c ELSE Nada
Posicion(c, p) == Cardinality({q \in Victimas(c) : pag[q].marco < pag[p].marco})
AlAlcance(c) ==
  {p \in Victimas(c) : Posicion(c, p) >= algoritm_stack_pointer[ClaveReloj(c)]}

Clase(p) == (IF pag[p].uso THEN 2 ELSE 0) + (IF pag[p].modif THEN 1 ELSE 0)
AntesEnReloj(p, q) == \/ Clase(p) < Clase(q)
                      \/ Clase(p) = Clase(q) /\ pag[p].marco <= pag[q].marco

Victima(c, v) ==
  IF ALGORITMO_REEMPLAZO_MMU = "LRU"
    THEN /\ v \in Victimas(c)
         /\ \A q \in Victimas(c) : pag[v].timestamp <= pag[q].timestamp
    ELSE v \in AlAlcance(c) /\ \A q \in AlAlcance(c) : AntesEnReloj(v, q)

(* The pages whose use bit the search for v clears.                        *)
Repasadas(c, v) ==
  IF ALGORITMO_REEMPLAZO_MMU = "LRU" \/ Clase(v) = 0 THEN {}
  ELSE IF Clase(v) = 1 THEN {p \in AlAlcance(c) : pag[p].marco < pag[v].marco}
  ELSE AlAlcance(c)

PunteroTras_SinVuelta(c, v) ==
  IF ALGORITMO_REEMPLAZO_MMU = "LRU" THEN algoritm_stack_pointer
  ELSE [algoritm_stack_pointer EXCEPT ![ClaveReloj(c)] = Posicion(c, v) + 1]

PunteroTras(c, v) ==
  IF ALGORITMO_REEMPLAZO_MMU = "LRU" THEN algoritm_stack_pointer
  ELSE [algoritm_stack_pointer EXCEPT ![ClaveReloj(c)] =
          (Posicion(c, v) + 1) % Cardinality(Victimas(c))]

SinVictima(c) == /\ Victimas(c) = {}
                 /\ SeRompe("sin_victima")
PunteroAfuera(c) == /\ ALGORITMO_REEMPLAZO_MMU = "M-CLOCK"
                    /\ Victimas(c) # {} /\ AlAlcance(c) = {}
                    /\ SeRompe("puntero")

-----------------------------------------------------------------------------
(* The swap, as client.c uses it.                                          *)

(* M-CLOCK leaves a page that was never modified where it is: nowhere.     *)
SeEnvia_SiNo(v) == ALGORITMO_REEMPLAZO_MMU = "LRU" \/ ~pag[v].modif

SeEnvia(v) == ALGORITMO_REEMPLAZO_MMU = "LRU" \/ pag[v].modif

VueltaDe(d) == IF d \in Enteros THEN d ELSE Roto
SwapLleno == Cardinality({p \in Paginas : enSwap[p] # Nada}) >= CapSwap
NoEntra(v) == SeEnvia(v) /\ SwapLleno

SwapCon(v) == IF SeEnvia(v) THEN [enSwap EXCEPT ![v] = VueltaDe(cache[pag[v].marco])]
                            ELSE enSwap

(* The victim's record once it has left: the use bits cleared by the       *)
(* search, presence off, marco NULL.                                       *)
PagSin(c, v) ==
  [p \in Paginas |->
     [pag[p] EXCEPT !.uso = @ /\ p \notin Repasadas(c, v),
                    !.presencia = @ /\ p # v,
                    !.marco = IF p = v THEN 0 ELSE @]]

-----------------------------------------------------------------------------
(* create_carpincho *)

CrearCarpincho(c) ==
  /\ estado = "anda" /\ fase[c] = "nuevo"
  /\ fase' = [fase EXCEPT ![c] = "vivo"]
  /\ UNCHANGED <<estado, cantidad, memoria, tablaTlb, relojes>>

-----------------------------------------------------------------------------
(* create_pagina *)

PuedeSumarMarco_DeMas(c) == Cardinality(Presentes) <= MARCOS /\ Libres # {}

PuedeSumarMarco(c) ==
  /\ Cardinality(Presentes) <= MARCOS /\ Libres # {}
  /\ TIPO_ASIGNACION = "FIJA" => Cardinality(MarcosDe(c)) < MARCOS_POR_CARPINCHO

Sello(k) == IF ALGORITMO_REEMPLAZO_MMU = "LRU" THEN contador_timestamp + k ELSE 0
RelojTras(k) == contador_timestamp' =
  contador_timestamp + k + (IF ALGORITMO_REEMPLAZO_MMU = "LRU" THEN 1 ELSE 0)

Nueva(f) == [presencia |-> TRUE, marco |-> f,
             uso |-> ALGORITMO_REEMPLAZO_MMU = "M-CLOCK",
             modif |-> FALSE, timestamp |-> Sello(0)]

AgregarPagina(c, p, f, t, pg) ==
  /\ ActualizarTlb(t, p, f)
  /\ marcos' = [marcos EXCEPT ![f] = p]
  /\ pag' = [pg EXCEPT ![p] = Nueva(f)]
  /\ cantidad' = [cantidad EXCEPT ![c] = @ + 1]
  /\ RelojTras(0)
  /\ UNCHANGED <<estado, fase>>

CrearEnLibre(c, p) ==
  \E f \in Marcos :
     /\ Primero(f, Libres)
     /\ IF MarcoEnTlb(tlb, f) THEN SeRompe("tlb")
        ELSE /\ AgregarPagina(c, p, f, tlb, pag)
             /\ UNCHANGED <<cache, enSwap, algoritm_stack_pointer>>

(* swampear_pagina_when_create_page *)
Reemplazar(c, p, v) ==
  LET f == pag[v].marco IN
  /\ AgregarPagina(c, p, f, TlbSinMarco(f), PagSin(c, v))
  /\ cache' = [cache EXCEPT ![f] = Vacio]
  /\ algoritm_stack_pointer' = PunteroTras(c, v)

TlbRota(v) == MarcoEnTlb(TlbSinMarco(pag[v].marco), pag[v].marco)

CrearReemplazando(c, p) ==
  \/ SinVictima(c) \/ PunteroAfuera(c)
  \/ \E v \in Paginas :
       /\ Victima(c, v)
       /\ IF NoEntra(v) THEN SeRompe("swap_lleno")
          ELSE IF TlbRota(v) THEN SeRompe("tlb")
          ELSE Reemplazar(c, p, v) /\ enSwap' = SwapCon(v)

CrearPagina(c) ==
  LET p == <<c, cantidad[c] + 1>> IN
  /\ Atiende(c) /\ cantidad[c] < MaxPaginas
  /\ IF PuedeSumarMarco(c) THEN CrearEnLibre(c, p) ELSE CrearReemplazando(c, p)

-----------------------------------------------------------------------------
(* leer_en_pagina (d = Nada) and escribir_en_pagina.  A page that came     *)
(* back damaged may stay so under a write that covers part of it.          *)

Queda(x, d) == IF d = Nada THEN {x} ELSE {d} \cup ({x} \cap {Roto})

Accedida(x, f, d, k) ==
  [x EXCEPT !.presencia = TRUE, !.marco = f,
            !.uso = (ALGORITMO_REEMPLAZO_MMU = "M-CLOCK"),
            !.modif = @ \/ (ALGORITMO_REEMPLAZO_MMU = "M-CLOCK" /\ d # Nada),
            !.timestamp = Sello(k)]

Usar(p, f, d, k, pg, ch) ==
  /\ pag' = [pg EXCEPT ![p] = Accedida(@, f, d, k)]
  /\ \E x \in Queda(ch[f], d) : cache' = [ch EXCEPT ![f] = x]
  /\ RelojTras(k)
  /\ UNCHANGED <<estado, listas>>

(* In the TLB.  The entry's time stamp is drawn twice, from the counter of *)
(* the pages, under LRU.                                                   *)
Toques == IF ALGORITMO_REEMPLAZO_TLB = "LRU" THEN 2 ELSE 0
Tocada(e) == IF ALGORITMO_REEMPLAZO_TLB = "LRU"
               THEN [tlb EXCEPT ![e].timestamp = contador_timestamp + 1] ELSE tlb

AccederEnTlb(p, d) ==
  \E e \in Entradas :
     LET f == tlb[e].marco IN
     /\ Primero(e, {g \in Entradas : tlb[g].pagina = p})
     /\ IF marcos[f] # p THEN SeRompe("inconsistente")
        ELSE /\ Usar(p, f, d, Toques, pag, cache)
             /\ tlb' = Tocada(e)
             /\ UNCHANGED <<marcos, enSwap, algoritm_stack_pointer,
                            tlb_fifo_pointer, contador_timestamp_tlb>>

AccederEnMarco(p, d) ==
  /\ ~EnTlb(p)
  /\ \E f \in Marcos :
       /\ Primero(f, {g \in Marcos : marcos[g] = p})
       /\ IF MarcoEnTlb(tlb, f) THEN SeRompe("tlb")
          ELSE /\ ActualizarTlb(tlb, p, f)
               /\ Usar(p, f, d, 0, pag, cache)
               /\ UNCHANGED <<marcos, enSwap, algoritm_stack_pointer>>

(* swampear_pagina: the page arrives from the swap as x, into the frame    *)
(* of v.                                                                   *)
Cargar(p, d, v, x) ==
  LET f == pag[v].marco IN
  /\ ActualizarTlb(TlbSinMarco(f), p, f)
  /\ marcos' = [marcos EXCEPT ![f] = p]
  /\ Usar(p, f, d, 0, PagSin(p[1], v), [cache EXCEPT ![f] = x])
  /\ algoritm_stack_pointer' = PunteroTras(p[1], v)

TraerDeSwap(p, d, v) ==
  IF TlbRota(v) THEN SeRompe("tlb")
  ELSE Cargar(p, d, v, enSwap[p]) /\ enSwap' = [SwapCon(v) EXCEPT ![p] = Nada]

AccederEnSwap(p, d) ==
  /\ ~EnTlb(p) /\ ~EnMarco(p)
  /\ \/ SinVictima(p[1]) \/ PunteroAfuera(p[1])
     \/ \E v \in Paginas :
          /\ Victima(p[1], v)
          /\ IF ~EnMarco(v) THEN SeRompe("inconsistente")
             ELSE IF NoEntra(v) THEN SeRompe("swap_lleno")
             ELSE IF enSwap[p] = Nada THEN SeRompe("colgada")
             ELSE TraerDeSwap(p, d, v)

Acceder(p, d) ==
  /\ Atiende(p[1]) /\ Existe(p)
  /\ AccederEnTlb(p, d) \/ AccederEnMarco(p, d) \/ AccederEnSwap(p, d)

Leer(p) == Acceder(p, Nada)
Escribir(p, d) == Acceder(p, d)

-----------------------------------------------------------------------------
(* compactar_pagina takes the first page out of the list and frees the one *)
(* that follows it; frames, TLB and swap are left as they are.             *)

QuitarPagina(c) ==
  /\ Compacta /\ Atiende(c) /\ cantidad[c] > 0
  /\ \/ cantidad[c] > 1 /\ SeRompe("liberada")
     \/ /\ cantidad[c] = 1
        /\ cantidad' = [cantidad EXCEPT ![c] = 0]
        /\ UNCHANGED <<estado, fase, memoria, tablaTlb, relojes>>

(* memory_memfree_all *)
Terminar(c) ==
  /\ estado = "anda" /\ fase[c] = "vivo"
  /\ fase' = [fase EXCEPT ![c] = "terminado"]
  /\ cantidad' = [cantidad EXCEPT ![c] = 0]
  /\ UNCHANGED <<estado, memoria, tablaTlb, relojes>>

-----------------------------------------------------------------------------
Next ==
  \/ \E c \in Carpinchos : \/ CrearCarpincho(c) \/ CrearPagina(c)
                           \/ QuitarPagina(c) \/ Terminar(c)
  \/ \E p \in Paginas : \/ Leer(p)
                        \/ \E d \in Contenidos : Escribir(p, d)

Spec == Init /\ [][Next]_vars

-----------------------------------------------------------------------------
(* Every variable holds what its C type and the bounds allow.              *)
TypeOK ==
  /\ estado \in {"anda", "colgada", "sin_victima", "puntero", "tlb",
                 "inconsistente", "liberada", "swap_lleno"}
  /\ fase \in [Carpinchos -> {"nuevo", "vivo", "terminado"}]
  /\ cantidad \in [Carpinchos -> 0..MaxPaginas]
  /\ pag \in [Paginas -> [presencia : BOOLEAN, marco : Marcos, uso : BOOLEAN,
                          modif : BOOLEAN, timestamp : Nat]]
  /\ marcos \in [Marcos -> Paginas \cup {Nada}]
  /\ cache \in [Marcos -> Contenidos \cup {Vacio, Roto}]
  /\ tlb \in [Entradas -> [pagina : Paginas \cup {Nada}, marco : Marcos \cup {Nada},
                           timestamp : Nat]]
  /\ tlb_fifo_pointer \in Entradas
  /\ algoritm_stack_pointer \in [Carpinchos \cup {Nada} -> Nat]
  /\ contador_timestamp \in Nat /\ contador_timestamp_tlb \in Nat
  /\ enSwap \in [Paginas -> Contenidos \cup {Vacio, Roto, Nada}]

(* An entry of the TLB names a frame its page is in: the translation of    *)
(* get_marco_de_tlb is never stale, in spite of the evictions, of the ends *)
(* of carpinchos and of the pages taken away.                              *)
TlbAlDia ==
  \A e \in Entradas :
     IF tlb[e].pagina = Nada THEN tlb[e].marco = Nada
     ELSE tlb[e].marco \in Marcos /\ marcos[tlb[e].marco] = tlb[e].pagina

(* While no page is taken away, moreover, no page and no frame has two     *)
(* entries (actualizar_tlb).                                               *)
TlbCoherente ==
  /\ TlbAlDia
  /\ \A e, g \in Entradas :
       e # g /\ tlb[e].pagina # Nada => /\ tlb[e].pagina # tlb[g].pagina
                                        /\ tlb[e].marco # tlb[g].marco

(* A page of a living carpincho is in one frame or in the swap, not in     *)
(* both, and only a page nobody wrote may be in neither                    *)
(* (swampear_pagina, create_pagina).                                       *)
PaginaEnUnLugar ==
  \A p \in Paginas : Existe(p) =>
     IF pag[p].presencia
       THEN enSwap[p] = Nada /\ {f \in Marcos : marcos[f] = p} = {pag[p].marco}
       ELSE /\ ~EnMarco(p)
            /\ enSwap[p] = Nada => /\ ALGORITMO_REEMPLAZO_MMU = "M-CLOCK"
                                   /\ ~pag[p].modif

(* The recovery branch of get_marco_de_tlb, the inconsistency branch of    *)
(* swampear_pagina and the branch of actualizar_tlb that hands a page to   *)
(* vaciar_pagina_tlb are never taken.                                      *)
SinInconsistencias == estado \notin {"tlb", "inconsistente"}

(* Under FIJA no carpincho takes more frames than marcos_por_carpincho     *)
(* (can_carpincho_add_marco_to_page, swampear_pagina).                     *)
CupoFija ==
  TIPO_ASIGNACION = "FIJA" =>
    \A c \in Carpinchos : Cardinality(MarcosDe(c)) <= MARCOS_POR_CARPINCHO

(* Under FIJA the hand of M-CLOCK stays within the list it walks, so a     *)
(* page to replace is always found (get_proxima_a_swampear_by_m_clock).    *)
PunteroEnLista ==
  TIPO_ASIGNACION = "FIJA" =>
    /\ estado # "puntero"
    /\ \A c \in Carpinchos : fase[c] = "vivo" /\ Victimas(c) # {} =>
         algoritm_stack_pointer[c] < Cardinality(Victimas(c))

(* What a page holds, wherever it is; a page that is nowhere was never     *)
(* written.                                                                *)
Guarda(p) ==
  CASE ~Existe(p) -> Vacio
    [] Existe(p) /\ pag[p].presencia -> cache[pag[p].marco]
    [] Existe(p) /\ ~pag[p].presencia -> IF enSwap[p] # Nada THEN enSwap[p] ELSE Vacio

P == INSTANCE Plana WITH
       mem <- [c \in Carpinchos |-> [n \in Numeros |-> Guarda(<<c, n>>)]]

(* The memory is a flat one: a page keeps what was last written to it      *)
(* through evictions, faults and the doings of other carpinchos.           *)
MemoriaPlana == P!Spec

(* memory.c:1086-1091: a page listed by two frames is an inconsistency.    *)
UnMarcoPorPagina ==
  \A f, g \in Marcos : f # g /\ marcos[f] # Nada => marcos[f] # marcos[g]
=============================================================================
