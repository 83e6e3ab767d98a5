-------------------------------- MODULE Allocs --------------------------------
(***************************************************************************)
(* The heap the memory keeps for one carpincho: the list of its allocs,    *)
(* each behind a header of 9 bytes, over the flat space of its pages       *)
(* (memoria/src/memory.c: memory_memalloc, memory_memfree,                 *)
(* memory_memwrite, memory_memread and memory_memfree_all).                *)
(*                                                                         *)
(* server.c makes every call under mutex_memalloc, and no call reads the   *)
(* heap of another carpincho: a step is a whole call for the one carpincho *)
(* of the module.  Where its pages are is the subject of Paginacion.       *)
(***************************************************************************)
EXTENDS Integers, FiniteSets, SequencesExt

CONSTANTS
  TAM,                   \* tamanio_pagina
  TIPO_ASIGNACION,
  MARCOS_POR_CARPINCHO,
  Tamanios,              \* the sizes a carpincho asks for
  MaxPaginas             \* bound: pages of the carpincho

ASSUME AllocsAssumption ==
  /\ TAM \in Nat /\ TAM > 9
  /\ TIPO_ASIGNACION \in {"FIJA", "DINAMICA"}
  /\ MARCOS_POR_CARPINCHO \in Nat \ {0}
  /\ Tamanios \subseteq Nat
  /\ MaxPaginas \in Nat

VARIABLES
  estado,    \* how the process is doing: see Estados
  existe,    \* the carpincho is in carpinchos_list
  paginas,   \* how many pages it has
  colgante,  \* the first of them is a freed structure
  allocs,    \* its list of allocs
  desordenado, \* history: an alloc other than the first has been split
  respuesta  \* to the last call: its status, and the address of an alloc

vars == <<estado, existe, paginas, colgante, allocs, desordenado, respuesta>>

META == 9

(* "caido": a null pointer was followed.  "indefinido": freed memory was   *)
(* used, or the missing return value of compactar.  "desbordado": an       *)
(* address has gone below 0; the code wraps it around 2^32 and the model   *)
(* goes no further.                                                        *)
Estados == {"vivo", "caido", "indefinido", "desbordado"}
Status  == {"EXITO", "SIN_ESPACIO", "DIRECCION_INVALIDA"}

Respuesta(s, d) == [status |-> s, direccion |-> d]

Alloc(d, t, l) == [direccion |-> d, tamanio_data |-> t, isFree |-> l]

Init ==
  /\ estado = "vivo"
  /\ existe = FALSE
  /\ paginas = 0 /\ colgante = FALSE
  /\ allocs = <<>> /\ desordenado = FALSE
  /\ respuesta = Respuesta("EXITO", 0)

-----------------------------------------------------------------------------
(* Vocabulary *)

Bruto(a) == a.tamanio_data + META
Dato(a)  == a.direccion + META
Fin(a)   == a.direccion + Bruto(a)

Ocupado(l) ==
  LET hasta[n \in 0..Len(l)] == IF n = 0 THEN 0 ELSE hasta[n - 1] + Bruto(l[n])
  IN  hasta[Len(l)]
Libre == paginas * TAM - Ocupado(allocs)

(* A definition whose name goes on after an underscore is a plausible slip *)
(* in the one it is named after, and takes no part in the specification.   *)

(* obtener_alloc_de_un_carpincho and the two searches of memory_memfree    *)
(* and memalloc_asignar_en_heap_libre: the first of the list, or 0.        *)
Contiene(a, d) == Dato(a) <= d /\ d < Fin(a)
Conteniendo(l, d) == SelectInSeq(l, LAMBDA a : Contiene(a, d))
Empezando(d) == SelectInSeq(allocs, LAMBDA a : Dato(a) = d)
LibrePara(t) == SelectInSeq(allocs, LAMBDA a : a.isFree /\ a.tamanio_data >= t)

Cantidad_UnaSiempre(libre, t) ==
  LET falta == t + META - libre IN (falta \div TAM) + 1

(* calcular_cantidad_paginas_necesaria.  It is only called for more than   *)
(* is free, so the divisions are of positive numbers.                      *)
Cantidad(libre, t) ==
  LET falta == t + META - libre IN
  IF falta % TAM = 0 THEN falta \div TAM ELSE (falta \div TAM) + 1

(* check_size_swamp makes a bool of the 1 or -1 of the swap.               *)
CheckSizeSwamp(r) == r # 0

-----------------------------------------------------------------------------
(* persistir_metadata_heap, escribir_heap_memoria_fisica: the header of an *)
(* alloc is written through get_page, which reads every page structure and *)
(* finds nothing for an address outside the pages.  0 is the position of a *)
(* search that found nothing.                                              *)
ConPagina(l, k, n) == k # 0 /\ l[k].direccion + META <= n * TAM

Persistidos(l, ks, n) ==
  IF colgante THEN "indefinido"
  ELSE IF \A k \in ks : ConPagina(l, k, n) THEN "vivo" ELSE "caido"

(* The end of memory_memalloc, headers ks already written: the alloc to    *)
(* persist is searched by the address to be returned.                      *)
Asignado(l, ks, n, d) ==
  /\ allocs' = l /\ paginas' = n
  /\ estado' = Persistidos(l, ks \union {Conteniendo(l, d)}, n)
  /\ respuesta' = Respuesta("EXITO", d)
  /\ UNCHANGED colgante

Sigue == estado = "vivo"

Partido_SinCabecera(k, t) ==
  LET a == allocs[k] IN
  InsertAt([allocs EXCEPT ![k] = Alloc(a.direccion, t, FALSE)], 2,
           Alloc(a.direccion + t + META, a.tamanio_data - t, TRUE))

(* memalloc_asignar_en_heap_libre: the remainder of a split goes after the *)
(* position list_get_index_alloc answers, which is always 0.               *)
Partido(k, t) ==
  LET a == allocs[k] IN
  InsertAt([allocs EXCEPT ![k] = Alloc(a.direccion, t, FALSE)], 2,
           Alloc(a.direccion + t + META, a.tamanio_data - t - META, TRUE))

SeParte_Siempre(k, t) == allocs[k].tamanio_data - t > 0

SeParte(k, t) == allocs[k].tamanio_data - t > META

EnHeapLibre(t) ==
  LET k == LibrePara(t) IN
  /\ k # 0
  /\ IF SeParte(k, t)
       THEN /\ Asignado(Partido(k, t), {2}, paginas, Dato(allocs[k]))
            /\ desordenado' = (desordenado \/ k # 1)
       ELSE /\ Asignado([allocs EXCEPT ![k].isFree = FALSE], {}, paginas, Dato(allocs[k]))
            /\ UNCHANGED desordenado

(* memalloc_asignar_en_pagina_con_espacio: after the last of the list.     *)
AlFinal == IF allocs = <<>> THEN 0 ELSE Fin(Last(allocs))

EnEspacio(n, t) ==
  /\ Asignado(Append(allocs, Alloc(AlFinal, t, FALSE)), {}, n, AlFinal + META)
  /\ UNCHANGED desordenado

HayLugar_SinCabecera(t) == Libre >= t

(* check_alloc: at the end of the last page.                               *)
HayLugar(t) == Libre >= t + META

BajoElLimite_SinCabecera(t) ==
  TIPO_ASIGNACION = "FIJA" =>
    (MARCOS_POR_CARPINCHO - paginas) * TAM + Libre >= t

(* check_alloc: new pages.  Under FIJA the limit is checked for a          *)
(* carpincho that exists; the one that is created asks the swap only.      *)
BajoElLimite(t) ==
  TIPO_ASIGNACION = "FIJA" =>
    (MARCOS_POR_CARPINCHO - paginas) * TAM + Libre >= t + META

SinEspacio ==
  /\ respuesta' = Respuesta("SIN_ESPACIO", 0)
  /\ UNCHANGED <<estado, paginas, colgante, allocs, desordenado>>

(* memalloc_asignar_en_paginas_nuevas, r the answer of the swap.           *)
EnPaginasNuevas(t, r) ==
  LET n == Cantidad(Libre, t) IN
  IF CheckSizeSwamp(r)
    THEN paginas + n <= MaxPaginas /\ EnEspacio(paginas + n, t)
    ELSE SinEspacio

(* memory_memalloc *)
MemAllocHeap(t) ==
  /\ Sigue /\ existe
  /\ EnHeapLibre(t)
  /\ UNCHANGED existe

MemAllocPagina(t) ==
  /\ Sigue /\ existe
  /\ LibrePara(t) = 0 /\ HayLugar(t)
  /\ EnEspacio(paginas, t)
  /\ UNCHANGED existe

MemAllocSolicitar(t, r) ==
  /\ Sigue /\ existe
  /\ LibrePara(t) = 0 /\ ~HayLugar(t)
  /\ IF BajoElLimite(t) THEN EnPaginasNuevas(t, r) ELSE SinEspacio
  /\ UNCHANGED existe

MemAllocPrimero(t, r) ==
  /\ Sigue /\ ~existe
  /\ EnPaginasNuevas(t, r)
  /\ existe' = CheckSizeSwamp(r)

-----------------------------------------------------------------------------
(* memory_memfree *)

(* validar_direccion_logica compares with list_size - 1 as unsigned: with  *)
(* no pages every address passes.                                          *)
EnPaginas(d) == paginas = 0 \/ d \div TAM <= paginas - 1

Invalida ==
  /\ respuesta' = Respuesta("DIRECCION_INVALIDA", 0)
  /\ UNCHANGED <<estado, paginas, colgante, allocs, desordenado>>

HastaDer_Solo(l, k) == k

(* The freed alloc k takes in its neighbours of the list that are free.    *)
HastaIzq(l, k) == IF k > 1 /\ l[k - 1].isFree THEN k - 1 ELSE k
HastaDer(l, k) == IF k < Len(l) /\ l[k + 1].isFree THEN k + 1 ELSE k

Unido(l, k) ==
  LET i == HastaIzq(l, k)
      j == HastaDer(l, k)
  IN  SubSeq(l, 1, i - 1)
        \o <<Alloc(l[i].direccion, Ocupado(SubSeq(l, i, j)) - META, TRUE)>>
        \o SubSeq(l, j + 1, Len(l))

(* alloc_esta_en_pagina, todos_los_allocs_estan_libres: only page 0 is     *)
(* ever examined, compactar returning from its first turn.                 *)
EnPagina0(a) == a.direccion < TAM
DePagina0(l) == {i \in DOMAIN l : EnPagina0(l[i])}
Pagina0Libre(l) == DePagina0(l) # {} /\ \A i \in DePagina0(l) : l[i].isFree

(* compactar_pagina: the allocs of page 0 leave the list, and from as many *)
(* positions on as they were, less one, the addresses come down by the     *)
(* size of the last alloc removed.                                         *)
Quedan(l) ==
  LET de[n \in 0..Len(l)] ==
        IF n = 0 THEN <<>>
        ELSE IF EnPagina0(l[n]) THEN de[n - 1] ELSE Append(de[n - 1], l[n])
  IN  de[Len(l)]

Bajado(a, n) == [a EXCEPT !.direccion = @ - n]

Desborda(l) == \E i \in DOMAIN l : l[i].direccion < 0

Compactados(l) ==
  LET van == DePagina0(l)
  IN  [i \in DOMAIN Quedan(l) |->
         IF i < Cardinality(van) THEN Quedan(l)[i]
         ELSE Bajado(Quedan(l)[i], Bruto(l[Max(van)]))]

(* The loop of memory_memfree.  A page goes, and the structure of the next *)
(* one is freed, which stays in the list.  A second turn reads it if the   *)
(* new page 0 is free as well, and returns no value if there is no page    *)
(* left.                                                                   *)
Compactar(l) ==
  IF paginas > 0 /\ Pagina0Libre(l)
    THEN /\ allocs' = Compactados(l)
         /\ paginas' = paginas - 1
         /\ colgante' = (paginas > 1)
         /\ estado' \in CASE Desborda(Compactados(l)) -> {"desbordado"}
                          [] ~Desborda(Compactados(l)) /\ paginas = 1 -> {"vivo", "indefinido"}
                          [] /\ ~Desborda(Compactados(l)) /\ paginas > 1
                             /\ Pagina0Libre(Compactados(l)) -> {"indefinido"}
                          [] OTHER -> {"vivo"}
    ELSE /\ allocs' = l
         /\ estado' = "vivo"
         /\ UNCHANGED <<paginas, colgante>>

LiberarAlloc(k) ==
  LET l == Unido(allocs, k)
      i == HastaIzq(allocs, k)
  IN  /\ respuesta' = Respuesta("EXITO", 0)
      /\ UNCHANGED desordenado
      /\ IF Persistidos(l, {i}, paginas) = "vivo" THEN Compactar(l)
         ELSE /\ estado' = Persistidos(l, {i}, paginas)
              /\ allocs' = l
              /\ UNCHANGED <<paginas, colgante>>

MemFree(d) ==
  LET k == Empezando(d) IN
  /\ Sigue
  /\ IF existe /\ EnPaginas(d) /\ k # 0 /\ ~allocs[k].isFree
       THEN LiberarAlloc(k)
       ELSE Invalida
  /\ UNCHANGED existe

-----------------------------------------------------------------------------
(* memory_memread and memory_memwrite.  Every byte has to be the data of   *)
(* some alloc, free or not; a write, moreover, of the first alloc that has *)
(* the address.                                                            *)

Accesible(d) == EnPaginas(d) /\ Conteniendo(allocs, d) # 0
Valido(d, t) == \A i \in 0..(t - 1) : Accesible(d + i)

Cabe(d, t) ==
  LET k == Conteniendo(allocs, d) IN k # 0 => Fin(allocs[k]) - d >= t

(* The pages are taken by position: there may be none, and the first may   *)
(* be a freed structure.                                                   *)
Accedido(d, t) ==
  /\ estado' = CASE t > 0 /\ paginas = 0       -> "caido"
                 [] t > 0 /\ colgante /\ d < TAM -> "indefinido"
                 [] OTHER                        -> "vivo"
  /\ respuesta' = Respuesta("EXITO", 0)
  /\ UNCHANGED <<paginas, colgante, allocs, desordenado>>

MemRead(d, t) ==
  /\ Sigue
  /\ IF existe /\ Valido(d, t) THEN Accedido(d, t)
                               ELSE Invalida
  /\ UNCHANGED existe

(* Of no bytes at no alloc's address: the null alloc is followed.          *)
MemWrite(d, t) ==
  /\ Sigue
  /\ IF ~existe \/ ~Valido(d, t) \/ ~Cabe(d, t) THEN Invalida
     ELSE IF Conteniendo(allocs, d) # 0 THEN Accedido(d, t)
     ELSE /\ estado' = "caido"
          /\ UNCHANGED <<paginas, colgante, allocs, desordenado, respuesta>>
  /\ UNCHANGED existe

(* memory_memfree_all, close_carpincho: a freed structure in the list is   *)
(* freed again.                                                            *)
Cerrado ==
  /\ estado' = IF colgante THEN "indefinido" ELSE "vivo"
  /\ paginas' = 0 /\ colgante' = FALSE /\ allocs' = <<>> /\ desordenado' = FALSE
  /\ respuesta' = Respuesta("EXITO", 0)

MemFin ==
  /\ Sigue
  /\ IF existe THEN Cerrado ELSE Invalida
  /\ existe' = FALSE

-----------------------------------------------------------------------------
(* How memory_memwrite, memory_memread and escribir_heap_memoria_fisica    *)
(* copy t bytes from address d on: page by page, each piece taken from the *)
(* size of the piece before it (sizeAnterior), not from their sum.  Fuente *)
(* is the position of the caller's buffer that byte i really goes to.      *)

PaginaDe(d, i) == (d + i) \div TAM
Trozo(d, t, p) == {i \in 0..(t - 1) : PaginaDe(d, i) = p}

SizeAnterior_Cero(d, t, p) == 0

SizeAnterior(d, t, p) == Cardinality(Trozo(d, t, p - 1))

Fuente(d, t, i) ==
  LET p == PaginaDe(d, i) IN
  SizeAnterior(d, t, p) + (i - Min(Trozo(d, t, p)))

-----------------------------------------------------------------------------
(* What a carpincho asks about: the starts of its data, one byte further,  *)
(* and an address of no alloc.                                             *)
Direcciones ==
  {0} \cup UNION {{Dato(allocs[i]), Dato(allocs[i]) + 1} : i \in DOMAIN allocs}

Next ==
  \/ \E t \in Tamanios :
       \/ MemAllocHeap(t) \/ MemAllocPagina(t)
       \/ \E r \in {-1, 1} : MemAllocSolicitar(t, r) \/ MemAllocPrimero(t, r)
  \/ \E d \in Direcciones :
       \/ MemFree(d)
       \/ \E t \in Tamanios : MemRead(d, t) \/ MemWrite(d, t)
  \/ MemFin

Spec == Init /\ [][Next]_vars

-----------------------------------------------------------------------------
(* Properties.  The first three hold until an alloc that is not the first  *)
(* of the list is split: its remainder is then listed out of place.        *)

TypeOK ==
  /\ estado \in Estados /\ existe \in BOOLEAN /\ colgante \in BOOLEAN
  /\ desordenado \in BOOLEAN
  /\ paginas \in 0..MaxPaginas
  /\ allocs \in Seq([direccion : Int, tamanio_data : Nat, isFree : BOOLEAN])
  /\ estado # "desbordado" => \A i \in DOMAIN allocs : allocs[i].direccion >= 0
  /\ respuesta \in [status : Status, direccion : Nat]
  /\ ~existe => paginas = 0 /\ allocs = <<>>

(* The allocs tile the space from address 0 on, without holes or overlaps, *)
(* and end inside the pages, through splits, unions and the removal of a   *)
(* page (memalloc_asignar_*, memory_memfree, compactar_pagina).            *)
Embaldosado ==
  ~desordenado =>
    /\ allocs # <<>> => allocs[1].direccion = 0
    /\ \A i \in DOMAIN allocs :
         Fin(allocs[i]) = IF i = Len(allocs) THEN Ocupado(allocs)
                                             ELSE allocs[i + 1].direccion
    /\ Ocupado(allocs) <= paginas * TAM

(* No two neighbours are free: memory_memfree has united all that can be,  *)
(* so what a page removal takes away is one alloc.                         *)
LibresSeparados ==
  ~desordenado =>
    \A i \in 1..(Len(allocs) - 1) : ~(allocs[i].isFree /\ allocs[i + 1].isFree)

(* No header is written outside the pages (escribir_heap_memoria_fisica    *)
(* would follow the null page of get_page).  A request of size 0 has no    *)
(* byte to be found by and takes the memory down.                          *)
CabeceraEnPaginas ==
  ~desordenado /\ 0 \notin Tamanios => estado # "caido"

(* The carpincho gets the pages its alloc needs and not one more, in       *)
(* whatever order the list is (calcular_cantidad_paginas_necesaria).       *)
PaginasJustas ==
  [][paginas' > paginas => /\ Ocupado(allocs') <= paginas' * TAM
                           /\ paginas' * TAM < Ocupado(allocs') + TAM]_vars

(* Under FIJA a carpincho that has pages never gets more than              *)
(* marcos_por_carpincho (check_alloc).                                     *)
CupoDePaginas ==
  [][TIPO_ASIGNACION = "FIJA" /\ existe /\ paginas' > paginas =>
       paginas' <= MARCOS_POR_CARPINCHO]_vars

(* An access that touches one page or two, and every header, is copied     *)
(* byte for byte.  From the third page on it is not.                       *)
CopiaFiel ==
  /\ \A d \in Direcciones, t \in Tamanios :
       existe /\ Valido(d, t) /\ PaginaDe(d, t - 1) <= PaginaDe(d, 0) + 1 =>
         \A i \in 0..(t - 1) : Fuente(d, t, i) = i
  /\ \A k \in DOMAIN allocs, i \in 0..(META - 1) :
       Fuente(allocs[k].direccion, META, i) = i

(* memory.c:1999: the remainder of a split is listed to the right of the   *)
(* original, so that whoever allocates after the last of the list          *)
(* allocates in free space: no two allocs share a byte.                    *)
SinSolapes ==
  \A i, j \in DOMAIN allocs :
     i < j => \/ Fin(allocs[i]) <= allocs[j].direccion
              \/ Fin(allocs[j]) <= allocs[i].direccion
=============================================================================
