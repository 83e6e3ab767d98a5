--------------------------- MODULE PaginacionProofs ---------------------------
(* What is proved of Paginacion for every number of carpinchos, pages,     *)
(* frames and TLB entries, and for every policy.                           *)
EXTENDS Paginacion, FiniteSetTheorems, WellFoundedInduction, TLAPS

-----------------------------------------------------------------------------
(* Types *)

Estados == {"anda", "colgada", "sin_victima", "puntero", "tlb",
            "inconsistente", "liberada", "swap_lleno"}
Registros == [presencia : BOOLEAN, marco : Marcos, uso : BOOLEAN,
              modif : BOOLEAN, timestamp : Nat]
EntradasTlb == [pagina : Paginas \cup {Nada}, marco : Marcos \cup {Nada},
                timestamp : Nat]
Bytes == Contenidos \cup {Vacio, Roto}

TiposMemoria ==
  /\ pag \in [Paginas -> Registros]
  /\ marcos \in [Marcos -> Paginas \cup {Nada}]
  /\ cache \in [Marcos -> Bytes]
  /\ enSwap \in [Paginas -> Bytes \cup {Nada}]
  /\ algoritm_stack_pointer \in [Carpinchos \cup {Nada} -> Nat]
TiposTlb == /\ tlb \in [Entradas -> EntradasTlb]
            /\ tlb_fifo_pointer \in Entradas
TiposListas == /\ fase \in [Carpinchos -> {"nuevo", "vivo", "terminado"}]
               /\ cantidad \in [Carpinchos -> 0..MaxPaginas]
TiposRelojes == contador_timestamp \in Nat /\ contador_timestamp_tlb \in Nat

LEMMA TiposPartes ==
  TypeOK <=> /\ estado \in Estados /\ TiposListas /\ TiposMemoria /\ TiposTlb
             /\ TiposRelojes
  BY DEF TypeOK, Estados, TiposListas, TiposMemoria, TiposTlb, TiposRelojes,
         Registros, EntradasTlb, Bytes

LEMMA TiposDespues ==
  (estado \in Estados /\ TiposListas /\ TiposMemoria /\ TiposTlb /\ TiposRelojes)'
    => TypeOK'
  BY DEF TypeOK, Estados, TiposListas, TiposMemoria, TiposTlb, TiposRelojes,
         Registros, EntradasTlb, Bytes

LEMMA Constantes ==
  /\ 0 \in Marcos /\ 0 \in Entradas /\ Marcos \subseteq Nat /\ Entradas \subseteq Nat
  /\ Nada \notin Marcos /\ Nada \notin Paginas /\ Nada \notin Bytes
  /\ Nada \notin Carpinchos
  /\ MARCOS \in Nat \ {0} /\ ENTRADAS \in Nat \ {0} /\ MaxPaginas \in Nat \ {0}
  BY PaginacionAssumption DEF Marcos, Entradas, Paginas, Numeros, Bytes

LEMMA TiposIniciales == Init => TypeOK
<1> SUFFICES ASSUME Init PROVE TypeOK
  OBVIOUS
<1>1. TiposListas
  BY PaginacionAssumption DEF Init, TiposListas
<1>2. pag \in [Paginas -> Registros]
  <2>1. PaginaNueva \in Registros
    BY Constantes DEF PaginaNueva, Registros
  <2> QED BY <2>1 DEF Init
<1>3. TiposMemoria
  BY <1>2 DEF Init, TiposMemoria, Bytes
<1>4. TiposTlb
  BY Constantes DEF Init, TiposTlb, EntradasTlb
<1>5. TiposRelojes
  BY Constantes DEF Init, TiposRelojes
<1> QED
  BY <1>1, <1>3, <1>4, <1>5, TiposPartes DEF Init, Estados

LEMMA TiposSeRompe ==
  ASSUME TypeOK, NEW causa \in Estados, SeRompe(causa)
  PROVE  TypeOK'
  BY DEF TypeOK, SeRompe, Estados, listas, memoria, tablaTlb, relojes

LEMMA VictimasFinitas ==
  \A c \in Carpinchos : /\ IsFiniteSet(Victimas(c)) /\ Victimas(c) \subseteq Paginas
                        /\ \A p \in Paginas : Posicion(c, p) \in Nat
<1>1. IsFiniteSet(Paginas)
  <2>1. IsFiniteSet(Numeros)
    BY FS_Interval, PaginacionAssumption DEF Numeros
  <2>2. IsFiniteSet(Carpinchos)
    BY PaginacionAssumption
  <2> QED BY <2>1, <2>2, FS_Product DEF Paginas
<1> SUFFICES ASSUME NEW c \in Carpinchos
             PROVE  /\ IsFiniteSet(Victimas(c)) /\ Victimas(c) \subseteq Paginas
                    /\ \A p \in Paginas : Posicion(c, p) \in Nat
  OBVIOUS
<1>2. Victimas(c) \subseteq Paginas
  BY DEF Victimas, Presentes
<1>3. IsFiniteSet(Victimas(c))
  BY <1>1, <1>2, FS_Subset
<1>4. ASSUME NEW p \in Paginas PROVE Posicion(c, p) \in Nat
  <2>1. IsFiniteSet({q \in Victimas(c) : pag[q].marco < pag[p].marco})
    BY <1>3, FS_Subset
  <2> QED BY <2>1, FS_CardinalityType DEF Posicion
<1> QED BY <1>2, <1>3, <1>4

LEMMA VictimaEsVictima ==
  ASSUME NEW c \in Carpinchos, NEW v, Victima(c, v)
  PROVE  v \in Victimas(c) /\ v \in Paginas
  BY VictimasFinitas DEF Victima, AlAlcance

LEMMA TiposPuntero ==
  ASSUME TiposMemoria, NEW c \in Carpinchos, NEW v \in Paginas, Victima(c, v)
  PROVE  PunteroTras(c, v) \in [Carpinchos \cup {Nada} -> Nat]
<1>1. Posicion(c, v) \in Nat
  BY VictimasFinitas
<1>2. Cardinality(Victimas(c)) \in Nat \ {0}
  BY VictimasFinitas, VictimaEsVictima, FS_CardinalityType, FS_EmptySet
<1>3. (Posicion(c, v) + 1) % Cardinality(Victimas(c)) \in Nat
  BY <1>1, <1>2
<1> QED
  BY <1>3 DEF PunteroTras, TiposMemoria, ClaveReloj

LEMMA TiposPagSin ==
  ASSUME TiposMemoria, NEW c \in Carpinchos, NEW v \in Paginas
  PROVE  PagSin(c, v) \in [Paginas -> Registros]
<1> SUFFICES ASSUME NEW p \in Paginas
             PROVE  [pag[p] EXCEPT !.uso = @ /\ p \notin Repasadas(c, v),
                                   !.presencia = @ /\ p # v,
                                   !.marco = IF p = v THEN 0 ELSE @] \in Registros
  BY DEF PagSin
<1> DEFINE u == pag[p].uso /\ p \notin Repasadas(c, v)
           s == pag[p].presencia /\ p # v
           f == IF p = v THEN 0 ELSE pag[p].marco
<1>1. pag[p] \in Registros
  BY DEF TiposMemoria
<1>2. u \in BOOLEAN /\ s \in BOOLEAN
  OBVIOUS
<1>3. f \in Marcos
  BY <1>1, Constantes DEF Registros
<1> HIDE DEF u, s, f
<1>4. [pag[p] EXCEPT !.uso = u, !.presencia = s, !.marco = f] \in Registros
  BY <1>1, <1>2, <1>3 DEF Registros
<1> QED
  BY <1>4 DEF u, s, f

LEMMA TiposSwapCon ==
  ASSUME TiposMemoria, NEW v \in Paginas
  PROVE  SwapCon(v) \in [Paginas -> Bytes \cup {Nada}]
<1>1. VueltaDe(cache[pag[v].marco]) \in Bytes
  BY PaginacionAssumption DEF VueltaDe, Bytes
<1> QED
  BY <1>1 DEF SwapCon, TiposMemoria

LEMMA TiposTlbSinMarco ==
  ASSUME TiposTlb, NEW f \in Marcos
  PROVE  TlbSinMarco(f) \in [Entradas -> EntradasTlb]
  BY DEF TlbSinMarco, TiposTlb, EntradasTlb

LEMMA TiposActualizarTlb ==
  ASSUME NEW t \in [Entradas -> EntradasTlb], NEW p \in Paginas, NEW f \in Marcos,
         tlb_fifo_pointer \in Entradas, contador_timestamp_tlb \in Nat,
         ActualizarTlb(t, p, f)
  PROVE  TiposTlb' /\ contador_timestamp_tlb' \in Nat
<1>1. PICK e \in Entradas :
        tlb' = [t EXCEPT ![e] = [pagina |-> p, marco |-> f, timestamp |-> SelloTlb]]
  BY DEF ActualizarTlb
<1>2. [pagina |-> p, marco |-> f, timestamp |-> SelloTlb] \in EntradasTlb
  BY DEF EntradasTlb, SelloTlb
<1>3. tlb' \in [Entradas -> EntradasTlb]
  BY <1>1, <1>2
<1>4. tlb_fifo_pointer' \in Entradas
  BY PaginacionAssumption DEF ActualizarTlb, FifoTras, Entradas
<1>5. contador_timestamp_tlb' \in Nat
  BY DEF ActualizarTlb
<1> QED
  BY <1>3, <1>4, <1>5 DEF TiposTlb

LEMMA TiposAgregar ==
  ASSUME TiposListas, TiposTlb, TiposRelojes, TiposMemoria, NEW c \in Carpinchos,
         cantidad[c] < MaxPaginas, NEW f \in Marcos,
         NEW t \in [Entradas -> EntradasTlb], NEW pg \in [Paginas -> Registros],
         NEW p \in Paginas, AgregarPagina(c, p, f, t, pg), estado \in Estados
  PROVE  /\ TiposListas' /\ TiposTlb' /\ TiposRelojes' /\ estado' \in Estados
         /\ pag' \in [Paginas -> Registros] /\ marcos' \in [Marcos -> Paginas \cup {Nada}]
<1>1. TiposTlb' /\ contador_timestamp_tlb' \in Nat
  BY TiposActualizarTlb DEF AgregarPagina, TiposTlb, TiposRelojes
<1>2. contador_timestamp' \in Nat
  BY DEF AgregarPagina, RelojTras, TiposRelojes
<1>3. Nueva(f) \in Registros
  BY DEF Nueva, Sello, Registros, TiposRelojes
<1>4. pag' \in [Paginas -> Registros]
  BY <1>3 DEF AgregarPagina
<1>5. TiposListas'
  BY PaginacionAssumption DEF AgregarPagina, TiposListas
<1>6. marcos' \in [Marcos -> Paginas \cup {Nada}]
  BY DEF AgregarPagina, TiposMemoria
<1> QED
  BY <1>1, <1>2, <1>4, <1>5, <1>6 DEF TiposRelojes, AgregarPagina

LEMMA PaginaSiguiente ==
  ASSUME TiposListas, NEW c \in Carpinchos, cantidad[c] < MaxPaginas
  PROVE  <<c, cantidad[c] + 1>> \in Paginas
  BY PaginacionAssumption DEF TiposListas, Paginas, Numeros

LEMMA TiposCrear ==
  ASSUME TypeOK, NEW c \in Carpinchos, CrearPagina(c)
  PROVE  TypeOK'
<1> DEFINE p == <<c, cantidad[c] + 1>>
<1>0. /\ estado \in Estados /\ TiposListas /\ TiposMemoria /\ TiposTlb /\ TiposRelojes
      /\ cantidad[c] < MaxPaginas
  BY TiposPartes DEF CrearPagina
<1>p. p \in Paginas
  BY <1>0, PaginaSiguiente
<1> HIDE DEF p
<1>1. CASE CrearEnLibre(c, p)
  <2>1. PICK f \in Marcos :
          \/ SeRompe("tlb")
          \/ /\ AgregarPagina(c, p, f, tlb, pag)
             /\ UNCHANGED <<cache, enSwap, algoritm_stack_pointer>>
    BY <1>1 DEF CrearEnLibre
  <2>2. CASE SeRompe("tlb")
    BY <2>2, TiposSeRompe DEF Estados
  <2>3. CASE /\ AgregarPagina(c, p, f, tlb, pag)
             /\ UNCHANGED <<cache, enSwap, algoritm_stack_pointer>>
    <3>1. pag \in [Paginas -> Registros] /\ tlb \in [Entradas -> EntradasTlb]
      BY <1>0 DEF TiposMemoria, TiposTlb
    <3>2. /\ TiposListas' /\ TiposTlb' /\ TiposRelojes' /\ estado' \in Estados
          /\ pag' \in [Paginas -> Registros] /\ marcos' \in [Marcos -> Paginas \cup {Nada}]
      BY <1>0, <1>p, <2>3, <3>1, TiposAgregar
    <3>3. TiposMemoria'
      BY <1>0, <2>3, <3>2 DEF TiposMemoria
    <3> QED
      BY <3>2, <3>3, TiposDespues
  <2> QED
    BY <2>1, <2>2, <2>3
<1>2. CASE CrearReemplazando(c, p)
  <2>1. CASE SinVictima(c) \/ PunteroAfuera(c)
    BY <2>1, TiposSeRompe DEF SinVictima, PunteroAfuera, Estados
  <2>2. ASSUME NEW v \in Paginas, Victima(c, v),
               \/ SeRompe("swap_lleno") \/ SeRompe("tlb")
               \/ Reemplazar(c, p, v) /\ enSwap' = SwapCon(v)
        PROVE  TypeOK'
    <3>1. CASE SeRompe("swap_lleno") \/ SeRompe("tlb")
      BY <3>1, TiposSeRompe DEF Estados
    <3>2. CASE Reemplazar(c, p, v) /\ enSwap' = SwapCon(v)
      <4> DEFINE f == pag[v].marco
      <4>1. f \in Marcos
        BY <1>0 DEF TiposMemoria, Registros
      <4>2. TlbSinMarco(f) \in [Entradas -> EntradasTlb]
        BY <1>0, <4>1, TiposTlbSinMarco
      <4>3. PagSin(c, v) \in [Paginas -> Registros]
        BY <1>0, TiposPagSin
      <4>4. AgregarPagina(c, p, f, TlbSinMarco(f), PagSin(c, v))
        BY <3>2 DEF Reemplazar
      <4>5. cache' \in [Marcos -> Bytes]
        BY <1>0, <3>2 DEF Reemplazar, TiposMemoria, Bytes
      <4>6. algoritm_stack_pointer' \in [Carpinchos \cup {Nada} -> Nat]
        BY <1>0, <2>2, <3>2, TiposPuntero DEF Reemplazar
      <4>7. enSwap' \in [Paginas -> Bytes \cup {Nada}]
        BY <1>0, <3>2, TiposSwapCon
      <4> HIDE DEF f
      <4>8. /\ TiposListas' /\ TiposTlb' /\ TiposRelojes' /\ estado' \in Estados
            /\ pag' \in [Paginas -> Registros]
            /\ marcos' \in [Marcos -> Paginas \cup {Nada}]
        BY <1>0, <1>p, <4>1, <4>2, <4>3, <4>4, TiposAgregar
      <4>9. TiposMemoria'
        BY <4>5, <4>6, <4>7, <4>8 DEF TiposMemoria
      <4> QED
        BY <4>8, <4>9, TiposDespues
    <3> QED
      BY <2>2, <3>1, <3>2
  <2> QED
    BY <1>2, <2>1, <2>2 DEF CrearReemplazando
<1> QED
  BY <1>1, <1>2 DEF CrearPagina, p

LEMMA TiposUsar ==
  ASSUME TiposRelojes, NEW p \in Paginas, NEW f \in Marcos,
         NEW d \in Contenidos \cup {Nada}, NEW k \in Nat,
         NEW pg \in [Paginas -> Registros], NEW ch \in [Marcos -> Bytes],
         Usar(p, f, d, k, pg, ch)
  PROVE  /\ pag' \in [Paginas -> Registros] /\ cache' \in [Marcos -> Bytes]
         /\ contador_timestamp' \in Nat
<1>1. Accedida(pg[p], f, d, k) \in Registros
  <2> DEFINE u == ALGORITMO_REEMPLAZO_MMU = "M-CLOCK"
             m == pg[p].modif \/ (ALGORITMO_REEMPLAZO_MMU = "M-CLOCK" /\ d # Nada)
  <2>1. pg[p] \in Registros /\ u \in BOOLEAN /\ m \in BOOLEAN
    OBVIOUS
  <2>2. Sello(k) \in Nat
    BY DEF Sello, TiposRelojes
  <2> HIDE DEF u, m
  <2>3. [pg[p] EXCEPT !.presencia = TRUE, !.marco = f, !.uso = u, !.modif = m,
                      !.timestamp = Sello(k)] \in Registros
    BY <2>1, <2>2 DEF Registros
  <2> QED
    BY <2>3 DEF Accedida, u, m
<1>2. pag' \in [Paginas -> Registros]
  BY <1>1 DEF Usar
<1>3. \A x \in Queda(ch[f], d) : x \in Bytes
  BY DEF Queda, Bytes
<1>4. cache' \in [Marcos -> Bytes]
  BY <1>3 DEF Usar
<1>5. contador_timestamp' \in Nat
  BY DEF Usar, RelojTras, TiposRelojes
<1> QED
  BY <1>2, <1>4, <1>5

LEMMA TiposAcceder ==
  ASSUME TypeOK, TlbAlDia, NEW p \in Paginas, NEW d \in Contenidos \cup {Nada},
         Acceder(p, d)
  PROVE  TypeOK'
<1>0. /\ estado \in Estados /\ TiposListas /\ TiposMemoria /\ TiposTlb /\ TiposRelojes
      /\ pag \in [Paginas -> Registros] /\ cache \in [Marcos -> Bytes]
      /\ tlb \in [Entradas -> EntradasTlb] /\ p[1] \in Carpinchos
  BY TiposPartes DEF TiposMemoria, TiposTlb, Paginas
<1>1. CASE AccederEnTlb(p, d)
  <2>1. PICK e \in Entradas :
          /\ Primero(e, {g \in Entradas : tlb[g].pagina = p})
          /\ IF marcos[tlb[e].marco] # p THEN SeRompe("inconsistente")
             ELSE /\ Usar(p, tlb[e].marco, d, Toques, pag, cache)
                  /\ tlb' = Tocada(e)
                  /\ UNCHANGED <<marcos, enSwap, algoritm_stack_pointer,
                                 tlb_fifo_pointer, contador_timestamp_tlb>>
    BY <1>1 DEF AccederEnTlb
  <2>2. tlb[e].marco \in Marcos
    BY <2>1, Constantes DEF Primero, TlbAlDia
  <2>3. CASE SeRompe("inconsistente")
    BY <2>3, TiposSeRompe DEF Estados
  <2>4. CASE marcos[tlb[e].marco] = p
    <3>1. /\ Usar(p, tlb[e].marco, d, Toques, pag, cache) /\ tlb' = Tocada(e)
          /\ UNCHANGED <<marcos, enSwap, algoritm_stack_pointer, tlb_fifo_pointer,
                         contador_timestamp_tlb>>
      BY <2>1, <2>4
    <3>2. /\ pag' \in [Paginas -> Registros] /\ cache' \in [Marcos -> Bytes]
          /\ contador_timestamp' \in Nat
      <4>1. Toques \in Nat
        BY DEF Toques
      <4> QED BY <1>0, <2>2, <3>1, <4>1, TiposUsar
    <3>3. tlb' \in [Entradas -> EntradasTlb]
      BY <1>0, <3>1 DEF Tocada, EntradasTlb, TiposRelojes
    <3>4. TiposListas' /\ estado' \in Estados
      BY <1>0, <3>1 DEF Usar, listas, TiposListas
    <3>5. TiposMemoria' /\ TiposTlb' /\ TiposRelojes'
      BY <1>0, <3>1, <3>2, <3>3 DEF TiposMemoria, TiposTlb, TiposRelojes
    <3> QED BY <3>4, <3>5, TiposDespues
  <2> QED
    BY <2>1, <2>3, <2>4
<1>2. CASE AccederEnMarco(p, d)
  <2>1. PICK f \in Marcos :
          \/ SeRompe("tlb")
          \/ /\ ActualizarTlb(tlb, p, f) /\ Usar(p, f, d, 0, pag, cache)
             /\ UNCHANGED <<marcos, enSwap, algoritm_stack_pointer>>
    BY <1>2 DEF AccederEnMarco
  <2>2. CASE SeRompe("tlb")
    BY <2>2, TiposSeRompe DEF Estados
  <2>3. CASE /\ ActualizarTlb(tlb, p, f) /\ Usar(p, f, d, 0, pag, cache)
             /\ UNCHANGED <<marcos, enSwap, algoritm_stack_pointer>>
    <3>1. TiposTlb' /\ contador_timestamp_tlb' \in Nat
      BY <1>0, <2>3, TiposActualizarTlb DEF TiposTlb, TiposRelojes
    <3>2. /\ pag' \in [Paginas -> Registros] /\ cache' \in [Marcos -> Bytes]
          /\ contador_timestamp' \in Nat
      BY <1>0, <2>3, TiposUsar
    <3>3. TiposListas' /\ estado' \in Estados
      BY <1>0, <2>3 DEF Usar, listas, TiposListas
    <3>4. TiposMemoria' /\ TiposRelojes'
      BY <1>0, <2>3, <3>1, <3>2 DEF TiposMemoria, TiposRelojes
    <3> QED BY <3>1, <3>3, <3>4, TiposDespues
  <2> QED
    BY <2>1, <2>2, <2>3
<1>3. CASE AccederEnSwap(p, d)
  <2>1. CASE SinVictima(p[1]) \/ PunteroAfuera(p[1])
    BY <2>1, TiposSeRompe DEF SinVictima, PunteroAfuera, Estados
  <2>2. ASSUME NEW v \in Paginas, Victima(p[1], v), NEW causa \in Estados, SeRompe(causa)
        PROVE  TypeOK'
    BY <2>2, TiposSeRompe
  <2>3. ASSUME NEW v \in Paginas, Victima(p[1], v), enSwap[p] # Nada,
               Cargar(p, d, v, enSwap[p]), enSwap' = [SwapCon(v) EXCEPT ![p] = Nada]
        PROVE  TypeOK'
    <3> DEFINE f == pag[v].marco
               ch == [cache EXCEPT ![f] = enSwap[p]]
    <3>1. f \in Marcos
      BY <1>0 DEF Registros
    <3>2. ch \in [Marcos -> Bytes]
      BY <1>0, <2>3 DEF TiposMemoria
    <3>3. PagSin(p[1], v) \in [Paginas -> Registros]
      BY <1>0, TiposPagSin
    <3>4. TlbSinMarco(f) \in [Entradas -> EntradasTlb]
      BY <1>0, <3>1, TiposTlbSinMarco
    <3>5. /\ ActualizarTlb(TlbSinMarco(f), p, f) /\ Usar(p, f, d, 0, PagSin(p[1], v), ch)
          /\ marcos' = [marcos EXCEPT ![f] = p]
          /\ algoritm_stack_pointer' = PunteroTras(p[1], v)
      BY <2>3 DEF Cargar
    <3>6. algoritm_stack_pointer' \in [Carpinchos \cup {Nada} -> Nat]
      BY <1>0, <2>3, <3>5, TiposPuntero
    <3>7. enSwap' \in [Paginas -> Bytes \cup {Nada}]
      BY <1>0, <2>3, TiposSwapCon
    <3> HIDE DEF f, ch
    <3>8. TiposTlb' /\ contador_timestamp_tlb' \in Nat
      BY <1>0, <3>1, <3>4, <3>5, TiposActualizarTlb DEF TiposTlb, TiposRelojes
    <3>9. /\ pag' \in [Paginas -> Registros] /\ cache' \in [Marcos -> Bytes]
          /\ contador_timestamp' \in Nat
      BY <1>0, <3>1, <3>2, <3>3, <3>5, TiposUsar
    <3>10. TiposListas' /\ estado' \in Estados
      BY <1>0, <3>5 DEF Usar, listas, TiposListas
    <3>11. TiposMemoria' /\ TiposRelojes'
      BY <1>0, <3>5, <3>6, <3>7, <3>8, <3>9 DEF TiposMemoria, TiposRelojes
    <3> QED BY <3>8, <3>10, <3>11, TiposDespues
  <2> QED
    BY <1>3, <2>1, <2>2, <2>3 DEF AccederEnSwap, TraerDeSwap, Estados
<1> QED
  BY <1>1, <1>2, <1>3 DEF Acceder

LEMMA TiposPaso == TypeOK /\ TlbAlDia /\ [Next]_vars => TypeOK'
<1> SUFFICES ASSUME TypeOK, TlbAlDia, [Next]_vars PROVE TypeOK'
  OBVIOUS
<1>1. ASSUME NEW c \in Carpinchos, CrearCarpincho(c) PROVE TypeOK'
  BY <1>1 DEF CrearCarpincho, memoria, tablaTlb, relojes, TypeOK
<1>2. ASSUME NEW c \in Carpinchos, QuitarPagina(c) PROVE TypeOK'
  <2>1. CASE SeRompe("liberada")
    BY <2>1, TiposSeRompe DEF Estados
  <2> QED
    BY <1>2, <2>1, PaginacionAssumption
       DEF QuitarPagina, memoria, tablaTlb, relojes, TypeOK
<1>3. ASSUME NEW c \in Carpinchos, Terminar(c) PROVE TypeOK'
  BY <1>3, PaginacionAssumption DEF Terminar, memoria, tablaTlb, relojes, TypeOK
<1>4. ASSUME NEW p \in Paginas, Leer(p) \/ \E d \in Contenidos : Escribir(p, d)
      PROVE  TypeOK'
  BY <1>4, TiposAcceder DEF Leer, Escribir
<1>5. CASE UNCHANGED vars
  BY <1>5 DEF vars, listas, memoria, tablaTlb, relojes, TypeOK
<1> QED
  BY <1>1, <1>2, <1>3, <1>4, <1>5, TiposCrear DEF Next
-----------------------------------------------------------------------------
(* The TLB *)

(* Every entry of t is up to date and none is of frame f.                  *)
Limpia(t, f) ==
  \A e \in Entradas :
     IF t[e].pagina = Nada THEN t[e].marco = Nada
     ELSE t[e].marco \in Marcos \ {f} /\ marcos[t[e].marco] = t[e].pagina

SinDobles(t) ==
  \A e, g \in Entradas : e # g /\ t[e].pagina # Nada => t[e].pagina # t[g].pagina

(* vaciar_marco_en_cache leaves no entry of the frame.                     *)
LEMMA SinMarcoLimpia ==
  ASSUME TypeOK, TlbAlDia, NEW f \in Marcos, NEW t, t = TlbSinMarco(f)
  PROVE  /\ Limpia(t, f) /\ ~MarcoEnTlb(t, f)
         /\ t \in [Entradas -> EntradasTlb]
         /\ \A e \in Entradas : t[e].pagina \in {tlb[e].pagina, Nada}
         /\ SinDobles(tlb) => SinDobles(t)
<1>0. tlb \in [Entradas -> EntradasTlb]
  BY TiposPartes DEF TiposTlb
<1>1. t \in [Entradas -> EntradasTlb]
  BY TiposTlbSinMarco, TiposPartes
<1>2. \A e \in Entradas :
        IF tlb[e].marco = f THEN t[e].pagina = Nada /\ t[e].marco = Nada
        ELSE t[e] = tlb[e]
  <2>1. CASE MarcoEnTlb(tlb, f)
    BY <1>0, <2>1 DEF TlbSinMarco, EntradasTlb
  <2>2. CASE ~MarcoEnTlb(tlb, f)
    BY <2>2 DEF TlbSinMarco, MarcoEnTlb
  <2> QED BY <2>1, <2>2
<1>3. Limpia(t, f)
  BY <1>2 DEF TlbAlDia, Limpia
<1>4. ~MarcoEnTlb(t, f)
  BY <1>2, Constantes DEF MarcoEnTlb
<1>5. \A e \in Entradas : t[e].pagina \in {tlb[e].pagina, Nada}
  BY <1>2
<1>6. SinDobles(tlb) => SinDobles(t)
  BY <1>5 DEF SinDobles
<1> QED BY <1>1, <1>3, <1>4, <1>5, <1>6

LEMMA LimpiaDeAntes ==
  ASSUME TlbAlDia, NEW f \in Marcos, ~MarcoEnTlb(tlb, f)
  PROVE  Limpia(tlb, f)
  BY DEF TlbAlDia, Limpia, MarcoEnTlb

(* actualizar_tlb of a clean table, the frame being the page's.            *)
LEMMA ActualizarAlDia ==
  ASSUME TypeOK, NEW t \in [Entradas -> EntradasTlb], NEW f \in Marcos, NEW p \in Paginas,
         Limpia(t, f), ActualizarTlb(t, p, f),
         marcos' = [marcos EXCEPT ![f] = p] \/ (marcos' = marcos /\ marcos[f] = p)
  PROVE  /\ TlbAlDia'
         /\ SinDobles(t) /\ (\A e \in Entradas : t[e].pagina # p) => SinDobles(tlb)'
<1>1. PICK e \in Entradas :
        tlb' = [t EXCEPT ![e] = [pagina |-> p, marco |-> f, timestamp |-> SelloTlb]]
  BY DEF ActualizarTlb
<1>2. marcos \in [Marcos -> Paginas \cup {Nada}]
  BY DEF TypeOK
<1>3. marcos'[f] = p /\ \A g \in Marcos \ {f} : marcos'[g] = marcos[g]
  BY <1>2
<1>4. \A h \in Entradas :
        IF h = e THEN tlb'[h].pagina = p /\ tlb'[h].marco = f ELSE tlb'[h] = t[h]
  BY <1>1
<1>5. TlbAlDia'
  BY <1>3, <1>4, Constantes DEF TlbAlDia, Limpia
<1>6. ASSUME SinDobles(t), \A h \in Entradas : t[h].pagina # p
      PROVE  SinDobles(tlb')
  BY <1>4, <1>6 DEF SinDobles
<1> QED BY <1>5, <1>6 DEF SinDobles

(* A page with an entry is in a frame.                                     *)
LEMMA EnTlbEnMarco ==
  ASSUME TlbAlDia, NEW p \in Paginas, EnTlb(p)
  PROVE  EnMarco(p)
  BY Constantes DEF TlbAlDia, EnTlb, EnMarco

LEMMA TlbCrear ==
  ASSUME TypeOK, TlbAlDia, NEW c \in Carpinchos, CrearPagina(c),
         NEW p, p = <<c, cantidad[c] + 1>>
  PROVE  /\ TlbAlDia' /\ estado' \notin {"tlb", "inconsistente"}
         /\ SinDobles(tlb) /\ ~EnMarco(p) => SinDobles(tlb)'
<1>0. /\ tlb \in [Entradas -> EntradasTlb] /\ marcos \in [Marcos -> Paginas \cup {Nada}]
      /\ pag \in [Paginas -> Registros] /\ estado = "anda"
  BY TiposPartes DEF TiposTlb, TiposMemoria, CrearPagina, Atiende
<1>1. p \in Paginas
  BY PaginaSiguiente, TiposPartes DEF CrearPagina
<1>2. ASSUME NEW causa, causa \notin {"tlb", "inconsistente"}, SeRompe(causa)
      PROVE  /\ TlbAlDia' /\ estado' \notin {"tlb", "inconsistente"}
             /\ SinDobles(tlb) => SinDobles(tlb)'
  BY <1>2 DEF SeRompe, memoria, tablaTlb, TlbAlDia, SinDobles
<1>3. ~EnMarco(p) => \A e \in Entradas : tlb[e].pagina # p
  BY <1>1, EnTlbEnMarco DEF EnTlb
<1>4. ASSUME NEW f \in Marcos, NEW t \in [Entradas -> EntradasTlb], Limpia(t, f),
             NEW pg, AgregarPagina(c, p, f, t, pg),
             \A e \in Entradas : t[e].pagina \in {tlb[e].pagina, Nada},
             SinDobles(tlb) => SinDobles(t)
      PROVE  /\ TlbAlDia' /\ estado' \notin {"tlb", "inconsistente"}
             /\ SinDobles(tlb) /\ ~EnMarco(p) => SinDobles(tlb)'
  <2>1. ActualizarTlb(t, p, f) /\ marcos' = [marcos EXCEPT ![f] = p] /\ estado' = estado
    BY <1>4 DEF AgregarPagina
  <2>2. /\ TlbAlDia'
        /\ SinDobles(t) /\ (\A e \in Entradas : t[e].pagina # p) => SinDobles(tlb)'
    BY <1>1, <1>4, <2>1, ActualizarAlDia
  <2>3. ~EnMarco(p) => \A e \in Entradas : t[e].pagina # p
    BY <1>1, <1>3, <1>4, Constantes
  <2> QED BY <1>0, <1>4, <2>1, <2>2, <2>3
<1>5. CASE CrearEnLibre(c, p)
  <2>1. PICK f \in Marcos :
          /\ Primero(f, Libres)
          /\ IF MarcoEnTlb(tlb, f) THEN SeRompe("tlb") ELSE AgregarPagina(c, p, f, tlb, pag)
    BY <1>5 DEF CrearEnLibre
  <2>2. marcos[f] = Nada
    BY <2>1 DEF Primero, Libres
  <2>3. ~MarcoEnTlb(tlb, f)
    BY <2>2, Constantes DEF MarcoEnTlb, TlbAlDia
  <2>4. Limpia(tlb, f)
    BY <2>3, LimpiaDeAntes
  <2> QED
    BY <1>0, <1>4, <2>1, <2>3, <2>4
<1>6. CASE CrearReemplazando(c, p)
  <2>1. CASE SinVictima(c) \/ PunteroAfuera(c)
    BY <1>2, <2>1 DEF SinVictima, PunteroAfuera
  <2>2. ASSUME NEW v \in Paginas,
               IF NoEntra(v) THEN SeRompe("swap_lleno")
               ELSE IF TlbRota(v) THEN SeRompe("tlb")
               ELSE Reemplazar(c, p, v)
        PROVE  /\ TlbAlDia' /\ estado' \notin {"tlb", "inconsistente"}
               /\ SinDobles(tlb) /\ ~EnMarco(p) => SinDobles(tlb)'
    <3> DEFINE f == pag[v].marco
               t == TlbSinMarco(f)
    <3>1. f \in Marcos
      BY <1>0 DEF Registros
    <3>2. /\ Limpia(t, f) /\ ~MarcoEnTlb(t, f) /\ t \in [Entradas -> EntradasTlb]
          /\ \A e \in Entradas : t[e].pagina \in {tlb[e].pagina, Nada}
          /\ SinDobles(tlb) => SinDobles(t)
      BY <3>1, SinMarcoLimpia
    <3>3. ~TlbRota(v)
      BY <3>2 DEF TlbRota
    <3>4. CASE SeRompe("swap_lleno")
      BY <1>2, <3>4
    <3>5. CASE Reemplazar(c, p, v)
      <4>1. AgregarPagina(c, p, f, t, PagSin(c, v))
        BY <3>5 DEF Reemplazar
      <4> HIDE DEF f, t
      <4> QED BY <1>4, <3>1, <3>2, <4>1
    <3> QED BY <2>2, <3>3, <3>4, <3>5
  <2> QED
    BY <1>6, <2>1, <2>2 DEF CrearReemplazando
<1> QED
  BY <1>5, <1>6 DEF CrearPagina

LEMMA TlbAcceder ==
  ASSUME TypeOK, TlbAlDia, NEW p \in Paginas, NEW d \in Contenidos \cup {Nada},
         Acceder(p, d)
  PROVE  /\ TlbAlDia'
         /\ (\A v \in Paginas : Victima(p[1], v) => EnMarco(v)) =>
              estado' \notin {"tlb", "inconsistente"}
         /\ SinDobles(tlb) => SinDobles(tlb)'
<1>0. /\ tlb \in [Entradas -> EntradasTlb] /\ marcos \in [Marcos -> Paginas \cup {Nada}]
      /\ pag \in [Paginas -> Registros] /\ estado = "anda"
  BY TiposPartes DEF TiposTlb, TiposMemoria, Acceder, Atiende
<1>1. ASSUME NEW causa, SeRompe(causa)
      PROVE  TlbAlDia' /\ estado' = causa /\ (SinDobles(tlb) => SinDobles(tlb)')
  BY <1>1 DEF SeRompe, memoria, tablaTlb, TlbAlDia, SinDobles
<1>2. CASE AccederEnTlb(p, d)
  <2>1. PICK e \in Entradas :
          /\ tlb[e].pagina = p
          /\ IF marcos[tlb[e].marco] # p THEN SeRompe("inconsistente")
             ELSE /\ estado' = estado /\ tlb' = Tocada(e) /\ marcos' = marcos
    BY <1>2 DEF AccederEnTlb, Primero, Usar
  <2>2. marcos[tlb[e].marco] = p
    BY <2>1, Constantes DEF TlbAlDia
  <2>3. \A h \in Entradas : tlb'[h].pagina = tlb[h].pagina /\ tlb'[h].marco = tlb[h].marco
    BY <1>0, <2>1, <2>2 DEF Tocada, EntradasTlb
  <2>4. TlbAlDia'
    BY <2>1, <2>2, <2>3 DEF TlbAlDia
  <2>5. SinDobles(tlb) => SinDobles(tlb)'
    BY <2>3 DEF SinDobles
  <2> QED
    BY <1>0, <2>1, <2>2, <2>4, <2>5
<1>3. CASE AccederEnMarco(p, d)
  <2>1. PICK f \in Marcos :
          /\ marcos[f] = p
          /\ IF MarcoEnTlb(tlb, f) THEN SeRompe("tlb")
             ELSE ActualizarTlb(tlb, p, f) /\ marcos' = marcos /\ estado' = estado
    BY <1>3 DEF AccederEnMarco, Primero, Usar
  <2>2. ~EnTlb(p)
    BY <1>3 DEF AccederEnMarco
  <2>3. ~MarcoEnTlb(tlb, f)
    BY <2>1, <2>2, Constantes DEF MarcoEnTlb, EnTlb, TlbAlDia
  <2>4. Limpia(tlb, f)
    BY <2>3, LimpiaDeAntes
  <2>5. TlbAlDia' /\ (SinDobles(tlb) => SinDobles(tlb)')
    BY <1>0, <2>1, <2>2, <2>3, <2>4, ActualizarAlDia DEF EnTlb
  <2> QED
    BY <1>0, <2>1, <2>3, <2>5
<1>4. CASE AccederEnSwap(p, d)
  <2>1. CASE SinVictima(p[1]) \/ PunteroAfuera(p[1])
    <3>1. CASE SeRompe("sin_victima")
      BY <1>1, <3>1
    <3>2. CASE SeRompe("puntero")
      BY <1>1, <3>2
    <3> QED BY <2>1, <3>1, <3>2 DEF SinVictima, PunteroAfuera
  <2>2. ~EnTlb(p)
    BY <1>4 DEF AccederEnSwap
  <2>3. PICK v \in Paginas :
          \/ SinVictima(p[1]) \/ PunteroAfuera(p[1])
          \/ /\ Victima(p[1], v)
             /\ IF ~EnMarco(v) THEN SeRompe("inconsistente")
                ELSE IF NoEntra(v) THEN SeRompe("swap_lleno")
                ELSE IF enSwap[p] = Nada THEN SeRompe("colgada")
                ELSE TraerDeSwap(p, d, v)
    BY <1>4 DEF AccederEnSwap
  <2>4. CASE SeRompe("inconsistente") /\ Victima(p[1], v) /\ ~EnMarco(v)
    <3>1. ~(\A w \in Paginas : Victima(p[1], w) => EnMarco(w))
      BY <2>4
    <3>2. TlbAlDia' /\ (SinDobles(tlb) => SinDobles(tlb)')
      BY <1>1, <2>4
    <3> QED BY <3>1, <3>2
  <2>5. CASE SeRompe("swap_lleno") \/ SeRompe("colgada")
    <3>1. CASE SeRompe("swap_lleno")
      BY <1>1, <3>1
    <3>2. CASE SeRompe("colgada")
      BY <1>1, <3>2
    <3> QED BY <2>5, <3>1, <3>2
  <2>6. CASE TraerDeSwap(p, d, v)
    <3> DEFINE f == pag[v].marco
               t == TlbSinMarco(f)
    <3>1. f \in Marcos
      BY <1>0 DEF Registros
    <3>2. /\ Limpia(t, f) /\ ~MarcoEnTlb(t, f) /\ t \in [Entradas -> EntradasTlb]
          /\ \A e \in Entradas : t[e].pagina \in {tlb[e].pagina, Nada}
          /\ SinDobles(tlb) => SinDobles(t)
      BY <3>1, SinMarcoLimpia
    <3>3. /\ ActualizarTlb(t, p, f) /\ marcos' = [marcos EXCEPT ![f] = p]
          /\ estado' = estado
      BY <2>6, <3>2 DEF TraerDeSwap, TlbRota, Cargar, Usar
    <3>4. \A e \in Entradas : t[e].pagina # p
      BY <2>2, <3>2, Constantes DEF EnTlb
    <3> HIDE DEF f, t
    <3>5. TlbAlDia' /\ (SinDobles(t) => SinDobles(tlb)')
      BY <3>1, <3>2, <3>3, <3>4, ActualizarAlDia
    <3> QED BY <1>0, <3>2, <3>3, <3>5
  <2> QED
    BY <2>1, <2>3, <2>4, <2>5, <2>6
<1> QED
  BY <1>2, <1>3, <1>4 DEF Acceder

LEMMA TlbOtros ==
  ASSUME tlb' = tlb, marcos' = marcos
  PROVE  /\ TlbAlDia => TlbAlDia'
         /\ SinDobles(tlb) => SinDobles(tlb)'
  BY DEF TlbAlDia, SinDobles

LEMMA TlbPaso == TypeOK /\ TlbAlDia /\ [Next]_vars => TlbAlDia'
  BY TlbCrear, TlbAcceder, TlbOtros
     DEF Next, vars, memoria, tablaTlb, CrearCarpincho, QuitarPagina, Terminar,
         SeRompe, Leer, Escribir

(* get_marco_de_tlb never translates to a frame the page is not in, for    *)
(* any number of carpinchos, pages, frames and entries, with FIFO or LRU   *)
(* in the TLB and compactions or not; and every field keeps to its type.   *)
THEOREM PaginacionTiposYTlb == Spec => [](TypeOK /\ TlbAlDia)
<1>1. Init => TypeOK
  BY TiposIniciales
<1>2. Init => TlbAlDia
  BY DEF Init, TlbAlDia
<1>3. TypeOK /\ TlbAlDia /\ [Next]_vars => TypeOK' /\ TlbAlDia'
  BY TiposPaso, TlbPaso
<1> QED
  BY <1>1, <1>2, <1>3, PTL DEF Spec

(* The page tables, the frames, the TLB and the clocks of memory.h always  *)
(* hold values of their types, under every policy and with compactions.    *)
THEOREM PaginacionTipos == Spec => []TypeOK
  BY PaginacionTiposYTlb, PTL

-----------------------------------------------------------------------------
(* The steps, told by what they do to frames and pages: one page takes a   *)
(* frame, free or of another page, or is used where it is.                 *)

LEMMA PagSinCampos ==
  ASSUME TypeOK, NEW c \in Carpinchos, NEW v \in Paginas, NEW q \in Paginas
  PROVE  /\ PagSin(c, v)[q].presencia = (pag[q].presencia /\ q # v)
         /\ PagSin(c, v)[q].marco = IF q = v THEN 0 ELSE pag[q].marco
         /\ PagSin(c, v)[q].modif = pag[q].modif
<1>1. pag[q] \in Registros
  BY TiposPartes DEF TiposMemoria
<1> QED
  BY <1>1 DEF PagSin, Registros

LEMMA UsarCampos ==
  ASSUME NEW p \in Paginas, NEW f, NEW d, NEW k,
         NEW pg, pg \in [Paginas -> Registros], NEW ch, Usar(p, f, d, k, pg, ch)
  PROVE  /\ pag'[p].presencia /\ pag'[p].marco = f
         /\ pag'[p].modif = (pg[p].modif \/ (ALGORITMO_REEMPLAZO_MMU = "M-CLOCK" /\ d # Nada))
         /\ \A q \in Paginas \ {p} : pag'[q] = pg[q]
<1>1. pg[p] \in Registros
  OBVIOUS
<1>2. pag' = [pg EXCEPT ![p] = Accedida(pg[p], f, d, k)]
  BY DEF Usar
<1> QED
  BY <1>1, <1>2 DEF Accedida, Registros
(* p is in frame f, and the other pages are as in pg.                      *)
Ocupa(p, f, pg) ==
  /\ marcos' = [marcos EXCEPT ![f] = p]
  /\ pag'[p].presencia /\ pag'[p].marco = f
  /\ \A q \in Paginas \ {p} : pag'[q] = pg[q]

SeModifica(p, d) ==
  pag'[p].modif = (pag[p].modif \/ (ALGORITMO_REEMPLAZO_MMU = "M-CLOCK" /\ d # Nada))

Crece(c, p) ==
  /\ p = <<c, cantidad[c] + 1>> /\ p \in Paginas /\ fase[c] = "vivo" /\ ~pag'[p].modif
  /\ cantidad' = [cantidad EXCEPT ![c] = @ + 1] /\ fase' = fase

CreaLibre(c, p) ==
  \E f \in Marcos :
     /\ Crece(c, p) /\ marcos[f] = Nada /\ PuedeSumarMarco(c) /\ Ocupa(p, f, pag)
     /\ UNCHANGED <<cache, enSwap, algoritm_stack_pointer>>

CreaSobre(c, p, v) ==
  /\ Crece(c, p) /\ ~PuedeSumarMarco(c) /\ Victima(c, v)
  /\ Ocupa(p, pag[v].marco, PagSin(c, v))
  /\ cache' = [cache EXCEPT ![pag[v].marco] = Vacio]
  /\ enSwap' = SwapCon(v)
  /\ algoritm_stack_pointer' = PunteroTras(c, v)

Toca(p, d) ==
  \E f \in Marcos :
     /\ Existe(p) /\ marcos[f] = p /\ Ocupa(p, f, pag) /\ SeModifica(p, d)
     /\ \E x \in Queda(cache[f], d) : cache' = [cache EXCEPT ![f] = x]
     /\ UNCHANGED <<listas, enSwap, algoritm_stack_pointer>>

Trae(p, d, v) ==
  /\ Existe(p) /\ fase[p[1]] = "vivo" /\ ~EnMarco(p) /\ enSwap[p] # Nada
  /\ Victima(p[1], v) /\ EnMarco(v)
  /\ Ocupa(p, pag[v].marco, PagSin(p[1], v)) /\ SeModifica(p, d)
  /\ \E x \in Queda(enSwap[p], d) : cache' = [cache EXCEPT ![pag[v].marco] = x]
  /\ enSwap' = [SwapCon(v) EXCEPT ![p] = Nada]
  /\ algoritm_stack_pointer' = PunteroTras(p[1], v)
  /\ UNCHANGED listas

Quieta == UNCHANGED <<pag, marcos, cache, enSwap, algoritm_stack_pointer>>

EmpiezaUno == \/ fase' = fase
              \/ \E c \in Carpinchos : fase[c] = "nuevo" /\ fase' = [fase EXCEPT ![c] = "vivo"]

LEMMA FormaDeCrear ==
  ASSUME TypeOK, TlbAlDia, NEW c \in Carpinchos, CrearPagina(c)
  PROVE  \/ Quieta /\ UNCHANGED listas
         \/ \E p \in Paginas : \/ CreaLibre(c, p)
                              \/ \E v \in Paginas : CreaSobre(c, p, v)
<1> DEFINE p == <<c, cantidad[c] + 1>>
<1>0. pag \in [Paginas -> Registros] /\ fase[c] = "vivo"
  BY TiposPartes DEF TiposMemoria, CrearPagina, Atiende
<1>1. p \in Paginas
  BY PaginaSiguiente, TiposPartes DEF CrearPagina
<1>2. ASSUME NEW causa, SeRompe(causa) PROVE Quieta /\ UNCHANGED listas
  BY <1>2 DEF SeRompe, memoria, listas, Quieta
<1>3. ASSUME NEW f \in Marcos, NEW t, NEW pg \in [Paginas -> Registros],
             AgregarPagina(c, p, f, t, pg)
      PROVE  Crece(c, p) /\ Ocupa(p, f, pg)
  <2>1. pag'[p] = Nueva(f) /\ \A q \in Paginas \ {p} : pag'[q] = pg[q]
    BY <1>1, <1>3 DEF AgregarPagina
  <2>2. pag'[p].presencia /\ pag'[p].marco = f /\ ~pag'[p].modif
    BY <2>1 DEF Nueva
  <2> HIDE DEF p
  <2> QED
    BY <1>0, <1>1, <1>3, <2>1, <2>2 DEF Crece, Ocupa, AgregarPagina, p
<1>4. CASE PuedeSumarMarco(c) /\ CrearEnLibre(c, p)
  <2>1. PICK f \in Marcos :
          /\ Primero(f, Libres)
          /\ \/ SeRompe("tlb")
             \/ /\ AgregarPagina(c, p, f, tlb, pag)
                /\ UNCHANGED <<cache, enSwap, algoritm_stack_pointer>>
    BY <1>4 DEF CrearEnLibre
  <2>2. marcos[f] = Nada
    BY <2>1 DEF Primero, Libres
  <2>3. CASE SeRompe("tlb")
    BY <1>2, <2>3
  <2>4. CASE /\ AgregarPagina(c, p, f, tlb, pag)
             /\ UNCHANGED <<cache, enSwap, algoritm_stack_pointer>>
    <3>1. Crece(c, p) /\ Ocupa(p, f, pag)
      BY <1>0, <1>3, <2>4
    <3>2. CreaLibre(c, p)
      BY <1>4, <2>2, <2>4, <3>1 DEF CreaLibre
    <3> QED BY <1>1, <3>2
  <2> QED BY <2>1, <2>3, <2>4
<1>5. CASE ~PuedeSumarMarco(c) /\ CrearReemplazando(c, p)
  <2>1. CASE SinVictima(c) \/ PunteroAfuera(c)
    BY <1>2, <2>1 DEF SinVictima, PunteroAfuera
  <2>2. ASSUME NEW v \in Paginas, Victima(c, v), Reemplazar(c, p, v), enSwap' = SwapCon(v)
        PROVE  CreaSobre(c, p, v)
    <3>1. pag[v].marco \in Marcos /\ PagSin(c, v) \in [Paginas -> Registros]
      BY <1>0, TiposPagSin, TiposPartes DEF Registros
    <3>2. Crece(c, p) /\ Ocupa(p, pag[v].marco, PagSin(c, v))
      BY <1>3, <2>2, <3>1 DEF Reemplazar
    <3> QED
      BY <1>5, <2>2, <3>2 DEF Reemplazar, CreaSobre
  <2>3. \/ SinVictima(c) \/ PunteroAfuera(c)
        \/ \E causa \in Estados : SeRompe(causa)
        \/ \E v \in Paginas : Victima(c, v) /\ Reemplazar(c, p, v) /\ enSwap' = SwapCon(v)
    BY <1>5 DEF CrearReemplazando, Estados
  <2> QED
    BY <1>1, <1>2, <2>1, <2>2, <2>3
<1> QED
  BY <1>4, <1>5 DEF CrearPagina

LEMMA FormaDeAcceder ==
  ASSUME TypeOK, TlbAlDia, NEW p \in Paginas, NEW d \in Contenidos \cup {Nada},
         Acceder(p, d)
  PROVE  \/ Quieta /\ UNCHANGED listas
         \/ Toca(p, d)
         \/ \E v \in Paginas : Trae(p, d, v)
<1>0. /\ pag \in [Paginas -> Registros] /\ cache \in [Marcos -> Bytes]
      /\ marcos \in [Marcos -> Paginas \cup {Nada}]
      /\ Existe(p) /\ fase[p[1]] = "vivo" /\ p[1] \in Carpinchos
  BY TiposPartes DEF TiposMemoria, Acceder, Atiende, Paginas
<1>1. ASSUME NEW causa, SeRompe(causa) PROVE Quieta /\ UNCHANGED listas
  BY <1>1 DEF SeRompe, memoria, listas, Quieta
<1>2. ASSUME NEW f \in Marcos, marcos[f] = p, NEW k \in Nat,
             Usar(p, f, d, k, pag, cache), UNCHANGED <<marcos, enSwap, algoritm_stack_pointer>>
      PROVE  Toca(p, d)
  <2>1. /\ pag'[p].presencia /\ pag'[p].marco = f /\ SeModifica(p, d)
        /\ \A q \in Paginas \ {p} : pag'[q] = pag[q]
    BY <1>0, <1>2, UsarCampos DEF SeModifica
  <2>2. marcos' = [marcos EXCEPT ![f] = p]
    BY <1>0, <1>2
  <2> QED
    BY <1>0, <1>2, <2>1, <2>2 DEF Toca, Ocupa, Usar
<1>3. CASE AccederEnTlb(p, d)
  <2>1. PICK e \in Entradas :
          /\ tlb[e].pagina = p
          /\ IF marcos[tlb[e].marco] # p THEN SeRompe("inconsistente")
             ELSE /\ Usar(p, tlb[e].marco, d, Toques, pag, cache)
                  /\ UNCHANGED <<marcos, enSwap, algoritm_stack_pointer>>
    BY <1>3 DEF AccederEnTlb, Primero
  <2>2. tlb[e].marco \in Marcos /\ marcos[tlb[e].marco] = p
    BY <2>1, Constantes DEF TlbAlDia
  <2>3. Toques \in Nat
    BY DEF Toques
  <2> QED BY <1>2, <2>1, <2>2, <2>3
<1>4. CASE AccederEnMarco(p, d)
  <2>1. \E f \in Marcos :
          /\ marcos[f] = p
          /\ \/ SeRompe("tlb")
             \/ /\ Usar(p, f, d, 0, pag, cache)
                /\ UNCHANGED <<marcos, enSwap, algoritm_stack_pointer>>
    BY <1>4 DEF AccederEnMarco, Primero
  <2> QED BY <1>1, <1>2, <2>1
<1>5. CASE AccederEnSwap(p, d)
  <2>1. CASE SinVictima(p[1]) \/ PunteroAfuera(p[1])
    BY <1>1, <2>1 DEF SinVictima, PunteroAfuera
  <2>2. ASSUME NEW v \in Paginas, Victima(p[1], v), EnMarco(v), enSwap[p] # Nada,
               Cargar(p, d, v, enSwap[p]), enSwap' = [SwapCon(v) EXCEPT ![p] = Nada]
        PROVE  Trae(p, d, v)
    <3> DEFINE f == pag[v].marco
               ch == [cache EXCEPT ![f] = enSwap[p]]
    <3>1. f \in Marcos /\ PagSin(p[1], v) \in [Paginas -> Registros]
      BY <1>0, TiposPagSin, TiposPartes DEF Registros
    <3>2. Usar(p, f, d, 0, PagSin(p[1], v), ch)
      BY <2>2 DEF Cargar
    <3>3. ch[f] = enSwap[p] /\ \A x : [ch EXCEPT ![f] = x] = [cache EXCEPT ![f] = x]
      BY <1>0, <3>1
    <3>4. \E x \in Queda(enSwap[p], d) : cache' = [cache EXCEPT ![f] = x]
      <4> HIDE DEF f, ch
      <4> QED BY <3>2, <3>3 DEF Usar
    <3>5. /\ pag'[p].presencia /\ pag'[p].marco = f
          /\ pag'[p].modif = (PagSin(p[1], v)[p].modif
                                \/ (ALGORITMO_REEMPLAZO_MMU = "M-CLOCK" /\ d # Nada))
          /\ \A q \in Paginas \ {p} : pag'[q] = PagSin(p[1], v)[q]
      <4> HIDE DEF f, ch
      <4> QED BY <3>1, <3>2, UsarCampos
    <3>6. SeModifica(p, d)
      BY <1>0, <3>5, PagSinCampos DEF SeModifica
    <3>7. ~EnMarco(p)
      BY <1>5 DEF AccederEnSwap
    <3> QED
      BY <1>0, <2>2, <3>2, <3>4, <3>5, <3>6, <3>7 DEF Trae, Ocupa, Cargar, Usar
  <2>3. \/ SinVictima(p[1]) \/ PunteroAfuera(p[1])
        \/ \E causa \in Estados : SeRompe(causa)
        \/ \E v \in Paginas :
             /\ Victima(p[1], v) /\ EnMarco(v) /\ enSwap[p] # Nada
             /\ Cargar(p, d, v, enSwap[p]) /\ enSwap' = [SwapCon(v) EXCEPT ![p] = Nada]
    BY <1>5 DEF AccederEnSwap, TraerDeSwap, Estados
  <2> QED BY <1>1, <2>1, <2>2, <2>3
<1> QED
  BY <1>3, <1>4, <1>5 DEF Acceder

LEMMA Formas ==
  ASSUME TypeOK, TlbAlDia, [Next]_vars
  PROVE  \/ Quieta /\ cantidad' = cantidad /\ EmpiezaUno
         \/ \E c \in Carpinchos : /\ Compacta /\ Quieta /\ fase' = fase /\ cantidad[c] = 1
                                 /\ cantidad' = [cantidad EXCEPT ![c] = 0]
         \/ \E c \in Carpinchos : Terminar(c)
         \/ \E c \in Carpinchos, p \in Paginas :
              CreaLibre(c, p) \/ \E v \in Paginas : CreaSobre(c, p, v)
         \/ \E p \in Paginas, d \in Contenidos \cup {Nada} :
              Toca(p, d) \/ \E v \in Paginas : Trae(p, d, v)
<1>1. ASSUME Quieta, UNCHANGED listas
      PROVE  Quieta /\ cantidad' = cantidad /\ EmpiezaUno
  BY <1>1 DEF listas, EmpiezaUno
<1>2. ASSUME NEW c \in Carpinchos, CrearCarpincho(c)
      PROVE  Quieta /\ cantidad' = cantidad /\ EmpiezaUno
  BY <1>2 DEF CrearCarpincho, memoria, Quieta, EmpiezaUno
<1>3. ASSUME NEW c \in Carpinchos, QuitarPagina(c)
      PROVE  \/ Quieta /\ cantidad' = cantidad /\ EmpiezaUno
             \/ /\ Compacta /\ Quieta /\ fase' = fase /\ cantidad[c] = 1
                /\ cantidad' = [cantidad EXCEPT ![c] = 0]
  BY <1>3 DEF QuitarPagina, SeRompe, listas, memoria, Quieta, EmpiezaUno
<1>4. CASE UNCHANGED vars
  BY <1>4 DEF vars, listas, memoria, Quieta, EmpiezaUno
<1>5. ASSUME NEW p \in Paginas, Leer(p) \/ \E d \in Contenidos : Escribir(p, d)
      PROVE  \E d \in Contenidos \cup {Nada} : Acceder(p, d)
  BY <1>5 DEF Leer, Escribir
<1> QED
  BY <1>1, <1>2, <1>3, <1>4, <1>5, FormaDeCrear, FormaDeAcceder DEF Next

-----------------------------------------------------------------------------
(* The branches the code calls inconsistent *)

(* Under global assignment a present page is in the frame its table names, *)
(* even when a compaction has left another frame of the page behind.       *)
PresentesEnMarco ==
  TIPO_ASIGNACION = "DINAMICA" =>
    \A p \in Presentes : marcos[pag[p].marco] = p

LEMMA VictimasEnMarco ==
  ASSUME TypeOK, PresentesEnMarco, NEW c \in Carpinchos, NEW v, Victima(c, v)
  PROVE  EnMarco(v)
<1>1. v \in Victimas(c)
  BY VictimaEsVictima
<1>2. CASE TIPO_ASIGNACION = "FIJA"
  BY <1>1, <1>2 DEF Victimas
<1>3. CASE TIPO_ASIGNACION # "FIJA"
  <2>1. v \in Presentes /\ TIPO_ASIGNACION = "DINAMICA"
    BY <1>1, <1>3, PaginacionAssumption DEF Victimas
  <2>2. pag[v].marco \in Marcos
    BY <2>1, TiposPartes DEF TiposMemoria, Presentes, Registros
  <2> QED BY <2>1, <2>2 DEF PresentesEnMarco, EnMarco
<1> QED BY <1>2, <1>3


LEMMA PresentesPaso ==
  ASSUME TypeOK, TlbAlDia, PresentesEnMarco, [Next]_vars
  PROVE  PresentesEnMarco'
<1> SUFFICES ASSUME TIPO_ASIGNACION = "DINAMICA"
             PROVE  PresentesEnMarco'
  BY DEF PresentesEnMarco
<1>0. /\ pag \in [Paginas -> Registros] /\ marcos \in [Marcos -> Paginas \cup {Nada}]
      /\ cantidad \in [Carpinchos -> 0..MaxPaginas]
  BY TiposPartes DEF TiposMemoria, TiposListas
<1>1. ASSUME Quieta, \A p \in Paginas : Existe(p)' => Existe(p)
      PROVE  PresentesEnMarco'
  BY <1>1 DEF Quieta, PresentesEnMarco, Presentes
<1>2. ASSUME NEW p \in Paginas, NEW f \in Marcos, NEW pg, Ocupa(p, f, pg),
             \A q \in Paginas \ {p} : Existe(q)' => Existe(q),
             \A q \in Paginas \ {p} : Existe(q) /\ pg[q].presencia =>
                 q \in Presentes /\ pg[q].marco = pag[q].marco /\ pag[q].marco # f
      PROVE  PresentesEnMarco'
  BY <1>0, <1>2 DEF Ocupa, PresentesEnMarco, Presentes, Registros
<1>3. ASSUME NEW c \in Carpinchos, NEW p, Crece(c, p)
      PROVE  \A q \in Paginas \ {p} : Existe(q)' => Existe(q)
  BY <1>0, <1>3 DEF Crece, Existe, Paginas, Numeros
<1>4. ASSUME NEW c \in Carpinchos, NEW v \in Paginas, Victima(c, v)
      PROVE  /\ v \in Presentes /\ marcos[pag[v].marco] = v
             /\ PagSin(c, v) \in [Paginas -> Registros] /\ pag[v].marco \in Marcos
             /\ \A q \in Paginas : PagSin(c, v)[q].presencia =>
                   pag[q].presencia /\ PagSin(c, v)[q].marco = pag[q].marco /\ q # v
  <2>1. v \in Presentes
    BY <1>4, VictimaEsVictima DEF Victimas
  <2>2. PagSin(c, v) \in [Paginas -> Registros]
    BY TiposPagSin, TiposPartes
  <2>3. \A q \in Paginas : PagSin(c, v)[q].presencia =>
                   pag[q].presencia /\ PagSin(c, v)[q].marco = pag[q].marco /\ q # v
    BY PagSinCampos
  <2> QED BY <1>0, <2>1, <2>2, <2>3 DEF PresentesEnMarco, Registros
<1>5. ASSUME NEW c \in Carpinchos, NEW p \in Paginas, CreaLibre(c, p)
      PROVE  PresentesEnMarco'
  <2>1. PICK f \in Marcos : Crece(c, p) /\ marcos[f] = Nada /\ Ocupa(p, f, pag)
    BY <1>5 DEF CreaLibre
  <2>2. \A q \in Paginas \ {p} : Existe(q)' => Existe(q)
    BY <1>3, <2>1
  <2>3. \A q \in Presentes : pag[q].marco # f
    BY <2>1, Constantes DEF PresentesEnMarco, Presentes
  <2>4. \A q \in Paginas \ {p} : Existe(q) /\ pag[q].presencia =>
                 q \in Presentes /\ pag[q].marco # f
    BY <2>3 DEF Presentes
  <2> QED BY <1>2, <2>1, <2>2, <2>4
<1>6. ASSUME NEW c \in Carpinchos, NEW p \in Paginas, NEW v \in Paginas, CreaSobre(c, p, v)
      PROVE  PresentesEnMarco'
  <2>1. Crece(c, p) /\ Victima(c, v) /\ Ocupa(p, pag[v].marco, PagSin(c, v))
    BY <1>6 DEF CreaSobre
  <2>2. \A q \in Paginas \ {p} : Existe(q)' => Existe(q)
    BY <1>3, <2>1
  <2>3. \A q \in Paginas \ {p} : Existe(q) /\ PagSin(c, v)[q].presencia =>
          /\ q \in Presentes /\ PagSin(c, v)[q].marco = pag[q].marco
          /\ pag[q].marco # pag[v].marco
    BY <1>4, <2>1 DEF PresentesEnMarco, Presentes
  <2> QED BY <1>2, <1>4, <2>1, <2>2, <2>3
<1>7. ASSUME NEW p \in Paginas, NEW d \in Contenidos \cup {Nada}, Toca(p, d)
      PROVE  PresentesEnMarco'
  <2>1. PICK f \in Marcos : marcos[f] = p /\ Ocupa(p, f, pag) /\ cantidad' = cantidad
    BY <1>7 DEF Toca, listas
  <2>2. \A q \in Paginas : Existe(q)' => Existe(q)
    BY <2>1 DEF Existe
  <2>3. \A q \in Paginas \ {p} : Existe(q) /\ pag[q].presencia =>
                 q \in Presentes /\ pag[q].marco # f
    BY <2>1 DEF PresentesEnMarco, Presentes
  <2> QED BY <1>2, <2>1, <2>2, <2>3
<1>8. ASSUME NEW p \in Paginas, NEW d \in Contenidos \cup {Nada}, NEW v \in Paginas,
             Trae(p, d, v)
      PROVE  PresentesEnMarco'
  <2>1. /\ Victima(p[1], v) /\ Ocupa(p, pag[v].marco, PagSin(p[1], v))
        /\ cantidad' = cantidad /\ p[1] \in Carpinchos
    BY <1>8 DEF Trae, listas, Paginas
  <2>2. \A q \in Paginas : Existe(q)' => Existe(q)
    BY <2>1 DEF Existe
  <2>3. \A q \in Paginas \ {p} : Existe(q) /\ PagSin(p[1], v)[q].presencia =>
          /\ q \in Presentes /\ PagSin(p[1], v)[q].marco = pag[q].marco
          /\ pag[q].marco # pag[v].marco
    BY <1>4, <2>1 DEF PresentesEnMarco, Presentes
  <2>4. pag[v].marco \in Marcos
    BY <1>4, <2>1
  <2> QED BY <1>2, <2>1, <2>2, <2>3, <2>4
<1>9. ASSUME NEW c \in Carpinchos, Quieta, cantidad' = [cantidad EXCEPT ![c] = 0]
      PROVE  PresentesEnMarco'
  <2>1. \A p \in Paginas : Existe(p)' => Existe(p)
    BY <1>0, <1>9 DEF Existe, Paginas, Numeros
  <2> QED BY <1>1, <1>9, <2>1
<1>10. ASSUME NEW c \in Carpinchos, Terminar(c) PROVE PresentesEnMarco'
  BY <1>9, <1>10 DEF Terminar, memoria, Quieta
<1>11. ASSUME Quieta, cantidad' = cantidad PROVE PresentesEnMarco'
  BY <1>1, <1>11 DEF Existe
<1> QED
  BY <1>5, <1>6, <1>7, <1>8, <1>9, <1>10, <1>11, Formas

(* get_marco_de_tlb, actualizar_tlb and swampear_pagina never take the      *)
(* branch that reports an inconsistency, whatever the policies and however *)
(* often the pages of a carpincho are taken away under their frames.       *)
THEOREM PaginacionSinInconsistencias == Spec => []SinInconsistencias
<1>1. Init => PresentesEnMarco /\ SinInconsistencias
  BY DEF Init, PresentesEnMarco, Presentes, PaginaNueva, SinInconsistencias
<1>2. TypeOK /\ TlbAlDia /\ PresentesEnMarco /\ [Next]_vars => PresentesEnMarco'
  BY PresentesPaso
<1>3. TypeOK /\ TlbAlDia /\ PresentesEnMarco /\ SinInconsistencias /\ [Next]_vars
        => SinInconsistencias'
  <2> SUFFICES ASSUME TypeOK, TlbAlDia, PresentesEnMarco, SinInconsistencias, [Next]_vars
               PROVE  estado' \notin {"tlb", "inconsistente"}
    BY DEF SinInconsistencias
  <2>1. ASSUME NEW p \in Paginas, NEW d \in Contenidos \cup {Nada}, Acceder(p, d)
        PROVE  estado' \notin {"tlb", "inconsistente"}
    <3>1. p[1] \in Carpinchos
      BY DEF Paginas
    <3>2. \A v \in Paginas : Victima(p[1], v) => EnMarco(v)
      BY <3>1, VictimasEnMarco
    <3> QED BY <2>1, <3>2, TlbAcceder
  <2>2. ASSUME NEW c \in Carpinchos, CrearPagina(c)
        PROVE  estado' \notin {"tlb", "inconsistente"}
    BY <2>2, TlbCrear
  <2>3. ASSUME NEW c \in Carpinchos, CrearCarpincho(c) \/ QuitarPagina(c) \/ Terminar(c)
        PROVE  estado' \notin {"tlb", "inconsistente"}
    BY <2>3 DEF CrearCarpincho, QuitarPagina, Terminar, SeRompe, SinInconsistencias
  <2>4. CASE UNCHANGED vars
    BY <2>4 DEF vars, SinInconsistencias
  <2> QED
    BY <2>1, <2>2, <2>3, <2>4 DEF Next, Leer, Escribir
<1> QED
  BY <1>1, <1>2, <1>3, PaginacionTiposYTlb, PTL DEF Spec

-----------------------------------------------------------------------------
(* What is proved while no compaction takes a page away: where each page   *)
(* is, the frames each carpincho has, the hand of M-CLOCK, and that the    *)
(* memory is a flat one.                                                   *)

(* Where a page is.  The pages of a carpincho that ended keep their frames *)
(* and their places in the swap, so the invariant is of the others.        *)

CantidadVivos == \A c \in Carpinchos : cantidad[c] # 0 => fase[c] = "vivo"

MarcosEnUso ==
  \A f \in Marcos : marcos[f] # Nada /\ fase[marcos[f][1]] # "terminado" =>
     marcos[f] \in Presentes /\ pag[marcos[f]].marco = f

Perdida(p) == Existe(p) /\ ~pag[p].presencia /\ enSwap[p] = Nada
Ubicada(p) == /\ p \in Presentes => marcos[pag[p].marco] = p
              /\ p \in Presentes \/ ~Existe(p) => enSwap[p] = Nada
              /\ Perdida(p) => ALGORITMO_REEMPLAZO_MMU = "M-CLOCK" /\ ~pag[p].modif
Ubicadas == \A p \in Paginas : fase[p[1]] # "terminado" => Ubicada(p)

Lugares == CantidadVivos /\ MarcosEnUso /\ Ubicadas

LEMMA ExistenVivas ==
  ASSUME TypeOK, CantidadVivos, NEW p \in Paginas, Existe(p)
  PROVE  fase[p[1]] = "vivo"
  BY TiposPartes DEF CantidadVivos, Existe, Paginas, Numeros, TiposListas

LEMMA LugaresDicen ==
  ASSUME TypeOK, Lugares
  PROVE  PaginaEnUnLugar
<1> SUFFICES ASSUME NEW p \in Paginas, Existe(p)
             PROVE  IF pag[p].presencia
                      THEN /\ enSwap[p] = Nada
                           /\ {f \in Marcos : marcos[f] = p} = {pag[p].marco}
                      ELSE /\ ~EnMarco(p)
                           /\ enSwap[p] = Nada => /\ ALGORITMO_REEMPLAZO_MMU = "M-CLOCK"
                                                  /\ ~pag[p].modif
  BY DEF PaginaEnUnLugar
<1>1. fase[p[1]] = "vivo" /\ Ubicada(p)
  BY ExistenVivas DEF Lugares, Ubicadas
<1>2. pag[p].marco \in Marcos
  BY TiposPartes DEF TiposMemoria, Registros
<1>3. \A f \in Marcos : marcos[f] = p => p \in Presentes /\ pag[p].marco = f
  BY <1>1, Constantes DEF Lugares, MarcosEnUso
<1>4. CASE pag[p].presencia
  <2>1. p \in Presentes
    BY <1>4 DEF Presentes
  <2> QED BY <1>1, <1>2, <1>3, <1>4, <2>1 DEF Ubicada
<1>5. CASE ~pag[p].presencia
  BY <1>1, <1>3, <1>5 DEF Ubicada, Perdida, EnMarco, Presentes
<1> QED BY <1>4, <1>5

(* Under LRU every page that leaves is sent, so a page that is in no frame *)
(* is in the swap, and the memory never waits for an answer that does not  *)
(* come.                                                                   *)
LEMMA ContestaPaso ==
  ASSUME ALGORITMO_REEMPLAZO_MMU = "LRU", TypeOK, Lugares, estado # "colgada",
         [Next]_vars
  PROVE  estado' # "colgada"
<1>1. ASSUME NEW p \in Paginas, Existe(p), ~EnMarco(p) PROVE enSwap[p] # Nada
  <2>1. PaginaEnUnLugar
    BY LugaresDicen
  <2> QED BY <1>1, <2>1 DEF PaginaEnUnLugar, EnMarco
<1>2. ASSUME NEW c \in Carpinchos,
             \/ CrearCarpincho(c) \/ CrearPagina(c) \/ QuitarPagina(c) \/ Terminar(c)
      PROVE  estado' # "colgada"
  BY <1>2 DEF CrearCarpincho, CrearPagina, CrearEnLibre, CrearReemplazando, Reemplazar,
              AgregarPagina, SinVictima, PunteroAfuera, QuitarPagina, Terminar, SeRompe
<1>3. ASSUME NEW p \in Paginas, NEW d, Acceder(p, d) PROVE estado' # "colgada"
  <2>1. CASE AccederEnTlb(p, d) \/ AccederEnMarco(p, d)
    BY <2>1 DEF AccederEnTlb, AccederEnMarco, Usar, SeRompe
  <2>2. CASE AccederEnSwap(p, d)
    <3>1. enSwap[p] # Nada
      BY <1>1, <1>3, <2>2 DEF Acceder, AccederEnSwap
    <3> QED BY <2>2, <3>1 DEF AccederEnSwap, TraerDeSwap, Cargar, Usar, SinVictima,
                              PunteroAfuera, SeRompe
  <2> QED BY <1>3, <2>1, <2>2 DEF Acceder
<1> QED
  BY <1>2, <1>3 DEF Next, Leer, Escribir, vars

(* A page to replace is present, in the frame its record names.            *)
LEMMA VictimaEnSuMarco ==
  ASSUME TypeOK, Lugares, NEW c \in Carpinchos, NEW v, Victima(c, v)
  PROVE  /\ v \in Presentes /\ v \in Paginas /\ pag[v].marco \in Marcos
         /\ marcos[pag[v].marco] = v /\ fase[v[1]] = "vivo" /\ enSwap[v] = Nada
         /\ TIPO_ASIGNACION = "FIJA" => v[1] = c
<1>1. v \in Victimas(c) /\ v \in Paginas
  BY VictimaEsVictima
<1>2. Existe(v)
  BY <1>1 DEF Victimas, Presentes
<1>3. fase[v[1]] = "vivo" /\ Ubicada(v)
  BY <1>1, <1>2, ExistenVivas DEF Lugares, Ubicadas
<1>4. v \in Presentes
  BY <1>1, <1>3, Constantes DEF Victimas, EnMarco, Lugares, MarcosEnUso
<1>5. pag[v].marco \in Marcos
  BY <1>1, TiposPartes DEF TiposMemoria, Registros
<1> QED
  BY <1>1, <1>3, <1>4, <1>5 DEF Ubicada, Victimas

(* p takes frame f, or is used in it: the page that was there, if it was   *)
(* another one, leaves, and goes to the swap unless it may be lost.        *)
SeMuda(p, f) ==
  \A q \in Paginas \ {p} :
     /\ Existe(q)' <=> Existe(q)
     /\ pag'[q].modif <=> pag[q].modif
     /\ IF marcos[f] = q
          THEN /\ ~pag'[q].presencia
               /\ enSwap'[q] = Nada => ALGORITMO_REEMPLAZO_MMU = "M-CLOCK" /\ ~pag[q].modif
          ELSE /\ pag'[q].presencia <=> pag[q].presencia
               /\ pag'[q].presencia => pag'[q].marco = pag[q].marco
               /\ enSwap'[q] = enSwap[q]

Entra(p, f) ==
  /\ marcos' = [marcos EXCEPT ![f] = p] /\ fase' = fase /\ fase[p[1]] = "vivo"
  /\ pag'[p].presencia /\ pag'[p].marco = f /\ Existe(p)' /\ enSwap'[p] = Nada
  /\ EnMarco(p) => marcos[f] = p
  /\ TIPO_ASIGNACION = "FIJA" /\ marcos[f] # Nada => marcos[f][1] = p[1]
  /\ marcos[f] # Nada => marcos[f] \in Presentes /\ fase[marcos[f][1]] = "vivo"

LEMMA SwapConCampos ==
  ASSUME TypeOK, NEW v \in Paginas
  PROVE  /\ \A q \in Paginas \ {v} : SwapCon(v)[q] = enSwap[q]
         /\ SeEnvia(v) => SwapCon(v)[v] # Nada
         /\ ~SeEnvia(v) => SwapCon(v) = enSwap
         /\ SwapCon(v) \in [Paginas -> Bytes \cup {Nada}]
<1>1. enSwap \in [Paginas -> Bytes \cup {Nada}]
  BY TiposPartes DEF TiposMemoria
<1>2. VueltaDe(cache[pag[v].marco]) # Nada
  BY PaginacionAssumption DEF VueltaDe
<1>3. SwapCon(v) \in [Paginas -> Bytes \cup {Nada}]
  BY TiposSwapCon, TiposPartes
<1> QED BY <1>1, <1>2, <1>3 DEF SwapCon

LEMMA CreceExiste ==
  ASSUME TypeOK, NEW c \in Carpinchos, NEW p, Crece(c, p)
  PROVE  /\ Existe(p)' /\ ~Existe(p) /\ p[1] = c /\ p \in Paginas
         /\ \A q \in Paginas \ {p} : Existe(q)' <=> Existe(q)
<1>1. cantidad \in [Carpinchos -> 0..MaxPaginas]
  BY TiposPartes DEF TiposListas
<1> QED
  BY <1>1, PaginacionAssumption DEF Crece, Existe, Paginas, Numeros

LEMMA NuevaEnNingunLado ==
  ASSUME TypeOK, Lugares, NEW c \in Carpinchos, NEW p \in Paginas, p[1] = c, ~Existe(p),
         fase[c] = "vivo"
  PROVE  ~EnMarco(p) /\ enSwap[p] = Nada
<1>1. ~EnMarco(p)
  BY Constantes DEF EnMarco, Lugares, MarcosEnUso, Presentes
<1>2. enSwap[p] = Nada
  BY DEF Lugares, Ubicadas, Ubicada
<1> QED BY <1>1, <1>2

LEMMA EntraCreaLibre ==
  ASSUME TypeOK, Lugares, NEW c \in Carpinchos, NEW p \in Paginas, CreaLibre(c, p)
  PROVE  \E f \in Marcos : Entra(p, f) /\ SeMuda(p, f)
<1>1. PICK f \in Marcos :
        /\ Crece(c, p) /\ marcos[f] = Nada /\ Ocupa(p, f, pag) /\ enSwap' = enSwap
  BY DEF CreaLibre
<1>2. /\ Existe(p)' /\ ~Existe(p) /\ p[1] = c
      /\ \A q \in Paginas \ {p} : Existe(q)' <=> Existe(q)
  BY <1>1, CreceExiste
<1>3. ~EnMarco(p) /\ enSwap[p] = Nada /\ fase' = fase /\ fase[c] = "vivo"
  BY <1>1, <1>2, NuevaEnNingunLado DEF Crece
<1>4. Entra(p, f)
  BY <1>1, <1>2, <1>3 DEF Entra, Ocupa
<1>5. SeMuda(p, f)
  BY <1>1, <1>2, Constantes DEF SeMuda, Ocupa
<1> QED BY <1>4, <1>5

(* What swampear_pagina does to the page it sends away.                    *)
LEMMA MudaVictima ==
  ASSUME TypeOK, Lugares, NEW c \in Carpinchos, NEW p \in Paginas, NEW v \in Paginas,
         Victima(c, v), Ocupa(p, pag[v].marco, PagSin(c, v)),
         \A q \in Paginas \ {p} : Existe(q)' <=> Existe(q),
         \A q \in Paginas \ {p} : enSwap'[q] = SwapCon(v)[q]
  PROVE  SeMuda(p, pag[v].marco)
<1>1. marcos[pag[v].marco] = v
  BY VictimaEnSuMarco
<1> SUFFICES ASSUME NEW q \in Paginas \ {p}
    PROVE /\ Existe(q)' <=> Existe(q)
          /\ pag'[q].modif <=> pag[q].modif
          /\ IF v = q
               THEN /\ ~pag'[q].presencia
                    /\ enSwap'[q] = Nada => ALGORITMO_REEMPLAZO_MMU = "M-CLOCK" /\ ~pag[q].modif
               ELSE /\ pag'[q].presencia <=> pag[q].presencia
                    /\ pag'[q].presencia => pag'[q].marco = pag[q].marco
                    /\ enSwap'[q] = enSwap[q]
  BY <1>1 DEF SeMuda
<1>2. pag'[q] = PagSin(c, v)[q]
  BY DEF Ocupa
<1>3. /\ pag'[q].presencia <=> pag[q].presencia /\ q # v
      /\ pag'[q].marco = IF q = v THEN 0 ELSE pag[q].marco
      /\ pag'[q].modif <=> pag[q].modif
  <2>1. /\ PagSin(c, v)[q].presencia = (pag[q].presencia /\ q # v)
        /\ PagSin(c, v)[q].marco = IF q = v THEN 0 ELSE pag[q].marco
        /\ PagSin(c, v)[q].modif = pag[q].modif
    BY PagSinCampos
  <2> QED BY <1>2, <2>1
<1>4. v = q /\ enSwap'[q] = Nada => ALGORITMO_REEMPLAZO_MMU = "M-CLOCK" /\ ~pag[q].modif
  BY SwapConCampos, PaginacionAssumption DEF SeEnvia
<1>5. v # q => enSwap'[q] = enSwap[q]
  BY SwapConCampos
<1> QED BY <1>3, <1>4, <1>5

LEMMA EntraCreaSobre ==
  ASSUME TypeOK, Lugares, NEW c \in Carpinchos, NEW p \in Paginas, NEW v \in Paginas,
         CreaSobre(c, p, v)
  PROVE  Entra(p, pag[v].marco) /\ SeMuda(p, pag[v].marco)
<1>1. /\ Crece(c, p) /\ Victima(c, v) /\ Ocupa(p, pag[v].marco, PagSin(c, v))
      /\ enSwap' = SwapCon(v)
  BY DEF CreaSobre
<1>2. /\ Existe(p)' /\ ~Existe(p) /\ p[1] = c
      /\ \A q \in Paginas \ {p} : Existe(q)' <=> Existe(q)
  BY <1>1, CreceExiste
<1>3. ~EnMarco(p) /\ enSwap[p] = Nada /\ fase' = fase /\ fase[c] = "vivo"
  BY <1>1, <1>2, NuevaEnNingunLado DEF Crece
<1>4. /\ v \in Presentes /\ marcos[pag[v].marco] = v /\ fase[v[1]] = "vivo"
      /\ TIPO_ASIGNACION = "FIJA" => v[1] = c
  BY <1>1, VictimaEnSuMarco
<1>5. enSwap'[p] = Nada
  <2>1. p # v
    BY <1>2, <1>4 DEF Presentes
  <2> QED BY <1>1, <1>3, <2>1, SwapConCampos
<1>6. Entra(p, pag[v].marco)
  BY <1>1, <1>2, <1>3, <1>4, <1>5 DEF Entra, Ocupa
<1>7. SeMuda(p, pag[v].marco)
  BY <1>1, <1>2, MudaVictima
<1> QED BY <1>6, <1>7

LEMMA EntraTrae ==
  ASSUME TypeOK, Lugares, NEW p \in Paginas, NEW d, NEW v \in Paginas, Trae(p, d, v)
  PROVE  Entra(p, pag[v].marco) /\ SeMuda(p, pag[v].marco)
<1>0. p[1] \in Carpinchos
  BY DEF Paginas
<1>1. /\ Existe(p) /\ fase[p[1]] = "vivo" /\ ~EnMarco(p) /\ Victima(p[1], v)
      /\ Ocupa(p, pag[v].marco, PagSin(p[1], v)) /\ cantidad' = cantidad /\ fase' = fase
      /\ enSwap' = [SwapCon(v) EXCEPT ![p] = Nada]
  BY DEF Trae, listas
<1>2. \A q \in Paginas : Existe(q)' <=> Existe(q)
  BY <1>1 DEF Existe
<1>3. /\ v \in Presentes /\ marcos[pag[v].marco] = v /\ fase[v[1]] = "vivo"
      /\ TIPO_ASIGNACION = "FIJA" => v[1] = p[1]
  BY <1>0, <1>1, VictimaEnSuMarco
<1>4. enSwap'[p] = Nada /\ \A q \in Paginas \ {p} : enSwap'[q] = SwapCon(v)[q]
  BY <1>1, SwapConCampos
<1>5. Entra(p, pag[v].marco)
  BY <1>1, <1>2, <1>3, <1>4 DEF Entra, Ocupa
<1>6. SeMuda(p, pag[v].marco)
  BY <1>0, <1>1, <1>2, <1>4, MudaVictima
<1> QED BY <1>5, <1>6

(* Under this invariant a page in a frame of its own is in its only frame. *)
LEMMA EntraToca ==
  ASSUME TypeOK, Lugares, NEW p \in Paginas, NEW d, Toca(p, d)
  PROVE  \E f \in Marcos : Entra(p, f) /\ SeMuda(p, f) /\ marcos[f] = p
<1>1. PICK f \in Marcos :
        /\ Existe(p) /\ marcos[f] = p /\ Ocupa(p, f, pag) /\ enSwap' = enSwap
        /\ cantidad' = cantidad /\ fase' = fase
  BY DEF Toca, listas
<1>2. \A q \in Paginas : Existe(q)' <=> Existe(q)
  BY <1>1 DEF Existe
<1>3. fase[p[1]] = "vivo"
  BY <1>1, ExistenVivas DEF Lugares
<1>4. p \in Presentes /\ enSwap[p] = Nada
  BY <1>1, <1>3, Constantes DEF Lugares, MarcosEnUso, Ubicadas, Ubicada
<1>5. Entra(p, f)
  BY <1>1, <1>2, <1>3, <1>4 DEF Entra, Ocupa
<1>6. SeMuda(p, f)
  BY <1>1, <1>2 DEF SeMuda, Ocupa
<1> QED BY <1>1, <1>5, <1>6

LEMMA LugaresEntra ==
  ASSUME TypeOK, Lugares, NEW p \in Paginas, NEW f \in Marcos, Entra(p, f), SeMuda(p, f)
  PROVE  MarcosEnUso' /\ Ubicadas'
<1>0. marcos \in [Marcos -> Paginas \cup {Nada}] /\ pag \in [Paginas -> Registros]
  BY TiposPartes DEF TiposMemoria
<1>1. /\ marcos'[f] = p /\ \A g \in Marcos \ {f} : marcos'[g] = marcos[g]
  BY <1>0 DEF Entra
<1>2. ASSUME NEW g \in Marcos, marcos'[g] # Nada, fase'[marcos'[g][1]] # "terminado"
      PROVE  marcos'[g] \in Presentes' /\ pag'[marcos'[g]].marco = g
  <2>1. CASE g = f
    BY <1>1, <2>1 DEF Entra, Presentes
  <2>2. CASE g # f
    <3> DEFINE q == marcos[g]
    <3>1. q \in Paginas /\ q = marcos'[g] /\ fase[q[1]] # "terminado"
      BY <1>0, <1>1, <1>2, <2>2 DEF Entra
    <3>2. q \in Presentes /\ pag[q].marco = g
      BY <3>1, Constantes DEF Lugares, MarcosEnUso
    <3>3. q # p
      <4>1. ASSUME q = p PROVE FALSE
        <5>1. marcos[f] = p
          BY <4>1 DEF Entra, EnMarco
        <5>2. pag[p].marco = f
          BY <5>1, <3>1, <4>1, Constantes DEF Lugares, MarcosEnUso
        <5> QED BY <2>2, <3>2, <4>1, <5>2
      <4> QED BY <4>1
    <3>4. marcos[f] # q
      BY <2>2, <3>1, <3>2, Constantes DEF Lugares, MarcosEnUso
    <3> HIDE DEF q
    <3> QED BY <3>1, <3>2, <3>3, <3>4 DEF SeMuda, Presentes
  <2> QED BY <2>1, <2>2
<1>3. ASSUME NEW q \in Paginas, fase'[q[1]] # "terminado"
      PROVE  Ubicada(q)'
  <2>1. CASE q = p
    BY <1>1, <2>1 DEF Ubicada, Perdida, Entra
  <2>2. CASE q # p
    <3>1. Ubicada(q)
      BY <1>3 DEF Entra, Lugares, Ubicadas
    <3>2. CASE marcos[f] = q
      <4>1. ~pag'[q].presencia /\ Existe(q)'
        BY <2>2, <3>2, Constantes DEF SeMuda, Entra, Presentes
      <4> QED BY <2>2, <3>2, <4>1 DEF SeMuda, Ubicada, Perdida, Presentes
    <3>3. CASE marcos[f] # q
      <4>1. q \in Presentes => pag[q].marco \in Marcos \ {f}
        BY <1>0, <3>1, <3>3 DEF Ubicada, Registros
      <4>2. /\ Existe(q)' <=> Existe(q)
            /\ pag'[q].presencia <=> pag[q].presencia
            /\ pag'[q].modif <=> pag[q].modif
            /\ pag'[q].presencia => pag'[q].marco = pag[q].marco
            /\ enSwap'[q] = enSwap[q]
        BY <2>2, <3>3 DEF SeMuda
      <4>3. q \in Presentes' <=> q \in Presentes
        BY <4>2 DEF Presentes
      <4>4. q \in Presentes' => marcos'[pag'[q].marco] = q
        BY <1>1, <3>1, <4>1, <4>2, <4>3 DEF Ubicada, Presentes
      <4>5. q \in Presentes' \/ ~Existe(q)' => enSwap'[q] = Nada
        BY <3>1, <4>2, <4>3 DEF Ubicada
      <4>6. Perdida(q)' => ALGORITMO_REEMPLAZO_MMU = "M-CLOCK" /\ ~pag'[q].modif
        BY <3>1, <4>2 DEF Ubicada, Perdida
      <4> QED BY <4>4, <4>5, <4>6 DEF Ubicada
    <3> QED BY <3>2, <3>3
  <2> QED BY <2>1, <2>2
<1>4. MarcosEnUso'
  BY <1>2 DEF MarcosEnUso
<1> QED BY <1>3, <1>4 DEF Ubicadas

(* What the quota and the hand of M-CLOCK see of such a step.              *)
Ocupacion(p, f) ==
  /\ Entra(p, f) /\ SeMuda(p, f)
  /\ marcos[f] = Nada => PuedeSumarMarco(p[1])
  /\ IF marcos[f] \in {Nada, p} THEN algoritm_stack_pointer' = algoritm_stack_pointer
     ELSE /\ Victima(p[1], marcos[f])
          /\ ~PuedeSumarMarco(p[1]) \/ enSwap[p] # Nada
          /\ algoritm_stack_pointer' = PunteroTras(p[1], marcos[f])

LEMMA FormasSinCompactar ==
  ASSUME Compacta = FALSE, TypeOK, TlbAlDia, Lugares, [Next]_vars
  PROVE  \/ Quieta /\ cantidad' = cantidad /\ EmpiezaUno
         \/ \E c \in Carpinchos : Terminar(c)
         \/ \E p \in Paginas, f \in Marcos : Ocupacion(p, f)
<1>1. ASSUME NEW c \in Carpinchos, NEW p \in Paginas, CreaLibre(c, p)
      PROVE  \E f \in Marcos : Ocupacion(p, f)
  <2>1. PICK f \in Marcos : Entra(p, f) /\ SeMuda(p, f)
    BY <1>1, EntraCreaLibre
  <2>2. PICK g \in Marcos :
          /\ marcos[g] = Nada /\ PuedeSumarMarco(c) /\ Ocupa(p, g, pag) /\ Crece(c, p)
          /\ algoritm_stack_pointer' = algoritm_stack_pointer
    BY <1>1 DEF CreaLibre
  <2>3. p[1] = c /\ f = g
    BY <2>1, <2>2, CreceExiste DEF Entra, Ocupa
  <2> QED BY <2>1, <2>2, <2>3 DEF Ocupacion
<1>2. ASSUME NEW c \in Carpinchos, NEW p \in Paginas, NEW v \in Paginas, CreaSobre(c, p, v)
      PROVE  Ocupacion(p, pag[v].marco) /\ pag[v].marco \in Marcos
  <2>1. Entra(p, pag[v].marco) /\ SeMuda(p, pag[v].marco)
    BY <1>2, EntraCreaSobre
  <2>2. /\ Victima(c, v) /\ Crece(c, p) /\ ~PuedeSumarMarco(c)
        /\ algoritm_stack_pointer' = PunteroTras(c, v)
    BY <1>2 DEF CreaSobre
  <2>3. p[1] = c /\ ~Existe(p)
    BY <2>2, CreceExiste
  <2>4. v \in Presentes /\ marcos[pag[v].marco] = v /\ pag[v].marco \in Marcos
    BY <2>2, VictimaEnSuMarco
  <2>5. v \notin {Nada, p}
    BY <2>3, <2>4, Constantes DEF Presentes
  <2> QED BY <2>1, <2>2, <2>3, <2>4, <2>5 DEF Ocupacion
<1>3. ASSUME NEW p \in Paginas, NEW d, NEW v \in Paginas, Trae(p, d, v)
      PROVE  Ocupacion(p, pag[v].marco) /\ pag[v].marco \in Marcos
  <2>1. Entra(p, pag[v].marco) /\ SeMuda(p, pag[v].marco)
    BY <1>3, EntraTrae
  <2>2. /\ Victima(p[1], v) /\ algoritm_stack_pointer' = PunteroTras(p[1], v)
        /\ p[1] \in Carpinchos /\ ~EnMarco(p) /\ EnMarco(v) /\ enSwap[p] # Nada
    BY <1>3 DEF Trae, Paginas
  <2>3. marcos[pag[v].marco] = v /\ pag[v].marco \in Marcos
    BY <2>2, VictimaEnSuMarco
  <2>4. v \notin {Nada, p}
    BY <2>2, Constantes
  <2> QED BY <2>1, <2>2, <2>3, <2>4 DEF Ocupacion
<1>4. ASSUME NEW p \in Paginas, NEW d, Toca(p, d)
      PROVE  \E f \in Marcos : Ocupacion(p, f)
  <2>1. PICK f \in Marcos : Entra(p, f) /\ SeMuda(p, f) /\ marcos[f] = p
    BY <1>4, EntraToca
  <2>2. algoritm_stack_pointer' = algoritm_stack_pointer
    BY <1>4 DEF Toca
  <2> QED BY <2>1, <2>2, Constantes DEF Ocupacion
<1>5. ~(\E c \in Carpinchos : /\ Compacta /\ Quieta /\ fase' = fase /\ cantidad[c] = 1
                              /\ cantidad' = [cantidad EXCEPT ![c] = 0])
  OBVIOUS
<1>6. ASSUME NEW p \in Paginas,
             \E c \in Carpinchos : CreaLibre(c, p) \/ \E v \in Paginas : CreaSobre(c, p, v)
      PROVE  \E f \in Marcos : Ocupacion(p, f)
  BY <1>1, <1>2, <1>6
<1>7. ASSUME NEW p \in Paginas,
             \E d \in Contenidos \cup {Nada} :
                Toca(p, d) \/ \E v \in Paginas : Trae(p, d, v)
      PROVE  \E f \in Marcos : Ocupacion(p, f)
  BY <1>3, <1>4, <1>7
<1> QED
  BY <1>5, <1>6, <1>7, Formas

LEMMA LugaresPaso ==
  ASSUME Compacta = FALSE, TypeOK, TypeOK', TlbAlDia, Lugares, [Next]_vars
  PROVE  Lugares'
<1>0. /\ cantidad \in [Carpinchos -> 0..MaxPaginas]
      /\ fase \in [Carpinchos -> {"nuevo", "vivo", "terminado"}]
      /\ marcos \in [Marcos -> Paginas \cup {Nada}]
      /\ \A p \in Paginas : p[1] \in Carpinchos /\ p[2] \in Nat \ {0}
  BY TiposPartes DEF TiposListas, TiposMemoria, Paginas, Numeros
<1>1. CASE Quieta /\ cantidad' = cantidad /\ EmpiezaUno
  <2>1. \A c \in Carpinchos : /\ fase'[c] = "terminado" <=> fase[c] = "terminado"
                              /\ fase[c] = "vivo" => fase'[c] = "vivo"
    BY <1>0, <1>1 DEF EmpiezaUno
  <2>2. CantidadVivos'
    BY <1>1, <2>1 DEF Lugares, CantidadVivos
  <2>3. MarcosEnUso'
    BY <1>0, <1>1, <2>1 DEF Lugares, MarcosEnUso, Quieta, Presentes, Existe
  <2>4. Ubicadas'
    BY <1>0, <1>1, <2>1 DEF Lugares, Ubicadas, Ubicada, Perdida, Quieta, Presentes, Existe
  <2> QED BY <2>2, <2>3, <2>4 DEF Lugares
<1>2. ASSUME NEW c \in Carpinchos, Terminar(c)
      PROVE  Lugares'
  <2>0. /\ fase' = [fase EXCEPT ![c] = "terminado"] /\ cantidad' = [cantidad EXCEPT ![c] = 0]
        /\ Quieta
    BY <1>2 DEF Terminar, memoria, Quieta
  <2>1. CantidadVivos'
    BY <1>0, <2>0 DEF Lugares, CantidadVivos
  <2>2. \A p \in Paginas : fase'[p[1]] # "terminado" =>
           /\ fase[p[1]] # "terminado" /\ (Existe(p)' <=> Existe(p))
           /\ p \in Presentes' <=> p \in Presentes
    BY <1>0, <2>0 DEF Existe, Quieta, Presentes
  <2>3. MarcosEnUso'
    BY <1>0, <2>0, <2>2 DEF Lugares, MarcosEnUso, Quieta
  <2>4. Ubicadas'
    BY <1>0, <2>0, <2>2 DEF Lugares, Ubicadas, Ubicada, Perdida, Quieta
  <2> QED BY <2>1, <2>3, <2>4 DEF Lugares
<1>3. ASSUME NEW p \in Paginas, NEW f \in Marcos, Ocupacion(p, f)
      PROVE  Lugares'
  <2>1. MarcosEnUso' /\ Ubicadas'
    BY <1>3, LugaresEntra DEF Ocupacion
  <2>2. ASSUME NEW c \in Carpinchos, cantidad'[c] # 0
        PROVE  fase'[c] = "vivo"
    <3> DEFINE q == <<c, 1>>
    <3>1. cantidad' \in [Carpinchos -> 0..MaxPaginas]
      BY DEF TypeOK
    <3>2. q \in Paginas /\ q[1] = c /\ q[2] = 1
      BY PaginacionAssumption DEF Paginas, Numeros
    <3> HIDE DEF q
    <3>3. Existe(q)'
      BY <2>2, <3>1, <3>2, PaginacionAssumption DEF Existe
    <3>4. CASE q = p
      BY <1>3, <3>2, <3>4 DEF Ocupacion, Entra
    <3>5. CASE q # p
      BY <1>3, <3>2, <3>3, <3>5, ExistenVivas DEF Ocupacion, Entra, SeMuda, Lugares
    <3> QED BY <3>4, <3>5
  <2> QED BY <2>1, <2>2 DEF Lugares, CantidadVivos
<1> QED
  BY <1>1, <1>2, <1>3, FormasSinCompactar

LEMMA LugaresAlEmpezar == Init => Lugares
  BY Constantes DEF Init, Lugares, CantidadVivos, MarcosEnUso, Ubicadas, Ubicada, Perdida,
         Presentes, Existe, PaginaNueva, Paginas, Numeros

LEMMA LugaresSiempre ==
  ASSUME Compacta = FALSE
  PROVE  Spec => [](TypeOK /\ TlbAlDia /\ Lugares)
<1>1. TypeOK /\ TypeOK' /\ TlbAlDia /\ Lugares /\ [Next]_vars => Lugares'
  BY LugaresPaso
<1> QED
  BY <1>1, LugaresAlEmpezar, PaginacionTiposYTlb, PTL DEF Spec

(* While no page is taken away, a page of a living carpincho is in exactly *)
(* one place, whatever the numbers of frames, pages and carpinchos and the *)
(* policies: swampear_pagina never leaves a page both in a frame and in    *)
(* the swap, nor drops one somebody wrote.                                 *)
THEOREM PaginacionUnLugar ==
  ASSUME Compacta = FALSE
  PROVE  Spec => []PaginaEnUnLugar
<1>1. TypeOK /\ Lugares => PaginaEnUnLugar
  BY LugaresDicen
<1> QED
  BY <1>1, LugaresSiempre, PTL

-----------------------------------------------------------------------------
(* Where the pages are, those of carpinchos that ended too: no page is in  *)
(* two frames, none is in a frame and in the swap, and under global        *)
(* assignment nothing goes to the swap while there is a free frame.        *)

Separadas ==
  /\ UnMarcoPorPagina
  /\ \A q \in Paginas : EnMarco(q) => enSwap[q] = Nada
  /\ TIPO_ASIGNACION = "DINAMICA" /\ Libres # {} => \A q \in Paginas : enSwap[q] = Nada

LEMMA MarcosFinitos ==
  /\ IsFiniteSet(Marcos) /\ Cardinality(Marcos) = MARCOS
  /\ \A c : IsFiniteSet(MarcosDe(c)) /\ Cardinality(MarcosDe(c)) \in Nat
<1>1. IsFiniteSet(Marcos) /\ Cardinality(Marcos) = MARCOS
  BY FS_Interval, PaginacionAssumption DEF Marcos
<1>2. ASSUME NEW c PROVE IsFiniteSet(MarcosDe(c)) /\ Cardinality(MarcosDe(c)) \in Nat
  <2>1. MarcosDe(c) \subseteq Marcos
    BY DEF MarcosDe
  <2> QED BY <1>1, <2>1, FS_Subset, FS_CardinalityType
<1> QED BY <1>1, <1>2

(* The pages that are present have a frame each, so there are no more than *)
(* frames (create_pagina compares list_size with it).                      *)
LEMMA PresentesCaben ==
  ASSUME TypeOK, Lugares
  PROVE  Cardinality(Presentes) <= MARCOS
<1> DEFINE m == [p \in Presentes |-> pag[p].marco]
<1>1. ASSUME NEW p \in Presentes PROVE pag[p].marco \in Marcos /\ marcos[pag[p].marco] = p
  <2>1. p \in Paginas /\ Existe(p)
    BY DEF Presentes
  <2>2. Ubicada(p)
    BY <2>1, ExistenVivas DEF Lugares, Ubicadas
  <2> QED BY <2>1, <2>2, TiposPartes DEF Ubicada, TiposMemoria, Registros
<1>2. m \in Injection(Presentes, Marcos)
  BY <1>1 DEF Injection, IsInjective
<1> HIDE DEF m
<1> QED BY <1>2, MarcosFinitos, FS_Injection

LEMMA SeparadasOcupacion ==
  ASSUME TypeOK, Lugares, Separadas, NEW p \in Paginas, NEW f \in Marcos, Ocupacion(p, f)
  PROVE  Separadas'
<1>0. /\ marcos'[f] = p /\ \A g \in Marcos \ {f} : marcos'[g] = marcos[g]
      /\ p # Nada
  BY TiposPartes, Constantes DEF TiposMemoria, Ocupacion, Entra
<1>1. \A g \in Marcos : marcos[g] = p => marcos[f] = p
  BY DEF Ocupacion, Entra, EnMarco
<1>2. UnMarcoPorPagina'
  BY <1>0, <1>1 DEF Separadas, UnMarcoPorPagina
<1>3. enSwap'[p] = Nada
  BY DEF Ocupacion, Entra
<1>4. \A q \in Paginas \ {p} : marcos[f] # q => enSwap'[q] = enSwap[q]
  BY DEF Ocupacion, SeMuda
<1>5. ASSUME NEW q \in Paginas, EnMarco(q)'
      PROVE  enSwap'[q] = Nada
  <2>1. CASE q = p
    BY <1>3, <2>1
  <2>2. CASE q # p
    <3>1. PICK g \in Marcos : marcos'[g] = q
      BY <1>5 DEF EnMarco
    <3>2. g # f /\ marcos[g] = q
      BY <1>0, <2>2, <3>1
    <3>3. marcos[f] # q /\ enSwap[q] = Nada
      BY <3>2, Constantes DEF Separadas, UnMarcoPorPagina, EnMarco
    <3> QED BY <1>4, <2>2, <3>3
  <2> QED BY <2>1, <2>2
<1>6. ASSUME TIPO_ASIGNACION = "DINAMICA", Libres' # {}, NEW q \in Paginas
      PROVE  enSwap'[q] = Nada
  <2>1. PICK g \in Marcos : marcos'[g] = Nada
    BY <1>6 DEF Libres
  <2>2. g # f /\ g \in Libres
    BY <1>0, <2>1 DEF Libres
  <2>3. \A r \in Paginas : enSwap[r] = Nada
    BY <1>6, <2>2 DEF Separadas
  <2>4. marcos[f] # q \/ q = p
    <3>1. PuedeSumarMarco(p[1])
      BY <1>6, <2>2, PresentesCaben DEF PuedeSumarMarco
    <3>2. marcos[f] \in {Nada, p}
      BY <2>3, <3>1 DEF Ocupacion
    <3> QED BY <3>2, Constantes
  <2> QED BY <1>3, <1>4, <2>3, <2>4
<1> QED BY <1>2, <1>5, <1>6 DEF Separadas

LEMMA SeparadasPaso ==
  ASSUME Compacta = FALSE, TypeOK, TlbAlDia, Lugares, Separadas, [Next]_vars
  PROVE  Separadas'
<1>1. ASSUME marcos' = marcos, enSwap' = enSwap PROVE Separadas'
  BY <1>1 DEF Separadas, UnMarcoPorPagina, EnMarco, Libres
<1> QED
  BY <1>1, SeparadasOcupacion, FormasSinCompactar DEF Quieta, Terminar, memoria

LEMMA SeparadasSiempre ==
  ASSUME Compacta = FALSE
  PROVE  Spec => []Separadas
<1>1. Init => Separadas
  BY DEF Init, Separadas, UnMarcoPorPagina
<1>2. TypeOK /\ TlbAlDia /\ Lugares /\ Separadas /\ [Next]_vars => Separadas'
  BY SeparadasPaso
<1> QED
  BY <1>1, <1>2, LugaresSiempre, PTL DEF Spec

(* The inconsistency of memory.c:1086 needs a compaction: without one no   *)
(* page is ever listed by two frames, be its carpincho alive or ended.     *)
THEOREM PaginacionUnMarco ==
  ASSUME Compacta = FALSE
  PROVE  Spec => []UnMarcoPorPagina
<1>1. Separadas => UnMarcoPorPagina
  BY DEF Separadas
<1> QED
  BY <1>1, SeparadasSiempre, PTL

-----------------------------------------------------------------------------
(* The TLB, without compactions *)

LEMMA DoblesPaso ==
  ASSUME TypeOK, TlbAlDia, Lugares, SinDobles(tlb), [Next]_vars
  PROVE  SinDobles(tlb)'
<1>1. ASSUME NEW c \in Carpinchos, CrearPagina(c) PROVE SinDobles(tlb)'
  <2> DEFINE p == <<c, cantidad[c] + 1>>
  <2>1. p \in Paginas /\ p[1] = c /\ p[2] = cantidad[c] + 1
    BY <1>1, PaginaSiguiente, TiposPartes DEF CrearPagina
  <2>2. ~Existe(p) /\ fase[c] = "vivo"
    <3>1. cantidad[c] \in Nat
      BY TiposPartes DEF TiposListas
    <3> QED BY <1>1, <2>1, <3>1 DEF Existe, CrearPagina, Atiende
  <2>3. ~EnMarco(p)
    BY <2>1, <2>2, NuevaEnNingunLado
  <2> QED BY <1>1, <2>3, TlbCrear
<1>2. ASSUME NEW p \in Paginas, NEW d \in Contenidos \cup {Nada}, Acceder(p, d)
      PROVE  SinDobles(tlb)'
  BY <1>2, TlbAcceder
<1>3. ASSUME tlb' = tlb PROVE SinDobles(tlb)'
  BY <1>3 DEF SinDobles
<1> QED
  BY <1>1, <1>2, <1>3 DEF Next, vars, tablaTlb, CrearCarpincho, QuitarPagina, Terminar,
     SeRompe, Leer, Escribir

(* While no page is taken away, no page and no frame has two entries in    *)
(* the TLB and none of them is stale (actualizar_tlb, vaciar_marco_en_     *)
(* cache).                                                                 *)
THEOREM PaginacionTlbCoherente ==
  ASSUME Compacta = FALSE
  PROVE  Spec => []TlbCoherente
<1>1. Init => SinDobles(tlb)
  BY DEF Init, SinDobles
<1>2. TypeOK /\ TlbAlDia /\ Lugares /\ SinDobles(tlb) /\ [Next]_vars => SinDobles(tlb)'
  BY DoblesPaso
<1>3. TlbAlDia /\ SinDobles(tlb) => TlbCoherente
  <2> SUFFICES ASSUME TlbAlDia, SinDobles(tlb), NEW e \in Entradas, NEW g \in Entradas,
                      e # g, tlb[e].pagina # Nada
               PROVE  tlb[e].marco # tlb[g].marco
    BY DEF TlbCoherente, SinDobles
  <2>1. tlb[e].pagina # tlb[g].pagina
    BY DEF SinDobles
  <2> QED BY <2>1, Constantes DEF TlbAlDia
<1> QED
  BY <1>1, <1>2, <1>3, LugaresSiempre, PTL DEF Spec

-----------------------------------------------------------------------------
(* The frames of each carpincho *)

LEMMA CupoEntra ==
  ASSUME TypeOK, NEW p \in Paginas, NEW f \in Marcos, Ocupacion(p, f), CupoFija,
         TIPO_ASIGNACION = "FIJA", NEW c \in Carpinchos
  PROVE  Cardinality(MarcosDe(c)') <= MARCOS_POR_CARPINCHO
<1>0. /\ marcos \in [Marcos -> Paginas \cup {Nada}] /\ MARCOS_POR_CARPINCHO \in Nat
      /\ IsFiniteSet(MarcosDe(c)) /\ Cardinality(MarcosDe(c)) \in Nat
  BY TiposPartes, MarcosFinitos, PaginacionAssumption DEF TiposMemoria
<1>1. marcos'[f] = p /\ \A g \in Marcos \ {f} : marcos'[g] = marcos[g]
  BY <1>0 DEF Ocupacion, Entra
<1>2. Cardinality(MarcosDe(c)) <= MARCOS_POR_CARPINCHO
  BY DEF CupoFija
<1>3. CASE marcos[f] = Nada /\ p[1] = c
  <2>0. \A g \in Marcos : marcos'[g] # Nada /\ marcos'[g][1] = c
                            <=> g = f \/ (marcos[g] # Nada /\ marcos[g][1] = c)
    BY <1>1, <1>3, Constantes
  <2>1. MarcosDe(c)' = MarcosDe(c) \cup {f}
    BY <2>0 DEF MarcosDe
  <2>2. f \notin MarcosDe(c)
    BY <1>3 DEF MarcosDe
  <2>3. Cardinality(MarcosDe(c)) < MARCOS_POR_CARPINCHO
    BY <1>3 DEF Ocupacion, PuedeSumarMarco
  <2>4. Cardinality(MarcosDe(c) \cup {f}) = Cardinality(MarcosDe(c)) + 1
    BY <1>0, <2>2, FS_AddElement
  <2> QED BY <1>0, <2>1, <2>3, <2>4
<1>4. CASE ~(marcos[f] = Nada /\ p[1] = c)
  <2>1. marcos[f] # Nada => marcos[f][1] = p[1]
    BY DEF Ocupacion, Entra
  <2>2. \A g \in Marcos : marcos'[g] # Nada /\ marcos'[g][1] = c
                            <=> marcos[g] # Nada /\ marcos[g][1] = c
    BY <1>1, <1>4, <2>1, Constantes
  <2>3. MarcosDe(c)' = MarcosDe(c)
    BY <2>2 DEF MarcosDe
  <2> QED BY <1>2, <2>3
<1> QED BY <1>3, <1>4

LEMMA CupoPaso ==
  ASSUME Compacta = FALSE, TypeOK, TlbAlDia, Lugares, CupoFija, [Next]_vars
  PROVE  CupoFija'
<1> SUFFICES ASSUME TIPO_ASIGNACION = "FIJA", NEW c \in Carpinchos
             PROVE  Cardinality(MarcosDe(c)') <= MARCOS_POR_CARPINCHO
  BY DEF CupoFija
<1>1. ASSUME marcos' = marcos
      PROVE  Cardinality(MarcosDe(c)') <= MARCOS_POR_CARPINCHO
  <2>1. MarcosDe(c)' = MarcosDe(c)
    BY <1>1 DEF MarcosDe
  <2> QED BY <2>1 DEF CupoFija
<1> QED
  BY <1>1, CupoEntra, FormasSinCompactar DEF Quieta, Terminar, memoria

(* Under FIJA no carpincho ever has more frames than marcos_por_carpincho: *)
(* can_carpincho_add_marco_to_page guards the free ones, and a replacement *)
(* takes a frame of the carpincho itself.                                  *)
THEOREM PaginacionCupo ==
  ASSUME Compacta = FALSE
  PROVE  Spec => []CupoFija
<1>1. Init => CupoFija
  <2> SUFFICES ASSUME Init, NEW c \in Carpinchos
               PROVE  Cardinality(MarcosDe(c)) <= MARCOS_POR_CARPINCHO
    BY DEF CupoFija
  <2>1. MarcosDe(c) = {}
    BY DEF Init, MarcosDe
  <2> QED BY <2>1, FS_EmptySet, PaginacionAssumption
<1>2. TypeOK /\ TlbAlDia /\ Lugares /\ CupoFija /\ [Next]_vars => CupoFija'
  BY CupoPaso
<1> QED
  BY <1>1, <1>2, LugaresSiempre, PTL DEF Spec

-----------------------------------------------------------------------------
(* The hand of M-CLOCK *)

LEMMA MenorNatural ==
  ASSUME NEW T, T \subseteq Nat, T # {}
  PROVE  \E m \in T : \A k \in T : m <= k
<1> DEFINE R == OpToRel(<, Nat)
<1>1. IsWellFoundedOn(R, Nat)
  BY NatLessThanWellFounded
<1>2. \A m, k \in Nat : <<k, m>> \in R <=> k < m
  BY DEF OpToRel
<1> HIDE DEF R
<1>3. PICK m \in T : \A k \in T : ~(<<k, m>> \in R)
  BY <1>1, WFMin
<1>4. m \in Nat
  OBVIOUS
<1>5. ASSUME NEW k \in T PROVE m <= k
  <2>1. k \in Nat
    OBVIOUS
  <2>2. ~(<<k, m>> \in R)
    BY <1>3
  <2>3. ~(k < m)
    BY <1>2, <1>4, <2>1, <2>2
  <2> QED BY <1>4, <2>1, <2>3
<1> QED BY <1>5

(* The list to replace from is sorted by frame: its last page has all the  *)
(* others before it, since no two pages are in one frame.                  *)
LEMMA UltimaVictima ==
  ASSUME TypeOK, Lugares, NEW c \in Carpinchos, Victimas(c) # {}
  PROVE  \E w \in Victimas(c) : Posicion(c, w) = Cardinality(Victimas(c)) - 1
<1> DEFINE m(q) == pag[q].marco
           T == {n \in Nat : \A q \in Victimas(c) : m(q) <= n}
<1>0. /\ IsFiniteSet(Victimas(c))
      /\ \A q \in Victimas(c) : q \in Paginas /\ m(q) \in Marcos /\ m(q) \in Nat
  BY VictimasFinitas, TiposPartes, Constantes DEF TiposMemoria, Registros
<1>1. \A q \in Victimas(c) : q \in Presentes /\ marcos[m(q)] = q
  <2> SUFFICES ASSUME NEW q \in Victimas(c)
               PROVE  q \in Presentes /\ marcos[m(q)] = q
    OBVIOUS
  <2>1. Existe(q) /\ q \in Paginas
    BY <1>0 DEF Victimas, Presentes
  <2>2. fase[q[1]] = "vivo" /\ Ubicada(q)
    BY <2>1, ExistenVivas DEF Lugares, Ubicadas
  <2>3. q \in Presentes
    BY <2>1, <2>2, Constantes DEF Victimas, EnMarco, Lugares, MarcosEnUso
  <2> QED BY <2>2, <2>3 DEF Ubicada
<1>2. MARCOS \in T
  BY <1>0, PaginacionAssumption DEF Marcos
<1> HIDE DEF m
<1>3. PICK n \in T : \A k \in T : n <= k
  BY <1>2, MenorNatural
<1>4. PICK w \in Victimas(c) : m(w) = n
  <2>1. PICK w \in Victimas(c) : TRUE
    OBVIOUS
  <2>2. ASSUME \A q \in Victimas(c) : m(q) # n
        PROVE  FALSE
    <3>1. \A q \in Victimas(c) : m(q) <= n - 1
      BY <1>0, <2>2
    <3>2. n - 1 \in Nat
      BY <1>0, <2>1, <3>1
    <3>3. n - 1 \in T
      BY <3>1, <3>2
    <3> QED BY <1>3, <3>2, <3>3
  <2> QED BY <2>2
<1>5. \A q \in Victimas(c) : m(q) < m(w) <=> q # w
  BY <1>0, <1>1, <1>4
<1>6. {q \in Victimas(c) : pag[q].marco < pag[w].marco} = Victimas(c) \ {w}
  BY <1>5 DEF m
<1>7. Cardinality(Victimas(c) \ {w}) = Cardinality(Victimas(c)) - 1
  BY <1>0, <1>4, FS_RemoveElement
<1> QED BY <1>4, <1>6, <1>7 DEF Posicion

(* The hand of a carpincho that has not ended is within its list, or at    *)
(* its start while the list is empty.                                      *)
PunteroAdentro ==
  TIPO_ASIGNACION = "FIJA" =>
    \A c \in Carpinchos : fase[c] # "terminado" =>
      \/ algoritm_stack_pointer[c] < Cardinality(Victimas(c))
      \/ algoritm_stack_pointer[c] = 0 /\ Victimas(c) = {}

LEMMA NoHayPunteroAfuera ==
  ASSUME TypeOK, Lugares, PunteroAdentro, TIPO_ASIGNACION = "FIJA", NEW c \in Carpinchos,
         fase[c] = "vivo"
  PROVE  ~PunteroAfuera(c)
<1> SUFFICES ASSUME Victimas(c) # {}, AlAlcance(c) = {}
             PROVE  FALSE
  BY DEF PunteroAfuera
<1>1. PICK w \in Victimas(c) : Posicion(c, w) = Cardinality(Victimas(c)) - 1
  BY UltimaVictima
<1>2. /\ Cardinality(Victimas(c)) \in Nat /\ algoritm_stack_pointer[c] \in Nat
  BY VictimasFinitas, FS_CardinalityType, TiposPartes DEF TiposMemoria
<1>3. algoritm_stack_pointer[c] < Cardinality(Victimas(c))
  BY DEF PunteroAdentro
<1>4. Posicion(c, w) >= algoritm_stack_pointer[c]
  BY <1>1, <1>2, <1>3
<1> QED BY <1>4 DEF AlAlcance, ClaveReloj

LEMMA VictimasEntra ==
  ASSUME TypeOK, Lugares, NEW p \in Paginas, NEW f \in Marcos, Ocupacion(p, f),
         TIPO_ASIGNACION = "FIJA", NEW c \in Carpinchos
  PROVE  Victimas(c)' = IF p[1] = c THEN (Victimas(c) \ {marcos[f]}) \cup {p}
                                    ELSE Victimas(c)
<1>0. marcos \in [Marcos -> Paginas \cup {Nada}]
  BY TiposPartes DEF TiposMemoria
<1>1. marcos'[f] = p /\ \A g \in Marcos \ {f} : marcos'[g] = marcos[g]
  BY <1>0 DEF Ocupacion, Entra
<1>2. Existe(p)' /\ EnMarco(p)'
  BY <1>1 DEF Ocupacion, Entra, EnMarco
<1>3. ASSUME NEW q \in Paginas \ {p}
      PROVE  /\ Existe(q)' <=> Existe(q)
             /\ Existe(q) => (EnMarco(q)' <=> EnMarco(q) /\ marcos[f] # q)
  <2>1. Existe(q)' <=> Existe(q)
    BY <1>3 DEF Ocupacion, SeMuda
  <2>2. ASSUME Existe(q), NEW g \in Marcos, NEW h \in Marcos, marcos[g] = q, marcos[h] = q
        PROVE  g = h
    <3>1. fase[q[1]] = "vivo"
      BY <2>2, ExistenVivas DEF Lugares
    <3> QED BY <2>2, <3>1, Constantes DEF Lugares, MarcosEnUso
  <2>3. Existe(q) => (EnMarco(q)' <=> EnMarco(q) /\ marcos[f] # q)
    BY <1>1, <1>3, <2>2 DEF EnMarco
  <2> QED BY <2>1, <2>3
<1>4. marcos[f] # Nada => marcos[f][1] = p[1]
  BY DEF Ocupacion, Entra
<1>5. \A q \in Paginas :
        q \in Victimas(c)' <=> IF p[1] = c THEN (q \in Victimas(c) /\ q # marcos[f]) \/ q = p
                                          ELSE q \in Victimas(c)
  <2> SUFFICES ASSUME NEW q \in Paginas
               PROVE  q \in Victimas(c)' <=>
                        IF p[1] = c THEN (q \in Victimas(c) /\ q # marcos[f]) \/ q = p
                                    ELSE q \in Victimas(c)
    OBVIOUS
  <2>1. CASE q = p
    BY <1>2, <2>1 DEF Victimas
  <2>2. CASE q # p
    BY <1>3, <1>4, <2>2, Constantes DEF Victimas
  <2> QED BY <2>1, <2>2
<1>6. Victimas(c)' \subseteq Paginas /\ Victimas(c) \subseteq Paginas
  BY DEF Victimas
<1> QED BY <1>5, <1>6

LEMMA PunteroEntra ==
  ASSUME TypeOK, Lugares, PunteroAdentro, NEW p \in Paginas, NEW f \in Marcos,
         Ocupacion(p, f), TIPO_ASIGNACION = "FIJA", NEW c \in Carpinchos,
         fase[c] # "terminado"
  PROVE  \/ algoritm_stack_pointer'[c] < Cardinality(Victimas(c)')
         \/ algoritm_stack_pointer'[c] = 0 /\ Victimas(c)' = {}
<1> DEFINE V == Victimas(c)
           n == Cardinality(V)
           k == algoritm_stack_pointer[c]
<1>0. /\ IsFiniteSet(V) /\ n \in Nat /\ k \in Nat /\ p[1] \in Carpinchos
      /\ algoritm_stack_pointer \in [Carpinchos \cup {Nada} -> Nat]
  BY VictimasFinitas, FS_CardinalityType, TiposPartes DEF TiposMemoria, Paginas
<1>1. k < n \/ (k = 0 /\ V = {})
  BY DEF PunteroAdentro
<1>2. Victimas(c)' = IF p[1] = c THEN (V \ {marcos[f]}) \cup {p} ELSE V
  BY VictimasEntra
<1>3. CASE p[1] # c
  <2>1. Victimas(c)' = V
    BY <1>2, <1>3
  <2>2. algoritm_stack_pointer'[c] = k
    BY <1>0, <1>3 DEF Ocupacion, PunteroTras, ClaveReloj
  <2> QED BY <1>1, <2>1, <2>2
<1>4. CASE p[1] = c /\ marcos[f] \in {Nada, p}
  <2>1. algoritm_stack_pointer'[c] = k
    BY <1>4 DEF Ocupacion
  <2>2. Nada \notin V
    BY Constantes DEF Victimas
  <2>3. Victimas(c)' = V \cup {p}
    BY <1>2, <1>4, <2>2
  <2>4. Cardinality(V \cup {p}) = IF p \in V THEN n ELSE n + 1
    BY <1>0, FS_AddElement
  <2>5. V = {} => p \notin V /\ n = 0
    BY FS_EmptySet
  <2> HIDE DEF V, n, k
  <2>6. k < Cardinality(Victimas(c)')
    BY <1>0, <1>1, <2>3, <2>4, <2>5
  <2> QED BY <2>1, <2>6
<1>5. CASE p[1] = c /\ marcos[f] \notin {Nada, p}
  <2> DEFINE v == marcos[f]
  <2>1. Victima(c, v) /\ algoritm_stack_pointer' = PunteroTras(c, v)
    BY <1>5 DEF Ocupacion
  <2>2. v \in V /\ v \in Paginas
    BY <2>1, VictimaEsVictima
  <2>3. p \notin V
    <3>1. EnMarco(p) => v = p
      BY <1>5 DEF Ocupacion, Entra
    <3> QED BY <1>5, <3>1 DEF Victimas
  <2>4. /\ Cardinality(V \ {v}) = n - 1 /\ IsFiniteSet(V \ {v})
        /\ Cardinality((V \ {v}) \cup {p}) = n /\ n # 0
    <3>1. Cardinality(V \ {v}) = n - 1 /\ IsFiniteSet(V \ {v})
      BY <1>0, <2>2, FS_RemoveElement
    <3>2. Cardinality((V \ {v}) \cup {p}) = Cardinality(V \ {v}) + 1
      BY <2>3, <3>1, FS_AddElement
    <3>3. n # 0
      BY <1>0, <2>2, FS_EmptySet
    <3> HIDE DEF n
    <3> QED BY <1>0, <3>1, <3>2, <3>3
  <2>5. Cardinality(Victimas(c)') = n
    BY <1>2, <1>5, <2>4
  <2>6. Posicion(c, v) \in Nat
    BY <2>2, VictimasFinitas
  <2>7. CASE ALGORITMO_REEMPLAZO_MMU = "LRU"
    <3>1. algoritm_stack_pointer'[c] = k
      BY <2>1, <2>7 DEF PunteroTras
    <3>2. k < n
      BY <1>1, <2>2
    <3> QED BY <2>5, <3>1, <3>2
  <2>8. CASE ALGORITMO_REEMPLAZO_MMU # "LRU"
    <3>1. algoritm_stack_pointer'[c] = (Posicion(c, v) + 1) % n
      BY <1>0, <2>1, <2>8 DEF PunteroTras, ClaveReloj
    <3> HIDE DEF n
    <3>2. (Posicion(c, v) + 1) % n < n
      BY <1>0, <2>4, <2>6
    <3> QED BY <2>5, <3>1, <3>2
  <2> QED BY <2>7, <2>8
<1> QED BY <1>3, <1>4, <1>5

LEMMA PunteroPaso ==
  ASSUME Compacta = FALSE, TypeOK, TlbAlDia, Lugares, PunteroAdentro, [Next]_vars
  PROVE  PunteroAdentro'
<1> SUFFICES ASSUME TIPO_ASIGNACION = "FIJA", NEW c \in Carpinchos, fase'[c] # "terminado"
             PROVE  \/ algoritm_stack_pointer'[c] < Cardinality(Victimas(c)')
                    \/ algoritm_stack_pointer'[c] = 0 /\ Victimas(c)' = {}
  BY DEF PunteroAdentro
<1>0. fase \in [Carpinchos -> {"nuevo", "vivo", "terminado"}]
  BY TiposPartes DEF TiposListas
<1>1. CASE Quieta /\ cantidad' = cantidad /\ EmpiezaUno
  <2>1. fase[c] # "terminado"
    BY <1>0, <1>1 DEF EmpiezaUno
  <2>2. Victimas(c)' = Victimas(c)
    BY <1>1 DEF Victimas, Quieta, Existe, EnMarco
  <2> QED BY <1>1, <2>1, <2>2 DEF PunteroAdentro, Quieta
<1>2. ASSUME NEW d \in Carpinchos, Terminar(d)
      PROVE  \/ algoritm_stack_pointer'[c] < Cardinality(Victimas(c)')
             \/ algoritm_stack_pointer'[c] = 0 /\ Victimas(c)' = {}
  <2>1. fase[c] # "terminado" /\ c # d
    BY <1>0, <1>2 DEF Terminar
  <2>2. cantidad \in [Carpinchos -> 0..MaxPaginas]
    BY TiposPartes DEF TiposListas
  <2>3. Victimas(c)' = Victimas(c)
    BY <1>2, <2>1, <2>2 DEF Victimas, Terminar, memoria, Existe, EnMarco, Paginas
  <2> QED BY <1>2, <2>1, <2>3 DEF PunteroAdentro, Terminar, memoria
<1>3. ASSUME NEW p \in Paginas, NEW f \in Marcos, Ocupacion(p, f)
      PROVE  \/ algoritm_stack_pointer'[c] < Cardinality(Victimas(c)')
             \/ algoritm_stack_pointer'[c] = 0 /\ Victimas(c)' = {}
  <2>1. fase[c] # "terminado"
    BY <1>3 DEF Ocupacion, Entra
  <2> QED BY <1>3, <2>1, PunteroEntra
<1> QED BY <1>1, <1>2, <1>3, FormasSinCompactar

SiempreHayVictima == TIPO_ASIGNACION = "FIJA" => estado # "puntero"

LEMMA PunteroRoto ==
  ASSUME TypeOK, Lugares, PunteroAdentro, TIPO_ASIGNACION = "FIJA", estado # "puntero",
         [Next]_vars
  PROVE  estado' # "puntero"
<1>1. ASSUME NEW c \in Carpinchos, CrearPagina(c)
      PROVE  estado' # "puntero"
  <2>1. ~PunteroAfuera(c)
    BY <1>1, NoHayPunteroAfuera DEF CrearPagina, Atiende
  <2> QED
    BY <1>1, <2>1 DEF CrearPagina, CrearEnLibre, CrearReemplazando, SinVictima, SeRompe,
       AgregarPagina, Reemplazar
<1>2. ASSUME NEW p \in Paginas, NEW d, Acceder(p, d)
      PROVE  estado' # "puntero"
  <2>1. p[1] \in Carpinchos
    BY DEF Paginas
  <2>2. ~PunteroAfuera(p[1])
    BY <1>2, <2>1, NoHayPunteroAfuera DEF Acceder, Atiende
  <2> QED
    BY <1>2, <2>2 DEF Acceder, AccederEnTlb, AccederEnMarco, AccederEnSwap, SinVictima,
       SeRompe, Usar, TraerDeSwap, Cargar
<1> QED
  BY <1>1, <1>2 DEF Next, vars, CrearCarpincho, QuitarPagina, Terminar, SeRompe, Leer, Escribir

(* Under FIJA get_proxima_a_swampear_by_m_clock always finds a page: its   *)
(* hand never passes the end of the list of the carpincho's pages.  The    *)
(* list of a living carpincho never shrinks, and it is sorted by frame.    *)
THEOREM PaginacionPuntero ==
  ASSUME Compacta = FALSE
  PROVE  Spec => []PunteroEnLista
<1>1. Init => PunteroAdentro /\ SiempreHayVictima
  <2>1. ASSUME Init, NEW c \in Carpinchos PROVE Victimas(c) = {} \/ TIPO_ASIGNACION # "FIJA"
    BY <2>1, Constantes DEF Init, Victimas, EnMarco
  <2> QED BY <2>1 DEF Init, PunteroAdentro, SiempreHayVictima
<1>2. TypeOK /\ TlbAlDia /\ Lugares /\ PunteroAdentro /\ [Next]_vars => PunteroAdentro'
  BY PunteroPaso
<1>3. TypeOK /\ Lugares /\ PunteroAdentro /\ SiempreHayVictima
        /\ [Next]_vars => SiempreHayVictima'
  BY PunteroRoto DEF SiempreHayVictima
<1>4. PunteroAdentro /\ SiempreHayVictima => PunteroEnLista
  BY DEF PunteroAdentro, PunteroEnLista, SiempreHayVictima
<1> QED
  BY <1>1, <1>2, <1>3, <1>4, LugaresSiempre, PTL DEF Spec

-----------------------------------------------------------------------------
(* What the pages hold.  A frame nobody has is blank; a page that was not  *)
(* modified, which M-CLOCK does not send away, is blank and nowhere else;  *)
(* and the swap damages no content of Enteros.                             *)

SinRotos == /\ \A f \in Marcos : cache[f] # Roto
            /\ \A p \in Paginas : enSwap[p] # Roto
LibresVacios == \A f \in Marcos : marcos[f] = Nada => cache[f] = Vacio
Intactas ==
  ALGORITMO_REEMPLAZO_MMU = "M-CLOCK" =>
    \A p \in Paginas : Existe(p) /\ ~pag[p].modif =>
      /\ enSwap[p] = Nada
      /\ pag[p].presencia => cache[pag[p].marco] = Vacio

Sanos == SinRotos /\ LibresVacios /\ Intactas

(* p is in frame f, that holds x, and the page that leaves is as it was.   *)
Contiene(p, f, x) ==
  /\ Entra(p, f) /\ SeMuda(p, f)
  /\ cache' = [cache EXCEPT ![f] = x] /\ x # Roto
  /\ ALGORITMO_REEMPLAZO_MMU = "M-CLOCK" /\ ~pag'[p].modif => x = Vacio
  /\ \A q \in Paginas \ {p} :
       marcos[f] = q => enSwap'[q] = IF SeEnvia(q) THEN cache[f] ELSE Nada

LEMMA SwapFiel ==
  ASSUME Enteros = Contenidos \cup {Vacio}, TypeOK, Lugares, Sanos, NEW c \in Carpinchos,
         NEW v \in Paginas, Victima(c, v)
  PROVE  SwapCon(v)[v] = IF SeEnvia(v) THEN cache[pag[v].marco] ELSE Nada
<1>1. pag[v].marco \in Marcos /\ enSwap[v] = Nada
  BY VictimaEnSuMarco
<1>2. cache[pag[v].marco] \in Enteros
  BY <1>1, TiposPartes DEF TiposMemoria, Bytes, Sanos, SinRotos
<1>3. VueltaDe(cache[pag[v].marco]) = cache[pag[v].marco]
  BY <1>2 DEF VueltaDe
<1>4. enSwap \in [Paginas -> Bytes \cup {Nada}]
  BY TiposPartes DEF TiposMemoria
<1> QED BY <1>1, <1>3, <1>4 DEF SwapCon

LEMMA ContieneCrear ==
  ASSUME Enteros = Contenidos \cup {Vacio}, TypeOK, Lugares, Sanos, NEW c \in Carpinchos,
         NEW p \in Paginas, CreaLibre(c, p) \/ \E v \in Paginas : CreaSobre(c, p, v)
  PROVE  \E f \in Marcos : Crece(c, p) /\ Contiene(p, f, Vacio)
<1>0. cache \in [Marcos -> Bytes] /\ Vacio # Roto
  BY TiposPartes, PaginacionAssumption DEF TiposMemoria
<1>1. CASE CreaLibre(c, p)
  <2>1. PICK f \in Marcos : Entra(p, f) /\ SeMuda(p, f)
    BY <1>1, EntraCreaLibre
  <2>2. PICK g \in Marcos : marcos[g] = Nada /\ Ocupa(p, g, pag) /\ cache' = cache /\ Crece(c, p)
    BY <1>1 DEF CreaLibre
  <2>3. f = g
    BY <2>1, <2>2 DEF Entra, Ocupa
  <2>4. cache' = [cache EXCEPT ![f] = Vacio]
    BY <1>0, <2>2, <2>3 DEF Sanos, LibresVacios
  <2>5. \A q \in Paginas : marcos[f] # q
    BY <2>2, <2>3, Constantes
  <2> QED BY <1>0, <2>1, <2>2, <2>4, <2>5 DEF Contiene
<1>2. ASSUME NEW v \in Paginas, CreaSobre(c, p, v)
      PROVE  pag[v].marco \in Marcos /\ Crece(c, p) /\ Contiene(p, pag[v].marco, Vacio)
  <2>1. Entra(p, pag[v].marco) /\ SeMuda(p, pag[v].marco)
    BY <1>2, EntraCreaSobre
  <2>2. /\ Crece(c, p) /\ Victima(c, v) /\ cache' = [cache EXCEPT ![pag[v].marco] = Vacio]
        /\ enSwap' = SwapCon(v)
    BY <1>2 DEF CreaSobre
  <2>3. marcos[pag[v].marco] = v /\ pag[v].marco \in Marcos
    BY <2>2, VictimaEnSuMarco
  <2>4. enSwap'[v] = IF SeEnvia(v) THEN cache[pag[v].marco] ELSE Nada
    BY <2>2, SwapFiel
  <2> QED BY <1>0, <2>1, <2>2, <2>3, <2>4 DEF Contiene
<1> QED BY <1>1, <1>2

LEMMA ContieneToca ==
  ASSUME TypeOK, Lugares, Sanos, NEW p \in Paginas, NEW d \in Contenidos \cup {Nada},
         Toca(p, d)
  PROVE  \E f \in Marcos : /\ Existe(p) /\ cantidad' = cantidad
                           /\ Contiene(p, f, IF d = Nada THEN Guarda(p) ELSE d)
<1>1. PICK f \in Marcos : Entra(p, f) /\ SeMuda(p, f) /\ marcos[f] = p
  BY EntraToca
<1>2. PICK g \in Marcos :
        /\ Existe(p) /\ cantidad' = cantidad /\ marcos[g] = p /\ Ocupa(p, g, pag)
        /\ SeModifica(p, d) /\ \E x \in Queda(cache[g], d) : cache' = [cache EXCEPT ![g] = x]
  BY DEF Toca, listas
<1>3. f = g
  BY <1>1, <1>2 DEF Entra, Ocupa
<1>4. p \in Presentes /\ pag[p].marco = f
  <2>1. fase[p[1]] = "vivo"
    BY <1>2, ExistenVivas DEF Lugares
  <2> QED BY <1>1, <2>1, Constantes DEF Lugares, MarcosEnUso
<1>5. Guarda(p) = cache[f]
  BY <1>2, <1>4 DEF Guarda, Presentes
<1>6. cache[f] # Roto /\ Roto # d
  BY PaginacionAssumption DEF Sanos, SinRotos
<1>7. cache' = [cache EXCEPT ![f] = IF d = Nada THEN Guarda(p) ELSE d]
  BY <1>2, <1>3, <1>5, <1>6 DEF Queda
<1>8. ALGORITMO_REEMPLAZO_MMU = "M-CLOCK" /\ ~pag'[p].modif =>
        d = Nada /\ cache[f] = Vacio
  BY <1>2, <1>4 DEF SeModifica, Sanos, Intactas, Presentes
<1>9. \A q \in Paginas \ {p} : marcos[f] # q
  BY <1>1
<1>10. Contiene(p, f, IF d = Nada THEN Guarda(p) ELSE d)
  BY <1>1, <1>5, <1>6, <1>7, <1>8, <1>9 DEF Contiene
<1> QED BY <1>2, <1>10

LEMMA ContieneTrae ==
  ASSUME Enteros = Contenidos \cup {Vacio}, TypeOK, Lugares, Sanos, NEW p \in Paginas,
         NEW d \in Contenidos \cup {Nada}, NEW v \in Paginas, Trae(p, d, v)
  PROVE  \E f \in Marcos : /\ Existe(p) /\ cantidad' = cantidad
                           /\ Contiene(p, f, IF d = Nada THEN Guarda(p) ELSE d)
<1> DEFINE f == pag[v].marco
<1>1. Entra(p, f) /\ SeMuda(p, f)
  BY EntraTrae
<1>2. /\ Existe(p) /\ cantidad' = cantidad /\ fase[p[1]] = "vivo" /\ ~EnMarco(p)
      /\ Victima(p[1], v) /\ p[1] \in Carpinchos /\ EnMarco(v) /\ enSwap[p] # Nada
      /\ SeModifica(p, d) /\ enSwap' = [SwapCon(v) EXCEPT ![p] = Nada]
      /\ \E x \in Queda(enSwap[p], d) : cache' = [cache EXCEPT ![f] = x]
  BY DEF Trae, listas, Paginas
<1>3. f \in Marcos /\ marcos[f] = v /\ v # p
  BY <1>2, VictimaEnSuMarco
<1>4. ~pag[p].presencia
  BY <1>2 DEF Lugares, Ubicadas, Ubicada, Presentes
<1>5. Guarda(p) = enSwap[p]
  BY <1>2, <1>4 DEF Guarda
<1>6. enSwap[p] # Roto /\ Roto # d
  BY PaginacionAssumption DEF Sanos, SinRotos
<1>7. cache' = [cache EXCEPT ![f] = IF d = Nada THEN Guarda(p) ELSE d]
  BY <1>2, <1>5, <1>6 DEF Queda
<1>8. ~(ALGORITMO_REEMPLAZO_MMU = "M-CLOCK" /\ ~pag'[p].modif)
  BY <1>2 DEF SeModifica, Sanos, Intactas
<1>9. enSwap'[v] = IF SeEnvia(v) THEN cache[f] ELSE Nada
  <2>1. enSwap'[v] = SwapCon(v)[v]
    BY <1>2, <1>3, SwapConCampos
  <2> QED BY <1>2, <2>1, SwapFiel
<1> HIDE DEF f
<1>10. Contiene(p, f, IF d = Nada THEN Guarda(p) ELSE d)
  BY <1>1, <1>3, <1>5, <1>6, <1>7, <1>8, <1>9 DEF Contiene
<1> QED BY <1>2, <1>3, <1>10

LEMMA SanosContiene ==
  ASSUME TypeOK, Lugares, Sanos, NEW p \in Paginas, NEW f \in Marcos, NEW x,
         Contiene(p, f, x)
  PROVE  Sanos'
<1>0. /\ marcos \in [Marcos -> Paginas \cup {Nada}] /\ cache \in [Marcos -> Bytes]
      /\ pag \in [Paginas -> Registros]
  BY TiposPartes DEF TiposMemoria
<1>1. /\ marcos'[f] = p /\ \A g \in Marcos \ {f} : marcos'[g] = marcos[g]
      /\ cache'[f] = x /\ \A g \in Marcos \ {f} : cache'[g] = cache[g]
  BY <1>0 DEF Contiene, Entra
<1>2. \A q \in Paginas : Nada # Roto
  BY PaginacionAssumption
<1>3. SinRotos'
  <2>1. \A g \in Marcos : cache'[g] # Roto
    BY <1>1 DEF Contiene, Sanos, SinRotos
  <2>2. ASSUME NEW q \in Paginas PROVE enSwap'[q] # Roto
    BY <1>2 DEF Contiene, Entra, SeMuda, Sanos, SinRotos
  <2> QED BY <2>1, <2>2 DEF SinRotos
<1>4. LibresVacios'
  BY <1>1, Constantes DEF LibresVacios, Sanos
<1>5. ASSUME ALGORITMO_REEMPLAZO_MMU = "M-CLOCK", NEW q \in Paginas, Existe(q)', ~pag'[q].modif
      PROVE  /\ enSwap'[q] = Nada
             /\ pag'[q].presencia => cache'[pag'[q].marco] = Vacio
  <2>1. CASE q = p
    BY <1>1, <1>5, <2>1 DEF Contiene, Entra
  <2>2. CASE q # p /\ marcos[f] = q
    BY <1>5, <2>2, PaginacionAssumption DEF Contiene, SeMuda, SeEnvia
  <2>3. CASE q # p /\ marcos[f] # q
    <3>1. /\ Existe(q) /\ ~pag[q].modif /\ enSwap'[q] = enSwap[q]
          /\ pag'[q].presencia <=> pag[q].presencia
          /\ pag'[q].presencia => pag'[q].marco = pag[q].marco
      BY <1>5, <2>3 DEF Contiene, SeMuda
    <3>2. pag[q].presencia => pag[q].marco \in Marcos \ {f}
      <4>1. fase[q[1]] = "vivo"
        BY <3>1, ExistenVivas DEF Lugares
      <4> QED BY <1>0, <2>3, <3>1, <4>1
              DEF Lugares, Ubicadas, Ubicada, Presentes, Registros
    <3> QED BY <1>1, <1>5, <3>1, <3>2 DEF Sanos, Intactas
  <2> QED BY <2>1, <2>2, <2>3
<1>6. Intactas'
  BY <1>5 DEF Intactas
<1> QED BY <1>3, <1>4, <1>6 DEF Sanos

LEMMA GuardaContiene ==
  ASSUME TypeOK, Lugares, Sanos, NEW p \in Paginas, NEW f \in Marcos, NEW x,
         Contiene(p, f, x)
  PROVE  /\ Guarda(p)' = x
         /\ \A q \in Paginas \ {p} : Guarda(q)' = Guarda(q)
<1>0. /\ marcos \in [Marcos -> Paginas \cup {Nada}] /\ cache \in [Marcos -> Bytes]
      /\ pag \in [Paginas -> Registros]
  BY TiposPartes DEF TiposMemoria
<1>1. cache'[f] = x /\ \A g \in Marcos \ {f} : cache'[g] = cache[g]
  BY <1>0 DEF Contiene
<1>2. Guarda(p)' = x
  BY <1>1 DEF Guarda, Contiene, Entra
<1>3. ASSUME NEW q \in Paginas \ {p} PROVE Guarda(q)' = Guarda(q)
  <2>1. Existe(q)' <=> Existe(q)
    BY DEF Contiene, SeMuda
  <2>2. CASE ~Existe(q)
    BY <2>1, <2>2 DEF Guarda
  <2>3. CASE Existe(q) /\ marcos[f] = q
    <3>1. fase[q[1]] = "vivo"
      BY <2>3, ExistenVivas DEF Lugares
    <3>2. pag[q].presencia /\ pag[q].marco = f
      BY <2>3, <3>1, Constantes DEF Lugares, MarcosEnUso, Presentes
    <3>3. ~pag'[q].presencia /\ enSwap'[q] = IF SeEnvia(q) THEN cache[f] ELSE Nada
      BY <2>3 DEF Contiene, SeMuda
    <3>4. Guarda(q) = cache[f]
      BY <2>3, <3>2 DEF Guarda
    <3>5. cache[f] # Nada
      BY <1>0, Constantes
    <3>6. ~SeEnvia(q) => cache[f] = Vacio
      BY <2>3, <3>2, PaginacionAssumption DEF SeEnvia, Sanos, Intactas
    <3> QED BY <2>1, <2>3, <3>3, <3>4, <3>5, <3>6 DEF Guarda
  <2>4. CASE Existe(q) /\ marcos[f] # q
    <3>1. /\ enSwap'[q] = enSwap[q]
          /\ pag'[q].presencia <=> pag[q].presencia
          /\ pag'[q].presencia => pag'[q].marco = pag[q].marco
      BY <2>4 DEF Contiene, SeMuda
    <3>2. pag[q].presencia => pag[q].marco \in Marcos \ {f}
      <4>1. fase[q[1]] = "vivo"
        BY <2>4, ExistenVivas DEF Lugares
      <4> QED BY <1>0, <2>4, <4>1 DEF Lugares, Ubicadas, Ubicada, Presentes, Registros
    <3>3. CASE pag[q].presencia
      BY <1>1, <2>1, <2>4, <3>1, <3>2, <3>3 DEF Guarda
    <3>4. CASE ~pag[q].presencia
      BY <2>1, <2>4, <3>1, <3>4 DEF Guarda
    <3> QED BY <3>3, <3>4
  <2> QED BY <2>2, <2>3, <2>4
<1> QED BY <1>2, <1>3

-----------------------------------------------------------------------------
(* The memory is a flat one *)

LEMMA FormasDeContenido ==
  ASSUME Compacta = FALSE, Enteros = Contenidos \cup {Vacio}, TypeOK, TlbAlDia, Lugares,
         Sanos, [Next]_vars
  PROVE  \/ Quieta /\ cantidad' = cantidad /\ EmpiezaUno
         \/ \E c \in Carpinchos : Terminar(c)
         \/ \E c \in Carpinchos, p \in Paginas, f \in Marcos :
              Crece(c, p) /\ Contiene(p, f, Vacio)
         \/ \E p \in Paginas, d \in Contenidos \cup {Nada}, f \in Marcos :
              /\ Existe(p) /\ cantidad' = cantidad
              /\ Contiene(p, f, IF d = Nada THEN Guarda(p) ELSE d)
<1>1. ASSUME NEW p \in Paginas, NEW d \in Contenidos \cup {Nada},
             Toca(p, d) \/ \E v \in Paginas : Trae(p, d, v)
      PROVE  \E f \in Marcos : /\ Existe(p) /\ cantidad' = cantidad
                               /\ Contiene(p, f, IF d = Nada THEN Guarda(p) ELSE d)
  BY <1>1, ContieneToca, ContieneTrae
<1>2. ASSUME NEW c \in Carpinchos, NEW p \in Paginas,
             CreaLibre(c, p) \/ \E v \in Paginas : CreaSobre(c, p, v)
      PROVE  \E f \in Marcos : Crece(c, p) /\ Contiene(p, f, Vacio)
  BY <1>2, ContieneCrear
<1> QED BY <1>1, <1>2, Formas

LEMMA SanosPaso ==
  ASSUME Compacta = FALSE, Enteros = Contenidos \cup {Vacio}, TypeOK, TlbAlDia, Lugares,
         Sanos, [Next]_vars
  PROVE  Sanos'
<1>0. cantidad \in [Carpinchos -> 0..MaxPaginas] /\ \A p \in Paginas : p[2] \in Nat \ {0}
  BY TiposPartes DEF TiposListas, Paginas, Numeros
<1>1. ASSUME Quieta, \A p \in Paginas : Existe(p)' => Existe(p)
      PROVE  Sanos'
  BY <1>1 DEF Sanos, SinRotos, LibresVacios, Intactas, Quieta
<1>2. ASSUME NEW c \in Carpinchos, Terminar(c)
      PROVE  Sanos'
  <2>1. Quieta /\ cantidad' = [cantidad EXCEPT ![c] = 0]
    BY <1>2 DEF Terminar, memoria, Quieta
  <2>2. \A p \in Paginas : Existe(p)' => Existe(p)
    BY <1>0, <2>1 DEF Existe, Paginas
  <2> QED BY <1>1, <2>1, <2>2
<1>3. ASSUME Quieta, cantidad' = cantidad
      PROVE  Sanos'
  BY <1>1, <1>3 DEF Existe
<1> QED BY <1>2, <1>3, SanosContiene, FormasDeContenido

LEMMA SanosAlEmpezar == Init => Sanos
  BY PaginacionAssumption, Constantes
     DEF Init, Sanos, SinRotos, LibresVacios, Intactas, Paginas, Numeros, Existe

Mem == [c \in Carpinchos |-> [n \in Numeros |-> Guarda(<<c, n>>)]]

LEMMA PlanaInicial == Init => P!Init
<1> SUFFICES ASSUME Init PROVE P!Init
  OBVIOUS
<1>1. \A c \in Carpinchos, n \in Numeros : Guarda(<<c, n>>) = Vacio
  BY DEF Init, Guarda, Existe, Numeros
<1> QED BY <1>1 DEF Init, P!Init, P!Numeros, Numeros

LEMMA PlanaPaso ==
  ASSUME Compacta = FALSE, Enteros = Contenidos \cup {Vacio}, TypeOK, TlbAlDia, Lugares,
         Sanos, [Next]_vars
  PROVE  [P!Next]_(P!planaVars)
<1>0. /\ cantidad \in [Carpinchos -> 0..MaxPaginas]
      /\ \A c \in Carpinchos, n \in Numeros :
           <<c, n>> \in Paginas /\ <<c, n>>[1] = c /\ <<c, n>>[2] = n
      /\ P!Numeros = Numeros
  BY TiposPartes DEF TiposListas, Paginas, P!Numeros, Numeros
<1>1. ASSUME Quieta, cantidad' = cantidad
      PROVE  UNCHANGED P!planaVars
  <2>1. \A c \in Carpinchos, n \in Numeros : Guarda(<<c, n>>)' = Guarda(<<c, n>>)
    BY <1>0, <1>1 DEF Guarda, Existe, Quieta
  <2> QED BY <1>1, <2>1 DEF P!planaVars
<1>2. ASSUME NEW c \in Carpinchos, Terminar(c)
      PROVE  P!Terminar(c)
  <2>0. Quieta /\ cantidad' = [cantidad EXCEPT ![c] = 0]
    BY <1>2 DEF Terminar, memoria, Quieta
  <2>1. \A n \in Numeros : Guarda(<<c, n>>)' = Vacio
    BY <1>0, <2>0 DEF Guarda, Existe, Numeros
  <2>2. \A b \in Carpinchos \ {c}, n \in Numeros : Guarda(<<b, n>>)' = Guarda(<<b, n>>)
    BY <1>0, <2>0 DEF Guarda, Existe, Quieta
  <2>3. Mem' = [Mem EXCEPT ![c] = [n \in Numeros |-> Vacio]]
    BY <2>1, <2>2 DEF Mem
  <2> QED BY <1>0, <2>0, <2>3 DEF P!Terminar, Mem
<1>3. ASSUME NEW c \in Carpinchos, NEW p \in Paginas, NEW f \in Marcos, Crece(c, p),
             Contiene(p, f, Vacio)
      PROVE  P!Crear(c)
  <2>1. /\ p = <<c, cantidad[c] + 1>> /\ cantidad' = [cantidad EXCEPT ![c] = @ + 1]
        /\ cantidad[c] < MaxPaginas /\ ~Existe(p)
    <3>1. p = <<c, cantidad[c] + 1>> /\ cantidad' = [cantidad EXCEPT ![c] = @ + 1]
      BY <1>3 DEF Crece
    <3>2. ~Existe(p)
      BY <1>3, CreceExiste
    <3>3. cantidad[c] + 1 \in 1..MaxPaginas
      BY <3>1 DEF Paginas, Numeros
    <3> QED BY <1>0, <3>1, <3>2, <3>3, PaginacionAssumption
  <2>2. Guarda(p)' = Guarda(p) /\ \A q \in Paginas \ {p} : Guarda(q)' = Guarda(q)
    BY <1>3, <2>1, GuardaContiene DEF Guarda
  <2>3. \A b \in Carpinchos, n \in Numeros : Guarda(<<b, n>>)' = Guarda(<<b, n>>)
    BY <1>0, <2>2
  <2>4. Mem' = Mem
    BY <2>3 DEF Mem
  <2> QED BY <2>1, <2>4 DEF P!Crear, Mem
<1>4. ASSUME NEW p \in Paginas, NEW d \in Contenidos \cup {Nada}, NEW f \in Marcos,
             Existe(p), cantidad' = cantidad,
             Contiene(p, f, IF d = Nada THEN Guarda(p) ELSE d)
      PROVE  [P!Next]_(P!planaVars)
  <2>1. /\ Guarda(p)' = IF d = Nada THEN Guarda(p) ELSE d
        /\ \A q \in Paginas \ {p} : Guarda(q)' = Guarda(q)
    BY <1>4, GuardaContiene
  <2>2. CASE d = Nada
    <3>1. \A b \in Carpinchos, n \in Numeros : Guarda(<<b, n>>)' = Guarda(<<b, n>>)
      BY <1>0, <2>1, <2>2
    <3>2. UNCHANGED P!planaVars
      BY <1>4, <3>1 DEF P!planaVars
    <3> QED BY <3>2
  <2>3. CASE d # Nada
    <3>1. PICK c \in Carpinchos, n \in Numeros : p = <<c, n>>
      BY DEF Paginas
    <3>2. \A b \in Carpinchos, k \in Numeros :
            Guarda(<<b, k>>)' = IF b = c /\ k = n THEN d ELSE Guarda(<<b, k>>)
      BY <1>0, <2>1, <2>3, <3>1
    <3>3. Mem' = [Mem EXCEPT ![c][n] = d]
      BY <3>2 DEF Mem
    <3>4. n <= cantidad[c]
      BY <1>4, <3>1 DEF Existe
    <3>5. P!Escribir(c, n, d)
      BY <1>4, <3>3, <3>4 DEF P!Escribir, Mem
    <3> QED BY <1>0, <2>3, <3>1, <3>5 DEF P!Next
  <2> QED BY <2>2, <2>3
<1> QED
  BY <1>1, <1>2, <1>3, <1>4, FormasDeContenido DEF P!Next

(* The memory implements a flat one, for every number of carpinchos, pages *)
(* and frames, every TLB and every policy: a page keeps what was last      *)
(* written to it through evictions and page faults, as long as no page is  *)
(* taken away (compactar_pagina) and the swap sends back what it was given *)
(* (no content has a zero byte inside).                                    *)
THEOREM PaginacionPlana ==
  ASSUME Compacta = FALSE, Enteros = Contenidos \cup {Vacio}
  PROVE  Spec => MemoriaPlana
<1>1. TypeOK /\ TlbAlDia /\ Lugares /\ Sanos /\ [Next]_vars => Sanos'
  BY SanosPaso
<1>2. TypeOK /\ TlbAlDia /\ Lugares /\ Sanos /\ [Next]_vars => [P!Next]_(P!planaVars)
  BY PlanaPaso
<1> QED
  BY <1>1, <1>2, SanosAlEmpezar, PlanaInicial, LugaresSiempre, PTL
     DEF Spec, MemoriaPlana, P!Spec
=============================================================================
