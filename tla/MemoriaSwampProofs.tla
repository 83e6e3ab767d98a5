-------------------------- MODULE MemoriaSwampProofs --------------------------
(* What is proved of the memory with the swap server behind it, for every  *)
(* number of carpinchos, pages, frames and TLB entries and both            *)
(* replacement policies: with one swap file, pages of 64 bytes and global  *)
(* assignment, the swap is the ideal one Paginacion supposes, and what is  *)
(* proved of Paginacion and of Swamp holds of the two together.            *)
EXTENDS MemoriaSwamp, FiniteSetTheorems, TLAPS

MP == INSTANCE PaginacionProofs WITH enSwap <- EnSwapVisto, Compacta <- FALSE
SP == INSTANCE SwampProofs WITH
        PIDs <- Carpinchos, Paginas <- 1..MaxPaginas, Datos <- Guardables,
        CasosMemoria <- {Caso}, MinCuenta <- 0,
        marcos <- marcosSwap, carpinchos <- registrados, enSwap <- dejado

(* The swap the proofs are about: one file, pages as long as a memcpy of    *)
(* escribir_swap, global assignment.                                        *)
SwapChica == F = 1 /\ Pisa = 0 /\ TIPO_ASIGNACION = "DINAMICA"

-----------------------------------------------------------------------------
(* What MemoriaSwamp and the theorems of its parts say is the same          *)

LEMMA Capacidad == CapSwap \in Nat
  BY MemoriaSwampAssumption DEF CapSwap

LEMMA SuponePaginacion == MP!PaginacionAssumption
<1>1. MP!IsFiniteSet(Carpinchos)
  BY MemoriaSwampAssumption DEF MP!IsFiniteSet, IsFiniteSet
<1>2. Nada \notin 0..(MARCOS - 1)
  BY MemoriaSwampAssumption
<1> QED
  BY <1>1, <1>2, Capacidad, MemoriaSwampAssumption DEF MP!PaginacionAssumption

LEMMA SuponeSwamp == SP!SwampAssumption
<1>1. Enteros \subseteq Guardables /\ {Caso} \subseteq {"FIJA", "GLOBAL"}
  BY MemoriaSwampAssumption DEF Guardables, Caso
<1>2. Nada \notin Carpinchos \cup (1..MaxPaginas) \cup Guardables \cup Nat
  BY MemoriaSwampAssumption DEF Guardables
<1>3. {Cero, Basura} \cap Guardables = {}
  BY MemoriaSwampAssumption DEF Guardables
<1>4. Peso \in [Guardables \cup {Cero, Basura} -> Nat]
  <2>1. Guardables \cup {Cero, Basura} = Contenidos \cup {Vacio, Roto, Cero, Basura}
    BY DEF Guardables
  <2> QED BY <2>1, MemoriaSwampAssumption
<1> QED
  BY <1>1, <1>2, <1>3, <1>4, MemoriaSwampAssumption DEF SP!SwampAssumption

LEMMA MismaCuenta ==
  \A Z : MP!Cardinality(Z) = Cardinality(Z) /\ Mem!Cardinality(Z) = Cardinality(Z)
         /\ SP!Cardinality(Z) = Cardinality(Z) /\ S!Cardinality(Z) = Cardinality(Z)
  BY DEF MP!Cardinality, Mem!Cardinality, SP!Cardinality, S!Cardinality, Cardinality

LEMMA MismoVocabulario ==
  /\ \A c : Mem!Atiende(c) <=> MP!Atiende(c)
  /\ \A p : Mem!Existe(p) <=> MP!Existe(p)
  /\ \A p : Mem!EnMarco(p) <=> MP!EnMarco(p)
  /\ \A p : Mem!EnTlb(p) <=> MP!EnTlb(p)
  /\ \A c : Mem!PuedeSumarMarco(c) <=> MP!PuedeSumarMarco(c)
  /\ \A c, v : Mem!Victima(c, v) <=> MP!Victima(c, v)
  /\ \A v : Mem!SeEnvia(v) <=> MP!SeEnvia(v)
  /\ \A v : Mem!TlbRota(v) <=> MP!TlbRota(v)
  /\ Mem!Paginas = MP!Paginas
  BY DEF Mem!Numeros, MP!Numeros, Mem!Paginas, MP!Paginas, Mem!Marcos, MP!Marcos,
         Mem!Entradas, MP!Entradas, Mem!Atiende, MP!Atiende, Mem!Existe,
         MP!Existe, Mem!EnMarco, MP!EnMarco, Mem!EnTlb, MP!EnTlb, Mem!Presentes,
         MP!Presentes, Mem!MarcosDe, MP!MarcosDe, Mem!Libres, MP!Libres,
         Mem!MarcoEnTlb, MP!MarcoEnTlb, Mem!TlbSinMarco, MP!TlbSinMarco,
         Mem!Victimas, MP!Victimas, Mem!ClaveReloj, MP!ClaveReloj, Mem!Posicion,
         MP!Posicion, Mem!AlAlcance, MP!AlAlcance, Mem!Clase, MP!Clase,
         Mem!AntesEnReloj, MP!AntesEnReloj, Mem!Victima, MP!Victima, Mem!SeEnvia,
         MP!SeEnvia, Mem!PuedeSumarMarco, MP!PuedeSumarMarco, Mem!TlbRota,
         MP!TlbRota, Mem!Cardinality, MP!Cardinality

LEMMA MismosPasos ==
  /\ \A causa : Mem!SeRompe(causa) <=> MP!SeRompe(causa)
  /\ \A c : Mem!SinVictima(c) <=> MP!SinVictima(c)
  /\ \A c : Mem!PunteroAfuera(c) <=> MP!PunteroAfuera(c)
  /\ \A c, p : Mem!CrearEnLibre(c, p) <=> MP!CrearEnLibre(c, p)
  /\ \A c, p, v : Mem!Reemplazar(c, p, v) <=> MP!Reemplazar(c, p, v)
  /\ \A p, d : Mem!AccederEnTlb(p, d) <=> MP!AccederEnTlb(p, d)
  /\ \A p, d : Mem!AccederEnMarco(p, d) <=> MP!AccederEnMarco(p, d)
  /\ \A p, d, v, x : Mem!Cargar(p, d, v, x) <=> MP!Cargar(p, d, v, x)
  /\ \A c : Mem!Terminar(c) <=> MP!Terminar(c)
  BY DEF Mem!Numeros, MP!Numeros, Mem!Paginas, MP!Paginas, Mem!Marcos, MP!Marcos,
         Mem!Entradas, MP!Entradas, Mem!relojes, MP!relojes, Mem!listas,
         MP!listas, Mem!memoria, MP!memoria, Mem!tablaTlb, MP!tablaTlb,
         Mem!SeRompe, MP!SeRompe, Mem!Existe, MP!Existe, Mem!EnMarco, MP!EnMarco,
         Mem!EnTlb, MP!EnTlb, Mem!Presentes, MP!Presentes, Mem!Libres, MP!Libres,
         Mem!Primero, MP!Primero, Mem!MarcoEnTlb, MP!MarcoEnTlb, Mem!TlbSinMarco,
         MP!TlbSinMarco, Mem!SelloTlb, MP!SelloTlb, Mem!TlbLibres, MP!TlbLibres,
         Mem!SaleDeTlb, MP!SaleDeTlb, Mem!FifoTras, MP!FifoTras,
         Mem!ActualizarTlb, MP!ActualizarTlb, Mem!Victimas, MP!Victimas,
         Mem!ClaveReloj, MP!ClaveReloj, Mem!Posicion, MP!Posicion, Mem!AlAlcance,
         MP!AlAlcance, Mem!Clase, MP!Clase, Mem!Repasadas, MP!Repasadas,
         Mem!PunteroTras, MP!PunteroTras, Mem!SinVictima, MP!SinVictima,
         Mem!PunteroAfuera, MP!PunteroAfuera, Mem!PagSin, MP!PagSin, Mem!Sello,
         MP!Sello, Mem!RelojTras, MP!RelojTras, Mem!Nueva, MP!Nueva,
         Mem!AgregarPagina, MP!AgregarPagina, Mem!CrearEnLibre, MP!CrearEnLibre,
         Mem!Reemplazar, MP!Reemplazar, Mem!Queda, MP!Queda, Mem!Accedida,
         MP!Accedida, Mem!Usar, MP!Usar, Mem!Toques, MP!Toques, Mem!Tocada,
         MP!Tocada, Mem!AccederEnTlb, MP!AccederEnTlb, Mem!AccederEnMarco,
         MP!AccederEnMarco, Mem!Cargar, MP!Cargar, Mem!Terminar, MP!Terminar,
         Mem!Cardinality, MP!Cardinality

LEMMA MismoComienzo == MP!Init <=> Mem!Init
  BY DEF Mem!Numeros, MP!Numeros, Mem!Paginas, MP!Paginas, Mem!Marcos, MP!Marcos,
         Mem!Entradas, MP!Entradas, Mem!PaginaNueva, MP!PaginaNueva, Mem!Init,
         MP!Init

LEMMA MismaEspecificacion == MP!Spec <=> Mem!Spec
<1>1. MP!Init <=> Mem!Init
  BY MismoComienzo
<1>2. MP!Next <=> Mem!Next
  BY DEF Mem!Numeros, MP!Numeros, Mem!Paginas, MP!Paginas, Mem!Marcos, MP!Marcos,
         Mem!Entradas, MP!Entradas, Mem!relojes, MP!relojes, Mem!listas,
         MP!listas, Mem!memoria, MP!memoria, Mem!tablaTlb, MP!tablaTlb,
         Mem!Atiende, MP!Atiende, Mem!SeRompe, MP!SeRompe, Mem!Existe, MP!Existe,
         Mem!EnMarco, MP!EnMarco, Mem!EnTlb, MP!EnTlb, Mem!Presentes,
         MP!Presentes, Mem!MarcosDe, MP!MarcosDe, Mem!Libres, MP!Libres,
         Mem!Primero, MP!Primero, Mem!MarcoEnTlb, MP!MarcoEnTlb, Mem!TlbSinMarco,
         MP!TlbSinMarco, Mem!SelloTlb, MP!SelloTlb, Mem!TlbLibres, MP!TlbLibres,
         Mem!SaleDeTlb, MP!SaleDeTlb, Mem!FifoTras, MP!FifoTras,
         Mem!ActualizarTlb, MP!ActualizarTlb, Mem!Victimas, MP!Victimas,
         Mem!ClaveReloj, MP!ClaveReloj, Mem!Posicion, MP!Posicion, Mem!AlAlcance,
         MP!AlAlcance, Mem!Clase, MP!Clase, Mem!AntesEnReloj, MP!AntesEnReloj,
         Mem!Victima, MP!Victima, Mem!Repasadas, MP!Repasadas, Mem!PunteroTras,
         MP!PunteroTras, Mem!SinVictima, MP!SinVictima, Mem!PunteroAfuera,
         MP!PunteroAfuera, Mem!SeEnvia, MP!SeEnvia, Mem!VueltaDe, MP!VueltaDe,
         Mem!SwapLleno, MP!SwapLleno, Mem!NoEntra, MP!NoEntra, Mem!SwapCon,
         MP!SwapCon, Mem!PagSin, MP!PagSin, Mem!CrearCarpincho,
         MP!CrearCarpincho, Mem!PuedeSumarMarco, MP!PuedeSumarMarco, Mem!Sello,
         MP!Sello, Mem!RelojTras, MP!RelojTras, Mem!Nueva, MP!Nueva,
         Mem!AgregarPagina, MP!AgregarPagina, Mem!CrearEnLibre, MP!CrearEnLibre,
         Mem!Reemplazar, MP!Reemplazar, Mem!TlbRota, MP!TlbRota,
         Mem!CrearReemplazando, MP!CrearReemplazando, Mem!CrearPagina,
         MP!CrearPagina, Mem!Queda, MP!Queda, Mem!Accedida, MP!Accedida,
         Mem!Usar, MP!Usar, Mem!Toques, MP!Toques, Mem!Tocada, MP!Tocada,
         Mem!AccederEnTlb, MP!AccederEnTlb, Mem!AccederEnMarco,
         MP!AccederEnMarco, Mem!Cargar, MP!Cargar, Mem!TraerDeSwap,
         MP!TraerDeSwap, Mem!AccederEnSwap, MP!AccederEnSwap, Mem!Acceder,
         MP!Acceder, Mem!Leer, MP!Leer, Mem!Escribir, MP!Escribir,
         Mem!QuitarPagina, MP!QuitarPagina, Mem!Terminar, MP!Terminar, Mem!Next,
         MP!Next, Mem!Cardinality, MP!Cardinality
<1>3. MP!vars = Mem!vars /\ MP!vars' = Mem!vars'
  BY DEF Mem!relojes, MP!relojes, Mem!listas, MP!listas, Mem!memoria, MP!memoria,
         Mem!tablaTlb, MP!tablaTlb, Mem!vars, MP!vars
<1>4. [MP!Next]_(MP!vars) <=> [Mem!Next]_(Mem!vars)
  BY <1>2, <1>3
<1> QED BY <1>1, <1>4, PTL DEF MP!Spec, Mem!Spec

LEMMA MismosPedidos ==
  /\ S!CasoAsignacion <=> SP!CasoAsignacion
  /\ \A c, a, n : S!PuedeEscribir(c, a, n) <=> SP!PuedeEscribir(c, a, n)
  /\ \A c, a, g, d : S!Escribir(c, a, g, d) <=> SP!Escribir(c, a, g, d)
  /\ \A c, g, l : S!LeerPagina(c, g, l) <=> SP!LeerPagina(c, g, l)
  /\ \A c, g : S!LeerAusente(c, g) <=> SP!LeerAusente(c, g)
  /\ \A c : S!LeerDesconocido(c) <=> SP!LeerDesconocido(c)
  BY DEF S!Archivos, SP!Archivos, S!Numeros, SP!Numeros, S!Lugares, SP!Lugares,
         S!registro, SP!registro, S!Atiende, SP!Atiende, S!SeRompe, SP!SeRompe,
         S!Libres, SP!Libres, S!PrimerLibre, SP!PrimerLibre, S!BytesUsados,
         SP!BytesUsados, S!ConMasEspacio, SP!ConMasEspacio, S!Destino,
         SP!Destino, S!SinLugar, SP!SinLugar, S!ListaCon, SP!ListaCon,
         S!ArchivoCon, SP!ArchivoCon, S!FijaRompe, SP!FijaRompe, S!FijaPermite,
         SP!FijaPermite, S!AsignacionRompe, SP!AsignacionRompe,
         S!AsignacionPermite, SP!AsignacionPermite, S!CasoAsignacion,
         SP!CasoAsignacion, S!ListaConsulta, SP!ListaConsulta, S!ArchivoConsulta,
         SP!ArchivoConsulta, S!HayPaginas, SP!HayPaginas, S!PuedeEscribirRompe,
         SP!PuedeEscribirRompe, S!PuedeEscribirResponde,
         SP!PuedeEscribirResponde, S!PuedeEscribir, SP!PuedeEscribir,
         S!EscribirRompe, SP!EscribirRompe, S!EscribirRechaza,
         SP!EscribirRechaza, S!Escrito, SP!Escrito, S!Actualizar, SP!Actualizar,
         S!EscribirAcepta, SP!EscribirAcepta, S!Escribir, SP!Escribir, S!Indice,
         SP!Indice, S!EsDe, SP!EsDe, S!Conseguir, SP!Conseguir, S!LeerPagina,
         SP!LeerPagina, S!LeerAusente, SP!LeerAusente, S!LeerDesconocido,
         SP!LeerDesconocido, S!Cardinality, SP!Cardinality, S!MapThenSumSet,
         SP!MapThenSumSet, S!MapThenFoldSet, SP!MapThenFoldSet

LEMMA MismaEspecificacionSwap ==
  /\ SP!Init <=> S!Init
  /\ [SP!Next]_(SP!vars) <=> [S!Next]_(S!vars)
  BY DEF S!Archivos, SP!Archivos, S!Numeros, SP!Numeros, S!Lugares, SP!Lugares,
         S!registro, SP!registro, S!vars, SP!vars, S!Init, SP!Init, S!Atiende,
         SP!Atiende, S!SeRompe, SP!SeRompe, S!Libres, SP!Libres, S!PrimerLibre,
         SP!PrimerLibre, S!BytesUsados, SP!BytesUsados, S!ConMasEspacio,
         SP!ConMasEspacio, S!Destino, SP!Destino, S!SinLugar, SP!SinLugar,
         S!ListaCon, SP!ListaCon, S!ArchivoCon, SP!ArchivoCon, S!FijaRompe,
         SP!FijaRompe, S!FijaPermite, SP!FijaPermite, S!AsignacionRompe,
         SP!AsignacionRompe, S!AsignacionPermite, SP!AsignacionPermite,
         S!CasoAsignacion, SP!CasoAsignacion, S!ListaConsulta, SP!ListaConsulta,
         S!ArchivoConsulta, SP!ArchivoConsulta, S!HayPaginas, SP!HayPaginas,
         S!PuedeEscribirRompe, SP!PuedeEscribirRompe, S!PuedeEscribirResponde,
         SP!PuedeEscribirResponde, S!PuedeEscribir, SP!PuedeEscribir,
         S!EscribirRompe, SP!EscribirRompe, S!EscribirRechaza,
         SP!EscribirRechaza, S!Escrito, SP!Escrito, S!Actualizar, SP!Actualizar,
         S!EscribirAcepta, SP!EscribirAcepta, S!Escribir, SP!Escribir, S!Indice,
         SP!Indice, S!EsDe, SP!EsDe, S!Conseguir, SP!Conseguir, S!LeerPagina,
         SP!LeerPagina, S!LeerAusente, SP!LeerAusente, S!LeerDesconocido,
         SP!LeerDesconocido, S!Leer, SP!Leer, S!Next, SP!Next, S!Cardinality,
         SP!Cardinality, S!MapThenSumSet, SP!MapThenSumSet, S!MapThenFoldSet,
         SP!MapThenFoldSet

LEMMA MismoSwap ==
  /\ S!Lugares = SP!Lugares /\ S!Archivos = SP!Archivos
  /\ \A c, g, l : S!Conseguir(c, g, l) <=> SP!Conseguir(c, g, l)
  /\ \A a, l : S!Contenido(a, l) = SP!Contenido(a, l)
  BY DEF S!Archivos, SP!Archivos, S!Numeros, SP!Numeros, S!Lugares, SP!Lugares,
         S!Indice, SP!Indice, S!EsDe, SP!EsDe, S!Conseguir, SP!Conseguir,
         S!Contenido, SP!Contenido

Pags == Carpinchos \X (1..MaxPaginas)

-----------------------------------------------------------------------------
LEMMA MismasPaginas ==
  /\ Mem!Paginas = Pags /\ MP!Paginas = Pags
  /\ \A p \in Pags : p[1] \in Carpinchos /\ p[2] \in 1..MaxPaginas /\ p = <<p[1], p[2]>>
  /\ Nada \notin Pags
  BY MemoriaSwampAssumption
     DEF Pags, Mem!Paginas, MP!Paginas, Mem!Numeros, MP!Numeros

-----------------------------------------------------------------------------
(* What the swap holds *)

SwapBien == SP!TypeOK /\ SP!MarcosDeRegistrados /\ SP!Guardado

Dejada(p) == dejado[p[1]][p[2]]
Vuelve(p) == IF Dejada(p) = Nada THEN Nada ELSE MP!VueltaDe(Dejada(p))

LEMMA DejadaTipo ==
  ASSUME SwapBien, NEW p \in Pags
  PROVE  Dejada(p) \in Guardables \cup {Nada} /\ (Dejada(p) # Nada => Vuelve(p) # Nada)
<1>1. p[1] \in Carpinchos /\ p[2] \in 1..MaxPaginas
  BY MismasPaginas
<1>2. dejado \in [Carpinchos -> [1..MaxPaginas -> Guardables \cup {Nada}]]
  BY DEF SwapBien, SP!TypeOK
<1>3. Nada \notin Enteros \cup {Roto}
  BY MemoriaSwampAssumption
<1> QED
  BY <1>1, <1>2, <1>3 DEF Dejada, Vuelve, MP!VueltaDe

(* With one file, a page that was left in the swap is in one frame, and    *)
(* that is the one conseguirMarco finds.                                   *)
LEMMA DondeEsta ==
  ASSUME SwapChica, SwapBien, NEW p \in Pags, Dejada(p) # Nada
  PROVE  \E l \in SP!Lugares :
            /\ SP!EsDe(l, p[1], p[2]) /\ SP!Conseguir(p[1], p[2], l)
            /\ disco[l] = Dejada(p) /\ archivo[p[1]] = 1
            /\ SP!Contenido(archivo[p[1]], l) =
                 IF Dejada(p) \in Enteros THEN Dejada(p) ELSE Basura
<1>0. p[1] \in Carpinchos /\ p[2] \in 1..MaxPaginas /\ F = 1 /\ p[2] # Nada
  BY MismasPaginas, MemoriaSwampAssumption DEF SwapChica
<1>1. PICK z \in SP!Lugares : SP!EsDe(z, p[1], p[2]) /\ disco[z] = Dejada(p)
  BY <1>0 DEF SwapBien, SP!Guardado, Dejada
<1>2. \A l \in SP!Lugares : SP!EsDe(l, p[1], p[2]) => l = z
  BY <1>0, <1>1 DEF SwapBien, SP!Guardado
<1>3. /\ SP!Indice(z) \in SP!Numeros /\ SP!Indice(z) = z[2]
      /\ z = <<1, z[2]>> /\ z[1] = 1
  BY <1>0, SP!UnArchivo, SuponeSwamp
<1>4. SP!Indice(z) <= SP!Indice(z)
  BY <1>3, MemoriaSwampAssumption DEF SP!Numeros
<1>5. SP!Conseguir(p[1], p[2], z)
  BY <1>1, <1>2, <1>4 DEF SP!Conseguir
<1>6. archivo[p[1]] = 1
  BY <1>0, <1>1, <1>3 DEF SwapBien, SP!MarcosDeRegistrados, SP!EsDe
<1>7. Dejada(p) # Cero
  BY DejadaTipo, MemoriaSwampAssumption DEF Guardables
<1>8. SP!Contenido(archivo[p[1]], z) = IF Dejada(p) \in Enteros THEN Dejada(p) ELSE Basura
  BY <1>1, <1>3, <1>6, <1>7 DEF SP!Contenido
<1> QED
  BY <1>1, <1>5, <1>6, <1>8

(* What leer_swap would send of a page that is there.                      *)
LEMMA LoQueManda ==
  ASSUME SwapChica, SwapBien, NEW p \in Pags, NEW l \in SP!Lugares,
         SP!Conseguir(p[1], p[2], l)
  PROVE  Dejada(p) # Nada /\ Recibido(p, l) = Vuelve(p)
<1>0. p[1] \in Carpinchos /\ p[2] \in 1..MaxPaginas
  BY MismasPaginas
<1>1. SP!EsDe(l, p[1], p[2])
  BY DEF SP!Conseguir
<1>2. Dejada(p) # Nada
  BY <1>0, <1>1 DEF SwapBien, SP!Guardado, Dejada
<1>3. PICK z \in SP!Lugares :
        /\ SP!EsDe(z, p[1], p[2])
        /\ SP!Contenido(archivo[p[1]], z) = IF Dejada(p) \in Enteros THEN Dejada(p) ELSE Basura
  BY <1>2, DondeEsta
<1>4. l = z
  BY <1>0, <1>1, <1>3 DEF SwapBien, SP!Guardado
<1>5. Dejada(p) # Basura
  BY <1>2, DejadaTipo, MemoriaSwampAssumption DEF Guardables
<1>6. Recibido(p, l) = IF Dejada(p) \in Enteros THEN Dejada(p) ELSE Roto
  BY <1>3, <1>4, <1>5, MismoSwap DEF Recibido
<1> QED
  BY <1>2, <1>6 DEF Vuelve, MP!VueltaDe

LEMMA EnDiscoEs ==
  ASSUME SwapChica, SwapBien, NEW p \in Pags
  PROVE  EnDisco(p) = Vuelve(p)
<1>1. CASE Dejada(p) = Nada
  <2>1. \A l \in S!Lugares : ~S!Conseguir(p[1], p[2], l)
    BY <1>1, LoQueManda, MismoSwap
  <2> QED
    BY <1>1, <2>1 DEF EnDisco, Vuelve
<1>2. CASE Dejada(p) # Nada
  <2> DEFINE z == CHOOSE l \in S!Lugares : S!Conseguir(p[1], p[2], l)
  <2>1. \E l \in S!Lugares : S!Conseguir(p[1], p[2], l)
    BY <1>2, DondeEsta, MismoSwap
  <2>2. z \in SP!Lugares /\ SP!Conseguir(p[1], p[2], z)
    BY <2>1, MismoSwap
  <2>3. EnDisco(p) = Recibido(p, z)
    BY <2>1 DEF EnDisco
  <2> HIDE DEF z
  <2> QED
    BY <2>2, <2>3, LoQueManda
<1> QED
  BY <1>1, <1>2

LEMMA VistoEs ==
  SwapChica /\ SwapBien =>
    EnSwapVisto = [p \in Pags |-> IF saliente # Nada /\ p = saliente.v THEN Nada
                                  ELSE Vuelve(p)]
  BY EnDiscoEs DEF EnSwapVisto, Pags

LEMMA VistoDespuesPTL ==
  (SwapChica /\ SwapBien =>
    EnSwapVisto = [p \in Pags |-> IF saliente # Nada /\ p = saliente.v THEN Nada
                                  ELSE Vuelve(p)])'
  BY VistoEs, PTL

LEMMA VistoDespues ==
  ASSUME SwapChica, SwapBien'
  PROVE  EnSwapVisto' = [p \in Pags |-> IF saliente' # Nada /\ p = saliente'.v THEN Nada
                                        ELSE Vuelve(p)']
  BY VistoDespuesPTL DEF SwapChica, Pags

-----------------------------------------------------------------------------
(* The two together.  MemoriaBien is the inductive invariant of the memory  *)
(* with the swap it sees; Enlace ties the connection, the pages that were   *)
(* granted and the replacement under way to both.                           *)

MemoriaBien == MP!TypeOK /\ MP!TlbAlDia /\ MP!Lugares /\ MP!Separadas

(* A replacement under way: its page still has its frame, and the swap      *)
(* already holds what the frame does, if it was sent.                       *)
Mudandose(s) ==
  /\ MP!Atiende(s.p[1]) /\ MP!Victima(s.p[1], s.v) /\ MP!EnMarco(s.v)
  /\ Dejada(s.v) = IF MP!SeEnvia(s.v) THEN cache[pag[s.v].marco] ELSE Nada
ParaCrear(s) ==
  /\ s.p[2] = cantidad[s.p[1]] + 1 /\ pedidas[s.p[1]] > 0
  /\ ~MP!PuedeSumarMarco(s.p[1])
ParaTraer(s) == MP!Existe(s.p) /\ ~MP!EnTlb(s.p) /\ ~MP!EnMarco(s.p)

EnCurso(s) ==
  /\ ~indefinido
  /\ estado = "anda" => /\ Mudandose(s)
                        /\ IF s.para = "crear" THEN ParaCrear(s) ELSE ParaTraer(s)

Conexion ==
  /\ colgado => estado = "colgada"
  /\ conectado => casoAsignacion = "GLOBAL"
  /\ \A c \in Carpinchos : fase[c] # "nuevo" => conectado /\ archivo[c] # Nada
  /\ indefinido => SP!Libres(1) = {} /\ saliente = Nada

Pedidos ==
  /\ pedidas \in [Carpinchos -> Nat]
  /\ \A c \in Carpinchos : /\ pedidas[c] > 0 => fase[c] = "vivo"
                           /\ cantidad[c] + pedidas[c] <= MaxPaginas

EnMarcha == /\ saliente \in Salidas \cup {Nada}
            /\ \A s \in Salidas : saliente = s => EnCurso(s)

Enlace == Conexion /\ Pedidos /\ EnMarcha

Bien == SwapBien /\ MemoriaBien /\ Enlace

-----------------------------------------------------------------------------
(* With one file the frames in use and the pages left in the swap are one   *)
(* to one, so the swap the memory sees is full when the server's file is.   *)

Dejadas == {p \in Pags : Dejada(p) # Nada}

LEMMA CuentaSwap ==
  ASSUME SwapChica, SwapBien
  PROVE  /\ IsFiniteSet(Dejadas) /\ IsFiniteSet(SP!Libres(1))
         /\ Cardinality(SP!Libres(1)) \in Nat
         /\ Cardinality(Dejadas) = N - Cardinality(SP!Libres(1))
<1> DEFINE Usados1 == SP!Numeros \ SP!Libres(1)
           f == [m \in Usados1 |-> <<marcosSwap[<<1, m>>].pid, marcosSwap[<<1, m>>].indice>>]
<1>1. F = 1 /\ N \in Nat \ {0}
  BY MemoriaSwampAssumption DEF SwapChica
<1>2. \A m \in SP!Numeros : <<1, m>> \in SP!Lugares
  BY <1>1 DEF SP!Lugares, SP!Archivos
<1>3. SP!Libres(1) \subseteq SP!Numeros
  BY DEF SP!Libres
<1>4. \A m \in Usados1 : <<1, m>> \in SP!Lugares /\ marcosSwap[<<1, m>>].indice # Nada
  BY <1>2 DEF SP!Libres
<1>5. \A m \in Usados1 : /\ f[m][1] \in Carpinchos /\ f[m][2] \in 1..MaxPaginas
                         /\ f[m] \in Pags /\ SP!EsDe(<<1, m>>, f[m][1], f[m][2])
  BY <1>4 DEF SwapBien, SP!TypeOK, SP!MarcosDeRegistrados, SP!EsDe, Pags
<1>6. \A m \in Usados1 : f[m] \in Dejadas
  BY <1>4, <1>5 DEF SwapBien, SP!Guardado, Dejadas, Dejada
<1>7. \A m, k \in Usados1 : f[m] = f[k] => m = k
  <2> SUFFICES ASSUME NEW m \in Usados1, NEW k \in Usados1, f[m] = f[k] PROVE m = k
    OBVIOUS
  <2>1. <<1, m>> = <<1, k>>
    BY <1>4, <1>5 DEF SwapBien, SP!Guardado
  <2> QED BY <2>1
<1>8. \A p \in Dejadas : \E m \in Usados1 : f[m] = p
  <2> SUFFICES ASSUME NEW p \in Dejadas PROVE \E m \in Usados1 : f[m] = p
    OBVIOUS
  <2>1. p \in Pags /\ Dejada(p) # Nada /\ p[2] # Nada
    BY MismasPaginas, MemoriaSwampAssumption DEF Dejadas
  <2>2. PICK l \in SP!Lugares : SP!EsDe(l, p[1], p[2])
    BY <2>1, DondeEsta
  <2>3. l = <<1, l[2]>> /\ l[2] \in SP!Numeros
    BY <1>1, SP!UnArchivo, SuponeSwamp
  <2>4. l[2] \in Usados1
    BY <2>1, <2>2, <2>3 DEF SP!EsDe, SP!Libres
  <2>5. f[l[2]] = p
    BY <2>1, <2>2, <2>3, <2>4, MismasPaginas DEF SP!EsDe
  <2> QED BY <2>4, <2>5
<1>9. ExistsBijection(Usados1, Dejadas)
  <2>1. f \in [Usados1 -> Dejadas]
    BY <1>6
  <2>2. f \in Injection(Usados1, Dejadas)
    BY <1>7, <2>1 DEF Injection, IsInjective
  <2>3. f \in Surjection(Usados1, Dejadas)
    BY <1>8, <2>1 DEF Surjection
  <2> QED BY <2>2, <2>3 DEF ExistsBijection, Bijection
<1>10. IsFiniteSet(SP!Numeros) /\ Cardinality(SP!Numeros) = N
  <2>1. 0 \in Int /\ N - 1 \in Int /\ (IF 0 > N - 1 THEN 0 ELSE N - 1 - 0 + 1) = N
    BY <1>1
  <2> QED BY <2>1, FS_Interval DEF SP!Numeros
<1>11. /\ IsFiniteSet(Usados1)
       /\ Cardinality(Usados1) = N - Cardinality(SP!Numeros \cap SP!Libres(1))
  BY <1>10, FS_Difference
<1>12. SP!Numeros \cap SP!Libres(1) = SP!Libres(1)
  BY <1>3
<1>13. IsFiniteSet(SP!Libres(1)) /\ Cardinality(SP!Libres(1)) \in Nat
  BY <1>3, <1>10, FS_Subset, FS_CardinalityType
<1> HIDE DEF Usados1
<1> QED
  BY <1>9, <1>11, <1>12, <1>13, FS_Bijection

LEMMA VistoCampos ==
  ASSUME SwapChica, SwapBien
  PROVE  /\ \A p \in Pags : EnSwapVisto[p] = IF saliente # Nada /\ p = saliente.v THEN Nada
                                             ELSE Vuelve(p)
         /\ \A p \in Pags : Vuelve(p) # Nada <=> Dejada(p) # Nada
  BY VistoEs, DejadaTipo DEF Vuelve

(* A swap whose file has no free frame is full for the memory too.          *)
LEMMA SwapColmado ==
  ASSUME SwapChica, SwapBien, SP!Libres(1) = {}, saliente = Nada
  PROVE  /\ MP!SwapLleno /\ Cardinality(Dejadas) = N
         /\ Dejadas = {p \in MP!Paginas : EnSwapVisto[p] # Nada}
<1>1. Dejadas = {p \in MP!Paginas : EnSwapVisto[p] # Nada}
  BY VistoCampos, MismasPaginas DEF Dejadas
<1>2. Cardinality(Dejadas) = N
  BY CuentaSwap, FS_EmptySet, MemoriaSwampAssumption
<1>3. CapSwap = N
  BY MemoriaSwampAssumption DEF CapSwap, SwapChica
<1> QED
  BY <1>1, <1>2, <1>3, MismaCuenta, MemoriaSwampAssumption DEF MP!SwapLleno

(* While a page that was sent still has its frame, the others leave it its  *)
(* place.                                                                   *)
LEMMA SwapConLugar ==
  ASSUME SwapChica, SwapBien, saliente # Nada, saliente.v \in Pags,
         Dejada(saliente.v) # Nada
  PROVE  ~MP!SwapLleno
<1>1. Dejadas \ {saliente.v} = {p \in MP!Paginas : EnSwapVisto[p] # Nada}
  BY VistoCampos, MismasPaginas DEF Dejadas
<1>2. saliente.v \in Dejadas
  BY DEF Dejadas
<1>3. Cardinality(Dejadas \ {saliente.v}) = Cardinality(Dejadas) - 1
  BY <1>2, CuentaSwap, FS_RemoveElement
<1>4. CapSwap = N
  BY MemoriaSwampAssumption DEF CapSwap, SwapChica
<1>5. Cardinality(Dejadas \ {saliente.v}) < CapSwap
  BY <1>3, <1>4, CuentaSwap, MemoriaSwampAssumption
<1>6. Cardinality({p \in MP!Paginas : EnSwapVisto[p] # Nada}) < CapSwap
  BY <1>1, <1>5
<1>7. Cardinality({p \in MP!Paginas : EnSwapVisto[p] # Nada}) \in Int /\ CapSwap \in Int
  <2>1. N \in Int /\ Cardinality(SP!Libres(1)) \in Int /\ CapSwap \in Int
    BY CuentaSwap, Capacidad, MemoriaSwampAssumption
  <2>2. Cardinality(Dejadas) \in Int
    BY <2>1, CuentaSwap
  <2>3. Cardinality(Dejadas \ {saliente.v}) \in Int
    BY <1>3, <2>2
  <2> QED BY <1>1, <2>1, <2>3
<1> QED
  BY <1>6, <1>7, MismaCuenta DEF MP!SwapLleno

-----------------------------------------------------------------------------
(* What the requests do, under global assignment and with one file: the     *)
(* server refuses nothing, and breaks for want of a free frame only.        *)

conexionSwap == <<colgado, conectado, casoAsignacion>>

SwapRevienta == /\ ~indefinido /\ indefinido' /\ SP!Libres(1) = {}
                /\ UNCHANGED <<conexionSwap, marcosSwap, archivo, dejado>>

Conserva(c) == /\ ~indefinido /\ ~indefinido' /\ UNCHANGED conexionSwap
               /\ archivo' = [archivo EXCEPT ![c] = 1]

LEMMA ConsultarEs ==
  ASSUME SwapChica, Conexion, conectado, NEW c \in Carpinchos, NEW n, Consultar(c, n)
  PROVE  SwapRevienta \/ (Conserva(c) /\ dejado' = dejado)
<1>1. PICK a \in SP!Archivos : SP!PuedeEscribir(c, a, n)
  BY MismosPedidos, MismoSwap DEF Consultar
<1>2. a = 1 /\ casoAsignacion = "GLOBAL"
  BY DEF SP!Archivos, SwapChica, Conexion
<1>3. CASE SP!PuedeEscribirRompe(c, a)
  BY <1>1, <1>2, <1>3
     DEF SP!PuedeEscribir, SP!Atiende, SP!PuedeEscribirRompe, SP!SinLugar, SP!AsignacionRompe,
         SP!SeRompe, SP!registro, SwapRevienta, conexionSwap
<1>4. CASE SP!PuedeEscribirResponde(c, a, n)
  BY <1>1, <1>2, <1>4
     DEF SP!PuedeEscribir, SP!Atiende, SP!PuedeEscribirResponde, SP!ArchivoConsulta,
         SP!ArchivoCon, Conserva, conexionSwap
<1> QED
  BY <1>1, <1>3, <1>4 DEF SP!PuedeEscribir

LEMMA EscribirEs ==
  ASSUME SwapChica, Conexion, NEW v \in Pags, NEW a \in S!Archivos, NEW d,
         S!Escribir(v[1], a, v[2], d)
  PROVE  /\ Dejada(v) = Nada
         /\ \/ SwapRevienta
            \/ Conserva(v[1]) /\ dejado' = [dejado EXCEPT ![v[1]][v[2]] = d]
<1>1. SP!Escribir(v[1], a, v[2], d) /\ a = 1
  BY MismosPedidos, MismoSwap DEF SP!Archivos, SwapChica
<1>2. casoAsignacion = "GLOBAL" /\ ~indefinido /\ dejado[v[1]][v[2]] = Nada
  BY <1>1 DEF SP!Escribir, SP!Atiende, Conexion
<1>3. CASE SP!EscribirRompe(v[1], a)
  BY <1>1, <1>2, <1>3
     DEF SP!EscribirRompe, SP!AsignacionRompe, SP!SeRompe, SP!registro, SwapRevienta,
         conexionSwap, Dejada
<1>4. ~SP!EscribirRechaza(v[1], a)
  BY <1>2 DEF SP!EscribirRechaza, SP!AsignacionPermite
<1>5. ASSUME NEW m \in SP!Numeros, SP!EscribirAcepta(v[1], a, m, v[2], d)
      PROVE  Conserva(v[1]) /\ dejado' = [dejado EXCEPT ![v[1]][v[2]] = d]
  BY <1>1, <1>2, <1>5 DEF SP!EscribirAcepta, SP!ArchivoCon, Conserva, conexionSwap
<1> QED
  BY <1>1, <1>2, <1>3, <1>4, <1>5 DEF SP!Escribir, Dejada

(* The write of the page that leaves.                                       *)
LEMMA EnviarEs ==
  ASSUME SwapChica, Conexion, NEW v \in Pags, Enviar(v)
  PROVE  \/ ~MP!SeEnvia(v) /\ UNCHANGED varsSwamp
         \/ MP!SeEnvia(v) /\ Dejada(v) = Nada /\ SwapRevienta
         \/ /\ MP!SeEnvia(v) /\ Dejada(v) = Nada /\ Conserva(v[1])
            /\ dejado' = [dejado EXCEPT ![v[1]][v[2]] = cache[pag[v].marco]]
<1>1. CASE ~MP!SeEnvia(v)
  BY <1>1, MismoVocabulario DEF Enviar
<1>2. CASE MP!SeEnvia(v)
  <2>1. PICK a \in S!Archivos : S!Escribir(v[1], a, v[2], cache[pag[v].marco])
    BY <1>2, MismoVocabulario DEF Enviar
  <2> QED BY <1>2, <2>1, EscribirEs
<1> QED BY <1>1, <1>2

LEMMA LeerPaginaEs ==
  ASSUME SwapChica, SwapBien, NEW p \in Pags, NEW l \in S!Lugares,
         S!LeerPagina(p[1], p[2], l)
  PROVE  /\ Dejada(p) # Nada /\ Recibido(p, l) = Vuelve(p)
         /\ dejado' = [dejado EXCEPT ![p[1]][p[2]] = Nada]
         /\ UNCHANGED <<indefinido, conexionSwap, archivo>>
<1>1. SP!LeerPagina(p[1], p[2], l) /\ l \in SP!Lugares
  BY MismosPedidos, MismoSwap
<1>2. SP!Conseguir(p[1], p[2], l)
  BY <1>1 DEF SP!LeerPagina
<1>3. Dejada(p) # Nada /\ Recibido(p, l) = Vuelve(p)
  BY <1>1, <1>2, LoQueManda
<1> QED
  BY <1>1, <1>3 DEF SP!LeerPagina, conexionSwap

LEMMA LeerAusenteEs ==
  ASSUME SwapChica, SwapBien, NEW p \in Pags, S!LeerAusente(p[1], p[2])
  PROVE  /\ Dejada(p) = Nada
         /\ colgado' /\ UNCHANGED <<indefinido, conectado, casoAsignacion, archivo, dejado>>
<1>1. SP!LeerAusente(p[1], p[2])
  BY MismosPedidos
<1>2. \A l \in SP!Lugares : ~SP!EsDe(l, p[1], p[2])
  BY <1>1 DEF SP!LeerAusente
<1>3. Dejada(p) = Nada
  BY <1>2, DondeEsta
<1> QED
  BY <1>1, <1>3 DEF SP!LeerAusente, SP!registro
-----------------------------------------------------------------------------
(* Every step of the two is one of the server, or the server stands still.  *)

LEMMA CacheGuardable ==
  ASSUME MP!TypeOK, NEW v \in Pags
  PROVE  cache[pag[v].marco] \in Guardables
<1>1. pag[v].marco \in MP!Marcos
  BY MismasPaginas DEF MP!TypeOK
<1> QED BY <1>1 DEF MP!TypeOK, Guardables

LEMMA SwapEnviar ==
  ASSUME MP!TypeOK, NEW v \in Pags, Enviar(v)
  PROVE  [SP!Next]_(SP!vars)
<1>0. v[1] \in Carpinchos /\ v[2] \in 1..MaxPaginas
  BY MismasPaginas
<1>1. CASE UNCHANGED varsSwamp
  BY <1>1 DEF varsSwamp, SP!vars, SP!registro
<1>2. ASSUME NEW a \in S!Archivos, S!Escribir(v[1], a, v[2], cache[pag[v].marco])
      PROVE  SP!Next
  BY <1>0, <1>2, CacheGuardable, MismosPedidos, MismoSwap DEF SP!Next
<1> QED BY <1>1, <1>2 DEF Enviar

LEMMA SwapSacar ==
  ASSUME MP!TypeOK, NEW c, NEW p, NEW para, Sacar(c, p, para)
  PROVE  [SP!Next]_(SP!vars)
<1>1. CASE UNCHANGED varsSwamp
  BY <1>1 DEF varsSwamp, SP!vars, SP!registro
<1>2. ASSUME NEW v \in Pags, Enviar(v) PROVE [SP!Next]_(SP!vars)
  BY <1>2, SwapEnviar
<1>3. UNCHANGED varsSwamp \/ \E v \in Pags : Enviar(v)
  BY MismasPaginas DEF Sacar
<1> QED BY <1>1, <1>2, <1>3

LEMMA SwapPedir ==
  ASSUME SwapChica, SwapBien, NEW c \in Carpinchos, NEW n \in 1..MaxPaginas, Pedir(c, n)
  PROVE  [SP!Next]_(SP!vars)
<1>1. PICK a \in SP!Archivos : SP!PuedeEscribir(c, a, n)
  BY MismosPedidos, MismoSwap DEF Pedir, Consultar
<1>2. CASE n \in 1..(N + 1)
  BY <1>1, <1>2 DEF SP!Next
<1>3. CASE n \notin 1..(N + 1)
  <2>0. n \in Nat /\ N \in Nat /\ N + 1 < n /\ N + 1 \in 1..(N + 1) /\ a = 1
    BY <1>3, MemoriaSwampAssumption DEF SP!Archivos, SwapChica
  <2>1. Cardinality(SP!Libres(a)) \in Nat /\ Cardinality(SP!Libres(a)) <= N
    <3>1. SP!Libres(1) \subseteq 0..(N - 1)
      BY DEF SP!Libres, SP!Numeros
    <3>2. IsFiniteSet(0..(N - 1)) /\ Cardinality(0..(N - 1)) <= N
      <4>1. 0 \in Int /\ N - 1 \in Int /\ (IF 0 > N - 1 THEN 0 ELSE N - 1 - 0 + 1) <= N
        BY MemoriaSwampAssumption
      <4> QED BY <4>1, FS_Interval
    <3>3. Cardinality(0..(N - 1)) \in Nat
      BY <3>2, FS_CardinalityType
    <3>4. /\ Cardinality(SP!Libres(1)) \in Nat
          /\ Cardinality(SP!Libres(1)) <= Cardinality(0..(N - 1))
      BY <3>1, <3>2, FS_Subset, FS_CardinalityType
    <3> QED BY <2>0, <3>2, <3>3, <3>4
  <2>2. ~SP!HayPaginas(a, n) /\ ~SP!HayPaginas(a, N + 1)
    BY <2>0, <2>1, MismaCuenta DEF SP!HayPaginas
  <2>3. SP!PuedeEscribir(c, a, N + 1)
    BY <1>1, <2>2 DEF SP!PuedeEscribir, SP!PuedeEscribirResponde
  <2> QED BY <2>0, <2>3 DEF SP!Next
<1> QED BY <1>2, <1>3

LEMMA SwapTraer ==
  ASSUME SwapChica, SwapBien, Enlace, Traer
  PROVE  [SP!Next]_(SP!vars)
<1> DEFINE p == saliente.p
<1>1. saliente \in Salidas /\ ~indefinido /\ MP!Atiende(p[1]) /\ estado = "anda"
  BY DEF Traer, Enlace, EnMarcha, EnCurso, Mudandose
<1>2. p \in Pags /\ p[1] \in Carpinchos /\ p[2] \in 1..MaxPaginas
  BY <1>1, MismasPaginas DEF Salidas, Pags
<1>3. fase[p[1]] = "vivo"
  BY <1>1 DEF MP!Atiende
<1>4. SP!Atiende
  BY <1>1, <1>2, <1>3 DEF SP!Atiende, Enlace, Conexion
<1>5. \/ \E l \in SP!Lugares : SP!LeerPagina(p[1], p[2], l)
      \/ SP!LeerAusente(p[1], p[2]) \/ SP!LeerDesconocido(p[1])
  BY MismosPedidos, MismoSwap DEF Traer
<1>6. SP!Leer(p[1], p[2])
  BY <1>4, <1>5 DEF SP!Leer
<1> QED BY <1>2, <1>6 DEF SP!Next

LEMMA SwapPaso ==
  ASSUME SwapChica, SwapBien, MP!TypeOK, Enlace, [Next]_vars
  PROVE  [SP!Next]_(SP!vars)
<1>1. CASE Conectar
  BY <1>1, MismosPedidos DEF Conectar, SP!Next
<1>2. CASE Ocupar
  BY <1>2 DEF Ocupar, varsSwamp, SP!vars, SP!registro
<1>3. ASSUME NEW c \in Carpinchos, Crear(c) \/ Terminar(c) PROVE [SP!Next]_(SP!vars)
  <2>1. CASE UNCHANGED varsSwamp
    BY <2>1 DEF varsSwamp, SP!vars, SP!registro
  <2>2. CASE Sacar(c, <<c, cantidad[c] + 1>>, "crear")
    BY <2>2, SwapSacar
  <2> QED BY <1>3, <2>1, <2>2 DEF Crear, Terminar
<1>4. ASSUME NEW c \in Carpinchos, NEW n \in 1..MaxPaginas, Pedir(c, n)
      PROVE  [SP!Next]_(SP!vars)
  BY <1>4, SwapPedir
<1>5. ASSUME NEW p, NEW d, Acceder(p, d) PROVE [SP!Next]_(SP!vars)
  <2>1. CASE UNCHANGED varsSwamp
    BY <2>1 DEF varsSwamp, SP!vars, SP!registro
  <2>2. CASE Sacar(p[1], p, d)
    BY <2>2, SwapSacar
  <2> QED BY <1>5, <2>1, <2>2 DEF Acceder
<1>6. CASE UNCHANGED vars
  BY <1>6 DEF vars, varsSwamp, SP!vars, SP!registro
<1> QED
  BY <1>1, <1>2, <1>3, <1>4, <1>5, <1>6, SwapTraer DEF Next

LEMMA SwapBienPaso ==
  ASSUME SwapChica, SwapBien, MP!TypeOK, Enlace, [Next]_vars
  PROVE  SwapBien'
<1>1. [SP!Next]_(SP!vars)
  BY SwapPaso
<1>2. SP!TypeOK /\ SP!MarcosDeRegistrados /\ SP!Guardado /\ F = 1 /\ Pisa = 0
  BY DEF SwapBien, SwapChica
<1>3. SP!TypeOK'
  BY <1>1, <1>2, SP!TiposPaso, SuponeSwamp
<1>4. SP!MarcosDeRegistrados'
  BY <1>1, <1>2, SP!RegistradosPaso, SuponeSwamp
<1>5. SP!Guardado'
  BY <1>1, <1>2, SP!GuardadoPaso, SuponeSwamp
<1> QED
  BY <1>3, <1>4, <1>5 DEF SwapBien

-----------------------------------------------------------------------------
(* The swap the memory sees, after each of its steps.                       *)

LEMMA DejadaTras ==
  ASSUME SwapBien, NEW v \in Pags, NEW d, dejado' = [dejado EXCEPT ![v[1]][v[2]] = d],
         NEW q \in Pags
  PROVE  Dejada(q)' = IF q = v THEN d ELSE Dejada(q)
<1>1. dejado \in [Carpinchos -> [1..MaxPaginas -> Guardables \cup {Nada}]]
  BY DEF SwapBien, SP!TypeOK
<1>2. /\ v[1] \in Carpinchos /\ v[2] \in 1..MaxPaginas /\ v = <<v[1], v[2]>>
      /\ q[1] \in Carpinchos /\ q[2] \in 1..MaxPaginas /\ q = <<q[1], q[2]>>
  BY MismasPaginas
<1>3. CASE q = v
  BY <1>1, <1>2, <1>3 DEF Dejada
<1>4. CASE q # v
  <2>1. q[1] # v[1] \/ q[2] # v[2]
    BY <1>2, <1>4
  <2> QED BY <1>1, <1>2, <1>4, <2>1 DEF Dejada
<1> QED BY <1>3, <1>4

LEMMA VueltaTras ==
  ASSUME NEW q, NEW d, Dejada(q)' = d
  PROVE  Vuelve(q)' = IF d = Nada THEN Nada ELSE MP!VueltaDe(d)
  BY DEF Vuelve, MP!VueltaDe

LEMMA VistoIgual ==
  ASSUME SwapChica, SwapBien, SwapBien', dejado' = dejado, saliente' = saliente
  PROVE  EnSwapVisto' = EnSwapVisto
<1>1. \A q \in Pags : Vuelve(q)' = Vuelve(q)
  BY DEF Vuelve, Dejada, MP!VueltaDe
<1> QED BY <1>1, VistoEs, VistoDespues

(* The page leaves: it is masked until its frame is reused.                 *)
LEMMA VistoSale ==
  ASSUME SwapChica, SwapBien, SwapBien', saliente = Nada, saliente' # Nada,
         NEW v \in Pags, saliente'.v = v, Dejada(v) = Nada,
         dejado' = dejado \/ \E d : dejado' = [dejado EXCEPT ![v[1]][v[2]] = d]
  PROVE  EnSwapVisto' = EnSwapVisto
<1>1. ASSUME NEW q \in Pags, q # v PROVE Vuelve(q)' = Vuelve(q)
  <2>1. Dejada(q)' = Dejada(q)
    BY <1>1, DejadaTras DEF Dejada
  <2> QED BY <2>1, VueltaTras DEF Vuelve
<1>2. Vuelve(v) = Nada
  BY DEF Vuelve
<1>3. EnSwapVisto = [q \in Pags |-> Vuelve(q)]
  BY VistoEs
<1>4. EnSwapVisto' = [q \in Pags |-> IF q = v THEN Nada ELSE Vuelve(q)']
  BY VistoDespues
<1> QED BY <1>1, <1>2, <1>3, <1>4

LEMMA VistoConMascara ==
  ASSUME SwapChica, SwapBien, MP!TypeOK, saliente # Nada, saliente.v \in Pags,
         Mudandose(saliente)
  PROVE  MP!SwapCon(saliente.v) = [q \in Pags |-> Vuelve(q)]
<1> DEFINE v == saliente.v
<1>1. EnSwapVisto = [q \in Pags |-> IF q = v THEN Nada ELSE Vuelve(q)]
  BY VistoEs
<1>2. Dejada(v) = IF MP!SeEnvia(v) THEN cache[pag[v].marco] ELSE Nada
  BY DEF Mudandose
<1>3. CASE MP!SeEnvia(v)
  <2>1. Dejada(v) = cache[pag[v].marco]
    BY <1>2, <1>3
  <2>2. Dejada(v) # Nada
    BY <2>1, CacheGuardable, MemoriaSwampAssumption DEF Guardables
  <2>3. Vuelve(v) = MP!VueltaDe(cache[pag[v].marco])
    BY <2>1, <2>2 DEF Vuelve
  <2> QED BY <1>1, <1>3, <2>3 DEF MP!SwapCon
<1>4. CASE ~MP!SeEnvia(v)
  BY <1>1, <1>2, <1>4 DEF MP!SwapCon, Vuelve
<1> QED BY <1>3, <1>4
(* Its frame is reused: the page is seen in the swap.                       *)
LEMMA VistoOcupa ==
  ASSUME SwapChica, SwapBien, SwapBien', MP!TypeOK, saliente # Nada, saliente.v \in Pags,
         Mudandose(saliente), saliente' = Nada, dejado' = dejado
  PROVE  EnSwapVisto' = MP!SwapCon(saliente.v)
<1>1. \A q \in Pags : Vuelve(q)' = Vuelve(q)
  BY DEF Vuelve, Dejada, MP!VueltaDe
<1> QED BY <1>1, VistoConMascara, VistoDespues

LEMMA VistoTrae ==
  ASSUME SwapChica, SwapBien, SwapBien', MP!TypeOK, saliente # Nada, saliente.v \in Pags,
         Mudandose(saliente), saliente' = Nada, NEW p \in Pags,
         dejado' = [dejado EXCEPT ![p[1]][p[2]] = Nada]
  PROVE  EnSwapVisto' = [MP!SwapCon(saliente.v) EXCEPT ![p] = Nada]
<1>1. ASSUME NEW q \in Pags PROVE Vuelve(q)' = IF q = p THEN Nada ELSE Vuelve(q)
  <2>1. Dejada(q)' = IF q = p THEN Nada ELSE Dejada(q)
    BY DejadaTras
  <2> QED BY <2>1, VueltaTras DEF Vuelve
<1>2. EnSwapVisto' = [q \in Pags |-> Vuelve(q)']
  BY VistoDespues
<1> QED BY <1>1, <1>2, VistoConMascara

-----------------------------------------------------------------------------
(* Every step of the two is one of the memory with the ideal swap, or that  *)
(* one stands still.                                                        *)

MemoriaQuieta == UNCHANGED varsMemoria /\ EnSwapVisto' = EnSwapVisto

LEMMA QuietaEsQuieta ==
  MemoriaQuieta => UNCHANGED MP!vars
  BY DEF MemoriaQuieta, varsMemoria, MP!vars, MP!listas, MP!memoria, MP!tablaTlb, MP!relojes

LEMMA VictimaBien ==
  ASSUME MP!TypeOK, MP!Lugares, NEW c \in Carpinchos, NEW v, MP!Victima(c, v)
  PROVE  v \in Pags /\ MP!EnMarco(v) /\ EnSwapVisto[v] = Nada
<1>1. /\ v \in MP!Paginas /\ pag[v].marco \in MP!Marcos
      /\ marcos[pag[v].marco] = v /\ EnSwapVisto[v] = Nada
  BY MP!VictimaEnSuMarco, SuponePaginacion
<1> QED BY <1>1, MismasPaginas DEF MP!EnMarco

LEMMA TlbEntera ==
  ASSUME MP!TypeOK, MP!TlbAlDia, MP!Lugares, NEW c \in Carpinchos, NEW v, MP!Victima(c, v)
  PROVE  ~MP!TlbRota(v)
<1>1. pag[v].marco \in MP!Marcos
  BY MP!VictimaEnSuMarco, SuponePaginacion
<1>2. ~MP!MarcoEnTlb(MP!TlbSinMarco(pag[v].marco), pag[v].marco)
  BY <1>1, MP!SinMarcoLimpia, SuponePaginacion
<1> QED BY <1>2 DEF MP!TlbRota

(* The four ways the first half of a replacement ends.                      *)
SinSalida(c) == (MP!SinVictima(c) \/ MP!PunteroAfuera(c)) /\ UNCHANGED <<pedidas, saliente>>
SaleYNoEntra(c, v) ==
  /\ MP!Victima(c, v) /\ MP!EnMarco(v) /\ MP!NoEntra(v) /\ MP!SeRompe("swap_lleno")
  /\ UNCHANGED <<pedidas, saliente>>
Sale(c, v, p, para) ==
  /\ MP!Victima(c, v) /\ MP!EnMarco(v) /\ MemoriaQuieta /\ ~indefinido'
  /\ saliente' = [v |-> v, p |-> p, para |-> para] /\ pedidas' = pedidas
  /\ Dejada(v)' = IF MP!SeEnvia(v) THEN cache[pag[v].marco] ELSE Nada

LEMMA SalidaNoEsNada ==
  ASSUME NEW v \in Pags, NEW p \in Pags, NEW para \in Contenidos \cup {Nada, "crear"}
  PROVE  [v |-> v, p |-> p, para |-> para] \in Salidas
         /\ [v |-> v, p |-> p, para |-> para] # Nada
  BY MemoriaSwampAssumption DEF Salidas, Pags

LEMMA SacarEs ==
  ASSUME SwapChica, SwapBien, SwapBien', MemoriaBien, Enlace, Libre,
         NEW c \in Carpinchos, NEW p \in Pags, NEW para \in Contenidos \cup {Nada, "crear"},
         Sacar(c, p, para)
  PROVE  \/ SinSalida(c) /\ UNCHANGED varsSwamp
         \/ \E v \in Pags :
              \/ SaleYNoEntra(c, v) /\ SwapRevienta
              \/ /\ Sale(c, v, p, para)
                 /\ UNCHANGED varsSwamp \/ Conserva(v[1])
<1>0. saliente = Nada /\ ~indefinido /\ estado = "anda"
  BY DEF Libre
<1>1. CASE UNCHANGED <<varsSwamp, pedidas, saliente>> /\ (Mem!SinVictima(c) \/ Mem!PunteroAfuera(c))
  BY <1>1, MismosPasos DEF SinSalida
<1>2. ASSUME NEW v \in Mem!Paginas, Mem!Victima(c, v),
             IF para # "crear" /\ ~Mem!EnMarco(v)
                THEN /\ UNCHANGED <<varsSwamp, pedidas, saliente>>
                     /\ Mem!SeRompe("inconsistente")
                ELSE /\ Enviar(v)
                     /\ saliente' = IF indefinido' THEN Nada
                                    ELSE [v |-> v, p |-> p, para |-> para]
                     /\ estado' = IF indefinido' THEN "swap_lleno" ELSE "anda"
                     /\ UNCHANGED <<fase, cantidad, pag, marcos, cache, tlb,
                                    tlb_fifo_pointer, algoritm_stack_pointer,
                                    contador_timestamp, contador_timestamp_tlb,
                                    pedidas>>
      PROVE  \/ SaleYNoEntra(c, v) /\ SwapRevienta
             \/ Sale(c, v, p, para) /\ (UNCHANGED varsSwamp \/ Conserva(v[1]))
  <2>1. MP!Victima(c, v) /\ v \in Pags /\ MP!EnMarco(v) /\ EnSwapVisto[v] = Nada
    BY <1>2, MismoVocabulario, VictimaBien DEF MemoriaBien
  <2>2. /\ Enviar(v)
        /\ saliente' = IF indefinido' THEN Nada ELSE [v |-> v, p |-> p, para |-> para]
        /\ estado' = IF indefinido' THEN "swap_lleno" ELSE "anda"
        /\ UNCHANGED <<fase, cantidad, pag, marcos, cache, tlb, tlb_fifo_pointer,
                       algoritm_stack_pointer, contador_timestamp,
                       contador_timestamp_tlb, pedidas>>
    BY <1>2, <2>1, MismoVocabulario
  <2>3. Dejada(v) = Nada
    BY <1>0, <2>1, VistoCampos
  <2>4. CASE SwapRevienta
    <3>1. saliente' = saliente /\ estado' = "swap_lleno" /\ dejado' = dejado
      BY <1>0, <2>2, <2>4 DEF SwapRevienta
    <3>2. EnSwapVisto' = EnSwapVisto
      BY <3>1, VistoIgual
    <3>3. MP!SeRompe("swap_lleno")
      BY <2>2, <3>1, <3>2 DEF MP!SeRompe, MP!listas, MP!memoria, MP!tablaTlb, MP!relojes
    <3>4. MP!SwapLleno
      BY <1>0, <2>4, SwapColmado DEF SwapRevienta
    <3>5. MP!SeEnvia(v)
      <4>1. UNCHANGED varsSwamp => indefinido' = indefinido
        BY DEF varsSwamp
      <4> QED BY <2>1, <2>2, <2>4, <4>1, EnviarEs DEF Enlace, SwapRevienta
    <3> QED
      BY <2>1, <2>2, <2>4, <3>1, <3>3, <3>4, <3>5 DEF SaleYNoEntra, MP!NoEntra
  <2>5. CASE ~indefinido'
    <3>1. saliente' = [v |-> v, p |-> p, para |-> para] /\ estado' = estado
      BY <1>0, <2>2, <2>5
    <3>2. saliente' # Nada /\ saliente'.v = v
      BY <2>1, <3>1, SalidaNoEsNada
    <3>3. \/ ~MP!SeEnvia(v) /\ UNCHANGED varsSwamp
          \/ /\ MP!SeEnvia(v) /\ Conserva(v[1])
             /\ dejado' = [dejado EXCEPT ![v[1]][v[2]] = cache[pag[v].marco]]
      BY <2>1, <2>2, <2>5, EnviarEs DEF Enlace, SwapRevienta
    <3>4. EnSwapVisto' = EnSwapVisto
      BY <1>0, <2>1, <2>3, <3>2, <3>3, VistoSale DEF varsSwamp
    <3>5. MemoriaQuieta
      BY <2>2, <3>1, <3>4 DEF MemoriaQuieta, varsMemoria
    <3>6. Dejada(v)' = IF MP!SeEnvia(v) THEN cache[pag[v].marco] ELSE Nada
      <4>1. CASE MP!SeEnvia(v)
        BY <2>1, <3>3, <4>1, DejadaTras
      <4>2. CASE ~MP!SeEnvia(v)
        BY <2>3, <3>3, <4>2 DEF Dejada, varsSwamp
      <4> QED BY <4>1, <4>2
    <3> QED
      BY <2>1, <2>2, <2>5, <3>1, <3>3, <3>5, <3>6 DEF Sale
  <2>6. SwapRevienta \/ ~indefinido'
    <3>1. UNCHANGED varsSwamp => indefinido' = indefinido
      BY DEF varsSwamp
    <3> QED BY <1>0, <2>1, <2>2, <3>1, EnviarEs DEF Enlace, Conserva
  <2> QED BY <2>4, <2>5, <2>6
<1>3. Mem!Paginas = Pags
  BY MismasPaginas
<1> QED
  BY <1>1, <1>2, <1>3 DEF Sacar

-----------------------------------------------------------------------------
(* The link, step by step *)

LEMMA VocabularioQuieto ==
  ASSUME UNCHANGED varsMemoria
  PROVE  /\ \A c : MP!Atiende(c)' <=> MP!Atiende(c)
         /\ \A p : MP!Existe(p)' <=> MP!Existe(p)
         /\ \A p : MP!EnMarco(p)' <=> MP!EnMarco(p)
         /\ \A p : MP!EnTlb(p)' <=> MP!EnTlb(p)
         /\ \A c : MP!PuedeSumarMarco(c)' <=> MP!PuedeSumarMarco(c)
         /\ \A c, v : MP!Victima(c, v)' <=> MP!Victima(c, v)
         /\ \A v : MP!SeEnvia(v)' <=> MP!SeEnvia(v)
  BY DEF varsMemoria, MP!Atiende, MP!Existe, MP!EnMarco, MP!EnTlb, MP!PuedeSumarMarco,
         MP!Presentes, MP!Libres, MP!MarcosDe, MP!Victima, MP!Victimas, MP!ClaveReloj,
         MP!Posicion, MP!AlAlcance, MP!Clase, MP!AntesEnReloj, MP!SeEnvia

(* Nothing that a replacement under way depends on changes.                 *)
LEMMA SigueEnCurso ==
  ASSUME NEW s \in Salidas, EnCurso(s), UNCHANGED varsMemoria,
         UNCHANGED <<indefinido, dejado, pedidas>>
  PROVE  EnCurso(s)'
  BY VocabularioQuieto
     DEF EnCurso, Mudandose, ParaCrear, ParaTraer, Dejada, varsMemoria

(* The two halves meet.                                                     *)
LEMMA EmpiezaEnCurso ==
  ASSUME NEW s \in Salidas, Sale(s.p[1], s.v, s.p, s.para), MP!Atiende(s.p[1]),
         IF s.para = "crear" THEN ParaCrear(s) ELSE ParaTraer(s)
  PROVE  EnCurso(s)'
<1>1. /\ MP!Victima(s.p[1], s.v) /\ MP!EnMarco(s.v) /\ UNCHANGED varsMemoria
      /\ ~indefinido' /\ pedidas' = pedidas
      /\ Dejada(s.v)' = IF MP!SeEnvia(s.v) THEN cache[pag[s.v].marco] ELSE Nada
  BY DEF Sale, MemoriaQuieta
<1>2. Mudandose(s)'
  BY <1>1, VocabularioQuieto DEF Mudandose, varsMemoria
<1>3. IF s.para = "crear" THEN ParaCrear(s)' ELSE ParaTraer(s)'
  BY <1>1, VocabularioQuieto DEF ParaCrear, ParaTraer, varsMemoria
<1> QED BY <1>1, <1>2, <1>3 DEF EnCurso

LEMMA ConexionPaso ==
  ASSUME SwapBien, Conexion, UNCHANGED conexionSwap,
         archivo' = archivo \/ \E c \in Carpinchos : archivo' = [archivo EXCEPT ![c] = 1],
         colgado => estado' = "colgada",
         \A c \in Carpinchos : fase'[c] # "nuevo" /\ fase[c] = "nuevo" =>
            conectado /\ archivo'[c] # Nada,
         indefinido' => SP!Libres(1)' = {} /\ saliente' = Nada
  PROVE  Conexion'
<1>1. archivo \in [Carpinchos -> SP!Archivos \cup {Nada}] /\ 1 # Nada
  BY MemoriaSwampAssumption DEF SwapBien, SP!TypeOK
<1>2. \A c \in Carpinchos : archivo[c] # Nada => archivo'[c] # Nada
  BY <1>1
<1> QED BY <1>2 DEF Conexion, conexionSwap

LEMMA LibresQuietos ==
  marcosSwap' = marcosSwap => SP!Libres(1)' = SP!Libres(1)
  BY DEF SP!Libres

PasoBien == [MP!Next]_(MP!vars) /\ Enlace'

LEMMA PasoConectar ==
  ASSUME SwapChica, SwapBien, SwapBien', Enlace, Conectar
  PROVE  PasoBien
<1>1. /\ ~conectado /\ conectado' /\ casoAsignacion' = "GLOBAL" /\ colgado' = colgado
      /\ UNCHANGED <<indefinido, marcosSwap, archivo, dejado>>
  BY MismosPedidos DEF Conectar, SP!CasoAsignacion, SP!registro, SwapChica, Caso
<1>2. UNCHANGED varsMemoria /\ UNCHANGED <<pedidas, saliente>>
  BY DEF Conectar
<1>3. MemoriaQuieta
  BY <1>1, <1>2, VistoIgual DEF MemoriaQuieta
<1>4. Conexion' /\ Pedidos'
  BY <1>1, <1>2, LibresQuietos DEF Enlace, Conexion, Pedidos, varsMemoria
<1>5. EnMarcha'
  <2> SUFFICES ASSUME NEW s \in Salidas, saliente = s PROVE EnCurso(s)'
    BY <1>2 DEF Enlace, EnMarcha
  <2> QED BY <1>1, <1>2, SigueEnCurso DEF Enlace, EnMarcha
<1> QED BY <1>3, <1>4, <1>5, QuietaEsQuieta DEF PasoBien, Enlace

LEMMA PasoQuieto ==
  ASSUME SwapChica, SwapBien, SwapBien', Enlace, UNCHANGED vars
  PROVE  PasoBien
<1>1. UNCHANGED varsMemoria /\ UNCHANGED varsSwamp /\ UNCHANGED <<pedidas, saliente>>
  BY DEF vars
<1>2. MemoriaQuieta
  BY <1>1, VistoIgual DEF MemoriaQuieta, varsSwamp
<1>3. Conexion' /\ Pedidos'
  BY <1>1, LibresQuietos DEF Enlace, Conexion, Pedidos, varsMemoria, varsSwamp
<1>4. EnMarcha'
  <2> SUFFICES ASSUME NEW s \in Salidas, saliente = s PROVE EnCurso(s)'
    BY <1>1 DEF Enlace, EnMarcha
  <2> QED BY <1>1, SigueEnCurso DEF Enlace, EnMarcha, varsSwamp
<1> QED BY <1>2, <1>3, <1>4, QuietaEsQuieta DEF PasoBien, Enlace

(* Between replacements only the pages granted are left to tie.             *)
LEMMA EnlaceLibre ==
  ASSUME SwapBien, Enlace, estado = "anda", saliente' = Nada, Pedidos',
         UNCHANGED conexionSwap,
         archivo' = archivo \/ \E c \in Carpinchos : archivo' = [archivo EXCEPT ![c] = 1],
         \A c \in Carpinchos : fase'[c] # "nuevo" /\ fase[c] = "nuevo" =>
            conectado /\ archivo'[c] # Nada,
         indefinido' => SP!Libres(1)' = {}
  PROVE  Enlace'
<1>1. ~colgado
  BY DEF Enlace, Conexion
<1>2. Conexion'
  BY <1>1, ConexionPaso DEF Enlace
<1>3. EnMarcha'
  BY MemoriaSwampAssumption DEF EnMarcha
<1> QED BY <1>2, <1>3 DEF Enlace

LEMMA PasoPedir ==
  ASSUME SwapChica, SwapBien, SwapBien', MP!TypeOK, Enlace,
         NEW c \in Carpinchos, NEW n \in 1..MaxPaginas, Pedir(c, n)
  PROVE  PasoBien
<1>0. /\ estado = "anda" /\ ~indefinido /\ saliente = Nada /\ conectado
      /\ \A k \in Carpinchos : pedidas[k] = 0
      /\ fase[c] \in {"nuevo", "vivo"} /\ cantidad[c] + n <= MaxPaginas
      /\ saliente' = saliente
      /\ pedidas' = [pedidas EXCEPT ![c] = IF indefinido' THEN 0 ELSE n]
      /\ fase' = [fase EXCEPT ![c] = IF indefinido' THEN @ ELSE "vivo"]
      /\ UNCHANGED <<estado, cantidad, pag, marcos, cache, tlb, tlb_fifo_pointer,
                     algoritm_stack_pointer, contador_timestamp, contador_timestamp_tlb>>
  BY DEF Pedir, Ociosa, Libre
<1>1. SwapRevienta \/ (Conserva(c) /\ dejado' = dejado)
  BY <1>0, ConsultarEs DEF Pedir, Enlace
<1>2. EnSwapVisto' = EnSwapVisto
  BY <1>0, <1>1, VistoIgual DEF SwapRevienta
<1>3. /\ pedidas \in [Carpinchos -> Nat]
      /\ fase \in [Carpinchos -> {"nuevo", "vivo", "terminado"}]
      /\ cantidad \in [Carpinchos -> 0..MaxPaginas]
      /\ archivo \in [Carpinchos -> SP!Archivos \cup {Nada}] /\ 1 # Nada
  BY MemoriaSwampAssumption DEF Enlace, Pedidos, MP!TypeOK, SwapBien, SP!TypeOK
<1>4. CASE SwapRevienta
  <2>1. fase' = fase /\ pedidas' = pedidas
    BY <1>0, <1>3, <1>4 DEF SwapRevienta
  <2>2. MemoriaQuieta
    BY <1>0, <1>2, <2>1 DEF MemoriaQuieta, varsMemoria
  <2>3. Enlace'
    <3>1. Pedidos'
      BY <1>0, <2>1 DEF Enlace, Pedidos
    <3> QED
      BY <1>0, <1>4, <2>1, <3>1, EnlaceLibre, LibresQuietos DEF SwapRevienta
  <2> QED BY <2>2, <2>3, QuietaEsQuieta DEF PasoBien
<1>5. CASE Conserva(c) /\ dejado' = dejado
  <2>1. ~indefinido' /\ UNCHANGED conexionSwap /\ archivo' = [archivo EXCEPT ![c] = 1]
    BY <1>5 DEF Conserva
  <2>2. fase' = [fase EXCEPT ![c] = "vivo"] /\ pedidas' = [pedidas EXCEPT ![c] = n]
    BY <1>0, <2>1
  <2>3. [MP!Next]_(MP!vars)
    <3>1. CASE fase[c] = "nuevo"
      <4>1. MP!CrearCarpincho(c)
        BY <1>0, <1>2, <2>2, <3>1
           DEF MP!CrearCarpincho, MP!memoria, MP!tablaTlb, MP!relojes
      <4> QED BY <4>1 DEF MP!Next
    <3>2. CASE fase[c] = "vivo"
      <4>1. fase' = fase
        BY <1>3, <2>2, <3>2
      <4>2. MemoriaQuieta
        BY <1>0, <1>2, <4>1 DEF MemoriaQuieta, varsMemoria
      <4> QED BY <4>2, QuietaEsQuieta
    <3> QED BY <1>0, <3>1, <3>2
  <2>4. Pedidos'
    <3>1. pedidas' \in [Carpinchos -> Nat]
      BY <1>3, <2>2
    <3>2. ASSUME NEW k \in Carpinchos
          PROVE  /\ pedidas'[k] > 0 => fase'[k] = "vivo"
                 /\ cantidad'[k] + pedidas'[k] <= MaxPaginas
      BY <1>0, <1>3, <2>2, <3>2 DEF Enlace, Pedidos
    <3> QED BY <3>1, <3>2 DEF Pedidos
  <2>5. \A k \in Carpinchos : fase'[k] # "nuevo" /\ fase[k] = "nuevo" =>
           conectado /\ archivo'[k] # Nada
    BY <1>0, <1>3, <2>1, <2>2
  <2>6. Enlace'
    BY <1>0, <2>1, <2>4, <2>5, EnlaceLibre
  <2> QED BY <2>3, <2>6 DEF PasoBien
<1> QED BY <1>1, <1>4, <1>5

(* The end of the first half of a replacement.                              *)
LEMMA PasoSacar ==
  ASSUME SwapChica, SwapBien, SwapBien', MemoriaBien, Enlace, Libre,
         NEW s \in Salidas, MP!Atiende(s.p[1]),
         Sacar(s.p[1], s.p, s.para), NEW v \in Pags,
         Sale(s.p[1], v, s.p, s.para), UNCHANGED varsSwamp \/ Conserva(v[1]),
         IF s.para = "crear" THEN ParaCrear(s) ELSE ParaTraer(s)
  PROVE  PasoBien
<1> DEFINE t == [v |-> v, p |-> s.p, para |-> s.para]
<1>1. /\ t \in Salidas /\ t.v = v /\ t.p = s.p /\ t.para = s.para /\ saliente' = t
      /\ v[1] \in Carpinchos
  BY MismasPaginas DEF Salidas, Sale, Pags
<1>2. MemoriaQuieta /\ UNCHANGED varsMemoria /\ ~indefinido' /\ pedidas' = pedidas
  BY DEF Sale, MemoriaQuieta
<1>3. Sale(t.p[1], t.v, t.p, t.para) /\ MP!Atiende(t.p[1])
  BY <1>1
<1>4. IF t.para = "crear" THEN ParaCrear(t) ELSE ParaTraer(t)
  BY <1>1 DEF ParaCrear, ParaTraer
<1>5. EnCurso(t)'
  BY <1>1, <1>3, <1>4, EmpiezaEnCurso
<1>6. EnMarcha'
  <2> HIDE DEF t
  <2> SUFFICES ASSUME NEW r \in Salidas, saliente' = r PROVE EnCurso(r)'
    BY <1>1 DEF EnMarcha
  <2>1. r = t
    BY <1>1
  <2> QED BY <1>5, <2>1
<1>7. /\ UNCHANGED conexionSwap
      /\ archivo' = archivo \/ \E c \in Carpinchos : archivo' = [archivo EXCEPT ![c] = 1]
  BY <1>1 DEF varsSwamp, Conserva, conexionSwap
<1>8. Conexion'
  <2>1. ~colgado /\ fase' = fase
    BY <1>2 DEF Libre, Enlace, Conexion, varsMemoria
  <2> QED BY <1>2, <1>7, <2>1, ConexionPaso DEF Enlace
<1>9. Pedidos'
  BY <1>2 DEF Enlace, Pedidos, varsMemoria
<1> QED BY <1>2, <1>6, <1>8, <1>9, QuietaEsQuieta DEF PasoBien, Enlace

LEMMA PedidosQuietos ==
  ASSUME Pedidos, pedidas' = pedidas, cantidad' = cantidad, fase' = fase
  PROVE  Pedidos'
  BY DEF Pedidos

LEMMA PedidosGasta ==
  ASSUME MP!TypeOK, Pedidos, NEW c \in Carpinchos, pedidas[c] > 0, fase' = fase,
         pedidas' = [pedidas EXCEPT ![c] = @ - 1],
         cantidad' \in {cantidad, [cantidad EXCEPT ![c] = @ + 1]}
  PROVE  Pedidos'
<1>1. /\ pedidas \in [Carpinchos -> Nat] /\ cantidad \in [Carpinchos -> 0..MaxPaginas]
      /\ MaxPaginas \in Nat
  BY MemoriaSwampAssumption DEF Pedidos, MP!TypeOK
<1>2. pedidas' \in [Carpinchos -> Nat]
  BY <1>1
<1>3. ASSUME NEW k \in Carpinchos
      PROVE  /\ pedidas'[k] > 0 => fase'[k] = "vivo"
             /\ cantidad'[k] + pedidas'[k] <= MaxPaginas
  <2>1. CASE k = c
    BY <1>1, <2>1 DEF Pedidos
  <2>2. CASE k # c
    BY <1>1, <2>2 DEF Pedidos
  <2> QED BY <2>1, <2>2
<1> QED BY <1>2, <1>3 DEF Pedidos

(* A step of the memory alone, or one of the server that broke.             *)
LEMMA EnlaceQuieto ==
  ASSUME SwapBien, Enlace, Libre, saliente' = saliente, pedidas' = pedidas,
         cantidad' = cantidad, fase' = fase, UNCHANGED varsSwamp \/ SwapRevienta
  PROVE  Enlace'
<1>1. Pedidos'
  BY PedidosQuietos DEF Enlace
<1>2. CASE UNCHANGED varsSwamp
  <2>1. UNCHANGED conexionSwap /\ archivo' = archivo /\ indefinido' = indefinido
    BY <1>2 DEF varsSwamp, conexionSwap
  <2> QED BY <1>1, <2>1, EnlaceLibre DEF Libre
<1>3. CASE SwapRevienta
  BY <1>1, <1>3, LibresQuietos, EnlaceLibre DEF Libre, SwapRevienta
<1> QED BY <1>2, <1>3

LEMMA PaginaPedida ==
  ASSUME MP!TypeOK, Pedidos, NEW c \in Carpinchos, pedidas[c] > 0
  PROVE  cantidad[c] < MaxPaginas /\ <<c, cantidad[c] + 1>> \in Pags
<1>1. cantidad[c] \in 0..MaxPaginas /\ pedidas[c] \in Nat /\ MaxPaginas \in Nat
      /\ cantidad[c] + pedidas[c] <= MaxPaginas
  BY MemoriaSwampAssumption DEF Pedidos, MP!TypeOK
<1>2. cantidad[c] < MaxPaginas /\ cantidad[c] + 1 \in 1..MaxPaginas
  BY <1>1
<1> QED BY <1>2 DEF Pags

LEMMA PasoCrear ==
  ASSUME SwapChica, SwapBien, SwapBien', MemoriaBien, Enlace,
         NEW c \in Carpinchos, Crear(c)
  PROVE  PasoBien
<1> DEFINE p == <<c, cantidad[c] + 1>>
<1>0. /\ Libre /\ pedidas[c] > 0 /\ MP!Atiende(c) /\ cantidad[c] < MaxPaginas
      /\ p \in Pags /\ p[1] = c /\ p[2] = cantidad[c] + 1
      /\ IF MP!PuedeSumarMarco(c)
           THEN /\ UNCHANGED <<varsSwamp, saliente>>
                /\ pedidas' = [pedidas EXCEPT ![c] = @ - 1]
                /\ MP!CrearEnLibre(c, p)
           ELSE Sacar(c, p, "crear")
  BY PaginaPedida, MismoVocabulario, MismosPasos DEF Crear, MemoriaBien, Enlace
<1> HIDE DEF p
<1>1. CASE MP!PuedeSumarMarco(c)
  <2>1. fase' = fase /\ cantidad' \in {cantidad, [cantidad EXCEPT ![c] = @ + 1]}
    BY <1>0, <1>1 DEF MP!CrearEnLibre, MP!SeRompe, MP!listas, MP!AgregarPagina
  <2>2. MP!CrearPagina(c)
    BY <1>0, <1>1 DEF MP!CrearPagina, p
  <2>3. Pedidos'
    BY <1>0, <1>1, <2>1, PedidosGasta DEF Enlace, MemoriaBien
  <2>4. UNCHANGED conexionSwap /\ archivo' = archivo /\ indefinido' = indefinido
        /\ saliente' = saliente
    BY <1>0, <1>1 DEF varsSwamp, conexionSwap
  <2>5. Enlace'
    BY <1>0, <2>1, <2>3, <2>4, EnlaceLibre DEF Libre
  <2> QED BY <2>2, <2>5 DEF PasoBien, MP!Next
<1>2. CASE ~MP!PuedeSumarMarco(c)
  <2>1. Sacar(c, p, "crear")
    BY <1>0, <1>2
  <2>2. CASE SinSalida(c) /\ UNCHANGED varsSwamp
    <3>1. MP!CrearPagina(c)
      BY <1>0, <1>2, <2>2 DEF MP!CrearPagina, MP!CrearReemplazando, SinSalida
    <3>2. /\ fase' = fase /\ cantidad' = cantidad /\ pedidas' = pedidas
          /\ saliente' = saliente
      BY <2>2 DEF SinSalida, MP!SinVictima, MP!PunteroAfuera, MP!SeRompe, MP!listas
    <3>3. Enlace'
      BY <1>0, <2>2, <3>2, EnlaceQuieto
    <3> QED BY <3>1, <3>3 DEF PasoBien, MP!Next
  <2>3. ASSUME NEW v \in Pags, SaleYNoEntra(c, v), SwapRevienta PROVE PasoBien
    <3>1. MP!CrearReemplazando(c, p)
      BY <2>3, MismasPaginas DEF MP!CrearReemplazando, SaleYNoEntra
    <3>2. MP!CrearPagina(c)
      BY <1>0, <1>2, <3>1 DEF MP!CrearPagina, p
    <3>3. /\ fase' = fase /\ cantidad' = cantidad /\ pedidas' = pedidas
          /\ saliente' = saliente
      BY <2>3 DEF SaleYNoEntra, MP!SeRompe, MP!listas
    <3>4. Enlace'
      BY <1>0, <2>3, <3>3, EnlaceQuieto
    <3> QED BY <3>2, <3>4 DEF PasoBien, MP!Next
  <2>4. ASSUME NEW v \in Pags, Sale(c, v, p, "crear"), UNCHANGED varsSwamp \/ Conserva(v[1])
        PROVE  PasoBien
    <3> DEFINE s == [v |-> v, p |-> p, para |-> "crear"]
    <3>1. s \in Salidas /\ s.p = p /\ s.para = "crear" /\ s.v = v
      BY <1>0 DEF Salidas, Pags
    <3> HIDE DEF s
    <3>2. ParaCrear(s)
      BY <1>0, <1>2, <3>1 DEF ParaCrear
    <3> QED BY <1>0, <2>1, <2>4, <3>1, <3>2, PasoSacar
  <2> QED BY <1>0, <2>1, <2>2, <2>3, <2>4, SacarEs
<1> QED BY <1>1, <1>2

LEMMA PasoAcceder ==
  ASSUME SwapChica, SwapBien, SwapBien', MemoriaBien, Enlace,
         NEW p \in MP!Paginas, NEW d \in Contenidos \cup {Nada}, Acceder(p, d)
  PROVE  PasoBien
<1>0. /\ Libre /\ MP!Atiende(p[1]) /\ MP!Existe(p) /\ p \in Pags /\ p[1] \in Carpinchos
      /\ d # "crear"
  BY MismasPaginas, MismoVocabulario, MemoriaSwampAssumption DEF Acceder, Ociosa
<1>1. ASSUME MP!Acceder(p, d) PROVE MP!Next
  BY <1>1 DEF MP!Next, MP!Leer, MP!Escribir
<1>2. CASE /\ UNCHANGED <<varsSwamp, pedidas, saliente>>
           /\ MP!AccederEnTlb(p, d) \/ MP!AccederEnMarco(p, d)
  <2>1. MP!Acceder(p, d)
    BY <1>0, <1>2 DEF MP!Acceder
  <2>2. fase' = fase /\ cantidad' = cantidad
    BY <1>2 DEF MP!AccederEnTlb, MP!AccederEnMarco, MP!SeRompe, MP!Usar, MP!listas
  <2>3. Enlace'
    BY <1>0, <1>2, <2>2, EnlaceQuieto
  <2> QED BY <1>1, <2>1, <2>3 DEF PasoBien
<1>3. CASE ~MP!EnTlb(p) /\ ~MP!EnMarco(p) /\ Sacar(p[1], p, d)
  <2>1. CASE SinSalida(p[1]) /\ UNCHANGED varsSwamp
    <3>1. MP!Acceder(p, d)
      BY <1>0, <1>3, <2>1 DEF MP!Acceder, MP!AccederEnSwap, SinSalida
    <3>2. /\ fase' = fase /\ cantidad' = cantidad /\ pedidas' = pedidas
          /\ saliente' = saliente
      BY <2>1 DEF SinSalida, MP!SinVictima, MP!PunteroAfuera, MP!SeRompe, MP!listas
    <3>3. Enlace'
      BY <1>0, <2>1, <3>2, EnlaceQuieto
    <3> QED BY <1>1, <3>1, <3>3 DEF PasoBien
  <2>2. ASSUME NEW v \in Pags, SaleYNoEntra(p[1], v), SwapRevienta PROVE PasoBien
    <3>1. MP!AccederEnSwap(p, d)
      BY <1>3, <2>2, MismasPaginas DEF MP!AccederEnSwap, SaleYNoEntra
    <3>2. MP!Acceder(p, d)
      BY <1>0, <3>1 DEF MP!Acceder
    <3>3. /\ fase' = fase /\ cantidad' = cantidad /\ pedidas' = pedidas
          /\ saliente' = saliente
      BY <2>2 DEF SaleYNoEntra, MP!SeRompe, MP!listas
    <3>4. Enlace'
      BY <1>0, <2>2, <3>3, EnlaceQuieto
    <3> QED BY <1>1, <3>2, <3>4 DEF PasoBien
  <2>3. ASSUME NEW v \in Pags, Sale(p[1], v, p, d), UNCHANGED varsSwamp \/ Conserva(v[1])
        PROVE  PasoBien
    <3> DEFINE s == [v |-> v, p |-> p, para |-> d]
    <3>1. s \in Salidas /\ s.p = p /\ s.para = d /\ s.v = v
      BY <1>0 DEF Salidas, Pags
    <3> HIDE DEF s
    <3>2. ParaTraer(s)
      BY <1>0, <1>3, <3>1 DEF ParaTraer
    <3> QED BY <1>0, <1>3, <2>3, <3>1, <3>2, PasoSacar
  <2> QED BY <1>0, <1>3, <2>1, <2>2, <2>3, SacarEs
<1> QED BY <1>2, <1>3, MismoVocabulario, MismosPasos DEF Acceder

(* What a replacement under way finds when it goes on.                      *)
LEMMA SigueLaSalida ==
  ASSUME SwapChica, SwapBien, MemoriaBien, Enlace, saliente # Nada, estado = "anda"
  PROVE  /\ saliente \in Salidas /\ saliente.v \in Pags /\ saliente.p \in Pags
         /\ saliente.p[1] \in Carpinchos
         /\ EnCurso(saliente) /\ Mudandose(saliente) /\ ~indefinido
         /\ ~MP!NoEntra(saliente.v) /\ ~MP!TlbRota(saliente.v) /\ ~colgado
<1>1. saliente \in Salidas /\ EnCurso(saliente)
  BY DEF Enlace, EnMarcha
<1>2. Mudandose(saliente) /\ ~indefinido
  BY <1>1 DEF EnCurso
<1>3. /\ saliente.v \in Pags /\ saliente.p \in Pags /\ saliente.p[1] \in Carpinchos
  BY <1>1 DEF Salidas, Pags
<1>4. ~MP!TlbRota(saliente.v)
  BY <1>2, <1>3, TlbEntera DEF Mudandose, MemoriaBien
<1>5. MP!SeEnvia(saliente.v) => ~MP!SwapLleno
  <2> SUFFICES ASSUME MP!SeEnvia(saliente.v) PROVE ~MP!SwapLleno
    OBVIOUS
  <2>1. Dejada(saliente.v) = cache[pag[saliente.v].marco]
    BY <1>2 DEF Mudandose
  <2>2. Dejada(saliente.v) # Nada
    BY <1>3, <2>1, CacheGuardable, MemoriaSwampAssumption DEF Guardables, MemoriaBien
  <2> QED BY <1>3, <2>2, SwapConLugar
<1>6. ~colgado
  BY DEF Enlace, Conexion
<1> QED BY <1>1, <1>2, <1>3, <1>4, <1>5, <1>6 DEF MP!NoEntra

LEMMA PasoOcupar ==
  ASSUME SwapChica, SwapBien, SwapBien', MemoriaBien, Enlace, Ocupar
  PROVE  PasoBien
<1> DEFINE v == saliente.v
           p == saliente.p
           c == p[1]
<1>0. saliente # Nada /\ estado = "anda" /\ saliente.para = "crear"
  BY DEF Ocupar
<1>1. /\ EnCurso(saliente) /\ Mudandose(saliente) /\ ~indefinido
      /\ v \in Pags /\ p \in Pags /\ c \in Carpinchos
      /\ ~MP!NoEntra(v) /\ ~MP!TlbRota(v)
  BY <1>0, SigueLaSalida
<1>2. /\ UNCHANGED varsSwamp /\ saliente' = Nada
      /\ pedidas' = [pedidas EXCEPT ![c] = @ - 1] /\ MP!Reemplazar(c, p, v)
  BY <1>1, MismoVocabulario, MismosPasos DEF Ocupar
<1>3. /\ MP!Atiende(c) /\ MP!Victima(c, v) /\ ~MP!PuedeSumarMarco(c)
      /\ p[2] = cantidad[c] + 1 /\ pedidas[c] > 0
  BY <1>0, <1>1 DEF EnCurso, Mudandose, ParaCrear
<1>4. p = <<c, cantidad[c] + 1>> /\ cantidad[c] < MaxPaginas
  BY <1>1, <1>3, MismasPaginas, PaginaPedida DEF Enlace, MemoriaBien
<1>5. EnSwapVisto' = MP!SwapCon(v)
  BY <1>0, <1>1, <1>2, VistoOcupa DEF MemoriaBien, varsSwamp
<1>6. fase' = fase /\ cantidad' \in {cantidad, [cantidad EXCEPT ![c] = @ + 1]}
  BY <1>2 DEF MP!Reemplazar, MP!AgregarPagina
<1>7. UNCHANGED conexionSwap /\ archivo' = archivo /\ indefinido' = indefinido
  BY <1>2 DEF varsSwamp, conexionSwap
<1> HIDE DEF v, p, c
<1>8. MP!CrearReemplazando(c, p)
  BY <1>1, <1>2, <1>3, <1>5, MismasPaginas DEF MP!CrearReemplazando
<1>9. MP!CrearPagina(c)
  BY <1>3, <1>4, <1>8 DEF MP!CrearPagina
<1>10. Pedidos'
  BY <1>1, <1>2, <1>3, <1>6, PedidosGasta DEF Enlace, MemoriaBien
<1>11. Enlace'
  BY <1>0, <1>1, <1>2, <1>6, <1>7, <1>10, EnlaceLibre
<1> QED BY <1>1, <1>9, <1>11 DEF PasoBien, MP!Next

LEMMA PasoTraer ==
  ASSUME SwapChica, SwapBien, SwapBien', MemoriaBien, Enlace, Traer
  PROVE  PasoBien
<1> DEFINE v == saliente.v
           p == saliente.p
           d == saliente.para
<1>0. saliente # Nada /\ estado = "anda" /\ d # "crear"
  BY DEF Traer
<1>1. /\ EnCurso(saliente) /\ Mudandose(saliente) /\ ~indefinido /\ ~colgado
      /\ v \in Pags /\ p \in Pags /\ p[1] \in Carpinchos /\ saliente \in Salidas
      /\ ~MP!NoEntra(v) /\ ~MP!TlbRota(v)
  BY <1>0, SigueLaSalida
<1>2. /\ MP!Atiende(p[1]) /\ MP!Victima(p[1], v) /\ MP!EnMarco(v)
      /\ MP!Existe(p) /\ ~MP!EnTlb(p) /\ ~MP!EnMarco(p) /\ p # v
  BY <1>0, <1>1 DEF EnCurso, Mudandose, ParaTraer
<1>3. d \in Contenidos \cup {Nada}
  BY <1>0, <1>1 DEF Salidas
<1>4. EnSwapVisto[p] = Vuelve(p)
  BY <1>0, <1>1, <1>2, VistoCampos
<1>5. ASSUME MP!AccederEnSwap(p, d) PROVE MP!Next
  <2>1. MP!Acceder(p, d)
    BY <1>2, <1>5 DEF MP!Acceder
  <2> QED BY <1>1, <1>3, <2>1, MismasPaginas DEF MP!Next, MP!Leer, MP!Escribir
<1>6. ~S!LeerDesconocido(p[1])
  <2>1. archivo[p[1]] # Nada
    BY <1>1, <1>2 DEF MP!Atiende, Enlace, Conexion
  <2> QED BY <2>1, MismosPedidos DEF SP!LeerDesconocido
<1>7. ASSUME NEW l \in S!Lugares, S!LeerPagina(p[1], p[2], l), saliente' = Nada,
             pedidas' = pedidas, MP!Cargar(p, d, v, Recibido(p, l))
      PROVE  PasoBien
  <2>1. /\ Dejada(p) # Nada /\ Recibido(p, l) = Vuelve(p)
        /\ dejado' = [dejado EXCEPT ![p[1]][p[2]] = Nada]
        /\ UNCHANGED <<indefinido, conexionSwap, archivo>>
    BY <1>1, <1>7, LeerPaginaEs
  <2>2. EnSwapVisto[p] # Nada /\ Recibido(p, l) = EnSwapVisto[p]
    BY <1>1, <1>4, <2>1, VistoCampos
  <2>3. EnSwapVisto' = [MP!SwapCon(v) EXCEPT ![p] = Nada]
    BY <1>0, <1>1, <1>7, <2>1, VistoTrae DEF MemoriaBien
  <2>4. fase' = fase /\ cantidad' = cantidad
    BY <1>7 DEF MP!Cargar, MP!Usar, MP!listas
  <2>5. Enlace'
    <3>1. Pedidos'
      BY <1>7, <2>4, PedidosQuietos DEF Enlace
    <3> QED BY <1>0, <1>1, <1>7, <2>1, <2>4, <3>1, EnlaceLibre
  <2> HIDE DEF v, p, d
  <2>6. MP!TraerDeSwap(p, d, v)
    BY <1>1, <1>7, <2>2, <2>3 DEF MP!TraerDeSwap
  <2>7. MP!AccederEnSwap(p, d)
    BY <1>1, <1>2, <2>2, <2>6, MismasPaginas DEF MP!AccederEnSwap
  <2> QED BY <1>5, <2>5, <2>7 DEF PasoBien
<1>8. ASSUME S!LeerAusente(p[1], p[2]), estado' = "colgada",
             UNCHANGED <<fase, cantidad, pag, marcos, cache, tlb, tlb_fifo_pointer,
                         algoritm_stack_pointer, contador_timestamp,
                         contador_timestamp_tlb, pedidas, saliente>>
      PROVE  PasoBien
  <2>1. /\ Dejada(p) = Nada /\ colgado'
        /\ UNCHANGED <<indefinido, conectado, casoAsignacion, archivo, dejado>>
    BY <1>1, <1>8, LeerAusenteEs
  <2>2. EnSwapVisto[p] = Nada
    BY <1>4, <2>1 DEF Vuelve
  <2>3. EnSwapVisto' = EnSwapVisto
    BY <1>8, <2>1, VistoIgual
  <2>4. MP!SeRompe("colgada")
    BY <1>8, <2>3 DEF MP!SeRompe, MP!listas, MP!memoria, MP!tablaTlb, MP!relojes
  <2>5. Conexion'
    BY <1>1, <1>8, <2>1 DEF Enlace, Conexion
  <2>6. Pedidos'
    BY <1>8, PedidosQuietos DEF Enlace
  <2>7. EnMarcha'
    <3> SUFFICES ASSUME NEW s \in Salidas, saliente' = s PROVE EnCurso(s)'
      BY <1>1, <1>8 DEF EnMarcha
    <3> QED BY <1>1, <1>8, <2>1 DEF EnCurso
  <2> HIDE DEF v, p, d
  <2>8. MP!AccederEnSwap(p, d)
    BY <1>1, <1>2, <2>2, <2>4, MismasPaginas DEF MP!AccederEnSwap
  <2> QED BY <1>5, <2>5, <2>6, <2>7, <2>8 DEF PasoBien, Enlace
<1> QED
  BY <1>1, <1>6, <1>7, <1>8, MismoVocabulario, MismosPasos DEF Traer

LEMMA PasoTerminar ==
  ASSUME SwapBien, MP!TypeOK, Enlace, NEW c \in Carpinchos, Terminar(c)
  PROVE  PasoBien
<1>1. /\ Libre /\ MP!Terminar(c) /\ UNCHANGED <<varsSwamp, pedidas, saliente>>
      /\ \A k \in Carpinchos : pedidas[k] = 0
  BY MismosPasos DEF Terminar, Ociosa
<1>2. /\ fase[c] = "vivo" /\ fase' = [fase EXCEPT ![c] = "terminado"]
      /\ cantidad' = [cantidad EXCEPT ![c] = 0]
      /\ fase \in [Carpinchos -> {"nuevo", "vivo", "terminado"}]
      /\ cantidad \in [Carpinchos -> 0..MaxPaginas] /\ MaxPaginas \in Nat
  BY <1>1, MemoriaSwampAssumption DEF MP!Terminar, MP!TypeOK
<1>3. Pedidos'
  BY <1>1, <1>2 DEF Enlace, Pedidos
<1>4. UNCHANGED conexionSwap /\ archivo' = archivo /\ indefinido' = indefinido
  BY <1>1 DEF varsSwamp, conexionSwap
<1>5. Enlace'
  BY <1>1, <1>2, <1>3, <1>4, EnlaceLibre DEF Libre
<1> QED BY <1>1, <1>5 DEF PasoBien, MP!Next

LEMMA PasoConjunto ==
  ASSUME SwapChica, SwapBien, SwapBien', MemoriaBien, Enlace, [Next]_vars
  PROVE  PasoBien
<1>1. MP!TypeOK /\ Mem!Paginas = MP!Paginas
  BY MismasPaginas DEF MemoriaBien
<1> QED
  BY <1>1, PasoConectar, PasoOcupar, PasoTraer, PasoCrear, PasoTerminar, PasoPedir,
     PasoAcceder, PasoQuieto DEF Next

LEMMA BienPaso ==
  ASSUME SwapChica, Bien, [Next]_vars
  PROVE  Bien' /\ [MP!Next]_(MP!vars)
<1>1. SwapBien'
  BY SwapBienPaso DEF Bien, MemoriaBien
<1>2. PasoBien
  BY <1>1, PasoConjunto DEF Bien
<1>3. MemoriaBien'
  <2>1. MP!TypeOK'
    BY <1>2, MP!TiposPaso, SuponePaginacion DEF PasoBien, Bien, MemoriaBien
  <2>2. MP!TlbAlDia'
    BY <1>2, MP!TlbPaso, SuponePaginacion DEF PasoBien, Bien, MemoriaBien
  <2>3. MP!Lugares'
    BY <1>2, <2>1, MP!LugaresPaso, SuponePaginacion DEF PasoBien, Bien, MemoriaBien
  <2>4. MP!Separadas'
    BY <1>2, MP!SeparadasPaso, SuponePaginacion DEF PasoBien, Bien, MemoriaBien
  <2> QED BY <2>1, <2>2, <2>3, <2>4 DEF MemoriaBien
<1> QED BY <1>1, <1>2, <1>3 DEF Bien, PasoBien

-----------------------------------------------------------------------------
(* The invariant, and what follows from it *)

LEMMA BienAlEmpezar ==
  ASSUME SwapChica, Init
  PROVE  Bien /\ MP!Init /\ SP!Init
<1>1. MP!Init /\ SP!Init
  BY MismoComienzo, MismaEspecificacionSwap DEF Init
<1>2. SwapBien
  <2>1. SP!TypeOK
    BY <1>1, SP!TiposIniciales, SuponeSwamp
  <2>2. SP!MarcosDeRegistrados
    BY <1>1 DEF SP!Init, SP!MarcosDeRegistrados
  <2>3. SP!Guardado
    BY <1>1, SuponeSwamp DEF SP!SwampAssumption, SP!Init, SP!Guardado, SP!EsDe
  <2> QED BY <2>1, <2>2, <2>3 DEF SwapBien
<1>3. MemoriaBien
  <2>1. MP!TypeOK
    BY <1>1, MP!TiposIniciales, SuponePaginacion
  <2>2. MP!TlbAlDia
    BY <1>1 DEF MP!Init, MP!TlbAlDia
  <2>3. MP!Lugares
    BY <1>1, MP!LugaresAlEmpezar, SuponePaginacion
  <2>4. MP!Separadas
    BY <1>1 DEF MP!Init, MP!Separadas, MP!UnMarcoPorPagina
  <2> QED BY <2>1, <2>2, <2>3, <2>4 DEF MemoriaBien
<1>4. Conexion
  BY <1>1 DEF SP!Init, MP!Init, Conexion
<1>5. Pedidos
  <2>1. pedidas = [c \in Carpinchos |-> 0] /\ cantidad = [c \in Carpinchos |-> 0]
    BY <1>1 DEF Init, MP!Init
  <2> QED BY <2>1, MemoriaSwampAssumption DEF Pedidos
<1>6. EnMarcha
  BY MemoriaSwampAssumption DEF Init, EnMarcha
<1> QED BY <1>1, <1>2, <1>3, <1>4, <1>5, <1>6 DEF Bien, Enlace

(* The invariant holds always, and the memory is one with an ideal swap.    *)
LEMMA BienSiempre ==
  ASSUME SwapChica
  PROVE  Spec => []Bien /\ MP!Spec
<1>1. Init => Bien /\ MP!Init
  BY BienAlEmpezar
<1>2. Bien /\ [Next]_vars => Bien' /\ [MP!Next]_(MP!vars)
  BY BienPaso
<1> QED BY <1>1, <1>2, PTL DEF Spec, MP!Spec

(* The server is the swap Paginacion supposes: puede_escribir_en_swap,      *)
(* escribir_swap and leer_swap, with the answers nobody looks at, do to the *)
(* memory what a store of N pages does that hands over what it was given    *)
(* and dies of the page too many.                                           *)
THEOREM MemoriaSwampIdeal ==
  ASSUME SwapChica
  PROVE  Spec => SwapIdeal
  BY BienSiempre, MismaEspecificacion, PTL DEF SwapIdeal

(* And the memory is a client Swamp supposes: it writes no page it has left *)
(* in the swap already, and asks for none before it is connected, so all    *)
(* that is proved of the server holds with this memory in front of it.      *)
THEOREM MemoriaSwampServidor ==
  ASSUME SwapChica
  PROVE  Spec => S!Spec
<1>1. Init => S!Init
  BY DEF Init
<1>2. Bien /\ [Next]_vars => [S!Next]_(S!vars)
  BY SwapPaso, MismaEspecificacionSwap DEF Bien, MemoriaBien
<1> QED BY <1>1, <1>2, BienSiempre, PTL DEF Spec, S!Spec

(* get_marco_de_tlb translates to the page's frame, and no page has two     *)
(* entries, with the real server behind.                                    *)
THEOREM MemoriaSwampTlb ==
  ASSUME SwapChica
  PROVE  Spec => []TlbCoherente
<1>1. MP!Spec => []MP!TlbCoherente
  BY MP!PaginacionTlbCoherente, SuponePaginacion
<1>2. MP!TlbCoherente => TlbCoherente
  BY DEF TlbCoherente, Mem!TlbCoherente, MP!TlbCoherente, Mem!TlbAlDia, MP!TlbAlDia,
         Mem!Entradas, MP!Entradas, Mem!Marcos, MP!Marcos
<1> QED BY <1>1, <1>2, BienSiempre, PTL

(* Under LRU the memory never waits for a page leer_swap does not find      *)
(* (swamp.c:652).                                                           *)
THEOREM MemoriaSwampContesta ==
  ASSUME SwapChica
  PROVE  Spec => []SiempreContesta
<1>1. Init => SiempreContesta
  BY BienAlEmpezar DEF MP!Init, SiempreContesta
<1>2. Bien /\ SiempreContesta /\ [Next]_vars => SiempreContesta'
  <2> SUFFICES ASSUME Bien, [Next]_vars, ALGORITMO_REEMPLAZO_MMU = "LRU",
                      estado # "colgada"
               PROVE  estado' # "colgada"
    BY DEF SiempreContesta, Caso, SwapChica
  <2>1. [MP!Next]_(MP!vars)
    BY BienPaso
  <2> QED BY <2>1, MP!ContestaPaso, SuponePaginacion DEF Bien, MemoriaBien
<1> QED BY <1>1, <1>2, BienSiempre, PTL DEF Spec

(* When no frame is free, each holds a page of its own.                     *)
LEMMA MarcosLlenos ==
  ASSUME MemoriaBien, MP!Libres = {}
  PROVE  /\ IsFiniteSet(EnMemoria) /\ Cardinality(EnMemoria) = MARCOS
         /\ \A p \in EnMemoria : p \in MP!Paginas /\ MP!EnMarco(p)
<1> DEFINE M == 0..(MARCOS - 1)
<1>1. /\ marcos \in [M -> MP!Paginas \cup {Nada}] /\ \A f \in M : marcos[f] # Nada
  BY DEF MemoriaBien, MP!TypeOK, MP!Libres, MP!Marcos
<1>2. EnMemoria = {marcos[f] : f \in M}
  BY <1>1 DEF EnMemoria, Mem!Marcos
<1>3. marcos \in Injection(M, EnMemoria)
  <2>1. marcos \in [M -> EnMemoria]
    BY <1>1, <1>2
  <2>2. \A f, g \in M : marcos[f] = marcos[g] => f = g
    BY <1>1 DEF MemoriaBien, MP!Separadas, MP!UnMarcoPorPagina, MP!Marcos
  <2> QED BY <2>1, <2>2 DEF Injection, IsInjective
<1>4. marcos \in Surjection(M, EnMemoria)
  BY <1>2, <1>3 DEF Injection, Surjection
<1>5. ExistsBijection(M, EnMemoria)
  BY <1>3, <1>4 DEF ExistsBijection, Bijection
<1>6. IsFiniteSet(M) /\ Cardinality(M) = MARCOS
  <2>1. 0 \in Int /\ MARCOS - 1 \in Int
        /\ (IF 0 > MARCOS - 1 THEN 0 ELSE MARCOS - 1 - 0 + 1) = MARCOS
    BY MemoriaSwampAssumption
  <2> QED BY <2>1, FS_Interval
<1>7. \A p \in EnMemoria : p \in MP!Paginas /\ MP!EnMarco(p)
  BY <1>1, <1>2 DEF MP!EnMarco, MP!Marcos
<1> QED BY <1>5, <1>6, <1>7, FS_Bijection

(* Nobody honours the answer of puede_escribir_en_swap (memory.c:1897), and *)
(* yet the server breaks only when every frame of the memory and every      *)
(* frame of its file holds a page of its own.                               *)
THEOREM MemoriaSwampMuereLleno ==
  ASSUME SwapChica
  PROVE  Spec => []MuereLleno
<1>1. Bien => MuereLleno
  <2> SUFFICES ASSUME Bien, indefinido
               PROVE  /\ EnMemoria \cap EnElSwap = {}
                      /\ Cardinality(EnMemoria \cup EnElSwap) = MARCOS + N
    BY DEF MuereLleno
  <2>1. SP!Libres(1) = {} /\ saliente = Nada
    BY DEF Bien, Enlace, Conexion
  <2>2. /\ Cardinality(Dejadas) = N
        /\ Dejadas = {p \in MP!Paginas : EnSwapVisto[p] # Nada}
    BY <2>1, SwapColmado DEF Bien
  <2>3. EnElSwap = Dejadas
    BY <2>2, MismasPaginas DEF EnElSwap
  <2>4. IsFiniteSet(Dejadas)
    BY CuentaSwap DEF Bien
  <2>5. Dejadas # {}
    BY <2>2, FS_EmptySet, MemoriaSwampAssumption
  <2>6. MP!Libres = {}
    BY <2>2, <2>5 DEF Bien, MemoriaBien, MP!Separadas, SwapChica
  <2>7. /\ IsFiniteSet(EnMemoria) /\ Cardinality(EnMemoria) = MARCOS
        /\ \A p \in EnMemoria : p \in MP!Paginas /\ MP!EnMarco(p)
    BY <2>6, MarcosLlenos DEF Bien
  <2>8. EnMemoria \cap EnElSwap = {}
    BY <2>2, <2>3, <2>7 DEF Bien, MemoriaBien, MP!Separadas
  <2>9. Cardinality(EnMemoria \cup EnElSwap) =
          Cardinality(EnMemoria) + Cardinality(Dejadas) - Cardinality(EnMemoria \cap EnElSwap)
    BY <2>3, <2>4, <2>7, FS_Union
  <2>10. Cardinality(EnMemoria \cap EnElSwap) = 0
    BY <2>8, FS_EmptySet
  <2>11. MARCOS \in Int /\ N \in Int
    BY MemoriaSwampAssumption
  <2>12. Cardinality(EnMemoria \cup EnElSwap) = MARCOS + N
    BY <2>2, <2>7, <2>9, <2>10, <2>11
  <2> QED BY <2>8, <2>12
<1> QED BY <1>1, BienSiempre, PTL

(* The flat memory of the two is one. *)
LEMMA MismaPlana == MP!P!Spec <=> Mem!P!Spec
<1>1. /\ MP!P!Init <=> Mem!P!Init
      /\ [MP!P!Next]_(MP!P!planaVars) <=> [Mem!P!Next]_(Mem!P!planaVars)
  BY DEF MP!P!Init, Mem!P!Init, MP!P!Next, Mem!P!Next, MP!P!planaVars, Mem!P!planaVars,
         MP!P!Crear, Mem!P!Crear, MP!P!Escribir, Mem!P!Escribir, MP!P!Terminar,
         Mem!P!Terminar, MP!P!Numeros, Mem!P!Numeros, MP!Guarda, Mem!Guarda,
         MP!Existe, Mem!Existe, MP!Numeros, Mem!Numeros
<1> QED BY <1>1, PTL DEF MP!P!Spec, Mem!P!Spec

(* End to end: when fgets gives every page back whole, escribir_en_pagina   *)
(* and leer_en_pagina behave as a flat memory, through frames, TLB,         *)
(* replacements and the server's file.                                      *)
THEOREM MemoriaSwampPlana ==
  ASSUME SwapChica, Enteros = Contenidos \cup {Vacio}
  PROVE  Spec => MemoriaPlana
<1>1. MP!Spec => MP!MemoriaPlana
  BY MP!PaginacionPlana, SuponePaginacion
<1> QED BY <1>1, MismaPlana, BienSiempre, PTL DEF MemoriaPlana, MP!MemoriaPlana
=============================================================================
