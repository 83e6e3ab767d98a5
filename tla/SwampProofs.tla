----------------------------- MODULE SwampProofs -----------------------------
(* What is proved of Swamp for every number of carpinchos, pages, files and *)
(* frames.                                                                  *)
EXTENDS Swamp, FiniteSetTheorems, TLAPS

LEMMA LugaresNoVacios == \A a \in Archivos, m \in Numeros : <<a, m>> \in Lugares
  BY DEF Lugares

LEMMA NadaNoEsArchivo == Nada \notin Archivos
  BY SwampAssumption DEF Archivos

-----------------------------------------------------------------------------
(* Types *)

LEMMA TiposIniciales == Init => TypeOK
<1> SUFFICES ASSUME Init PROVE TypeOK
  OBVIOUS
<1>1. marcos \in [Lugares -> [indice : Paginas \cup {Nada}, pid : PIDs \cup {Nada}]]
  BY DEF Init
<1>2. carpinchos \in Seq(PIDs)
  BY DEF Init
<1>3. enSwap \in [PIDs -> [Paginas -> Datos \cup {Nada}]]
  BY DEF Init
<1>4. permiso \in [PIDs -> Nat] /\ cantMarcos \in [PIDs -> Int]
  BY DEF Init
<1>5. /\ archivo \in [PIDs -> Archivos \cup {Nada}]
      /\ disco \in [Lugares -> Datos \cup {Cero, Basura}]
  BY DEF Init
<1> QED
  BY <1>1, <1>2, <1>3, <1>4, <1>5 DEF Init, TypeOK

LEMMA TiposLista ==
  ASSUME TypeOK, NEW p \in PIDs, NEW a \in Archivos
  PROVE  ListaCon(p) \in Seq(PIDs) /\ ArchivoCon(p, a) \in [PIDs -> Archivos \cup {Nada}]
  BY DEF TypeOK, ListaCon, ArchivoCon

LEMMA TiposPuedeEscribir ==
  ASSUME TypeOK, NEW p \in PIDs, NEW a \in Archivos, NEW n \in 1..(N + 1),
         PuedeEscribir(p, a, n)
  PROVE  TypeOK'
<1>1. CASE PuedeEscribirRompe(p, a)
  BY <1>1 DEF PuedeEscribirRompe, SeRompe, registro, TypeOK
<1>2. CASE PuedeEscribirResponde(p, a, n)
  <2>1. carpinchos' \in Seq(PIDs) /\ archivo' \in [PIDs -> Archivos \cup {Nada}]
    <3>1. CASE casoAsignacion = "GLOBAL"
      BY <1>2, <3>1, TiposLista
         DEF PuedeEscribirResponde, ListaConsulta, ArchivoConsulta
    <3>2. CASE casoAsignacion # "GLOBAL"
      BY <1>2, <3>2
         DEF PuedeEscribirResponde, ListaConsulta, ArchivoConsulta, TypeOK
    <3> QED
      BY <3>1, <3>2
  <2>2. n \in Nat
    BY SwampAssumption
  <2>3. permiso' \in [PIDs -> Nat]
    <3> DEFINE x == IF /\ AsignacionPermite(p, ListaConsulta(p), ArchivoConsulta(p, a))
                       /\ HayPaginas(a, n) THEN n ELSE 0
    <3>1. x \in Nat
      BY <2>2
    <3>2. permiso' = [permiso EXCEPT ![p] = x]
      BY <1>2 DEF PuedeEscribirResponde
    <3> HIDE DEF x
    <3> QED
      BY <3>1, <3>2 DEF TypeOK
  <2> QED
    BY <1>2, <2>1, <2>3 DEF PuedeEscribirResponde, TypeOK
<1> QED
  BY <1>1, <1>2 DEF PuedeEscribir

LEMMA TiposEscribir ==
  ASSUME TypeOK, NEW p \in PIDs, NEW a \in Archivos, NEW g \in Paginas,
         NEW d \in Datos, Escribir(p, a, g, d)
  PROVE  TypeOK'
<1>1. CASE EscribirRompe(p, a)
  BY <1>1 DEF EscribirRompe, SeRompe, registro, TypeOK
<1>2. CASE EscribirRechaza(p, a)
  BY <1>2, TiposLista DEF EscribirRechaza, TypeOK
<1>3. ASSUME NEW m \in Numeros, EscribirAcepta(p, a, m, g, d)
      PROVE  TypeOK'
  <2>1. carpinchos' \in Seq(PIDs) /\ archivo' \in [PIDs -> Archivos \cup {Nada}]
    BY <1>3, TiposLista DEF EscribirAcepta
  <2>2. marcos' \in [Lugares -> [indice : Paginas \cup {Nada}, pid : PIDs \cup {Nada}]]
    BY <1>3, LugaresNoVacios DEF EscribirAcepta, Actualizar, TypeOK
  <2>3. disco' \in [Lugares -> Datos \cup {Cero, Basura}]
    BY <1>3 DEF EscribirAcepta, Escrito, TypeOK
  <2>4. cantMarcos' \in [PIDs -> Int]
    BY <1>3 DEF EscribirAcepta, TypeOK
  <2>5. enSwap' \in [PIDs -> [Paginas -> Datos \cup {Nada}]]
    BY <1>3 DEF EscribirAcepta, TypeOK
  <2>6. permiso' \in [PIDs -> Nat]
    BY <1>3 DEF EscribirAcepta, TypeOK
  <2> QED
    BY <1>3, <2>1, <2>2, <2>3, <2>4, <2>5, <2>6 DEF EscribirAcepta, TypeOK
<1> QED
  BY <1>1, <1>2, <1>3 DEF Escribir

LEMMA TiposLeer ==
  ASSUME TypeOK, NEW p \in PIDs, NEW g \in Paginas, Leer(p, g)
  PROVE  TypeOK'
<1>1. ASSUME NEW l \in Lugares, LeerPagina(p, g, l)
      PROVE  TypeOK'
  <2>1. marcos' \in [Lugares -> [indice : Paginas \cup {Nada}, pid : PIDs \cup {Nada}]]
    <3>1. CASE marcos' = marcos
      BY <3>1 DEF TypeOK
    <3>2. CASE marcos' = Actualizar(archivo[p], Indice(l), Nada, p)
      BY <3>2 DEF Actualizar, TypeOK
    <3> QED
      BY <1>1, <3>1, <3>2 DEF LeerPagina
  <2>2. cantMarcos' \in [PIDs -> Int]
    BY <1>1 DEF LeerPagina, TypeOK
  <2>3. enSwap' \in [PIDs -> [Paginas -> Datos \cup {Nada}]]
    BY <1>1 DEF LeerPagina, TypeOK
  <2> QED
    BY <1>1, <2>1, <2>2, <2>3 DEF LeerPagina, TypeOK
<1>2. CASE LeerAusente(p, g)
  BY <1>2 DEF LeerAusente, registro, TypeOK
<1>3. CASE LeerDesconocido(p)
  BY <1>3 DEF LeerDesconocido, SeRompe, registro, TypeOK
<1> QED
  BY <1>1, <1>2, <1>3 DEF Leer

LEMMA TiposPaso == TypeOK /\ [Next]_vars => TypeOK'
<1> SUFFICES ASSUME TypeOK, [Next]_vars PROVE TypeOK'
  OBVIOUS
<1>1. CASE CasoAsignacion
  BY <1>1, SwampAssumption DEF CasoAsignacion, registro, TypeOK
<1>2. CASE UNCHANGED vars
  BY <1>2 DEF vars, registro, TypeOK
<1> QED
  BY <1>1, <1>2, TiposPuedeEscribir, TiposEscribir, TiposLeer DEF Next

(* swamp.h: every field of the frame list and of the carpincho list keeps  *)
(* to its type, for any number of files and frames.                        *)
THEOREM SwampTipos == Spec => []TypeOK
  BY TiposIniciales, TiposPaso, PTL DEF Spec

-----------------------------------------------------------------------------
(* The file of a carpincho *)

(* recibirPagina never moves a carpincho that has a file.                  *)
LEMMA NadieSeMuda ==
  ASSUME TypeOK, NEW p \in PIDs, NEW a \in Archivos, Destino(p, a)
  PROVE  \A q \in PIDs : archivo[q] # Nada => ArchivoCon(p, a)[q] = archivo[q]
  BY DEF TypeOK, Destino, ArchivoCon

(* The frames stay and no carpincho moves: enough for the invariant.       *)
LEMMA SinMarcosNuevos ==
  ASSUME MarcosDeRegistrados, marcos' = marcos,
         \A q \in PIDs : archivo[q] # Nada => archivo'[q] = archivo[q]
  PROVE  MarcosDeRegistrados'
<1> SUFFICES ASSUME NEW l \in Lugares, marcos[l].indice # Nada
             PROVE  marcos[l].pid \in PIDs /\ archivo'[marcos[l].pid] = l[1]
  BY DEF MarcosDeRegistrados
<1>1. marcos[l].pid \in PIDs /\ archivo[marcos[l].pid] = l[1]
  BY DEF MarcosDeRegistrados
<1>2. l[1] # Nada
  BY NadaNoEsArchivo DEF Lugares
<1> QED
  BY <1>1, <1>2

LEMMA RegistradosPaso ==
  ASSUME TypeOK, MarcosDeRegistrados, [Next]_vars
  PROVE  MarcosDeRegistrados'
<1>1. CASE CasoAsignacion
  BY <1>1, SinMarcosNuevos, NadaNoEsArchivo DEF CasoAsignacion, registro
<1>2. ASSUME NEW p \in PIDs, NEW a \in Archivos, NEW n \in 1..(N + 1),
             PuedeEscribir(p, a, n)
      PROVE  MarcosDeRegistrados'
  <2>1. CASE PuedeEscribirRompe(p, a)
    BY <2>1, SinMarcosNuevos, NadaNoEsArchivo
       DEF PuedeEscribirRompe, SeRompe, registro
  <2>2. CASE PuedeEscribirResponde(p, a, n)
    BY <1>2, <2>2, SinMarcosNuevos, NadieSeMuda, NadaNoEsArchivo
       DEF PuedeEscribir, PuedeEscribirResponde, ArchivoConsulta
  <2> QED
    BY <1>2, <2>1, <2>2 DEF PuedeEscribir
<1>3. ASSUME NEW p \in PIDs, NEW a \in Archivos, NEW g \in Paginas,
             NEW d \in Datos, Escribir(p, a, g, d)
      PROVE  MarcosDeRegistrados'
  <2>1. CASE EscribirRompe(p, a)
    BY <2>1, SinMarcosNuevos, NadaNoEsArchivo DEF EscribirRompe, SeRompe, registro
  <2>2. CASE EscribirRechaza(p, a)
    BY <1>3, <2>2, SinMarcosNuevos, NadieSeMuda, NadaNoEsArchivo
       DEF Escribir, EscribirRechaza
  <2>3. ASSUME NEW m \in Numeros, EscribirAcepta(p, a, m, g, d)
        PROVE  MarcosDeRegistrados'
    <3> SUFFICES ASSUME NEW l \in Lugares, marcos'[l].indice # Nada
                 PROVE  marcos'[l].pid \in PIDs /\ archivo'[marcos'[l].pid] = l[1]
      BY DEF MarcosDeRegistrados
    <3>1. archivo' = ArchivoCon(p, a) /\ marcos' = Actualizar(a, m, g, p)
      BY <2>3 DEF EscribirAcepta
    <3>2. CASE l = <<a, m>>
      <4>1. marcos'[l].pid = p
        BY <3>1, <3>2, LugaresNoVacios DEF Actualizar, TypeOK
      <4> QED
        BY <3>1, <3>2, <4>1 DEF ArchivoCon, TypeOK
    <3>3. CASE l # <<a, m>>
      <4>1. marcos'[l] = marcos[l]
        BY <3>1, <3>3 DEF Actualizar, TypeOK
      <4>2. marcos[l].pid \in PIDs /\ archivo[marcos[l].pid] = l[1]
        BY <4>1 DEF MarcosDeRegistrados
      <4>3. l[1] # Nada
        BY NadaNoEsArchivo DEF Lugares
      <4> QED
        BY <1>3, <3>1, <4>1, <4>2, <4>3, NadieSeMuda DEF Escribir
    <3> QED
      BY <3>2, <3>3
  <2> QED
    BY <1>3, <2>1, <2>2, <2>3 DEF Escribir
<1>4. ASSUME NEW p \in PIDs, NEW g \in Paginas, Leer(p, g)
      PROVE  MarcosDeRegistrados'
  <2>1. ASSUME NEW l \in Lugares, LeerPagina(p, g, l)
        PROVE  MarcosDeRegistrados'
    <3>1. CASE marcos' = marcos
      BY <2>1, <3>1, SinMarcosNuevos, NadaNoEsArchivo DEF LeerPagina
    <3>2. CASE marcos' = Actualizar(archivo[p], Indice(l), Nada, p)
      BY <2>1, <3>2 DEF LeerPagina, Actualizar, MarcosDeRegistrados, TypeOK
    <3> QED
      BY <2>1, <3>1, <3>2 DEF LeerPagina
  <2>2. CASE LeerAusente(p, g)
    BY <2>2, SinMarcosNuevos, NadaNoEsArchivo DEF LeerAusente, registro
  <2>3. CASE LeerDesconocido(p)
    BY <2>3, SinMarcosNuevos, NadaNoEsArchivo DEF LeerDesconocido, SeRompe, registro
  <2> QED
    BY <1>4, <2>1, <2>2, <2>3 DEF Leer
<1>5. CASE UNCHANGED vars
  BY <1>5, SinMarcosNuevos, NadaNoEsArchivo DEF vars, registro
<1> QED
  BY <1>1, <1>2, <1>3, <1>4, <1>5 DEF Next

(* recibirPagina and actualizarMarcos never disagree on the file of a      *)
(* carpincho: every frame in use lies in the file leer_swap opens.         *)
THEOREM SwampRegistrados == Spec => []MarcosDeRegistrados
<1>1. Init => MarcosDeRegistrados
  BY DEF Init, MarcosDeRegistrados
<1>2. TypeOK /\ MarcosDeRegistrados /\ [Next]_vars => MarcosDeRegistrados'
  BY RegistradosPaso
<1> QED
  BY <1>1, <1>2, SwampTipos, PTL DEF Spec

-----------------------------------------------------------------------------
(* What the memory has left in the swap, with one file and pages of 64     *)
(* bytes                                                                   *)

(* The invariant behind LeeLoEscrito.  A page is in the swap for the       *)
(* memory exactly when a frame says so; no two frames hold one page; and   *)
(* that frame holds the bytes.                                             *)
Guardado ==
  \A p \in PIDs, g \in Paginas :
     /\ enSwap[p][g] # Nada =>
          \E l \in Lugares : EsDe(l, p, g) /\ disco[l] = enSwap[p][g]
     /\ \A l \in Lugares : EsDe(l, p, g) => enSwap[p][g] # Nada
     /\ \A l, k \in Lugares : EsDe(l, p, g) /\ EsDe(k, p, g) => l = k

(* With one file a frame's number is its position in the list, and the     *)
(* file of a carpincho is the file of all the frames.                      *)
LEMMA UnArchivo ==
  ASSUME F = 1, NEW l \in Lugares
  PROVE  l[1] = 1 /\ Indice(l) = l[2] /\ Indice(l) \in Numeros /\ l = <<1, l[2]>>
<1>1. l[1] \in 1..1 /\ l[2] \in 0..(N - 1) /\ l = <<l[1], l[2]>>
  BY DEF Lugares, Archivos, Numeros
<1>2. l[1] = 1
  BY <1>1
<1>3. N \in Int /\ l[2] \in Int
  BY <1>1, SwampAssumption
<1>4. Indice(l) = 0 * N + l[2]
  BY <1>2 DEF Indice
<1> QED
  BY <1>1, <1>2, <1>3, <1>4 DEF Numeros

LEMMA GuardadoQuieto ==
  ASSUME Guardado, marcos' = marcos, disco' = disco, enSwap' = enSwap
  PROVE  Guardado'
  BY DEF Guardado, EsDe

LEMMA GuardadoEscribir ==
  ASSUME TypeOK, Guardado, Pisa = 0,
         NEW p \in PIDs, NEW a \in Archivos, NEW g \in Paginas, NEW d \in Datos,
         NEW m \in Numeros, enSwap[p][g] = Nada, EscribirAcepta(p, a, m, g, d),
         NEW z \in Lugares, z = <<a, m>>
  PROVE  Guardado'
<1>0. marcos[z].indice = Nada /\ d # Nada
  BY LugaresNoVacios, SwampAssumption DEF EscribirAcepta, PrimerLibre, Libres
<1>1. /\ marcos' = [marcos EXCEPT ![z] = [indice |-> g, pid |-> p]]
      /\ enSwap' = [enSwap EXCEPT ![p][g] = d]
      /\ disco' = Escrito(a, m, d)
  BY DEF EscribirAcepta, Actualizar
<1>2. \A l \in Lugares : disco'[l] = IF l = z THEN d ELSE disco[l]
  <2>1. m \in Int /\ (m + 1)..(m + Pisa) = {}
    BY SwampAssumption DEF Numeros
  <2> QED
    BY <1>1, <2>1 DEF Escrito
<1>3. \A l \in Lugares : marcos'[l] = IF l = z THEN [indice |-> g, pid |-> p]
                                              ELSE marcos[l]
  BY <1>1 DEF TypeOK
<1>4. \A q \in PIDs, h \in Paginas :
        enSwap'[q][h] = IF q = p /\ h = g THEN d ELSE enSwap[q][h]
  BY <1>1 DEF TypeOK
<1>5. \A q \in PIDs, h \in Paginas : h # Nada
  BY SwampAssumption
<1>6. \A q \in PIDs, h \in Paginas : ~EsDe(z, q, h)
  BY <1>0, <1>5 DEF EsDe
<1>7. \A l \in Lugares : ~EsDe(l, p, g)
  BY DEF Guardado
<1>8. \A l \in Lugares, q \in PIDs, h \in Paginas :
        EsDe(l, q, h)' <=> (l = z /\ q = p /\ h = g) \/ (l # z /\ EsDe(l, q, h))
  BY <1>3 DEF EsDe
<1> SUFFICES ASSUME NEW q \in PIDs, NEW h \in Paginas
             PROVE  /\ enSwap'[q][h] # Nada =>
                         \E l \in Lugares : EsDe(l, q, h)' /\ disco'[l] = enSwap'[q][h]
                    /\ \A l \in Lugares : EsDe(l, q, h)' => enSwap'[q][h] # Nada
                    /\ \A l, k \in Lugares : EsDe(l, q, h)' /\ EsDe(k, q, h)' => l = k
  BY DEF Guardado, EsDe
<1>9. CASE q = p /\ h = g
  <2>1. enSwap'[q][h] = d
    BY <1>4, <1>9
  <2>2. EsDe(z, q, h)' /\ disco'[z] = d
    BY <1>2, <1>8, <1>9
  <2>3. \A l \in Lugares : EsDe(l, q, h)' => l = z
    BY <1>7, <1>8, <1>9
  <2> QED
    BY <1>0, <2>1, <2>2, <2>3
<1>10. CASE ~(q = p /\ h = g)
  <2>1. enSwap'[q][h] = enSwap[q][h]
    BY <1>4, <1>10
  <2>2. \A l \in Lugares : EsDe(l, q, h)' <=> EsDe(l, q, h)
    BY <1>6, <1>8, <1>10
  <2>3. \A l \in Lugares : EsDe(l, q, h) => disco'[l] = disco[l]
    BY <1>2, <1>6
  <2> QED
    BY <2>1, <2>2, <2>3 DEF Guardado
<1> QED
  BY <1>9, <1>10

LEMMA GuardadoLeer ==
  ASSUME TypeOK, MarcosDeRegistrados, Guardado, F = 1,
         NEW p \in PIDs, NEW g \in Paginas, NEW z \in Lugares, LeerPagina(p, g, z)
  PROVE  Guardado'
<1>0. EsDe(z, p, g) /\ g # Nada
  BY SwampAssumption DEF LeerPagina, Conseguir
<1>1. archivo[p] = z[1]
  BY <1>0 DEF MarcosDeRegistrados, EsDe
<1>2. /\ marcos' = [marcos EXCEPT ![z] = [indice |-> Nada, pid |-> p]]
      /\ enSwap' = [enSwap EXCEPT ![p][g] = Nada]
      /\ disco' = disco
  BY <1>1, UnArchivo DEF LeerPagina, Actualizar
<1>3. \A l \in Lugares : marcos'[l] = IF l = z THEN [indice |-> Nada, pid |-> p]
                                              ELSE marcos[l]
  BY <1>2 DEF TypeOK
<1>4. \A q \in PIDs, h \in Paginas :
        enSwap'[q][h] = IF q = p /\ h = g THEN Nada ELSE enSwap[q][h]
  BY <1>2 DEF TypeOK
<1>5. \A h \in Paginas : h # Nada
  BY SwampAssumption
<1>6. \A l \in Lugares, q \in PIDs, h \in Paginas :
        EsDe(l, q, h)' <=> l # z /\ EsDe(l, q, h)
  BY <1>3, <1>5 DEF EsDe
<1> SUFFICES ASSUME NEW q \in PIDs, NEW h \in Paginas
             PROVE  /\ enSwap'[q][h] # Nada =>
                         \E l \in Lugares : EsDe(l, q, h)' /\ disco'[l] = enSwap'[q][h]
                    /\ \A l \in Lugares : EsDe(l, q, h)' => enSwap'[q][h] # Nada
                    /\ \A l, k \in Lugares : EsDe(l, q, h)' /\ EsDe(k, q, h)' => l = k
  BY DEF Guardado, EsDe
<1>7. CASE q = p /\ h = g
  <2>1. \A l \in Lugares : EsDe(l, q, h) => l = z
    BY <1>0, <1>7 DEF Guardado
  <2> QED
    BY <1>4, <1>6, <1>7, <2>1
<1>8. CASE ~(q = p /\ h = g)
  <2>1. ~EsDe(z, q, h)
    BY <1>0, <1>8 DEF EsDe
  <2>2. enSwap'[q][h] = enSwap[q][h]
    BY <1>4, <1>8
  <2>3. \A l \in Lugares : EsDe(l, q, h)' <=> EsDe(l, q, h)
    BY <1>6, <2>1
  <2> QED
    BY <1>2, <2>2, <2>3 DEF Guardado
<1> QED
  BY <1>7, <1>8

LEMMA GuardadoPaso ==
  ASSUME TypeOK, MarcosDeRegistrados, Guardado, F = 1, Pisa = 0, [Next]_vars
  PROVE  Guardado'
<1>1. CASE CasoAsignacion
  BY <1>1, GuardadoQuieto DEF CasoAsignacion
<1>2. ASSUME NEW p \in PIDs, NEW a \in Archivos, NEW n \in 1..(N + 1),
             PuedeEscribir(p, a, n)
      PROVE  Guardado'
  BY <1>2, GuardadoQuieto
     DEF PuedeEscribir, PuedeEscribirRompe, PuedeEscribirResponde, SeRompe
<1>3. ASSUME NEW p \in PIDs, NEW a \in Archivos, NEW g \in Paginas,
             NEW d \in Datos, Escribir(p, a, g, d)
      PROVE  Guardado'
  BY <1>3, GuardadoQuieto, GuardadoEscribir, LugaresNoVacios
     DEF Escribir, EscribirRompe, EscribirRechaza, SeRompe
<1>4. ASSUME NEW p \in PIDs, NEW g \in Paginas, Leer(p, g)
      PROVE  Guardado'
  BY <1>4, GuardadoQuieto, GuardadoLeer
     DEF Leer, LeerAusente, LeerDesconocido, SeRompe
<1>5. CASE UNCHANGED vars
  BY <1>5, GuardadoQuieto DEF vars
<1> QED
  BY <1>1, <1>2, <1>3, <1>4, <1>5 DEF Next

LEMMA GuardadoSirve ==
  ASSUME TypeOK, MarcosDeRegistrados, Guardado, F = 1
  PROVE  LeeLoEscrito
<1> SUFFICES ASSUME NEW p \in PIDs, NEW g \in Paginas, enSwap[p][g] # Nada
             PROVE  /\ \E l \in Lugares : Conseguir(p, g, l)
                    /\ enSwap[p][g] \in Enteros =>
                         \A l \in Lugares : Conseguir(p, g, l) =>
                            Contenido(archivo[p], l) = enSwap[p][g]
  <2>1. Nada \notin Enteros
    BY SwampAssumption
  <2> QED
    BY <2>1 DEF LeeLoEscrito
<1>1. PICK z \in Lugares : EsDe(z, p, g) /\ disco[z] = enSwap[p][g]
  BY DEF Guardado
<1>2. \A l \in Lugares : EsDe(l, p, g) => l = z
  BY <1>1 DEF Guardado
<1>3. Indice(z) \in Numeros /\ Indice(z) = z[2] /\ z = <<1, z[2]>> /\ z[1] = 1
  BY UnArchivo
<1>4. Indice(z) <= Indice(z)
  BY <1>3, SwampAssumption DEF Numeros
<1>5. Conseguir(p, g, z)
  BY <1>1, <1>2, <1>4 DEF Conseguir
<1>6. archivo[p] = 1
  <2>1. g # Nada
    BY SwampAssumption
  <2> QED
    BY <1>1, <1>3, <2>1 DEF MarcosDeRegistrados, EsDe
<1>7. ASSUME enSwap[p][g] \in Enteros
      PROVE  Contenido(archivo[p], z) = enSwap[p][g]
  BY <1>1, <1>3, <1>6, <1>7 DEF Contenido
<1> QED
  BY <1>2, <1>5, <1>7 DEF Conseguir

(* With one file and pages of 64 bytes, leer_swap gives back what          *)
(* escribir_swap was given, however many carpinchos, pages and frames      *)
(* there are and whatever the assignment scheme.                           *)
THEOREM SwampLeeLoEscrito ==
  ASSUME F = 1, Pisa = 0
  PROVE  Spec => []LeeLoEscrito
<1>1. Init => Guardado
  BY SwampAssumption DEF Init, Guardado, EsDe
<1>2. TypeOK /\ MarcosDeRegistrados /\ Guardado /\ [Next]_vars => Guardado'
  BY GuardadoPaso
<1>3. TypeOK /\ MarcosDeRegistrados /\ Guardado => LeeLoEscrito
  BY GuardadoSirve
<1> QED
  BY <1>1, <1>2, <1>3, SwampTipos, SwampRegistrados, PTL DEF Spec
-----------------------------------------------------------------------------
(* The frames of a carpincho, counted *)

LEMMA LugaresFinitos ==
  /\ IsFiniteSet(Lugares) /\ IsFiniteSet(Numeros)
  /\ \A p \in PIDs : IsFiniteSet(Usados(p)) /\ Cardinality(Usados(p)) \in Nat
  /\ \A a \in Archivos : IsFiniteSet(Libres(a)) /\ Cardinality(Libres(a)) \in Nat
<1>1. IsFiniteSet(Archivos) /\ IsFiniteSet(Numeros)
  BY FS_Interval, SwampAssumption DEF Archivos, Numeros
<1>2. IsFiniteSet(Lugares)
  BY <1>1, FS_Product DEF Lugares
<1>3. ASSUME NEW p \in PIDs
      PROVE  IsFiniteSet(Usados(p)) /\ Cardinality(Usados(p)) \in Nat
  BY <1>2, FS_Subset, FS_CardinalityType DEF Usados
<1>4. ASSUME NEW a \in Archivos
      PROVE  IsFiniteSet(Libres(a)) /\ Cardinality(Libres(a)) \in Nat
  BY <1>1, FS_Subset, FS_CardinalityType DEF Libres
<1> QED
  BY <1>1, <1>2, <1>3, <1>4

(* The position in the whole list (conseguirMarco) is a frame of a file    *)
(* only for the frames of the first file, and then it is that frame.       *)
LEMMA IndiceDelPrimero ==
  ASSUME NEW l \in Lugares, Indice(l) \in Numeros
  PROVE  l[1] = 1 /\ l = <<l[1], Indice(l)>>
<1>1. l[1] \in 1..F /\ l[2] \in 0..(N - 1) /\ l = <<l[1], l[2]>> /\ N \in Nat \ {0}
  BY SwampAssumption DEF Lugares, Archivos, Numeros
<1>2. l[1] = 1
  <2> SUFFICES ASSUME l[1] - 1 >= 1 PROVE FALSE
    BY <1>1, SwampAssumption
  <2> DEFINE k == l[1] - 1
  <2>1. k \in Nat /\ k >= 1
    BY <1>1, SwampAssumption
  <2>2. k * N >= N
    <3> HIDE DEF k
    <3> QED BY <1>1, <2>1
  <2>3. k * N \in Nat
    <3> HIDE DEF k
    <3> QED BY <1>1, <2>1
  <2>4. k * N + l[2] \in 0..(N - 1)
    BY DEF Indice, Numeros
  <2> HIDE DEF k
  <2> QED
    BY <1>1, <2>2, <2>3, <2>4
<1>3. Indice(l) = 0 * N + l[2]
  BY <1>2 DEF Indice
<1> QED
  BY <1>1, <1>2, <1>3

LEMMA UsadosQuietos ==
  ASSUME marcos' = marcos
  PROVE  /\ \A p \in PIDs : Usados(p)' = Usados(p)
         /\ \A a \in Archivos : Libres(a)' = Libres(a)
  BY DEF Usados, Libres

(* A page that is written takes a free frame of its file.                  *)
LEMMA UsadosEscribir ==
  ASSUME TypeOK, NEW p \in PIDs, NEW a \in Archivos, NEW g \in Paginas,
         NEW d \in Datos, NEW m \in Numeros, EscribirAcepta(p, a, m, g, d)
  PROVE  /\ Usados(p)' = Usados(p) \cup {<<a, m>>} /\ <<a, m>> \notin Usados(p)
         /\ Cardinality(Usados(p)') = Cardinality(Usados(p)) + 1
         /\ \A q \in PIDs \ {p} : Usados(q)' = Usados(q)
         /\ \A b \in Archivos \ {a} : Libres(b)' = Libres(b)
         /\ Libres(a)' = Libres(a) \ {m} /\ m \in Libres(a)
<1> DEFINE z == <<a, m>>
<1>1. z \in Lugares /\ g # Nada
  BY LugaresNoVacios, SwampAssumption
<1>2. marcos[z].indice = Nada /\ m \in Libres(a)
  BY DEF EscribirAcepta, PrimerLibre, Libres
<1>3. \A l \in Lugares : marcos'[l] = IF l = z THEN [indice |-> g, pid |-> p]
                                              ELSE marcos[l]
  BY <1>1 DEF EscribirAcepta, Actualizar, TypeOK
<1>4. /\ Usados(p)' = Usados(p) \cup {z} /\ z \notin Usados(p)
      /\ \A q \in PIDs \ {p} : Usados(q)' = Usados(q)
  <2> HIDE DEF z
  <2> QED BY <1>1, <1>2, <1>3 DEF Usados
<1>5. Cardinality(Usados(p)') = Cardinality(Usados(p)) + 1
  BY <1>4, FS_AddElement, LugaresFinitos
<1>6. \A b \in Archivos, k \in Numeros :
        marcos'[<<b, k>>].indice = Nada <=> marcos[<<b, k>>].indice = Nada /\ <<b, k>> # z
  <2> SUFFICES ASSUME NEW b \in Archivos, NEW k \in Numeros
               PROVE  marcos'[<<b, k>>].indice = Nada
                        <=> marcos[<<b, k>>].indice = Nada /\ <<b, k>> # z
    OBVIOUS
  <2>1. <<b, k>> \in Lugares
    BY LugaresNoVacios
  <2> HIDE DEF z
  <2> QED
    BY <1>1, <1>2, <1>3, <2>1
<1>7. \A b \in Archivos \ {a} : Libres(b)' = Libres(b)
  BY <1>6 DEF Libres
<1>8. Libres(a)' = Libres(a) \ {m}
  BY <1>6 DEF Libres
<1> QED
  BY <1>2, <1>4, <1>5, <1>7, <1>8

(* A page that is read gives its frame back, or none at all: never one of  *)
(* another carpincho.                                                      *)
LEMMA UsadosLeer ==
  ASSUME TypeOK, MarcosDeRegistrados, NEW p \in PIDs, NEW g \in Paginas,
         NEW l \in Lugares, LeerPagina(p, g, l)
  PROVE  /\ \A q \in PIDs \ {p} : Usados(q)' = Usados(q)
         /\ Cardinality(Usados(p)') \in {Cardinality(Usados(p)) - 1, Cardinality(Usados(p))}
         /\ F = 1 => Cardinality(Usados(p)') = Cardinality(Usados(p)) - 1
         /\ \A b \in Archivos : Libres(b) \subseteq Libres(b)'
<1>1. g # Nada /\ EsDe(l, p, g)
  BY SwampAssumption DEF LeerPagina, Conseguir
<1>2. archivo[p] = l[1]
  BY <1>1 DEF MarcosDeRegistrados, EsDe
<1>3. CASE Indice(l) \notin Numeros
  <2>1. marcos' = marcos
    BY <1>3 DEF LeerPagina
  <2>2. F # 1
    BY <1>3, UnArchivo
  <2> QED
    BY <2>1, <2>2, UsadosQuietos
<1>4. CASE Indice(l) \in Numeros
  <2>1. marcos' = [marcos EXCEPT ![l] = [indice |-> Nada, pid |-> p]]
    BY <1>2, <1>4, IndiceDelPrimero DEF LeerPagina, Actualizar
  <2>2. \A k \in Lugares : marcos'[k] = IF k = l THEN [indice |-> Nada, pid |-> p]
                                                ELSE marcos[k]
    BY <2>1 DEF TypeOK
  <2>3. Usados(p)' = Usados(p) \ {l} /\ l \in Usados(p)
    BY <1>1, <2>2 DEF Usados, EsDe
  <2>4. Cardinality(Usados(p)') = Cardinality(Usados(p)) - 1
    BY <2>3, FS_RemoveElement, LugaresFinitos
  <2>5. \A q \in PIDs \ {p} : Usados(q)' = Usados(q)
    BY <1>1, <2>2 DEF Usados, EsDe
  <2>6. \A b \in Archivos : Libres(b) \subseteq Libres(b)'
    BY <2>2, LugaresNoVacios DEF Libres
  <2> QED
    BY <2>4, <2>5, <2>6
<1> QED
  BY <1>3, <1>4

LEMMA CuentaPaso ==
  ASSUME TypeOK, MarcosDeRegistrados, CuentaDeMarcos, [Next]_vars
  PROVE  CuentaDeMarcos'
<1>0. \A p \in PIDs : cantMarcos[p] \in Int /\ Cardinality(Usados(p)) \in Nat
  BY LugaresFinitos DEF TypeOK
<1>1. ASSUME marcos' = marcos, cantMarcos' = cantMarcos
      PROVE  CuentaDeMarcos'
  <2>1. \A p \in PIDs : Usados(p)' = Usados(p)
    BY <1>1, UsadosQuietos
  <2> QED
    BY <1>1, <2>1 DEF CuentaDeMarcos
<1>2. ASSUME NEW p \in PIDs, NEW a \in Archivos, NEW g \in Paginas, NEW d \in Datos,
             NEW m \in Numeros, EscribirAcepta(p, a, m, g, d)
      PROVE  CuentaDeMarcos'
  <2>1. cantMarcos' = [cantMarcos EXCEPT ![p] = @ + 1]
    BY <1>2 DEF EscribirAcepta
  <2>2. /\ cantMarcos'[p] = cantMarcos[p] + 1
        /\ \A q \in PIDs \ {p} : cantMarcos'[q] = cantMarcos[q]
    BY <2>1 DEF TypeOK
  <2>3. /\ Cardinality(Usados(p)') = Cardinality(Usados(p)) + 1
        /\ \A q \in PIDs \ {p} : Usados(q)' = Usados(q)
    BY <1>2, UsadosEscribir
  <2> QED
    BY <1>0, <2>2, <2>3 DEF CuentaDeMarcos
<1>3. ASSUME NEW p \in PIDs, NEW g \in Paginas, NEW l \in Lugares, LeerPagina(p, g, l)
      PROVE  CuentaDeMarcos'
  <2>1. cantMarcos' = [cantMarcos EXCEPT ![p] = @ - 1]
    BY <1>3 DEF LeerPagina
  <2>2. /\ cantMarcos'[p] = cantMarcos[p] - 1
        /\ \A q \in PIDs \ {p} : cantMarcos'[q] = cantMarcos[q]
    BY <2>1 DEF TypeOK
  <2>3. /\ \A q \in PIDs \ {p} : Usados(q)' = Usados(q)
        /\ Cardinality(Usados(p)') \in {Cardinality(Usados(p)) - 1, Cardinality(Usados(p))}
        /\ F = 1 => Cardinality(Usados(p)') = Cardinality(Usados(p)) - 1
    BY <1>3, UsadosLeer
  <2> QED
    BY <1>0, <2>2, <2>3 DEF CuentaDeMarcos
<1> QED
  BY <1>1, <1>2, <1>3 DEF Next, vars, registro, CasoAsignacion, PuedeEscribir,
     PuedeEscribirRompe, PuedeEscribirResponde, Escribir, EscribirRompe,
     EscribirRechaza, Leer, LeerAusente, LeerDesconocido, SeRompe

LEMMA NadieEmpiezaConMarcos == Init => \A p \in PIDs : Usados(p) = {}
  BY DEF Init, Usados

(* actualizarCarpincho and actualizarMarcos agree: cantMarcos never counts *)
(* frames the carpincho does not have, whatever the number of files, and   *)
(* with one file it counts them all.                                       *)
THEOREM SwampCuenta == Spec => []CuentaDeMarcos
<1>1. Init => CuentaDeMarcos
  <2>1. Init => \A p \in PIDs : cantMarcos[p] = 0
    BY DEF Init
  <2> QED
    BY <2>1, NadieEmpiezaConMarcos, FS_EmptySet DEF CuentaDeMarcos
<1>2. TypeOK /\ MarcosDeRegistrados /\ CuentaDeMarcos /\ [Next]_vars => CuentaDeMarcos'
  BY CuentaPaso
<1> QED
  BY <1>1, <1>2, SwampTipos, SwampRegistrados, PTL DEF Spec

-----------------------------------------------------------------------------
(* The quota of the first carpincho *)

(* Nothing is registered and nothing granted before the first message,     *)
(* which is the only one to change the assignment scheme.                  *)
SinConexion == ~conectado => carpinchos = <<>> /\ \A p \in PIDs : permiso[p] = 0

LEMMA SinConexionPaso == SinConexion /\ [Next]_vars => SinConexion'
  BY DEF SinConexion, Next, vars, registro, CasoAsignacion, PuedeEscribir,
     PuedeEscribirRompe, PuedeEscribirResponde, Escribir, EscribirRompe,
     EscribirRechaza, EscribirAcepta, Leer, LeerPagina, LeerAusente,
     LeerDesconocido, SeRompe, Atiende

(* The swap grants nothing and registers nobody before the memory connects *)
(* (crear_servidor).                                                        *)
THEOREM SwampSinConexion == Spec => []SinConexion
<1>1. Init => SinConexion
  BY DEF Init, SinConexion
<1> QED
  BY <1>1, SinConexionPaso, PTL DEF Spec

(* Who is registered last is not the first, unless the list was empty, and *)
(* then it has no frames.                                                  *)
LEMMA PrimeroDeLaLista ==
  ASSUME TypeOK, MarcosDeRegistrados, NEW p \in PIDs, ListaCon(p) # <<>>
  PROVE  /\ ListaCon(p)[1] \in PIDs
         /\ \/ carpinchos # <<>> /\ ListaCon(p)[1] = carpinchos[1]
            \/ ListaCon(p)[1] = p /\ Usados(p) = {}
<1>1. CASE archivo[p] # Nada
  BY <1>1 DEF ListaCon, TypeOK
<1>2. CASE archivo[p] = Nada
  <2>1. Usados(p) = {}
    BY <1>2, NadaNoEsArchivo DEF Usados, MarcosDeRegistrados, Lugares
  <2> QED
    BY <1>2, <2>1 DEF ListaCon, TypeOK
<1> QED
  BY <1>1, <1>2

LEMMA CupoQuieto ==
  ASSUME CupoDelPrimero, marcos' = marcos, carpinchos' = carpinchos,
         casoAsignacion' = casoAsignacion, TypeOK
  PROVE  CupoDelPrimero'
  BY UsadosQuietos DEF CupoDelPrimero, TypeOK

LEMMA CupoPaso ==
  ASSUME TypeOK, MarcosDeRegistrados, CuentaDeMarcos, SinConexion, CupoDelPrimero,
         [Next]_vars
  PROVE  CupoDelPrimero'
<1>0. \A q \in PIDs : Cardinality(Usados(q)) \in Nat
  BY LugaresFinitos
<1>1. CASE CasoAsignacion
  BY <1>1 DEF CasoAsignacion, SinConexion, CupoDelPrimero, registro
<1>2. ASSUME NEW p \in PIDs, NEW a \in Archivos, NEW n \in 1..(N + 1),
             PuedeEscribir(p, a, n)
      PROVE  CupoDelPrimero'
  <2>1. CASE PuedeEscribirRompe(p, a)
    BY <2>1, CupoQuieto DEF PuedeEscribirRompe, SeRompe, registro
  <2>2. CASE PuedeEscribirResponde(p, a, n) /\ casoAsignacion = "GLOBAL"
    BY <2>2 DEF PuedeEscribirResponde, CupoDelPrimero
  <2>3. CASE PuedeEscribirResponde(p, a, n) /\ casoAsignacion # "GLOBAL"
    BY <2>3, CupoQuieto DEF PuedeEscribirResponde, ListaConsulta
  <2> QED
    BY <1>2, <2>1, <2>2, <2>3 DEF PuedeEscribir
<1>3. ASSUME NEW p \in PIDs, NEW a \in Archivos, EscribirRechaza(p, a)
      PROVE  CupoDelPrimero'
  <2>1. carpinchos' = ListaCon(p) /\ casoAsignacion' = casoAsignacion /\ marcos' = marcos
    BY <1>3 DEF EscribirRechaza
  <2> SUFFICES ASSUME casoAsignacion = "FIJA", F = 1, ListaCon(p) # <<>>
               PROVE  (Cardinality(Usados(carpinchos[1])) <= Maximo)'
    BY <2>1 DEF CupoDelPrimero
  <2> PICK q \in PIDs : q = ListaCon(p)[1]
    BY PrimeroDeLaLista
  <2>2. Cardinality(Usados(q)) <= Maximo
    <3>1. CASE carpinchos # <<>> /\ q = carpinchos[1]
      BY <3>1 DEF CupoDelPrimero
    <3>2. CASE q = p /\ Usados(p) = {}
      BY <3>2, FS_EmptySet, SwampAssumption
    <3> QED
      BY <3>1, <3>2, PrimeroDeLaLista
  <2>3. Usados(q)' = Usados(q)
    BY <2>1, UsadosQuietos
  <2> QED
    BY <2>1, <2>2, <2>3
<1>4. ASSUME NEW p \in PIDs, NEW a \in Archivos, NEW g \in Paginas, NEW d \in Datos,
             NEW m \in Numeros, EscribirAcepta(p, a, m, g, d)
      PROVE  CupoDelPrimero'
  <2>0. carpinchos' = ListaCon(p) /\ casoAsignacion' = casoAsignacion
    BY <1>4 DEF EscribirAcepta
  <2> SUFFICES ASSUME casoAsignacion = "FIJA", F = 1, ListaCon(p) # <<>>
               PROVE  (Cardinality(Usados(carpinchos[1])) <= Maximo)'
    BY <2>0 DEF CupoDelPrimero
  <2> PICK q \in PIDs : q = ListaCon(p)[1]
    BY PrimeroDeLaLista
  <2>1. CASE q # p
    <3>1. carpinchos # <<>> /\ q = carpinchos[1]
      BY <2>1, PrimeroDeLaLista
    <3>2. Usados(q)' = Usados(q)
      BY <1>4, <2>1, UsadosEscribir
    <3> QED
      BY <2>0, <3>1, <3>2 DEF CupoDelPrimero
  <2>2. CASE q = p
    <3>1. FijaPermite(p, ListaCon(p), ArchivoCon(p, a))
      BY <1>4 DEF EscribirAcepta, AsignacionPermite
    <3>2. cantMarcos[p] < Maximo
      BY <2>2, <3>1 DEF FijaPermite
    <3>3. cantMarcos[p] = Cardinality(Usados(p))
      BY DEF CuentaDeMarcos
    <3>4. Cardinality(Usados(p)') = Cardinality(Usados(p)) + 1
      BY <1>4, UsadosEscribir
    <3>5. Cardinality(Usados(p)') <= Maximo
      BY <1>0, <3>2, <3>3, <3>4, SwampAssumption
    <3> QED
      BY <2>0, <2>2, <3>5
  <2> QED
    BY <2>1, <2>2
<1>5. ASSUME NEW p \in PIDs, NEW g \in Paginas, NEW l \in Lugares, LeerPagina(p, g, l)
      PROVE  CupoDelPrimero'
  <2>0. carpinchos' = carpinchos /\ casoAsignacion' = casoAsignacion
    BY <1>5 DEF LeerPagina
  <2> SUFFICES ASSUME casoAsignacion = "FIJA", F = 1, carpinchos # <<>>
               PROVE  (Cardinality(Usados(carpinchos[1])) <= Maximo)'
    BY <2>0 DEF CupoDelPrimero
  <2> PICK q \in PIDs : q = carpinchos[1]
    BY DEF TypeOK
  <2>1. Cardinality(Usados(q)) <= Maximo /\ Cardinality(Usados(q)) \in Nat
    BY <1>0 DEF CupoDelPrimero
  <2>2. CASE q = p
    <3>1. Cardinality(Usados(q)') = Cardinality(Usados(q)) - 1
      BY <1>5, <2>2, UsadosLeer
    <3> QED
      BY <2>0, <2>1, <3>1, SwampAssumption
  <2>3. CASE q # p
    <3>1. Usados(q)' = Usados(q)
      BY <1>5, <2>3, UsadosLeer
    <3> QED
      BY <2>0, <2>1, <3>1
  <2> QED
    BY <2>2, <2>3
<1>6. CASE UNCHANGED vars
  BY <1>6, CupoQuieto DEF vars, registro
<1>7. ASSUME NEW p \in PIDs, NEW a \in Archivos, EscribirRompe(p, a)
      PROVE  CupoDelPrimero'
  BY <1>7, CupoQuieto DEF EscribirRompe, SeRompe, registro
<1>8. ASSUME NEW p \in PIDs, NEW g \in Paginas, LeerAusente(p, g) \/ LeerDesconocido(p)
      PROVE  CupoDelPrimero'
  BY <1>8, CupoQuieto DEF LeerAusente, LeerDesconocido, SeRompe, registro
<1> QED
  BY <1>1, <1>2, <1>3, <1>4, <1>5, <1>6, <1>7, <1>8 DEF Next, Escribir, Leer

(* chequearAsignacion: under FIJA and with one file the first carpincho of *)
(* the list stays within marcos_maximos, for any number of carpinchos and  *)
(* frames and through any reads and rewrites.                              *)
THEOREM SwampCupoDelPrimero == Spec => []CupoDelPrimero
<1>1. Init => CupoDelPrimero
  BY DEF Init, CupoDelPrimero
<1>2. TypeOK /\ MarcosDeRegistrados /\ CuentaDeMarcos /\ SinConexion
        /\ CupoDelPrimero /\ [Next]_vars => CupoDelPrimero'
  BY CupoPaso
<1> QED
  BY <1>1, <1>2, SwampTipos, SwampRegistrados, SwampCuenta, SwampSinConexion, PTL DEF Spec

-----------------------------------------------------------------------------
(* The pages granted *)

(* The pages a carpincho may still write have their frames free, in the    *)
(* file the carpincho has.                                                 *)
Reservado ==
  casoAsignacion = "GLOBAL" =>
    \A p \in PIDs : permiso[p] > 0 =>
       archivo[p] \in Archivos /\ Cardinality(Libres(archivo[p])) >= permiso[p]

LEMMA ReservadoQuieto ==
  ASSUME Reservado, casoAsignacion' = casoAsignacion, permiso' = permiso,
         archivo' = archivo, \A b \in Archivos : Libres(b) \subseteq Libres(b)',
         TypeOK, TypeOK'
  PROVE  Reservado'
<1> SUFFICES ASSUME casoAsignacion = "GLOBAL", NEW p \in PIDs, permiso[p] > 0
             PROVE  (archivo[p] \in Archivos /\ Cardinality(Libres(archivo[p])) >= permiso[p])'
  BY DEF Reservado
<1> PICK b \in Archivos : b = archivo[p]
  BY DEF Reservado
<1>1. Cardinality(Libres(b)) >= permiso[p] /\ permiso[p] \in Nat
  BY DEF Reservado, TypeOK
<1>2. Cardinality(Libres(b)) <= Cardinality(Libres(b)')
  <2>1. IsFiniteSet(Libres(b)')
    BY LugaresFinitos, FS_Subset DEF Libres
  <2> QED
    BY <2>1, FS_Subset
<1>3. Cardinality(Libres(b)) \in Nat /\ Cardinality(Libres(b)') \in Nat
  <2>1. IsFiniteSet(Libres(b)')
    BY LugaresFinitos, FS_Subset DEF Libres
  <2> QED
    BY <2>1, FS_CardinalityType, LugaresFinitos
<1> QED
  BY <1>1, <1>2, <1>3

LEMMA ReservadoPuedeEscribir ==
  ASSUME TypeOK, Reservado, NEW p \in PIDs, NEW a \in Archivos, NEW n \in 1..(N + 1),
         Destino(p, a), PuedeEscribirResponde(p, a, n)
  PROVE  Reservado'
<1> SUFFICES ASSUME casoAsignacion = "GLOBAL", NEW q \in PIDs, permiso'[q] > 0
             PROVE  (archivo[q] \in Archivos /\ Cardinality(Libres(archivo[q])) >= permiso[q])'
  BY DEF Reservado, PuedeEscribirResponde
<1>1. archivo' = ArchivoCon(p, a) /\ marcos' = marcos
  BY DEF PuedeEscribirResponde, ArchivoConsulta
<1>2. \A b \in Archivos : Libres(b)' = Libres(b)
  BY <1>1, UsadosQuietos
<1>3. CASE q = p
  <2>1. permiso'[p] = n /\ HayPaginas(a, n)
    BY <1>3, SwampAssumption DEF PuedeEscribirResponde, TypeOK
  <2>2. archivo'[p] = a
    BY <1>1 DEF ArchivoCon, TypeOK
  <2> QED
    BY <1>2, <1>3, <2>1, <2>2 DEF HayPaginas
<1>4. CASE q # p
  <2>1. permiso'[q] = permiso[q] /\ archivo'[q] = archivo[q]
    BY <1>1, <1>4 DEF PuedeEscribirResponde, ArchivoCon, TypeOK
  <2> PICK b \in Archivos : b = archivo[q] /\ Cardinality(Libres(b)) >= permiso[q]
    BY <2>1 DEF Reservado
  <2> QED
    BY <1>2, <2>1
<1> QED
  BY <1>3, <1>4

LEMMA ReservadoEscribir ==
  ASSUME TypeOK, Reservado, NEW p \in PIDs, NEW a \in Archivos, NEW g \in Paginas,
         NEW d \in Datos, NEW m \in Numeros, Destino(p, a), EscribirAcepta(p, a, m, g, d)
  PROVE  Reservado'
<1>0. m \in Libres(a) /\ Libres(a)' = Libres(a) \ {m}
  BY UsadosEscribir
<1> SUFFICES ASSUME casoAsignacion = "GLOBAL", NEW q \in PIDs, permiso'[q] > 0
             PROVE  (archivo[q] \in Archivos /\ Cardinality(Libres(archivo[q])) >= permiso[q])'
  BY DEF Reservado, EscribirAcepta
<1>1. q = p /\ permiso[p] > 0 /\ permiso'[p] = permiso[p] - 1 /\ permiso[p] \in Nat
  BY DEF EscribirAcepta, TypeOK
<1>2. archivo[p] = a /\ archivo'[p] = a
  BY <1>1, NadaNoEsArchivo DEF EscribirAcepta, ArchivoCon, Reservado, Destino, TypeOK
<1>3. Cardinality(Libres(a)) >= permiso[p] /\ Cardinality(Libres(a)) \in Nat
  BY <1>1, <1>2, LugaresFinitos DEF Reservado
<1>4. Cardinality(Libres(a)') = Cardinality(Libres(a)) - 1
  BY <1>0, FS_RemoveElement, LugaresFinitos
<1> QED
  BY <1>1, <1>2, <1>3, <1>4

LEMMA ReservadoPaso ==
  ASSUME TypeOK, TypeOK', MarcosDeRegistrados, SinConexion, Reservado, [Next]_vars
  PROVE  Reservado'
<1>1. CASE CasoAsignacion
  BY <1>1 DEF CasoAsignacion, SinConexion, Reservado
<1>2. ASSUME NEW p \in PIDs, NEW a \in Archivos, NEW n \in 1..(N + 1),
             PuedeEscribir(p, a, n)
      PROVE  Reservado'
  BY <1>2, UsadosQuietos, ReservadoQuieto, ReservadoPuedeEscribir
     DEF PuedeEscribir, PuedeEscribirRompe, SeRompe, registro
<1>3. ASSUME NEW p \in PIDs, NEW a \in Archivos, NEW g \in Paginas,
             NEW d \in Datos, Escribir(p, a, g, d)
      PROVE  Reservado'
  <2>1. CASE EscribirRompe(p, a)
    BY <2>1, UsadosQuietos, ReservadoQuieto DEF EscribirRompe, SeRompe, registro
  <2>2. CASE EscribirRechaza(p, a)
    BY <2>2 DEF EscribirRechaza, AsignacionPermite, Reservado
  <2> QED
    BY <1>3, <2>1, <2>2, ReservadoEscribir DEF Escribir
<1>4. ASSUME NEW p \in PIDs, NEW g \in Paginas, Leer(p, g)
      PROVE  Reservado'
  <2>1. ASSUME NEW l \in Lugares, LeerPagina(p, g, l)
        PROVE  Reservado'
    BY <2>1, UsadosLeer, ReservadoQuieto DEF LeerPagina
  <2> QED
    BY <1>4, <2>1, UsadosQuietos, ReservadoQuieto
       DEF Leer, LeerAusente, LeerDesconocido, SeRompe, registro
<1>5. CASE UNCHANGED vars
  BY <1>5, UsadosQuietos, ReservadoQuieto DEF vars, registro
<1> QED
  BY <1>1, <1>2, <1>3, <1>4, <1>5 DEF Next

(* A write that was granted finds its file, a free frame and no refusal.   *)
LEMMA PermisoSirve ==
  ASSUME TypeOK, Reservado, NEW p \in PIDs, NEW g \in Paginas, NEW d \in Datos,
         NEW a \in Archivos, casoAsignacion = "GLOBAL", permiso[p] > 0,
         Escribir(p, a, g, d)
  PROVE  ~indefinido' /\ enSwap'[p][g] = d
<1>1. archivo[p] \in Archivos /\ Cardinality(Libres(archivo[p])) >= permiso[p]
  BY DEF Reservado
<1>2. archivo[p] = a
  BY <1>1, NadaNoEsArchivo DEF Escribir, Destino
<1>3. Libres(a) # {}
  <2>1. permiso[p] \in Nat /\ Cardinality({}) = 0
    BY FS_EmptySet DEF TypeOK
  <2> QED
    BY <1>1, <1>2, <2>1
<1>4. ~AsignacionRompe(p, a, ListaCon(p))
  BY <1>3 DEF AsignacionRompe
<1>5. AsignacionPermite(p, ListaCon(p), ArchivoCon(p, a))
  BY DEF AsignacionPermite
<1>6. PICK m \in Numeros : EscribirAcepta(p, a, m, g, d)
  BY <1>3, <1>4, <1>5 DEF Escribir, EscribirRompe, EscribirRechaza
<1> QED
  BY <1>6 DEF EscribirAcepta, Escribir, Atiende, TypeOK

(* Under GLOBAL, puede_escribir is as good as its word while no other      *)
(* carpincho writes: the pages it grants are stored, for any number of     *)
(* files, frames and carpinchos.                                           *)
THEOREM SwampPermisoVale == Spec => PermisoVale
<1>1. Init => Reservado
  BY DEF Init, Reservado
<1>2. TypeOK /\ TypeOK' /\ MarcosDeRegistrados /\ SinConexion /\ Reservado
        /\ [Next]_vars => Reservado'
  BY ReservadoPaso
<1>3. TypeOK /\ Reservado =>
        [\A p \in PIDs, g \in Paginas, d \in Datos, a \in Archivos :
           casoAsignacion = "GLOBAL" /\ permiso[p] > 0 /\ Escribir(p, a, g, d) =>
             ~indefinido' /\ enSwap'[p][g] = d]_vars
  BY PermisoSirve
<1> QED
  BY <1>1, <1>2, <1>3, SwampTipos, SwampRegistrados, SwampSinConexion, PTL
     DEF Spec, PermisoVale
=============================================================================
