-------------------------------- MODULE Swamp --------------------------------
(***************************************************************************)
(* The swap server (swamp-v2/src/swamp.c): one thread that answers one     *)
(* client, the memory.  It keeps a list of frames, in the order of the     *)
(* files, and a list of the carpinchos that have written; the bytes are in *)
(* the files.  An action is one request served to the end.                 *)
(*                                                                         *)
(* The list of frames is indexed by <<file, frame>>.  A carpincho is added *)
(* to its list only after a search for its PID failed, so the list is kept *)
(* as its order (carpinchos) and a function per field.                     *)
(*                                                                         *)
(* "indefinido": a null pointer was dereferenced or memory never written   *)
(* was sent.  "colgado": a request got no reply, and the memory waits for  *)
(* ever.                                                                   *)
(*                                                                         *)
(* An operator with an underscore in its name is not part of the           *)
(* specification: it is the next definition with a plausible mistake.      *)
(***************************************************************************)
EXTENDS Integers, FiniteSetsExt, Sequences

CONSTANTS
  PIDs,        \* the carpinchos
  Paginas,     \* the page numbers the memory sends
  Datos,       \* the contents of a page
  Enteros,     \* those fgets gives back whole: no newline, last byte zero
  Cero,        \* a page of '\0'
  Basura,      \* bytes nobody chose
  Peso,        \* how many bytes of a page are not '\0'
  Nada,        \* -1, or no file
  F,           \* the number of files, obtenerCantArchivos()
  N,           \* tamanio_swamp / tamanio_pagina, the frames of a file
  Maximo,      \* marcos_maximos
  Pisa,        \* frames after the written one that a memcpy of 64 bytes covers
  CasosMemoria, \* TIPO_ASIGNACION of the memories that may connect
  MinCuenta    \* bound: cantMarcos does not go below it

ASSUME SwampAssumption ==
  /\ F \in Nat \ {0} /\ N \in Nat \ {0} /\ Maximo \in Nat \ {0} /\ Pisa \in Nat
  /\ Enteros \subseteq Datos
  /\ Peso \in [Datos \cup {Cero, Basura} -> Nat]
  /\ CasosMemoria \subseteq {"FIJA", "GLOBAL"}
  /\ MinCuenta \in Int
  /\ Nada \notin PIDs \cup Paginas \cup Datos \cup Nat
  /\ {Cero, Basura} \cap Datos = {}

Archivos == 1..F
Numeros  == 0..(N - 1)
Lugares  == Archivos \X Numeros

VARIABLES
  indefinido, colgado,
  conectado,       \* the memory has sent its first message
  casoAsignacion,
  marcos,          \* indice and PID of each frame
  carpinchos,      \* the PIDs of the list, in order
  archivo,         \* the file of a carpincho, Nada if it is not in the list
  cantMarcos,
  disco,           \* what each frame of each file holds
  enSwap,          \* the memory's side: what it has written and not read back
  permiso          \* the memory's side: pages it may still write

registro == <<carpinchos, archivo, cantMarcos>>
vars == <<indefinido, colgado, conectado, casoAsignacion, marcos, registro,
          disco, enSwap, permiso>>

Init ==
  /\ indefinido = FALSE /\ colgado = FALSE /\ conectado = FALSE
  /\ casoAsignacion = "FIJA"
  /\ marcos = [l \in Lugares |-> [indice |-> Nada, pid |-> Nada]]
  /\ carpinchos = <<>>
  /\ archivo = [p \in PIDs |-> Nada]
  /\ cantMarcos = [p \in PIDs |-> 0]
  /\ disco = [l \in Lugares |-> Cero]
  /\ enSwap = [p \in PIDs |-> [g \in Paginas |-> Nada]]
  /\ permiso = [p \in PIDs |-> 0]

-----------------------------------------------------------------------------
(* Vocabulary *)

Atiende == ~indefinido /\ ~colgado /\ conectado
SeRompe == indefinido' = TRUE /\ UNCHANGED <<colgado, conectado, casoAsignacion,
                                   marcos, registro, disco, enSwap, permiso>>

(* The free frames of a file.  hayEspacioArchivo returns the first of      *)
(* them; when there is none its loop runs past the end of the list.        *)
Libres(a) == {m \in Numeros : marcos[<<a, m>>].indice = Nada}
PrimerLibre(a, m) == m \in Libres(a) /\ \A k \in Libres(a) : m <= k

(* The file with the fewest bytes other than '\0', the first of them.      *)
(* Freeing a frame does not erase it.                                      *)
BytesUsados(a) == MapThenSumSet(LAMBDA m : Peso[disco[<<a, m>>]], Numeros)
ConMasEspacio(a) ==
  \A b \in Archivos : \/ BytesUsados(a) < BytesUsados(b)
                      \/ BytesUsados(a) = BytesUsados(b) /\ a <= b

Destino_SinBuscar(p, a) == ConMasEspacio(a)

Destino(p, a) == IF archivo[p] # Nada THEN a = archivo[p] ELSE ConMasEspacio(a)

(* recibirPagina of a carpincho that is not in the list, whose file has no *)
(* free frame.                                                             *)
SinLugar(p, a) == archivo[p] = Nada /\ Libres(a) = {}

(* recibirPagina(PID, ESCRIBIR) *)
ListaCon(p) == IF archivo[p] = Nada THEN Append(carpinchos, p) ELSE carpinchos

ArchivoCon_Siguiente(p, a) == [archivo EXCEPT ![p] = a + 1]

ArchivoCon(p, a) == [archivo EXCEPT ![p] = a]

-----------------------------------------------------------------------------
(* chequearAsignacion.  FIJA decides on the first carpincho of the list;   *)
(* when that is another one it compares the file of carpincho d with file  *)
(* d, and with more carpinchos than files it passes a null pointer to      *)
(* strcmp.  GLOBAL registers the carpincho and asks for a free frame.      *)

FijaRompe(p, lista) ==
  lista # <<>> /\ lista[1] # p /\ Len(lista) > F

FijaPermite_UnoDeMas(p, lista, arch) ==
  \/ lista = <<>>
  \/ lista # <<>> /\ lista[1] = p /\ cantMarcos[p] <= Maximo
  \/ /\ lista # <<>> /\ lista[1] # p
     /\ Cardinality({d \in DOMAIN lista : arch[lista[d]] = d}) < N \div Maximo

FijaPermite(p, lista, arch) ==
  \/ lista = <<>>
  \/ lista # <<>> /\ lista[1] = p /\ cantMarcos[p] < Maximo
  \/ /\ lista # <<>> /\ lista[1] # p
     /\ Cardinality({d \in DOMAIN lista : arch[lista[d]] = d}) < N \div Maximo

AsignacionRompe(p, a, lista) ==
  \/ casoAsignacion = "FIJA" /\ FijaRompe(p, lista)
  \/ casoAsignacion = "GLOBAL" /\ Libres(a) = {}

AsignacionPermite(p, lista, arch) ==
  casoAsignacion = "FIJA" => FijaPermite(p, lista, arch)

-----------------------------------------------------------------------------
(* CASO_ASIGNACION, the first message of the memory *)

CasoAsignacion ==
  /\ ~conectado
  /\ conectado' = TRUE
  /\ casoAsignacion' \in CasosMemoria
  /\ UNCHANGED <<indefinido, colgado, marcos, registro, disco, enSwap, permiso>>

-----------------------------------------------------------------------------
(* PUEDE_ESCRIBIR.  Nothing is set aside for the pages it grants; under    *)
(* GLOBAL the carpincho is registered by the way.                          *)

ListaConsulta(p) == IF casoAsignacion = "GLOBAL" THEN ListaCon(p) ELSE carpinchos
ArchivoConsulta(p, a) ==
  IF casoAsignacion = "GLOBAL" THEN ArchivoCon(p, a) ELSE archivo

HayPaginas_UnaDeMas(a, n) == Cardinality(Libres(a)) + 1 >= n

HayPaginas(a, n) == Cardinality(Libres(a)) >= n

PuedeEscribirRompe(p, a) ==
  /\ SinLugar(p, a) \/ AsignacionRompe(p, a, ListaConsulta(p))
  /\ SeRompe

PuedeEscribirResponde(p, a, n) ==
  LET otorga == /\ AsignacionPermite(p, ListaConsulta(p), ArchivoConsulta(p, a))
                /\ HayPaginas(a, n)
  IN /\ ~SinLugar(p, a) /\ ~AsignacionRompe(p, a, ListaConsulta(p))
     /\ carpinchos' = ListaConsulta(p)
     /\ archivo' = ArchivoConsulta(p, a)
     /\ permiso' = [permiso EXCEPT ![p] = IF otorga THEN n ELSE 0]
     /\ UNCHANGED <<indefinido, colgado, conectado, casoAsignacion, marcos,
                    cantMarcos, disco, enSwap>>

PuedeEscribir(p, a, n) ==
  /\ Atiende /\ Destino(p, a)
  /\ PuedeEscribirRompe(p, a) \/ PuedeEscribirResponde(p, a, n)

-----------------------------------------------------------------------------
(* ESCRIBIR.  The memory writes a page it holds, so one it has not left in *)
(* the swap.                                                               *)

EscribirRompe(p, a) ==
  /\ Libres(a) = {} \/ AsignacionRompe(p, a, ListaCon(p))
  /\ SeRompe

EscribirRechaza(p, a) ==
  /\ Libres(a) # {} /\ ~AsignacionRompe(p, a, ListaCon(p))
  /\ ~AsignacionPermite(p, ListaCon(p), ArchivoCon(p, a))
  /\ carpinchos' = ListaCon(p)
  /\ archivo' = ArchivoCon(p, a)
  /\ UNCHANGED <<indefinido, colgado, conectado, casoAsignacion, marcos,
                 cantMarcos, disco, enSwap, permiso>>

Escrito_AlLado(a, m, d) ==
  [l \in Lugares |-> IF l = <<a, (m + 1) % N>> THEN d ELSE disco[l]]

(* The 64 bytes reach Pisa frames further; past the end of the file they   *)
(* fall in the rest of the mapping and are lost.                           *)
Escrito(a, m, d) ==
  [l \in Lugares |->
     IF l = <<a, m>> THEN d
     ELSE IF l[1] = a /\ l[2] \in (m + 1)..(m + Pisa) THEN Basura
     ELSE disco[l]]

Actualizar_SinPID(a, m, g, p) == [marcos EXCEPT ![<<a, m>>].indice = g]

Actualizar(a, m, g, p) ==
  [marcos EXCEPT ![<<a, m>>] = [indice |-> g, pid |-> p]]

EscribirAcepta(p, a, m, g, d) ==
  /\ PrimerLibre(a, m) /\ ~AsignacionRompe(p, a, ListaCon(p))
  /\ AsignacionPermite(p, ListaCon(p), ArchivoCon(p, a))
  /\ carpinchos' = ListaCon(p)
  /\ archivo' = ArchivoCon(p, a)
  /\ disco' = Escrito(a, m, d)
  /\ marcos' = Actualizar(a, m, g, p)
  /\ cantMarcos' = [cantMarcos EXCEPT ![p] = @ + 1]
  /\ enSwap' = [enSwap EXCEPT ![p][g] = d]
  /\ permiso' = [q \in PIDs |-> IF q = p /\ permiso[p] > 0
                                  THEN permiso[p] - 1 ELSE 0]
  /\ UNCHANGED <<indefinido, colgado, conectado, casoAsignacion>>

Escribir(p, a, g, d) ==
  /\ Atiende /\ Destino(p, a) /\ enSwap[p][g] = Nada
  /\ \/ EscribirRompe(p, a)
     \/ EscribirRechaza(p, a)
     \/ \E m \in Numeros : EscribirAcepta(p, a, m, g, d)

-----------------------------------------------------------------------------
(* LEER.  conseguirMarco returns the position in the whole list, and that  *)
(* is the frame that is read and freed.                                    *)

Indice(l) == (l[1] - 1) * N + l[2]

EsDe(l, p, g) == marcos[l].pid = p /\ marcos[l].indice = g

Conseguir_SinPID(p, g, l) ==
  /\ marcos[l].indice = g
  /\ \A k \in Lugares : marcos[k].indice = g => Indice(l) <= Indice(k)

Conseguir(p, g, l) ==
  /\ EsDe(l, p, g)
  /\ \A k \in Lugares : EsDe(k, p, g) => Indice(l) <= Indice(k)

(* Past the end of the file fgets leaves the buffer as malloc gave it, and *)
(* on a page with a newline it stops early.                                *)
Contenido(a, l) ==
  IF Indice(l) \in Numeros /\ disco[<<a, Indice(l)>>] \in Enteros \cup {Cero}
    THEN disco[<<a, Indice(l)>>] ELSE Basura

LeerPagina_SinLiberar(p, g, l) ==
  /\ archivo[p] # Nada /\ Conseguir(p, g, l)
  /\ cantMarcos[p] > MinCuenta
  /\ cantMarcos' = [cantMarcos EXCEPT ![p] = @ - 1]
  /\ enSwap' = [enSwap EXCEPT ![p][g] = Nada]
  /\ UNCHANGED <<indefinido, colgado, conectado, casoAsignacion, marcos,
                 carpinchos, archivo, disco, permiso>>

LeerPagina(p, g, l) ==
  /\ archivo[p] # Nada /\ Conseguir(p, g, l)
  /\ cantMarcos[p] > MinCuenta
  /\ marcos' = IF Indice(l) \in Numeros
                 THEN Actualizar(archivo[p], Indice(l), Nada, p) ELSE marcos
  /\ cantMarcos' = [cantMarcos EXCEPT ![p] = @ - 1]
  /\ enSwap' = [enSwap EXCEPT ![p][g] = Nada]
  /\ UNCHANGED <<indefinido, colgado, conectado, casoAsignacion, carpinchos,
                 archivo, disco, permiso>>

LeerAusente(p, g) ==
  /\ archivo[p] # Nada /\ \A l \in Lugares : ~EsDe(l, p, g)
  /\ colgado' = TRUE
  /\ UNCHANGED <<indefinido, conectado, casoAsignacion, marcos, registro, disco,
                 enSwap, permiso>>

LeerDesconocido(p) == archivo[p] = Nada /\ SeRompe

Leer(p, g) ==
  /\ Atiende
  /\ \/ \E l \in Lugares : LeerPagina(p, g, l)
     \/ LeerAusente(p, g)
     \/ LeerDesconocido(p)

-----------------------------------------------------------------------------
Next ==
  \/ CasoAsignacion
  \/ \E p \in PIDs, a \in Archivos :
       \/ \E n \in 1..(N + 1) : PuedeEscribir(p, a, n)
       \/ \E g \in Paginas, d \in Datos : Escribir(p, a, g, d)
  \/ \E p \in PIDs, g \in Paginas : Leer(p, g)

Spec == Init /\ [][Next]_vars

-----------------------------------------------------------------------------
(* Every variable holds what the code's type allows: a frame's page and    *)
(* owner (swamp.h, struct marco) and a carpincho's file and counter.       *)
TypeOK ==
  /\ indefinido \in BOOLEAN /\ colgado \in BOOLEAN /\ conectado \in BOOLEAN
  /\ casoAsignacion \in {"FIJA", "GLOBAL"}
  /\ marcos \in [Lugares -> [indice : Paginas \cup {Nada}, pid : PIDs \cup {Nada}]]
  /\ carpinchos \in Seq(PIDs)
  /\ archivo \in [PIDs -> Archivos \cup {Nada}]
  /\ cantMarcos \in [PIDs -> Int]
  /\ disco \in [Lugares -> Datos \cup {Cero, Basura}]
  /\ enSwap \in [PIDs -> [Paginas -> Datos \cup {Nada}]]
  /\ permiso \in [PIDs -> Nat]

(* A frame in use belongs to a carpincho of the list, and lies in the file *)
(* leer_swap opens for that carpincho: recibirPagina and actualizarMarcos  *)
(* agree on the file for ever, whatever the emptiest file is by then.      *)
MarcosDeRegistrados ==
  \A l \in Lugares : marcos[l].indice # Nada =>
     marcos[l].pid \in PIDs /\ archivo[marcos[l].pid] = l[1]

(* The frames a carpincho really has.                                      *)
Usados(p) == {l \in Lugares : marcos[l].indice # Nada /\ marcos[l].pid = p}

(* The counter the assignment scheme decides on never exceeds the frames   *)
(* the carpincho has, and with one file it is exactly that number          *)
(* (actualizarCarpincho against actualizarMarcos).                         *)
CuentaDeMarcos ==
  \A p \in PIDs : /\ cantMarcos[p] <= Cardinality(Usados(p))
                  /\ F = 1 => cantMarcos[p] = Cardinality(Usados(p))

(* Under FIJA and with one file the first carpincho never has more than    *)
(* marcos_maximos frames, reads and rewrites included (chequearAsignacion).*)
CupoDelPrimero ==
  casoAsignacion = "FIJA" /\ F = 1 /\ carpinchos # <<>> =>
    Cardinality(Usados(carpinchos[1])) <= Maximo

(* With one file and pages of 64 bytes, what leer_swap would send for a    *)
(* page the memory has left in the swap is what escribir_swap was given.   *)
LeeLoEscrito ==
  \A p \in PIDs, g \in Paginas :
     /\ enSwap[p][g] # Nada =>
          \E l \in Lugares : Conseguir(p, g, l)
     /\ enSwap[p][g] \in Enteros =>
          \A l \in Lugares : Conseguir(p, g, l) => Contenido(archivo[p], l) = enSwap[p][g]

(* Under GLOBAL, while no other carpincho writes, the pages puede_escribir *)
(* granted can be written: a granted write is not refused and finds a      *)
(* frame.                                                                  *)
PermisoVale ==
  [][\A p \in PIDs, g \in Paginas, d \in Datos, a \in Archivos :
        casoAsignacion = "GLOBAL" /\ permiso[p] > 0 /\ Escribir(p, a, g, d) =>
           ~indefinido' /\ enSwap'[p][g] = d]_vars
=============================================================================
