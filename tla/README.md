# CarpinchOS: verification

This directory holds the TLA+ specifications of the operating-system simulator in `src/`
(kernel, memoria, swamp-v2 and the client library matelib), the TLC configurations that check
them on small instances and the TLAPS proofs of what holds for every instance.

## 1. The system

Four programs talk over TCP, each message a request answered by the other side.

```
 carpincho --matelib--> kernel --(one shared connection)--> memoria --(one connection)--> swamp-v2
```

| Part | State it keeps | Operations | Shares / talks to |
|---|---|---|---|
| **matelib** (`matelib/src/matelib.c`) | the connection of one carpincho | `mate_init`, `mate_close`, `mate_sem_*`, `mate_call_io`, `mate_memalloc/free/read/write`: pack the whole instance, send, wait for the reply | kernel or memoria |
| **kernel: scheduler** (`kernel/src/kernel.c`) | lists of PCBs NEW, READY, BLOCKED, SUSPENDED_BLOCKED, EXIT; IO queue; named semaphores; CPUs; POSIX semaphores; the flags `planificacion` and `uso` | accept loop; long-, short- and medium-term planners; IO planner; finaliser; one thread per CPU that serves the requests of the process it holds | all threads share the lists, each list with its mutex |
| **kernel: deadlock detector** | the PIDs followed in a sweep | looks periodically for cycles between blocked processes and semaphores, terminates a victim | lists and semaphores of the scheduler |
| **kernel: relay** | `conexionMemoria` | CPU threads forward memory requests and read the answers; the finaliser sends PROCESS_ENDED | memoria, one connection for all threads, no lock |
| **memoria: server** (`server.c`) | one thread per connection, the mutex `luz_roja_memalloc` | decode, run one operation, answer | memory.c |
| **memoria: heap** (`memory.c` 1270-2849) | per carpincho: list of allocs (address, size, free flag) | `memory_memalloc`, `memfree`, `memread`, `memwrite`, `memory_memfree_all`, compaction | paging |
| **memoria: paging** (`memory.c` 430-1740) | page tables, frames, LRU / modified / use bits, TLB | create a page, find it, swap it in, choose a victim (LRU, M-CLOCK), TLB (LRU, FIFO) | swamp client |
| **memoria: swamp client** (`client.c`) | the connection to swamp | ask for room, write a page, read a page, announce the assignment | swamp |
| **swamp-v2** (`swamp-v2/src/swamp.c`) | swap files of frames, the frames' owners, the carpinchos and the file each one is bound to | `puede_escribir`, `escribir_swap`, `leer_swap` | memoria |
| signals and dumps (`memoria/src/signals.c`) | none | print statistics, clean the TLB | paging |
| `sockets-c/`, `memoria/src/tests*` | - | demonstration and test programs | - |

### What is hard about it

* **Concurrency in the kernel.** Each mutex protects one list operation, never a search and the
  removal that follows it. Flags (`uso`, `planificacion`, `IO_finished`, `status`) are read and written
  by several threads without a lock. Two locks of one mutex in a row stop the medium-term planner.
* **Ordering.** A request may be queued before the process is where the answering thread looks
  for it; a reply may be sent before the process it answers is scheduled again.
* **Resources.** Places (GRADO_MULTIPROGRAMACION), frames, TLB entries and swap frames are
  counted in one place and used in another.
* **A detector beside them.** It walks the lists of the others by index, and what it finds there may have moved; it
  takes processes away without telling the semaphores that count them.
* **Protocol.** Every connection carries one request and one reply at a time and has no message
  boundaries: a reply not read, or not sent, shifts or stops everything behind it.

## 2. Modules

| Module | Models | Kind |
|---|---|---|
| `Kernel` | the scheduler with all its threads, and the carpinchos | specification |
| `KernelProofs` | lemmas on lists, the types, the inductive invariant and the theorems of `Kernel` | proofs |
| `Swamp` | the swap server and what its one client has asked of it | specification |
| `SwampProofs` | types, the file of a frame, "read what was written", counters, quota, permission | proofs |
| `Plana` | what the memory promises: flat pages that keep what was written | abstract specification |
| `Paginacion` | frames, TLB, replacement and the swap traffic of the memory | specification, refines `Plana` |
| `PaginacionProofs` | types, TLB, and no inconsistent branch, under any policy and with compactions; without compactions, one place per page, quota, the hand of M-CLOCK and the refinement of `Plana` | proofs |
| `KernelMemoria` | `Kernel` with the connection to the memory: relay, notice of the end, the thread that answers | composition, refines `Kernel` |
| `KernelMemoriaProofs` | the refinement, the invariants it carries over, the account of the answers | proofs |
| `KernelUnaCPUProofs` | with one CPU: where a PCB is, what its status says, how many replies it is owed, what travels to the memory and back | proofs |
| `KernelDeadlock` | `Kernel` with the thread that looks for deadlocks | composition, carries `IInv` of `Kernel` |
| `KernelDeadlockProofs` | the account of `Kernel` beside the detector, whom it terminates, the race of `restarSem` | proofs |
| `MemoriaSwamp` | `Paginacion` over `Swamp`, with the client's exchanges | composition, refines `Paginacion` and `Plana` |
| `MemoriaSwampProofs` | the two refinements and the invariants of the composition | proofs |
| `Allocs` | the list of allocs of one carpincho and its page count | specification |
| `AllocsProofs` | the tiling of the space, headers inside the pages, page counts and quota, the copies | proofs |
| `MCKernel`, `MCKernelMemoria`, `MCKernelDeadlock`, `MCSwamp`, `MCPaginacion`, `MCMemoriaSwamp`, `MCAllocs` | symmetry and the values of constants a `.cfg` cannot write | TLC |

Names follow the source (Spanish). A definition with an underscore in its name (`OpWait_UnoDeMas`)
is a plausible slip in the definition it is named after: it takes no part in a specification and
is there to show that a property notices it.

### 2.1 `Kernel` (kernel.c, utils.c, the requests of matelib.c)

| TLA+ | Code |
|---|---|
| `fase`, `pedido`, `deuda`, `ops` | a carpincho and its connection: connected, accepted, closing; the request in the socket; requests written minus replies written; requests made (bound) |
| `pcb` | the fields of a PCB the scheduler tests (`status`, `semaforoRequerido`, `IO_finished`, `PID`) |
| `new`, `ready`, `blocked`, `suspendedBlocked`, `exit`, `colaIO` | the lists and the IO queue |
| `sem` | the POSIX semaphores, one number each |
| `semaforosKernel` | the named semaphores of the carpinchos |
| `planificacion`, `uso` | the globals of the same name |
| `llegando`, `plp`, `pcp`, `pio`, `pmp`, `cpu` | each thread: a program counter and what it holds in local variables |
| `liberados` | the PCBs the finaliser has freed |

An action is a run of statements that no other thread can tell apart from one step: a thread stops at
each `sem_wait` and wherever it acts on something it read earlier (`restarSem` after its test, the
IO flag after the search, the planner between reading the first of a list and removing it). The list
operations are atomic, each being under its mutex. Where the program dereferences a null or
uninitialised pointer, writes freed memory or lets two threads read one connection, `indefinido`
becomes true and nothing follows. The bursts and estimates of SJF and HRRN are times: the choice
among the candidates is nondeterministic. A memory request is answered in one step here
(`KernelMemoria` takes it apart). Left out: the
`default` branch of a request no carpincho sends and `suspendidoAListo` (its thread is never created).
`KernelDeadlock` adds the detector.

### 2.2 `Swamp` (swamp.c)

An action is one request served to the end, for the server is one thread with one client. The list of
frames is a function on `<<file, frame>>`; the list of carpinchos is its order plus a function per
field (a carpincho is added only after a search for its PID failed). `disco` is what each frame
holds; `Peso` is how many bytes of a page are not zero, which is what `archivoConMasEspacio` counts.
`enSwap` and `permiso` are the client's side: what the memory has left in the swap and how many pages
it may still write. Modelled as they are: the loop of `hayEspacioArchivo` that runs one past the end
(`indefinido` when a file is full), `memcpy` of 64 bytes whatever the page size (`Pisa`), `fgets`
stopping at a newline (`Enteros`), the position in the whole list used as a frame of one file
(`Conseguir`), a read of a missing page that sends no answer (`colgado`), and the null file of FIJA with
more carpinchos than files. The bytes a page may leave past the end of a file are lost.

### 2.3 `Plana` and `Paginacion` (memory.c 430-1740, 2649-2706, client.c)

A step is a call of the allocator on one page: create it, read it, write it, take it away in a
compaction, or the end of a carpincho. The memory serves the calls under `mutex_memalloc`; the end of a
carpincho does not take it, and is here between two calls only. `pag` holds each `t_pagina`, `marcos`
the page each frame belongs to, `cache` what each frame holds, `tlb` the entries, and
`algoritm_stack_pointer` the hands of M-CLOCK, one per carpincho and one for all. The swap is what
`client.c` sees: a write stores a page, a read hands it over, and a page that is not there is never
answered. `estado` is an absorbing cause for each way the memory stops (hang, no victim, hand past the
end of the list, freed page, full swap, a branch the code itself calls inconsistent). Page contents are
opaque; `Enteros` are those that survive the trip to the swap as a string, `Roto` what comes back of the
others. Time stamps exist under LRU only, and ties are left to the sort.

`Plana` is the abstract memory: `cantidad` pages per carpincho, each holding what was last written.
`Paginacion` implements it under `mem[c][n] <- Guarda(<<c, n>>)`, the content of the page's frame if it is
present, of the swap otherwise, blank if it is nowhere.

### 2.4 `KernelMemoria` (kernel.c 992-1226, server.c 51-182 and 217-399)

`Kernel` plus the one socket between the kernel and the memory. `aMemoria` holds the requests on their way,
`deMemoria` the answers, `relay` what each CPU is reading in `serializar_instancia`, `terminados` the processes whose
memory is released. `de` and `nro` in a message are history: the bytes do not say whom an answer is for, and
`ajena` records that a carpincho got another's. A request is of kind `PALABRA` (answered with one word) or
`LECTURA` (MEMREAD, answered with a length and the bytes, or with -6 alone). The values let one tell
a word from a length only in part: an address (9 or more) or an OK (4, 5, 7) is taken for a length, -6 or -4 for a negative
one. `enlace` says how the conversation ended, if it did. `MemColgarse` is `lectura_swamp` waiting for a page that
the swap does not have: the mutex of the allocator stays taken and the thread never answers again. `FinalizarConAviso`
replaces `Finalizar`: the notice carries the PID of the PCB, and nobody reads its answer. With `CPUAparte`, the other
steps of `Kernel` are taken as they are.

### 2.5 `MemoriaSwamp` (memory.c, client.c and swamp.c together)

The variables of `Paginacion` without its idealised `enSwap`, those of `Swamp`, the pages granted and not yet created
(`pedidas`) and the replacement under way (`saliente`). A replacement takes two steps, `Sacar` (choose the victim and
write it to the swap; the answer is read and dropped) and `Traer` or `Ocupar` (read the page asked for, or blank the
frame, then the tables). `Pedir` is the request for permission whose answer, -1 included, is `true` in a `bool`.
`Paginacion` is instantiated with `enSwap <- EnSwapVisto`: what the server would send of each page, a page
that is leaving being still in the memory. The constants of `Swamp` are tied to those of the memory (`Caso`,
`CapSwap`). The memory dies with the swap, of its next `send`.

### 2.6 `KernelDeadlock` (kernel.c 158-491)

`Kernel` plus one thread, `det`: where it is in `chequearDeadlock` and the functions it calls, the index of the sweep,
the PID it looks for and the process it found. Each function that walks a list once is one step; the other threads
run between them, for the detector takes a list's mutex element by element. `enDeadlock` is `procesosEnDeadlock`, `muertos` the
processes `terminarProceso` has freed, `orden` the named semaphores in the order of their list, which matters because
every search of the detector stops before the last element. A semaphore of that list is a `t_sem_kernel` of 24 bytes
read as a `semaforo`, whose `PID` would be the next four bytes of the heap: `leidos` is the set of values they may have in an
execution, a number that is nobody's PID (`Ajeno`) or somebody's. `indefinido` becomes true when the detector
writes there, takes a PID for an address, compares with a null name, or removes past the end; and when another thread
still has a process that was freed (`UsarMuerto`). The carpinchos follow a script (`guion`): requests in an order, though a
request does not wait for the answer of another carpincho's. A script is a bound on the environment only; the theorems are for any script.

### 2.7 `Allocs` (memory.c 1270-1282 and 1880-2849)

A step is a whole call of `memory_memalloc`, `memory_memfree`, `memory_memread`, `memory_memwrite` or
`memory_memfree_all` for one carpincho, whose heap no other call reads. An alloc keeps its three
fields; the headers written in the pages are never read back, so they are kept only as "was there a
page to write it in" (`Persistidos`). `colgante` says that the first page of the list is a structure
`compactar_pagina` has freed; a call that reads it ends in `indefinido`. An address that goes below 0
(`desbordado`) is where the model stops: the code wraps around 2^32. `desordenado` is a history
variable, set when an alloc other than the first is split; what is claimed of the tiling holds until then
(finding 2). `Fuente` is the arithmetic of the copy over several pages.

## 3. Runs

Twelve runs; the bounds are the smallest in which the behaviours named below happen.

| Run | Instance | What it shows |
|---|---|---|
| `kernel_memoria` | 2 carpinchos, 1 CPU, 1 semaphore, GRADO 2, 2 requests each of every kind, the memory's connection | how many answers the connection holds; when an answer can be another's; the memory of a process is released once and after its last request; a PCB is in one list or in a planner's hands; one reply per request; lists agree with `status` |
| `kernel_suspension` | 3 carpinchos for 2 places, IO, SJF and HRRN | places plus processes inside are GRADO, the inductive invariant (with it, nobody pops an empty list), through suspension and also once the medium-term planner has wedged |
| `kernel_deadlock` | 3 carpinchos, 1 or 2 CPUs, 2 semaphores, five scripts, the holder of a semaphore read as nobody's PID or as one carpincho's, fairness of the detector | whom the detector terminates; that a sweep ends; the unprotected test of `restarSem` costs at most one unit per extra CPU |
| `kernel_memoria_fin` | 2 carpinchos, 2 CPUs on the connection, memory requests, SJF and HRRN, fairness, no symmetry | the composition implements `Kernel`; a relayed request is answered while the memory lives; a memory that hangs stops neither the release of finished processes nor admissions |
| `swamp_un_archivo` | 1 file of 3 frames, 2 carpinchos with 2 pages, FIJA and GLOBAL, `marcos_maximos` 1 | a page is read as written, counters are the frames, FIJA's quota, granted pages can be written |
| `swamp_archivos` | 2 files of 2 frames, pages of 32 bytes (`Pisa` 1) | a carpincho's frames stay in its file although the second file's are never freed |
| `memoria_swamp` | 2 frames, 2 TLB entries and a swap of 2 frames for 2 carpinchos with 2 pages, LRU, LRU, DINAMICA/GLOBAL | the server is the swap `Paginacion` supposes; the memory is flat end to end; no stale or doubled translation; no read goes unanswered; when the swap breaks, nothing is free anywhere |
| `paginacion_fija` | 3 frames, 2 carpinchos with 3 pages and 2 frames each, M-CLOCK, FIFO | no page lost or doubled; quota; the hand of M-CLOCK stays in its list; the memory is flat |
| `paginacion_quita` | M-CLOCK under DINAMICA with compactions and a swap of one page | even then no TLB entry is stale and no branch the code calls inconsistent is taken |
| `paginacion_compacta` | 2 frames, compactions | violation: two frames of one page (finding 1) |
| `allocs_fija` | requests of 3 and 23 bytes, 3 pages of 32, quota 2 | tiling, united neighbours, headers inside the pages, faithful copies, exact pages, quota |
| `allocs_solapes` | the same | violation: two allocs overlap (finding 2) |

Why the bounds are enough for the question. *Kernel*: two carpinchos are needed for every race on a list
and three for suspension to free a place someone waits for; one carpincho more than GRADO makes the
account tight; two CPUs make the race on a named semaphore. *KernelDeadlock*: the last of processBlocked and the last of the
semaphores are never looked at, so three processes and two semaphores are the least in which a search finds something; the
scripts are the situations the detector distinguishes (three wait for one semaphore; an orphan of a DESTROY whose semaphore
is created again and posted; two wait at once for a semaphore of value one, for one that is destroyed, for the last of the list). *Swamp*: two carpinchos and two pages share
one file of three frames, so the file fills up, quotas bite and frames are reused; two files are the
least in which the emptiest one changes. *MemoriaSwamp*: four pages for two frames and two places in the swap fill
both to the last, one page more than fits being what the ignored refusal lets in. *Paginacion*: fewer frames than pages, fewer TLB entries than
frames, so that each eviction happens; `MaxReloj` bounds the time stamps of LRU, which have to grow past
the number of frames and entries for a wrong order to show. *Allocs*: 3 and 23 with a page of 32 give all
the cases of a split (exact, too small to split, remainder that fits nothing), an alloc across two
pages, and 8 bytes left, less than a header; the sizes 14 and {3, 14, 23} were also run to the end.

`CHECK_DEADLOCK FALSE` is in every configuration: carpinchos close and owe nothing more, the kernel's
threads wait for ever on their semaphores, and an undefined or hung state has no successor.

**Fairness.** Two runs need it. `kernel_deadlock`: weak fairness of the detector, which waits for nobody (mutexes of one
element's access apart): the host runs it. `kernel_memoria_fin`: weak fairness of each thread's steps (the accept loop, each
planner, the finaliser, each CPU) and of the memory's thread. The host schedules a runnable thread sooner or later; the
semaphores the properties rest on have one waiting thread each, and a byte that is in a socket stays there until it is
read, so weak fairness is enough. Carpinchos owe nothing: one may stop asking for ever. The swap owes nothing
either: the memory may hang on any request (`MemColgarse`) and then `MemAtender` is no longer enabled. The
properties say "or `indefinido`", and "or the connection lost its meaning", for after that nothing is promised.

## 4. Findings

1. `paginacion_compacta`, `UnMarcoPorPagina`. `compactar_pagina` (memory.c:2667) takes the page out of the
   list and keeps its frame; the next page created takes the same number, and two frames belong to one
   page, which memory.c:1098 reports as an error.
2. `allocs_solapes`, `SinSolapes`. `list_get_index_alloc` (memory.c:1886) compares an alloc with itself, so the
   remainder of a split always goes to position 1, not "a la derecha del alloc original" (memory.c:1999); a
   later memalloc at the end of the list overlaps a live alloc.

Disagreements met while modelling, which the modules keep as the code has them, without a run of their own:

* memory.c:533 (the counters of hits and misses are left out) counts a TLB hit for an access that was a page fault.
* memory.c:525 and 1631: under an LRU TLB an entry is stamped by two different clocks, so the entry replaced
  may be one used more recently than another.
* memory.c:2843: the frames of a carpincho that ended are never given back.
* memory.c:1187: under M-CLOCK a page that was never modified is not sent to the swap when it is
  replaced; the next access asks the swap for it and waits for ever (`estado = "colgada"`).
* client.c:154: the length of a page sent is `strlen`, so a page with a zero byte is cut.
* memory.c:1897: the answer 1 or -1 of the swap is stored in a `bool`; a refused request is taken as granted, although
  memory.c:2349 creates the carpincho "hasta estar seguros q vamos a poder darle memoria" only. `MuereLleno` says how
  far that goes with one file; under FIJA with `marcos_maximos` below the pages a carpincho swaps out, TLC
  (`Caso` FIJA, `Maximo` 1) finds the refused page lost and its next access waiting for ever.
* server.c:231 announces "cod error y la direccion" and sends the address alone: a MEMALLOC that fails hands -4 to
  the carpincho as its pointer.
* kernel.c:1221: nobody reads the answer to PROCESS_ENDED, so after the first process that ends every answer is that
  of the request before (`RespuestasDeMas`); kernel.c:1063 then takes a word for a length.
* server.c:82: `recibirOperaciones` goes on calling `recv` on a connection that was closed; a carpincho that talks to the
  memory without the kernel and closes is told -10, for its FINALIZACION is read as a type and not as an operation.
* memory.c:2666: `compactar_pagina` frees the structure of the page after the one it removed.
* memory.c:2488 and the two other copies: right for accesses of one or two pages, wrong from the third on.
* memory.c:2568: a tracing `printf` applies `->` to a `void *`, which a C compiler rejects; the module
  is written as if the line were not there.
* swamp.c:703: with two files the page read is not always the page written (`LeeLoEscrito` is false with
  `F = 2`, and with `Pisa = 1`).
* kernel.c:256: comments there expect a semaphore to have a holder; none ever has, so the detector never breaks a deadlock and
  what it terminates are the processes a DESTROY left with PID -1, the value a search that finds no cycle returns
  (`SoloHuerfanos`). Such a process is freed without an answer and its place is not given back.
* kernel.c:467: who waits for the last semaphore of the list, or for one destroyed, has its `semaforoRequerido` set
  to null: no later POST finds it, and a `strcmp` with it is undefined.
* kernel.c:649: the reply to the INIT of a semaphore precedes what the comment at 126-127 says it follows.
* signals.c: SIGUSR2 does not clear the TLB; SIGUSR1 dumps a list nothing fills.

## 5. Proofs

TLAPS checks the forty-seven theorems listed here and the lemmas they rest on, for any number of carpinchos, CPUs, semaphores, files, frames and pages.

**Kernel** (assumption `KernelAssumption`: GRADO positive, finitely many carpinchos and CPUs, `Nada` is not one of them).
`Invariante` is `Spec => []IInv`. `CupoConservado` (places left plus processes inside are GRADO) is not
inductive alone: that a step keeps it depends on *who* holds a process. `IInv` adds to it, besides the types:

* `NadieSacaDeVacia`: each semaphore counts the elements of its list, minus what a planner past its `sem_wait` has
  not taken yet; without it a pop could take garbage;
* `HilosConProceso`, `CPUOcupada`: a thread past its semaphore holds a process that entered, and a CPU is BUSY exactly
  from the post of its semaphore to the end of its service;
* `ListasDeEntrados`, `NuevosDistintos`: the lists hold processes that came out of NEW, and NEW holds each once;
* `UnSoloFin`: the FINALIZACION of a carpincho is in one place (its socket, one CPU, one entry of `exit`), so its
  place is given back once.

`KernelProofs` begins with lemmas on removing from and adding to a list and that each action keeps the types, and goes on
with one lemma per thread (`PLPInv`, `PCPInv`, ..., `CPUInv`) and a QED over `Next`. `TiposCorrectos`,
`CupoSiempreConservado` and `NadieSacaNuncaDeVacia` follow; `PCBNuncaCambiaEnUso` is an action property from the
same invariant (`CPUOcupada`: a FREE CPU is idle).

**KernelMemoria** (assumptions `KernelAssumption` and `MemoriaAssumption`). `ConexionImplementaKernel`
is `SpecMemoria => Spec`: an exchange's sends and receives stutter, the step that hands the answer over is `OpMemoria`,
whatever the answer. `InvarianteConMemoria` carries `IInv` over. `UnaRespuestaDeMasPorFin` proves `RespuestasDeMas` with
the strengthening `InvMemoria`: besides the types, a CPU waits for the memory only while it holds a MEMORIA
request, and each release adds exactly one PCB to `liberados` (from `UnSoloFin`); the rest is counting, so it
rests on lemmas about the positions of a sequence after `Append` and `Tail`.

**The kernel with one CPU** (`KernelUnaCPUProofs`; hypothesis `UnaCPU`, that is GRADO_MULTIPROCESAMIENTO = 1, the value of
the runs that check these properties; the hypothesis cannot be dropped: a post or the end of an IO may wake a process before the CPU that
blocked it has left it, another CPU then takes it, and with two CPUs TLC finds each of the three violated). `UnSoloLugarConUnaCPU` and
`ListasYEstadosConUnaCPU` prove `UnSoloLugar` and `ListaConcuerdaConEstado` from `UnLugar`, in four parts:

* `SinRepetir`: `ready`, `blocked` and `suspendedBlocked` repeat nobody, and the last two share nobody;
* `EstadoDice`: the status of a PCB tells the list it is in, or that it is in none; that tells apart the pairs of lists
  `SinRepetir` says nothing of. A process not yet admitted is NEW, and so is the one between `new` and `ready`;
* `CPUSirve`: the CPU serves a process that is EXEC, and the one an IO is about to put in `blocked` is BLOCKED and in neither
  list. This is what a second CPU breaks;
* `HRRNParado`: under HRRN nobody is ever assigned a CPU, so nothing there ever runs (`planificarPorHRRN` marks one EXEC and leaves it in ready).

`UnaRespuestaConUnaCPU` proves `UnaRespuestaPorPedido` from `Cuenta`: the reply a carpincho waits for is in one of four
places (main has not greeted it, its request is in the socket, the CPU has it, it is in the flag of its IO), and `deuda` counts exactly
those. `UnaCPUConMemoria` carries the three over to `SpecMemoria`, by `ConexionImplementaKernel`.

Two more are about the connection. Both rest on `CerradoSinDeuda` (who has closed is owed nothing) and on `Cuenta`: a CPU in a MEMORIA
request owes its process the reply, so the process has not closed and sends nothing else, and no thread but that CPU changes what it
relays (`SigueEnOp`).

* `RespuestaPropiaSiempre` (`RespuestaPropia`; one CPU is a premise of the property, so the theorem has no hypothesis) from `InvPropia`: until a process
  ends, all there is on the connection is the request of the CPU that waits or its answer, of the kind that CPU expects (`EnTransito`).
* `FinEnOrdenConUnaCPU` (`FinEnOrden`) from `InvFin`: a PROCESS_ENDED names a process that was freed and not yet released by the memory,
  nothing of that process is behind it in the queue, and each freed process that kept its PID has one, on its way or served. It has the hypothesis `UnaCPU`
  because with two CPUs TLC finds `FinEnOrden` violated: a spare reply lets a process close while a request of its own waits in the other CPU.

**KernelDeadlock** (assumptions `KernelAssumption` and `DeadlockAssumption`: `Ajeno` is nobody's PID, scripts are made of
requests). `InvarianteConDetector` is `SpecDeadlock => [](IInv /\ TipoDetector)`: a step is one of `Kernel`'s with the detector
where it was, one of the detector's, or the end of the defined behaviour (`PasoPartido`); one of the detector's only
takes a process out of `blocked`, adds one to `ready` or erases a `semReq` (`DetMarco`), and `IInv` asks that `ready` have *at least*
what its semaphore announces. `TerminaSoloHuerfanos` proves `SoloHuerfanos` with `InvHuerfanos`: if no semaphore reads as a
process's PID, the cases of a cycle and of a process that holds what it waits for need a PID that is none, so what is left to
terminate is the PID -1; and a PID, once -1, stays -1 (`PidSigue`). `SemaforoSiempreAcotado` and `SemaforoAcotadoConDetector` prove
`SemaforoAcotado` without and with the detector, from `InvSemaforos`: the value of a semaphore, minus the CPUs that have
tested it and not yet decremented it, never goes below 1 minus the number of CPUs.

**Swamp** (assumption `SwampAssumption`). `SwampTipos`; `SwampRegistrados` (every frame in use lies in the file opened
for its owner) is inductive with the types; `SwampLeeLoEscrito`, for one file and pages of 64 bytes (`F = 1`,
`Pisa = 0`, hypotheses of the theorem because the property is false without them), needs `Guardado`: a page is in
the swap for the memory exactly when one frame says so, that frame is unique and holds its bytes.

* `SwampCuenta` (`CuentaDeMarcos`) is about a cardinality: `Escribir` adds at most the one frame it writes to the frames of a
  carpincho, and `Leer` takes out at most one (`UsadosEscribir`, `UsadosLeer`); the rest is the library's
  theorems on finite sets.
* `SwampCupoDelPrimero`: of the first carpincho of the list only, because with the position in the whole list used as a frame
  of a file nothing of the kind holds of the others. A first carpincho stays the first: the list only grows.
* `SwampPermisoVale` is an action property. Under GLOBAL the free frames of a file are those the counters of its
  carpinchos leave (`Reservado`), so what `puede_escribir` granted is still free if nobody else wrote; before the
  memory connects nobody is registered (`SinConexion`).

**Paginacion** (assumption `PaginacionAssumption`; `IsFiniteSet(Carpinchos)` is there for the proofs, since the list of the pages of
all carpinchos has a last element only if there are finitely many). `PaginacionProofs` has two parts, by what the theorems suppose.

The first supposes nothing more: any policies, compactions included. `PaginacionTiposYTlb` proves
`TypeOK /\ TlbAlDia` (`PaginacionTipos` is its first half), together because an access through the TLB trusts the entry for the type of the frame.
`PaginacionSinInconsistencias` needs `PresentesEnMarco`: under DINAMICA a present page is in the frame it names, which is all that
survives of "one place per page" when `compactar_pagina` takes pages away; under FIJA the choice of the victim looks at
the frames themselves. `FormaDeCrear` and `FormaDeAcceder` reduce each operation to the few ways in which it touches frames and pages
(a free frame, a victim's, its own from the swap, none); every later invariant is proved against these forms only.

The second has the hypothesis `Compacta = FALSE`. It is needed: finding 1 is the counterexample with it `TRUE`.

* `PaginacionUnLugar` (`PaginaEnUnLugar`), from `Lugares`: a carpincho with pages is alive (`CantidadVivos`), a frame of a
  living carpincho names a present page that names it (`MarcosEnUso`), and a present page is in its frame and not in the
  swap, while one that is in neither place was never modified and M-CLOCK is the policy (`Ubicadas`). A carpincho that ended keeps its
  frames, so the three speak of the others.
* `PaginacionTlbCoherente`: no page and no frame twice in the TLB (`SinDobles`), from `TlbAlDia` and `Lugares`.
* `PaginacionCupo` (`CupoFija`): a replacement under FIJA takes a frame of the carpincho itself, so only the guarded case adds one.
* `PaginacionPuntero` (`PunteroEnLista`), from `PunteroAdentro`: the hand is below the number of pages in frames, or both
  are zero. That the position it names exists is the pigeonhole `UltimaVictima`: the page with the largest frame has
  `Cardinality - 1` pages before it; the largest exists by the least number principle (`MenorNatural`).
* `PaginacionPlana` (`MemoriaPlana`, that is `Spec => P!Spec`): every step is a step of `Plana` or a stutter under the refinement mapping. It has a
  second hypothesis, `Enteros = Contenidos \cup {Vacio}`: pages with a zero byte inside come back cut (client.c:154), and a
  memory that cuts pages is not flat. Its invariant `Sanos` adds to `Lugares` that nothing is `Roto`, a free frame is
  blank, and under M-CLOCK an unmodified page is blank and has no copy in the swap. `GuardaContiene` says once what a
  page that enters a frame does to the content of every page; the actions are instances of it.
* `PaginacionUnMarco` (`UnMarcoPorPagina`), from `Separadas`: a page in a frame has no copy in the swap, and under DINAMICA while a frame is
  free nothing is in the swap at all. These two speak of the pages of ended carpinchos as well, which `Lugares` leaves out.

**MemoriaSwamp** (assumption `MemoriaSwampAssumption`: what `Paginacion` and `Swamp` assume of the constants they share; the word `"crear"` and
the marks of a replacement are told apart). The theorems have the hypothesis `SwapChica`: one file, pages no longer than a `memcpy` of `escribir_swap`
and global assignment. None can be dropped: with two files, with longer pages or under FIJA (where the server refuses pages the memory then loses) TLC
finds `SwapIdeal` violated on the run's instance. `TlbCoherente`, `SiempreContesta` and `MuereLleno` ask for less in their own statements, and TLC finds
them to hold in those three variants too; what is proved of them is under `SwapChica`, because they are derived from the refinement.

The lemmas of `PaginacionProofs` and `SwampProofs` are cited through their instances, so nothing is proved twice; `MismosPasos` and its neighbours say that
`MemoriaSwamp`'s own instances mean the same. The invariant is `Bien`, TLC-checked on the run's instance with LRU and with M-CLOCK:

* `SwapBien` and `MemoriaBien`, the invariants of the two parts (`Guardado`; `Lugares`, `TlbAlDia`, `Separadas`), the memory's about the swap it
  *sees* (`EnSwapVisto`);
* `Enlace`: whoever has asked for pages has a file in the server (`Conexion`), pages granted fit the carpincho (`Pedidos`), and, of a replacement under
  way (`EnCurso`), the victim still has its frame, what the swap holds of it is what the frame holds, or nothing if it was not sent, and the page it is for is
  in no frame and no TLB entry.

`BienPaso` maps each step: the first half of a replacement stutters, unless there is no victim or no room; the second half is the whole replacement.
That the swap is full for the memory exactly when the server's file has no free frame is a bijection between frames in use and
pages left there (`CuentaSwap`), and that the second half never meets a full swap is `SwapConLugar`. `MemoriaSwampIdeal` (`Spec => Mem!Spec`) and
`MemoriaSwampServidor` (`Spec => S!Spec`) are the two projections; `MemoriaSwampPlana`, with the second hypothesis of `PaginacionPlana`, and
`MemoriaSwampTlb` follow from the first and the theorems of `Paginacion`; `MemoriaSwampContesta` from `ContestaPaso` (under LRU a page in no frame is in
the swap), and `MemoriaSwampMuereLleno` from `CuentaSwap` and `Separadas`: a server without a free frame means a swap with pages, so no frame of the memory is free.

**Allocs** (assumption `AllocsAssumption`: a page is larger than a header, sizes are naturals). The inductive invariant is
`TypeOK /\ Embaldosado /\ LibresSeparados`, the three being needed together: a page removal lowers the addresses by the size of *one*
alloc, which is right because a page with nothing but free allocs begins exactly one (`SoloElPrimero`, from `LibresSeparados`), and that one is
at least as long as the page if anything follows it (`CompactadosSeguidos`, from `Embaldosado`). The proofs are about lists, in four steps:

* `Ocupado` and the lists a removal goes through are recursive functions; what they are is proved by exhibiting a function that satisfies the
  same equation (`OcupadoEs`, `QuedanEs`) and an induction over the positions of the list (`Induccion`, from the least counterexample, which the
  well-founded order of the naturals gives). `Telescopio` then says that the sum of a tiled list is the end of its last alloc.
* what each change does to a list: `Append`, a split (`ParteTipos`, `ParteSeguidos`), a union (`UnidoEs`, `UnidoSeguidos`, `UnidoSeparados`), a page
  removal (`CompactadosEs`, `CompactadosSeguidos`). The split keeps the tiling for the first alloc only: its remainder goes to position 2.
* `CantidadJusta`, the page arithmetic, gives `AllocsPaginasJustas` and `AllocsCupo`, which hold out of order as well.
* `AllocsCabecera` follows step by step: in a tiled list every alloc ends inside the pages (`HastaElFinal`, `ConPaginaEnOrden`), and an alloc of one byte or
  more is found by its own address.

`AllocsSinSolapes` says when finding 2 cannot happen: `SinSolapes` holds as long as only the first alloc has been split. `AllocsCopiaFiel` is
arithmetic on pages (`EnCociente`, `FuenteFiel`).

Every safety and action property of the passing runs, and every refinement, is a theorem, some under the hypotheses given above. Model-checked only: liveness, which
is out of TLAPS's reach (`BarridoTermina`, `RelaySeContesta`, `LlegadaAunqueCuelgue`, `FinAunqueCuelgue`).

## 6. Not modelled

* In the deadlock detector: that the bytes past a `t_sem_kernel` read as -1, and other threads between the lookup of a name and the
  change of the list in INIT and DESTROY. The commented-out second version (kernel.c:353-420) is not code.
* The memory's accept loop and connections other than the kernel's. With one of those, a FINALIZACION (which does not
  take the mutex, server.c:362) may free pages in the middle of another connection's fault.
* Signals, dumps, logs, delays, configuration files, socket set-up: no state of the models.
* `sockets-c/`, the unit tests and the scenario programs: not part of the running system.

## 7. Plan

1. The memory with two connections, and the end of a carpincho concurrent with a fault.
