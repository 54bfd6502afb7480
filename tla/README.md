# S.O in TLA+

A verification development of the simulated operating system of this
repository: TLA+ modules translated from the C code, TLC configurations that
check them on small instances, and TLAPS proofs. Names are the source's.

    tlc -workers 2 -config MCTablaPaginas.cfg MCTablaPaginas.tla
    tlapm TablaPaginasProofs.tla

Each of `Lemas`, `TablaPaginasProofs`, `PlanificadorProofs`, `CicloProofs`,
`ForzarProofs`, `ArchivosProofs`, `HeapProofs` and `PilaProofs` is given to
`tlapm` by itself.

## 1. The system

Five programs talk over TCP with messages of a letter, two digits and a
payload (`mensajes.txt`).

| component | state | operations | interacts through |
|---|---|---|---|
| **Kernel: scheduler** `planificador.c`, `cpuManager.c`, `consolaManager.c`, `manejo_conexiones.c` | five process lists, `list_cpus`, four POSIX semaphores, `mutex_planificar`, the global `controlador` | `programas_nuevos_A_listos` (hiloN), `programas_listos_A_ejecutar` (hiloL), `manejo_conexiones` (hiloM), `forzar_finalizacion` | the lists are shared by three threads and the console |
| **Kernel: program semaphores** `semaforos_vglobales.c` | value and queue of waiting pids, by name; shared variables | `sem_wait_`, `sem_signal` | hiloM; blocks and unblocks processes |
| **Kernel: heap** `memoria.c` | pages and free bytes of each program, headers in the pages | `reservar_memoria_din`, `liberar_bloque`, `compactar_contiguos` | one socket to Memoria |
| **Kernel: files** `fileSystem.c` | global table (TAG), per-process table (TAP) | open, close, read, write, delete | FileSystem |
| **Kernel: degree** `planificador.c`, `consolaKernel.c` | `diferencia_multi`, `sem_grad_multi` | `actualizar_grado_multiprogramacion`, option 4 | a thread of its own and the console |
| **CPU** `CPU.c`, `funcionesParser.c`, `funcionesCPU.c` | the PCB, `accion_siguiente`, the cursor | one instruction; wait, signal, heap, files, stack | Kernel (PCB, requests), Memoria (lines and bytes) |
| **Memoria: table** `Memoria.c`, `hash.c`, `gestionar_procesos.c` | `tablaPaginas`, `colisiones`, `ultimo_frame_libre_asignado`, `procesos` | K06, K19, K24, K25; `posPaginaSolicitada` on every access | one thread for the Kernel, one for each CPU |
| **Memoria: cache** `Memoria.c` | `Cache`, `Cache_LRU` | `solicitarBytes`, `almacenarBytes` | the same threads, two mutexes |
| **FileSystem** `funciones.c`, `fsecundarias.c`, `archivos.c` | bitmap, blocks, metadata files | validate, create, delete, read, write | Kernel, one request at a time |
| **Consola** | threads, one per program, waiting for messages | start, kill, print | Kernel |

What is hard, and what makes each part correct (every place is a "hazard" of
`PROJECT.json`):

- *Scheduler*: three threads change the lists and the CPUs in steps that
  interleave. A process must be in one place; a CPU must run what the Kernel
  thinks it runs; the counting semaphores must count what their lists hold; no
  slot of the degree may be lost; every program must end.
- *What interrupts it*: `forzar_finalizacion` takes processes out of the queues
  one by one without the mutex, bounded by a global that other threads
  overwrite; CPUs leave; the degree changes. No process may be lost, and a
  process that was ended must end.
- *Program semaphores*: the value and the queue of waiting processes change in
  different functions, with a round trip to a CPU between them.
- *Page table*: requests that place or release several pages are interleaved
  with the lookups of the CPUs, and one hash frame may serve several pages. A
  lookup must land on the page's own frame or on none, an admitted request must
  find its frames, and K25 must find all the pages it counts.
- *Heap*: block headers live in pages of Memoria and the count of free bytes
  lives in the Kernel; splits, exact fits, compaction and pages given back must
  keep both in agreement, and the addresses that programs hold valid.
- *Cache*: reads are under one mutex and writes under another, so that a write
  goes on with an entry that a read has just given to another page.
- *Files*: three tables count the same opens; a change of the disk takes several
  steps and the process may stop between two; the main thread waits for one CPU
  after a cursor is moved.
- *Programs*: stack, parameters, calls and returns over those pages, with the
  PCB serialised at each turn.
- *Link to Memoria, console*: see section 5.

## 2. Modules

| module | models | role |
|---|---|---|
| `MapaPaginas` | what Memoria promises: a partial map from pages to frames that no placement or release of another page disturbs | abstract |
| `TablaPaginas` | the page table, its hash, its collision dictionaries, the four requests of the Kernel | detailed |
| `MCTablaPaginas`, `MCClaves` | instances | runs `tabla`, `claves` |
| `Lemas` | sequences (append, tail, remove), injective sequences, counting sets, recursion over the naturals and sums along a sequence | lemmas for all the proofs |
| `TablaPaginasProofs` | theorems of `TablaPaginas` | proofs |
| `CicloVida` | what Kernel and CPUs promise a program: admitted within the degree, each instruction once and in order, finished after the last one | abstract |
| `Planificador` | the three threads, the lists, the program semaphores and the CPUs | detailed, composes Kernel and CPU |
| `MCPlanificador` | programs, and five configurations | runs `planificador`, `una_cpu`, `dos_cpus`, `espera`, `quantum` |
| `PlanificadorProofs` | invariants of `Planificador` | proofs |
| `CicloProofs` | extends it: `Planificador` implements `CicloVida`, and mutual exclusion by semaphores | proofs |
| `PlanificadorForzar` | extends `Planificador` with what interrupts it: ends by force, rejections, CPUs that leave, failed sends, changes of degree | detailed |
| `MCForzar` | instance | run `forzar` |
| `ForzarProofs` | extends it and `PlanificadorProofs`: no process is lost, no slot of the degree unaccounted for and no end without its reason, whatever interrupts | proofs |
| `Reserva` | what an allocator promises: live ranges that never overlap or move | abstract |
| `Heap` | `memoria.c` with the pages of Memoria and the programs that reserve and free | detailed, composes Kernel, Memoria and programs |
| `MCHeap` | instance | runs `heap`, `heap_devuelve` |
| `HeapProofs` | invariants of `Heap`, and that it implements `Reserva` | proofs |
| `SistemaArchivos` | the process FileSystem: bitmap, metadata, blocks, and a stop between any two steps | detailed |
| `Archivos` | extends it with `fileSystem.c` of the Kernel, its main thread and the programs | composes three processes |
| `MCArchivos` | instance | run `archivos` |
| `ArchivosProofs` | the open files counted by the Kernel's two tables, who waits for whom, blocks and bitmap, and that what was written is where it is read | proofs |
| `Cache` | reads, writes and releases of Memoria through its cache, with both mutexes | detailed |
| `PCB` | the indices a PCB is made of, and its serialisation both ways | functions |
| `Pila` | extends `Cache` and `PCB` with the CPUs that run programs line by line | composes CPU, Memoria and the PCB's trips |
| `MCPila` | eight programs | run `memoria_programa` |
| `PilaProofs` | any PCB makes its trips whole; the cache agrees with memory, variables are apart and a read answers what was stored | proofs |

`TablaPaginas`, `Planificador` and `Heap` each state that they implement their
abstract module through `INSTANCE ... WITH` and a refinement mapping
(`ImplementaMapa`, `ImplementaCiclo`, `ImplementaReserva`).

Definitions marked "Variants" are not part of any behaviour: each is a copy of
an operator with one plausible slip (a missing test, a missing post, an
off-by-one). Put in the place of the operator that follows it, it must make TLC
report the property named beside it; that is how we know that each property can
fail.

### TablaPaginas and the code

| code | module |
|---|---|
| `tablaPaginas[i]` | `tabla[i]` |
| `colisiones[i]`, keys made by `string_from_format("%s%s", pid, pag)` | `colisiones[i]`, keys `Clave(pid, pag)`, the number those digits read as |
| list `procesos` of `gestionar_procesos.c` | `cantPaginas`, `ultimaPagAsig` (-1: not in the list) |
| case 06, its `inicializarPrograma`, `crear_proceso`, second `inicializarPrograma`, `actualizar_*` | `K06`, `UbicarPagina` once per page, `CrearProceso`, `UbicarPagina`, `ActualizarPaginas` |
| case 19 and `asignarPaginasProceso` | `K19`, `UbicarPagina`, `ActualizarPaginas` |
| case 24 | `K24` |
| case 25, the loop of `liberar_paginas_pid`, `eliminar_proceso` | `K25`, `LiberarPagina` once per number tried, `EliminarProceso` |
| every read and write of a CPU | `PosPaginaSolicitada`, constrained in every state |

`pedido` is the program counter of the thread that serves the Kernel: there is
one, so there is one request at a time. Inside a request each page is one step,
because no mutex keeps the threads of the CPUs away. A placement is a single
step although it is several assignments in C: the page it places is not known
to anybody until the request is answered.
The environment is the Kernel's use of Memoria: pids grow and are never used
again (`ultimo_pid`), K19 and K25 name a live process, and K24 names a heap page
the Kernel was granted (`fijas` remembers where heap pages start). Requests
refused with M03 change nothing.

### Planificador and the code

| code | module |
|---|---|
| `cola_nuevos`, `cola_listos` (queues) | `nuevos`, `listos` (sequences) |
| `list_ejecutando`, `list_bloqueados`, `list_finalizados` (searched by pid only) | sets |
| `list_cpus`, `cpu->ejecutando`, `cpu->program` | `cpus`, `ejec`, `program` |
| `sem_nuevos`, `sem_listos`, `sem_cpus`, `sem_grad_multi` | `sem` |
| `t_sem` of the dictionary `sems` | `valor`, `cola` |
| the place of hiloN, hiloL, hiloM between two steps | `hiloN`, `hiloL`, `hiloM` |
| a CPU: PCB in hand, instructions of this quantum, pending answer | `cpu[c]` |
| the message in the socket of a CPU | `bandeja[c]` |
| a NULL dereference, after which the Kernel does nothing | `caido` |

A thread's step ends where another thread can see what it has done. hiloN:
`PedirMemoria` (both waits, the pop, the K06), `AgregarNuevaProg`. hiloL:
`Despachar` (both waits, the free CPU, the pop, the K07), `AnotarDespacho` (the
three assignments after the send). hiloM handles one message at a time: `P12`
and `P13` free the CPU, and `FinalizarQuantum` and `FinalizarProceso` do the
rest in a second step, because hiloL can use the freed CPU in between; `P14`
answers OK, or K23 and then waits in `BloquearProceso` for the PCB; `P15`. A CPU
runs `Ejecutar` and `RespuestaKernel`; the quantum is counted by the CPU.

Programs are sequences of wait, signal, "otra" and "fin": what the Kernel can
tell apart.

### PlanificadorForzar and the code

| code | module |
|---|---|
| the place and locals of `forzar_finalizacion`: who called, victim, `i`, the process popped, the one found and its list | `forz` |
| the global `controlador` (`planificador.c:46`, `consolaManager.c:26`) | `controlador` |
| K21 in the socket of a CPU, before and after an answer it waits for | `k21[c]` |
| a CPU with part of a message left in its socket | `sordas` |
| a CPU whose process is gone; one out of `list_cpus` | `muertas`, `fuera` |
| hiloL past its two waits, before it chooses a CPU | `turno` |
| `config->grado_multiprog`, `diferencia_multi`, the place of hiloG | `grado` |

`forzar_finalizacion` has one step for its two searches by pid (`ForzarListas`),
one for each pop and one for each push of the two rotations (`SacarNuevo`,
`SacarListo`, `Devolver`), and one for its outcome: `NoEstaba`, `PedirPcbError`
(`finalizar_proceso_error`, K21), `Terminar` (`_finalizar_proceso`), and
`TerminarNuevo`, where a `t_nuevo` is used as a `t_program`; its fields do not
reach as far as the one written, which is modelled as a crash. The loops end at
`controlador`, which every `enviar` of any thread overwrites. `ForzarListas` takes the
two counts, the removals they announce and the size of `cola_nuevos` in one step, though the counts
are made without a mutex: a process that another thread takes out between count and removal
would be a NULL in the list of victims. That takes a kill from the console of the Kernel, whose thread runs beside hiloM, of a process that runs
or waits: circumstances ("consola", "bloqueado") that `CaidaPorque` names already.

A K21 is 17 bytes on a socket where an idle CPU reads 13: the rest makes it deaf
(`sordas`). A CPU that waits for an answer takes an earlier K21 for that
answer; one that ends its quantum sends P12 with a K21 unread. `EliminarCpu`
looks for the process by CID where the list has PIDs, and then waits for a token of `sem_cpus`
in the main thread (`EsperarCpus`). `EnvioFallo` is the branch of
`programas_listos_A_ejecutar` for a failed send. `existe_pid` and `EnvioFallo`
are single steps. `CambiarGrado` assigns `diferencia_multi`;
`MirarDiferencia` and `ActualizarGrado` are the test and the body of hiloG's
loop, and `perdida` is what an assignment overwrote. `Muere` is any end of the process CPU, a
SIGUSR1 that finds it idle (`finalizar_por_senial`), a kill or a lost connection: with a PCB in
hand the signal alone would let it finish its quantum, so the model allows more than the signal does.

The history variables only name circumstances: `riesgos` (another thread was at
work during a rotation, a CPU left, ...), `matados`, and `escapes` with the
reason each failed kill failed.

### Heap and the code

| code | module |
|---|---|
| `memoria_dinamica`: `n_pagina`, `esp_libre` | `paginas[p]` |
| `allocs_size - frees_size` | `debe[p]` |
| the headers in the heap pages of Memoria, and the free frames | `mem`, `libres` |
| the reservation hiloM is answering and its place in the loop | `hiloM` |
| the addresses a program holds | `vivos[p]` |

`P17` starts `reservar_memoria_din`; each turn of its loop is a step
(`SiguientePagina`, `BuscarBloque`, `PedirPagina`); `P18` is `liberar_bloque`
with its K24; `Terminar` is the K25 of the end of a program. The content of a page is its row of blocks. When a
header is written over another (`Ubicar` with less than five bytes left over) or
read past the end of the page (`LeerFueraDePagina`), there is no row any more:
`roto`, and the model goes no further. `justas` remembers the pages where a
block was given whole, whose `esp_libre` is then not decreased.

A request of zero or fewer bytes, which the Kernel does not answer, and a free
of an address nobody reserved are not modelled.

### SistemaArchivos, Archivos and the code

| code | module |
|---|---|
| `Bitmap.bin`, the metadata files, the block files | `bitmap`, `archivos`, `celdas` (a cell holds the file and offset it was last written for) |
| the request FileSystem serves, its function's locals, its answer | `fs`, `resp` |
| `global_fd` (TAG), the tables of the processes (TAP) | `tag`, `tap` |
| what the main thread of the Kernel waits for | `atiende` |

A request that changes the disk takes and frees one block per step, so that
`Reinicio` (FileSystem stops, and the system starts again from the disk) can
come between any two. `verificar_bloque` never initialises its flag, so it may
answer -1 with free blocks left: both answers are allowed. After `moverCursor`
the Kernel reads the next message of the same CPU (`EnCursor`): a write or a
read at that offset, a close, or anything else, which drops the CPU.

### Cache, PCB, Pila and the code

| code | module |
|---|---|
| `Cache` | `cache`, entries with page and words |
| `Cache_LRU` | `orden`, from the last used (the numbers are never equal, so their order says the same) |
| a request of a CPU or of the Kernel, in its thread | `acceso[p]` |
| a K25 going through the pages | `libera` |
| `pcb`, and the CPU's variables while it runs a line | `pcb[p]`, `cpu[p]` |

Reads (P01, K94) and releases (K24, K25) hold `mutex_cache`; writes (P08, K90)
hold `mutex_memoria`: the two kinds interleave. `TraerPagina` is one step although
`solicitarBytes` copies the page twice and frees the first copy: a write that is copying
into the entry meanwhile falls before the step, and is replaced, or after it, and the entry is
in `manchadas`; what a use of the freed copy does to the heap of the process is not told. A line of a program is the
sequence of primitives the parser would call (the parser is an external
library). Memory is told in words of four bytes, the size of every variable. In
`PCB` a message is the sequence of its fields, and each reader keeps by itself
the position it has come to. A name that the code leaves empty is `SinNombre`.

## 3. Runs

| run | question | result |
|---|---|---|
| `tabla` | is every lookup right at every point, do admitted requests fit, do page counts match, does K25 end, is the map implemented? | passes |
| `claves` | the same lookup, with the 100 frames of a test configuration | violated: pages (1,10) and (11,0) share the key "110" in the dictionary of frame 10, and (1,10) is looked up in the frame of (11,0) |
| `planificador` | two CPUs, four programs, one mutex, degree two: is any process lost, doubled, or run out of order? | passes, up to the crash that `dos_cpus` shows |
| `una_cpu` | one CPU: does the Kernel survive, and does every program end? | passes |
| `dos_cpus` | two CPUs: does the Kernel survive? | violated: P13 frees the CPU before looking it up |
| `espera` | is every blocked process in the queue of its semaphore, with three waiters? | violated: a process that ends drops one waiter |
| `quantum` | does a program that ran its last instruction stay out of the ready queue? | violated: the end of the quantum hides the end of the program |
| `forzar` | with ends by force, rejections, CPUs that leave and changes of degree at any point: is any process lost or dropped on the way, any slot of the degree; when does the Kernel crash; does an ended process end? | passes, with the exceptions its properties name |
| `heap` | do headers fill their page, are addresses valid, is the count of free bytes right, when does the search not end, is the allocator implemented? | passes, with the exceptions its properties name |
| `heap_devuelve` | is a page given back to Memoria empty? | violated: after a block is given whole, the count is too high and the page goes back with data in it |
| `archivos` | does a block belong to one file, is the bitmap exact, is what was written read, are opens counted, is every request answered, with a stop in between? | passes, with the exceptions its properties name |
| `memoria_programa` | does a program read what it stored, is its memory ever spoiled, are its variables apart, does a PCB arrive as it was sent? | passes, with the exceptions its properties name |

Several properties state the exact circumstances in which the code fails, and
that it fails in no others. They are worth reading for that:

- `CaidaPorque`: the Kernel follows NULL only after a CPU left, after another
  thread worked during a rotation, when the console ends a running process, when
  a blocked or a new one is ended, or in the crossing of `dos_cpus`.
- `MuerePorque`: a process ended by force runs on only if a thread had it in its
  hands when it was looked for, if the K21 went to a CPU it had left
  (`cpu->program` is never cleared), or if the K21 was read at the end of a
  quantum or of a wait that blocks.
- `GradoDesviado`: slots of the degree are lost by programs that Memoria
  rejects, and by a change of degree that comes while another is applied.
- `GiraPorque`: `reservar_memoria_din` stays on a page for ever when the page
  went back to Memoria, when its count is too high, or when its free bytes are
  in pieces; a page that has the bytes but not the block is tried again without end.
- `EscritoSeLee`: what was written is read except in files written beyond their
  end, rewritten shorter, rewritten past two new blocks, or that ran out of
  blocks and were answered OK. The third exception needs more messages than the
  bound of the run allows, so no state of the run needs it.
- `BloqueDeUno`, `BitmapExacto`: except for the blocks that a stop caught half way.
- `LeeLoAsignado`: except through an entry written by a thread whose entry had
  been taken meanwhile (`almacenarBytes` waits for no read). `MemoriaAlDia` says how far that
  race goes, and has no such exception: it spoils entries, never a frame, for a write
  goes to memory from its own buffer and an eviction copies nothing back. The program reads
  a wrong value while the entry stays, and the right one once it has been evicted.

**Bounds.** `tabla`: seven frames, the first filled by the table, three pids,
one or two code pages, one stack page, heap pages one at a time, page numbers up
to 3. Six usable frames make pages collide with their own process, with others
and with the table's frame, chain through `reasignar_colision` and its wrap
around, and leave a request without room. Page numbers above `MaxPag` are cut by
the guards marked "bound". All pages have one digit, so keys do not repeat; what
happens otherwise is `claves`.
`planificador`: four programs `wait, otra, otra, signal, fin` with a quantum of
three, so that each is preempted inside its critical section and others block
on it; a degree of two, so that admission waits. After `caido` the system stops,
and invariants say nothing of what follows. With a degree of two at most one
program waits, so `BloqueadosEsperan` holds; `espera` raises the degree to four
and it does not. `una_cpu` is the same with one CPU: the interleaving of
`dos_cpus` needs a second one. The programs of these two runs do not end or
block on the last instruction of a quantum; those of `quantum` do.
`UltimoPid \in Pids` bounds the number of programs.
`forzar`: two CPUs (symmetric: only their place in `list_cpus` tells them apart, and
that is part of the state), quantum of two, degree of two with changes to one and
back; programs 1 and 3 wait for a semaphore that starts at zero and program 2
signals it. `MaxSucesos` bounds programs started plus interruptions to four:
three programs and one interruption, two and two, one and three. One
`forzar_finalizacion` at a time. `Terminar` is bounded to two waiters
per semaphore, so the branch of `_eliminar_proceso` that compares pids, which
needs three, is not reached here (`espera` has three).
`heap`: pages of 50 bytes, sizes 10, 12, 15 and 40: 40 fits no page, 10 and 15 fill
holes exactly and leave pieces apart, 12 in a hole of 15 leaves less than a
header. One program holds three reservations, the other one, over two frames, so
that a page must be asked for, given back, or refused. `MaxEsp` cuts a count
of free bytes that has gone above what a page holds.
`archivos`: two programs, two files, four blocks of two characters, two opens each,
four messages, one stop. A file needs a second block, the disk fills up, and the
two programs share and remove the same file.
`memoria_programa`: pages of four words and lines of six bytes, so that a line is
in two pages; three cache entries, two for a program, so that both replacements
happen; one page of stack, so that a fifth variable falls outside; eight
programs in five pairs, each for a primitive or a mistake; one end of quantum.

**Deadlock** is not checked: the Kernel need not ask for anything more, a
program need not be started or may have ended, and after `caido` or `roto`
nothing runs.

**Fairness.** `TablaPaginas`: weak fairness of `Atender`, the thread that
serves the Kernel goes on with the request it has; nothing makes requests come.
`Planificador`: weak fairness of each thread's steps and of each CPU's; hiloM is
fair to every CPU that has sent something, because select returns all readable
sockets and the loop serves them all (liveness is checked with one CPU only,
since with two the Kernel may crash). `C01` and `AgregarCpu` have none: users
start programs and CPUs. `Terminan` is therefore conditional on a CPU being
connected.
`Heap`: weak fairness of the steps of hiloM with the request it has; it goes on until it
answers. `Archivos`: weak fairness of FileSystem, of the Kernel's reading of its
answers, and of the message a CPU sends after moving its cursor (the program is
running). Nothing makes programs ask, or FileSystem stop. `PlanificadorForzar` and `Pila`
state no liveness and no fairness.

**Timing assumption.** hiloM reads the first message of a CPU after hiloL has
executed the three assignments that follow the send. Without it a CPU that
answers in microseconds is served with a NULL program (`planificador.c:129`);
that is listed as a hazard. `PlanificadorForzar` keeps it, also for the end of
the connection of a CPU.

## 4. Proofs

Each module's constants are any that satisfy the `ASSUME` of its model; what a
theorem supposes beyond that is said here. "P, while H" is a theorem
`Spec /\ []H => []P`: it is about the behaviours where the circumstance H never
fails, and says that P can only fail after H has.

### TablaPaginasProofs: any number of frames, pids and pages

Hypothesis `ClavesDistintas`: different pages have different keys. The code does
not guarantee it (run `claves`); with `MaxPag <= 8` it is true, one digit for the
page.

| theorem | states |
|---|---|
| `TypeCorrect` | `TypeOK`: `reasignar_colision` never answers -1 to a caller that uses it as an index |
| `BusquedaSegura`, `BusquedaSeguraPaginasCortas` | `BusquedaCorrecta`; the second with no hypothesis but `MaxPag <= 8` |
| `MarcosSuficientes` | `MarcosAlcanzan` |
| `CuentaExacta` | `CuentaPaginas` |
| `Refinamiento` | `ImplementaMapa` |

None is inductive. `IInv` (`Invariante`) adds what the code relies on silently:
an entry is the table's own, free, or a page's (`EntradasOK`); a page is in its
hash frame or in the dictionary of that frame (`Ubicadas`), every entry of a
dictionary names the frame of the page whose key it is (`Vivas`), no page has
two frames; the pages of the process being served end where the request says,
so that `maxPaginaPid + 1` is a new page (`Tope`), and those of the others
within what `procesos` says (`BajoUltima`); a request stays within its page
numbers (`Progreso`); the frames counted on admission cover what is left.
`CuentaExacta` needs besides that nothing is counted for a process that is not in
the list. For `Refinamiento` each placement is one page put on a free frame of
the abstract map, each release one page taken out, and every other step, the
relocations in the dictionaries included, leaves the map as it was.

### PlanificadorProofs: any programs, CPUs, semaphores and degree

| theorem | states | supposes |
|---|---|---|
| `TypeCorrect` | `TypeOK`: no thread takes a POSIX semaphore below zero | |
| `UnLugar` | `UnSoloLugar` | |
| `CpuDeCadaUno` | `CpuCorrecta` | |
| `SemaforosExactos` | `SemaforosCuentan` | |
| `GradoRespetado` | `GradoExacto` | |
| `NadieSePierde` | `BloqueadosEsperan` | while `FinSinColas`: no process ends with two waiting for one semaphore |
| `NadieSePierdeConDos` | `BloqueadosEsperan` | `Grado <= 2` |
| `NoSeCae` | `SinCaida` | while `FinSinColas` and `FinConCpu`: no process ends whose CPU has been given away |
| `NoSeCaeConUnaCpu` | `SinCaida` | at most one CPU, `Grado <= 2` |

The two circumstances are those of the runs `espera` and `dos_cpus`, whose
counterexamples show that they do arise; `NoSeCae` says that there is no third
way to crash.

`IInv`: a process is in one list or in the hands of one thread (`Sitios`); pids
are given in order (`EnOrden`), so that a new one is in no list; what a CPU is
doing agrees with the message it has left (`CpusEnFase`); what hiloL has sent
went to a free CPU, the first in the list (`HiloLBien`); what hiloM has in hand
is running, on the CPU it answered K23 to or on none (`HiloMBien`); a CPU is in
the list once (`Conexion`); a process is on one CPU, the one noted or the one
hiloL holds (`CpuUnica`); and the semaphores plus what the threads have taken
count their lists (`Cuentas`). The last two need each other: hiloL finds a free
CPU because the semaphore counts it, and the count stays right because the
CPU it finds is free. `Espera` adds the queues: a blocked process waits for one
semaphore, once, and a negative value is the length of its queue.

### CicloProofs: the scheduler implements CicloVida, and its mutexes exclude

| theorem | states | supposes |
|---|---|---|
| `AvanceFiel` | its invariant, `AInv` | while `QuantumLimpio` |
| `CicloCumplido` | `ImplementaCiclo` | while `QuantumLimpio` |
| `FinNoVuelve` | `FinEsFin` | while `QuantumLimpio` |
| `CicloCumplidoSinQuantum` | `ImplementaCiclo` | `QuantumLargo`: First Come First Served, or a quantum longer than every program |
| `ExclusionDeTodos` | `ExclusionMutua` | while `QuantumLimpio`, `SinSenalesDeMas` |
| `ExclusionSinQuantum` | `ExclusionMutua` | `QuantumLargo`, `SinSenalesDeMas` |

All suppose finitely many CPUs and `TerminaUnaVez`: a program ends in its one
final instruction. `QuantumLimpio`: no quantum ends on a final instruction
or on a wait that blocks, where the CPU forgets what was asked for; the
programs of `planificador` satisfy it and those of `quantum` do not, and
there `FinEsFin` fails. `AInv`: the PCB of a process on no CPU has something left to run
(`Pendientes`), everything before it is loaded (`SinEmpezar`); a CPU has an
instruction to run (`EnMarcha`); P13 comes with the end of the program and P16
does not (`Devueltos`); the semaphore of CPUs, what hiloL holds and the
processes that run add up to the CPUs connected (`Fichas`), which bounds by the CPUs
what runs at once.

Mutual exclusion depends on what the programs do: one that signals without having
waited lets a second one in, in this Kernel as in any. `SinSenalesDeMas` says
that nowhere in a program has a semaphore that starts at one been signalled more
often than waited for; the programs of the runs satisfy it. `ExclusionInv` relates
the value to the text of the programs. What a CPU asks of the Kernel is
the instruction it is at (`Pedidos`), a queue holds, once each, processes blocked
on that very wait (`EnCola`), each process has done the instructions before the one
it is at (`HechasBien`), and the value is one less the waits counted and not signalled
back (`Valores`). A process that is blocked has been counted and is not inside;
those counted and not blocked are at most one. The waits are counted as tokens, one
for each wait of each program that no signal has matched (`Prendas`), because a process
may wait for the same semaphore again: the step that pops a blocked process moves its
token from one side to the other and leaves the value's equation alone.

### ForzarProofs: any programs, CPUs, degrees, and number of interruptions

| theorem | states |
|---|---|
| `RanurasExactas` | `GradoDesviado` |
| `NingunoPerdido` | `SinPerdidos` |
| `NadieSale` | `Permanecen`: no step drops a process that is in a list or in hands |
| `MuertesConMotivo` | `MuerePorque` |

No hypothesis beyond `PlanificadorOK` and `ForzarOK` (a degree asked for is an
integer, negative ones included), except that `MuertesConMotivo` is about programs
whose final instruction, if they have one, is the last (`FinAlFinal`, the part of
`TerminaUnaVez` it needs; so are those the parser makes and those of `forzar`):
without it a P13 could come from the middle of a program. `MaxSucesos` may be any value, so they hold for any number
of interruptions. The `IInv` of `Planificador` is no invariant here: a CPU
may be served twice, the counts drift, `cola_listos` holds NULLs. Three are needed.

`FInv` is about lists, hands and counts, as long as the Kernel has not crashed. `Victima`: what
`forzar_finalizacion` has found is what it looks for, a process out of a queue
goes back, and the thread that asked stays where it was (hiloM at `C02`, hiloN with the
process it holds): without that the process found could be taken again from the
thread. `UnSitio`: the five lists, those rejected, and the four hands do not
meet, with NULL allowed any number of times in `cola_listos` (`SinRepetidos`);
`Numerados`: pids are given in order to whatever has entered, so a new one is nowhere.
`Ranuras`: free slots, processes that take one, and slots lost add up to the
degree. A rotation takes no slot with it: while it goes through `cola_listos` the process
in its hands counts, and while it goes through `cola_nuevos` it does not. `FichasListos`, which
holds after a crash too: tokens for the ready processes and for the one in
hand, until a rotation crosses another thread or a CPU leaves. `SinPerdidos` counts the places
of those that are somewhere, so it alone would not miss one that is nowhere; `Permanecen` would,
and its proof goes with that of `FInv`: each step that moves a process leaves `Entrados`
as it is (`Quedan`), and a start adds to it the next pid.

`CInv` is about the CPUs, until one leaves: what a CPU is at agrees with the message it has left (`EnFase`); the process it holds or
has sent back is the one the Kernel has noted for it, or the one hiloL is about
to note (`Anotadas`); and, as long as the console has ended none of them, every process
that runs, or that was taken from `list_ejecutando` by `forzar_finalizacion`, is on a
CPU or in the hands of hiloM (`ConCpu`). That a K21 puts its victim back in the list (`PedirPcbError`) without a look at
its CPU is right because only hiloM can have taken it from there (`Buscado`), and while it
does it reads nothing. A kill from the console breaks exactly this: the CPU may give
the process back in between.

`MInv` is what the reasons of an end need besides, also until a CPU leaves. `Vistos`: if the one
looked for was in a queue when the search began and no thread has crossed it, it is
still ahead, within the `controlador - i` processes the rotation has to take out (`Restan`),
or already in hand; so the search does not end without it. `Suyos`: the PCB of a process is
on one CPU at most, and who comes back to hiloM is on none. `Avisos` and `Acabados` go
along the way of an end: a CPU with a K21 unread, a P13 in its message, hiloM with it in
hand, the finished process; at each of them the process was ended by force, or a K21
went to the wrong process (`otro`), or its last instruction is done. `Muertos` is the
other direction: who was ended by force is at one of those places, has gone, or has
escaped, and the P13 that hiloM takes for the answer to a K23 is noted as an escape
when it happens.

`CaidaPorque` is no theorem: with two processes waiting for a semaphore, the end of
a third takes one of them out of the queue (run `espera`), and the signal that should have
woken it ends in a crash that none of the circumstances of `CaidaPorque` names. It is true of the programs of `forzar`.

### ArchivosProofs: any disk, programs and stops

| theorem | states |
|---|---|
| `AbiertosExactos` | `CuentaAbiertos`, the first part of `TablaGlobal` |
| `TypeCorrect` | `TypeOK` |
| `TablaGlobalExacta` | `TablaGlobal`, its two parts |
| `UnDuenoPorBloque` | `BloqueDeUno` |
| `BitmapDeLosArchivos` | `BitmapExacto` |
| `LoEscritoSeLee` | `EscritoSeLee` |

No hypothesis beyond `SistemaOK` and `ArchivosOK` (no pid is zero, positions
and sizes are naturals). What is open is counted with tokens: one pair for each unit of
`abiertos` in the global table and one for each descriptor of a program; `TInv`
says there are as many of each, so a close removes one of both, and an entry is freed
with the last. `DInv` and `LInv` say who waits for whom: FileSystem serves the
request the Kernel waits for, and what it answered is still true when
the answer is taken, which is why a path in the global table exists. `BInv`: a bit
is set for the blocks of a file and those of the request in progress, and lists
of blocks are apart, except for the blocks a stop caught half way. `EInv` follows
a write from block to block: the block that is open is that of the next
offset, what has been written so far is where `obtener_datos` looks for it, and
TAMANIO tells the last block of a file with no exceptional history.

### HeapProofs: any pages, frames, sizes and programs

| theorem | states |
|---|---|
| `TypeCorrect` | `TypeOK` |
| `PaginasLlenas` | `Mosaico` |
| `EspLibreCuadra` | `EspLibreExacto` |
| `PunterosValidos` | `PunterosEnUso` |
| `FugasExactas` | `CuentaFugas` |
| `GiraSoloPorEso` | `GiraPorque` |
| `ImplementaLaReserva` | `ImplementaReserva` |

No hypothesis beyond `HeapOK`: naturals, a page with room for three headers,
at least one code page, sizes above zero. A heap page is a row of blocks, and what has to be carried through each
request is about the row as a whole. `IInv` (`Invariante`) says of it:

- `Filas`: the blocks and their headers add up to the page. It is what makes a
  split legal, and what places the next block after one that was joined.
- `Cuenta`: `esp_libre` is the bytes of the free blocks (`LibreDe`) less one
  header, and at least that if the page is in `justas`. Splitting, freeing and
  joining move both sides by the same amount; giving a block whole moves only
  one, which is the whole of the exception.
- `Sujetos`: where a program holds an address, the row has a used block that
  starts there and has its size. Rows are compared by the *set* of their used
  blocks (offset and size, `Usados`), because positions in the row change
  under compaction and offsets do not: `Compactar` leaves that set as it is,
  a reservation adds one pair and a free takes one out.
- `Dentro` and `Aparte`: addresses are in pages the Kernel lists, and their ranges are
  apart, also after the page has left Memoria. `Sujetos` alone says nothing
  of a page that is gone, and `ImplementaReserva` speaks of those addresses too.
- `Cuentas`: `allocs_size - frees_size` is the sum of what the program holds.
- `Numeradas` and `Cuadros`: the n-th page of a program has the number Memoria gave it,
  Memoria holds no heap page but those, and every frame is in use or free.

The five about rows and addresses are guarded by `~roto`: after a header has been
written over another there is no row. The refinement is not guarded, for up to and
including that step the address given is still free of the others.

Where a block starts, what the free ones add up to, the row that compaction leaves
and the sum of a program's reservations are all recursive definitions. Induction
with an operator parameter being out of the provers' reach, `Lemas` states it over
a *set* of naturals (`Induccion`), which each use fills with the numbers
at which the equation wanted holds; `RecursionExiste` gives the function that
solves a recursion, and the lemmas of `Acumula` say what the sums along a row
become when a block is inserted, taken out or changed. `SumaPasos`, in
`HeapProofs`, says that the sum over a finite set does not depend on the order in
which it is taken, so that adding or taking out one reservation moves it by its
size (`CuentaFugas`).

### PilaProofs: any programs, pages, cache and interleaving

| theorem | states |
|---|---|
| `TipoSiempre` | `TypeOK`: one entry for a page, every entry in use in the order of use, no program over its share |
| `LecturasSiempre` | `LeeLoAsignado` |
| `MemoriaSiempre` | `MemoriaAlDia` |
| `VariablesSiempre` | `VariablesAparte` |
| `ViajeSiempre` | `ViajeEntero` |
| `ViajeDeCualquiera` | the same for any PCB, reachable or not |

No hypothesis beyond `CacheOK` and `PilaOK`: pids are positive, a page is a number of
words, the cache has an entry and so has the share of a program, and a text is a
sequence of lines of the primitives of the parser, with labels that have a name. The
programs are any: they may jump anywhere, return from the first
frame, store through any address, and two of them may run the same text.

`ViajeDeCualquiera` is about what a message is: pieces put one after
another. `AplanarEs` says where each piece is, and each reader is then followed
from the place where it starts: one variable, a list of them, a frame, the stack,
the code and the labels, first for the position it comes to and then for what it has
read. Of the PCB it supposes only what the readers themselves rely on: the code ends
in the sentence -1 and has no other, and the labels say their length first.

`Inv` (`Invariante`) is what the other theorems need, in three parts.

`PInv`, the programs. `Fijo`: the code and the labels of a PCB are always those of its
text, and the stack has SP + 1 frames. `Crece`: offsets grow inside a frame and
from a frame to the next. `VariablesAparte` alone is not inductive, for `calcular_offset`
looks only at the last variable of the last two frames; since offsets grow, those
are above all the others, and when both frames are empty it never answers. `Encargo`: a request in
Memoria is that of the primitive its CPU is at.

`CInv`, the cache. `EntradaBien`: an entry has a page that exists, and is the only
one with it. `Halla` says what a thread has found out and is still so two steps later: who is
to bring a page finds that no entry has it, because reads and releases hold `mutex_cache`
from one step to the other; who is to write an entry finds that no *other* entry has its page,
though its own may have been given away, because writes do not hold it. `Coherente`
follows from that: an entry is its page but for the one word on its way to memory
(`Bajando`), unless it is in `manchadas`. `Contesta`: what was answered is in memory until
it is taken. That `sustituirLRUproc` finds an entry of the program, and `sustituirLRU`
any, follows from the count of entries (`CantPidEnCache`) and from every entry in use being in `orden`.

`AInv`, what was stored. `Guardado`: a word of memory is the last its program
stored, unless it was stored through a wrong address (`pisado`) or the answer to the store
is still to be taken, when the program has not noted it yet.

`FlattenSeq` and the readers are recursive functions; as in `HeapProofs`, induction goes
over a set of naturals (`Induccion` in `Lemas`).

### Only model-checked

- `CaidaPorque` of `PlanificadorForzar`, for the reason given above.
- `AtencionTermina` and `Terminan`: liveness under fairness.

## 5. Not modelled, and the plan

- *Pause of the planning* (options 6 and 7): it holds `mutex_planificar`, which
  the threads lock and unlock in `continuar`. That only delays them, except
  that a kill asked for from the paused console locks the mutex again in the one
  thread that could release it. Listed as a hazard.
- *Consoles that are lost*: one `forzar_finalizacion` by CID takes all the
  programs of the console in one call; `forzar` ends one process at a time, by
  PID (C02, C04, option 5 of the Kernel's console, M03). C03 only takes the
  console out of its list.
- *Link to Memoria*: the threads of the Kernel send and receive on one socket
  with no mutex, so answers can be taken by the wrong thread. Every module takes
  an exchange as one step; with crossed answers nothing of what follows could be
  said. Listed as a hazard.
- *Shared variables*: a get and a set by name, each one step of hiloM.
- *Consoles of Kernel and Memoria*: listings, configuration, delays; `flush`
  empties the cache without looking at requests in hand.
- *Consola*: threads that print what they receive; what it asks of the Kernel is
  in the environment of the schedulers.
- *Logs, sockets, configuration files*: input and output only.
- *Writing to descriptor 1*: a print.
- `memo/`, `snvirgniojfa/`, `maiameeee` and `CPU/src/cosas.c` are old copies that
  nothing builds.

Next: the pause, the consoles that are lost (many victims in one `forzar_finalizacion`), and
the link to Memoria with its crossed answers.
