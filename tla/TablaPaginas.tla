---------------------------- MODULE TablaPaginas ----------------------------
(***************************************************************************)
(* The inverted page table of the Memoria process (Memoria.c, hash.c and   *)
(* gestionar_procesos.c): one entry per frame, a hash of the digits of pid *)
(* and page that proposes a frame, and one dictionary per frame with the   *)
(* pages that collided there.                                              *)
(*                                                                         *)
(* The Kernel talks to Memoria over one socket, served by one thread, so   *)
(* there is one Kernel request at a time.  K06 and K19 hold no mutex while *)
(* they place pages, and K25 holds one that writers do not take, so the    *)
(* threads of the CPUs look pages up between any two pages placed or       *)
(* released: a request is one step per page, not one step.                 *)
(***************************************************************************)
EXTENDS Integers, FiniteSets, FiniteSetsExt

CONSTANTS
  Pids,         \* process identifiers the Kernel may use
  Marcos,       \* cantMarcos
  MarcosTabla,  \* cantMarcosTablaPag: frames the table itself fills
  PagsCodigo,   \* code sizes a K06 may ask for, in pages
  StackSize,    \* STACK_SIZE, in pages
  PagsHeap,     \* pages a K19 may ask for (the Kernel asks for one)
  MaxPag        \* bound: no page number above this is ever given

ASSUME ConstantesOK ==
  /\ Pids \subseteq Nat
  /\ Marcos \in Nat /\ MarcosTabla \in 1 .. Marcos
  /\ PagsCodigo \subseteq Nat /\ StackSize \in Nat /\ PagsHeap \subseteq Nat
  /\ MaxPag \in 0 .. 9998

Frames == 0 .. (Marcos - 1)

(* Page numbers that get looked up; the last one is never given out. *)
Pags == 0 .. (MaxPag + 1)

(* sprintf("%s%s", pid, pag) read as a number: the digits of both, joined. *)
Clave(pid, pag) ==
  pag + pid * (IF pag < 10 THEN 10
               ELSE IF pag < 100 THEN 100
               ELSE IF pag < 1000 THEN 1000 ELSE 10000)

Claves == {Clave(pid, pag) : pid \in Pids, pag \in Pags}

Hash(pid, pag) == Clave(pid, pag) % Marcos

VARIABLES
  tabla,         \* tablaPaginas: frame -> estado, pid, pag
  colisiones,    \* colisiones: frame -> dictionary (-1: key absent)
  ultimo,        \* ultimo_frame_libre_asignado
  cantPaginas,   \* cantPaginas of the list procesos (-1: not listed)
  ultimaPagAsig, \* ultimaPagAsig of the same list
  pedido,        \* the Kernel request being served and how far it is
  fijas          \* Kernel: code and stack pages of a pid (-1: pid not used)

vars == <<tabla, colisiones, ultimo, cantPaginas, ultimaPagAsig, pedido, fijas>>

Libre == [estado |-> 0, pid |-> -1, pag |-> -1]

(* op: what is being done; cant: pages still to do out of total; pag: the   *)
(* highest page placed (maxPagPid), or the next page to release.            *)
SinPedido == [op |-> "nada", pid |-> -1, cant |-> 0, total |-> 0, pag |-> -1]

-----------------------------------------------------------------------------
(* hash.c *)

MarcoOcupado(m) == tabla[m].estado = 1

EsMarcoCorrecto(pid, pag, m) == tabla[m].pid = pid /\ tabla[m].pag = pag

BuscarMarcoColision(pid, pag, m) == colisiones[m][Clave(pid, pag)]

(* Variants, here and below: one plausible slip each, to see that the       *)
(* property named on the right would notice it.  No behaviour uses them.    *)
ReasignarSinVolver ==                                           \* TypeOK
  LET adelante == {m \in Frames : m > ultimo /\ ~MarcoOcupado(m)}
  IN  IF adelante # {} THEN Min(adelante) ELSE -1

ReasignarSinMirar == (ultimo + 1) % Marcos                      \* ImplementaMapa

(* The next free frame after the last one given this way, wrapping around. *)
ReasignarColision ==
  LET libres   == {m \in Frames : ~MarcoOcupado(m)}
      adelante == {m \in libres : m > ultimo}
  IN  IF adelante # {} THEN Min(adelante)
      ELSE IF libres # {} THEN Min(libres) ELSE -1

-----------------------------------------------------------------------------
(* Memoria.c: helpers *)

CantMarcosLibre == Cardinality({m \in MarcosTabla .. (Marcos - 1) : ~MarcoOcupado(m)})

PosPaginaSolicitada(pid, pag) ==
  LET h == Hash(pid, pag)
  IN  IF EsMarcoCorrecto(pid, pag, h) THEN h ELSE BuscarMarcoColision(pid, pag, h)

MarcosDe(pid) == {m \in Frames : tabla[m].estado = 1 /\ tabla[m].pid = pid}

MaxPaginaPid(pid) ==
  LET pags == {tabla[m].pag : m \in MarcosDe(pid) \cap (MarcosTabla .. (Marcos - 1))}
  IN  IF pags = {} THEN -1 ELSE Max(pags)

(* The body of the loop of inicializarPrograma and asignarPaginasProceso. *)
Ubicar(pid, pag) ==
  LET h == Hash(pid, pag)
      pagina == [estado |-> 1, pid |-> pid, pag |-> pag]
  IN  \/ /\ ~MarcoOcupado(h)
         /\ tabla' = [tabla EXCEPT ![h] = pagina]
         /\ UNCHANGED <<colisiones, ultimo>>
      \/ /\ MarcoOcupado(h)
         /\ ultimo' = ReasignarColision
         /\ colisiones' = [colisiones EXCEPT ![h][Clave(pid, pag)] = ReasignarColision]
         /\ tabla' = [tabla EXCEPT ![ReasignarColision] = pagina]

LiberarSinColision(pid, pag) ==                                 \* BusquedaCorrecta
  /\ tabla' = [tabla EXCEPT ![PosPaginaSolicitada(pid, pag)] = Libre]
  /\ UNCHANGED colisiones

(* liberar_una_pagina for a page that posPaginaSolicitada finds. *)
LiberarUnaPagina(pid, pag) ==
  LET h == Hash(pid, pag)
  IN  /\ tabla' = [tabla EXCEPT ![PosPaginaSolicitada(pid, pag)] = Libre]
      /\ colisiones' = IF EsMarcoCorrecto(pid, pag, h) THEN colisiones
                       ELSE [colisiones EXCEPT ![h][Clave(pid, pag)] = -1]

-----------------------------------------------------------------------------
(* crearEstrucTablaPag, cargarTablaPaginasEnMemoria, inicializar_variables *)
Init ==
  /\ tabla = [m \in Frames |-> IF m < MarcosTabla
                               THEN [estado |-> 1, pid |-> -1, pag |-> m]
                               ELSE Libre]
  /\ colisiones = [m \in Frames |-> [k \in Claves |-> -1]]
  /\ ultimo = MarcosTabla
  /\ cantPaginas = [p \in Pids |-> -1]
  /\ ultimaPagAsig = [p \in Pids |-> -1]
  /\ pedido = SinPedido
  /\ fijas = [p \in Pids |-> -1]

(* K06: a process that fits starts with its code pages; otherwise M03.      *)
(* The Kernel numbers processes upwards and never uses a number again.      *)
K06(pid, cod) ==
  /\ pedido.op = "nada"
  /\ \A q \in Pids : fijas[q] # -1 => q < pid
  /\ cod + StackSize - 1 <= MaxPag                              \* bound
  /\ fijas' = [fijas EXCEPT ![pid] = cod + StackSize]
  /\ pedido' = IF CantMarcosLibre >= cod + StackSize
               THEN [op |-> "codigo", pid |-> pid, cant |-> cod, total |-> cod,
                     pag |-> MaxPaginaPid(pid)]
               ELSE pedido
  /\ UNCHANGED <<tabla, colisiones, ultimo, cantPaginas, ultimaPagAsig>>

K19SinLugar(pid, n) ==                                          \* MarcosAlcanzan
  /\ pedido.op = "nada"
  /\ cantPaginas[pid] # -1
  /\ ultimaPagAsig[pid] + n <= MaxPag
  /\ pedido' = [op |-> "heap", pid |-> pid, cant |-> n, total |-> n,
                pag |-> MaxPaginaPid(pid)]
  /\ UNCHANGED <<tabla, colisiones, ultimo, cantPaginas, ultimaPagAsig, fijas>>

(* K19: pages for the heap of a live process; otherwise M03. *)
K19(pid, n) ==
  /\ pedido.op = "nada"
  /\ cantPaginas[pid] # -1
  /\ ultimaPagAsig[pid] + n <= MaxPag                           \* bound
  /\ CantMarcosLibre >= n
  /\ pedido' = [op |-> "heap", pid |-> pid, cant |-> n, total |-> n,
                pag |-> MaxPaginaPid(pid)]
  /\ UNCHANGED <<tabla, colisiones, ultimo, cantPaginas, ultimaPagAsig, fijas>>

(* One page of the loop of inicializarPrograma / asignarPaginasProceso. *)
UbicarPagina ==
  /\ pedido.op \in {"codigo", "stack", "heap"}
  /\ pedido.cant > 0
  /\ Ubicar(pedido.pid, pedido.pag + 1)
  /\ pedido' = [pedido EXCEPT !.cant = @ - 1, !.pag = @ + 1]
  /\ UNCHANGED <<cantPaginas, ultimaPagAsig, fijas>>

(* K06 once the code is placed: crear_proceso, then the stack. *)
CrearProceso ==
  /\ pedido.op = "codigo" /\ pedido.cant = 0
  /\ cantPaginas' = [cantPaginas EXCEPT ![pedido.pid] = pedido.total]
  /\ ultimaPagAsig' = [ultimaPagAsig EXCEPT ![pedido.pid] = pedido.total - 1]
  /\ pedido' = [pedido EXCEPT !.op = "stack", !.cant = StackSize, !.total = StackSize,
                              !.pag = MaxPaginaPid(pedido.pid)]
  /\ UNCHANGED <<tabla, colisiones, ultimo, fijas>>

ActualizarSinSumar ==                                           \* CuentaPaginas
  /\ pedido.op \in {"stack", "heap"} /\ pedido.cant = 0
  /\ ultimaPagAsig' = [ultimaPagAsig EXCEPT ![pedido.pid] = @ + pedido.total]
  /\ pedido' = SinPedido
  /\ UNCHANGED <<tabla, colisiones, ultimo, cantPaginas, fijas>>

(* actualizar_paginas, actualizar_maxnro_pagina, and M02 to the Kernel. *)
ActualizarPaginas ==
  /\ pedido.op \in {"stack", "heap"} /\ pedido.cant = 0
  /\ cantPaginas' = [cantPaginas EXCEPT ![pedido.pid] = @ + pedido.total]
  /\ ultimaPagAsig' = [ultimaPagAsig EXCEPT ![pedido.pid] = @ + pedido.total]
  /\ pedido' = SinPedido
  /\ UNCHANGED <<tabla, colisiones, ultimo, fijas>>

K24SinDescontar(pid, pag) ==                                    \* AtencionTermina
  /\ pedido.op = "nada"
  /\ pag >= fijas[pid] /\ cantPaginas[pid] # -1
  /\ \E m \in MarcosDe(pid) : tabla[m].pag = pag
  /\ LiberarUnaPagina(pid, pag)
  /\ UNCHANGED <<ultimo, cantPaginas, ultimaPagAsig, pedido, fijas>>

(* K24: the Kernel gives one heap page back, of those it was granted. *)
K24(pid, pag) ==
  /\ pedido.op = "nada"
  /\ cantPaginas[pid] # -1
  /\ pag >= fijas[pid]
  /\ \E m \in MarcosDe(pid) : tabla[m].pag = pag
  /\ IF PosPaginaSolicitada(pid, pag) = -1
     THEN UNCHANGED <<tabla, colisiones>>
     ELSE LiberarUnaPagina(pid, pag)
  /\ cantPaginas' = [cantPaginas EXCEPT ![pid] = @ - 1]
  /\ UNCHANGED <<ultimo, ultimaPagAsig, pedido, fijas>>

(* K25: liberar_paginas_pid reads how many pages to look for. *)
K25(pid) ==
  /\ pedido.op = "nada"
  /\ cantPaginas[pid] # -1
  /\ pedido' = [op |-> "liberar", pid |-> pid, cant |-> cantPaginas[pid],
                total |-> cantPaginas[pid], pag |-> 0]
  /\ UNCHANGED <<tabla, colisiones, ultimo, cantPaginas, ultimaPagAsig, fijas>>

(* One turn of its loop: a page number that is not found does not count.   *)
(* Past MaxPag nothing is ever found, whatever the number: pag stays.      *)
LiberarPagina ==
  /\ pedido.op = "liberar" /\ pedido.cant > 0
  /\ LET hallada == PosPaginaSolicitada(pedido.pid, pedido.pag) # -1
     IN  /\ IF hallada
            THEN LiberarUnaPagina(pedido.pid, pedido.pag)
            ELSE UNCHANGED <<tabla, colisiones>>
         /\ pedido' = [pedido EXCEPT
                         !.cant = IF hallada THEN @ - 1 ELSE @,
                         !.pag  = IF @ <= MaxPag THEN @ + 1 ELSE @]
  /\ UNCHANGED <<ultimo, cantPaginas, ultimaPagAsig, fijas>>

(* eliminar_proceso, and M02 to the Kernel. *)
EliminarProceso ==
  /\ pedido.op = "liberar" /\ pedido.cant = 0
  /\ cantPaginas' = [cantPaginas EXCEPT ![pedido.pid] = -1]
  /\ ultimaPagAsig' = [ultimaPagAsig EXCEPT ![pedido.pid] = -1]
  /\ pedido' = SinPedido
  /\ UNCHANGED <<tabla, colisiones, ultimo, fijas>>

Atender == UbicarPagina \/ CrearProceso \/ ActualizarPaginas
           \/ LiberarPagina \/ EliminarProceso

Next ==
  \/ \E pid \in Pids, cod \in PagsCodigo : K06(pid, cod)
  \/ \E pid \in Pids, n \in PagsHeap : K19(pid, n)
  \/ \E pid \in Pids, pag \in 0 .. MaxPag : K24(pid, pag)
  \/ \E pid \in Pids : K25(pid)
  \/ Atender

(* The serving thread runs to the end of a request; requests may not come. *)
Spec == Init /\ [][Next]_vars /\ WF_vars(Atender)

-----------------------------------------------------------------------------
(* Properties *)

Operaciones == {"nada", "codigo", "stack", "heap", "liberar"}

(* Every variable holds a value of its C type, and the numbers the code     *)
(* computes stay in range: no frame index -1 is ever remembered or written. *)
TypeOK ==
  /\ tabla \in [Frames -> [estado : {0, 1}, pid : Pids \cup {-1},
                           pag : -1 .. MaxPag \cup Frames]]
  /\ colisiones \in [Frames -> [Claves -> Frames \cup {-1}]]
  /\ ultimo \in 0 .. Marcos
  /\ cantPaginas \in [Pids -> Nat \cup {-1}]
  /\ ultimaPagAsig \in [Pids -> -1 .. MaxPag]
  /\ pedido \in [op : Operaciones, pid : Pids \cup {-1}, cant : Nat, total : Nat,
                 pag : -1 .. MaxPag + 1]
  /\ fijas \in [Pids -> Nat \cup {-1}]

(* A page that has a frame is found in that frame (hash.h: "me devuelve el  *)
(* marco correcto donde se alojo la colision"), by every read and write of  *)
(* Memoria and at every moment, half way through a request included.        *)
CadaPaginaEnSuMarco ==
  \A pid \in Pids : \A m \in MarcosDe(pid) : PosPaginaSolicitada(pid, tabla[m].pag) = m

(* And a page that has none is not found: no lookup lands on a frame that   *)
(* is free or is another page's, the collisions of released pages included. *)
BusquedaCorrecta ==
  /\ CadaPaginaEnSuMarco
  /\ \A pid \in Pids, pag \in Pags :
       LET m == PosPaginaSolicitada(pid, pag)
       IN  m = -1 \/ (m \in MarcosDe(pid) /\ tabla[m].pag = pag)

(* A request that was admitted never runs out of frames half way: the count *)
(* taken on entry still covers the pages left, so reasignar_colision never  *)
(* answers -1 (which the callers would use as an index).                    *)
MarcosAlcanzan ==
  pedido.op \in {"codigo", "stack", "heap"} =>
    pedido.cant + (IF pedido.op = "codigo" THEN StackSize ELSE 0) <= CantMarcosLibre

(* Pages done so far by the request, seen from process pid. *)
Hechas(pid) ==
  IF pedido.op = "nada" \/ pedido.pid # pid THEN 0
  ELSE IF pedido.op = "liberar" THEN pedido.cant - pedido.total
  ELSE pedido.total - pedido.cant

(* cantPaginas, the only thing that tells K25 how many pages to release, is *)
(* the number of frames of the process; one that is not listed has none.    *)
(* If it were short K25 would leak frames, if it were long it would loop.   *)
CuentaPaginas ==
  \A pid \in Pids :
    Cardinality(MarcosDe(pid)) =
      (IF cantPaginas[pid] = -1 THEN 0 ELSE cantPaginas[pid]) + Hechas(pid)

(* Every request of the Kernel is answered: in particular K25, which counts *)
(* only the page numbers it finds, finds them all.                          *)
AtencionTermina == (pedido.op # "nada") ~> (pedido.op = "nada")

(* The table implements the map of MapaPaginas: while the request of one    *)
(* process is served, no other page changes frame under the CPUs.           *)
Mapa == INSTANCE MapaPaginas
          WITH Paginas   <- Pags,
               MarcosUso <- MarcosTabla .. (Marcos - 1),
               marcoDe   <- [par \in Pids \X Pags |-> PosPaginaSolicitada(par[1], par[2])]

ImplementaMapa == Mapa!Spec
=============================================================================
