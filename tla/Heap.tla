-------------------------------- MODULE Heap --------------------------------
(***************************************************************************)
(* The dynamic memory of the programs: memoria.c of the Kernel, with the   *)
(* primitives reservar and liberar of the CPU that call it and the pages   *)
(* of Memoria it keeps its blocks in.                                      *)
(*                                                                         *)
(* A page of the heap is a row of blocks, each after a header of five      *)
(* bytes with its size and a flag.  The headers live in Memoria (mem); the *)
(* Kernel keeps only a list of pages with a count of free bytes for each.  *)
(* hiloM answers one request at a time: a reservation goes from page to    *)
(* page, and each turn of its loop is a step.                              *)
(*                                                                         *)
(* The content of a page is modelled as its row of blocks.  When a header  *)
(* is written over another, or read outside its page, there is no row any  *)
(* more: roto is set and the model goes no further.  A program frees only  *)
(* what it holds.                                                          *)
(***************************************************************************)
EXTENDS Integers, Sequences, FiniteSets, SequencesExt, FiniteSetsExt

CONSTANTS
  Pids,      \* programs that are running
  Tam,       \* tam_pagina
  CantPag,   \* pcb->cant_pag, pages of code
  PagStack,  \* pag_stack, pages of stack
  Marcos,    \* frames of Memoria that are free for the heap
  Tamanos,   \* sizes a program asks for
  MaxVivos,  \* bound: reservations each program holds at once
  MaxEsp     \* bound: free bytes a page may be thought to have

ASSUME HeapOK ==
  /\ Tam \in Nat /\ Tam > 15
  /\ CantPag \in Nat \ {0} /\ PagStack \in Nat /\ Marcos \in Nat /\ MaxEsp \in Nat /\ MaxVivos \in [Pids -> Nat]
  /\ Tamanos \subseteq Nat \ {0}

VARIABLES
  paginas,  \* memoria_dinamica, by program: pages with n_pagina and esp_libre
  debe,     \* allocs_size - frees_size, by program
  mem,      \* Memoria: the blocks of the heap pages it holds
  libres,   \* Memoria: free frames
  hiloM,    \* the request being answered
  prog,     \* "corre", "espera" an answer, "error" (got K21), "fin"
  vivos,    \* what the program holds: [ptr, tam]
  justas,   \* history: pages where a block was given whole
  roto

vars == <<paginas, debe, mem, libres, hiloM, prog, vivos, justas, roto>>
kernel == <<paginas, debe>>

Cabecera == 5
EnSelect == [pc |-> "select", pid |-> 0, tam |-> 0, n |-> 0]

Init ==
  /\ paginas = [p \in Pids |-> <<>>]
  /\ debe = [p \in Pids |-> 0]
  /\ mem = [x \in {} |-> <<>>]
  /\ libres = Marcos
  /\ hiloM = EnSelect
  /\ prog = [p \in Pids |-> "corre"]
  /\ vivos = [p \in Pids |-> {}]
  /\ justas = {}
  /\ roto = FALSE

-----------------------------------------------------------------------------
(* The blocks of a page *)

(* Variants, here and below: one plausible slip each, to see that the       *)
(* property named on the right would notice it.  No behaviour uses them.    *)

Bloque(tam, libre) == [tam |-> tam, libre |-> libre]

(* offset of the header of block i *)
Inicio(bs, i) ==
  LET inicio[k \in 1 .. Len(bs) + 1] ==
        IF k = 1 THEN 0 ELSE inicio[k - 1] + bs[k - 1].tam + Cabecera
  IN  inicio[i]

(* pedir_bytes_memoria, armar_metadata: the headers of a page; Memoria      *)
(* answers M03 for a page it does not hold, and no block is found in that.  *)
Cabeceras(pid, num) == IF <<pid, num>> \in DOMAIN mem THEN mem[<<pid, num>>] ELSE <<>>

BloqueSinMirar(bs, tam) ==                                       \* PunterosEnUso
  LET sirven == {i \in DOMAIN bs : bs[i].tam >= tam}
  IN  IF sirven = {} THEN 0 ELSE Min(sirven)

(* almacenar_bytes, K90: the headers of a page as they are after a write;   *)
(* nothing is written to a page Memoria does not hold.                      *)
AlmacenarBytes(pid, num, bs) == [x \in DOMAIN mem |-> IF x = <<pid, num>> THEN bs ELSE mem[x]]

(* pedir_bloque_libre: the first free block that is large enough, or 0 *)
BloqueLibre(bs, tam) ==
  LET sirven == {i \in DOMAIN bs : bs[i].libre /\ bs[i].tam >= tam}
  IN  IF sirven = {} THEN 0 ELSE Min(sirven)

JuntarSinCabecera(bs, b) ==                                        \* EspLibreExacto
  IF bs # <<>> /\ b.libre /\ bs[Len(bs)].libre
  THEN [bs EXCEPT ![Len(bs)].tam = @ + b.tam]
  ELSE Append(bs, b)

(* a block after those before it: if both are free, the earlier one takes  *)
(* the later one with its header                                            *)
Juntar(bs, b) ==
  IF bs # <<>> /\ b.libre /\ bs[Len(bs)].libre
  THEN [bs EXCEPT ![Len(bs)].tam = @ + Cabecera + b.tam]
  ELSE Append(bs, b)

(* compactar_contiguos: while two neighbours are free they are joined, the  *)
(* first pair of the page each time.                                        *)
Compactar(bs) ==
  LET compacto[k \in 0 .. Len(bs)] ==
        IF k = 0 THEN <<>> ELSE Juntar(compacto[k - 1], bs[k])
  IN  compacto[Len(bs)]

PartirSinCabecera(bs, i, tam) ==                                        \* Mosaico
  LET sobra == bs[i].tam - tam
  IN  IF sobra = 0 THEN [bs EXCEPT ![i].libre = FALSE]
      ELSE SubSeq(bs, 1, i - 1) \o <<Bloque(tam, FALSE), Bloque(sobra, TRUE)>>
           \o SubSeq(bs, i + 1, Len(bs))
PartirSinOcupar(bs, i, tam) ==                                 \* ImplementaReserva
  LET sobra == bs[i].tam - tam
  IN  IF sobra = 0 THEN bs
      ELSE SubSeq(bs, 1, i - 1) \o <<Bloque(tam, TRUE), Bloque(sobra - Cabecera, TRUE)>>
           \o SubSeq(bs, i + 1, Len(bs))

(* ubicar_bloque: block i becomes used, and what is left of it a new block *)
Partir(bs, i, tam) ==
  LET sobra == bs[i].tam - tam
  IN  IF sobra = 0 THEN [bs EXCEPT ![i].libre = FALSE]
      ELSE SubSeq(bs, 1, i - 1) \o <<Bloque(tam, FALSE), Bloque(sobra - Cabecera, TRUE)>>
           \o SubSeq(bs, i + 1, Len(bs))

(* the block whose header is at an offset *)
BloqueEn(bs, off) == CHOOSE i \in DOMAIN bs : Inicio(bs, i) = off

-----------------------------------------------------------------------------
(* The pages of a program *)

(* inicializar_pagina_dinamica: its number is not asked to Memoria *)
PaginaNueva(pid) ==
  [num |-> CantPag + PagStack + Len(paginas[pid]), esp |-> Tam - Cabecera]

(* _buscar_pagina *)
BuscarPagina(pid, num) == CHOOSE k \in DOMAIN paginas[pid] : paginas[pid][k].num = num

Actual == paginas[hiloM.pid][hiloM.n]
Fila == Cabeceras(hiloM.pid, Actual.num)

HayEspacio == Actual.esp - Cabecera >= hiloM.tam

(* The search of a page after compacting it: what goes on as the loop does. *)
Gira == /\ hiloM.pc = "busca" /\ hiloM.n \in DOMAIN paginas[hiloM.pid]
        /\ HayEspacio
        /\ BloqueLibre(Compactar(Fila), hiloM.tam) = 0

(* forzar_finalizacion, pedir_pcb_error: K21 to the CPU *)
Forzar(pid) == prog' = [prog EXCEPT ![pid] = "error"]

-----------------------------------------------------------------------------
(* alloc *)

(* reservar of the CPU, and the start of reservar_memoria_din: a request    *)
(* that no page could hold ends the program.                                *)
P17(p, tam) ==
  /\ ~roto /\ hiloM = EnSelect /\ prog[p] = "corre"
  /\ Cardinality(vivos[p]) < MaxVivos[p]                        \* bound
  /\ IF tam < Tam - 10
     THEN /\ hiloM' = [pc |-> "busca", pid |-> p, tam |-> tam, n |-> 1]
          /\ prog' = [prog EXCEPT ![p] = "espera"]
     ELSE Forzar(p) /\ UNCHANGED hiloM
  /\ UNCHANGED <<kernel, mem, libres, vivos, justas, roto>>

SiguientePaginaQuieta ==                                       \* AtencionTermina
  /\ ~roto /\ hiloM.pc = "busca"
  /\ \/ hiloM.n \in DOMAIN paginas[hiloM.pid] /\ ~HayEspacio /\ UNCHANGED hiloM
     \/ /\ hiloM.n \notin DOMAIN paginas[hiloM.pid]
        /\ hiloM' = [hiloM EXCEPT !.pc = "pide"]
  /\ UNCHANGED <<kernel, mem, libres, prog, vivos, justas, roto>>

(* The loop over the pages advances only past those without enough bytes. *)
SiguientePagina ==
  /\ ~roto /\ hiloM.pc = "busca"
  /\ \/ /\ hiloM.n \in DOMAIN paginas[hiloM.pid] /\ ~HayEspacio
        /\ hiloM' = [hiloM EXCEPT !.n = @ + 1]
     \/ /\ hiloM.n \notin DOMAIN paginas[hiloM.pid]
        /\ hiloM' = [hiloM EXCEPT !.pc = "pide"]
  /\ UNCHANGED <<kernel, mem, libres, prog, vivos, justas, roto>>

(* K99 to the CPU: reservar takes the pages of code off the address. *)
Responder(dir) ==
  LET p == hiloM.pid
  IN  /\ vivos' = [vivos EXCEPT ![p] = @ \cup {[ptr |-> dir - CantPag * Tam, tam |-> hiloM.tam]}]
      /\ prog' = [prog EXCEPT ![p] = "corre"]
      /\ hiloM' = EnSelect

UbicarDescontandoPoco(bs, i) ==                                       \* GiraPorque
  LET sobra == bs[i].tam - hiloM.tam
      p == hiloM.pid
  IN  /\ debe' = [debe EXCEPT ![p] = @ + hiloM.tam]
      /\ Responder(Actual.num * Tam + Inicio(bs, i) + Cabecera)
      /\ mem' = AlmacenarBytes(p, Actual.num, Partir(bs, i, hiloM.tam))
      /\ paginas' = [paginas EXCEPT ![p][hiloM.n].esp =
                       @ - (IF sobra = 0 THEN 0 ELSE hiloM.tam)]
      /\ justas' = justas \cup (IF sobra = 0 THEN {<<p, Actual.num>>} ELSE {})
      /\ roto' = (sobra \in 1 .. Cabecera - 1)

(* ubicar_bloque: the block is given, its header written and, unless it is  *)
(* given whole, the header of what is left and the free bytes of the page.  *)
(* With less than a header left over, that one falls on the next block or   *)
(* out of the page.                                                         *)
Ubicar(bs, i) ==
  LET sobra == bs[i].tam - hiloM.tam
      p == hiloM.pid
  IN  /\ debe' = [debe EXCEPT ![p] = @ + hiloM.tam]
      /\ Responder(Actual.num * Tam + Inicio(bs, i) + Cabecera)
      /\ mem' = AlmacenarBytes(p, Actual.num, Partir(bs, i, hiloM.tam))
      /\ paginas' = [paginas EXCEPT ![p][hiloM.n].esp =
                       @ - (IF sobra = 0 THEN 0 ELSE hiloM.tam + Cabecera)]
      /\ justas' = justas \cup (IF sobra = 0 THEN {<<p, Actual.num>>} ELSE {})
      /\ roto' = (sobra \in 1 .. Cabecera - 1)

(* A page with enough bytes: try as it is, then compacted.  If no block     *)
(* fits, the next turn of the loop is for the same page.                    *)
BuscarBloque ==
  /\ ~roto /\ hiloM.pc = "busca"
  /\ hiloM.n \in DOMAIN paginas[hiloM.pid] /\ HayEspacio
  /\ \E bs \in {IF BloqueLibre(Fila, hiloM.tam) # 0 THEN Fila ELSE Compactar(Fila)} :
     \E i \in {BloqueLibre(bs, hiloM.tam)} :
       \/ i # 0 /\ Ubicar(bs, i)
       \/ /\ i = 0
          /\ mem' = AlmacenarBytes(hiloM.pid, Actual.num, bs)
          /\ UNCHANGED <<kernel, hiloM, prog, vivos, justas, roto>>
  /\ UNCHANGED libres

(* The walk over the blocks ends only past tam_pagina, so one that finds    *)
(* nothing has read a header just after the page; whatever is there may     *)
(* look like a free block.                                                  *)
LeerFueraDePagina ==
  /\ ~roto /\ hiloM.pc = "busca"
  /\ hiloM.n \in DOMAIN paginas[hiloM.pid] /\ HayEspacio
  /\ Fila # <<>> /\ BloqueLibre(Fila, hiloM.tam) = 0
  /\ roto' = TRUE
  /\ UNCHANGED <<kernel, mem, libres, hiloM, prog, vivos, justas>>

(* pedir_pagina (K19) and inicializar_pagina_dinamica; then the search      *)
(* starts again from the first page.  Without a frame the program ends.     *)
PedirPagina ==
  LET p == hiloM.pid
  IN  /\ ~roto /\ hiloM.pc = "pide"
      /\ IF libres > 0
         THEN /\ libres' = libres - 1
              /\ mem' = [x \in DOMAIN mem \cup {<<p, PaginaNueva(p).num>>} |->
                           IF x \in DOMAIN mem THEN mem[x]
                           ELSE <<Bloque(Tam - Cabecera, TRUE)>>]
              /\ paginas' = [paginas EXCEPT ![p] = Append(@, PaginaNueva(p))]
              /\ hiloM' = [hiloM EXCEPT !.pc = "busca", !.n = 1]
              /\ UNCHANGED prog
         ELSE /\ Forzar(p)
              /\ hiloM' = EnSelect
              /\ UNCHANGED <<libres, mem, paginas>>
      /\ UNCHANGED <<debe, vivos, justas, roto>>

-----------------------------------------------------------------------------
(* free *)

TamLeidoConCabecera(p, num, off) ==                                 \* CuentaFugas
  LET bs == Cabeceras(p, num)
  IN  IF bs = <<>> THEN 0 ELSE bs[BloqueEn(bs, off)].tam + Cabecera

(* The block of an address, used until now, as liberar_bloque reads it:     *)
(* size zero when Memoria does not hold the page.                           *)
TamLeido(p, num, off) ==
  LET bs == Cabeceras(p, num) IN IF bs = <<>> THEN 0 ELSE bs[BloqueEn(bs, off)].tam

(* liberar_bloque: a page whose bytes are all free goes back to Memoria *)
DevolverPagina(esp) == esp = Tam - Cabecera

(* liberar of the CPU: the pointer of the program counts from its stack. *)
Direccion(v) == v.ptr + CantPag * Tam

(* liberar_bloque, for what a program holds.  The page stays in             *)
(* memoria_dinamica when it is given back (K24).  The dictionary posiciones *)
(* answers the page an address was computed from.                           *)
P18(p, v) ==
  LET num == Direccion(v) \div Tam
      k == BuscarPagina(p, num)
      off == (Direccion(v) - Cabecera) % Tam
      bs == Cabeceras(p, num)
      esp == paginas[p][k].esp + TamLeido(p, num, off) + Cabecera
      queda == IF bs = <<>> THEN bs ELSE [bs EXCEPT ![BloqueEn(bs, off)].libre = TRUE]
  IN  /\ ~roto /\ hiloM = EnSelect /\ prog[p] = "corre" /\ v \in vivos[p]
      /\ esp <= MaxEsp                                         \* bound
      /\ debe' = [debe EXCEPT ![p] = @ - TamLeido(p, num, off)]
      /\ paginas' = [paginas EXCEPT ![p][k].esp = esp]
      /\ IF bs = <<>> THEN Forzar(p) ELSE UNCHANGED prog
      /\ vivos' = [vivos EXCEPT ![p] = @ \ {v}]
      /\ IF bs # <<>> /\ DevolverPagina(esp)
         THEN /\ mem' = Restrict(mem, DOMAIN mem \ {<<p, num>>})
              /\ libres' = libres + 1
         ELSE /\ mem' = AlmacenarBytes(p, num, queda)
              /\ UNCHANGED libres
      /\ UNCHANGED <<hiloM, justas, roto>>

TerminarSinPaginas(p) ==                                                \* TypeOK
  /\ ~roto /\ hiloM = EnSelect /\ prog[p] \in {"corre", "error"}
  /\ prog' = [prog EXCEPT ![p] = "fin"]
  /\ vivos' = [vivos EXCEPT ![p] = {}]
  /\ paginas' = [paginas EXCEPT ![p] = <<>>]
  /\ UNCHANGED <<debe, mem, libres, hiloM, justas, roto>>

(* The program ends by itself or after a K21: P13, finalizar_proceso and    *)
(* liberar_proceso_pagina (K25).  What the Kernel keeps of it is not used   *)
(* again, only printed.                                                     *)
Terminar(p) ==
  /\ ~roto /\ hiloM = EnSelect /\ prog[p] \in {"corre", "error"}
  /\ prog' = [prog EXCEPT ![p] = "fin"]
  /\ mem' = Restrict(mem, {x \in DOMAIN mem : x[1] # p})
  /\ libres' = libres + Cardinality({x \in DOMAIN mem : x[1] = p})
  /\ vivos' = [vivos EXCEPT ![p] = {}]
  /\ paginas' = [paginas EXCEPT ![p] = <<>>]
  /\ debe' = [debe EXCEPT ![p] = 0]
  /\ justas' = {x \in justas : x[1] # p}
  /\ UNCHANGED <<hiloM, roto>>

HiloM == SiguientePagina \/ BuscarBloque \/ PedirPagina

Next ==
  \/ \E p \in Pids, tam \in Tamanos : P17(p, tam)
  \/ \E p \in Pids : \E v \in vivos[p] : P18(p, v)
  \/ \E p \in Pids : Terminar(p)
  \/ HiloM
  \/ LeerFueraDePagina

Spec == Init /\ [][Next]_vars /\ WF_vars(HiloM)

-----------------------------------------------------------------------------
(* Properties *)

EnMem(p, k) == <<p, paginas[p][k].num>> \in DOMAIN mem
Pos(v) == Direccion(v) % Tam
NumDe(v) == Direccion(v) \div Tam
Bytes(ns) == LET suma[k \in 0 .. Len(ns)] == IF k = 0 THEN 0 ELSE suma[k - 1] + ns[k]
             IN  suma[Len(ns)]
LibresDe(bs) == {i \in DOMAIN bs : bs[i].libre}

(* Types, and that every page of heap Memoria holds is one the Kernel lists *)
(* and accounts for in the free frames.                                     *)
TypeOK ==
  /\ \A p \in Pids : /\ paginas[p] \in Seq([num : Nat, esp : Nat])
                     /\ prog[p] \in {"corre", "espera", "error", "fin"}
                     /\ vivos[p] \subseteq [ptr : Nat, tam : Tamanos]
  /\ hiloM # EnSelect => hiloM.pc \in {"busca", "pide"} /\ prog[hiloM.pid] = "espera"
  /\ \A x \in DOMAIN mem : \E k \in DOMAIN paginas[x[1]] : paginas[x[1]][k].num = x[2]
  /\ libres \in Nat /\ libres + Cardinality(DOMAIN mem) = Marcos
  /\ roto \in BOOLEAN

(* ubicar_bloque and compactar_contiguos rewrite headers in place: the      *)
(* blocks of a page, with their headers, must fill it exactly or the walk   *)
(* of the next request reads a header in the middle of somebody's data.     *)
Mosaico == roto \/ \A x \in DOMAIN mem : Inicio(mem[x], Len(mem[x]) + 1) = Tam

(* esp_libre is kept apart from the headers and decides which pages are     *)
(* tried and when one is given back: it counts the free blocks, all but one *)
(* header, and too much on a page where a block was given whole.            *)
EspLibreExacto ==
  roto \/ \A p \in Pids : \A k \in DOMAIN paginas[p] : EnMem(p, k) =>
    LET bs == mem[<<p, paginas[p][k].num>>]
        libre == Bytes([i \in DOMAIN bs |-> IF bs[i].libre THEN bs[i].tam + Cabecera ELSE 0])
                 - Cabecera
    IN  /\ paginas[p][k].esp >= libre
        /\ <<p, paginas[p][k].num>> \notin justas => paginas[p][k].esp = libre

(* Every address a program holds is that of a used block of the size it     *)
(* asked for, however often the page was split and compacted since; and a   *)
(* page with such an address goes back to Memoria only after esp_libre of   *)
(* that page went wrong.                                                    *)
PunterosEnUso ==
  roto \/ \A p \in Pids : \A v \in vivos[p] :
    IF <<p, NumDe(v)>> \in DOMAIN mem
    THEN LET bs == mem[<<p, NumDe(v)>>]
         IN  \E i \in DOMAIN bs : /\ Inicio(bs, i) + Cabecera = Pos(v)
                                  /\ ~bs[i].libre /\ bs[i].tam = v.tam
    ELSE <<p, NumDe(v)>> \in justas

(* The bytes the Kernel reports as not freed when a program ends are those  *)
(* of the reservations it held.                                             *)
CuentaFugas ==
  \A p \in Pids : prog[p] \in {"corre", "espera"} =>
    debe[p] = MapThenSumSet(LAMBDA v : v.tam, vivos[p])

(* The loop of reservar_memoria_din stays on a page for ever only if the    *)
(* page is no longer in Memoria, or its count of free bytes is too high, or *)
(* its free bytes are in pieces that compacting cannot join.                *)
GiraPorque ==
  ~roto /\ Gira =>
    \/ Fila = <<>>
    \/ <<hiloM.pid, Actual.num>> \in justas
    \/ Cardinality(LibresDe(Compactar(Fila))) >= 2

(* Every reservation is answered, with an address or with K21, unless its   *)
(* search comes to such a page.                                             *)
AtencionTermina == hiloM # EnSelect ~> (hiloM = EnSelect \/ roto \/ Gira)

(* The reservations of a program are ranges that never overlap or move.     *)
Rango(v) == [desde |-> v.ptr, tam |-> v.tam]
Abstracta == INSTANCE Reserva WITH rangos <- [p \in Pids |-> {Rango(v) : v \in vivos[p]}]
ImplementaReserva == Abstracta!Spec

(* A page given back to Memoria held nothing of a running program:          *)
(* liberar_bloque frees the block of the address and no other.              *)
DevueltaVacia ==
  \A p \in Pids : prog[p] = "corre" =>
    \A v \in vivos[p] : <<p, NumDe(v)>> \in DOMAIN mem
=============================================================================
