------------------------------- MODULE Cache -------------------------------
(***************************************************************************)
(* Reads and writes of Memoria through its cache.  A thread serves each    *)
(* CPU and one the Kernel.  A read (P01, K94) and the release of pages     *)
(* (K24, K25) hold mutex_cache, a write (P08, K90) holds mutex_memoria:    *)
(* reads exclude reads and writes exclude writes, but a write and a read   *)
(* of two programs interleave, each at the steps below.                    *)
(*                                                                         *)
(* What is in memory is told by page (in which frame is TablaPaginas), in  *)
(* words.  The LRU numbers are always different (the one used becomes 0    *)
(* and all others go up), so that their order is kept, not the numbers;    *)
(* incrementarLRU is one step, although two threads may run it at once.    *)
(* The two copies that a read makes of its page (its bytes, and the whole  *)
(* page for the entry) are one step: nobody else writes the page.  A write *)
(* that copies into the entry being replaced is taken as done before it or *)
(* after it.  The cache is enabled.                                        *)
(***************************************************************************)
EXTENDS Integers, Sequences, FiniteSets, SequencesExt, FiniteSetsExt, Functions

CONSTANTS
  Pids,
  Tam,              \* bytes of a page
  EntradasCache,
  EntradasProceso   \* entries a program may have

ASSUME CacheOK ==
  /\ Pids \subseteq Nat \ {0}
  /\ Tam \in Nat /\ Tam % 4 = 0 /\ Tam > 0
  /\ EntradasCache \in Nat \ {0} /\ EntradasProceso \in Nat \ {0}

VARIABLES
  mem,       \* <<pid, pag>> -> the words of the page
  cache,     \* entries: [pid, pag, datos]
  orden,     \* Cache_LRU: entries in use, from the last one used
  acceso,    \* by program: the request a thread has for it, and its answer
  libera,    \* the program the Kernel is releasing with K25, or 0
  roto,      \* a thread followed the NULL of an entry released
  manchadas  \* history: entries written by a thread that held them no more

cacheVars == <<mem, cache, orden, acceso, libera, roto, manchadas>>

Entradas == 0 .. EntradasCache - 1
Vacia == [pid |-> -1, pag |-> -1, datos |-> <<>>]
Nada == [pc |-> "nada", op |-> "nada", kernel |-> FALSE, dir |-> [pag |-> 0, k |-> 0], valor |-> 0,
         pos |-> -1, res |-> "nada", sucio |-> FALSE]
Pagina(p) == <<p, acceso[p].dir.pag>>

CacheInit ==
  /\ cache = [i \in Entradas |-> Vacia] /\ orden = <<>>
  /\ acceso = [p \in Pids |-> Nada]
  /\ libera = 0 /\ roto = FALSE /\ manchadas = {}

-----------------------------------------------------------------------------
(* Variants, here and below: one plausible slip each, to see that the       *)
(* property named on the right would notice it.  No behaviour uses them.    *)

BuscarPosCache(x) ==
  LET cuales == {i \in Entradas : cache[i].pid = x[1] /\ cache[i].pag = x[2]}
  IN  IF cuales = {} THEN -1 ELSE Min(cuales)

CantPidEnCache(p) == Cardinality({i \in Entradas : cache[i].pid = p})

(* incrementarLRU, and 0 to the entry *)
Usada(i) == <<i>> \o RemoveFirst(orden, i)

(* sustituirLRU: the first entry never used or released, or the one used    *)
(* longest ago.                                                             *)
SustituirLRU ==
  LET sueltas == Entradas \ ToSet(orden) IN IF sueltas # {} THEN Min(sueltas) ELSE Last(orden)

SustituirCualquiera(p) == SustituirLRU                                  \* TypeOK

(* sustituirLRUproc: the entry of the program used longest ago *)
SustituirLRUProc(p) == orden[Max({k \in DOMAIN orden : cache[orden[k]].pid = p})]

(* the two mutexes *)
CacheLibre == libera = 0 /\ \A p \in Pids : acceso[p].pc # "trae"
MemoriaLibre == \A p \in Pids : acceso[p].pc \notin {"copia", "baja"}

(* The thread of the Kernel has one request at a time. *)
KernelLibre == libera = 0 /\ \A p \in Pids : ~acceso[p].kernel

Responder(p, res, sucio) ==
  acceso' = [acceso EXCEPT ![p] = [@ EXCEPT !.pc = "listo", !.res = res, !.sucio = sucio]]

-----------------------------------------------------------------------------
(* solicitarBytes *)

(* M03 for a page that does not exist; a hit; or a miss, and the memory is  *)
(* waited for with mutex_cache held.                                        *)
SolicitarBytes(p) ==
  /\ ~roto /\ acceso[p].pc = "pide" /\ acceso[p].op = "leer" /\ CacheLibre
  /\ \E i \in {BuscarPosCache(Pagina(p))} :
       \/ /\ Pagina(p) \notin DOMAIN mem
          /\ Responder(p, "M03", FALSE)
          /\ UNCHANGED orden
       \/ /\ Pagina(p) \in DOMAIN mem /\ i # -1
          /\ acceso' = [acceso EXCEPT ![p] = [@ EXCEPT
               !.pc = "listo", !.res = "M08", !.valor = cache[i].datos[acceso[p].dir.k + 1],
               !.sucio = i \in manchadas]]
          /\ orden' = Usada(i)
       \/ /\ Pagina(p) \in DOMAIN mem /\ i = -1
          /\ acceso' = [acceso EXCEPT ![p].pc = "trae"]
          /\ UNCHANGED orden
  /\ UNCHANGED <<mem, cache, libera, roto, manchadas>>

(* The page gets an entry: of the program's own when it has its share. *)
TraerPagina(p) ==
  /\ ~roto /\ acceso[p].pc = "trae"
  /\ \E i \in {IF CantPidEnCache(p) < EntradasProceso THEN SustituirLRU ELSE SustituirLRUProc(p)} :
       /\ cache' = [cache EXCEPT ![i] =
                      [pid |-> p, pag |-> acceso[p].dir.pag, datos |-> mem[Pagina(p)]]]
       /\ orden' = Usada(i)
       /\ manchadas' = manchadas \ {i}
  /\ acceso' = [acceso EXCEPT ![p] = [@ EXCEPT
       !.pc = "listo", !.res = "M08", !.valor = mem[Pagina(p)][acceso[p].dir.k + 1]]]
  /\ UNCHANGED <<mem, libera, roto>>

-----------------------------------------------------------------------------
(* almacenarBytes *)

AlmacenarBytes(p) ==
  /\ ~roto /\ acceso[p].pc = "pide" /\ acceso[p].op = "escribir" /\ MemoriaLibre
  /\ IF Pagina(p) \notin DOMAIN mem THEN Responder(p, "M03", FALSE)
     ELSE \E i \in {BuscarPosCache(Pagina(p))} :
            acceso' = [acceso EXCEPT ![p].pc = IF i = -1 THEN "baja" ELSE "copia", ![p].pos = i]
  /\ UNCHANGED <<mem, cache, orden, libera, roto, manchadas>>

CopiarSinOffset(p) ==                                            \* LeeLoAsignado
  LET i == acceso[p].pos
      suya == <<cache[i].pid, cache[i].pag>> = Pagina(p)
  IN  /\ ~roto /\ acceso[p].pc = "copia"
      /\ acceso' = [acceso EXCEPT ![p].pc = "baja"]
      /\ manchadas' = IF suya THEN manchadas ELSE manchadas \cup {i}
      /\ IF cache[i].datos = <<>> THEN roto' = TRUE /\ UNCHANGED cache
         ELSE cache' = [cache EXCEPT ![i].datos[1] = acceso[p].valor] /\ UNCHANGED roto
      /\ UNCHANGED <<mem, orden, libera>>

(* The entry that was found is written, whatever it holds by now. *)
CopiarEnCache(p) ==
  LET i == acceso[p].pos
      suya == <<cache[i].pid, cache[i].pag>> = Pagina(p)
  IN  /\ ~roto /\ acceso[p].pc = "copia"
      /\ acceso' = [acceso EXCEPT ![p].pc = "baja"]
      /\ manchadas' = IF suya THEN manchadas ELSE manchadas \cup {i}
      /\ IF cache[i].datos = <<>> THEN roto' = TRUE /\ UNCHANGED cache
         ELSE cache' = [cache EXCEPT ![i].datos[acceso[p].dir.k + 1] = acceso[p].valor]
              /\ UNCHANGED roto
      /\ UNCHANGED <<mem, orden, libera>>

BajarDesdeEntrada(p) ==                                           \* MemoriaAlDia
  LET i == acceso[p].pos
      dato == IF i = -1 \/ cache[i].datos = <<>> THEN acceso[p].valor
              ELSE cache[i].datos[acceso[p].dir.k + 1]
  IN  /\ ~roto /\ acceso[p].pc = "baja"
      /\ mem' = [mem EXCEPT ![Pagina(p)][acceso[p].dir.k + 1] = dato]
      /\ orden' = IF i = -1 THEN orden ELSE Usada(i)
      /\ Responder(p, "M02", FALSE)
      /\ UNCHANGED <<cache, libera, roto, manchadas>>

(* and then the memory, from the message; the entry counts as used. *)
BajarAMemoria(p) ==
  /\ ~roto /\ acceso[p].pc = "baja"
  /\ mem' = [mem EXCEPT ![Pagina(p)][acceso[p].dir.k + 1] = acceso[p].valor]
  /\ orden' = IF acceso[p].pos = -1 THEN orden ELSE Usada(acceso[p].pos)
  /\ Responder(p, "M02", FALSE)
  /\ UNCHANGED <<cache, libera, roto, manchadas>>

-----------------------------------------------------------------------------
(* liberar_paginas_pid and liberar_una_pagina, K25 *)

K25(p) ==
  /\ ~roto /\ KernelLibre /\ CacheLibre
  /\ libera' = p
  /\ UNCHANGED <<mem, cache, orden, acceso, roto, manchadas>>

LiberarUnaPagina ==
  LET suyas == {x \in DOMAIN mem : x[1] = libera}
      x == <<libera, Min({y[2] : y \in suyas})>>
      i == BuscarPosCache(x)
  IN  /\ ~roto /\ libera # 0
      /\ IF suyas = {}
         THEN libera' = 0 /\ UNCHANGED <<mem, cache, orden, manchadas>>
         ELSE /\ mem' = Restrict(mem, DOMAIN mem \ {x})
              /\ cache' = IF i = -1 THEN cache ELSE [cache EXCEPT ![i] = Vacia]
              /\ orden' = RemoveFirst(orden, i)
              /\ manchadas' = manchadas \ {i}
              /\ UNCHANGED libera
      /\ UNCHANGED <<acceso, roto>>

Hilos ==
  \/ \E p \in Pids : \/ SolicitarBytes(p) \/ TraerPagina(p)
                     \/ AlmacenarBytes(p) \/ CopiarEnCache(p) \/ BajarAMemoria(p)
  \/ LiberarUnaPagina
=============================================================================
