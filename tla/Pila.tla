-------------------------------- MODULE Pila --------------------------------
(***************************************************************************)
(* Programs on their CPUs: the primitives that touch the stack and the     *)
(* memory, line by line, over the cache of Memoria (module Cache) and with *)
(* the PCB going to the Kernel and back (module PCB).  Each program has a  *)
(* CPU of its own while it runs.                                           *)
(*                                                                         *)
(* The parser is external: a line is the sequence of primitives it calls.  *)
(* Memory is told in words of four bytes, the size of every variable.      *)
(***************************************************************************)
EXTENDS Cache, PCB

CONSTANTS
  Textos,         \* the programs: their lines, and their labels in order
  Combinaciones,  \* which program each process runs: functions on Pids
  Largo,          \* bytes of a line
  PagStack,       \* STACK_SIZE of the Kernel
  MaxVueltas      \* bound: ends of a quantum, of all programs

(* A line calls primitives with the name of a variable or of a label, or a  *)
(* number; a label has a name.                                              *)
Primitivas ==
  ({"definir", "posicion", "leer", "asignar", "retornar", "finalizar", "k19", "k94"} \X STRING)
  \cup ({"ir", "llamar", "procedimiento"} \X (STRING \ {SinNombre}))
  \cup ({"valor", "k90"} \X Int)

ASSUME PilaOK ==
  /\ Largo \in Nat \ {0} /\ PagStack \in Nat /\ MaxVueltas \in Nat
  /\ Textos \in Seq([lineas : Seq(Seq(Primitivas)), etiquetas : Seq([nombre : STRING, pc : Nat])])
  /\ Combinaciones \subseteq [Pids -> DOMAIN Textos]

VARIABLES
  texto, pcb,
  estado,    \* "cpu", "listo", "fin", "terminado"; "caida" with its CPU, or "perdido"
  vueltas,   \* ends of a quantum so far
  cpu,       \* what the CPU keeps while it runs a line
  asignado,  \* history: address -> last value stored there by the program
  pisado     \* history: addresses stored through by mistake

progVars == <<texto, pcb, estado, vueltas, cpu, asignado, pisado>>
vars == <<texto, pcb, estado, vueltas, cpu, asignado, pisado, cacheVars>>

(* f, with v at x *)
Con(f, x, v) == [y \in DOMAIN f \cup {x} |-> IF y = x THEN v ELSE f[y]]

(* What is left of a value after string_substring: its bytes, lowest first, *)
(* up to the first zero.                                                    *)
Corta(n) == IF n % 256 = 0 THEN 0
            ELSE IF (n \div 256) % 256 = 0 THEN n % 256
            ELSE IF (n \div 65536) % 256 = 0 THEN n % 65536 ELSE n

EmpiezaConM03(n) == n % 16777216 = 3354701       \* the bytes of "M03"

Nueva == [fase |-> "nueva", tarea |-> <<>>, destino |-> -1, valor |-> 0,
          salto |-> FALSE, accion |-> "continuar"]

CantPag(t) == (Len(Textos[t].lineas) * Largo + Tam - 1) \div Tam
Blanca(v) == [k \in 1 .. Tam \div 4 |-> v]

(* A program admitted: its code (here, one word over and over) and its      *)
(* stack in memory, and its PCB.                                            *)
CrearPcb(p, t) ==
  [PID |-> p, PC |-> 0, cant_pag |-> CantPag(t), SP |-> 0, exit_code |-> 0,
   in_cod |-> [n \in DOMAIN Textos[t].lineas |-> [inicio |-> Largo * (n - 1), fin |-> Largo]]
              \o <<FinDeCodigo>>,
   in_et |-> IndiceEtiquetas(Textos[t].etiquetas),
   in_stack |-> IndiceStack]

PaginasCodigo(p) == {<<p, g>> : g \in 0 .. CantPag(texto[p]) - 1}
PaginasStack(p) == {<<p, CantPag(texto[p]) + g>> : g \in 0 .. PagStack - 1}
PaginaHeap(p) == pcb[p].cant_pag + PagStack

Init ==
  /\ texto \in Combinaciones
  /\ pcb = [p \in Pids |-> CrearPcb(p, texto[p])]
  /\ estado = [p \in Pids |-> "cpu"]
  /\ cpu = [p \in Pids |-> Nueva]
  /\ vueltas = 0
  /\ mem = [x \in UNION {PaginasCodigo(p) \cup PaginasStack(p) : p \in Pids} |->
              Blanca(IF x \in PaginasCodigo(x[1]) THEN 100 + x[1] ELSE 0)]
  /\ asignado = [p \in Pids |->
                   [a \in {x[2] : x \in PaginasCodigo(p)} \X (0 .. Tam \div 4 - 1) |-> 100 + p]]
  /\ pisado = [p \in Pids |-> {}]
  /\ CacheInit

-----------------------------------------------------------------------------
(* Positions *)

(* calcular_pagina and calcular_offset_respecto_pagina; of the -1 of an     *)
(* unknown variable the division makes page 0, and atoi offset 0.           *)
Direccion(offset, paginas) ==
  IF offset < 0 THEN [pag |-> paginas, k |-> 0]
  ELSE [pag |-> offset \div Tam + paginas, k |-> (offset % Tam) \div 4]

(* Variants, here and below: one plausible slip each, to see that the       *)
(* property named on the right would notice it.  No behaviour uses them.    *)

CalcularDesdeCero(stack, SP) ==                                 \* VariablesAparte
  LET vs == stack[SP + 1].vars IN IF vs = <<>> THEN 0 ELSE Last(vs).offset + 4

(* calcular_offset: past the last variable of the frame, or of the one      *)
(* below; -1 when that is empty too, and the recursion never ends.          *)
CalcularOffset(stack, SP) ==
  LET ultimos(s) == {Last(l).offset : l \in {stack[s + 1].args, stack[s + 1].vars} \ {<<>>}}
  IN  IF ultimos(SP) # {} THEN Max(ultimos(SP)) + 4
      ELSE IF Len(stack) = 1 THEN 0
      ELSE IF ultimos(SP - 1) # {} THEN Max(ultimos(SP - 1)) + 4 ELSE -1

(* buscar_offset_variable: the last one of that name, or -1 *)
BuscarOffsetVariable(vs, id) ==
  LET cuales == {k \in DOMAIN vs : vs[k].ID = id}
  IN  IF cuales = {} THEN -1 ELSE vs[Max(cuales)].offset

(* A name that kills the CPU: any, once a return of the first frame has     *)
(* left none; or a parameter, which is defined among the variables and      *)
(* looked for among the arguments, which are none.                          *)
SinMarco(p) == pcb[p].SP = -1
Mata(p, id) == SinMarco(p) \/ id \in {"0", "1"}
PosicionVariable(p, id) == BuscarOffsetVariable(pcb[p].in_stack[pcb[p].SP + 1].vars, id)

(* dictionary_get answers NULL for a label that is not there: line 0. *)
PosicionEtiqueta(p, e) ==
  LET d == DiccionarioEtiquetas(pcb[p].in_et) IN IF e \in DOMAIN d THEN d[e] ELSE 0

-----------------------------------------------------------------------------
(* The steps of a line *)

Op(p) == IF cpu[p].tarea = <<>> THEN "nada" ELSE Head(cpu[p].tarea)[1]
Arg(p) == Head(cpu[p].tarea)[2]
EnCpu(p) == ~roto /\ estado[p] = "cpu" /\ cpu[p].fase = "ejecuta"

(* a primitive of the CPU alone *)
Hace(p, op) == EnCpu(p) /\ Op(p) = op /\ acceso[p].pc = "nada"

(* a primitive that asks Memoria, through the socket of the CPU or that of  *)
(* the Kernel, and the answer                                               *)
Pide(p, op, dir, valor, kernel) ==
  /\ acceso' = [acceso EXCEPT ![p] =
       [Nada EXCEPT !.pc = "pide", !.op = op, !.dir = dir, !.valor = valor, !.kernel = kernel]]
  /\ UNCHANGED <<mem, cache, orden, libera, roto, manchadas, progVars>>

Recibe(p, ops) ==
  /\ EnCpu(p) /\ Op(p) \in ops /\ acceso[p].pc = "listo"
  /\ acceso' = [acceso EXCEPT ![p] = Nada]
  /\ UNCHANGED <<mem, cache, orden, libera, roto, manchadas>>

Sigue(c) == [c EXCEPT !.tarea = Tail(@)]
Error(c) == [c EXCEPT !.tarea = Tail(@), !.accion = "error"]
Dir(p) == <<acceso[p].dir.pag, acceso[p].dir.k>>

(* linea_esta_dividida: what the line takes from the page, and the rest *)
Lecturas(s) ==
  LET resto == Tam - (s.inicio % Tam)
  IN  IF s.fin > resto
      THEN <<<<"linea", s.inicio>>, <<"linea", s.inicio + resto>>>>
      ELSE <<<<"linea", s.inicio>>>>

(* pedir_linea_memoria.  Past its last sentence what the CPU reads is no    *)
(* code of the program: the model follows it no further.                    *)
PedirLineaMemoria(p) ==
  /\ ~roto /\ estado[p] = "cpu" /\ cpu[p].fase = "nueva"
  /\ \/ /\ pcb[p].PC >= Len(pcb[p].in_cod) - 1
        /\ estado' = [estado EXCEPT ![p] = "perdido"] /\ UNCHANGED cpu
     \/ /\ pcb[p].PC < Len(pcb[p].in_cod) - 1
        /\ cpu' = [cpu EXCEPT ![p] = [@ EXCEPT
             !.fase = "ejecuta",
             !.tarea = Lecturas(pcb[p].in_cod[pcb[p].PC + 1])
                       \o Textos[texto[p]].lineas[pcb[p].PC + 1]]]
        /\ UNCHANGED estado
  /\ UNCHANGED <<texto, vueltas, pcb, asignado, pisado, cacheVars>>

LeerLinea(p) ==
  \/ Hace(p, "linea") /\ Pide(p, "leer", Direccion(Arg(p), 0), 0, FALSE)
  \/ /\ Recibe(p, {"linea"})
     /\ cpu' = [cpu EXCEPT ![p] = Sigue(@)]
     /\ UNCHANGED <<texto, vueltas, pcb, estado, asignado, pisado>>

(* The CPU dies: a NULL followed, or a recursion with no end. *)
Cae(p) == estado' = [estado EXCEPT ![p] = "caida"] /\ UNCHANGED <<pcb, cpu>>

DefinirVariable(p) ==
  /\ Hace(p, "definir")
  /\ \E o \in {IF SinMarco(p) THEN -1 ELSE CalcularOffset(pcb[p].in_stack, pcb[p].SP)} :
       \/ o = -1 /\ Cae(p)
       \/ /\ o # -1
          /\ pcb' = [pcb EXCEPT ![p].in_stack[pcb[p].SP + 1].vars =
                       Append(@, [ID |-> Arg(p), offset |-> o, pag |-> o \div Tam, size |-> 4])]
          /\ cpu' = [cpu EXCEPT ![p] = [Sigue(@) EXCEPT !.destino = o]]
          /\ UNCHANGED estado
  /\ UNCHANGED <<texto, vueltas, asignado, pisado, cacheVars>>

(* obtenerPosicionVariable *)
ObtenerPosicionVariable(p) ==
  /\ Hace(p, "posicion")
  /\ \/ Mata(p, Arg(p)) /\ Cae(p)
     \/ /\ ~Mata(p, Arg(p))
        /\ \E o \in {PosicionVariable(p, Arg(p))} :
             cpu' = [cpu EXCEPT ![p] = [IF o = -1 THEN Error(@) ELSE Sigue(@) EXCEPT !.destino = o]]
        /\ UNCHANGED <<pcb, estado>>
  /\ UNCHANGED <<texto, vueltas, asignado, pisado, cacheVars>>

(* A constant, or an expression, computed by the parser. *)
Valor(p) ==
  /\ Hace(p, "valor")
  /\ cpu' = [cpu EXCEPT ![p] = [Sigue(@) EXCEPT !.valor = Arg(p)]]
  /\ UNCHANGED <<texto, vueltas, pcb, estado, asignado, pisado, cacheVars>>

(* A variable of an expression: its position, then dereferenciar. *)
Dereferenciar(p) ==
  \/ Hace(p, "leer") /\ Mata(p, Arg(p)) /\ Cae(p) /\ UNCHANGED <<texto, vueltas, asignado, pisado, cacheVars>>
  \/ /\ Hace(p, "leer") /\ ~Mata(p, Arg(p))
     /\ Pide(p, "leer", Direccion(PosicionVariable(p, Arg(p)), pcb[p].cant_pag), 0, FALSE)
  \/ /\ Recibe(p, {"leer"})
     /\ LET a == acceso[p]
            mal == a.res = "M03" \/ EmpiezaConM03(a.valor)
            sinVariable == PosicionVariable(p, Arg(p)) = -1
        IN  /\ cpu' = [cpu EXCEPT ![p] = [IF mal \/ sinVariable THEN Error(@) ELSE Sigue(@)
                                            EXCEPT !.valor = IF mal THEN 0 ELSE a.valor]]
            /\ pcb' = IF mal THEN [pcb EXCEPT ![p].exit_code = -5] ELSE pcb
     /\ UNCHANGED <<texto, vueltas, estado, asignado, pisado>>

(* What was stored at an address: a store through the -1 of an unknown      *)
(* variable, or past the stack, is noted as a mistake.                      *)
Anota(p, offset) ==
  IF offset < 0 \/ offset >= Tam * PagStack
  THEN pisado' = [pisado EXCEPT ![p] = @ \cup {Dir(p)}] /\ UNCHANGED asignado
  ELSE asignado' = [asignado EXCEPT ![p] = Con(@, Dir(p), acceso[p].valor)] /\ UNCHANGED pisado

Falla(p) ==
  /\ cpu' = [cpu EXCEPT ![p] = Error(@)]
  /\ pcb' = [pcb EXCEPT ![p].exit_code = -5]
  /\ UNCHANGED <<asignado, pisado>>

Asignar(p) ==
  \/ /\ Hace(p, "asignar")
     /\ Pide(p, "escribir", Direccion(cpu[p].destino, pcb[p].cant_pag), Corta(cpu[p].valor), FALSE)
  \/ /\ Recibe(p, {"asignar"})
     /\ \/ acceso[p].res = "M03" /\ Falla(p)
        \/ /\ acceso[p].res = "M02"
           /\ Anota(p, cpu[p].destino)
           /\ cpu' = [cpu EXCEPT ![p] = Sigue(@)] /\ UNCHANGED pcb
     /\ UNCHANGED <<texto, vueltas, estado>>

-----------------------------------------------------------------------------
(* Jumps, calls and returns *)

Saltar(p) == cpu' = [cpu EXCEPT ![p] = [Sigue(@) EXCEPT !.salto = TRUE]]

IrAlLabel(p) ==
  /\ Hace(p, "ir")
  /\ pcb' = [pcb EXCEPT ![p].PC = PosicionEtiqueta(p, Arg(p))]
  /\ Saltar(p)
  /\ UNCHANGED <<texto, vueltas, estado, asignado, pisado, cacheVars>>

Marco(b, retVar) == [pos |-> b.SP + 1, retPos |-> b.PC, retVar |-> retVar, args |-> <<>>, vars |-> <<>>]

Llamar(p, retVar) ==
  /\ LET b == pcb[p]
     IN  pcb' = [pcb EXCEPT ![p] = [b EXCEPT !.SP = @ + 1, !.PC = PosicionEtiqueta(p, Arg(p)),
                                             !.in_stack = Append(@, Marco(b, retVar))]]
  /\ Saltar(p)
  /\ UNCHANGED <<texto, vueltas, estado, asignado, pisado, cacheVars>>

LlamarConRetorno(p) ==
  /\ Hace(p, "llamar")
  /\ Llamar(p, [ID |-> SinNombre, offset |-> cpu[p].destino,
                pag |-> Direccion(cpu[p].destino, 0).pag, size |-> 4])

(* retVar stays as malloc gave it; no text here returns a value from it. *)
LlamarSinRetorno(p) ==
  /\ Hace(p, "procedimiento")
  /\ Llamar(p, [ID |-> "?", offset |-> 0, pag |-> 0, size |-> 0])

(* retornar, which at the bottom of the stack pops the last frame. *)
Retornar(p) ==
  LET b == pcb[p]
      marco == b.in_stack[b.SP + 1]
  IN  \/ /\ Hace(p, "retornar") /\ SinMarco(p) /\ Cae(p)
         /\ UNCHANGED <<texto, vueltas, asignado, pisado, cacheVars>>
      \/ /\ Hace(p, "retornar") /\ ~SinMarco(p)
         /\ Pide(p, "escribir", Direccion(marco.retVar.offset, pcb[p].cant_pag),
                 Corta(cpu[p].valor), FALSE)
      \/ /\ Recibe(p, {"retornar"})
         /\ \/ acceso[p].res = "M03" /\ Falla(p)
            \/ /\ acceso[p].res = "M02"
               /\ Anota(p, marco.retVar.offset)
               /\ cpu' = [cpu EXCEPT ![p] = Sigue(@)]
               /\ pcb' = [pcb EXCEPT ![p] = [b EXCEPT !.SP = @ - 1, !.PC = marco.retPos,
                                                      !.in_stack = Front(@)]]
         /\ UNCHANGED <<texto, vueltas, estado>>

(* The end of a procedure only writes the log: its frame stays. *)
Finalizar(p) ==
  /\ Hace(p, "finalizar")
  /\ cpu' = [cpu EXCEPT ![p] = IF pcb[p].SP > 0 THEN Sigue(@) ELSE [Sigue(@) EXCEPT !.accion = "fin"]]
  /\ UNCHANGED <<texto, vueltas, pcb, estado, asignado, pisado, cacheVars>>

-----------------------------------------------------------------------------
(* A reservation (P17), as far as Memoria sees it: the Kernel asks for the  *)
(* page of the program's heap, writes its first header, reads it to look    *)
(* for a block and writes it again.  The rest is module Heap.               *)

K19(p) ==
  LET x == <<p, PaginaHeap(p)>>
  IN  /\ Hace(p, "k19") /\ KernelLibre
      /\ mem' = IF x \in DOMAIN mem THEN mem ELSE Con(mem, x, Blanca(0))
      /\ cpu' = [cpu EXCEPT ![p] = Sigue(@)]
      /\ UNCHANGED <<texto, vueltas, pcb, estado, asignado, pisado, cache, orden, acceso, libera, roto, manchadas>>

K90K94(p) ==
  LET cabecera == [pag |-> PaginaHeap(p), k |-> 0]
  IN  \/ Hace(p, "k90") /\ KernelLibre /\ Pide(p, "escribir", cabecera, Arg(p), TRUE)
      \/ Hace(p, "k94") /\ KernelLibre /\ Pide(p, "leer", cabecera, 0, TRUE)
      \/ /\ Recibe(p, {"k90", "k94"})
         /\ cpu' = [cpu EXCEPT ![p] = Sigue(@)]
         /\ asignado' = IF Op(p) = "k94" \/ acceso[p].res = "M03" THEN asignado
                        ELSE [asignado EXCEPT ![p] = Con(@, Dir(p), acceso[p].valor)]
         /\ UNCHANGED <<texto, vueltas, pcb, estado, pisado>>

-----------------------------------------------------------------------------
(* The end of the line and, perhaps, of the quantum *)

(* procesar, after the line.  At the end of the quantum the PCB goes back   *)
(* as P12 whatever the line asked for; otherwise as P13 if it asked to end. *)
FinDeLinea(p) ==
  LET pc == IF cpu[p].salto THEN pcb[p].PC ELSE pcb[p].PC + 1
      avanza == [pcb[p] EXCEPT !.PC = pc]
      vuelve(b) == DeserializarCPUKer(SerializarCPUKer(b))
  IN  /\ EnCpu(p) /\ cpu[p].tarea = <<>>
      /\ cpu' = [cpu EXCEPT ![p] = Nueva]
      /\ \/ /\ pcb' = [pcb EXCEPT ![p] = vuelve(avanza)]
            /\ estado' = [estado EXCEPT ![p] = "listo"]
            /\ vueltas < MaxVueltas /\ vueltas' = vueltas + 1
         \/ /\ cpu[p].accion = "continuar"
            /\ pcb' = [pcb EXCEPT ![p] = avanza]
            /\ UNCHANGED <<estado, vueltas>>
         \/ /\ cpu[p].accion # "continuar"
            /\ pcb' = [pcb EXCEPT ![p] =
                         vuelve(IF cpu[p].accion = "fin" THEN [avanza EXCEPT !.exit_code = 0]
                                ELSE avanza)]
            /\ estado' = [estado EXCEPT ![p] = "fin"]
            /\ UNCHANGED vueltas
      /\ UNCHANGED <<texto, asignado, pisado, cacheVars>>

K07(p) ==
  /\ ~roto /\ estado[p] = "listo"
  /\ pcb' = [pcb EXCEPT ![p] = DeserializarKerCPU(SerializarKerCPU(@, <<2, 0, "RR">>))]
  /\ estado' = [estado EXCEPT ![p] = "cpu"]
  /\ UNCHANGED <<texto, vueltas, cpu, asignado, pisado, cacheVars>>

FinalizarProceso(p) ==
  /\ estado[p] = "fin" /\ K25(p)
  /\ estado' = [estado EXCEPT ![p] = "terminado"]
  /\ UNCHANGED <<texto, vueltas, pcb, cpu, asignado, pisado>>

Programa(p) ==
  \/ PedirLineaMemoria(p) \/ LeerLinea(p)
  \/ DefinirVariable(p) \/ ObtenerPosicionVariable(p)
  \/ Valor(p) \/ Dereferenciar(p) \/ Asignar(p)
  \/ IrAlLabel(p) \/ LlamarConRetorno(p) \/ LlamarSinRetorno(p) \/ Retornar(p) \/ Finalizar(p)
  \/ K19(p) \/ K90K94(p)
  \/ FinDeLinea(p) \/ K07(p) \/ FinalizarProceso(p)

Next == (\E p \in Pids : Programa(p)) \/ (Hilos /\ UNCHANGED progVars)

Spec == Init /\ [][Next]_vars

-----------------------------------------------------------------------------
(* Properties *)

(* Types; and the cache: a program never has more entries than its share,   *)
(* a page is in one entry at most and exists, and an entry with a page is   *)
(* in the order of use (sustituirLRU, sustituirLRUproc, liberar_una_pagina). *)
TypeOK ==
  /\ \A p \in Pids :
       /\ estado[p] \in {"cpu", "listo", "fin", "terminado", "caida", "perdido"}
       /\ pcb[p].SP + 1 = Len(pcb[p].in_stack)
       /\ CantPidEnCache(p) <= EntradasProceso
  /\ \A i \in Entradas : cache[i].pid # -1 =>
       /\ <<cache[i].pid, cache[i].pag>> \in DOMAIN mem
       /\ i \in ToSet(orden)
       /\ \A j \in Entradas \ {i} : <<cache[j].pid, cache[j].pag>> # <<cache[i].pid, cache[i].pag>>

(* A read answers the value last stored at the address by its program, with *)
(* what string_substring leaves of it, from the cache or from memory,       *)
(* whatever the other program and the Kernel did meanwhile.  Left out are   *)
(* the entries written by a thread that held them no more (almacenarBytes,  *)
(* Memoria.c:1219) and the addresses a program stored through by mistake.   *)
LeeLoAsignado ==
  \A p \in Pids :
    /\ acceso[p].pc = "listo" /\ acceso[p].op = "leer" /\ acceso[p].res = "M08"
    /\ ~acceso[p].sucio
    /\ Dir(p) \in DOMAIN asignado[p] \ pisado[p]
    => acceso[p].valor = asignado[p][Dir(p)]

(* a write that was answered and whose answer the program has not read yet  *)
Escrita(p, a) ==
  acceso[p].pc = "listo" /\ acceso[p].op = "escribir" /\ acceso[p].res = "M02" /\ a = Dir(p)

(* What a program stored is in its page in Memoria from the answer on,      *)
(* whatever becomes of the entry of the page in the cache: one taken by     *)
(* another page between being found and being written, or between being     *)
(* written and the write of the memory (almacenarBytes, Memoria.c:1212-1227 *)
(* against solicitarBytes under the other mutex), spoils that entry at most,*)
(* never a page.                                                            *)
MemoriaAlDia ==
  \A p \in Pids : \A a \in DOMAIN asignado[p] \ pisado[p] :
    <<p, a[1]>> \in DOMAIN mem =>
      mem[<<p, a[1]>>][a[2] + 1] = IF Escrita(p, a) THEN acceso[p].valor ELSE asignado[p][a]

(* No two variables of the frames of a program share an address: neither    *)
(* those of a function and its callers, nor those defined after a return    *)
(* or a jump back (calcular_offset).                                        *)
VariablesAparte ==
  \A p \in Pids :
    LET s == pcb[p].in_stack
        Vivas == UNION {{<<k, j>> : j \in DOMAIN s[k].vars} : k \in DOMAIN s}
    IN  \A v, w \in Vivas : v # w => s[v[1]].vars[v[2]].offset # s[w[1]].vars[w[2]].offset

(* A PCB read by the other side is the one that was written, at every point *)
(* of every program, in both directions: no field shifts another.           *)
ViajeEntero ==
  \A p \in Pids :
    /\ DeserializarCPUKer(SerializarCPUKer(pcb[p])) = pcb[p]
    /\ DeserializarKerCPU(SerializarKerCPU(pcb[p], <<2, 0, "RR">>)) = pcb[p]
=============================================================================
