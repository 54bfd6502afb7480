-------------------------------- MODULE PCB --------------------------------
(***************************************************************************)
(* The process control block and its two journeys, Kernel to CPU (K07) and *)
(* back (P12, P13): what each side writes, field by field, and what the    *)
(* other reads from a position of the message that it keeps by itself.     *)
(* A message is a sequence of fields; a string is one.  Only the Kernel    *)
(* sends the quantum and the algorithm.                                    *)
(***************************************************************************)
EXTENDS Integers, Sequences, SequencesExt

FinDeCodigo == [inicio |-> -1, fin |-> -1]
SinNombre == "-"                                    \* no name of a program

-----------------------------------------------------------------------------
(* Writing *)

CamposMemoria(m) == <<m.ID, m.offset, m.pag, m.size>>
CamposLista(ms) == <<Len(ms)>> \o FlattenSeq([k \in DOMAIN ms |-> CamposMemoria(ms[k])])
CamposElemento(e) == <<e.pos, e.retPos>> \o CamposMemoria(e.retVar)
                     \o CamposLista(e.args) \o CamposLista(e.vars)

(* the sentences up to the first with a -1, and that one twice its end *)
CamposCodigo(cod) ==
  LET hasta == CHOOSE n \in 1 .. Len(cod) :
                 /\ cod[n].inicio = -1 \/ cod[n].fin = -1
                 /\ \A k \in 1 .. n - 1 : cod[k].inicio # -1 /\ cod[k].fin # -1
  IN  <<hasta>> \o FlattenSeq([k \in 1 .. hasta - 1 |-> <<cod[k].inicio, cod[k].fin>>])
      \o <<cod[hasta].fin, cod[hasta].fin>>

Cuerpo(pcb) == CamposCodigo(pcb.in_cod) \o pcb.in_et \o <<Len(pcb.in_stack)>>
               \o FlattenSeq([k \in DOMAIN pcb.in_stack |-> CamposElemento(pcb.in_stack[k])])

SerializarKerCPU(pcb, planificacion) ==
  <<pcb.PID, pcb.PC, pcb.cant_pag, pcb.SP, pcb.exit_code>> \o planificacion \o Cuerpo(pcb)
SerializarCPUKer(pcb) ==
  <<pcb.PID, pcb.PC, pcb.cant_pag, pcb.SP, pcb.exit_code>> \o Cuerpo(pcb)

-----------------------------------------------------------------------------
(* Reading: each operator answers what it read and where it stopped *)

(* Variants, here and below: one plausible slip each, to see that the       *)
(* property named on the right would notice it.  No behaviour uses them.    *)

MemoriaEnCruzado(s, d) ==                                         \* ViajeEntero
  [ID |-> s[d], pag |-> s[d + 1], offset |-> s[d + 2], size |-> s[d + 3]]

MemoriaEn(s, d) == [ID |-> s[d], offset |-> s[d + 1], pag |-> s[d + 2], size |-> s[d + 3]]
ListaEn(s, d) == [lista |-> [k \in 1 .. s[d] |-> MemoriaEn(s, d + 1 + 4 * (k - 1))],
                  sigue |-> d + 1 + 4 * s[d]]

ElementoEn(s, d) ==
  LET args == ListaEn(s, d + 6)
      vars == ListaEn(s, args.sigue)
  IN  [elemento |-> [pos |-> s[d], retPos |-> s[d + 1], retVar |-> MemoriaEn(s, d + 2),
                     args |-> args.lista, vars |-> vars.lista],
       sigue |-> vars.sigue]

StackEn(s, d) ==
  LET lee[k \in 0 .. s[d]] ==
        IF k = 0 THEN [stack |-> <<>>, sigue |-> d + 1]
        ELSE LET antes == lee[k - 1]
                 uno == ElementoEn(s, antes.sigue)
             IN  [stack |-> Append(antes.stack, uno.elemento), sigue |-> uno.sigue]
  IN  lee[s[d]].stack

(* the part both readers share, from the sentences on *)
Deserializar(s, d) ==
  LET etiquetas == d + 1 + 2 * s[d]
      stack == etiquetas + s[etiquetas]
  IN  [PID |-> s[1], PC |-> s[2], cant_pag |-> s[3], SP |-> s[4], exit_code |-> s[5],
       in_cod |-> [k \in 1 .. s[d] |-> [inicio |-> s[d + 2 * k - 1], fin |-> s[d + 2 * k]]],
       in_et |-> SubSeq(s, etiquetas, stack - 1),
       in_stack |-> StackEn(s, stack)]

DeserializarKerCPU(s) == Deserializar(s, 9)
DeserializarCPUKer(s) == Deserializar(s, 6)

-----------------------------------------------------------------------------
(* The labels of a program, from the text (Kernel) and from the message     *)
(* (CPU).  The Kernel looks for the n-th name where the one before it would *)
(* put it if it were the first, so that it finds the first two only: at the *)
(* place of a third there is something else, that is no label.              *)

IndiceEtiquetas(ets) ==
  LET clave(n) == IF n <= 2 THEN ets[n].nombre ELSE SinNombre
      pc(n) == IF n <= 2 THEN ets[n].pc ELSE -1
  IN  <<2 + 2 * Len(ets), Len(ets)>> \o FlattenSeq([n \in DOMAIN ets |-> <<clave(n), pc(n)>>])

DiccionarioEtiquetas(s) ==
  [c \in {s[2 * n + 1] : n \in 1 .. s[2]} |->
     s[2 + 2 * (CHOOSE n \in 1 .. s[2] : s[2 * n + 1] = c)]]

(* The stack a program starts with. *)
IndiceStack == <<[pos |-> 0, retPos |-> 0, retVar |-> [ID |-> SinNombre, offset |-> 0, pag |-> 0, size |-> 0],
                  args |-> <<>>, vars |-> <<>>]>>
=============================================================================
