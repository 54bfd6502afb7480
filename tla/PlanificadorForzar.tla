------------------------- MODULE PlanificadorForzar -------------------------
(***************************************************************************)
(* What interrupts the scheduler of module Planificador: the end of a      *)
(* process by force (forzar_finalizacion, asked for by a console, by the   *)
(* console of the Kernel or because Memoria has no room), a CPU that       *)
(* leaves, and a change of the degree of multiprogramming.                 *)
(*                                                                         *)
(* forzar_finalizacion looks for its victim by taking the processes of a   *)
(* queue out one by one and putting back those it does not want, without   *)
(* holding the mutex in between; the bound of that loop is the global      *)
(* controlador, where the sends of the three threads leave their result.   *)
(*                                                                         *)
(* Planning is never paused.  The assumption on timing of Planificador     *)
(* stays, and holds for the end of a connection as for any message.        *)
(***************************************************************************)
EXTENDS Planificador

CONSTANTS
  Grados,      \* degrees the console may ask for
  Cid,         \* the one console connected
  MaxSucesos   \* bound: programs started and interruptions, together

ASSUME ForzarOK == Grados \subseteq Int      \* what atoi makes of the input

VARIABLES
  forz,        \* the forzar_finalizacion in progress: one at a time (bound)
  controlador,
  k21,         \* by CPU: K21 in its socket, before and after the answer it waits for
  sordas,      \* CPUs with part of a message left in their socket: they read no other
  muertas,     \* CPUs that are gone
  fuera,       \* CPUs that have been in list_cpus and are no more
  turno,       \* hiloL has taken its two tokens, seen only by eliminar_cpu
  grado,       \* config->grado_multiprog, diferencia_multi, and what hiloG is at
  eventos, rechazados,
  matados, escapes, riesgos   \* history: kills done, those that failed, dangerous steps

nuevas == <<forz, controlador, k21, sordas, muertas, fuera, turno, grado, eventos,
            rechazados, matados, escapes, riesgos>>
entorno == <<k21, sordas, muertas, fuera, turno, grado, eventos, rechazados, matados, escapes>>

SinForzar == [pc |-> "nada", quien |-> "", pid |-> Nadie, i |-> 0, mano |-> Nadie,
              preso |-> Nadie, de |-> "", visto |-> FALSE]
SinK21 == [antes |-> 0, despues |-> 0]

InitForzar ==
  /\ Init
  /\ forz = SinForzar /\ controlador = 0
  /\ k21 = [c \in Cpus |-> SinK21]
  /\ sordas = {} /\ muertas = {} /\ fuera = {} /\ turno = FALSE
  /\ grado = [config |-> Grado, diferencia |-> 0, perdida |-> 0, hiloG |-> "nada"]
  /\ eventos = 0 /\ rechazados = {} /\ matados = {} /\ escapes = {} /\ riesgos = {}

-----------------------------------------------------------------------------
(* Threads of Planificador, next to the new ones *)

Rotando == forz.pc \in {"nuevos", "listos"}

(* A thread works on a queue, or sends, while a rotation is under way. *)
Cruce == riesgos' = IF Rotando THEN riesgos \cup {"cruce"} ELSE riesgos
CruceDe(quien) ==
  riesgos' = IF hiloL # SinDespacho \/ (hiloN # Nadie /\ quien # "N")
             THEN riesgos \cup {"cruce"} ELSE riesgos

Entrados == (Ingresados \cup rechazados \cup {forz.mano, forz.preso}) \ {Nadie}

IniciarPrograma ==
  LET p == Cardinality(Entrados) + 1
  IN  /\ ~caido /\ hiloM = EnSelect /\ p \in Pids /\ p + eventos <= MaxSucesos   \* bound
      /\ nuevos' = Append(nuevos, p)
      /\ sem' = Postear(sem, {"nuevos"})
      /\ controlador' = 0 /\ Cruce
      /\ UNCHANGED <<listos, ejecutando, bloqueados, finalizados, cpus, ejec, program, valor,
                     cola, pcb, hiloN, hiloL, hiloM, cpu, bandeja, caido, forz, entorno>>

ConectarCpu(c) == c \notin fuera /\ AgregarCpu(c) /\ UNCHANGED nuevas

(* The process it pops may be in the hands of forzar_finalizacion: NULL. *)
CargarNuevo ==
  /\ \/ nuevos # <<>> /\ PedirMemoria
     \/ /\ ~caido /\ hiloN = Nadie /\ nuevos = <<>> /\ sem.nuevos > 0 /\ sem.grado > 0
        /\ caido' = TRUE
        /\ UNCHANGED <<listas, cpus, ejec, program, sem, valor, cola, pcb, hiloN, hiloL, hiloM,
                       cpu, bandeja>>
  /\ controlador' = 0 /\ Cruce
  /\ UNCHANGED <<forz, entorno>>

AdmitirNuevo ==
  /\ forz.quien # "N" /\ AgregarNuevaProg
  /\ controlador' = 0 /\ Cruce
  /\ UNCHANGED <<forz, entorno>>

(* Both waits; the CPU chosen next may leave before. *)
TomarFichas ==
  /\ ~caido /\ hiloL = SinDespacho /\ ~turno /\ muertas # {}
  /\ sem.listos > 0 /\ sem.cpus > 0
  /\ turno' = TRUE
  /\ UNCHANGED <<vars, forz, controlador, k21, sordas, muertas, fuera, grado, eventos,
                 rechazados, matados, escapes, riesgos>>

(* A send to a CPU that is gone may go well. *)
EnviarPcb ==
  /\ Despachar
  /\ controlador' \in IF hiloL' = SinDespacho THEN {controlador}
                      ELSE IF hiloL'.cpu \in muertas THEN {0, 7} ELSE {0}
  /\ turno' = FALSE
  /\ riesgos' = riesgos \cup (IF Rotando THEN {"cruce"} ELSE {})
                        \cup (IF hiloL'.cpu # Nadie /\ hiloL'.cpu = hiloM.cpu THEN {"carrera"} ELSE {})
  /\ UNCHANGED <<forz, k21, sordas, muertas, fuera, grado, eventos, rechazados, matados, escapes>>

AnotarEnvio == controlador = 0 /\ AnotarDespacho /\ Cruce /\ UNCHANGED <<forz, controlador, entorno>>

EnvioFalloSinReponer ==                                            \* Permanecen
  /\ ~caido /\ hiloL # SinDespacho /\ controlador > 0
  /\ cpus' = SelectSeq(cpus, LAMBDA c : c # CpuLibre)
  /\ fuera' = fuera \cup ({CpuLibre} \ {Nadie})
  /\ hiloL' = SinDespacho
  /\ riesgos' = riesgos \cup {"cpu"}
  /\ UNCHANGED <<listas, sem, ejec, program, valor, cola, pcb, hiloN, hiloM, cpu, bandeja, caido,
                 forz, controlador, k21, sordas, muertas, turno, grado, eventos, rechazados,
                 matados, escapes>>

(* controlador says that the send failed: the first CPU that is free leaves *)
(* the list and the process goes back to the front of the queue.            *)
EnvioFallo ==
  /\ ~caido /\ hiloL # SinDespacho /\ controlador > 0
  /\ cpus' = SelectSeq(cpus, LAMBDA c : c # CpuLibre)
  /\ fuera' = fuera \cup ({CpuLibre} \ {Nadie})
  /\ listos' = <<hiloL.pid>> \o listos
  /\ sem' = Postear(sem, {"listos"})
  /\ hiloL' = SinDespacho
  /\ riesgos' = riesgos \cup {"cpu"}
  /\ UNCHANGED <<nuevos, ejecutando, bloqueados, finalizados, ejec, program, valor, cola, pcb,
                 hiloN, hiloM, cpu, bandeja, caido, forz, controlador, k21, sordas, muertas,
                 turno, grado, eventos, rechazados, matados, escapes>>

(* A message of a CPU that is not in the list, or that has no program. *)
AtenderMensaje(c) ==
  /\ \/ Conectada(c) /\ program[c] # Nadie /\ AtenderCpu(c)
     \/ /\ ~caido /\ hiloM = EnSelect /\ bandeja[c].cod # "nada" /\ hiloL.cpu # c
        /\ ~Conectada(c) \/ program[c] = Nadie
        /\ caido' = TRUE
        /\ UNCHANGED <<listas, cpus, ejec, program, sem, valor, cola, pcb, hiloN, hiloL, hiloM,
                       cpu, bandeja>>
  /\ UNCHANGED nuevas

SeguirMensaje == SeguirM /\ UNCHANGED nuevas

-----------------------------------------------------------------------------
(* forzar_finalizacion *)

Forzar(quien, p) == forz' = [SinForzar EXCEPT !.pc = "listas", !.quien = quien, !.pid = p]
Interrumpe == ~caido /\ Cardinality(Entrados) + eventos < MaxSucesos
              /\ eventos' = eventos + 1
Libre == forz = SinForzar                                        \* bound

(* C02 and C04: a console ends one of its programs. *)
C02(p) ==
  /\ Interrumpe /\ Libre /\ hiloM = EnSelect /\ p \in Entrados
  /\ hiloM' = [EnSelect EXCEPT !.pc = "C02"]
  /\ Forzar("M", p)
  /\ UNCHANGED <<listas, cpus, ejec, program, sem, valor, cola, pcb, hiloN, hiloL, cpu, bandeja,
                 caido, controlador, k21, sordas, muertas, fuera, turno, grado, rechazados,
                 matados, escapes, riesgos>>

SinNulos(q) ==
  LET quedan[k \in 0 .. Len(q)] ==
        IF k = 0 THEN <<>>
        ELSE IF q[k] = Nadie THEN quedan[k - 1] ELSE Append(quedan[k - 1], q[k])
  IN  quedan[Len(q)]

(* existe_pid: every list is gone through, and cola_listos loses its NULLs. *)
ExistePid(p) ==
  /\ p \in ejecutando \cup bloqueados \cup finalizados \cup ToSet(nuevos) \cup ToSet(listos)
  /\ listos' = SinNulos(listos)

(* Option 5 of the console of the Kernel. *)
FinalizarProcesoConsola(p) ==
  /\ Interrumpe /\ Libre
  /\ ExistePid(p)
  /\ Forzar("consola", p)
  /\ UNCHANGED <<nuevos, ejecutando, bloqueados, finalizados, cpus, ejec, program, sem, valor,
                 cola, pcb, hiloN, hiloL, hiloM, cpu, bandeja, caido, controlador, k21, sordas,
                 muertas, fuera, turno, grado, rechazados, matados, escapes, riesgos>>

(* M03: K05 to the console. *)
Rechazar ==
  /\ Interrumpe /\ Libre /\ hiloN # Nadie
  /\ Forzar("N", hiloN)
  /\ controlador' = 0
  /\ UNCHANGED <<vars, k21, sordas, muertas, fuera, turno, grado, rechazados, matados, escapes,
                 riesgos>>

(* list_ejecutando and list_bloqueados.  Each is counted without its mutex   *)
(* and then searched: one step here.  hiloM may take the process away in    *)
(* between, and NULL is put among those to be ended; that can only be when  *)
(* the console ends who runs or waits, noted in riesgos as such.            *)
ForzarListas ==
  LET p == forz.pid
      de == IF p \in ejecutando THEN "ejecutando" ELSE IF p \in bloqueados THEN "bloqueados" ELSE ""
  IN  /\ ~caido /\ forz.pc = "listas"
      /\ ejecutando' = ejecutando \ {p} /\ bloqueados' = bloqueados \ {p}
      /\ controlador' = Len(nuevos)
      /\ forz' = [forz EXCEPT !.pc = "nuevos", !.de = de, !.preso = IF de = "" THEN Nadie ELSE p,
                              !.visto = de # "" \/ p \in ToSet(nuevos) \cup ToSet(listos)]
      /\ riesgos' = riesgos \cup (IF forz.quien = "consola" /\ de = "ejecutando" THEN {"consola"} ELSE {})
                            \cup (IF de = "bloqueados" THEN {"bloqueado"} ELSE {})
                            \cup (IF hiloL # SinDespacho \/ hiloN # Nadie THEN {"cruce"} ELSE {})
      /\ UNCHANGED <<nuevos, listos, finalizados, cpus, ejec, program, sem, valor, cola, pcb,
                     hiloN, hiloL, hiloM, cpu, bandeja, caido, entorno>>

(* Variants, here and below: one plausible slip each, to see that the       *)
(* property named on the right would notice it.  No behaviour uses them.    *)
VueltaDeMas == forz.i > controlador                             \* CaidaPorque
VueltaDeMenos == forz.i + 1 >= controlador                      \* MuerePorque

(* i has reached controlador. *)
VueltaEntera == forz.i >= controlador

(* One process out of the queue; past the end there is none, and NULL.      *)
(* The one sought stays out.                                                *)
Sacar(q, siguiente) ==
  /\ ~caido /\ forz.pc = q /\ forz.mano = Nadie
  /\ LET s == IF q = "nuevos" THEN nuevos ELSE listos
         fin == VueltaEntera
         x == IF s = <<>> THEN Nadie ELSE Head(s)
     IN  /\ caido' = (~fin /\ x = Nadie)
         /\ nuevos' = IF ~fin /\ q = "nuevos" /\ s # <<>> THEN Tail(s) ELSE nuevos
         /\ listos' = IF ~fin /\ q = "listos" /\ s # <<>> THEN Tail(s) ELSE listos
         /\ forz' = IF fin THEN [forz EXCEPT !.pc = siguiente, !.i = 0]
                    ELSE IF x = forz.pid THEN [forz EXCEPT !.i = @ + 1, !.preso = x, !.de = q]
                    ELSE [forz EXCEPT !.mano = x]
         /\ controlador' = IF fin /\ q = "nuevos" THEN Len(listos) ELSE controlador
  /\ CruceDe(forz.quien)
  /\ UNCHANGED <<ejecutando, bloqueados, finalizados, cpus, ejec, program, sem, valor, cola, pcb,
                 hiloN, hiloL, hiloM, cpu, bandeja, entorno>>

SacarNuevo == Sacar("nuevos", "listos")
SacarListo == Sacar("listos", "matar")

DevolverEnListos ==                                             \* SinPerdidos
  /\ ~caido /\ Rotando /\ forz.mano # Nadie
  /\ nuevos' = nuevos
  /\ listos' = Append(listos, forz.mano)
  /\ forz' = [forz EXCEPT !.i = @ + 1, !.mano = Nadie]
  /\ CruceDe(forz.quien)
  /\ UNCHANGED <<ejecutando, bloqueados, finalizados, cpus, ejec, program, sem, valor, cola, pcb,
                 hiloN, hiloL, hiloM, cpu, bandeja, caido, controlador, entorno>>

(* The push at the end of the loop. *)
Devolver ==
  /\ ~caido /\ Rotando /\ forz.mano # Nadie
  /\ nuevos' = IF forz.pc = "nuevos" THEN Append(nuevos, forz.mano) ELSE nuevos
  /\ listos' = IF forz.pc = "listos" THEN Append(listos, forz.mano) ELSE listos
  /\ forz' = [forz EXCEPT !.i = @ + 1, !.mano = Nadie]
  /\ CruceDe(forz.quien)
  /\ UNCHANGED <<ejecutando, bloqueados, finalizados, cpus, ejec, program, sem, valor, cola, pcb,
                 hiloN, hiloL, hiloM, cpu, bandeja, caido, controlador, entorno>>

(* The thread goes on. *)
Fin ==
  /\ forz' = SinForzar
  /\ hiloM' = IF forz.quien = "M" THEN EnSelect ELSE hiloM
  /\ hiloN' = IF forz.quien = "N" THEN Nadie ELSE hiloN
  /\ rechazados' = IF forz.quien = "N" THEN rechazados \cup {forz.pid} ELSE rechazados
  /\ matados' = IF forz.quien = "N" THEN matados ELSE matados \cup {forz.pid}
  /\ UNCHANGED <<nuevos, cpus, ejec, program, pcb, hiloL, cpu, bandeja, controlador, muertas,
                 fuera, turno, grado, eventos>>

NoEstaba ==
  /\ ~caido /\ forz.pc = "matar" /\ forz.preso = Nadie
  /\ escapes' = IF forz.visto /\ "cruce" \notin riesgos THEN escapes
                ELSE escapes \cup {<<forz.pid, "enManos">>}
  /\ Fin
  /\ UNCHANGED <<listos, ejecutando, bloqueados, finalizados, sem, valor, cola, caido, k21,
                 sordas, riesgos>>

(* pedir_pcb_error: K21 to the first CPU whose program is the victim, which *)
(* may be one it ran on before; a CPU with nothing to do reads 13 of its 17 *)
(* bytes.  Then the process goes back to list_ejecutando.                   *)
PedirPcbError ==
  /\ ~caido /\ forz.pc = "matar" /\ forz.de = "ejecutando"
  /\ LET p == forz.pid
         k == SelectInSeq(cpus, LAMBDA c : program[c] \in {p, Nadie})
         c == cpus[k]
     IN  IF k = 0 \/ program[c] = Nadie
         THEN /\ caido' = TRUE
              /\ UNCHANGED <<nuevas, nuevos, ejecutando, cpus, ejec, program, pcb, hiloN, hiloL,
                             hiloM, cpu, bandeja>>
         ELSE /\ sordas' = IF cpu[c].fase = "libre" THEN sordas \cup {c} ELSE sordas
              /\ k21' = CASE cpu[c].fase = "libre"  -> k21
                          [] cpu[c].fase = "espera" -> [k21 EXCEPT ![c].antes = @ + 1]
                          [] OTHER                  -> [k21 EXCEPT ![c].despues = @ + 1]
              /\ escapes' = IF cpu[c].pid = p THEN escapes ELSE escapes \cup {<<p, "otraCpu">>}
              /\ riesgos' = IF cpu[c].pid \in {p, Nadie} THEN riesgos ELSE riesgos \cup {"otro"}
              /\ ejecutando' = ejecutando \cup {p}
              /\ Fin
              /\ UNCHANGED caido
  /\ UNCHANGED <<listos, bloqueados, finalizados, sem, valor, cola>>

TerminarSinGrado ==                                             \* GradoDesviado
  /\ ~caido /\ forz.pc = "matar" /\ forz.de \in {"bloqueados", "listos"}
  /\ \A s \in Sems : Len(cola[s]) <= 2                           \* bound
  /\ cola' = [s \in Sems |-> EliminarProceso(cola[s])]
  /\ finalizados' = finalizados \cup {forz.pid}
  /\ Fin
  /\ UNCHANGED <<listos, ejecutando, bloqueados, sem, valor, caido, k21, sordas, escapes, riesgos>>

(* _finalizar_proceso of what was ready or blocked.  With two waiting for a *)
(* semaphore _eliminar_proceso never gets to compare their PIDs: the one    *)
(* ended stays in the queue, or another leaves it.                          *)
Terminar ==
  /\ ~caido /\ forz.pc = "matar" /\ forz.de \in {"bloqueados", "listos"}
  /\ \A s \in Sems : Len(cola[s]) <= 2                           \* bound
  /\ cola' = [s \in Sems |-> EliminarProceso(cola[s])]
  /\ finalizados' = finalizados \cup {forz.pid}
  /\ sem' = Postear(sem, {"grado"})
  /\ Fin
  /\ UNCHANGED <<listos, ejecutando, bloqueados, valor, caido, k21, sordas, escapes, riesgos>>

(* A t_nuevo is no t_program: the pcb it does not have is written to. *)
TerminarNuevo ==
  /\ ~caido /\ forz.pc = "matar" /\ forz.de = "nuevos"
  /\ caido' = TRUE
  /\ UNCHANGED <<listas, cpus, ejec, program, sem, valor, cola, pcb, hiloN, hiloL, hiloM, cpu,
                 bandeja, nuevas>>

ForzarFinalizacion ==
  \/ ForzarListas \/ SacarNuevo \/ SacarListo \/ Devolver
  \/ NoEstaba \/ PedirPcbError \/ Terminar \/ TerminarNuevo

-----------------------------------------------------------------------------
(* The CPUs, with K21 *)

(* The end of an instruction looks for a K21, and one that came before the  *)
(* answer of the Kernel was taken for it.  A CPU that stops with something  *)
(* left in its socket never finds the start of a message again; the answer  *)
(* left behind may have come in time to be taken at the end.                *)
TerminarInstruccion(c, accion) ==
  LET quedan == k21[c].antes + k21[c].despues
      cod == IF Algoritmo = "RR" /\ cpu[c].inst + 1 = Quantum THEN "P12"
             ELSE IF quedan > 0 THEN "P13" ELSE accion
  IN  /\ Instruccion(c, IF quedan > 0 THEN "P13" ELSE accion)
      /\ k21' = [k21 EXCEPT ![c] = SinK21]
      /\ sordas' \in IF quedan > 1 THEN {sordas \cup {c}}
                     ELSE IF k21[c].antes = 1 THEN {sordas, sordas \cup {c}} ELSE {sordas}
      /\ escapes' = IF quedan > 0 /\ (cod = "P12" \/ cpu[c].fase = "K23")
                    THEN escapes \cup {<<cpu[c].pid, "quantum">>} ELSE escapes
      /\ UNCHANGED <<listas, cpus, ejec, program, sem, valor, cola, pcb, hiloN, hiloL, hiloM,
                     caido, forz, controlador, muertas, fuera, turno, grado, eventos, rechazados,
                     matados, riesgos>>

EjecutarInstruccion(c) ==
  LET i == Guion[cpu[c].pid][cpu[c].pc + 1]
  IN  /\ ~caido /\ cpu[c].fase = "corre" /\ c \notin sordas \cup muertas
      /\ cpu[c].pc < Len(Guion[cpu[c].pid])
      /\ \/ i.op \in {"wait", "signal"} /\ Ejecutar(c) /\ UNCHANGED nuevas
         \/ i.op = "otra" /\ TerminarInstruccion(c, "continuar")
         \/ i.op = "fin"  /\ TerminarInstruccion(c, "P13")

RecibirRespuesta(c) ==
  /\ ~caido
  /\ \/ cpu[c].fase = "OK"  /\ TerminarInstruccion(c, "continuar")
     \/ cpu[c].fase = "K23" /\ TerminarInstruccion(c, "P16")

-----------------------------------------------------------------------------
(* A CPU that leaves *)

(* finalizar_por_senial exits at once only with nothing to do (with a PCB   *)
(* it lets procesar end first); but a CPU may also be killed, or lose its   *)
(* connection, between two instructions.  Not while hiloM waits for its PCB.*)
Muere(c) ==
  /\ Interrumpe /\ Conectada(c) /\ c \notin muertas
  /\ cpu[c].fase \in {"libre", "corre"} /\ hiloM.cpu # c
  /\ muertas' = muertas \cup {c}
  /\ riesgos' = riesgos \cup {"cpu"}
  /\ UNCHANGED <<vars, forz, controlador, k21, sordas, fuera, turno, grado, rechazados, matados,
                 escapes>>

(* eliminar_cpu: of list_ejecutando goes the process whose PID is the CID   *)
(* of the one the CPU had; without a token.  If the CPU was free, one of    *)
(* sem_cpus is waited for.                                                  *)
EliminarCpu(c) ==
  /\ ~caido /\ hiloM = EnSelect /\ hiloL.cpu # c
  /\ c \in muertas /\ Conectada(c) /\ bandeja[c].cod = "nada"
  /\ cpus' = SelectSeq(cpus, LAMBDA d : d # c)
  /\ fuera' = fuera \cup {c}
  /\ ejecutando' = IF program[c] = Nadie THEN ejecutando ELSE ejecutando \ {Cid}
  /\ listos' = IF program[c] = Nadie THEN listos
               ELSE Append(listos, IF Cid \in ejecutando THEN Cid ELSE Nadie)
  /\ hiloM' = IF ejec[c] THEN EnSelect ELSE [EnSelect EXCEPT !.pc = "sem_cpus"]
  /\ UNCHANGED <<nuevos, bloqueados, finalizados, ejec, program, sem, valor, cola, pcb, hiloN,
                 hiloL, cpu, bandeja, caido, forz, controlador, k21, sordas, muertas, turno,
                 grado, eventos, rechazados, matados, escapes, riesgos>>

EsperarCpus ==
  /\ ~caido /\ hiloM.pc = "sem_cpus"
  /\ sem.cpus > (IF turno THEN 1 ELSE 0)
  /\ sem' = Esperar(sem, {"cpus"})
  /\ hiloM' = EnSelect
  /\ UNCHANGED <<listas, cpus, ejec, program, valor, cola, pcb, hiloN, hiloL, cpu, bandeja,
                 caido, nuevas>>

-----------------------------------------------------------------------------
(* Option 4 of the console, and actualizar_grado_multiprogramacion (hiloG) *)

CambiarGrado(g) ==
  /\ Interrumpe /\ g # grado.config /\ forz.quien # "consola"
  /\ grado' = [grado EXCEPT !.config = g, !.diferencia = g - grado.config,
                            !.perdida = @ + grado.diferencia]
  /\ UNCHANGED <<vars, forz, controlador, k21, sordas, muertas, fuera, turno, rechazados,
                 matados, escapes, riesgos>>

(* hiloG looks at the sign of diferencia_multi; by the time it has posted   *)
(* or waited the console may have assigned another.                         *)
MirarDiferencia ==
  /\ ~caido /\ grado.hiloG = "nada" /\ grado.diferencia # 0
  /\ grado' = [grado EXCEPT !.hiloG = IF grado.diferencia > 0 THEN "post" ELSE "wait"]
  /\ UNCHANGED <<vars, forz, controlador, k21, sordas, muertas, fuera, turno, eventos, rechazados,
                 matados, escapes, riesgos>>

ActualizarGrado ==
  /\ ~caido
  /\ \/ /\ grado.hiloG = "post"
        /\ sem' = Postear(sem, {"grado"})
        /\ grado' = [grado EXCEPT !.hiloG = "nada", !.diferencia = @ - 1]
     \/ /\ grado.hiloG = "wait" /\ sem.grado > 0
        /\ sem' = Esperar(sem, {"grado"})
        /\ grado' = [grado EXCEPT !.hiloG = "nada", !.diferencia = @ + 1]
  /\ UNCHANGED <<listas, cpus, ejec, program, valor, cola, pcb, hiloN, hiloL, hiloM, cpu, bandeja,
                 caido, forz, controlador, k21, sordas, muertas, fuera, turno, eventos,
                 rechazados, matados, escapes, riesgos>>

-----------------------------------------------------------------------------
NextForzar ==
  \/ IniciarPrograma \/ CargarNuevo \/ AdmitirNuevo \/ TomarFichas \/ EnviarPcb \/ AnotarEnvio
  \/ EnvioFallo \/ SeguirMensaje
  \/ \E p \in Pids : C02(p) \/ FinalizarProcesoConsola(p)
  \/ Rechazar \/ ForzarFinalizacion
  \/ \E c \in Cpus : \/ ConectarCpu(c) \/ AtenderMensaje(c) \/ EjecutarInstruccion(c)
                     \/ RecibirRespuesta(c) \/ Muere(c) \/ EliminarCpu(c)
  \/ EsperarCpus
  \/ \E g \in Grados : CambiarGrado(g)
  \/ MirarDiferencia \/ ActualizarGrado

SpecForzar == InitForzar /\ [][NextForzar]_<<vars, nuevas>>

-----------------------------------------------------------------------------
(* Properties *)

(* Where p is: how many of the lists and hands hold it. *)
Lugares(p) ==
  Cardinality({i \in DOMAIN nuevos : nuevos[i] = p})
  + Cardinality({i \in DOMAIN listos : listos[i] = p})
  + Cardinality({l \in 1 .. 8 : p \in <<ejecutando, bloqueados, finalizados, rechazados, {hiloN},
                                        {hiloL.pid}, {forz.mano}, {forz.preso}>>[l]})

(* No process is lost or doubled, whatever interrupts it: it is in one list *)
(* or in the hands of one thread.  And unless a CPU left, one that is ready *)
(* has its token and one that runs is on a CPU that will give it back, or   *)
(* was given to one that had stopped listening.                             *)
SinPerdidos ==
  /\ \A p \in Entrados : ~caido => Lugares(p) = 1
  /\ "cpu" \notin riesgos /\ "cruce" \notin riesgos => sem.listos >= Len(listos)
  /\ {"cpu", "consola"} \cap riesgos = {} /\ ~caido =>
       \A p \in ejecutando : CpusDe(p) # {} \/ (hiloM.pc \in {"P12", "P13"} /\ hiloM.pid = p)

(* Who has entered the system is never lost sight of: whatever a thread     *)
(* takes out of a list is in its hands until it is in another, through      *)
(* failed sends, rotations cut short, rejections and CPUs that leave.       *)
Permanecen == [][caido' \/ Entrados \subseteq Entrados']_<<vars, nuevas>>

(* Each slot of the degree is free, or taken by a process of the system, or *)
(* was lost: to a program Memoria rejected (forzar_finalizacion finds it in *)
(* no list and posts nothing), or to a change of degree that came while     *)
(* another was being applied.  No kill gives back a slot nobody had, nor    *)
(* keeps one.                                                               *)
GradoDesviado ==
  LET enManos == (IF forz.de = "nuevos" THEN {} ELSE {forz.preso})
                 \cup (IF forz.pc = "listos" THEN {forz.mano} ELSE {})
  IN  ~caido =>
      sem.grado + Cardinality((EnSistema \cup enManos) \ {Nadie}) + Cardinality(rechazados)
      + grado.diferencia + grado.perdida = grado.config

(* The Kernel follows NULL only after one of these: a CPU left or was taken *)
(* for gone; another thread was at work on the queues, or sending, during a *)
(* rotation; the console ended a process that was running; one that waited  *)
(* was ended; one in cola_nuevos is being ended; or the dispatcher took the *)
(* CPU of a process that was finishing (run dos_cpus).  Of programs where   *)
(* none ends with two waiting for a semaphore: see run espera.              *)
CaidaPorque ==
  caido => \/ riesgos \cap {"cpu", "cruce", "consola", "bloqueado", "carrera"} # {}
           \/ forz.de = "nuevos"

(* A process that was ended by force does end, unless it was in the hands   *)
(* of a thread when it was looked for, or the K21 went to a CPU that had    *)
(* given it back, or was read at the end of a quantum or of a wait that     *)
(* blocks; and nobody ends but those who were asked to, or who reached      *)
(* their last instruction, or who ran where the K21 of another went.        *)
MuerePorque ==
  ~caido /\ "cpu" \notin riesgos =>
    /\ \A p \in matados :
         \/ p \in finalizados \cup rechazados
         \/ \E e \in escapes : e[1] = p
         \/ \E c \in Cpus : \/ cpu[c].pid = p /\ k21[c] # SinK21
                            \/ bandeja[c].pid = p /\ bandeja[c].cod = "P13"
         \/ hiloM.pc = "P13" /\ hiloM.pid = p
    /\ \A p \in finalizados : \/ p \in matados \/ forz.pid = p \/ "otro" \in riesgos
                              \/ pcb[p].pc = Len(Guion[p])
=============================================================================
