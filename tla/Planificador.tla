---------------------------- MODULE Planificador ----------------------------
(***************************************************************************)
(* The scheduler of the Kernel (planificador.c, and the parts of           *)
(* cpuManager.c, consolaManager.c and semaforos_vglobales.c that move      *)
(* processes) with the CPUs it feeds (CPU.c and the primitives of          *)
(* funcionesParser.c that talk to the Kernel).                             *)
(*                                                                         *)
(* Three threads of the Kernel share the lists: the one that loads new     *)
(* programs (hiloN, programas_nuevos_A_listos), the one that dispatches    *)
(* (hiloL, programas_listos_A_ejecutar) and the one that answers consoles  *)
(* and CPUs one message at a time (hiloM, manejo_conexiones).  Each step   *)
(* below ends where another thread may see what it has done.               *)
(*                                                                         *)
(* Here nothing fails: Memoria has room, no program is killed, no CPU      *)
(* leaves and planning is not paused.  One assumption on timing: hiloM     *)
(* gets to the first message of a CPU after hiloL has made the three       *)
(* assignments that follow the send of the PCB.                            *)
(***************************************************************************)
EXTENDS Integers, Sequences, FiniteSets, SequencesExt

CONSTANTS
  Pids,       \* 1 .. n, given in order (ultimo_pid)
  Cpus,       \* CPU processes that may connect
  Sems,       \* SEM_IDS
  SemInit,    \* SEM_INIT, by semaphore
  Grado,      \* GRADO_MULTIPROG
  Algoritmo,  \* "RR" or "FF"
  Quantum,    \* QUANTUM, in instructions
  Guion,      \* the instructions of each program
  Nadie       \* NULL

(* What a program does, as far as the Kernel can tell: wait and signal on a *)
(* semaphore of the Kernel, anything else, and the final instruction.       *)
Instrucciones == [op : {"wait", "signal"}, sem : Sems]
                 \cup [op : {"otra", "fin"}, sem : {Nadie}]

ASSUME PlanificadorOK ==
  /\ IsFiniteSet(Pids) /\ Pids = 1 .. Cardinality(Pids)
  /\ SemInit \in [Sems -> Nat]
  /\ Grado \in Nat /\ Quantum \in Nat \ {0} /\ Algoritmo \in {"RR", "FF"}
  /\ Guion \in [Pids -> Seq(Instrucciones)]
  /\ Nadie \notin Pids \cup Cpus \cup Sems

VARIABLES
  nuevos,       \* cola_nuevos
  listos,       \* cola_listos
  ejecutando,   \* list_ejecutando
  bloqueados,   \* list_bloqueados
  finalizados,  \* list_finalizados
  cpus,         \* list_cpus, in order of connection
  ejec,         \* cpu->ejecutando
  program,      \* cpu->program
  sem,          \* the POSIX semaphores of the three threads
  valor, cola,  \* dictionary sems: value and waiting processes
  pcb,          \* program->pcb: owner and next instruction
  hiloN, hiloL, hiloM,
  cpu,          \* the CPUs themselves: what they hold and what they wait for
  bandeja,      \* the message of a CPU the Kernel has not read
  caido         \* the Kernel has dereferenced NULL

listas == <<nuevos, listos, ejecutando, bloqueados, finalizados>>
vars == <<nuevos, listos, ejecutando, bloqueados, finalizados, cpus, ejec, program,
          sem, valor, cola, pcb, hiloN, hiloL, hiloM, cpu, bandeja, caido>>

Ocioso == [fase |-> "libre", pid |-> Nadie, pc |-> 0, inst |-> 0]
Vacia == [cod |-> "nada", pid |-> Nadie, pc |-> 0, sem |-> Nadie]
EnSelect == [pc |-> "select", cpu |-> Nadie, pid |-> Nadie, sem |-> Nadie]
SinDespacho == [pid |-> Nadie, cpu |-> Nadie]

Init ==
  /\ nuevos = <<>> /\ listos = <<>>
  /\ ejecutando = {} /\ bloqueados = {} /\ finalizados = {}
  /\ cpus = <<>>
  /\ ejec = [c \in Cpus |-> FALSE]
  /\ program = [c \in Cpus |-> Nadie]
  /\ sem = [nuevos |-> 0, listos |-> 0, cpus |-> 0, grado |-> Grado]
  /\ valor = SemInit
  /\ cola = [s \in Sems |-> <<>>]
  /\ pcb = [p \in Pids |-> [pid |-> p, pc |-> 0]]
  /\ hiloN = Nadie /\ hiloL = SinDespacho /\ hiloM = EnSelect
  /\ cpu = [c \in Cpus |-> Ocioso]
  /\ bandeja = [c \in Cpus |-> Vacia]
  /\ caido = FALSE

-----------------------------------------------------------------------------
(* Helpers *)

Conectada(c) == Contains(cpus, c)

Ingresados == ToSet(nuevos) \cup ToSet(listos) \cup ejecutando \cup bloqueados
              \cup finalizados \cup ({hiloN, hiloL.pid} \ {Nadie})

UltimoPid == Cardinality(Ingresados) + 1

Postear(s, cuales) == [k \in DOMAIN s |-> IF k \in cuales THEN s[k] + 1 ELSE s[k]]
Esperar(s, cuales) == [k \in DOMAIN s |-> IF k \in cuales THEN s[k] - 1 ELSE s[k]]

(* list_find(list_cpus, !ejecutando) *)
CpuLibre == LET libres == {i \in DOMAIN cpus : ~ejec[cpus[i]]}
            IN  IF libres = {} THEN Nadie ELSE cpus[Min(libres)]

(* list_find(list_cpus, cpu->program->PID == pid) crashes on a CPU that has *)
(* no program yet; its result is dereferenced too.                          *)
EncuentraCpu(pid) ==
  \E i \in DOMAIN cpus : /\ program[cpus[i]] = pid
                         /\ \A j \in 1 .. i : program[cpus[j]] # Nadie

(* Variants, here and below: one plausible slip each, to see that the       *)
(* property named on the right would notice it.  No behaviour uses them.    *)
HayLugarIgual(s) == valor[s] >= 0                               \* ExclusionMutua
DespiertaTarde(s) == valor[s] + 1 < 0                           \* BloqueadosEsperan
DespiertaAntes(s) == valor[s] <= 0                              \* SinCaida

(* sem_wait_ and sem_signal test the value before and after changing it. *)
HayLugar(s) == valor[s] > 0
Despierta(s) == valor[s] + 1 <= 0

(* sem_signal with free_all, on the queue of one semaphore, for a process   *)
(* that waits on none: all but the last waiter go to an auxiliary queue and *)
(* come back while more than one is left there.                             *)
EliminarProceso(q) ==
  IF Len(q) <= 1 THEN q ELSE <<Last(q)>> \o SubSeq(q, 1, Len(q) - 2)

-----------------------------------------------------------------------------
(* hiloM: consoles and connections *)

(* responder_peticion_prog: a console asks to start a program. *)
C01 ==
  /\ ~caido /\ hiloM = EnSelect
  /\ UltimoPid \in Pids                                         \* bound
  /\ nuevos' = Append(nuevos, UltimoPid)
  /\ sem' = Postear(sem, {"nuevos"})
  /\ UNCHANGED <<listos, ejecutando, bloqueados, finalizados, cpus, ejec, program, valor,
                 cola, pcb, hiloN, hiloL, hiloM, cpu, bandeja, caido>>

(* realizar_handShake_cpu, agregar_lista_cpu *)
AgregarCpu(c) ==
  /\ ~caido /\ hiloM = EnSelect
  /\ ~Conectada(c)
  /\ cpus' = Append(cpus, c)
  /\ sem' = Postear(sem, {"cpus"})
  /\ UNCHANGED <<listas, ejec, program, valor, cola, pcb, hiloN, hiloL, hiloM, cpu,
                 bandeja, caido>>

-----------------------------------------------------------------------------
(* hiloN: programas_nuevos_A_listos *)

PedirSinEsperar ==                                              \* TypeOK
  /\ ~caido /\ hiloN = Nadie /\ sem.nuevos > 0
  /\ sem' = Esperar(sem, {"nuevos", "grado"})
  /\ hiloN' = Head(nuevos)
  /\ nuevos' = Tail(nuevos)
  /\ UNCHANGED <<listos, ejecutando, bloqueados, finalizados, cpus, ejec, program, valor,
                 cola, pcb, hiloL, hiloM, cpu, bandeja, caido>>

(* Both waits and the pop, up to the K06 to Memoria. *)
PedirMemoria ==
  /\ ~caido /\ hiloN = Nadie
  /\ sem.nuevos > 0 /\ sem.grado > 0
  /\ sem' = Esperar(sem, {"nuevos", "grado"})
  /\ hiloN' = Head(nuevos)
  /\ nuevos' = Tail(nuevos)
  /\ UNCHANGED <<listos, ejecutando, bloqueados, finalizados, cpus, ejec, program, valor,
                 cola, pcb, hiloL, hiloM, cpu, bandeja, caido>>

(* M02: K04 to the console, the code to Memoria, agregar_nueva_prog. *)
AgregarNuevaProg ==
  /\ ~caido /\ hiloN # Nadie
  /\ pcb' = [pcb EXCEPT ![hiloN] = [pid |-> hiloN, pc |-> 0]]
  /\ listos' = Append(listos, hiloN)
  /\ sem' = Postear(sem, {"listos"})
  /\ hiloN' = Nadie
  /\ UNCHANGED <<nuevos, ejecutando, bloqueados, finalizados, cpus, ejec, program, valor,
                 cola, hiloL, hiloM, cpu, bandeja, caido>>

-----------------------------------------------------------------------------
(* hiloL: programas_listos_A_ejecutar *)

(* Both waits, the CPU and the process, up to the K07 with the PCB.  Only   *)
(* this thread takes from the two semaphores, so it may as well take both   *)
(* when it chooses.                                                         *)
Despachar ==
  LET p == IF listos = <<>> THEN Nadie ELSE Head(listos)        \* queue_pop
  IN  /\ ~caido /\ hiloL = SinDespacho
      /\ sem.listos > 0 /\ sem.cpus > 0
      /\ listos' = IF listos = <<>> THEN listos ELSE Tail(listos)
      /\ \/ /\ p = Nadie
            /\ sem' = Esperar(sem, {"listos"})
            /\ UNCHANGED <<hiloL, cpu, caido>>
         \/ /\ p # Nadie
            /\ sem' = Esperar(sem, {"listos", "cpus"})
            /\ caido' = (CpuLibre = Nadie)
            /\ IF caido'
               THEN UNCHANGED <<hiloL, cpu>>
               ELSE /\ hiloL' = [pid |-> p, cpu |-> CpuLibre]
                    /\ cpu' = [cpu EXCEPT ![CpuLibre] =
                                 [fase |-> "corre", pid |-> pcb[p].pid, pc |-> pcb[p].pc,
                                  inst |-> 0]]
      /\ UNCHANGED <<nuevos, ejecutando, bloqueados, finalizados, cpus, ejec, program,
                     valor, cola, pcb, hiloN, hiloM, bandeja>>

AnotarSinMarcar ==                                              \* SemaforosCuentan
  /\ ~caido /\ hiloL # SinDespacho
  /\ ejecutando' = ejecutando \cup {hiloL.pid}
  /\ program' = [program EXCEPT ![hiloL.cpu] = hiloL.pid]
  /\ hiloL' = SinDespacho
  /\ UNCHANGED <<nuevos, listos, bloqueados, finalizados, cpus, ejec, sem, valor, cola,
                 pcb, hiloN, hiloM, cpu, bandeja, caido>>

AnotarSinPrograma ==                                            \* CpuCorrecta
  /\ ~caido /\ hiloL # SinDespacho
  /\ ejecutando' = ejecutando \cup {hiloL.pid}
  /\ ejec' = [ejec EXCEPT ![hiloL.cpu] = TRUE]
  /\ program' = [program EXCEPT ![hiloL.cpu] = IF @ = Nadie THEN hiloL.pid ELSE @]
  /\ hiloL' = SinDespacho
  /\ UNCHANGED <<nuevos, listos, bloqueados, finalizados, cpus, sem, valor, cola, pcb,
                 hiloN, hiloM, cpu, bandeja, caido>>

(* The send went well: list_ejecutando, cpu->ejecutando, cpu->program. *)
AnotarDespacho ==
  /\ ~caido /\ hiloL # SinDespacho
  /\ ejecutando' = ejecutando \cup {hiloL.pid}
  /\ ejec' = [ejec EXCEPT ![hiloL.cpu] = TRUE]
  /\ program' = [program EXCEPT ![hiloL.cpu] = hiloL.pid]
  /\ hiloL' = SinDespacho
  /\ UNCHANGED <<nuevos, listos, bloqueados, finalizados, cpus, sem, valor, cola, pcb,
                 hiloN, hiloM, cpu, bandeja, caido>>

-----------------------------------------------------------------------------
(* hiloM: responder_solicitud_cpu *)

Mensaje(c, cod) == /\ ~caido /\ hiloM = EnSelect
                   /\ bandeja[c].cod = cod
                   /\ hiloL.cpu # c                             \* timing, see above

Leido(c) == bandeja' = [bandeja EXCEPT ![c] = Vacia]

(* P12 and P13 begin alike: the PCB goes to the program of the CPU and the  *)
(* CPU is free to be chosen, before the semaphore says so.                  *)
DevuelvePcb(c, cod) ==
  /\ Mensaje(c, cod)
  /\ pcb' = [pcb EXCEPT ![program[c]] = [pid |-> bandeja[c].pid, pc |-> bandeja[c].pc]]
  /\ ejec' = [ejec EXCEPT ![c] = FALSE]
  /\ hiloM' = [pc |-> cod, cpu |-> c, pid |-> bandeja[c].pid, sem |-> Nadie]
  /\ Leido(c)
  /\ UNCHANGED <<listas, cpus, program, sem, valor, cola, hiloN, hiloL, cpu, caido>>

P12(c) == DevuelvePcb(c, "P12")

P13(c) == DevuelvePcb(c, "P13")

(* list_remove_by_condition on list_ejecutando: NULL if it is not there. *)
Sacado == IF hiloM.pid \in ejecutando THEN hiloM.pid ELSE Nadie

QuantumSinSacar ==                                              \* UnSoloLugar
  /\ ~caido /\ hiloM.pc = "P12"
  /\ listos' = Append(listos, Sacado)
  /\ sem' = Postear(sem, {"listos", "cpus"})
  /\ hiloM' = EnSelect
  /\ UNCHANGED <<nuevos, ejecutando, bloqueados, finalizados, cpus, ejec, program, valor,
                 cola, pcb, hiloN, hiloL, cpu, bandeja, caido>>

FinalizarQuantum ==
  /\ ~caido /\ hiloM.pc = "P12"
  /\ ejecutando' = ejecutando \ {hiloM.pid}
  /\ listos' = Append(listos, Sacado)
  /\ sem' = Postear(sem, {"listos", "cpus"})
  /\ hiloM' = EnSelect
  /\ UNCHANGED <<nuevos, bloqueados, finalizados, cpus, ejec, program, valor, cola, pcb,
                 hiloN, hiloL, cpu, bandeja, caido>>

FinalizarSinGrado ==                                            \* GradoExacto, Terminan
  /\ ~caido /\ hiloM.pc = "P13"
  /\ EncuentraCpu(hiloM.pid) /\ Sacado # Nadie
  /\ ejecutando' = ejecutando \ {hiloM.pid}
  /\ cola' = [s \in Sems |-> EliminarProceso(cola[s])]
  /\ finalizados' = finalizados \cup {hiloM.pid}
  /\ sem' = Postear(sem, {"cpus"})
  /\ hiloM' = EnSelect
  /\ UNCHANGED <<nuevos, listos, bloqueados, cpus, ejec, program, valor, pcb, hiloN, hiloL,
                 cpu, bandeja, caido>>

(* With K10 to the console, sem_signal(free_all) and K25 to Memoria. *)
FinalizarProceso ==
  /\ ~caido /\ hiloM.pc = "P13"
  /\ IF EncuentraCpu(hiloM.pid) /\ Sacado # Nadie
     THEN /\ ejecutando' = ejecutando \ {hiloM.pid}
          /\ cola' = [s \in Sems |-> EliminarProceso(cola[s])]
          /\ finalizados' = finalizados \cup {hiloM.pid}
          /\ sem' = Postear(sem, {"cpus", "grado"})
          /\ hiloM' = EnSelect
          /\ UNCHANGED caido
     ELSE /\ caido' = TRUE
          /\ UNCHANGED <<ejecutando, cola, finalizados, sem, hiloM>>
  /\ UNCHANGED <<nuevos, listos, bloqueados, cpus, ejec, program, valor, pcb, hiloN, hiloL,
                 cpu, bandeja>>

(* sem_wait_: OK if there is room, otherwise K23 and hiloM waits for the PCB. *)
P14(c) ==
  LET s == bandeja[c].sem
  IN  /\ Mensaje(c, "P14")
      /\ Leido(c)
      /\ \/ /\ HayLugar(s)
            /\ valor' = [valor EXCEPT ![s] = @ - 1]
            /\ cpu' = [cpu EXCEPT ![c].fase = "OK"]
            /\ UNCHANGED hiloM
         \/ /\ ~HayLugar(s)
            /\ cpu' = [cpu EXCEPT ![c].fase = "K23"]
            /\ hiloM' = [pc |-> "K23", cpu |-> c, pid |-> program[c], sem |-> s]
            /\ UNCHANGED valor
      /\ UNCHANGED <<listas, cpus, ejec, program, sem, cola, pcb, hiloN, hiloL, caido>>

PcbViejo == pcb                                                 \* ImplementaCiclo

(* actualizar_pcb, if what the CPU answers to K23 is P16. *)
PcbTrasK23 ==
  LET m == bandeja[hiloM.cpu]
  IN  IF m.cod = "P16" THEN [pcb EXCEPT ![hiloM.pid] = [pid |-> m.pid, pc |-> m.pc]] ELSE pcb

(* The rest of sem_wait_: the PCB if it comes with P16, bloquear_proceso. *)
BloquearProceso ==
  LET c == hiloM.cpu
      s == hiloM.sem
  IN  /\ ~caido /\ hiloM.pc = "K23"
      /\ bandeja[c].cod # "nada"
      /\ pcb' = PcbTrasK23
      /\ Leido(c)
      /\ caido' = (Sacado = Nadie)
      /\ IF caido'
         THEN UNCHANGED <<ejecutando, bloqueados, ejec, sem, cola, valor, hiloM>>
         ELSE /\ ejecutando' = ejecutando \ {hiloM.pid}
              /\ bloqueados' = bloqueados \cup {hiloM.pid}
              /\ ejec' = [ejec EXCEPT ![c] = FALSE]
              /\ sem' = Postear(sem, {"cpus"})
              /\ cola' = [cola EXCEPT ![s] = Append(@, hiloM.pid)]
              /\ valor' = [valor EXCEPT ![s] = @ - 1]
              /\ hiloM' = EnSelect
      /\ UNCHANGED <<nuevos, listos, finalizados, cpus, program, hiloN, hiloL, cpu>>

(* sem_signal and desbloquear_proceso, which dereferences what it finds. *)
P15(c) ==
  LET s == bandeja[c].sem
      p == IF cola[s] = <<>> THEN Nadie ELSE Head(cola[s])
  IN  /\ Mensaje(c, "P15")
      /\ Leido(c)
      /\ valor' = [valor EXCEPT ![s] = @ + 1]
      /\ IF ~Despierta(s)
         THEN UNCHANGED <<cola, bloqueados, listos, sem, caido>>
         ELSE IF p \notin bloqueados
         THEN caido' = TRUE /\ UNCHANGED <<cola, bloqueados, listos, sem>>
         ELSE /\ cola' = [cola EXCEPT ![s] = Tail(@)]
              /\ bloqueados' = bloqueados \ {p}
              /\ listos' = Append(listos, p)
              /\ sem' = Postear(sem, {"listos"})
              /\ UNCHANGED caido
      /\ cpu' = [cpu EXCEPT ![c].fase = "OK"]
      /\ UNCHANGED <<nuevos, ejecutando, finalizados, cpus, ejec, program, pcb, hiloN,
                     hiloL, hiloM>>

AtenderCpu(c) == P12(c) \/ P13(c) \/ P14(c) \/ P15(c)

SeguirM == FinalizarQuantum \/ FinalizarProceso \/ BloquearProceso

-----------------------------------------------------------------------------
(* CPU.c: procesar, and the message of main once it returns *)

Pedir(c, cod, s) ==
  /\ bandeja' = [bandeja EXCEPT ![c] = [cod |-> cod, pid |-> Nadie, pc |-> 0, sem |-> s]]
  /\ cpu' = [cpu EXCEPT ![c].fase = "espera"]

(* One instruction more.  In Round Robin the last one of the quantum sends  *)
(* the PCB back as P12 whatever the instruction asked for.                  *)
Instruccion(c, accion) ==
  LET hechas == cpu[c].inst + 1
      cod == IF Algoritmo = "RR" /\ hechas = Quantum THEN "P12" ELSE accion
  IN  IF cod = "continuar"
      THEN /\ cpu' = [cpu EXCEPT ![c] = [fase |-> "corre", pid |-> @.pid,
                                         pc |-> @.pc + 1, inst |-> hechas]]
           /\ UNCHANGED bandeja
      ELSE /\ cpu' = [cpu EXCEPT ![c] = Ocioso]
           /\ bandeja' = [bandeja EXCEPT ![c] = [cod |-> cod, pid |-> cpu[c].pid,
                                                 pc |-> cpu[c].pc + 1, sem |-> Nadie]]

(* Past the end of the program there is no line to read: not followed. *)
Ejecutar(c) ==
  LET i == Guion[cpu[c].pid][cpu[c].pc + 1]
  IN  /\ ~caido /\ cpu[c].fase = "corre"
      /\ cpu[c].pc < Len(Guion[cpu[c].pid])
      /\ CASE i.op = "wait"   -> Pedir(c, "P14", i.sem)             \* ts_wait
           [] i.op = "signal" -> Pedir(c, "P15", i.sem)             \* ts_signale
           [] i.op = "otra"   -> Instruccion(c, "continuar")
           [] i.op = "fin"    -> Instruccion(c, "P13")              \* finalizar
      /\ UNCHANGED <<listas, cpus, ejec, program, sem, valor, cola, pcb, hiloN, hiloL,
                     hiloM, caido>>

(* The answer to P14 or P15. *)
RespuestaKernel(c) ==
  /\ ~caido
  /\ \/ cpu[c].fase = "OK"  /\ Instruccion(c, "continuar")
     \/ cpu[c].fase = "K23" /\ Instruccion(c, "P16")
  /\ UNCHANGED <<listas, cpus, ejec, program, sem, valor, cola, pcb, hiloN, hiloL, hiloM,
                 caido>>

-----------------------------------------------------------------------------
Next ==
  \/ C01 \/ PedirMemoria \/ AgregarNuevaProg \/ Despachar \/ AnotarDespacho
  \/ FinalizarQuantum \/ FinalizarProceso \/ BloquearProceso
  \/ \E c \in Cpus : \/ AgregarCpu(c) \/ P12(c) \/ P13(c) \/ P14(c) \/ P15(c)
                     \/ Ejecutar(c) \/ RespuestaKernel(c)

(* Threads and CPUs run, and select serves every socket that has something; *)
(* nobody has to start a program or a CPU.                                  *)
Equidad ==
  /\ WF_vars(PedirMemoria) /\ WF_vars(AgregarNuevaProg)
  /\ WF_vars(Despachar) /\ WF_vars(AnotarDespacho)
  /\ WF_vars(SeguirM)
  /\ \A c \in Cpus : WF_vars(AtenderCpu(c)) /\ WF_vars(Ejecutar(c) \/ RespuestaKernel(c))

Spec == Init /\ [][Next]_vars /\ Equidad

-----------------------------------------------------------------------------
(* Properties *)

Mensajes == {"nada", "P12", "P13", "P14", "P15", "P16"}

(* The lists hold processes, the CPUs programs, and the posts and waits of  *)
(* the three threads never leave a semaphore below zero.                    *)
TypeOK ==
  /\ nuevos \in Seq(Pids) /\ listos \in Seq(Pids \cup {Nadie})
  /\ ejecutando \subseteq Pids /\ bloqueados \subseteq Pids /\ finalizados \subseteq Pids
  /\ cpus \in Seq(Cpus)
  /\ ejec \in [Cpus -> BOOLEAN] /\ program \in [Cpus -> Pids \cup {Nadie}]
  /\ sem \in [{"nuevos", "listos", "cpus", "grado"} -> Nat]
  /\ valor \in [Sems -> Int] /\ cola \in [Sems -> Seq(Pids)]
  /\ pcb \in [Pids -> [pid : Pids, pc : Nat]]
  /\ hiloN \in Pids \cup {Nadie}
  /\ hiloL \in [pid : Pids \cup {Nadie}, cpu : Cpus \cup {Nadie}]
  /\ hiloM \in [pc : {"select", "P12", "P13", "K23"}, cpu : Cpus \cup {Nadie},
                pid : Pids \cup {Nadie}, sem : Sems \cup {Nadie}]
  /\ cpu \in [Cpus -> [fase : {"libre", "corre", "espera", "OK", "K23"},
                       pid : Pids \cup {Nadie}, pc : Nat, inst : Nat]]
  /\ bandeja \in [Cpus -> [cod : Mensajes, pid : Pids \cup {Nadie}, pc : Nat,
                           sem : Sems \cup {Nadie}]]
  /\ caido \in BOOLEAN

(* No thread of the Kernel dereferences NULL. *)
SinCaida == ~caido

(* A process is in one place and in it once, the hands of a thread that has *)
(* taken it off one list and not put it on the next one included.           *)
UnSoloLugar ==
  \A p \in Pids :
    Cardinality({i \in DOMAIN nuevos : nuevos[i] = p})
    + Cardinality({i \in DOMAIN listos : listos[i] = p})
    + Cardinality({l \in {1, 2, 3} : p \in <<ejecutando, bloqueados, finalizados>>[l]})
    + (IF hiloN = p THEN 1 ELSE 0) + (IF hiloL.pid = p THEN 1 ELSE 0) <= 1

(* CPUs that hold a PCB of p or have sent it back. *)
CpusDe(p) == {c \in Cpus : cpu[c].pid = p \/ bandeja[c].pid = p}

(* finalizar_proceso looks for the CPU of the process through the programs  *)
(* of the CPUs before it in the list: all of them have had one.             *)
ProgramasPrimero ==
  \A i, j \in DOMAIN cpus : i < j /\ program[cpus[j]] # Nadie =>
    program[cpus[i]] # Nadie

(* A process runs on one CPU and only while the Kernel counts it as running *)
(* or is about to; and what a CPU runs is what the Kernel thinks it runs,   *)
(* so that its next PCB goes to the right program, which has none but its   *)
(* own, and the search for the CPU of a process that ends meets no NULL.    *)
CpuCorrecta ==
  /\ \A p \in Pids :
       /\ pcb[p].pid = p
       /\ Cardinality(CpusDe(p)) <= 1
       /\ \A c \in CpusDe(p) : \/ p \in ejecutando /\ program[c] = p /\ ejec[c]
                               \/ hiloL = [pid |-> p, cpu |-> c]
  /\ ProgramasPrimero

(* Each wait of a thread is for something that is there: a new program, a   *)
(* ready one, a CPU that is free, a slot of the degree.                     *)
SemaforosCuentan ==
  LET enManos == IF hiloL = SinDespacho THEN 0 ELSE 1
      porPostear == IF hiloM.pc \in {"P12", "P13"} THEN 1 ELSE 0
  IN  /\ sem.nuevos = Len(nuevos)
      /\ sem.listos = Len(listos)
      /\ sem.cpus + enManos + porPostear = Cardinality({i \in DOMAIN cpus : ~ejec[cpus[i]]})

(* Processes admitted and not finished. *)
EnSistema == {p \in Ingresados : p \notin ToSet(nuevos) \cup finalizados}

(* No more than Grado processes are past cola_nuevos, and no slot is lost. *)
GradoExacto == sem.grado + Cardinality(EnSistema) = Grado

(* A blocked process is in the queue of a semaphore, where a signal will    *)
(* find it, and the value of the semaphore counts those that wait.  True    *)
(* while no two processes wait for the same one when another ends.          *)
BloqueadosEsperan ==
  /\ \A p \in bloqueados : \E s \in Sems : Contains(cola[s], p)
  /\ \A s \in Sems : /\ ToSet(cola[s]) \subseteq bloqueados
                     /\ Len(cola[s]) = (IF valor[s] < 0 THEN -valor[s] ELSE 0)

(* Instructions a process has executed, wherever its PCB is. *)
Avance(p) ==
  LET enCpu  == {c \in Cpus : cpu[c].pid = p}
      vuelve == {c \in Cpus : bandeja[c].pid = p}
  IN  IF enCpu # {} THEN cpu[CHOOSE c \in enCpu : TRUE].pc
      ELSE IF vuelve # {} THEN bandeja[CHOOSE c \in vuelve : TRUE].pc
      ELSE pcb[p].pc

(* The Kernel has answered a wait of p on s and not yet the signal, and p   *)
(* is not blocked in that wait.                                             *)
EnSeccion(p, s) ==
  LET contestadas == IF \E c \in Cpus : cpu[c].pid = p /\ cpu[c].fase = "OK" THEN 1 ELSE 0
      hechas == SubSeq(Guion[p], 1, Avance(p) + contestadas)
      cuantas(op) == Cardinality({i \in DOMAIN hechas : hechas[i] = [op |-> op, sem |-> s]})
  IN  /\ p \notin bloqueados /\ ~(hiloM.pc = "K23" /\ hiloM.pid = p)
      /\ p \notin finalizados
      /\ cuantas("wait") > cuantas("signal")

(* A semaphore that starts at one is a mutex for the programs. *)
ExclusionMutua ==
  \A s \in Sems : SemInit[s] = 1 =>
    Cardinality({p \in Pids : EnSeccion(p, s)}) <= 1

(* A program that has executed its last instruction does not run again      *)
(* (mensajes.txt: "P13 Finalizacion del proceso por el buen camino").       *)
FinEsFin == \A i \in DOMAIN listos : pcb[listos[i]].pc < Len(Guion[listos[i]])

(* With a CPU connected every program that is started gets to its end. *)
Terminan == \A p \in Pids : (p \in Ingresados /\ cpus # <<>>) ~> (p \in finalizados)

(* The scheduler keeps the promise of CicloVida. *)
Estado(p) ==
  IF Contains(nuevos, p) THEN "nuevo"
  ELSE IF hiloN = p THEN "cargando"
  ELSE IF hiloL.pid = p \/ p \in ejecutando THEN "ejecutando"
  ELSE IF Contains(listos, p) THEN "listo"
  ELSE IF p \in bloqueados THEN "bloqueado"
  ELSE IF p \in finalizados THEN "finalizado" ELSE "ausente"

Ciclo == INSTANCE CicloVida
           WITH Procesos   <- Pids,
                Largo      <- [p \in Pids |-> Len(Guion[p])],
                Admitibles <- Grado,
                Maquinas   <- Cardinality(Cpus),
                estado     <- [p \in Pids |-> Estado(p)],
                avance     <- [p \in Pids |-> Avance(p)]

ImplementaCiclo == Ciclo!Spec
=============================================================================
