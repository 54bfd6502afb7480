---------------------------- MODULE CicloProofs ----------------------------
(***************************************************************************)
(* The scheduler keeps the promise of CicloVida to every program that ends *)
(* in its final instruction, whatever the programs, the CPUs, the degree   *)
(* and the semaphores, as long as no quantum ends on a final instruction   *)
(* or on a wait that blocks.  And under the same conditions a semaphore    *)
(* that starts at one is a mutex for the programs.                         *)
(***************************************************************************)
EXTENDS PlanificadorProofs

-----------------------------------------------------------------------------
(* What is assumed *)

(* The parser gives a program one final instruction, the last one. *)
TerminaUnaVez ==
  \A p \in Pids :
    /\ Guion[p] # <<>>
    /\ \A i \in DOMAIN Guion[p] : Guion[p][i].op = "fin" <=> i = Len(Guion[p])

(* In Round Robin the CPU forgets what the last instruction of the quantum  *)
(* asked for and sends P12: nothing is forgotten when it asked for nothing. *)
QuantumLimpio ==
  \A c \in Cpus : bandeja[c].cod = "P12" =>
    /\ bandeja[c].pc < Len(Guion[bandeja[c].pid])
    /\ ~ (hiloM.pc = "K23" /\ hiloM.cpu = c)

(* No quantum ends: First Come First Served, or a quantum no program fills. *)
QuantumLargo == Algoritmo = "FF" \/ \A p \in Pids : Len(Guion[p]) < Quantum

-----------------------------------------------------------------------------
(* The inductive invariant *)

(* The PCB the Kernel keeps of a process that is not running is that of a   *)
(* program with something left to do,                                       *)
Pendientes == \A p \in Pids \ (ejecutando \cup finalizados) : pcb[p].pc < Len(Guion[p])

(* everything, before it is loaded.                                         *)
SinEmpezar ==
  \A p \in Pids : p \notin Ingresados \/ p \in ToSet(nuevos) \/ p = hiloN => pcb[p].pc = 0

(* A CPU has an instruction to run, and one more if this one asks something *)
(* of the Kernel.                                                           *)
EnMarcha ==
  \A c \in Cpus : cpu[c].pid \in Pids =>
    /\ cpu[c].pc < Len(Guion[cpu[c].pid])
    /\ cpu[c].fase # "corre" => cpu[c].pc + 1 < Len(Guion[cpu[c].pid])

(* A CPU that gives the PCB back says truly whether the program has ended,  *)
(* and so does what hiloM has of the message.                               *)
Devueltos ==
  /\ \A c \in Cpus :
       /\ bandeja[c].cod = "P13" => bandeja[c].pc = Len(Guion[bandeja[c].pid])
       /\ bandeja[c].cod = "P16" => bandeja[c].pc < Len(Guion[bandeja[c].pid])
  /\ hiloM.pc = "P12" => pcb[hiloM.pid].pc < Len(Guion[hiloM.pid])
  /\ hiloM.pc = "P13" => pcb[hiloM.pid].pc = Len(Guion[hiloM.pid])

(* Every CPU of the list is counted once: free, in the hands of hiloL, or   *)
(* by the process it runs until hiloM posts it.                             *)
Fichas == sem.cpus + EnManos + Cardinality(ejecutando) = Len(cpus)

AInv == Pendientes /\ SinEmpezar /\ EnMarcha /\ Devueltos /\ Fichas

LEMMA EjecutandoFinito ==
  ASSUME IInv
  PROVE  IsFiniteSet(ejecutando) /\ Cardinality(ejecutando) \in Nat
<1>1. ejecutando \subseteq Pids /\ IsFiniteSet(Pids)
  BY NadieAparte DEF IInv, TypeOK
<1> QED
  BY <1>1, FS_Subset, FS_CardinalityType

LEMMA AInicio == TerminaUnaVez /\ Init => AInv
<1> SUFFICES ASSUME TerminaUnaVez, Init PROVE AInv
  OBVIOUS
<1> USE NadieAparte
<1>1. \A p \in Pids : Len(Guion[p]) > 0 /\ pcb[p].pc = 0
  <2> SUFFICES ASSUME NEW p \in Pids PROVE Len(Guion[p]) > 0 /\ pcb[p].pc = 0
    OBVIOUS
  <2>1. Guion[p] \in Seq(Instrucciones) /\ Guion[p] # <<>>
    BY PlanificadorOK DEF TerminaUnaVez
  <2> QED
    BY <2>1, EmptySeq DEF Init
<1>2. Fichas
  BY FS_EmptySet DEF Init, Fichas, EnManos
<1> QED
  BY <1>1, <1>2 DEF Init, AInv, Pendientes, SinEmpezar, EnMarcha, Devueltos, Ocioso, Vacia,
                    EnSelect

(* What a step leaves alone of AInv. *)
LEMMA AIgual ==
  ASSUME AInv, UNCHANGED <<ejecutando, finalizados, cpu, bandeja, pcb, hiloM>>,
         \A p \in Pids : p \notin Ingresados' \/ p \in ToSet(nuevos') \/ p = hiloN' =>
                           p \notin Ingresados \/ p \in ToSet(nuevos) \/ p = hiloN
  PROVE  Pendientes' /\ SinEmpezar' /\ EnMarcha' /\ Devueltos'
BY DEF AInv, Pendientes, SinEmpezar, EnMarcha, Devueltos

-----------------------------------------------------------------------------
(* The view of CicloVida: where each process is and how far it has got *)

Estados == [p \in Pids |-> Estado(p)]
Avances == [p \in Pids |-> Avance(p)]

(* Estado, told apart by the lists. *)
Vidas ==
  \A p \in Pids :
    /\ p \in ToSet(nuevos) => Estado(p) = "nuevo"
    /\ p = hiloN => Estado(p) = "cargando"
    /\ p = hiloL.pid \/ p \in ejecutando => Estado(p) = "ejecutando"
    /\ p \in ToSet(listos) => Estado(p) = "listo"
    /\ p \in bloqueados => Estado(p) = "bloqueado"
    /\ p \in finalizados => Estado(p) = "finalizado"
    /\ p \notin Ingresados => Estado(p) = "ausente"

(* Avance, by where the PCB is. *)
Recorridos ==
  \A p \in Pids :
    /\ \A c \in Cpus : cpu[c].pid = p => Avance(p) = cpu[c].pc
    /\ \A c \in Cpus : bandeja[c].pid = p => Avance(p) = bandeja[c].pc
    /\ CpusDe(p) = {} => Avance(p) = pcb[p].pc

LEMMA VidasSiempre == IInv => Vidas
<1> SUFFICES ASSUME IInv, NEW p \in Pids
             PROVE  /\ p \in ToSet(nuevos) => Estado(p) = "nuevo"
                    /\ p = hiloN => Estado(p) = "cargando"
                    /\ p = hiloL.pid \/ p \in ejecutando => Estado(p) = "ejecutando"
                    /\ p \in ToSet(listos) => Estado(p) = "listo"
                    /\ p \in bloqueados => Estado(p) = "bloqueado"
                    /\ p \in finalizados => Estado(p) = "finalizado"
                    /\ p \notin Ingresados => Estado(p) = "ausente"
  BY DEF Vidas
<1> USE DEF IInv
<1>1. /\ p \in ToSet(nuevos) <=> Contains(nuevos, p)
      /\ p \in ToSet(listos) <=> Contains(listos, p)
  BY ToSetElemento DEF TypeOK, ListosReales
<1>2. /\ p \in ToSet(nuevos) =>
           p \notin ToSet(listos) \cup ejecutando \cup bloqueados \cup finalizados
           /\ p \notin {hiloN, hiloL.pid}
      /\ p \in ToSet(listos) =>
           p \notin ejecutando \cup bloqueados \cup finalizados \cup {hiloN, hiloL.pid}
      /\ p \in ejecutando => p \notin bloqueados \cup finalizados \cup {hiloN, hiloL.pid}
      /\ p \in bloqueados => p \notin finalizados \cup {hiloN, hiloL.pid}
      /\ p \in finalizados => p \notin {hiloN, hiloL.pid}
      /\ hiloN = p => hiloL.pid # p
  BY DEF Sitios
<1>3. /\ p \notin Ingresados =>
           /\ p \notin ToSet(nuevos) \cup ToSet(listos) \cup ejecutando \cup bloqueados
           /\ p \notin finalizados \cup {hiloN, hiloL.pid}
  BY NadieAparte DEF Ingresados
<1> QED
  BY <1>1, <1>2, <1>3 DEF Estado

LEMMA RecorridosSiempre == IInv => Recorridos
<1> SUFFICES ASSUME IInv, NEW p \in Pids
             PROVE  /\ \A c \in Cpus : cpu[c].pid = p => Avance(p) = cpu[c].pc
                    /\ \A c \in Cpus : bandeja[c].pid = p => Avance(p) = bandeja[c].pc
                    /\ CpusDe(p) = {} => Avance(p) = pcb[p].pc
  BY DEF Recorridos
<1> USE DEF IInv
<1> DEFINE enCpu  == {c \in Cpus : cpu[c].pid = p}
           vuelve == {c \in Cpus : bandeja[c].pid = p}
<1>1. Avance(p) = IF enCpu # {} THEN cpu[CHOOSE c \in enCpu : TRUE].pc
                  ELSE IF vuelve # {} THEN bandeja[CHOOSE c \in vuelve : TRUE].pc
                  ELSE pcb[p].pc
  BY DEF Avance
<1>2. ASSUME NEW c \in Cpus, cpu[c].pid = p PROVE Avance(p) = cpu[c].pc
  <2>1. c \in enCpu /\ \A d \in enCpu : d = c
    BY <1>2 DEF CpuUnica, CpusDe
  <2>2. (CHOOSE d \in enCpu : TRUE) = c
    BY <2>1
  <2> QED
    BY <1>1, <2>1, <2>2
<1>3. ASSUME NEW c \in Cpus, bandeja[c].pid = p PROVE Avance(p) = bandeja[c].pc
  <2>1. c \in vuelve /\ \A d \in vuelve : d = c
    BY <1>3 DEF CpuUnica, CpusDe
  <2>2. (CHOOSE d \in vuelve : TRUE) = c
    BY <2>1
  <2>3. cpu[c].pid = Nadie
    <3>1. bandeja[c].cod \in {"P12", "P13", "P16"}
      BY <1>3, NadieAparte DEF CpusEnFase, TypeOK, Mensajes
    <3> QED
      BY <3>1 DEF CpusEnFase
  <2>4. enCpu = {}
    BY <1>3, <2>3, NadieAparte DEF CpuUnica, CpusDe
  <2> QED
    BY <1>1, <2>1, <2>2, <2>4
<1>4. CpusDe(p) = {} => Avance(p) = pcb[p].pc
  BY <1>1 DEF CpusDe
<1> QED
  BY <1>2, <1>3, <1>4

(* A process that no list gains or loses is where it was. *)
LEMMA EstadoIgual ==
  ASSUME Vidas, Vidas', NEW q \in Pids,
         q \in ToSet(nuevos') <=> q \in ToSet(nuevos),
         q \in ToSet(listos') <=> q \in ToSet(listos),
         q \in bloqueados' <=> q \in bloqueados,
         q \in finalizados' <=> q \in finalizados,
         q = hiloN' <=> q = hiloN,
         q = hiloL'.pid \/ q \in ejecutando' <=> q = hiloL.pid \/ q \in ejecutando
  PROVE  Estado(q)' = Estado(q)
<1>1. q \in Ingresados' <=> q \in Ingresados
  BY NadieAparte DEF Ingresados
<1>2. \/ q \in ToSet(nuevos) \/ q = hiloN \/ (q = hiloL.pid \/ q \in ejecutando)
      \/ q \in ToSet(listos) \/ q \in bloqueados \/ q \in finalizados \/ q \notin Ingresados
  BY DEF Ingresados
<1> QED
  BY <1>1, <1>2 DEF Vidas

(* A process whose PCB no one touches is as far as it was. *)
LEMMA AvanceIgual ==
  ASSUME Recorridos, Recorridos', NEW q \in Pids,
         \A c \in Cpus : cpu[c].pid = q => cpu'[c].pid = q /\ cpu'[c].pc = cpu[c].pc,
         \A c \in Cpus : bandeja[c].pid = q => bandeja'[c] = bandeja[c],
         \A c \in Cpus : cpu'[c].pid = q \/ bandeja'[c].pid = q => c \in CpusDe(q),
         CpusDe(q) = {} => pcb'[q].pc = pcb[q].pc
  PROVE  Avance(q)' = Avance(q)
<1>1. CASE CpusDe(q) = {}
  <2>1. CpusDe(q)' = {}
    BY <1>1 DEF CpusDe
  <2> QED
    BY <1>1, <2>1 DEF Recorridos
<1>2. ASSUME NEW c \in Cpus, cpu[c].pid = q PROVE Avance(q)' = Avance(q)
  BY <1>2 DEF Recorridos
<1>3. ASSUME NEW c \in Cpus, bandeja[c].pid = q PROVE Avance(q)' = Avance(q)
  BY <1>3 DEF Recorridos
<1> QED
  BY <1>1, <1>2, <1>3 DEF CpusDe

LEMMA AvancesIguales ==
  ASSUME UNCHANGED <<cpu, bandeja, pcb>>
  PROVE  \A q \in Pids : Avance(q)' = Avance(q)
BY DEF Avance

LEMMA Mueve ==
  ASSUME NEW p \in Pids, NEW a, NEW b, Estado(p) = a, Estado(p)' = b,
         \A q \in Pids \ {p} : Estado(q)' = Estado(q),
         \A q \in Pids : Avance(q)' = Avance(q)
  PROVE  Ciclo!Pasar(p, a, b)
<1>1. Estados[p] = a /\ Estados' = [Estados EXCEPT ![p] = b]
  BY DEF Estados
<1>2. Avances' = Avances
  BY DEF Avances
<1> QED
  BY <1>1, <1>2 DEF Ciclo!Pasar, Estados, Avances

LEMMA Adelanta ==
  ASSUME NEW p \in Pids, Estado(p) = "ejecutando", Avance(p) < Len(Guion[p]),
         Avance(p)' = Avance(p) + 1,
         \A q \in Pids \ {p} : Avance(q)' = Avance(q),
         \A q \in Pids : Estado(q)' = Estado(q)
  PROVE  Ciclo!Avanzar(p)
<1>1. Estados[p] = "ejecutando" /\ Estados' = Estados
  BY DEF Estados
<1>2. Avances[p] < Len(Guion[p]) /\ Avances' = [Avances EXCEPT ![p] = @ + 1]
  BY DEF Avances
<1> QED
  BY <1>1, <1>2 DEF Ciclo!Avanzar, Estados, Avances

(* Cardinality is the same in CicloVida as here. *)
LEMMA MismoCardinal == \A S : Ciclo!Cardinality(S) = Cardinality(S)
BY DEF Ciclo!Cardinality, Cardinality

LEMMA Quietos ==
  ASSUME \A q \in Pids : Estado(q)' = Estado(q) /\ Avance(q)' = Avance(q)
  PROVE  UNCHANGED <<Estados, Avances>>
BY DEF Estados, Avances

-----------------------------------------------------------------------------
(* The steps *)

(* hiloM takes a program of a console, hiloN a slot of the degree for it,   *)
(* and then its pages: the process is new, loading, ready.                  *)
LEMMA CicloC01 ==
  ASSUME IInv, AInv, Vidas, Vidas', C01
  PROVE  AInv' /\ Ciclo!Next
<1> SUFFICES ASSUME NEW p, p = UltimoPid PROVE AInv' /\ Ciclo!Next
  OBVIOUS
<1> USE DEF IInv
<1>1. /\ nuevos' = Append(nuevos, p) /\ sem' = Postear(sem, {"nuevos"}) /\ p \in Pids
      /\ UNCHANGED <<listos, ejecutando, bloqueados, finalizados, cpus, ejec, program, valor,
                     cola, pcb, hiloN, hiloL, hiloM, cpu, bandeja, caido>>
  BY DEF C01
<1>2. p \notin Ingresados
  <2>1. Cardinality(Ingresados) \in Nat
    BY SistemaEs
  <2> QED
    BY <2>1 DEF EnOrden, UltimoPid
<1>3. ToSet(nuevos') = ToSet(nuevos) \cup {p} /\ sem'.cpus = sem.cpus
  <2>1. ToSet(nuevos') = ToSet(nuevos) \cup {p}
    BY <1>1, AlFinal DEF TypeOK
  <2> QED
    BY <1>1, <2>1, SemaforosTipo
<1>4. Ingresados' = Ingresados \cup {p}
  BY <1>1, <1>3 DEF Ingresados
<1>5. AInv'
  <2>1. Pendientes' /\ SinEmpezar' /\ EnMarcha' /\ Devueltos'
    BY <1>1, <1>2, <1>3, <1>4, AIgual
  <2> QED
    BY <1>1, <1>3, <2>1 DEF AInv, Fichas, EnManos
<1>6. Estado(p) = "ausente" /\ Estado(p)' = "nuevo"
  BY <1>1, <1>2, <1>3 DEF Vidas
<1>7. \A q \in Pids \ {p} : Estado(q)' = Estado(q)
  BY <1>1, <1>3, EstadoIgual
<1>8. Ciclo!Iniciar(p)
  BY <1>1, <1>6, <1>7, AvancesIguales, Mueve DEF Ciclo!Iniciar
<1> QED
  BY <1>1, <1>5, <1>8 DEF Ciclo!Next

LEMMA CicloPedirMemoria ==
  ASSUME IInv, AInv, Vidas, Vidas', PedirMemoria
  PROVE  AInv' /\ Ciclo!Next
<1> SUFFICES ASSUME NEW p, p = Head(nuevos) PROVE AInv' /\ Ciclo!Next
  OBVIOUS
<1> USE DEF IInv
<1>1. /\ nuevos' = Tail(nuevos) /\ hiloN' = p /\ sem' = Esperar(sem, {"nuevos", "grado"})
      /\ hiloN = Nadie /\ sem.nuevos > 0 /\ sem.grado > 0
      /\ UNCHANGED <<listos, ejecutando, bloqueados, finalizados, cpus, ejec, program, valor,
                     cola, pcb, hiloL, hiloM, cpu, bandeja, caido>>
  BY DEF PedirMemoria
<1>2. /\ p \in Pids /\ p \in ToSet(nuevos) /\ p # Nadie
      /\ ToSet(nuevos') = ToSet(nuevos) \ {p} /\ sem'.cpus = sem.cpus
  <2>1. nuevos \in Seq(Pids) /\ nuevos # <<>>
    BY <1>1, EmptySeq DEF TypeOK, Cuentas
  <2> QED
    BY <1>1, <2>1, SinPrimero, SemaforosTipo, NadieAparte DEF Sitios
<1>3. Ingresados' = Ingresados
  BY <1>1, <1>2 DEF Ingresados
<1>4. AInv'
  <2>1. Pendientes' /\ SinEmpezar' /\ EnMarcha' /\ Devueltos'
    BY <1>1, <1>2, <1>3, AIgual
  <2> QED
    BY <1>1, <1>2, <2>1 DEF AInv, Fichas, EnManos
<1>5. Estado(p) = "nuevo" /\ Estado(p)' = "cargando"
  BY <1>1, <1>2 DEF Vidas
<1>6. \A q \in Pids \ {p} : Estado(q)' = Estado(q)
  BY <1>1, <1>2, NadieAparte, EstadoIgual
<1>7. Cardinality(Ciclo!Admitidos) < Grado
  <2>1. Ciclo!Admitidos = EnSistema
    <3>1. Ciclo!Admitidos = {q \in Pids : Estado(q) \notin {"ausente", "nuevo", "finalizado"}}
      BY DEF Ciclo!Admitidos
    <3>2. ASSUME NEW q \in Pids
          PROVE  Estado(q) \notin {"ausente", "nuevo", "finalizado"} <=> q \in EnSistema
      <4>1. q \in EnSistema <=> q \in Ingresados /\ q \notin ToSet(nuevos) /\ q \notin finalizados
        BY DEF EnSistema
      <4> QED
        BY <4>1 DEF Vidas, Ingresados
    <3>3. EnSistema \subseteq Pids
      BY SistemaEs
    <3> QED
      BY <3>1, <3>2, <3>3
  <2>2. Cardinality(EnSistema) \in Nat /\ sem.grado \in Nat /\ Grado \in Nat
    BY SistemaEs, SemaforosTipo, PlanificadorOK
  <2> QED
    BY <1>1, <2>1, <2>2 DEF GradoExacto
<1>8. Ciclo!Admitir(p)
  <2>1. Ciclo!Pasar(p, "nuevo", "cargando")
    BY <1>1, <1>2, <1>5, <1>6, AvancesIguales, Mueve
  <2> QED
    BY <1>7, <2>1, MismoCardinal DEF Ciclo!Admitir
<1> QED
  BY <1>2, <1>4, <1>8 DEF Ciclo!Next

LEMMA CicloAgregarNuevaProg ==
  ASSUME IInv, AInv, Vidas, Vidas', Recorridos, Recorridos', AgregarNuevaProg
  PROVE  AInv' /\ Ciclo!Next
<1> SUFFICES ASSUME NEW p, p = hiloN PROVE AInv' /\ Ciclo!Next
  OBVIOUS
<1> USE DEF IInv
<1>1. /\ pcb' = [pcb EXCEPT ![p] = [pid |-> p, pc |-> 0]]
      /\ listos' = Append(listos, p) /\ sem' = Postear(sem, {"listos"})
      /\ p # Nadie /\ hiloN' = Nadie
      /\ UNCHANGED <<nuevos, ejecutando, bloqueados, finalizados, cpus, ejec, program, valor,
                     cola, hiloL, hiloM, cpu, bandeja, caido>>
  BY DEF AgregarNuevaProg
<1>2. p \in Pids
  BY <1>1 DEF TypeOK
<1>3. /\ p \notin ToSet(nuevos) \cup ToSet(listos) \cup ejecutando \cup bloqueados \cup finalizados
      /\ p # hiloL.pid
  BY <1>2 DEF Sitios
<1>4. ToSet(listos') = ToSet(listos) \cup {p}
  BY <1>1, <1>2, AlFinal DEF ListosReales
<1>5. sem'.cpus = sem.cpus
  BY <1>1, SemaforosTipo
<1>6. pcb[p].pc = 0 /\ pcb'[p].pc = 0 /\ \A q \in Pids : pcb'[q].pc = pcb[q].pc
  <2>1. pcb[p].pc = 0
    BY <1>2 DEF AInv, SinEmpezar
  <2>2. pcb \in [Pids -> [pid : Pids, pc : Nat]]
    BY DEF TypeOK
  <2> QED
    BY <1>1, <1>2, <2>1, <2>2
<1>7. Ingresados' = Ingresados
  BY <1>1, <1>3, <1>4 DEF Ingresados
<1>8. AInv'
  <2>1. Pendientes' /\ EnMarcha'
    BY <1>1, <1>6 DEF AInv, Pendientes, EnMarcha
  <2>2. SinEmpezar'
    BY <1>1, <1>6, <1>7, NadieAparte DEF AInv, SinEmpezar
  <2>3. hiloM.pc \in {"P12", "P13"} => hiloM.pid \in Pids
    BY DEF HiloMBien, TypeOK
  <2>4. Devueltos'
    BY <1>1, <1>6, <2>3 DEF AInv, Devueltos
  <2> QED
    BY <1>1, <1>5, <2>1, <2>2, <2>4 DEF AInv, Fichas, EnManos
<1>9. Estado(p) = "cargando" /\ Estado(p)' = "listo"
  BY <1>2, <1>4 DEF Vidas
<1>10. \A q \in Pids \ {p} : Estado(q)' = Estado(q)
  BY <1>1, <1>4, NadieAparte, EstadoIgual
<1>11. \A q \in Pids : Avance(q)' = Avance(q)
  BY <1>1, <1>6, AvanceIgual DEF CpusDe
<1>12. Ciclo!Cargar(p)
  BY <1>2, <1>9, <1>10, <1>11, Mueve DEF Ciclo!Cargar
<1> QED
  BY <1>2, <1>8, <1>12 DEF Ciclo!Next

LEMMA CicloAgregarCpu ==
  ASSUME IInv, AInv, NEW c \in Cpus, AgregarCpu(c)
  PROVE  AInv' /\ UNCHANGED <<Estados, Avances>>
<1> USE DEF IInv
<1>1. /\ cpus' = Append(cpus, c) /\ sem' = Postear(sem, {"cpus"})
      /\ UNCHANGED <<nuevos, listos, ejecutando, bloqueados, finalizados, ejec, program, valor,
                     cola, pcb, hiloN, hiloL, hiloM, cpu, bandeja, caido>>
  BY DEF AgregarCpu, listas
<1>2. Len(cpus') = Len(cpus) + 1
  BY <1>1, AlFinal DEF TypeOK
<1>3. sem'.cpus = sem.cpus + 1 /\ sem.cpus \in Nat
  BY <1>1, SemaforosTipo
<1>4. Pendientes' /\ SinEmpezar' /\ EnMarcha' /\ Devueltos'
  BY <1>1, AIgual DEF Ingresados
<1>5. Fichas'
  <2>1. EnManos' = EnManos /\ EnManos \in {0, 1}
    BY <1>1 DEF EnManos
  <2> QED
    BY <1>1, <1>2, <1>3, <2>1, EjecutandoFinito DEF AInv, Fichas
<1>6. \A q \in Pids : Estado(q)' = Estado(q)
  BY <1>1 DEF Estado
<1> QED
  BY <1>1, <1>4, <1>5, <1>6, AvancesIguales, Quietos DEF AInv

(* There are no more CPUs in the list than CPUs. *)
LEMMA CpusEnLista ==
  ASSUME IInv, IsFiniteSet(Cpus)
  PROVE  Len(cpus) \in Nat /\ Cardinality(Cpus) \in Nat /\ Len(cpus) <= Cardinality(Cpus)
<1> USE DEF IInv
<1>1. /\ cpus \in Seq(Cpus) /\ DOMAIN cpus = 1 .. Len(cpus) /\ Len(cpus) \in Nat
      /\ ToSet(cpus) \subseteq Cpus /\ cpus \in [1 .. Len(cpus) -> ToSet(cpus)]
  <2>1. cpus \in Seq(Cpus)
    BY DEF TypeOK
  <2> QED
    BY <2>1, ToSetElemento, LenProperties
<1>2. IsFiniteSet(1 .. Len(cpus)) /\ Cardinality(1 .. Len(cpus)) = Len(cpus)
  BY <1>1, FS_Interval
<1>3. /\ \A i, j \in 1 .. Len(cpus) : cpus[i] = cpus[j] => i = j
      /\ \A c \in ToSet(cpus) : \E i \in 1 .. Len(cpus) : cpus[i] = c
  BY <1>1, ToSetElemento DEF Conexion, IsInjective
<1>4. Cardinality(ToSet(cpus)) = Len(cpus)
  BY <1>1, <1>2, <1>3, ConBiyeccion
<1> QED
  BY <1>1, <1>4, FS_Subset, FS_CardinalityType

(* hiloL gives a ready process to a CPU that is free: there is a token for  *)
(* it, so fewer processes are running than there are CPUs.                  *)
LEMMA CicloDespachar ==
  ASSUME IsFiniteSet(Cpus), IInv, AInv, Vidas, Vidas', Recorridos, Recorridos', Despachar
  PROVE  AInv' /\ Ciclo!Next
<1> SUFFICES ASSUME NEW p, p = Head(listos), NEW c, c = CpuLibre PROVE AInv' /\ Ciclo!Next
  OBVIOUS
<1> USE DEF IInv
<1>1. listos # <<>> /\ c # Nadie
  BY DespachoPosible
<1>2. c \in Cpus /\ ~ejec[c]
  BY <1>1, CpuLibreEs
<1>3. /\ p \in Pids /\ p # Nadie /\ p \in ToSet(listos)
      /\ ToSet(Tail(listos)) = ToSet(listos) \ {p}
  BY <1>1, SinPrimero, NadieAparte DEF ListosReales, Sitios
<1>4. /\ hiloL = SinDespacho /\ sem.cpus > 0
      /\ listos' = Tail(listos) /\ sem' = Esperar(sem, {"listos", "cpus"})
      /\ hiloL' = [pid |-> p, cpu |-> c]
      /\ cpu' = [cpu EXCEPT ![c] = [fase |-> "corre", pid |-> pcb[p].pid, pc |-> pcb[p].pc,
                                    inst |-> 0]]
      /\ UNCHANGED <<nuevos, ejecutando, bloqueados, finalizados, cpus, ejec, program, valor,
                     cola, pcb, hiloN, hiloM, bandeja>>
  BY <1>1, <1>3 DEF Despachar
<1>5. /\ p \notin ToSet(nuevos) \cup ejecutando \cup bloqueados \cup finalizados
      /\ p # hiloN /\ p # hiloL.pid
  BY <1>3 DEF Sitios
<1>6. sem'.cpus = sem.cpus - 1 /\ sem.cpus \in Nat
  BY <1>4, SemaforosTipo
<1>7. /\ cpu[c].pid = Nadie /\ bandeja[c].pid = Nadie
  <2>1. hiloL.cpu # c
    BY <1>1, <1>4 DEF SinDespacho
  <2> QED
    BY <1>2, <2>1, CpuOciosa
<1>8. /\ cpu'[c].pid = p /\ cpu'[c].fase = "corre" /\ cpu'[c].pc = pcb[p].pc
      /\ \A d \in Cpus \ {c} : cpu'[d] = cpu[d]
  BY <1>2, <1>3, <1>4 DEF TypeOK, CpuUnica
<1>9. Ingresados' = Ingresados
  BY <1>3, <1>4, <1>5 DEF Ingresados, SinDespacho
<1>10. AInv'
  <2>1. Pendientes' /\ SinEmpezar' /\ Devueltos'
    BY <1>4, <1>9 DEF AInv, Pendientes, SinEmpezar, Devueltos
  <2>2. pcb[p].pc < Len(Guion[p])
    BY <1>3, <1>5 DEF AInv, Pendientes
  <2>3. EnMarcha'
    BY <1>8, <2>2 DEF AInv, EnMarcha
  <2>4. EnManos = 0 /\ EnManos' = 1
    BY <1>3, <1>4 DEF EnManos, SinDespacho
  <2>5. Fichas'
    BY <1>4, <1>6, <2>4, EjecutandoFinito DEF AInv, Fichas
  <2> QED
    BY <2>1, <2>3, <2>5 DEF AInv
<1>11. Estado(p) = "listo" /\ Estado(p)' = "ejecutando"
  BY <1>3, <1>4 DEF Vidas
<1>12. \A q \in Pids \ {p} : Estado(q)' = Estado(q)
  BY <1>3, <1>4, NadieAparte, EstadoIgual DEF SinDespacho
<1>13. \A q \in Pids : Avance(q)' = Avance(q)
  <2>1. CpusDe(p) = {}
    BY <1>3, <1>4, <1>5 DEF CpuUnica, SinDespacho
  <2>2. Avance(p)' = Avance(p)
    BY <1>2, <1>3, <1>8, <2>1 DEF Recorridos
  <2>3. ASSUME NEW q \in Pids \ {p} PROVE Avance(q)' = Avance(q)
    <3>1. \A d \in Cpus : cpu[d].pid = q \/ cpu'[d].pid = q => d # c
      BY <1>7, <1>8, NadieAparte
    <3> QED
      BY <1>4, <1>8, <3>1, AvanceIgual DEF CpusDe
  <2> QED
    BY <2>2, <2>3
<1>14. Cardinality(Ciclo!En("ejecutando")) < Cardinality(Cpus)
  <2>1. Ciclo!En("ejecutando") = {q \in Pids : Estado(q) = "ejecutando"}
    BY DEF Ciclo!En
  <2>2. ASSUME NEW q \in Pids PROVE Estado(q) = "ejecutando" <=> q \in ejecutando
    BY <1>4, NadieAparte DEF Vidas, Ingresados, SinDespacho
  <2>3. Ciclo!En("ejecutando") = ejecutando
    BY <2>1, <2>2 DEF TypeOK
  <2>4. EnManos = 0
    BY <1>4 DEF EnManos
  <2> QED
    BY <1>4, <1>6, <2>3, <2>4, CpusEnLista, EjecutandoFinito DEF AInv, Fichas
<1>15. Ciclo!Despachar(p)
  <2>1. Ciclo!Pasar(p, "listo", "ejecutando")
    BY <1>3, <1>11, <1>12, <1>13, Mueve
  <2> QED
    BY <1>14, <2>1, MismoCardinal DEF Ciclo!Despachar
<1> QED
  BY <1>3, <1>10, <1>15 DEF Ciclo!Next

(* hiloL writes down what it has done. *)
LEMMA CicloAnotarDespacho ==
  ASSUME IInv, AInv, Vidas, Vidas', AnotarDespacho
  PROVE  AInv' /\ UNCHANGED <<Estados, Avances>>
<1> SUFFICES ASSUME NEW p, p = hiloL.pid PROVE AInv' /\ UNCHANGED <<Estados, Avances>>
  OBVIOUS
<1> USE DEF IInv
<1>1. /\ hiloL # SinDespacho /\ hiloL' = SinDespacho /\ ejecutando' = ejecutando \cup {p}
      /\ UNCHANGED <<nuevos, listos, bloqueados, finalizados, cpus, sem, valor, cola, pcb,
                     hiloN, hiloM, cpu, bandeja, caido>>
  BY DEF AnotarDespacho
<1>2. p \in Pids /\ p # Nadie /\ p \notin ejecutando
  BY <1>1, NadieAparte DEF HiloLBien, Sitios
<1>3. Ingresados' = Ingresados
  BY <1>1, <1>2 DEF Ingresados, SinDespacho
<1>4. AInv'
  <2>1. Pendientes' /\ SinEmpezar' /\ EnMarcha' /\ Devueltos'
    BY <1>1, <1>3 DEF AInv, Pendientes, SinEmpezar, EnMarcha, Devueltos
  <2>2. EnManos = 1 /\ EnManos' = 0
    BY <1>1 DEF EnManos
  <2>3. Cardinality(ejecutando') = Cardinality(ejecutando) + 1
    BY <1>1, <1>2, EjecutandoFinito, FS_AddElement
  <2>4. Fichas'
    <3>1. sem.cpus \in Nat
      BY SemaforosTipo
    <3> QED
      BY <1>1, <2>2, <2>3, <3>1, EjecutandoFinito DEF AInv, Fichas
  <2> QED
    BY <2>1, <2>4 DEF AInv
<1>5. \A q \in Pids : Estado(q)' = Estado(q)
  BY <1>1, NadieAparte, EstadoIgual DEF SinDespacho
<1> QED
  BY <1>1, <1>4, <1>5, AvancesIguales, Quietos

(* The PCB that comes with P12 or P13 goes from the socket to the program:  *)
(* nothing has happened, for the program.                                   *)
LEMMA CicloDevuelvePcb ==
  ASSUME IInv, AInv, QuantumLimpio, Recorridos, Recorridos', NEW c \in Cpus,
         NEW cod \in {"P12", "P13"}, DevuelvePcb(c, cod)
  PROVE  AInv' /\ UNCHANGED <<Estados, Avances>>
<1> SUFFICES ASSUME NEW p, p = bandeja[c].pid PROVE AInv' /\ UNCHANGED <<Estados, Avances>>
  OBVIOUS
<1> USE DEF IInv
<1>1. /\ hiloL.cpu # c /\ bandeja[c].cod = cod
      /\ pcb' = [pcb EXCEPT ![program[c]] = [pid |-> p, pc |-> bandeja[c].pc]]
      /\ hiloM' = [pc |-> cod, cpu |-> c, pid |-> p, sem |-> Nadie]
      /\ Leido(c)
      /\ UNCHANGED <<nuevos, listos, ejecutando, bloqueados, finalizados, cpus, program, sem,
                     valor, cola, hiloN, hiloL, cpu, caido>>
  BY DEF DevuelvePcb, Mensaje, listas
<1>2. /\ bandeja'[c].pid = Nadie /\ bandeja'[c].cod = "nada"
      /\ \A d \in Cpus \ {c} : bandeja'[d] = bandeja[d]
  BY <1>1, LeidoEs
<1>3. p \in Pids /\ p # Nadie /\ c \in CpusDe(p) /\ bandeja[c].pc \in Nat
  <2>1. /\ bandeja[c].pid \in Pids \cup {Nadie} /\ bandeja[c].pid # Nadie
        /\ bandeja[c].pc \in Nat
    BY <1>1 DEF TypeOK, CpusEnFase
  <2> QED
    BY <2>1 DEF CpusDe
<1>4. p \in ejecutando /\ program[c] = p /\ p # hiloN /\ p \notin ToSet(nuevos) /\ p \in Ingresados
  <2>1. p \in ejecutando /\ program[c] = p
    BY <1>1, <1>3 DEF CpuUnica
  <2> QED
    BY <1>3, <2>1 DEF Sitios, Ingresados
<1>5. pcb'[p].pc = bandeja[c].pc /\ \A q \in Pids \ {p} : pcb'[q] = pcb[q]
  BY <1>1, <1>3, <1>4 DEF TypeOK
<1>6. CpusDe(p)' = {} /\ cpu[c].pid = Nadie
  <2>1. cpu[c].pid = Nadie
    BY <1>1 DEF CpusEnFase
  <2>2. \A d \in Cpus : d # c => d \notin CpusDe(p)
    BY <1>3 DEF CpuUnica
  <2>3. \A d \in Cpus : ~ (cpu'[d].pid = p \/ bandeja'[d].pid = p)
    BY <1>1, <1>2, <1>3, <2>1, <2>2 DEF CpusDe
  <2> QED
    BY <2>1, <2>3 DEF CpusDe
<1>7. Ingresados' = Ingresados
  BY <1>1 DEF Ingresados
<1>8. AInv'
  <2>1. Pendientes' /\ SinEmpezar' /\ EnMarcha'
    BY <1>1, <1>4, <1>5, <1>7 DEF AInv, Pendientes, SinEmpezar, EnMarcha
  <2>2. /\ cod = "P12" => bandeja[c].pc < Len(Guion[p])
        /\ cod = "P13" => bandeja[c].pc = Len(Guion[p])
    BY <1>1 DEF QuantumLimpio, AInv, Devueltos
  <2>3. Devueltos'
    <3>1. ASSUME NEW d \in Cpus
          PROVE  /\ bandeja'[d].cod = "P13" => bandeja'[d].pc = Len(Guion[bandeja'[d].pid])
                 /\ bandeja'[d].cod = "P16" => bandeja'[d].pc < Len(Guion[bandeja'[d].pid])
      <4>1. CASE d = c
        BY <1>2, <4>1
      <4>2. CASE d # c
        BY <1>2, <4>2 DEF AInv, Devueltos
      <4> QED
        BY <4>1, <4>2
    <3>2. hiloM'.pc = cod /\ hiloM'.pid = p
      BY <1>1
    <3> QED
      BY <1>5, <2>2, <3>1, <3>2 DEF Devueltos
  <2>4. Fichas'
    BY <1>1 DEF AInv, Fichas, EnManos
  <2> QED
    BY <2>1, <2>3, <2>4 DEF AInv
<1>9. \A q \in Pids : Estado(q)' = Estado(q)
  BY <1>1 DEF Estado
<1>10. \A q \in Pids : Avance(q)' = Avance(q)
  <2>1. Avance(p)' = Avance(p)
    BY <1>3, <1>5, <1>6 DEF Recorridos
  <2>2. ASSUME NEW q \in Pids \ {p} PROVE Avance(q)' = Avance(q)
    <3>1. /\ \A d \in Cpus : bandeja[d].pid = q => bandeja'[d] = bandeja[d]
          /\ \A d \in Cpus : cpu'[d].pid = q \/ bandeja'[d].pid = q => d \in CpusDe(q)
      BY <1>1, <1>2, NadieAparte DEF CpusDe
    <3> QED
      BY <1>1, <1>5, <3>1, AvanceIgual
  <2> QED
    BY <2>1, <2>2
<1> QED
  BY <1>8, <1>9, <1>10, Quietos

(* The end of a quantum puts the process back in the queue, that of the     *)
(* program finishes it.                                                     *)
LEMMA CicloFinalizarQuantum ==
  ASSUME IInv, AInv, Vidas, Vidas', Recorridos, Recorridos', FinalizarQuantum
  PROVE  AInv' /\ Ciclo!Next
<1> SUFFICES ASSUME NEW p, p = hiloM.pid PROVE AInv' /\ Ciclo!Next
  OBVIOUS
<1> USE DEF IInv
<1>1. p \in ejecutando /\ p \in Pids /\ p # Nadie /\ CpusDe(p) = {} /\ hiloM.pc = "P12"
  BY NadieAparte DEF FinalizarQuantum, HiloMBien, TypeOK
<1>2. /\ ejecutando' = ejecutando \ {p} /\ listos' = Append(listos, p)
      /\ sem' = Postear(sem, {"listos", "cpus"}) /\ hiloM' = EnSelect
      /\ UNCHANGED <<nuevos, bloqueados, finalizados, cpus, ejec, program, valor, cola, pcb,
                     hiloN, hiloL, cpu, bandeja, caido>>
  BY <1>1 DEF FinalizarQuantum, Sacado
<1>3. ToSet(listos') = ToSet(listos) \cup {p}
  BY <1>1, <1>2, AlFinal DEF ListosReales
<1>4. sem'.cpus = sem.cpus + 1 /\ sem.cpus \in Nat
  BY <1>2, SemaforosTipo
<1>5. pcb[p].pc < Len(Guion[p])
  BY <1>1 DEF AInv, Devueltos
<1>6. Ingresados' = Ingresados /\ hiloL.pid # p
  BY <1>1, <1>2, <1>3 DEF Ingresados, Sitios
<1>7. AInv'
  <2>1. Pendientes' /\ SinEmpezar' /\ EnMarcha' /\ Devueltos'
    BY <1>2, <1>5, <1>6 DEF AInv, Pendientes, SinEmpezar, EnMarcha, Devueltos, EnSelect
  <2>2. Cardinality(ejecutando') = Cardinality(ejecutando) - 1
    BY <1>1, <1>2, EjecutandoFinito, FS_RemoveElement
  <2>3. EnManos' = EnManos /\ EnManos \in {0, 1}
    BY <1>2 DEF EnManos
  <2>4. Fichas'
    BY <1>2, <1>4, <2>2, <2>3, EjecutandoFinito DEF AInv, Fichas
  <2> QED
    BY <2>1, <2>4 DEF AInv
<1>8. Estado(p) = "ejecutando" /\ Estado(p)' = "listo"
  BY <1>1, <1>3 DEF Vidas
<1>9. \A q \in Pids \ {p} : Estado(q)' = Estado(q)
  BY <1>2, <1>3, EstadoIgual
<1>10. \A q \in Pids : Avance(q)' = Avance(q)
  BY <1>2, AvancesIguales
<1>11. Avances[p] = pcb[p].pc
  BY <1>1 DEF Avances, Recorridos
<1>12. Ciclo!Desalojar(p)
  <2>1. Ciclo!Pasar(p, "ejecutando", "listo")
    BY <1>1, <1>8, <1>9, <1>10, Mueve
  <2> QED
    BY <1>1, <1>5, <1>11, <2>1 DEF Ciclo!Desalojar, Avances
<1> QED
  BY <1>1, <1>7, <1>12 DEF Ciclo!Next

LEMMA CicloFinalizarProceso ==
  ASSUME IInv, AInv, Vidas, Vidas', Recorridos, Recorridos', FinalizarProceso
  PROVE  AInv' /\ (Ciclo!Next \/ UNCHANGED <<Estados, Avances>>)
<1> SUFFICES ASSUME NEW p, p = hiloM.pid
             PROVE  AInv' /\ (Ciclo!Next \/ UNCHANGED <<Estados, Avances>>)
  OBVIOUS
<1> USE DEF IInv
<1>1. p \in ejecutando /\ p \in Pids /\ p # Nadie /\ CpusDe(p) = {} /\ hiloM.pc = "P13"
  BY NadieAparte DEF FinalizarProceso, HiloMBien, TypeOK
<1>2. CASE EncuentraCpu(p)
  <2>1. /\ ejecutando' = ejecutando \ {p} /\ finalizados' = finalizados \cup {p}
        /\ sem' = Postear(sem, {"cpus", "grado"}) /\ hiloM' = EnSelect
        /\ UNCHANGED <<nuevos, listos, bloqueados, cpus, ejec, program, valor, pcb, hiloN,
                       hiloL, cpu, bandeja>>
    BY <1>1, <1>2 DEF FinalizarProceso, Sacado
  <2>2. sem'.cpus = sem.cpus + 1 /\ sem.cpus \in Nat
    BY <2>1, SemaforosTipo
  <2>3. pcb[p].pc = Len(Guion[p])
    BY <1>1 DEF AInv, Devueltos
  <2>4. Ingresados' = Ingresados /\ hiloL.pid # p
    BY <1>1, <2>1 DEF Ingresados, Sitios
  <2>5. AInv'
    <3>1. Pendientes' /\ SinEmpezar' /\ EnMarcha' /\ Devueltos'
      BY <2>1, <2>4 DEF AInv, Pendientes, SinEmpezar, EnMarcha, Devueltos, EnSelect
    <3>2. Cardinality(ejecutando') = Cardinality(ejecutando) - 1
      BY <1>1, <2>1, EjecutandoFinito, FS_RemoveElement
    <3>3. EnManos' = EnManos /\ EnManos \in {0, 1}
      BY <2>1 DEF EnManos
    <3>4. Fichas'
      BY <2>1, <2>2, <3>2, <3>3, EjecutandoFinito DEF AInv, Fichas
    <3> QED
      BY <3>1, <3>4 DEF AInv
  <2>6. Estado(p) = "ejecutando" /\ Estado(p)' = "finalizado"
    BY <1>1, <2>1 DEF Vidas
  <2>7. \A q \in Pids \ {p} : Estado(q)' = Estado(q)
    BY <2>1, EstadoIgual
  <2>8. \A q \in Pids : Avance(q)' = Avance(q)
    BY <2>1, AvancesIguales
  <2>9. Avances[p] = pcb[p].pc
    BY <1>1 DEF Avances, Recorridos
  <2>10. Ciclo!Terminar(p)
    <3>1. Ciclo!Pasar(p, "ejecutando", "finalizado")
      BY <1>1, <2>6, <2>7, <2>8, Mueve
    <3> QED
      BY <1>1, <2>3, <2>9, <3>1 DEF Ciclo!Terminar, Avances
  <2> QED
    BY <1>1, <2>5, <2>10 DEF Ciclo!Next
<1>3. CASE ~EncuentraCpu(p)
  <2>1. UNCHANGED <<nuevos, listos, ejecutando, bloqueados, finalizados, cpus, ejec, program,
                    sem, valor, cola, pcb, hiloN, hiloL, hiloM, cpu, bandeja>>
    BY <1>3 DEF FinalizarProceso
  <2>2. AInv'
    BY <2>1, AIgual DEF AInv, Fichas, EnManos, Ingresados
  <2>3. \A q \in Pids : Estado(q)' = Estado(q)
    BY <2>1 DEF Estado
  <2> QED
    BY <2>1, <2>2, <2>3, AvancesIguales, Quietos
<1> QED
  BY <1>2, <1>3

(* hiloM reads a P14 or P15 and answers it: the CPU keeps its program and   *)
(* where it was.                                                            *)
Contesta(c) ==
  /\ bandeja[c].pid = Nadie /\ bandeja'[c].pid = Nadie /\ bandeja'[c].cod = "nada"
  /\ \A d \in Cpus \ {c} : bandeja'[d] = bandeja[d]
  /\ \A d \in Cpus : /\ cpu'[d].pid = cpu[d].pid /\ cpu'[d].pc = cpu[d].pc
                     /\ cpu'[d].fase # "corre" => cpu[d].fase # "corre"

LEMMA ContestaEs ==
  ASSUME IInv, NEW c \in Cpus, NEW f \in {"OK", "K23"}, Pasa(c, f), Leido(c),
         bandeja[c].cod \in {"P14", "P15"}
  PROVE  Contesta(c)
<1> USE DEF IInv
<1>1. /\ bandeja'[c].pid = Nadie /\ bandeja'[c].cod = "nada"
      /\ \A d \in Cpus \ {c} : bandeja'[d] = bandeja[d]
  BY LeidoEs
<1>2. bandeja[c].pid = Nadie /\ cpu[c].fase = "espera"
  BY DEF CpusEnFase
<1>3. cpu' = [cpu EXCEPT ![c] = [cpu[c] EXCEPT !.fase = f]]
  BY DEF Pasa
<1>4. /\ cpu \in [Cpus -> [fase : {"libre", "corre", "espera", "OK", "K23"},
                           pid : Pids \cup {Nadie}, pc : Nat, inst : Nat]]
      /\ cpu[c] \in [fase : {"libre", "corre", "espera", "OK", "K23"},
                     pid : Pids \cup {Nadie}, pc : Nat, inst : Nat]
  BY DEF TypeOK
<1>5. /\ [cpu[c] EXCEPT !.fase = f].pid = cpu[c].pid
      /\ [cpu[c] EXCEPT !.fase = f].pc = cpu[c].pc
  BY <1>4
<1>6. /\ cpu'[c].pid = cpu[c].pid /\ cpu'[c].pc = cpu[c].pc
      /\ \A d \in Cpus \ {c} : cpu'[d] = cpu[d]
  BY <1>3, <1>4, <1>5
<1> QED
  BY <1>1, <1>2, <1>6 DEF Contesta

LEMMA ContestaBien ==
  ASSUME IInv, AInv, NEW c \in Cpus, Contesta(c), pcb' = pcb, hiloM'.pc \notin {"P12", "P13"}
  PROVE  EnMarcha' /\ Devueltos'
<1>1. EnMarcha'
  BY DEF AInv, EnMarcha, Contesta
<1>2. ASSUME NEW d \in Cpus
      PROVE  /\ bandeja'[d].cod = "P13" => bandeja'[d].pc = Len(Guion[bandeja'[d].pid])
             /\ bandeja'[d].cod = "P16" => bandeja'[d].pc < Len(Guion[bandeja'[d].pid])
  <2>1. CASE d = c
    BY <2>1 DEF Contesta
  <2>2. CASE d # c
    BY <2>2 DEF Contesta, AInv, Devueltos
  <2> QED
    BY <2>1, <2>2
<1> QED
  BY <1>1, <1>2 DEF Devueltos

LEMMA ContestaIgual ==
  ASSUME Recorridos, Recorridos', NEW c \in Cpus, Contesta(c), pcb' = pcb
  PROVE  \A q \in Pids : Avance(q)' = Avance(q)
<1> SUFFICES ASSUME NEW q \in Pids PROVE Avance(q)' = Avance(q)
  OBVIOUS
<1>1. /\ \A d \in Cpus : bandeja[d].pid = q => bandeja'[d] = bandeja[d]
      /\ \A d \in Cpus : cpu'[d].pid = q \/ bandeja'[d].pid = q => d \in CpusDe(q)
  BY NadieAparte DEF Contesta, CpusDe
<1> QED
  BY <1>1, AvanceIgual DEF Contesta

(* sem_wait_ that has room, or that finds none and asks for the PCB: the    *)
(* program is still in its wait.                                            *)
LEMMA CicloP14 ==
  ASSUME IInv, AInv, Recorridos, Recorridos', NEW c \in Cpus, P14(c)
  PROVE  AInv' /\ UNCHANGED <<Estados, Avances>>
<1> USE DEF IInv
<1>1. /\ hiloM = EnSelect /\ bandeja[c].cod = "P14" /\ Leido(c)
      /\ hiloM'.pc \in {"select", "K23"}
      /\ UNCHANGED <<nuevos, listos, ejecutando, bloqueados, finalizados, cpus, ejec, program,
                     sem, cola, pcb, hiloN, hiloL, caido>>
  BY DEF P14, Mensaje, listas, EnSelect
<1>2. PICK f \in {"OK", "K23"} : Pasa(c, f)
  BY DEF P14, Pasa
<1>3. Contesta(c)
  BY <1>1, <1>2, ContestaEs
<1>4. Ingresados' = Ingresados
  BY <1>1 DEF Ingresados
<1>5. AInv'
  <2>1. Pendientes' /\ SinEmpezar'
    BY <1>1, <1>4 DEF AInv, Pendientes, SinEmpezar
  <2>2. EnMarcha' /\ Devueltos'
    BY <1>1, <1>3, ContestaBien
  <2> QED
    BY <1>1, <2>1, <2>2 DEF AInv, Fichas, EnManos
<1>6. \A q \in Pids : Estado(q)' = Estado(q)
  BY <1>1 DEF Estado
<1> QED
  BY <1>1, <1>3, <1>5, <1>6, ContestaIgual, Quietos

(* The rest of sem_wait_: the PCB goes to the program with P16, or is that  *)
(* of before the wait with P12.                                             *)
LEMMA CicloBloquearProceso ==
  ASSUME IInv, AInv, QuantumLimpio, Vidas, Vidas', Recorridos, Recorridos', BloquearProceso
  PROVE  AInv' /\ Ciclo!Next
<1> SUFFICES ASSUME NEW c, c = hiloM.cpu, NEW p, p = hiloM.pid PROVE AInv' /\ Ciclo!Next
  OBVIOUS
<1> USE DEF IInv
<1>1. /\ hiloM.pc = "K23" /\ bandeja[c].cod # "nada"
      /\ p \in ejecutando /\ p \in Pids /\ p # Nadie /\ c \in CpusDe(p) /\ c \in Cpus
  BY NadieAparte DEF BloquearProceso, HiloMBien, TypeOK, CpusDe
<1>2. /\ bandeja[c].cod = "P16" /\ cpu[c].pid = Nadie /\ bandeja[c].pid = p
      /\ bandeja[c].pc \in Nat
  <2>1. bandeja[c].cod = "P16"
    <3>1. bandeja[c].cod # "P12"
      BY <1>1 DEF QuantumLimpio
    <3>2. cpu[c].fase = "K23" \/ bandeja[c].cod \in {"P12", "P16"}
      BY <1>1 DEF HiloMBien
    <3>3. bandeja[c].cod \in Mensajes
      BY <1>1 DEF TypeOK
    <3> QED
      BY <1>1, <3>1, <3>2, <3>3 DEF CpusEnFase, Mensajes
  <2>2. cpu[c].pid = Nadie
    BY <1>1, <2>1 DEF CpusEnFase
  <2> QED
    BY <1>1, <2>1, <2>2 DEF CpusDe, TypeOK
<1>3. /\ Leido(c) /\ pcb' = [pcb EXCEPT ![p] = [pid |-> p, pc |-> bandeja[c].pc]]
      /\ ejecutando' = ejecutando \ {p} /\ bloqueados' = bloqueados \cup {p}
      /\ sem' = Postear(sem, {"cpus"}) /\ hiloM' = EnSelect
      /\ UNCHANGED <<nuevos, listos, finalizados, cpus, program, hiloN, hiloL, cpu>>
  <2>1. Sacado = p /\ ~ (Sacado = Nadie)
    BY <1>1 DEF Sacado
  <2> QED
    BY <1>2, <2>1 DEF BloquearProceso, PcbTrasK23
<1>4. /\ bandeja'[c].pid = Nadie /\ bandeja'[c].cod = "nada"
      /\ \A d \in Cpus \ {c} : bandeja'[d] = bandeja[d]
  BY <1>1, <1>3, LeidoEs
<1>5. pcb'[p].pc = bandeja[c].pc /\ \A q \in Pids \ {p} : pcb'[q] = pcb[q]
  BY <1>1, <1>3 DEF TypeOK
<1>6. bandeja[c].pc < Len(Guion[p])
  BY <1>1, <1>2 DEF AInv, Devueltos
<1>7. CpusDe(p)' = {}
  <2>1. \A d \in Cpus : d # c => d \notin CpusDe(p)
    BY <1>1 DEF CpuUnica
  <2>2. \A d \in Cpus : ~ (cpu'[d].pid = p \/ bandeja'[d].pid = p)
    BY <1>1, <1>2, <1>3, <1>4, <2>1 DEF CpusDe
  <2> QED
    BY <2>2 DEF CpusDe
<1>8. /\ p \notin ToSet(nuevos) /\ p # hiloN /\ p # hiloL.pid /\ Ingresados' = Ingresados
  BY <1>1, <1>3 DEF Sitios, Ingresados
<1>9. AInv'
  <2>1. Pendientes' /\ SinEmpezar' /\ EnMarcha'
    BY <1>1, <1>3, <1>5, <1>6, <1>8 DEF AInv, Pendientes, SinEmpezar, EnMarcha, Ingresados
  <2>2. Devueltos'
    <3>1. ASSUME NEW d \in Cpus
          PROVE  /\ bandeja'[d].cod = "P13" => bandeja'[d].pc = Len(Guion[bandeja'[d].pid])
                 /\ bandeja'[d].cod = "P16" => bandeja'[d].pc < Len(Guion[bandeja'[d].pid])
      <4>1. CASE d = c
        BY <1>4, <4>1
      <4>2. CASE d # c
        BY <1>4, <4>2 DEF AInv, Devueltos
      <4> QED
        BY <4>1, <4>2
    <3> QED
      BY <1>3, <3>1 DEF Devueltos, EnSelect
  <2>3. sem'.cpus = sem.cpus + 1 /\ sem.cpus \in Nat
    BY <1>3, SemaforosTipo
  <2>4. Cardinality(ejecutando') = Cardinality(ejecutando) - 1
    BY <1>1, <1>3, EjecutandoFinito, FS_RemoveElement
  <2>5. EnManos' = EnManos /\ EnManos \in {0, 1}
    BY <1>3 DEF EnManos
  <2>6. Fichas'
    <3>1. /\ sem.cpus + EnManos + Cardinality(ejecutando) = Len(cpus) /\ cpus' = cpus
          /\ Cardinality(ejecutando) \in Nat
      BY <1>3, EjecutandoFinito DEF AInv, Fichas
    <3> QED
      BY <2>3, <2>4, <2>5, <3>1 DEF Fichas
  <2> QED
    BY <2>1, <2>2, <2>6 DEF AInv
<1>10. Estado(p) = "ejecutando" /\ Estado(p)' = "bloqueado"
  BY <1>1, <1>3 DEF Vidas
<1>11. \A q \in Pids \ {p} : Estado(q)' = Estado(q)
  BY <1>3, EstadoIgual
<1>12. Avance(p) = bandeja[c].pc /\ Avance(p)' = bandeja[c].pc
  BY <1>1, <1>2, <1>5, <1>7 DEF Recorridos
<1>13. \A q \in Pids : Avance(q)' = Avance(q)
  <2>1. ASSUME NEW q \in Pids \ {p} PROVE Avance(q)' = Avance(q)
    <3>1. /\ \A d \in Cpus : bandeja[d].pid = q => bandeja'[d] = bandeja[d]
          /\ \A d \in Cpus : cpu'[d].pid = q \/ bandeja'[d].pid = q => d \in CpusDe(q)
      BY <1>2, <1>3, <1>4, NadieAparte DEF CpusDe
    <3> QED
      BY <1>3, <1>5, <3>1, AvanceIgual
  <2> QED
    BY <1>12, <2>1
<1>14. Avances[p] = bandeja[c].pc
  BY <1>1, <1>12 DEF Avances
<1>15. Ciclo!Bloquear(p)
  <2>1. Ciclo!Pasar(p, "ejecutando", "bloqueado")
    BY <1>1, <1>10, <1>11, <1>13, Mueve
  <2> QED
    BY <1>1, <1>6, <1>14, <2>1 DEF Ciclo!Bloquear, Avances
<1> QED
  BY <1>1, <1>9, <1>15 DEF Ciclo!Next

(* sem_signal: the first that waits is ready, if one waits. *)
LEMMA CicloP15 ==
  ASSUME IInv, AInv, Vidas, Vidas', Recorridos, Recorridos', NEW c \in Cpus, P15(c)
  PROVE  AInv' /\ (Ciclo!Next \/ UNCHANGED <<Estados, Avances>>)
<1> SUFFICES ASSUME NEW s, s = bandeja[c].sem
             PROVE  AInv' /\ (Ciclo!Next \/ UNCHANGED <<Estados, Avances>>)
  OBVIOUS
<1> USE DEF IInv
<1>1. /\ hiloM = EnSelect /\ bandeja[c].cod = "P15" /\ Leido(c) /\ Pasa(c, "OK")
      /\ UNCHANGED <<nuevos, ejecutando, finalizados, cpus, ejec, program, pcb, hiloN, hiloL,
                     hiloM>>
  BY DEF P15, Mensaje, Pasa
<1>2. Contesta(c)
  BY <1>1, ContestaEs
<1>3. EnMarcha' /\ Devueltos'
  BY <1>1, <1>2, ContestaBien DEF EnSelect
<1>4. \A q \in Pids : Avance(q)' = Avance(q)
  BY <1>1, <1>2, ContestaIgual
<1>5. CASE UNCHANGED <<bloqueados, listos, sem>>
  <2>1. AInv'
    BY <1>1, <1>3, <1>5 DEF AInv, Pendientes, SinEmpezar, Fichas, EnManos, Ingresados
  <2>2. \A q \in Pids : Estado(q)' = Estado(q)
    BY <1>1, <1>5 DEF Estado
  <2> QED
    BY <1>4, <2>1, <2>2, Quietos
<1>6. CASE ~ UNCHANGED <<bloqueados, listos, sem>>
  <2>1. PICK p \in bloqueados : /\ bloqueados' = bloqueados \ {p}
                                /\ listos' = Append(listos, p)
                                /\ sem' = Postear(sem, {"listos"})
    BY <1>6 DEF P15
  <2>2. /\ p \in Pids /\ p \notin ToSet(nuevos) \cup ToSet(listos) \cup ejecutando \cup finalizados
        /\ p # hiloN /\ p # hiloL.pid
    BY DEF TypeOK, Sitios
  <2>3. ToSet(listos') = ToSet(listos) \cup {p}
    BY <2>1, <2>2, AlFinal DEF ListosReales
  <2>4. sem'.cpus = sem.cpus
    BY <2>1, SemaforosTipo
  <2>5. Ingresados' = Ingresados
    BY <1>1, <2>1, <2>2, <2>3 DEF Ingresados
  <2>6. AInv'
    BY <1>1, <1>3, <2>4, <2>5 DEF AInv, Pendientes, SinEmpezar, Fichas, EnManos
  <2>7. Estado(p) = "bloqueado" /\ Estado(p)' = "listo"
    BY <2>2, <2>3 DEF Vidas
  <2>8. \A q \in Pids \ {p} : Estado(q)' = Estado(q)
    BY <1>1, <2>1, <2>3, EstadoIgual
  <2>9. Ciclo!Desbloquear(p)
    BY <1>4, <2>2, <2>7, <2>8, Mueve DEF Ciclo!Desbloquear
  <2> QED
    BY <2>2, <2>6, <2>9 DEF Ciclo!Next
<1> QED
  BY <1>5, <1>6

(* An instruction more: the CPU goes on with the PCB or gives it back, and  *)
(* in both the program is one further.                                      *)
LEMMA CicloInstruccion ==
  ASSUME IInv, IInv', AInv, Recorridos, Recorridos', Vidas, NEW c \in Cpus, SoloCpu,
         NEW accion \in {"continuar", "P13", "P16"}, Instruccion(c, accion),
         cpu[c].fase \in {"corre", "OK", "K23"},
         accion = "P13" <=> cpu[c].pc + 1 = Len(Guion[cpu[c].pid]),
         accion = "P16" => cpu[c].fase = "K23"
  PROVE  AInv' /\ Ciclo!Next
<1> SUFFICES ASSUME NEW p, p = cpu[c].pid, NEW n, n = cpu[c].pc PROVE AInv' /\ Ciclo!Next
  OBVIOUS
<1> USE DEF IInv
<1> DEFINE hechas == cpu[c].inst + 1
           cod == IF Algoritmo = "RR" /\ hechas = Quantum THEN "P12" ELSE accion
           FR == [fase : {"libre", "corre", "espera", "OK", "K23"},
                  pid : Pids \cup {Nadie}, pc : Nat, inst : Nat]
           MR == [cod : Mensajes, pid : Pids \cup {Nadie}, pc : Nat, sem : Sems \cup {Nadie}]
<1>1. /\ p \in Pids /\ p # Nadie /\ n \in Nat /\ c \in CpusDe(p)
      /\ cpu \in [Cpus -> FR] /\ bandeja \in [Cpus -> MR]
  <2>1. cpu \in [Cpus -> FR] /\ bandeja \in [Cpus -> MR] /\ p # Nadie
    BY DEF TypeOK, CpusEnFase
  <2> QED
    BY <2>1 DEF CpusDe
<1>2. bandeja[c].cod = "nada" /\ bandeja[c].pid = Nadie
  BY <1>1 DEF CpusEnFase, Mensajes
<1>3. n < Len(Guion[p]) /\ Len(Guion[p]) \in Nat
  <2>1. Guion[p] \in Seq(Instrucciones)
    BY <1>1, PlanificadorOK
  <2> QED
    BY <1>1, <2>1, LenProperties DEF AInv, EnMarcha
<1>4. \A d \in Cpus \ {c} : cpu'[d] = cpu[d] /\ bandeja'[d] = bandeja[d] /\ d \notin CpusDe(p)
  <2>1. \A d \in Cpus \ {c} : cpu'[d] = cpu[d] /\ bandeja'[d] = bandeja[d]
    BY <1>1 DEF Instruccion
  <2> QED
    BY <1>1, <2>1 DEF CpuUnica
<1>5. \/ /\ cod = "continuar" /\ bandeja' = bandeja
         /\ cpu'[c].fase = "corre" /\ cpu'[c].pid = p /\ cpu'[c].pc = n + 1
      \/ /\ cod # "continuar" /\ cpu'[c].pid = Nadie
         /\ bandeja'[c].cod = cod /\ bandeja'[c].pid = p /\ bandeja'[c].pc = n + 1
  BY <1>1 DEF Instruccion, Ocioso
<1>6. /\ cod = "P13" => n + 1 = Len(Guion[p])
      /\ cod \in {"continuar", "P16"} => n + 1 < Len(Guion[p])
  <2>1. accion # "P13" => n + 1 < Len(Guion[p])
    BY <1>1, <1>3
  <2> QED
    BY <2>1
<1> HIDE DEF cod
<1>7. EnMarcha'
  <2> SUFFICES ASSUME NEW d \in Cpus, cpu'[d].pid \in Pids
               PROVE  /\ cpu'[d].pc < Len(Guion[cpu'[d].pid])
                      /\ cpu'[d].fase # "corre" => cpu'[d].pc + 1 < Len(Guion[cpu'[d].pid])
    BY DEF EnMarcha
  <2>1. CASE d = c
    BY <1>5, <1>6, <2>1, NadieAparte
  <2>2. CASE d # c
    BY <1>4, <2>2 DEF AInv, EnMarcha
  <2> QED
    BY <2>1, <2>2
<1>8. Devueltos'
  <2>1. ASSUME NEW d \in Cpus
        PROVE  /\ bandeja'[d].cod = "P13" => bandeja'[d].pc = Len(Guion[bandeja'[d].pid])
               /\ bandeja'[d].cod = "P16" => bandeja'[d].pc < Len(Guion[bandeja'[d].pid])
    <3>1. CASE d = c
      BY <1>2, <1>5, <1>6, <3>1
    <3>2. CASE d # c
      BY <1>4, <3>2 DEF AInv, Devueltos
    <3> QED
      BY <3>1, <3>2
  <2> QED
    BY <2>1 DEF SoloCpu, AInv, Devueltos
<1>9. AInv'
  <2>1. Pendientes' /\ SinEmpezar' /\ Fichas'
    BY DEF SoloCpu, AInv, Pendientes, SinEmpezar, Fichas, EnManos, Ingresados
  <2> QED
    BY <1>7, <1>8, <2>1 DEF AInv
<1>10. Avance(p) = n /\ Avance(p)' = n + 1
  BY <1>1, <1>5 DEF Recorridos
<1>11. ASSUME NEW q \in Pids \ {p} PROVE Avance(q)' = Avance(q)
  <2>1. /\ \A d \in Cpus : cpu[d].pid = q => cpu'[d].pid = q /\ cpu'[d].pc = cpu[d].pc
        /\ \A d \in Cpus : bandeja[d].pid = q => bandeja'[d] = bandeja[d]
        /\ \A d \in Cpus : cpu'[d].pid = q \/ bandeja'[d].pid = q => d \in CpusDe(q)
    BY <1>2, <1>4, <1>5, NadieAparte DEF CpusDe
  <2> QED
    BY <2>1, AvanceIgual DEF SoloCpu
<1>12. \A q \in Pids : Estado(q)' = Estado(q)
  BY DEF Estado, SoloCpu
<1>13. Estado(p) = "ejecutando"
  BY <1>1 DEF CpuUnica, Vidas
<1>14. Ciclo!Avanzar(p)
  BY <1>1, <1>3, <1>10, <1>11, <1>12, <1>13, Adelanta
<1> QED
  BY <1>1, <1>9, <1>14 DEF Ciclo!Next

LEMMA CicloEjecutar ==
  ASSUME TerminaUnaVez, IInv, IInv', AInv, Vidas, Recorridos, Recorridos', NEW c \in Cpus,
         Ejecutar(c)
  PROVE  AInv' /\ (Ciclo!Next \/ UNCHANGED <<Estados, Avances>>)
<1> SUFFICES ASSUME NEW p, p = cpu[c].pid, NEW n, n = cpu[c].pc,
                    NEW i, i = Guion[p][n + 1]
             PROVE  AInv' /\ (Ciclo!Next \/ UNCHANGED <<Estados, Avances>>)
  OBVIOUS
<1> USE DEF IInv
<1>1. /\ cpu[c].fase = "corre" /\ n < Len(Guion[p]) /\ SoloCpu
  BY DEF Ejecutar, SoloCpu, listas
<1>2. p \in Pids /\ p # Nadie /\ n \in Nat /\ c \in CpusDe(p)
  <2>1. p \in Pids \cup {Nadie} /\ p # Nadie /\ n \in Nat
    BY <1>1 DEF TypeOK, CpusEnFase
  <2> QED
    BY <2>1 DEF CpusDe
<1>3. /\ Guion[p] \in Seq(Instrucciones) /\ Len(Guion[p]) \in Nat
      /\ DOMAIN Guion[p] = 1 .. Len(Guion[p]) /\ n + 1 \in DOMAIN Guion[p]
  <2>1. Guion[p] \in Seq(Instrucciones)
    BY <1>2, PlanificadorOK
  <2> QED
    BY <1>1, <1>2, <2>1, LenProperties
<1>4. i.op = "fin" <=> n + 1 = Len(Guion[p])
  BY <1>2, <1>3 DEF TerminaUnaVez
<1>5. i.op \in {"wait", "signal", "otra", "fin"}
  <2>1. i \in Instrucciones
    BY <1>3, ElementOfSeq
  <2> QED
    BY <2>1 DEF Instrucciones
<1>6. CASE i.op \in {"otra", "fin"}
  <2>1. \/ i.op = "otra" /\ Instruccion(c, "continuar")
        \/ i.op = "fin" /\ Instruccion(c, "P13")
    BY <1>5, <1>6 DEF Ejecutar
  <2> QED
    BY <1>1, <1>4, <2>1, CicloInstruccion
<1>7. CASE i.op \in {"wait", "signal"}
  <2>1. PICK m \in {"P14", "P15"} : Pedir(c, m, i.sem)
    BY <1>5, <1>7 DEF Ejecutar
  <2>2. /\ bandeja'[c].cod = m /\ bandeja'[c].pid = Nadie /\ bandeja[c].pid = Nadie
        /\ \A d \in Cpus \ {c} : bandeja'[d] = bandeja[d]
    <3>1. bandeja[c].cod = "nada" /\ bandeja[c].pid = Nadie
      BY <1>1 DEF CpusEnFase, TypeOK, Mensajes
    <3> QED
      BY <2>1, <3>1 DEF Pedir, TypeOK
  <2>3. /\ cpu'[c].pid = p /\ cpu'[c].pc = n
        /\ \A d \in Cpus \ {c} : cpu'[d] = cpu[d]
    <3>1. cpu' = [cpu EXCEPT ![c] = [cpu[c] EXCEPT !.fase = "espera"]]
      BY <2>1 DEF Pedir
    <3>2. /\ cpu \in [Cpus -> [fase : {"libre", "corre", "espera", "OK", "K23"},
                               pid : Pids \cup {Nadie}, pc : Nat, inst : Nat]]
          /\ cpu[c] \in [fase : {"libre", "corre", "espera", "OK", "K23"},
                         pid : Pids \cup {Nadie}, pc : Nat, inst : Nat]
      BY DEF TypeOK
    <3>3. /\ [cpu[c] EXCEPT !.fase = "espera"].pid = p
          /\ [cpu[c] EXCEPT !.fase = "espera"].pc = n
      BY <3>2
    <3> QED
      BY <3>1, <3>2, <3>3
  <2>4. EnMarcha'
    <3> SUFFICES ASSUME NEW d \in Cpus, cpu'[d].pid \in Pids
                 PROVE  /\ cpu'[d].pc < Len(Guion[cpu'[d].pid])
                        /\ cpu'[d].fase # "corre" => cpu'[d].pc + 1 < Len(Guion[cpu'[d].pid])
      BY DEF EnMarcha
    <3>1. CASE d = c
      BY <1>1, <1>2, <1>3, <1>4, <1>7, <2>3, <3>1
    <3>2. CASE d # c
      BY <2>3, <3>2 DEF AInv, EnMarcha
    <3> QED
      BY <3>1, <3>2
  <2>5. Devueltos'
    <3>1. ASSUME NEW d \in Cpus
          PROVE  /\ bandeja'[d].cod = "P13" => bandeja'[d].pc = Len(Guion[bandeja'[d].pid])
                 /\ bandeja'[d].cod = "P16" => bandeja'[d].pc < Len(Guion[bandeja'[d].pid])
      <4>1. CASE d = c
        BY <2>1, <2>2, <4>1
      <4>2. CASE d # c
        BY <2>2, <4>2 DEF AInv, Devueltos
      <4> QED
        BY <4>1, <4>2
    <3> QED
      BY <1>1, <3>1 DEF SoloCpu, AInv, Devueltos
  <2>6. AInv'
    <3>1. Pendientes' /\ SinEmpezar' /\ Fichas'
      BY <1>1 DEF SoloCpu, AInv, Pendientes, SinEmpezar, Fichas, EnManos, Ingresados
    <3> QED
      BY <2>4, <2>5, <3>1 DEF AInv
  <2>7. ASSUME NEW q \in Pids PROVE Avance(q)' = Avance(q)
    <3>1. /\ \A d \in Cpus : cpu[d].pid = q => cpu'[d].pid = q /\ cpu'[d].pc = cpu[d].pc
          /\ \A d \in Cpus : bandeja[d].pid = q => bandeja'[d] = bandeja[d]
          /\ \A d \in Cpus : cpu'[d].pid = q \/ bandeja'[d].pid = q => d \in CpusDe(q)
      BY <2>2, <2>3, NadieAparte DEF CpusDe
    <3> QED
      BY <1>1, <3>1, AvanceIgual DEF SoloCpu
  <2>8. \A q \in Pids : Estado(q)' = Estado(q)
    BY <1>1 DEF Estado, SoloCpu
  <2> QED
    BY <2>6, <2>7, <2>8, Quietos
<1> QED
  BY <1>5, <1>6, <1>7

LEMMA CicloRespuestaKernel ==
  ASSUME IInv, IInv', AInv, Vidas, Recorridos, Recorridos', NEW c \in Cpus, RespuestaKernel(c)
  PROVE  AInv' /\ Ciclo!Next
<1>1. SoloCpu
  BY DEF RespuestaKernel, SoloCpu, listas
<1>2. \/ cpu[c].fase = "OK" /\ Instruccion(c, "continuar")
      \/ cpu[c].fase = "K23" /\ Instruccion(c, "P16")
  BY DEF RespuestaKernel
<1>3. cpu[c].pc + 1 # Len(Guion[cpu[c].pid])
  <2>1. cpu[c].fase # "libre" /\ cpu[c].fase # "corre"
    BY <1>2
  <2>2. cpu[c].pid \in Pids /\ cpu[c].pc \in Nat
    BY <2>1 DEF IInv, TypeOK, CpusEnFase
  <2>3. cpu[c].pc + 1 < Len(Guion[cpu[c].pid])
    BY <2>1, <2>2 DEF AInv, EnMarcha
  <2>4. Guion[cpu[c].pid] \in Seq(Instrucciones)
    BY <2>2, PlanificadorOK
  <2> QED
    BY <2>2, <2>3, <2>4, LenProperties
<1> QED
  BY <1>1, <1>2, <1>3, CicloInstruccion

LEMMA CicloPaso ==
  ASSUME TerminaUnaVez, IsFiniteSet(Cpus), IInv, IInv', AInv, QuantumLimpio,
         Vidas, Vidas', Recorridos, Recorridos', [Next]_vars
  PROVE  AInv' /\ (Ciclo!Next \/ UNCHANGED <<Estados, Avances>>)
<1>1. CASE C01 \/ PedirMemoria \/ AgregarNuevaProg
  BY <1>1, CicloC01, CicloPedirMemoria, CicloAgregarNuevaProg
<1>2. CASE Despachar \/ AnotarDespacho
  BY <1>2, CicloDespachar, CicloAnotarDespacho
<1>3. CASE FinalizarQuantum \/ FinalizarProceso \/ BloquearProceso
  BY <1>3, CicloFinalizarQuantum, CicloFinalizarProceso, CicloBloquearProceso
<1>4. ASSUME NEW c \in Cpus, AgregarCpu(c) \/ P14(c) \/ P15(c)
      PROVE  AInv' /\ (Ciclo!Next \/ UNCHANGED <<Estados, Avances>>)
  BY <1>4, CicloAgregarCpu, CicloP14, CicloP15
<1>5. ASSUME NEW c \in Cpus, P12(c) \/ P13(c)
      PROVE  AInv' /\ UNCHANGED <<Estados, Avances>>
  BY <1>5, CicloDevuelvePcb DEF P12, P13
<1>6. ASSUME NEW c \in Cpus, Ejecutar(c) \/ RespuestaKernel(c)
      PROVE  AInv' /\ (Ciclo!Next \/ UNCHANGED <<Estados, Avances>>)
  BY <1>6, CicloEjecutar, CicloRespuestaKernel
<1>7. CASE UNCHANGED vars
  <2>1. AInv'
    BY <1>7 DEF vars, AInv, Pendientes, SinEmpezar, EnMarcha, Devueltos, Fichas, EnManos,
                Ingresados
  <2>2. \A q \in Pids : Estado(q)' = Estado(q)
    BY <1>7 DEF vars, Estado
  <2> QED
    BY <1>7, <2>1, <2>2, AvancesIguales, Quietos DEF vars
<1> QED
  BY <1>1, <1>2, <1>3, <1>4, <1>5, <1>6, <1>7 DEF Next

LEMMA CicloInicio == Init => Ciclo!Init
<1> SUFFICES ASSUME Init PROVE Ciclo!Init
  OBVIOUS
<1>1. IInv
  BY Inicio
<1>2. Vidas /\ Recorridos
  BY <1>1, VidasSiempre, RecorridosSiempre
<1>3. ASSUME NEW p \in Pids PROVE Estado(p) = "ausente" /\ Avance(p) = 0
  <2>1. p \notin Ingresados /\ CpusDe(p) = {} /\ pcb[p].pc = 0
    BY NadieAparte DEF Init, Ingresados, ToSet, CpusDe, Ocioso, Vacia, SinDespacho
  <2> QED
    BY <1>2, <2>1 DEF Vidas, Recorridos
<1>4. Estados = [p \in Pids |-> "ausente"] /\ Avances = [p \in Pids |-> 0]
  BY <1>3 DEF Estados, Avances
<1> QED
  BY <1>4 DEF Ciclo!Init, Estados, Avances

-----------------------------------------------------------------------------
(* Theorems *)

(* A PCB that is not on a CPU tells how far its program has got, and a CPU  *)
(* always has an instruction to run.                                        *)
THEOREM AvanceFiel ==
  ASSUME TerminaUnaVez, IsFiniteSet(Cpus)
  PROVE  Spec /\ []QuantumLimpio => []AInv
<1>1. IInv => Vidas /\ Recorridos
  BY VidasSiempre, RecorridosSiempre
<1>2. /\ IInv /\ IInv' /\ AInv /\ QuantumLimpio
      /\ Vidas /\ Recorridos /\ Vidas' /\ Recorridos' /\ [Next]_vars
      => AInv'
  BY CicloPaso
<1>3. Init => AInv
  BY AInicio
<1> QED
  BY <1>1, <1>2, <1>3, Invariante, PTL DEF Spec

(* The three threads of the Kernel and the CPUs run every program as        *)
(* CicloVida says, admission within the degree included.                    *)
THEOREM CicloCumplido ==
  ASSUME TerminaUnaVez, IsFiniteSet(Cpus)
  PROVE  Spec /\ []QuantumLimpio => ImplementaCiclo
<1>1. IInv => Vidas /\ Recorridos
  BY VidasSiempre, RecorridosSiempre
<1>2. /\ IInv /\ IInv' /\ AInv /\ QuantumLimpio
      /\ Vidas /\ Recorridos /\ Vidas' /\ Recorridos' /\ [Next]_vars
      => [Ciclo!Next]_<<Estados, Avances>>
  BY CicloPaso
<1>3. Init => Ciclo!Init
  BY CicloInicio
<1>4. Spec /\ []QuantumLimpio => Ciclo!Init /\ [][Ciclo!Next]_<<Estados, Avances>>
  BY <1>1, <1>2, <1>3, Invariante, AvanceFiel, PTL DEF Spec
<1> QED
  BY <1>4, PTL DEF ImplementaCiclo, Ciclo!Spec, Estados, Avances

(* A process that waits for a CPU has something left to run.                *)
THEOREM FinNoVuelve ==
  ASSUME TerminaUnaVez, IsFiniteSet(Cpus)
  PROVE  Spec /\ []QuantumLimpio => []FinEsFin
<1>1. IInv /\ AInv => FinEsFin
  <2> SUFFICES ASSUME IInv, AInv, NEW i \in DOMAIN listos
               PROVE  pcb[listos[i]].pc < Len(Guion[listos[i]])
    BY DEF FinEsFin
  <2>1. listos[i] \in ToSet(listos) /\ listos[i] \in Pids
    <3>1. listos[i] \in ToSet(listos)
      BY DEF ToSet
    <3> QED
      BY <3>1 DEF IInv, ListosReales
  <2>2. listos[i] \notin ejecutando \cup finalizados
    BY <2>1 DEF IInv, Sitios
  <2> QED
    BY <2>1, <2>2 DEF AInv, Pendientes
<1> QED
  BY <1>1, Invariante, AvanceFiel, PTL

-----------------------------------------------------------------------------
(* Without quanta *)

(* A CPU has not executed more than the program it runs has.                *)
SinQuantum == \A c \in Cpus : bandeja[c].cod # "P12" /\ cpu[c].inst <= cpu[c].pc

LEMMA InstruccionSinQuantum ==
  ASSUME QuantumLargo, IInv, SinQuantum, NEW c \in Cpus,
         NEW accion \in {"continuar", "P13", "P16"}, Instruccion(c, accion),
         cpu[c].fase # "libre", cpu[c].pc < Len(Guion[cpu[c].pid])
  PROVE  SinQuantum'
<1> DEFINE FR == [fase : {"libre", "corre", "espera", "OK", "K23"},
                  pid : Pids \cup {Nadie}, pc : Nat, inst : Nat]
           MR == [cod : Mensajes, pid : Pids \cup {Nadie}, pc : Nat, sem : Sems \cup {Nadie}]
<1>1. /\ cpu \in [Cpus -> FR] /\ bandeja \in [Cpus -> MR] /\ cpu[c].pid \in Pids
      /\ cpu[c].pc \in Nat /\ cpu[c].inst \in Nat
  <2>1. cpu \in [Cpus -> FR] /\ bandeja \in [Cpus -> MR] /\ cpu[c].pid # Nadie
    BY DEF IInv, TypeOK, CpusEnFase
  <2> QED
    BY <2>1
<1>2. ~ (Algoritmo = "RR" /\ cpu[c].inst + 1 = Quantum)
  <2>1. CASE Algoritmo = "FF"
    BY <2>1
  <2>2. CASE \A p \in Pids : Len(Guion[p]) < Quantum
    <3>1. Len(Guion[cpu[c].pid]) \in Nat /\ Quantum \in Nat
      BY <1>1, PlanificadorOK, LenProperties
    <3>2. cpu[c].inst <= cpu[c].pc /\ Len(Guion[cpu[c].pid]) < Quantum
      BY <1>1, <2>2 DEF SinQuantum
    <3> QED
      BY <1>1, <3>1, <3>2
  <2> QED
    BY <2>1, <2>2 DEF QuantumLargo
<1>3. /\ \A d \in Cpus \ {c} : cpu'[d] = cpu[d] /\ bandeja'[d] = bandeja[d]
      /\ bandeja'[c].cod # "P12"
  <2>1. bandeja[c].cod # "P12"
    BY DEF SinQuantum
  <2> QED
    BY <1>1, <1>2, <2>1 DEF Instruccion
<1>4. cpu'[c].inst <= cpu'[c].pc
  <2>1. cpu[c].inst <= cpu[c].pc
    BY DEF SinQuantum
  <2>2. \/ cpu'[c].inst = cpu[c].inst + 1 /\ cpu'[c].pc = cpu[c].pc + 1
        \/ cpu'[c].inst = 0 /\ cpu'[c].pc = 0
    BY <1>1, <1>2 DEF Instruccion, Ocioso
  <2> QED
    BY <1>1, <2>1, <2>2
<1> QED
  BY <1>3, <1>4 DEF SinQuantum

LEMMA SinQuantumPaso ==
  ASSUME QuantumLargo, IInv, AInv, SinQuantum, [Next]_vars
  PROVE  SinQuantum'
<1> DEFINE FR == [fase : {"libre", "corre", "espera", "OK", "K23"},
                  pid : Pids \cup {Nadie}, pc : Nat, inst : Nat]
           MR == [cod : Mensajes, pid : Pids \cup {Nadie}, pc : Nat, sem : Sems \cup {Nadie}]
<1>1. cpu \in [Cpus -> FR] /\ bandeja \in [Cpus -> MR]
  BY DEF IInv, TypeOK
<1>2. ASSUME /\ \A d \in Cpus : bandeja'[d] = bandeja[d] \/ bandeja'[d].cod # "P12"
             /\ \A d \in Cpus : \/ cpu'[d].inst = cpu[d].inst /\ cpu'[d].pc = cpu[d].pc
                                \/ cpu'[d].inst = 0 /\ cpu'[d].pc \in Nat
      PROVE  SinQuantum'
  BY <1>2 DEF SinQuantum
<1>3. CASE UNCHANGED <<cpu, bandeja>>
  BY <1>2, <1>3
<1>4. CASE Despachar
  <2>1. bandeja' = bandeja
    BY <1>4 DEF Despachar
  <2>2. \A d \in Cpus : cpu'[d] = cpu[d] \/ (cpu'[d].inst = 0 /\ cpu'[d].pc \in Nat)
    <3>1. CASE cpu' = cpu
      BY <3>1
    <3>2. CASE cpu' # cpu
      <4>1. /\ listos # <<>>
            /\ cpu' = [cpu EXCEPT ![CpuLibre] = [fase |-> "corre", pid |-> pcb[Head(listos)].pid,
                                                 pc |-> pcb[Head(listos)].pc, inst |-> 0]]
        BY <1>4, <3>2 DEF Despachar
      <4>2. Head(listos) \in Pids
        <5>1. listos \in Seq(Pids)
          BY DEF IInv, ListosReales
        <5> QED
          BY <4>1, <5>1, HeadTailProperties
      <4>3. pcb[Head(listos)].pc \in Nat
        BY <4>2 DEF IInv, TypeOK
      <4> QED
        BY <1>1, <4>1, <4>3
    <3> QED
      BY <3>1, <3>2
  <2> QED
    BY <1>2, <2>1, <2>2
<1>5. ASSUME NEW c \in Cpus, Leido(c),
             \A d \in Cpus : cpu'[d].inst = cpu[d].inst /\ cpu'[d].pc = cpu[d].pc
      PROVE  SinQuantum'
  BY <1>1, <1>2, <1>5 DEF Leido, Vacia
<1>6. CASE BloquearProceso
  <2>1. hiloM.cpu \in Cpus /\ Leido(hiloM.cpu) /\ cpu' = cpu
    BY <1>6 DEF BloquearProceso, IInv, HiloMBien, CpusDe
  <2> QED
    BY <1>5, <2>1
<1>7. ASSUME NEW c \in Cpus, P12(c) \/ P13(c) \/ P14(c) \/ P15(c) PROVE SinQuantum'
  <2>1. Leido(c) /\ \A d \in Cpus : cpu'[d].inst = cpu[d].inst /\ cpu'[d].pc = cpu[d].pc
    <3>1. CASE P12(c) \/ P13(c)
      BY <3>1 DEF P12, P13, DevuelvePcb
    <3>2. CASE P14(c)
      <4>1. Leido(c) /\ \E f : cpu' = [cpu EXCEPT ![c].fase = f]
        BY <3>2 DEF P14
      <4> QED
        BY <1>1, <4>1
    <3>3. CASE P15(c)
      <4>1. Leido(c) /\ cpu' = [cpu EXCEPT ![c].fase = "OK"]
        BY <3>3 DEF P15
      <4> QED
        BY <1>1, <4>1
    <3> QED
      BY <1>7, <3>1, <3>2, <3>3
  <2> QED
    BY <1>5, <2>1
<1>8. ASSUME NEW c \in Cpus, Ejecutar(c) PROVE SinQuantum'
  <2>1. CASE \E cod \in {"P14", "P15"} : \E s : Pedir(c, cod, s)
    BY <1>1, <1>2, <2>1 DEF Pedir
  <2>2. CASE \E accion \in {"continuar", "P13", "P16"} : Instruccion(c, accion)
    BY <1>8, <2>2, InstruccionSinQuantum DEF Ejecutar
  <2>3. \/ \E cod \in {"P14", "P15"} : \E s : Pedir(c, cod, s)
        \/ \E accion \in {"continuar", "P13", "P16"} : Instruccion(c, accion)
    <3>1. Guion[cpu[c].pid][cpu[c].pc + 1].op \in {"wait", "signal", "otra", "fin"}
      <4>1. cpu[c].pid \in Pids /\ cpu[c].pc \in Nat
        BY <1>1, <1>8 DEF Ejecutar, IInv, CpusEnFase
      <4>2. Guion[cpu[c].pid] \in Seq(Instrucciones)
        BY <4>1, PlanificadorOK
      <4>3. Guion[cpu[c].pid][cpu[c].pc + 1] \in Instrucciones
        BY <1>8, <4>1, <4>2, ElementOfSeq, LenProperties DEF Ejecutar
      <4> QED
        BY <4>3 DEF Instrucciones
    <3> QED
      BY <1>8, <3>1 DEF Ejecutar
  <2> QED
    BY <2>1, <2>2, <2>3
<1>9. ASSUME NEW c \in Cpus, RespuestaKernel(c) PROVE SinQuantum'
  <2>1. cpu[c].fase \in {"OK", "K23"} /\ cpu[c].pid \in Pids
    BY <1>1, <1>9 DEF RespuestaKernel, IInv, CpusEnFase
  <2>2. cpu[c].pc < Len(Guion[cpu[c].pid])
    BY <2>1 DEF AInv, EnMarcha
  <2>3. \E accion \in {"continuar", "P13", "P16"} : Instruccion(c, accion)
    BY <1>9 DEF RespuestaKernel
  <2> QED
    BY <2>1, <2>2, <2>3, InstruccionSinQuantum
<1>10. CASE \/ C01 \/ PedirMemoria \/ AgregarNuevaProg \/ AnotarDespacho
            \/ FinalizarQuantum \/ FinalizarProceso \/ \E c \in Cpus : AgregarCpu(c)
  BY <1>3, <1>10 DEF C01, PedirMemoria, AgregarNuevaProg, AnotarDespacho, FinalizarQuantum,
                     FinalizarProceso, AgregarCpu
<1>11. CASE UNCHANGED vars
  BY <1>3, <1>11 DEF vars
<1> QED
  BY <1>4, <1>6, <1>7, <1>8, <1>9, <1>10, <1>11 DEF Next

LEMMA LimpioSinQuantum ==
  ASSUME TerminaUnaVez, IsFiniteSet(Cpus), QuantumLargo
  PROVE  Spec => []QuantumLimpio
<1>1. Init => AInv /\ SinQuantum
  BY AInicio DEF Init, SinQuantum, Ocioso, Vacia
<1>2. IInv => Vidas /\ Recorridos
  BY VidasSiempre, RecorridosSiempre
<1>3. SinQuantum => QuantumLimpio
  BY DEF SinQuantum, QuantumLimpio
<1>4. /\ IInv /\ IInv' /\ AInv /\ SinQuantum
      /\ Vidas /\ Recorridos /\ Vidas' /\ Recorridos' /\ [Next]_vars
      => AInv' /\ SinQuantum'
  BY <1>3, CicloPaso, SinQuantumPaso
<1> QED
  BY <1>1, <1>2, <1>3, <1>4, Invariante, PTL DEF Spec

(* First Come First Served: nothing has to be assumed of an execution.      *)
THEOREM CicloCumplidoSinQuantum ==
  ASSUME TerminaUnaVez, IsFiniteSet(Cpus), QuantumLargo
  PROVE  Spec => ImplementaCiclo
BY LimpioSinQuantum, CicloCumplido, PTL

-----------------------------------------------------------------------------
(* Mutual exclusion                                                         *)
(*                                                                          *)
(* ExclusionMutua is about what programs have done; a semaphore only has a  *)
(* number and a queue.  The invariant relates them: the value is what is    *)
(* left of one after the waits it counts and no signal has undone, those of *)
(* the blocked included, and what is not of the blocked is at most one.     *)

(* The instructions op on s among the first n of p, and by how much its     *)
(* waits exceed its signals there.                                          *)
Veces(p, s, op, n) == {i \in 1 .. n : Guion[p][i] = [op |-> op, sem |-> s]}
Saldo(p, s, n) == Cardinality(Veces(p, s, "wait", n)) - Cardinality(Veces(p, s, "signal", n))

(* No program signals a semaphore that starts at one more often than it has *)
(* waited for it.                                                           *)
SinSenalesDeMas ==
  \A s \in Sems : SemInit[s] = 1 =>
    \A p \in Pids : \A n \in 0 .. Len(Guion[p]) : Saldo(p, s, n) >= 0

LEMMA VecesFinitas ==
  ASSUME NEW p, NEW s, NEW op, NEW n \in Nat
  PROVE  IsFiniteSet(Veces(p, s, op, n)) /\ Cardinality(Veces(p, s, op, n)) \in Nat
<1>1. IsFiniteSet(1 .. n) /\ Veces(p, s, op, n) \in SUBSET (1 .. n)
  BY FS_Interval DEF Veces
<1> QED
  BY <1>1, FS_Subset, FS_CardinalityType

LEMMA SaldoSigue ==
  ASSUME NEW p, NEW s, NEW n \in Nat
  PROVE  /\ Saldo(p, s, n) \in Int
         /\ Saldo(p, s, n + 1) = Saldo(p, s, n)
              + (IF Guion[p][n + 1] = [op |-> "wait", sem |-> s] THEN 1 ELSE 0)
              - (IF Guion[p][n + 1] = [op |-> "signal", sem |-> s] THEN 1 ELSE 0)
<1>1. ASSUME NEW op
      PROVE  /\ Cardinality(Veces(p, s, op, n)) \in Nat
             /\ Cardinality(Veces(p, s, op, n + 1)) = Cardinality(Veces(p, s, op, n))
                  + (IF Guion[p][n + 1] = [op |-> op, sem |-> s] THEN 1 ELSE 0)
  <2>1. IsFiniteSet(Veces(p, s, op, n)) /\ Cardinality(Veces(p, s, op, n)) \in Nat
    BY VecesFinitas
  <2>2. CASE Guion[p][n + 1] = [op |-> op, sem |-> s]
    <3>1. Veces(p, s, op, n + 1) = Veces(p, s, op, n) \cup {n + 1}
      BY <2>2 DEF Veces
    <3>2. n + 1 \notin Veces(p, s, op, n)
      BY DEF Veces
    <3> QED
      BY <2>1, <2>2, <3>1, <3>2, FS_AddElement
  <2>3. CASE Guion[p][n + 1] # [op |-> op, sem |-> s]
    <3>1. Veces(p, s, op, n + 1) = Veces(p, s, op, n)
      BY <2>3 DEF Veces
    <3> QED
      BY <2>1, <2>3, <3>1
  <2> QED
    BY <2>2, <2>3, <2>1
<1>2. PICK a \in Nat : a = Cardinality(Veces(p, s, "wait", n))
  BY <1>1
<1>3. PICK b \in Nat : b = Cardinality(Veces(p, s, "signal", n))
  BY <1>1
<1>4. Saldo(p, s, n) = a - b
  BY <1>2, <1>3 DEF Saldo
<1>5. Saldo(p, s, n + 1) = (a + (IF Guion[p][n + 1] = [op |-> "wait", sem |-> s] THEN 1 ELSE 0))
                           - (b + (IF Guion[p][n + 1] = [op |-> "signal", sem |-> s] THEN 1 ELSE 0))
  BY <1>1, <1>2, <1>3 DEF Saldo
<1> QED
  BY <1>4, <1>5

(* What the instruction does to the balance.                                *)
LEMMA SaldoInstruccion ==
  ASSUME NEW p, NEW s, NEW n \in Nat, NEW i, i = Guion[p][n + 1]
  PROVE  /\ Saldo(p, s, n) \in Int
         /\ i = [op |-> "wait", sem |-> s] => Saldo(p, s, n + 1) = Saldo(p, s, n) + 1
         /\ i = [op |-> "signal", sem |-> s] => Saldo(p, s, n + 1) = Saldo(p, s, n) - 1
         /\ i # [op |-> "wait", sem |-> s] /\ i # [op |-> "signal", sem |-> s] =>
              Saldo(p, s, n + 1) = Saldo(p, s, n)
<1>1. [op |-> "wait", sem |-> s] # [op |-> "signal", sem |-> s]
  <2>1. [op |-> "wait", sem |-> s].op # [op |-> "signal", sem |-> s].op
    OBVIOUS
  <2> QED
    BY <2>1
<1>2. PICK a \in Int : a = Saldo(p, s, n)
  BY SaldoSigue
<1> QED
  BY <1>1, <1>2, SaldoSigue

(* One token for each of the f[p] that p has.                               *)
Prendas(f) == {x \in Pids \X (Nat \ {0}) : x[2] <= f[x[1]]}

LEMMA PrendasFinitas ==
  ASSUME NEW f \in [Pids -> Int]
  PROVE  IsFiniteSet(Prendas(f)) /\ Cardinality(Prendas(f)) \in Nat
<1> DEFINE De(n) == {x \in Prendas(f) : x[1] <= n}
           S == {n \in Nat : IsFiniteSet(De(n))}
<1> HIDE DEF De
<1>1. 0 \in S
  <2>1. De(0) = {}
    BY NadieAparte DEF Prendas, De
  <2> QED
    BY <2>1, FS_EmptySet
<1>2. ASSUME NEW n \in Nat, n \in S PROVE n + 1 \in S
  <2>1. IsFiniteSet(De(n))
    BY <1>2
  <2>2. CASE n + 1 \in Pids
    <3> DEFINE T == {n + 1} \X (1 .. f[n + 1])
    <3>1. IsFiniteSet(T)
      <4>1. IsFiniteSet({n + 1}) /\ IsFiniteSet(1 .. f[n + 1])
        <5>1. f[n + 1] \in Int
          BY <2>2
        <5>2. \A b \in Int : IsFiniteSet(1 .. b)
          BY FS_Interval
        <5> QED
          BY <5>1, <5>2, FS_Singleton
      <4> QED
        BY <4>1, FS_Product
    <3>2. De(n + 1) \subseteq De(n) \cup T
      BY <2>2, NadieAparte DEF Prendas, De
    <3>3. IsFiniteSet(De(n) \cup T)
      BY <2>1, <3>1, FS_Union
    <3>4. IsFiniteSet(De(n + 1))
      BY <3>2, <3>3, FS_Subset
    <3> QED
      BY <3>4
  <2>3. CASE n + 1 \notin Pids
    <3>1. De(n + 1) = De(n)
      BY <2>3, NadieAparte DEF Prendas, De
    <3> QED
      BY <2>1, <3>1
  <2> QED
    BY <2>2, <2>3
<1> HIDE DEF S
<1>3. Cardinality(Pids) \in S
  BY <1>1, <1>2, NadieAparte, Induccion
<1>4. Prendas(f) = De(Cardinality(Pids))
  BY NadieAparte DEF Prendas, De
<1>5. IsFiniteSet(Prendas(f))
  BY <1>3, <1>4 DEF S
<1> QED
  BY <1>5, FS_CardinalityType

LEMMA PrendaMas ==
  ASSUME NEW f \in [Pids -> Int], NEW g \in [Pids -> Int], NEW p \in Pids,
         f[p] >= 0, g[p] = f[p] + 1, \A q \in Pids \ {p} : g[q] = f[q]
  PROVE  Cardinality(Prendas(g)) = Cardinality(Prendas(f)) + 1
<1>1. Prendas(g) = Prendas(f) \cup {<<p, f[p] + 1>>}
  BY DEF Prendas
<1>2. <<p, f[p] + 1>> \notin Prendas(f)
  BY DEF Prendas
<1> QED
  BY <1>1, <1>2, PrendasFinitas, FS_AddElement

LEMMA PrendasDeMenos ==
  ASSUME NEW f \in [Pids -> Int], NEW g \in [Pids -> Int], \A q \in Pids : f[q] <= g[q]
  PROVE  Cardinality(Prendas(f)) <= Cardinality(Prendas(g))
<1>1. Prendas(f) \in SUBSET Prendas(g)
  BY DEF Prendas
<1> QED
  BY <1>1, PrendasFinitas, FS_Subset

(* The instructions of a process that the Kernel has answered.              *)
Contestada(p) == IF \E c \in Cpus : cpu[c].pid = p /\ cpu[c].fase = "OK" THEN 1 ELSE 0
Hechas(p) == Avance(p) + Contestada(p)

(* Hechas, by where the PCB is. *)
Cumplidos ==
  \A p \in Pids :
    /\ \A c \in Cpus : cpu[c].pid = p =>
         Hechas(p) = cpu[c].pc + (IF cpu[c].fase = "OK" THEN 1 ELSE 0)
    /\ \A c \in Cpus : bandeja[c].pid = p => Hechas(p) = bandeja[c].pc
    /\ CpusDe(p) = {} => Hechas(p) = pcb[p].pc
    /\ Hechas(p) \in Nat

LEMMA CumplidosSiempre == IInv => Cumplidos
<1> SUFFICES ASSUME IInv, NEW p \in Pids
             PROVE  /\ \A c \in Cpus : cpu[c].pid = p =>
                         Hechas(p) = cpu[c].pc + (IF cpu[c].fase = "OK" THEN 1 ELSE 0)
                    /\ \A c \in Cpus : bandeja[c].pid = p => Hechas(p) = bandeja[c].pc
                    /\ CpusDe(p) = {} => Hechas(p) = pcb[p].pc
                    /\ Hechas(p) \in Nat
  BY DEF Cumplidos
<1> USE DEF IInv
<1>1. Recorridos
  BY RecorridosSiempre
<1>2. /\ \A c \in Cpus : cpu[c].pc \in Nat /\ bandeja[c].pc \in Nat
      /\ pcb[p].pc \in Nat
  BY DEF TypeOK
<1>3. ASSUME NEW c \in Cpus, cpu[c].pid = p
      PROVE  Contestada(p) = IF cpu[c].fase = "OK" THEN 1 ELSE 0
  <2>1. \A d \in Cpus : cpu[d].pid = p => d = c
    BY <1>3 DEF CpuUnica, CpusDe
  <2> QED
    BY <1>3, <2>1 DEF Contestada
<1>4. ASSUME NEW c \in Cpus, bandeja[c].pid = p PROVE Contestada(p) = 0
  <2>1. \A d \in Cpus : cpu[d].pid = p => d = c
    BY <1>4 DEF CpuUnica, CpusDe
  <2>2. bandeja[c].cod \in {"P12", "P13", "P16"}
    BY <1>4, NadieAparte DEF CpusEnFase, TypeOK, Mensajes
  <2>3. cpu[c].fase = "libre"
    BY <2>2 DEF CpusEnFase
  <2> QED
    BY <2>1, <2>3 DEF Contestada
<1>5. CpusDe(p) = {} => Contestada(p) = 0
  BY DEF Contestada, CpusDe
<1>6. \A c \in Cpus : cpu[c].pid = p =>
        Hechas(p) = cpu[c].pc + (IF cpu[c].fase = "OK" THEN 1 ELSE 0)
  BY <1>1, <1>3 DEF Hechas, Recorridos
<1>7. \A c \in Cpus : bandeja[c].pid = p => Hechas(p) = bandeja[c].pc
  BY <1>1, <1>2, <1>4 DEF Hechas, Recorridos
<1>8. CpusDe(p) = {} => Hechas(p) = pcb[p].pc
  BY <1>1, <1>2, <1>5 DEF Hechas, Recorridos
<1>9. Hechas(p) \in Nat
  BY <1>2, <1>6, <1>7, <1>8 DEF CpusDe
<1> QED
  BY <1>6, <1>7, <1>8, <1>9

(* A process whose PCB no one touches has done what it had.                 *)
LEMMA HechasIgual ==
  ASSUME Cumplidos, Cumplidos', NEW q \in Pids,
         \A c \in Cpus : cpu[c].pid = q =>
           cpu'[c].pid = q /\ cpu'[c].pc = cpu[c].pc /\ (cpu'[c].fase = "OK" <=> cpu[c].fase = "OK"),
         \A c \in Cpus : bandeja[c].pid = q => bandeja'[c] = bandeja[c],
         \A c \in Cpus : cpu'[c].pid = q \/ bandeja'[c].pid = q => c \in CpusDe(q),
         CpusDe(q) = {} => pcb'[q].pc = pcb[q].pc
  PROVE  Hechas(q)' = Hechas(q)
<1>1. CASE CpusDe(q) = {}
  <2>1. CpusDe(q)' = {}
    BY <1>1 DEF CpusDe
  <2> QED
    BY <1>1, <2>1 DEF Cumplidos
<1>2. ASSUME NEW c \in Cpus, cpu[c].pid = q PROVE Hechas(q)' = Hechas(q)
  BY <1>2 DEF Cumplidos
<1>3. ASSUME NEW c \in Cpus, bandeja[c].pid = q PROVE Hechas(q)' = Hechas(q)
  BY <1>3 DEF Cumplidos
<1> QED
  BY <1>1, <1>2, <1>3 DEF CpusDe

(* A process that blocks has run its wait, and the value of the semaphore   *)
(* has not changed yet; then its PCB stands right after that wait.          *)
PorBloquear(p, s) ==
  hiloM.pc = "K23" /\ hiloM.pid = p /\ hiloM.sem = s /\ bandeja[hiloM.cpu].pid = p
BloqueadoEn(p, s) ==
  /\ p \in bloqueados /\ pcb[p].pc \in DOMAIN Guion[p]
  /\ Guion[p][pcb[p].pc] = [op |-> "wait", sem |-> s]

(* Its waits on s that the value counts and no signal has undone; and those *)
(* it is not blocked in.                                                    *)
Contado(p, s) == Saldo(p, s, Hechas(p)) - (IF PorBloquear(p, s) THEN 1 ELSE 0)
Contados(s) == [p \in Pids |-> Contado(p, s)]
Pasados(s) == [p \in Pids |-> Contado(p, s) - (IF BloqueadoEn(p, s) THEN 1 ELSE 0)]

(* What is asked of the Kernel is what the program says. *)
PideBien(c) ==
  /\ bandeja[c].cod = "P14" =>
       Guion[cpu[c].pid][cpu[c].pc + 1] = [op |-> "wait", sem |-> bandeja[c].sem]
  /\ bandeja[c].cod = "P15" =>
       Guion[cpu[c].pid][cpu[c].pc + 1] = [op |-> "signal", sem |-> bandeja[c].sem]
K23Bien ==
  hiloM.pc = "K23" =>
    /\ cpu[hiloM.cpu].pid = hiloM.pid =>
         Guion[hiloM.pid][cpu[hiloM.cpu].pc + 1] = [op |-> "wait", sem |-> hiloM.sem]
    /\ bandeja[hiloM.cpu].pid = hiloM.pid =>
         /\ bandeja[hiloM.cpu].pc > 0
         /\ Guion[hiloM.pid][bandeja[hiloM.cpu].pc] = [op |-> "wait", sem |-> hiloM.sem]
Pedidos == (\A c \in Cpus : PideBien(c)) /\ K23Bien

(* A queue holds processes blocked on its semaphore, once each. *)
EnCola ==
  \A s \in Sems : IsInjective(cola[s]) /\ \A p \in ToSet(cola[s]) : BloqueadoEn(p, s)

HechasBien == \A p \in Pids : Hechas(p) <= Len(Guion[p])

(* The value is what is left after the waits, and no more than it was at    *)
(* the start are inside.                                                    *)
ValorBien(s) ==
  SemInit[s] = 1 =>
    /\ valor[s] + Cardinality(Prendas(Contados(s))) = 1
    /\ Cardinality(Prendas(Pasados(s))) <= 1
Valores == \A s \in Sems : ValorBien(s)

ExclusionInv == Pedidos /\ EnCola /\ HechasBien /\ Valores

Enteros ==
  \A s \in Sems :
    /\ Contados(s) \in [Pids -> Int] /\ Pasados(s) \in [Pids -> Int]
    /\ \A p \in Pids : /\ Contado(p, s) \in Int
                       /\ Contados(s)[p] = Contado(p, s)
                       /\ Pasados(s)[p] = Contado(p, s) - (IF BloqueadoEn(p, s) THEN 1 ELSE 0)

LEMMA FuncionesEnteras == /\ Cumplidos => Enteros
                          /\ Cumplidos' => Enteros'
<1>1. ASSUME Cumplidos, NEW s
      PROVE  /\ Contados(s) \in [Pids -> Int] /\ Pasados(s) \in [Pids -> Int]
             /\ \A p \in Pids : /\ Contado(p, s) \in Int
                                /\ Contados(s)[p] = Contado(p, s)
                                /\ Pasados(s)[p] = Contado(p, s)
                                     - (IF BloqueadoEn(p, s) THEN 1 ELSE 0)
  <2>1. \A p \in Pids : Saldo(p, s, Hechas(p)) \in Int
    BY <1>1, SaldoSigue DEF Cumplidos
  <2>2. \A p \in Pids : Contado(p, s) \in Int
    BY <2>1 DEF Contado
  <2> QED
    BY <2>1, <2>2 DEF Contados, Pasados
<1>2. Cumplidos => Enteros
  BY <1>1 DEF Enteros
<1> QED
  BY <1>2, PTL

(* A semaphore that the step does not touch.                                *)
ValorQuieto(s) ==
  /\ valor'[s] = valor[s]
  /\ \A p \in Pids : /\ Contado(p, s)' = Contado(p, s)
                     /\ BloqueadoEn(p, s)' <=> BloqueadoEn(p, s)

LEMMA ValorIgual ==
  ASSUME NEW s, ValorBien(s), ValorQuieto(s)
  PROVE  ValorBien(s)'
<1>1. Contados(s)' = Contados(s) /\ Pasados(s)' = Pasados(s)
  BY DEF ValorQuieto, Contados, Pasados
<1> QED
  BY <1>1 DEF ValorBien, ValorQuieto, Prendas

LEMMA ContadoIgual ==
  ASSUME NEW p, NEW s, Hechas(p)' = Hechas(p), PorBloquear(p, s)' <=> PorBloquear(p, s)
  PROVE  Contado(p, s)' = Contado(p, s)
BY DEF Contado, Saldo, Veces

(* A step of one CPU, or of hiloM with it.                                  *)
LEMMA PedidosDeOtros ==
  ASSUME Pedidos, NEW c \in Cpus, PideBien(c)', K23Bien',
         \A d \in Cpus \ {c} : cpu'[d].pid = cpu[d].pid /\ cpu'[d].pc = cpu[d].pc
                               /\ bandeja'[d] = bandeja[d]
  PROVE  Pedidos'
<1>1. ASSUME NEW d \in Cpus PROVE PideBien(d)'
  <2>1. CASE d = c
    BY <2>1
  <2>2. CASE d # c
    BY <2>2 DEF Pedidos, PideBien
  <2> QED
    BY <2>1, <2>2
<1> QED
  BY <1>1 DEF Pedidos

-----------------------------------------------------------------------------
(* Its steps *)

(* Queues only shrink, and no wait or signal is answered.                   *)
Quieta ==
  /\ valor' = valor /\ bloqueados' = bloqueados
  /\ \A p \in bloqueados : pcb'[p] = pcb[p]
  /\ \A s \in Sems : IsInjective(cola'[s]) /\ ToSet(cola'[s]) \subseteq ToSet(cola[s])
  /\ \A p \in Pids : \A s \in Sems : Contado(p, s)' = Contado(p, s)

LEMMA ExclusionQuieta ==
  ASSUME ExclusionInv, Quieta, HechasBien', Pedidos'
  PROVE  ExclusionInv'
<1>1. \A p : \A s \in Sems : BloqueadoEn(p, s)' <=> BloqueadoEn(p, s)
  BY DEF Quieta, BloqueadoEn
<1>2. EnCola'
  BY <1>1 DEF EnCola, ExclusionInv, Quieta
<1>3. Valores'
  BY <1>1, ValorIgual DEF ExclusionInv, Quieta, Valores, ValorQuieto
<1> QED
  BY <1>2, <1>3 DEF ExclusionInv

(* The same when neither a CPU nor a PCB is touched.                        *)
LEMMA ExclusionIgual ==
  ASSUME IInv, ExclusionInv, UNCHANGED <<cpu, bandeja, pcb, bloqueados, valor>>,
         hiloM' = hiloM \/ (hiloM.pc # "K23" /\ hiloM'.pc # "K23"),
         \A s \in Sems : IsInjective(cola'[s]) /\ ToSet(cola'[s]) \subseteq ToSet(cola[s])
  PROVE  ExclusionInv'
<1>1. \A p \in Pids : Hechas(p)' = Hechas(p)
  <2>1. \A p \in Pids : Avance(p)' = Avance(p)
    BY AvancesIguales
  <2>2. \A p \in Pids : Contestada(p)' = Contestada(p)
    BY DEF Contestada
  <2> QED
    BY <2>1, <2>2 DEF Hechas
<1>2. \A p \in Pids : \A s \in Sems : PorBloquear(p, s)' <=> PorBloquear(p, s)
  BY DEF PorBloquear
<1>3. Quieta
  BY <1>1, <1>2, ContadoIgual DEF Quieta
<1>4. HechasBien'
  BY <1>1 DEF HechasBien, ExclusionInv
<1>5. Pedidos'
  BY DEF Pedidos, ExclusionInv, PideBien, K23Bien
<1> QED
  BY <1>3, <1>4, <1>5, ExclusionQuieta

(* The end of a process takes waiters out of the queues, and puts none in.  *)
LEMMA EliminarSaca ==
  ASSUME NEW q \in Seq(Pids), IsInjective(q)
  PROVE  IsInjective(EliminarProceso(q)) /\ ToSet(EliminarProceso(q)) \subseteq ToSet(q)
<1>1. CASE Len(q) <= 1
  BY <1>1, EliminarTipo
<1>2. CASE ~(Len(q) <= 1)
  <2> DEFINE n == Len(q)
             b == SubSeq(q, 1, n - 2)
             r == <<Last(q)>> \o b
  <2>1. n \in Nat /\ n >= 2 /\ \A i \in 1 .. n : q[i] \in Pids
    BY <1>2, LenProperties
  <2>2. b \in Seq(Pids) /\ Len(b) = n - 2 /\ \A i \in 1 .. n - 2 : b[i] = q[i]
    <3>1. PICK k \in Nat : k = n - 2
      BY <2>1
    <3>2. k <= Len(q)
      BY <2>1, <3>1
    <3>3. /\ SubSeq(q, 1, k) \in Seq(Pids) /\ Len(SubSeq(q, 1, k)) = k
          /\ \A i \in 1 .. k : SubSeq(q, 1, k)[i] = q[i]
      BY <2>1, <3>1, <3>2
    <3> QED
      BY <3>1, <3>3
  <2>3. <<Last(q)>> \in Seq(Pids) /\ Len(<<Last(q)>>) = 1 /\ <<Last(q)>>[1] = q[n]
    BY <2>1 DEF Last
  <2>4. /\ r \in Seq(Pids) /\ Len(r) = n - 1 /\ r[1] = q[n]
        /\ \A i \in 2 .. n - 1 : r[i] = q[i - 1]
    <3> HIDE DEF b
    <3>1. r \in Seq(Pids) /\ Len(r) = 1 + (n - 2)
      BY <2>2, <2>3, ConcatProperties
    <3>2. \A i \in 1 .. 1 + (n - 2) : r[i] = IF i <= 1 THEN <<Last(q)>>[i] ELSE b[i - 1]
      <4>1. \A i \in 1 .. Len(<<Last(q)>>) + Len(b) :
              r[i] = IF i <= Len(<<Last(q)>>) THEN <<Last(q)>>[i] ELSE b[i - Len(<<Last(q)>>)]
        BY <2>2, <2>3, ConcatProperties
      <4> QED
        BY <2>2, <2>3, <4>1
    <3>3. \A i \in 2 .. n - 1 : r[i] = b[i - 1] /\ i - 1 \in 1 .. n - 2
      <4>1. \A i \in 2 .. n - 1 : i \in 1 .. 1 + (n - 2) /\ ~ (i <= 1) /\ i - 1 \in 1 .. n - 2
        BY <2>1
      <4> HIDE DEF r, n
      <4> QED
        BY <3>2, <4>1
    <3>4. r[1] = q[n]
      BY <2>1, <2>3, <3>2
    <3>5. 1 + (n - 2) = n - 1
      BY <2>1
    <3> HIDE DEF r, n
    <3>6. \A i \in 2 .. n - 1 : r[i] = q[i - 1]
      BY <2>2, <3>3
    <3> QED
      BY <3>1, <3>4, <3>5, <3>6
  <2> HIDE DEF r
  <2>5. DOMAIN r = 1 .. n - 1 /\ DOMAIN q = 1 .. n
    BY <2>1, <2>4, LenProperties
  <2>6. \A i, j \in 1 .. n : q[i] = q[j] => i = j
    BY <2>5 DEF IsInjective
  <2>7. \A i \in 1 .. n - 1 : \E k \in 1 .. n : r[i] = q[k] /\ k = IF i = 1 THEN n ELSE i - 1
    BY <2>1, <2>4
  <2>8. \A i, j \in 1 .. n - 1 : r[i] = r[j] => i = j
    BY <2>1, <2>6, <2>7
  <2>9. IsInjective(r) /\ ToSet(r) \subseteq ToSet(q)
    <3>1. IsInjective(r)
      BY <2>5, <2>8 DEF IsInjective
    <3>2. ASSUME NEW x \in ToSet(r) PROVE x \in ToSet(q)
      <4>1. PICK i \in 1 .. n - 1 : x = r[i]
        BY <2>5 DEF ToSet
      <4>2. \E k \in 1 .. n : x = q[k]
        BY <2>7, <4>1
      <4> QED
        BY <2>5, <4>2 DEF ToSet
    <3> QED
      BY <3>1, <3>2
  <2>10. EliminarProceso(q) = r
    BY <1>2 DEF EliminarProceso, r
  <2> QED
    BY <2>9, <2>10
<1> QED
  BY <1>1, <1>2

LEMMA ExclusionAgregarNuevaProg ==
  ASSUME IInv, AInv, ExclusionInv, AgregarNuevaProg
  PROVE  ExclusionInv'
<1> USE DEF IInv
<1>1. hiloN \in Pids /\ pcb[hiloN] = [pid |-> hiloN, pc |-> 0]
  <2>1. hiloN \in Pids
    BY DEF AgregarNuevaProg, TypeOK
  <2>2. pcb[hiloN].pid = hiloN /\ pcb[hiloN].pc = 0 /\ pcb[hiloN] \in [pid : Pids, pc : Nat]
    BY <2>1 DEF CpuUnica, AInv, SinEmpezar, TypeOK
  <2> QED
    BY <2>1, <2>2
<1>2. pcb' = pcb
  BY <1>1 DEF AgregarNuevaProg, TypeOK
<1>3. UNCHANGED <<cpu, bandeja, bloqueados, valor, cola, hiloM>>
  BY DEF AgregarNuevaProg
<1>4. \A s \in Sems : IsInjective(cola[s])
  BY DEF ExclusionInv, EnCola
<1> QED
  BY <1>2, <1>3, <1>4, ExclusionIgual

LEMMA ExclusionFinalizarProceso ==
  ASSUME IInv, ExclusionInv, FinalizarProceso
  PROVE  ExclusionInv'
<1> USE DEF IInv
<1>1. /\ UNCHANGED <<cpu, bandeja, pcb, bloqueados, valor>>
      /\ hiloM.pc = "P13" /\ (hiloM' = hiloM \/ hiloM' = EnSelect)
      /\ cola' = cola \/ cola' = [s \in Sems |-> EliminarProceso(cola[s])]
  BY DEF FinalizarProceso
<1>2. \A s \in Sems : IsInjective(cola[s]) /\ cola[s] \in Seq(Pids)
  BY DEF ExclusionInv, EnCola, TypeOK
<1>3. \A s \in Sems : IsInjective(cola'[s]) /\ ToSet(cola'[s]) \subseteq ToSet(cola[s])
  BY <1>1, <1>2, EliminarSaca
<1> QED
  BY <1>1, <1>3, ExclusionIgual DEF EnSelect

LEMMA ExclusionDespachar ==
  ASSUME IInv, ExclusionInv, Cumplidos, Cumplidos', Despachar
  PROVE  ExclusionInv'
<1> SUFFICES ASSUME NEW p, p = Head(listos), NEW c, c = CpuLibre PROVE ExclusionInv'
  OBVIOUS
<1> USE DEF IInv
<1>1. listos # <<>> /\ c # Nadie
  BY DespachoPosible
<1>2. c \in Cpus /\ ~ejec[c]
  BY <1>1, CpuLibreEs
<1>3. p \in Pids /\ p # Nadie /\ p \in ToSet(listos)
  BY <1>1, SinPrimero, NadieAparte DEF ListosReales
<1>4. /\ hiloL = SinDespacho
      /\ cpu' = [cpu EXCEPT ![c] = [fase |-> "corre", pid |-> pcb[p].pid, pc |-> pcb[p].pc,
                                    inst |-> 0]]
      /\ UNCHANGED <<bloqueados, valor, cola, pcb, hiloM, bandeja>>
  BY <1>1, <1>3 DEF Despachar
<1>5. p \notin ejecutando /\ CpusDe(p) = {}
  BY <1>3, <1>4 DEF Sitios, CpuUnica, SinDespacho
<1>6. /\ cpu[c].pid = Nadie /\ bandeja[c].pid = Nadie
  <2>1. hiloL.cpu # c
    BY <1>1, <1>4 DEF SinDespacho
  <2> QED
    BY <1>2, <2>1, CpuOciosa
<1>7. /\ cpu'[c].pid = p /\ cpu'[c].fase = "corre" /\ cpu'[c].pc = pcb[p].pc
      /\ \A d \in Cpus \ {c} : cpu'[d] = cpu[d]
  BY <1>2, <1>3, <1>4 DEF TypeOK, CpuUnica
<1>8. \A q \in Pids : Hechas(q)' = Hechas(q)
  <2>1. Hechas(p)' = Hechas(p)
    <3>1. Hechas(p) = pcb[p].pc /\ pcb[p].pc \in Nat
      BY <1>3, <1>5 DEF Cumplidos, TypeOK
    <3>2. Hechas(p)' = cpu'[c].pc + 0
      BY <1>2, <1>3, <1>7 DEF Cumplidos
    <3> QED
      BY <1>7, <3>1, <3>2
  <2>2. ASSUME NEW q \in Pids \ {p} PROVE Hechas(q)' = Hechas(q)
    <3>1. \A d \in Cpus : cpu[d].pid = q \/ cpu'[d].pid = q => d # c
      BY <1>6, <1>7, NadieAparte
    <3> QED
      BY <1>4, <1>7, <3>1, HechasIgual DEF CpusDe
  <2> QED
    BY <2>1, <2>2
<1>9. hiloM.pc = "K23" => hiloM.cpu # c /\ hiloM.cpu \in Cpus
  <2>1. hiloM.pc = "K23" => hiloM.cpu \in CpusDe(hiloM.pid) /\ hiloM.pid \in Pids
    BY DEF HiloMBien, TypeOK
  <2> QED
    BY <1>6, <2>1, NadieAparte DEF CpusDe
<1>10. Pedidos'
  <2>1. bandeja[c].cod \notin {"P14", "P15"}
    <3>1. ~ ejec[c] /\ hiloL.cpu # c
      BY <1>1, <1>2, <1>4 DEF SinDespacho
    <3> QED
      BY <1>2, <3>1, CpuOciosa
  <2>2. PideBien(c)'
    BY <1>4, <2>1 DEF PideBien
  <2>3. K23Bien'
    <3>1. hiloM' = hiloM /\ bandeja' = bandeja
      BY <1>4
    <3>2. hiloM.pc = "K23" => cpu'[hiloM.cpu] = cpu[hiloM.cpu]
      BY <1>7, <1>9
    <3> QED
      BY <3>1, <3>2 DEF ExclusionInv, Pedidos, K23Bien
  <2>4. \A d \in Cpus \ {c} : cpu'[d].pid = cpu[d].pid /\ cpu'[d].pc = cpu[d].pc
                              /\ bandeja'[d] = bandeja[d]
    BY <1>4, <1>7
  <2>5. Pedidos
    BY DEF ExclusionInv
  <2> QED
    BY <1>2, <2>2, <2>3, <2>4, <2>5, PedidosDeOtros
<1>11. HechasBien'
  BY <1>8 DEF ExclusionInv, HechasBien
<1>12. Quieta
  <2>1. \A q \in Pids : \A s \in Sems : PorBloquear(q, s)' <=> PorBloquear(q, s)
    BY <1>4 DEF PorBloquear
  <2> QED
    BY <1>4, <1>8, <2>1, ContadoIgual DEF Quieta, ExclusionInv, EnCola
<1> QED
  BY <1>10, <1>11, <1>12, ExclusionQuieta

LEMMA ExclusionDevuelvePcb ==
  ASSUME IInv, ExclusionInv, Cumplidos, Cumplidos', NEW c \in Cpus, NEW cod \in {"P12", "P13"},
         DevuelvePcb(c, cod)
  PROVE  ExclusionInv'
<1> SUFFICES ASSUME NEW p, p = bandeja[c].pid PROVE ExclusionInv'
  OBVIOUS
<1> USE DEF IInv
<1>1. /\ hiloL.cpu # c /\ bandeja[c].cod = cod /\ hiloM = EnSelect
      /\ pcb' = [pcb EXCEPT ![program[c]] = [pid |-> p, pc |-> bandeja[c].pc]]
      /\ hiloM' = [pc |-> cod, cpu |-> c, pid |-> p, sem |-> Nadie]
      /\ Leido(c)
      /\ UNCHANGED <<bloqueados, valor, cola, cpu>>
  BY DEF DevuelvePcb, Mensaje, listas
<1>2. /\ bandeja'[c].pid = Nadie /\ bandeja'[c].cod = "nada"
      /\ \A d \in Cpus \ {c} : bandeja'[d] = bandeja[d]
  BY <1>1, LeidoEs
<1>3. p \in Pids /\ p # Nadie /\ c \in CpusDe(p) /\ bandeja[c].pc \in Nat
  <2>1. /\ bandeja[c].pid \in Pids \cup {Nadie} /\ bandeja[c].pid # Nadie
        /\ bandeja[c].pc \in Nat
    BY <1>1 DEF TypeOK, CpusEnFase
  <2> QED
    BY <2>1 DEF CpusDe
<1>4. p \in ejecutando /\ program[c] = p /\ p \notin bloqueados
  <2>1. p \in ejecutando /\ program[c] = p
    BY <1>1, <1>3 DEF CpuUnica
  <2> QED
    BY <1>3, <2>1 DEF Sitios
<1>5. pcb'[p].pc = bandeja[c].pc /\ \A q \in Pids \ {p} : pcb'[q] = pcb[q]
  BY <1>1, <1>3, <1>4 DEF TypeOK
<1>6. CpusDe(p)' = {} /\ cpu[c].pid = Nadie
  <2>1. cpu[c].pid = Nadie
    BY <1>1 DEF CpusEnFase
  <2>2. \A d \in Cpus : d # c => d \notin CpusDe(p)
    BY <1>3 DEF CpuUnica
  <2>3. \A d \in Cpus : ~ (cpu'[d].pid = p \/ bandeja'[d].pid = p)
    BY <1>1, <1>2, <1>3, <2>1, <2>2 DEF CpusDe
  <2> QED
    BY <2>1, <2>3 DEF CpusDe
<1>7. \A q \in Pids : Hechas(q)' = Hechas(q)
  <2>1. Hechas(p)' = Hechas(p)
    BY <1>3, <1>5, <1>6 DEF Cumplidos
  <2>2. ASSUME NEW q \in Pids \ {p} PROVE Hechas(q)' = Hechas(q)
    <3>1. /\ \A d \in Cpus : bandeja[d].pid = q => bandeja'[d] = bandeja[d]
          /\ \A d \in Cpus : cpu'[d].pid = q \/ bandeja'[d].pid = q => d \in CpusDe(q)
      BY <1>1, <1>2, NadieAparte DEF CpusDe
    <3> QED
      BY <1>1, <1>5, <3>1, HechasIgual
  <2> QED
    BY <2>1, <2>2
<1>8. hiloM.pc # "K23" /\ hiloM'.pc # "K23"
  BY <1>1 DEF EnSelect
<1>9. Pedidos'
  <2>1. PideBien(c)' /\ K23Bien'
    BY <1>2, <1>8 DEF PideBien, K23Bien
  <2>2. \A d \in Cpus \ {c} : cpu'[d].pid = cpu[d].pid /\ cpu'[d].pc = cpu[d].pc
                              /\ bandeja'[d] = bandeja[d]
    BY <1>1, <1>2
  <2>3. Pedidos
    BY DEF ExclusionInv
  <2> QED
    BY <2>1, <2>2, <2>3, PedidosDeOtros
<1>10. HechasBien'
  BY <1>7 DEF ExclusionInv, HechasBien
<1>11. \A q \in bloqueados : pcb'[q] = pcb[q]
  BY <1>4, <1>5 DEF TypeOK
<1>12. Quieta
  <2>1. \A q \in Pids : \A s \in Sems : PorBloquear(q, s)' <=> PorBloquear(q, s)
    BY <1>8 DEF PorBloquear
  <2> QED
    BY <1>1, <1>7, <1>11, <2>1, ContadoIgual DEF Quieta, ExclusionInv, EnCola
<1> QED
  BY <1>9, <1>10, <1>12, ExclusionQuieta

(* What a program has asked of a semaphore that starts at one is not less   *)
(* than zero when its wait has been counted, and more when it is the last   *)
(* thing it did.                                                            *)
NoNegativos ==
  \A p \in Pids : \A s \in Sems : SemInit[s] = 1 => Contado(p, s) \in Int /\ Contado(p, s) >= 0

LEMMA ContadoNoNegativo ==
  ASSUME SinSenalesDeMas, NEW p \in Pids, NEW s \in Sems, SemInit[s] = 1,
         IInv, Cumplidos, HechasBien, K23Bien
  PROVE  Contado(p, s) \in Int /\ Contado(p, s) >= 0
<1>1. Hechas(p) \in Nat /\ Hechas(p) <= Len(Guion[p]) /\ Len(Guion[p]) \in Nat
  <2>1. Guion[p] \in Seq(Instrucciones)
    BY PlanificadorOK
  <2> QED
    BY <2>1, LenProperties DEF Cumplidos, HechasBien
<1>2. PICK n \in Nat : n = Hechas(p) /\ n \in 0 .. Len(Guion[p])
  BY <1>1
<1>3. \A m \in 0 .. Len(Guion[p]) : Saldo(p, s, m) >= 0
  BY DEF SinSenalesDeMas
<1>4. CASE ~ PorBloquear(p, s)
  <2>1. Saldo(p, s, n) \in Int
    BY SaldoSigue
  <2> QED
    BY <1>2, <1>3, <1>4, <2>1 DEF Contado
<1>5. CASE PorBloquear(p, s)
  <2>1. n > 0 /\ Guion[p][n] = [op |-> "wait", sem |-> s]
    <3>1. /\ hiloM.pc = "K23" /\ hiloM.pid = p /\ hiloM.sem = s
          /\ bandeja[hiloM.cpu].pid = p /\ hiloM.cpu \in Cpus
      BY <1>5 DEF PorBloquear, IInv, HiloMBien, CpusDe
    <3>2. n = bandeja[hiloM.cpu].pc
      BY <1>2, <3>1 DEF Cumplidos
    <3> QED
      BY <3>1, <3>2 DEF K23Bien
  <2>2. PICK m \in Nat : m + 1 = n
    BY <2>1
  <2>3. m \in 0 .. Len(Guion[p])
    BY <1>1, <1>2, <2>2
  <2>4. Saldo(p, s, m) \in Int /\ Saldo(p, s, m) >= 0 /\ Saldo(p, s, n) = Saldo(p, s, m) + 1
    <3>1. Guion[p][m + 1] = [op |-> "wait", sem |-> s]
      BY <2>1, <2>2
    <3>2. Saldo(p, s, m) \in Int /\ Saldo(p, s, m + 1) = Saldo(p, s, m) + 1
      BY <3>1, SaldoInstruccion
    <3> QED
      BY <1>3, <2>2, <2>3, <3>2
  <2> QED
    BY <1>2, <1>5, <2>4 DEF Contado
<1> QED
  BY <1>4, <1>5

LEMMA NuncaNegativos ==
  ASSUME SinSenalesDeMas
  PROVE  /\ IInv /\ Cumplidos /\ HechasBien /\ K23Bien => NoNegativos
         /\ IInv' /\ Cumplidos' /\ HechasBien' /\ K23Bien' => NoNegativos'
<1>1. IInv /\ Cumplidos /\ HechasBien /\ K23Bien => NoNegativos
  BY ContadoNoNegativo DEF NoNegativos
<1> QED
  BY <1>1, PTL

(* A process with a PCB out is not blocked.                                 *)
LEMMA FueraNoBloqueado ==
  ASSUME IInv, NEW p \in Pids, NEW c \in CpusDe(p)
  PROVE  p \notin bloqueados /\ \A s : ~ BloqueadoEn(p, s)
BY DEF IInv, CpuUnica, Sitios, BloqueadoEn

(* hiloM answers the CPU c, which had asked for something on s: the process *)
(* p of that CPU has done one instruction more if the answer is OK.         *)
LEMMA HechasContesta ==
  ASSUME IInv, Cumplidos, Cumplidos', NEW c \in Cpus, NEW f \in {"OK", "K23"},
         Pasa(c, f), Leido(c), bandeja[c].cod \in {"P14", "P15"}, pcb' = pcb
  PROVE  LET p == cpu[c].pid
         IN  /\ p \in Pids /\ cpu[c].pc \in Nat /\ Hechas(p) = cpu[c].pc
             /\ Hechas(p)' = cpu[c].pc + (IF f = "OK" THEN 1 ELSE 0)
             /\ \A q \in Pids \ {p} : Hechas(q)' = Hechas(q)
             /\ c \in CpusDe(p) /\ bandeja[c].sem \in Sems
             /\ cpu'[c].pid = p /\ cpu'[c].pc = cpu[c].pc /\ cpu'[c].fase = f
             /\ bandeja'[c].pid = Nadie /\ bandeja'[c].cod = "nada" /\ bandeja[c].pid = Nadie
             /\ \A d \in Cpus \ {c} : cpu'[d] = cpu[d] /\ bandeja'[d] = bandeja[d]
<1> SUFFICES ASSUME NEW p, p = cpu[c].pid
             PROVE  /\ p \in Pids /\ cpu[c].pc \in Nat /\ Hechas(p) = cpu[c].pc
                    /\ Hechas(p)' = cpu[c].pc + (IF f = "OK" THEN 1 ELSE 0)
                    /\ \A q \in Pids \ {p} : Hechas(q)' = Hechas(q)
                    /\ c \in CpusDe(p) /\ bandeja[c].sem \in Sems
                    /\ cpu'[c].pid = p /\ cpu'[c].pc = cpu[c].pc /\ cpu'[c].fase = f
                    /\ bandeja'[c].pid = Nadie /\ bandeja'[c].cod = "nada" /\ bandeja[c].pid = Nadie
                    /\ \A d \in Cpus \ {c} : cpu'[d] = cpu[d] /\ bandeja'[d] = bandeja[d]
  OBVIOUS
<1> USE DEF IInv
<1>1. Contesta(c)
  BY ContestaEs
<1>2. /\ cpu'[c].fase = f /\ \A d \in Cpus \ {c} : cpu'[d] = cpu[d]
  BY PasaEs
<1>3. /\ cpu[c].fase = "espera" /\ p # Nadie /\ p \in Pids /\ cpu[c].pc \in Nat
      /\ bandeja[c].sem \in Sems /\ c \in CpusDe(p)
  <2>1. cpu[c].fase = "espera" /\ p # Nadie /\ bandeja[c].sem \in Sems
    BY DEF CpusEnFase
  <2>2. cpu[c].pid \in Pids \cup {Nadie} /\ cpu[c].pc \in Nat
    BY DEF TypeOK
  <2> QED
    BY <2>1, <2>2 DEF CpusDe
<1>4. Hechas(p) = cpu[c].pc
  <2>1. Hechas(p) = cpu[c].pc + 0
    BY <1>3 DEF Cumplidos
  <2> QED
    BY <1>3, <2>1
<1>5. Hechas(p)' = cpu[c].pc + (IF f = "OK" THEN 1 ELSE 0)
  <2>1. cpu'[c].pid = p /\ cpu'[c].pc = cpu[c].pc
    BY <1>1 DEF Contesta
  <2>2. Hechas(p)' = cpu'[c].pc + (IF cpu'[c].fase = "OK" THEN 1 ELSE 0)
    BY <1>3, <2>1 DEF Cumplidos
  <2> QED
    BY <1>2, <2>1, <2>2
<1>6. ASSUME NEW q \in Pids \ {p} PROVE Hechas(q)' = Hechas(q)
  <2>1. \A d \in Cpus : cpu[d].pid = q \/ cpu'[d].pid = q => d # c
    BY <1>1 DEF Contesta
  <2>2. /\ \A d \in Cpus : bandeja[d].pid = q => bandeja'[d] = bandeja[d]
        /\ \A d \in Cpus : cpu'[d].pid = q \/ bandeja'[d].pid = q => d \in CpusDe(q)
    BY <1>1, NadieAparte DEF Contesta, CpusDe
  <2>3. \A d \in Cpus : cpu[d].pid = q =>
           cpu'[d].pid = q /\ cpu'[d].pc = cpu[d].pc /\ (cpu'[d].fase = "OK" <=> cpu[d].fase = "OK")
    BY <1>2, <2>1
  <2> QED
    BY <2>2, <2>3, HechasIgual
<1> QED
  BY <1>1, <1>2, <1>3, <1>4, <1>5, <1>6 DEF Contesta

(* Bounds of a program, wherever the CPU that runs it is.                   *)
LEMMA GuionLargo ==
  ASSUME NEW p \in Pids
  PROVE  Guion[p] \in Seq(Instrucciones) /\ Len(Guion[p]) \in Nat
         /\ DOMAIN Guion[p] = 1 .. Len(Guion[p])
BY PlanificadorOK, LenProperties

(* The wait is granted: one more inside, where there was nobody.            *)
LEMMA ExclusionConcede ==
  ASSUME SinSenalesDeMas, IInv, AInv, ExclusionInv, Cumplidos, Cumplidos', NEW c \in Cpus,
         bandeja[c].cod = "P14", hiloM.pc # "K23", HayLugar(bandeja[c].sem),
         Pasa(c, "OK"), Leido(c),
         valor' = [valor EXCEPT ![bandeja[c].sem] = @ - 1],
         UNCHANGED <<bloqueados, cola, pcb, hiloM>>
  PROVE  ExclusionInv'
<1> SUFFICES ASSUME NEW p, p = cpu[c].pid, NEW s, s = bandeja[c].sem, NEW n, n = cpu[c].pc
             PROVE  ExclusionInv'
  OBVIOUS
<1>1. /\ p \in Pids /\ n \in Nat /\ Hechas(p) = n /\ Hechas(p)' = n + 1
      /\ \A q \in Pids \ {p} : Hechas(q)' = Hechas(q)
      /\ c \in CpusDe(p) /\ s \in Sems
      /\ cpu'[c].pid = p /\ cpu'[c].pc = n
      /\ bandeja'[c].cod = "nada"
      /\ \A d \in Cpus \ {c} : cpu'[d] = cpu[d] /\ bandeja'[d] = bandeja[d]
  BY HechasContesta
<1>2. n + 1 < Len(Guion[p])
  <2>1. cpu[c].fase = "espera"
    BY DEF IInv, CpusEnFase
  <2> QED
    BY <1>1, <2>1 DEF AInv, EnMarcha
<1>3. Guion[p][n + 1] = [op |-> "wait", sem |-> s]
  BY DEF ExclusionInv, Pedidos, PideBien
<1>4. \A q, t : ~ PorBloquear(q, t) /\ ~ PorBloquear(q, t)'
  BY DEF PorBloquear
<1>5. Pedidos'
  <2>1. PideBien(c)' /\ K23Bien'
    BY <1>1 DEF PideBien, K23Bien
  <2>2. Pedidos /\ \A d \in Cpus \ {c} : cpu'[d].pid = cpu[d].pid /\ cpu'[d].pc = cpu[d].pc
                                         /\ bandeja'[d] = bandeja[d]
    BY <1>1 DEF ExclusionInv
  <2> QED
    BY <2>1, <2>2, PedidosDeOtros
<1>6. HechasBien'
  <2>1. n + 1 <= Len(Guion[p])
    BY <1>1, <1>2, GuionLargo
  <2> QED
    BY <1>1, <2>1 DEF ExclusionInv, HechasBien
<1>7. \A q, t : BloqueadoEn(q, t)' <=> BloqueadoEn(q, t)
  BY DEF BloqueadoEn
<1>8. EnCola'
  BY <1>7 DEF ExclusionInv, EnCola
<1>9. \A q \in Pids \ {p} : \A t : Contado(q, t)' = Contado(q, t)
  BY <1>1, <1>4, ContadoIgual
<1>10. ~ BloqueadoEn(p, s)
  BY <1>1, FueraNoBloqueado
<1>11. /\ valor[s] \in Int /\ valor'[s] = valor[s] - 1 /\ valor[s] > 0
       /\ \A t \in Sems \ {s} : valor'[t] = valor[t]
  <2>1. valor \in [Sems -> Int]
    BY DEF IInv, TypeOK
  <2> QED
    BY <1>1, <2>1 DEF HayLugar
<1>12. ASSUME NEW t \in Sems, t # s PROVE ValorBien(t)'
  <2>1. Contado(p, t)' = Contado(p, t)
    <3>1. /\ Guion[p][n + 1] # [op |-> "wait", sem |-> t]
          /\ Guion[p][n + 1] # [op |-> "signal", sem |-> t]
      <4>1. Guion[p][n + 1].sem # [op |-> "wait", sem |-> t].sem
            /\ Guion[p][n + 1].sem # [op |-> "signal", sem |-> t].sem
        BY <1>3, <1>12
      <4> QED
        BY <4>1
    <3>2. Saldo(p, t, n + 1) = Saldo(p, t, n)
      BY <1>1, <3>1, SaldoInstruccion
    <3> QED
      BY <1>1, <1>4, <3>2 DEF Contado, Saldo, Veces
  <2>2. ValorQuieto(t)
    BY <1>7, <1>9, <1>11, <1>12, <2>1 DEF ValorQuieto
  <2> QED
    BY <2>2, ValorIgual DEF ExclusionInv, Valores
<1>13. ValorBien(s)'
  <2> SUFFICES ASSUME SemInit[s] = 1
               PROVE  /\ valor'[s] + Cardinality(Prendas(Contados(s)')) = 1
                      /\ Cardinality(Prendas(Pasados(s)')) <= 1
    BY DEF ValorBien, Prendas
  <2>1. /\ Contados(s) \in [Pids -> Int] /\ Pasados(s) \in [Pids -> Int]
        /\ \A q \in Pids : /\ Contado(q, s) \in Int /\ Contados(s)[q] = Contado(q, s)
                           /\ Pasados(s)[q] = Contado(q, s) - (IF BloqueadoEn(q, s) THEN 1 ELSE 0)
    BY <1>1, FuncionesEnteras DEF Enteros
  <2>2. /\ Contados(s)' \in [Pids -> Int] /\ Pasados(s)' \in [Pids -> Int]
        /\ \A q \in Pids :
             /\ Contado(q, s)' \in Int /\ Contados(s)'[q] = Contado(q, s)'
             /\ Pasados(s)'[q] = Contado(q, s)' - (IF BloqueadoEn(q, s)' THEN 1 ELSE 0)
    BY <1>1, FuncionesEnteras DEF Enteros
  <2>3. Contado(p, s) \in Int /\ Contado(p, s) >= 0
    <3>1. HechasBien /\ K23Bien
      BY DEF ExclusionInv, Pedidos
    <3> QED
      BY <1>1, <3>1, NuncaNegativos DEF NoNegativos
  <2>4. Contado(p, s)' = Contado(p, s) + 1
    <3>1. Saldo(p, s, n + 1) = Saldo(p, s, n) + 1 /\ Saldo(p, s, n) \in Int
      BY <1>1, <1>3, SaldoInstruccion
    <3> QED
      BY <1>1, <1>4, <3>1 DEF Contado, Saldo, Veces
  <2>5. Cardinality(Prendas(Contados(s)')) = Cardinality(Prendas(Contados(s))) + 1
    <3>1. \A q \in Pids \ {p} : Contados(s)'[q] = Contados(s)[q]
      BY <1>9, <2>1, <2>2
    <3>2. Contados(s)[p] >= 0 /\ Contados(s)'[p] = Contados(s)[p] + 1
      BY <1>1, <2>1, <2>2, <2>3, <2>4
    <3> QED
      BY <1>1, <2>1, <2>2, <3>1, <3>2, PrendaMas
  <2>6. Cardinality(Prendas(Pasados(s)')) = Cardinality(Prendas(Pasados(s))) + 1
    <3>1. \A q \in Pids \ {p} : Pasados(s)'[q] = Pasados(s)[q]
      BY <1>7, <1>9, <2>1, <2>2
    <3>2. Pasados(s)[p] >= 0 /\ Pasados(s)'[p] = Pasados(s)[p] + 1
      BY <1>1, <1>7, <1>10, <2>1, <2>2, <2>3, <2>4
    <3> QED
      BY <1>1, <2>1, <2>2, <3>1, <3>2, PrendaMas
  <2>7. Cardinality(Prendas(Pasados(s))) <= Cardinality(Prendas(Contados(s)))
    <3>1. \A q \in Pids : Pasados(s)[q] <= Contados(s)[q]
      BY <2>1
    <3> QED
      BY <2>1, <3>1, PrendasDeMenos
  <2>8. /\ Cardinality(Prendas(Pasados(s))) \in Nat /\ Cardinality(Prendas(Contados(s))) \in Nat
        /\ valor[s] + Cardinality(Prendas(Contados(s))) = 1
    <3>1. ValorBien(s)
      BY <1>1 DEF ExclusionInv, Valores
    <3> QED
      BY <2>1, <3>1, PrendasFinitas DEF ValorBien
  <2> QED
    BY <1>11, <2>5, <2>6, <2>7, <2>8
<1>14. Valores'
  BY <1>12, <1>13 DEF Valores
<1> QED
  BY <1>5, <1>6, <1>8, <1>14 DEF ExclusionInv

LEMMA ExclusionP14 ==
  ASSUME SinSenalesDeMas, IInv, AInv, ExclusionInv, Cumplidos, Cumplidos', NEW c \in Cpus, P14(c)
  PROVE  ExclusionInv'
<1> SUFFICES ASSUME NEW p, p = cpu[c].pid, NEW s, s = bandeja[c].sem PROVE ExclusionInv'
  OBVIOUS
<1>1. /\ hiloM = EnSelect /\ hiloL.cpu # c /\ bandeja[c].cod = "P14" /\ Leido(c)
      /\ UNCHANGED <<bloqueados, cola, pcb>>
  BY DEF P14, Mensaje, listas
<1>2. hiloM.pc # "K23"
  BY <1>1 DEF EnSelect
<1>3. CASE HayLugar(s)
  <2>1. Pasa(c, "OK") /\ hiloM' = hiloM /\ valor' = [valor EXCEPT ![s] = @ - 1]
    BY <1>3 DEF P14, Pasa
  <2> QED
    BY <1>1, <1>2, <1>3, <2>1, ExclusionConcede
<1>4. CASE ~ HayLugar(s)
  <2>1. /\ Pasa(c, "K23") /\ valor' = valor
        /\ hiloM' = [pc |-> "K23", cpu |-> c, pid |-> program[c], sem |-> s]
    BY <1>4 DEF P14, Pasa
  <2>2. /\ p \in Pids /\ cpu[c].pc \in Nat /\ Hechas(p) = cpu[c].pc
        /\ Hechas(p)' = cpu[c].pc + 0
        /\ \A q \in Pids \ {p} : Hechas(q)' = Hechas(q)
        /\ c \in CpusDe(p) /\ s \in Sems
        /\ cpu'[c].pid = p /\ cpu'[c].pc = cpu[c].pc
        /\ bandeja'[c].pid = Nadie /\ bandeja'[c].cod = "nada"
        /\ \A d \in Cpus \ {c} : cpu'[d] = cpu[d] /\ bandeja'[d] = bandeja[d]
    BY <1>1, <2>1, HechasContesta
  <2>3. program[c] = p
    <3>1. hiloL # [pid |-> p, cpu |-> c]
      BY <1>1
    <3> QED
      BY <2>2, <3>1 DEF IInv, CpuUnica
  <2>4. \A q \in Pids : Hechas(q)' = Hechas(q)
    BY <2>2
  <2>5. \A q \in Pids : \A t \in Sems : ~ PorBloquear(q, t) /\ ~ PorBloquear(q, t)'
    <3>1. \A q \in Pids : bandeja'[c].pid # q
      BY <2>2, NadieAparte
    <3> QED
      BY <1>2, <2>1, <3>1 DEF PorBloquear
  <2>6. Pedidos'
    <3>1. PideBien(c)'
      BY <2>2 DEF PideBien
    <3>2. K23Bien'
      <4>1. Guion[p][cpu[c].pc + 1] = [op |-> "wait", sem |-> s]
        BY <1>1 DEF ExclusionInv, Pedidos, PideBien
      <4> QED
        BY <2>1, <2>2, <2>3, <4>1, NadieAparte DEF K23Bien
    <3>3. Pedidos /\ \A d \in Cpus \ {c} : cpu'[d].pid = cpu[d].pid /\ cpu'[d].pc = cpu[d].pc
                                           /\ bandeja'[d] = bandeja[d]
      BY <2>2 DEF ExclusionInv
    <3> QED
      BY <3>1, <3>2, <3>3, PedidosDeOtros
  <2>7. HechasBien'
    BY <2>4 DEF ExclusionInv, HechasBien
  <2>8. Quieta
    BY <1>1, <2>1, <2>4, <2>5, ContadoIgual DEF Quieta, ExclusionInv, EnCola
  <2> QED
    BY <2>6, <2>7, <2>8, ExclusionQuieta
<1> QED
  BY <1>3, <1>4

(* An instruction names one operation on one semaphore.                     *)
LEMMA OtraInstruccion ==
  ASSUME NEW o, NEW s, NEW u, NEW t, [op |-> o, sem |-> s] = [op |-> u, sem |-> t]
  PROVE  o = u /\ s = t
<1>1. [op |-> o, sem |-> s].op = o /\ [op |-> o, sem |-> s].sem = s
  OBVIOUS
<1>2. [op |-> u, sem |-> t].op = u /\ [op |-> u, sem |-> t].sem = t
  OBVIOUS
<1> QED
  BY <1>1, <1>2

(* The process is put in the queue: it has waited, and is not inside.       *)
LEMMA ExclusionBloquearProceso ==
  ASSUME SinSenalesDeMas, IInv, AInv, QuantumLimpio, ExclusionInv, Cumplidos, Cumplidos',
         BloquearProceso
  PROVE  ExclusionInv'
<1> SUFFICES ASSUME NEW c, c = hiloM.cpu, NEW p, p = hiloM.pid, NEW s, s = hiloM.sem,
                    NEW n, n = bandeja[hiloM.cpu].pc
             PROVE  ExclusionInv'
  OBVIOUS
<1>1. /\ hiloM.pc = "K23" /\ bandeja[c].cod # "nada"
      /\ p \in ejecutando /\ p \in Pids /\ p # Nadie /\ c \in CpusDe(p) /\ c \in Cpus
      /\ s \in Sems /\ p \notin bloqueados
  BY NadieAparte DEF BloquearProceso, IInv, HiloMBien, Sitios, TypeOK, CpusDe
<1>2. bandeja[c].cod = "P16" /\ cpu[c].pid = Nadie /\ bandeja[c].pid = p /\ n \in Nat
  <2>1. bandeja[c].cod = "P16"
    <3>1. bandeja[c].cod # "P12"
      BY <1>1 DEF QuantumLimpio
    <3>2. cpu[c].fase = "K23" \/ bandeja[c].cod \in {"P12", "P16"}
      BY <1>1 DEF IInv, HiloMBien
    <3>3. bandeja[c].cod \in Mensajes
      BY <1>1 DEF IInv, TypeOK
    <3> QED
      BY <1>1, <3>1, <3>2, <3>3 DEF IInv, CpusEnFase, Mensajes
  <2>2. cpu[c].pid = Nadie
    BY <1>1, <2>1 DEF IInv, CpusEnFase
  <2> QED
    BY <1>1, <2>1, <2>2 DEF CpusDe, IInv, TypeOK
<1>3. /\ Leido(c) /\ pcb' = [pcb EXCEPT ![p] = [pid |-> p, pc |-> n]]
      /\ bloqueados' = bloqueados \cup {p} /\ hiloM' = EnSelect /\ cpu' = cpu
      /\ cola' = [cola EXCEPT ![s] = Append(@, p)] /\ valor' = [valor EXCEPT ![s] = @ - 1]
  <2>1. Sacado = p /\ ~ (Sacado = Nadie)
    BY <1>1 DEF Sacado
  <2> QED
    BY <1>2, <2>1 DEF BloquearProceso, PcbTrasK23
<1>4. /\ bandeja'[c].pid = Nadie /\ bandeja'[c].cod = "nada"
      /\ \A d \in Cpus \ {c} : bandeja'[d] = bandeja[d]
  BY <1>1, <1>3, LeidoEs DEF IInv
<1>5. pcb'[p].pc = n /\ \A q \in Pids \ {p} : pcb'[q] = pcb[q]
  BY <1>1, <1>3 DEF IInv, TypeOK
<1>6. n > 0 /\ n < Len(Guion[p]) /\ Guion[p][n] = [op |-> "wait", sem |-> s]
  <2>1. n < Len(Guion[p])
    BY <1>1, <1>2 DEF AInv, Devueltos
  <2> QED
    BY <1>1, <1>2, <2>1 DEF ExclusionInv, Pedidos, K23Bien
<1>7. \A q \in Pids : Hechas(q)' = Hechas(q)
  <2>1. Hechas(p)' = Hechas(p)
    <3>1. Hechas(p) = n
      BY <1>1, <1>2 DEF Cumplidos
    <3>2. CpusDe(p)' = {}
      <4>1. \A d \in Cpus : d # c => d \notin CpusDe(p)
        BY <1>1 DEF IInv, CpuUnica
      <4>2. \A d \in Cpus : ~ (cpu'[d].pid = p \/ bandeja'[d].pid = p)
        BY <1>1, <1>2, <1>3, <1>4, <4>1 DEF CpusDe
      <4> QED
        BY <4>2 DEF CpusDe
    <3> QED
      BY <1>1, <1>5, <3>1, <3>2 DEF Cumplidos
  <2>2. ASSUME NEW q \in Pids \ {p} PROVE Hechas(q)' = Hechas(q)
    <3>1. \A d \in Cpus : bandeja[d].pid = q => bandeja'[d] = bandeja[d]
      BY <1>2, <1>4
    <3>2. \A d \in Cpus : cpu'[d].pid = q \/ bandeja'[d].pid = q => d \in CpusDe(q)
      BY <1>3, <1>4, NadieAparte DEF CpusDe
    <3> QED
      BY <1>3, <1>5, <3>1, <3>2, HechasIgual
  <2> QED
    BY <2>1, <2>2
<1>8. /\ PorBloquear(p, s) /\ \A q, t : ~ PorBloquear(q, t)'
      /\ \A q, t : q # p \/ t # s => ~ PorBloquear(q, t)
  BY <1>1, <1>2, <1>3 DEF PorBloquear, EnSelect
<1>9. /\ BloqueadoEn(p, s)' /\ \A t : ~ BloqueadoEn(p, t)
      /\ \A q \in Pids, t \in Sems : q # p \/ t # s => (BloqueadoEn(q, t)' <=> BloqueadoEn(q, t))
  <2>1. n \in DOMAIN Guion[p]
    BY <1>1, <1>2, <1>6, GuionLargo
  <2>2. BloqueadoEn(p, s)' /\ \A t : t # s => ~ BloqueadoEn(p, t)'
    BY <1>3, <1>5, <1>6, <2>1, OtraInstruccion DEF BloqueadoEn
  <2>3. \A q \in Pids \ {p} : \A t : BloqueadoEn(q, t)' <=> BloqueadoEn(q, t)
    BY <1>3, <1>5 DEF BloqueadoEn
  <2> QED
    BY <1>1, <2>2, <2>3 DEF BloqueadoEn
<1>10. Pedidos'
  <2>1. PideBien(c)' /\ K23Bien'
    BY <1>3, <1>4 DEF PideBien, K23Bien, EnSelect
  <2>2. Pedidos /\ \A d \in Cpus \ {c} : cpu'[d].pid = cpu[d].pid /\ cpu'[d].pc = cpu[d].pc
                                         /\ bandeja'[d] = bandeja[d]
    BY <1>3, <1>4 DEF ExclusionInv
  <2> QED
    BY <1>1, <2>1, <2>2, PedidosDeOtros
<1>11. HechasBien'
  BY <1>7 DEF ExclusionInv, HechasBien
<1>12. EnCola'
  <2> SUFFICES ASSUME NEW t \in Sems
               PROVE  IsInjective(cola'[t]) /\ \A q \in ToSet(cola'[t]) : BloqueadoEn(q, t)'
    BY DEF EnCola
  <2>1. /\ cola[t] \in Seq(Pids) /\ cola \in [Sems -> Seq(Pids)]
        /\ IsInjective(cola[t]) /\ \A q \in ToSet(cola[t]) : BloqueadoEn(q, t)
    BY DEF IInv, TypeOK, ExclusionInv, EnCola
  <2>2. ToSet(cola[t]) \subseteq Pids /\ p \notin ToSet(cola[t])
    BY <1>9, <2>1, ToSetElemento
  <2>3. \A q \in ToSet(cola[t]) : BloqueadoEn(q, t)'
    BY <1>9, <2>1, <2>2
  <2>4. CASE t # s
    BY <1>3, <2>1, <2>3, <2>4
  <2>5. CASE t = s
    <3>1. cola'[t] = Append(cola[t], p)
      BY <1>3, <2>1, <2>5
    <3>2. IsInjective(cola'[t]) /\ ToSet(cola'[t]) = ToSet(cola[t]) \cup {p}
      BY <1>1, <2>1, <2>2, <3>1, AlFinal
    <3> QED
      BY <1>9, <2>3, <2>5, <3>2
  <2> QED
    BY <2>4, <2>5
<1>13. /\ valor[s] \in Int /\ valor'[s] = valor[s] - 1
       /\ \A t \in Sems \ {s} : valor'[t] = valor[t]
  <2>1. valor \in [Sems -> Int]
    BY DEF IInv, TypeOK
  <2> QED
    BY <1>1, <1>3, <2>1
<1>14. \A q \in Pids, t \in Sems : q # p \/ t # s => Contado(q, t)' = Contado(q, t)
  BY <1>7, <1>8, ContadoIgual
<1>15. ASSUME NEW t \in Sems, t # s PROVE ValorBien(t)'
  <2>1. ValorQuieto(t)
    BY <1>9, <1>13, <1>14, <1>15 DEF ValorQuieto
  <2> QED
    BY <2>1, ValorIgual DEF ExclusionInv, Valores
<1>16. ValorBien(s)'
  <2> SUFFICES ASSUME SemInit[s] = 1
               PROVE  /\ valor'[s] + Cardinality(Prendas(Contados(s)')) = 1
                      /\ Cardinality(Prendas(Pasados(s)')) <= 1
    BY DEF ValorBien, Prendas
  <2>1. /\ Contados(s) \in [Pids -> Int] /\ Pasados(s) \in [Pids -> Int]
        /\ \A q \in Pids : /\ Contado(q, s) \in Int /\ Contados(s)[q] = Contado(q, s)
                           /\ Pasados(s)[q] = Contado(q, s) - (IF BloqueadoEn(q, s) THEN 1 ELSE 0)
    BY <1>1, FuncionesEnteras DEF Enteros
  <2>2. /\ Contados(s)' \in [Pids -> Int] /\ Pasados(s)' \in [Pids -> Int]
        /\ \A q \in Pids :
             /\ Contado(q, s)' \in Int /\ Contados(s)'[q] = Contado(q, s)'
             /\ Pasados(s)'[q] = Contado(q, s)' - (IF BloqueadoEn(q, s)' THEN 1 ELSE 0)
    BY <1>1, FuncionesEnteras DEF Enteros
  <2>3. Contado(p, s) >= 0
    <3>1. HechasBien /\ K23Bien
      BY DEF ExclusionInv, Pedidos
    <3> QED
      BY <1>1, <3>1, NuncaNegativos DEF NoNegativos
  <2>4. Contado(p, s)' = Contado(p, s) + 1
    <3>1. Saldo(p, s, Hechas(p))' = Saldo(p, s, Hechas(p)) /\ Saldo(p, s, Hechas(p)) \in Int
      <4>1. Hechas(p) \in Nat
        BY <1>1 DEF Cumplidos
      <4>2. Saldo(p, s, Hechas(p)) \in Int
        BY <4>1, SaldoSigue
      <4>3. Hechas(p)' = Hechas(p)
        BY <1>1, <1>7
      <4>4. Saldo(p, s, Hechas(p))' = Saldo(p, s, Hechas(p))
        BY <4>3 DEF Saldo, Veces
      <4> QED
        BY <4>2, <4>4
    <3> QED
      BY <1>8, <3>1 DEF Contado
  <2>5. Cardinality(Prendas(Contados(s)')) = Cardinality(Prendas(Contados(s))) + 1
    <3>1. \A q \in Pids \ {p} : Contados(s)'[q] = Contados(s)[q]
      BY <1>1, <1>14, <2>1, <2>2
    <3>2. Contados(s)[p] >= 0 /\ Contados(s)'[p] = Contados(s)[p] + 1
      BY <1>1, <2>1, <2>2, <2>3, <2>4
    <3> QED
      BY <1>1, <2>1, <2>2, <3>1, <3>2, PrendaMas
  <2>6. Cardinality(Prendas(Pasados(s)')) <= Cardinality(Prendas(Pasados(s)))
    <3>1. \A q \in Pids : Pasados(s)'[q] <= Pasados(s)[q]
      <4>1. Pasados(s)'[p] <= Pasados(s)[p]
        BY <1>1, <1>9, <2>1, <2>2, <2>4
      <4>2. \A q \in Pids \ {p} : Pasados(s)'[q] <= Pasados(s)[q]
        BY <1>1, <1>9, <1>14, <2>1, <2>2
      <4> QED
        BY <4>1, <4>2
    <3> QED
      BY <2>1, <2>2, <3>1, PrendasDeMenos
  <2>7. /\ Cardinality(Prendas(Pasados(s))) \in Nat /\ Cardinality(Prendas(Pasados(s)')) \in Nat
        /\ Cardinality(Prendas(Contados(s))) \in Nat
        /\ valor[s] + Cardinality(Prendas(Contados(s))) = 1
        /\ Cardinality(Prendas(Pasados(s))) <= 1
    <3>1. ValorBien(s)
      BY <1>1 DEF ExclusionInv, Valores
    <3> QED
      BY <2>1, <2>2, <3>1, PrendasFinitas DEF ValorBien
  <2> QED
    BY <1>13, <2>5, <2>6, <2>7
<1>17. Valores'
  BY <1>15, <1>16 DEF Valores
<1> QED
  BY <1>10, <1>11, <1>12, <1>17 DEF ExclusionInv

(* Tokens when one process gets one more, whatever it had.                  *)
LEMMA PrendaMasOIgual ==
  ASSUME NEW f \in [Pids -> Int], NEW g \in [Pids -> Int], NEW p \in Pids,
         g[p] <= f[p] + 1, \A q \in Pids \ {p} : g[q] = f[q]
  PROVE  Cardinality(Prendas(g)) <= Cardinality(Prendas(f)) + 1
<1>1. IsFiniteSet(Prendas(f)) /\ IsFiniteSet(Prendas(g)) /\ Cardinality(Prendas(f)) \in Nat
      /\ Cardinality(Prendas(g)) \in Nat
  BY PrendasFinitas
<1>2. PICK e : e = <<p, f[p] + 1>>
  OBVIOUS
<1>3. Prendas(g) \in SUBSET (Prendas(f) \cup {e})
  BY <1>2 DEF Prendas
<1>4. /\ IsFiniteSet(Prendas(f) \cup {e})
      /\ Cardinality(Prendas(f) \cup {e}) = Cardinality(Prendas(f))
         \/ Cardinality(Prendas(f) \cup {e}) = Cardinality(Prendas(f)) + 1
  BY <1>1, FS_AddElement
<1>5. Cardinality(Prendas(g)) <= Cardinality(Prendas(f) \cup {e})
  BY <1>3, <1>4, FS_Subset
<1> QED
  BY <1>1, <1>4, <1>5

(* A signal: the one that signals leaves, and the first of the queue may go *)
(* in.                                                                      *)
Levanta(s, p) ==
  \/ cola' = cola /\ bloqueados' = bloqueados
  \/ /\ p \in bloqueados /\ bloqueados' = bloqueados \ {p}
     /\ cola[s] # <<>> /\ p = Head(cola[s])
     /\ cola' = [cola EXCEPT ![s] = Tail(@)]

(* What becomes of the blocked.                                             *)
LEMMA LevantaBien ==
  ASSUME IInv, ExclusionInv, NEW s \in Sems, NEW p, Levanta(s, p), pcb' = pcb
  PROVE  /\ EnCola'
         /\ \A q, t : q # p \/ t # s => (BloqueadoEn(q, t)' <=> BloqueadoEn(q, t))
         /\ BloqueadoEn(p, s)' => BloqueadoEn(p, s)
<1>1. CASE cola' = cola /\ bloqueados' = bloqueados
  BY <1>1 DEF ExclusionInv, EnCola, BloqueadoEn
<1>2. CASE /\ p \in bloqueados /\ bloqueados' = bloqueados \ {p}
           /\ cola[s] # <<>> /\ p = Head(cola[s])
           /\ cola' = [cola EXCEPT ![s] = Tail(@)]
  <2>1. cola \in [Sems -> Seq(Pids)] /\ \A t \in Sems : cola[t] \in Seq(Pids)
    BY DEF IInv, TypeOK
  <2>2. /\ p \in ToSet(cola[s]) /\ IsInjective(Tail(cola[s]))
        /\ ToSet(Tail(cola[s])) = ToSet(cola[s]) \ {p}
    <3>1. IsInjective(cola[s])
      BY DEF ExclusionInv, EnCola
    <3> QED
      BY <1>2, <2>1, <3>1, SinPrimero
  <2>3. BloqueadoEn(p, s)
    BY <2>2 DEF ExclusionInv, EnCola
  <2>4. \A t : t # s => ~ BloqueadoEn(p, t)
    BY <2>3, OtraInstruccion DEF BloqueadoEn
  <2>5. \A q, t : q # p => (BloqueadoEn(q, t)' <=> BloqueadoEn(q, t))
    BY <1>2 DEF BloqueadoEn
  <2>6. \A t : ~ BloqueadoEn(p, t)'
    BY <1>2 DEF BloqueadoEn
  <2>7. EnCola'
    <3> SUFFICES ASSUME NEW t \in Sems
                 PROVE  IsInjective(cola'[t]) /\ \A q \in ToSet(cola'[t]) : BloqueadoEn(q, t)'
      BY DEF EnCola
    <3>1. IsInjective(cola[t]) /\ \A q \in ToSet(cola[t]) : BloqueadoEn(q, t)
      BY DEF ExclusionInv, EnCola
    <3>2. CASE t = s
      <4>1. cola'[t] = Tail(cola[s])
        BY <1>2, <2>1, <3>2
      <4> QED
        BY <2>2, <2>5, <3>1, <3>2, <4>1
    <3>3. CASE t # s
      <4>1. cola'[t] = cola[t]
        BY <1>2, <2>1, <3>3
      <4>2. p \notin ToSet(cola[t])
        BY <2>4, <3>1, <3>3
      <4> QED
        BY <2>5, <3>1, <4>1, <4>2
    <3> QED
      BY <3>2, <3>3
  <2> QED
    BY <2>4, <2>5, <2>6, <2>7
<1> QED
  BY <1>1, <1>2 DEF Levanta

LEMMA ExclusionP15 ==
  ASSUME SinSenalesDeMas, IInv, IInv', AInv, ExclusionInv, Cumplidos, Cumplidos',
         NEW c \in Cpus, P15(c)
  PROVE  ExclusionInv'
<1> SUFFICES ASSUME NEW p, p = cpu[c].pid, NEW s, s = bandeja[c].sem, NEW n, n = cpu[c].pc,
                    NEW h, h = IF cola[s] = <<>> THEN Nadie ELSE Head(cola[s])
             PROVE  ExclusionInv'
  OBVIOUS
<1>1. /\ hiloM = EnSelect /\ bandeja[c].cod = "P15" /\ Leido(c) /\ Pasa(c, "OK")
      /\ valor' = [valor EXCEPT ![s] = @ + 1]
      /\ UNCHANGED <<pcb, hiloM>>
  BY DEF P15, Mensaje, Pasa
<1>2. /\ p \in Pids /\ n \in Nat /\ Hechas(p) = n /\ Hechas(p)' = n + 1
      /\ \A q \in Pids \ {p} : Hechas(q)' = Hechas(q)
      /\ c \in CpusDe(p) /\ s \in Sems
      /\ cpu'[c].pid = p /\ cpu'[c].pc = n
      /\ bandeja'[c].cod = "nada"
      /\ \A d \in Cpus \ {c} : cpu'[d] = cpu[d] /\ bandeja'[d] = bandeja[d]
  BY <1>1, HechasContesta
<1>3. Levanta(s, h)
  <2>1. h # Nadie => cola[s] # <<>> /\ h = Head(cola[s])
    OBVIOUS
  <2>2. Nadie \notin bloqueados
    BY NadieAparte DEF IInv, TypeOK
  <2> QED
    BY <2>1, <2>2 DEF P15, Levanta
<1>4. /\ EnCola'
      /\ \A q, t : q # h \/ t # s => (BloqueadoEn(q, t)' <=> BloqueadoEn(q, t))
      /\ BloqueadoEn(h, s)' => BloqueadoEn(h, s)
  BY <1>1, <1>2, <1>3, LevantaBien
<1>5. n + 1 < Len(Guion[p]) /\ Len(Guion[p]) \in Nat
  <2>1. cpu[c].fase = "espera"
    BY <1>1 DEF IInv, CpusEnFase
  <2> QED
    BY <1>2, <2>1, GuionLargo DEF AInv, EnMarcha
<1>6. Guion[p][n + 1] = [op |-> "signal", sem |-> s]
  BY <1>1 DEF ExclusionInv, Pedidos, PideBien
<1>7. \A q, t : ~ PorBloquear(q, t) /\ ~ PorBloquear(q, t)'
  BY <1>1 DEF PorBloquear, EnSelect
<1>8. Pedidos'
  <2>1. PideBien(c)' /\ K23Bien'
    BY <1>1, <1>2 DEF PideBien, K23Bien, EnSelect
  <2>2. Pedidos /\ \A d \in Cpus \ {c} : cpu'[d].pid = cpu[d].pid /\ cpu'[d].pc = cpu[d].pc
                                         /\ bandeja'[d] = bandeja[d]
    BY <1>2 DEF ExclusionInv
  <2> QED
    BY <2>1, <2>2, PedidosDeOtros
<1>9. HechasBien'
  <2>1. n + 1 <= Len(Guion[p])
    BY <1>2, <1>5
  <2> QED
    BY <1>2, <2>1 DEF ExclusionInv, HechasBien
<1>10. \A q \in Pids \ {p} : \A t : Contado(q, t)' = Contado(q, t)
  BY <1>2, <1>7, ContadoIgual
<1>11. /\ valor[s] \in Int /\ valor'[s] = valor[s] + 1
       /\ \A t \in Sems \ {s} : valor'[t] = valor[t]
  <2>1. valor \in [Sems -> Int]
    BY DEF IInv, TypeOK
  <2> QED
    BY <1>1, <1>2, <2>1
<1>12. \A t : ~ BloqueadoEn(p, t) /\ ~ BloqueadoEn(p, t)'
  <2>1. \A t : ~ BloqueadoEn(p, t)
    BY <1>2, FueraNoBloqueado
  <2> QED
    BY <1>4, <2>1
<1>13. ASSUME NEW t \in Sems, t # s PROVE ValorBien(t)'
  <2>1. Contado(p, t)' = Contado(p, t)
    <3>1. /\ Guion[p][n + 1] # [op |-> "wait", sem |-> t]
          /\ Guion[p][n + 1] # [op |-> "signal", sem |-> t]
      BY <1>6, <1>13, OtraInstruccion
    <3>2. Saldo(p, t, n + 1) = Saldo(p, t, n)
      BY <1>2, <3>1, SaldoInstruccion
    <3> QED
      BY <1>2, <1>7, <3>2 DEF Contado, Saldo, Veces
  <2>2. ValorQuieto(t)
    BY <1>4, <1>10, <1>11, <1>13, <2>1 DEF ValorQuieto
  <2> QED
    BY <2>2, ValorIgual DEF ExclusionInv, Valores
<1>14. ValorBien(s)'
  <2> SUFFICES ASSUME SemInit[s] = 1
               PROVE  /\ valor'[s] + Cardinality(Prendas(Contados(s)')) = 1
                      /\ Cardinality(Prendas(Pasados(s)')) <= 1
    BY DEF ValorBien, Prendas
  <2>1. /\ Contados(s) \in [Pids -> Int] /\ Pasados(s) \in [Pids -> Int]
        /\ \A q \in Pids : /\ Contado(q, s) \in Int /\ Contados(s)[q] = Contado(q, s)
                           /\ Pasados(s)[q] = Contado(q, s) - (IF BloqueadoEn(q, s) THEN 1 ELSE 0)
    BY <1>2, FuncionesEnteras DEF Enteros
  <2>2. /\ Contados(s)' \in [Pids -> Int] /\ Pasados(s)' \in [Pids -> Int]
        /\ \A q \in Pids :
             /\ Contado(q, s)' \in Int /\ Contados(s)'[q] = Contado(q, s)'
             /\ Pasados(s)'[q] = Contado(q, s)' - (IF BloqueadoEn(q, s)' THEN 1 ELSE 0)
    BY <1>2, FuncionesEnteras DEF Enteros
  <2>3. Contado(p, s)' >= 0
    <3>1. HechasBien' /\ K23Bien'
      BY <1>8, <1>9 DEF Pedidos
    <3> QED
      BY <1>2, <3>1, NuncaNegativos DEF NoNegativos
  <2>4. Contado(p, s) = Contado(p, s)' + 1
    <3>1. Saldo(p, s, n + 1) = Saldo(p, s, n) - 1 /\ Saldo(p, s, n) \in Int
      BY <1>2, <1>6, SaldoInstruccion
    <3>2. Saldo(p, s, Hechas(p))' = Saldo(p, s, n + 1)
      BY <1>2 DEF Saldo, Veces
    <3> QED
      BY <1>2, <1>7, <3>1, <3>2 DEF Contado
  <2>5. Cardinality(Prendas(Contados(s))) = Cardinality(Prendas(Contados(s)')) + 1
    <3>1. \A q \in Pids \ {p} : Contados(s)[q] = Contados(s)'[q]
      BY <1>10, <2>1, <2>2
    <3>2. Contados(s)'[p] >= 0 /\ Contados(s)[p] = Contados(s)'[p] + 1
      BY <1>2, <2>1, <2>2, <2>3, <2>4
    <3> QED
      BY <1>2, <2>1, <2>2, <3>1, <3>2, PrendaMas
  <2>6. PICK m \in [Pids -> Int] :
          m = [q \in Pids |-> IF q = p THEN Contado(p, s)' ELSE Pasados(s)[q]]
    BY <1>2, <2>1, <2>2
  <2>7. Cardinality(Prendas(Pasados(s))) = Cardinality(Prendas(m)) + 1
    <3>1. \A q \in Pids \ {p} : Pasados(s)[q] = m[q]
      BY <2>6
    <3>2. m[p] >= 0 /\ Pasados(s)[p] = m[p] + 1
      BY <1>2, <1>12, <2>1, <2>3, <2>4, <2>6
    <3> QED
      BY <1>2, <2>1, <2>6, <3>1, <3>2, PrendaMas
  <2>8. Cardinality(Prendas(Pasados(s)')) <= Cardinality(Prendas(m)) + 1
    <3>1. Pasados(s)'[p] = m[p]
      BY <1>2, <1>12, <2>2, <2>6
    <3>2. \A q \in Pids \ {p, h} : Pasados(s)'[q] = m[q]
      <4> SUFFICES ASSUME NEW q \in Pids \ {p, h} PROVE Pasados(s)'[q] = m[q]
        OBVIOUS
      <4>1. Contado(q, s)' = Contado(q, s) /\ (BloqueadoEn(q, s)' <=> BloqueadoEn(q, s))
        BY <1>4, <1>10
      <4>2. Pasados(s)'[q] = Contado(q, s)' - (IF BloqueadoEn(q, s)' THEN 1 ELSE 0)
        BY <2>2
      <4>3. m[q] = Contado(q, s) - (IF BloqueadoEn(q, s) THEN 1 ELSE 0)
        BY <2>1, <2>6
      <4> QED
        BY <4>1, <4>2, <4>3
    <3>3. CASE h \in Pids \ {p}
      <4>1. Pasados(s)'[h] <= m[h] + 1
        <5>1. Contado(h, s)' = Contado(h, s) /\ Contado(h, s) \in Int
          BY <1>10, <2>1, <3>3
        <5>2. m[h] = Contado(h, s) - (IF BloqueadoEn(h, s) THEN 1 ELSE 0)
          BY <2>1, <2>6, <3>3
        <5>3. Pasados(s)'[h] = Contado(h, s) - (IF BloqueadoEn(h, s)' THEN 1 ELSE 0)
          BY <2>2, <3>3, <5>1
        <5> QED
          BY <5>1, <5>2, <5>3
      <4>2. \A q \in Pids \ {h} : Pasados(s)'[q] = m[q]
        BY <3>1, <3>2
      <4> QED
        BY <2>2, <2>6, <3>3, <4>1, <4>2, PrendaMasOIgual
    <3>4. CASE h \notin Pids \ {p}
      <4>1. \A q \in Pids : Pasados(s)'[q] <= m[q]
        <5>1. \A q \in Pids : Pasados(s)'[q] = m[q]
          BY <3>1, <3>2, <3>4
        <5>2. \A q \in Pids : m[q] \in Int
          BY <2>6
        <5> QED
          BY <5>1, <5>2
      <4>2. Cardinality(Prendas(Pasados(s)')) <= Cardinality(Prendas(m))
        BY <2>2, <2>6, <4>1, PrendasDeMenos
      <4>3. Cardinality(Prendas(Pasados(s)')) \in Nat /\ Cardinality(Prendas(m)) \in Nat
        BY <2>2, <2>6, PrendasFinitas
      <4> QED
        BY <4>2, <4>3
    <3> QED
      BY <3>3, <3>4
  <2>9. /\ Cardinality(Prendas(Pasados(s))) \in Nat /\ Cardinality(Prendas(Pasados(s)')) \in Nat
        /\ Cardinality(Prendas(Contados(s))) \in Nat /\ Cardinality(Prendas(Contados(s)')) \in Nat
        /\ Cardinality(Prendas(m)) \in Nat
        /\ valor[s] + Cardinality(Prendas(Contados(s))) = 1
        /\ Cardinality(Prendas(Pasados(s))) <= 1
    <3>1. ValorBien(s)
      BY <1>2 DEF ExclusionInv, Valores
    <3> QED
      BY <2>1, <2>2, <2>6, <3>1, PrendasFinitas DEF ValorBien
  <2> QED
    BY <1>11, <2>5, <2>7, <2>8, <2>9
<1>15. Valores'
  BY <1>13, <1>14 DEF Valores
<1> QED
  BY <1>4, <1>8, <1>9, <1>15 DEF ExclusionInv

(* One instruction more of p on c: it keeps running or gives the PCB back.  *)
Sigue(c, p, n) ==
  /\ p \in Pids /\ n \in Nat /\ cpu[c].pid = p /\ cpu[c].pc = n
  /\ bandeja[c].cod = "nada" /\ bandeja[c].pid = Nadie
  /\ \A d \in Cpus \ {c} : cpu'[d] = cpu[d] /\ bandeja'[d] = bandeja[d]
  /\ \/ /\ cpu'[c].fase = "corre" /\ cpu'[c].pid = p /\ cpu'[c].pc = n + 1
        /\ bandeja'[c] = bandeja[c]
     \/ /\ cpu'[c].fase = "libre" /\ cpu'[c].pid = Nadie
        /\ bandeja'[c].cod \in {"P12", "P13", "P16"}
        /\ bandeja'[c].pid = p /\ bandeja'[c].pc = n + 1

LEMMA InstruccionEs ==
  ASSUME IInv, NEW c \in Cpus, cpu[c].fase \in {"corre", "OK", "K23"},
         NEW accion \in {"continuar", "P13", "P16"}, Instruccion(c, accion)
  PROVE  Sigue(c, cpu[c].pid, cpu[c].pc)
<1> DEFINE FR == [fase : {"libre", "corre", "espera", "OK", "K23"},
                  pid : Pids \cup {Nadie}, pc : Nat, inst : Nat]
           MR == [cod : Mensajes, pid : Pids \cup {Nadie}, pc : Nat, sem : Sems \cup {Nadie}]
<1>1. /\ cpu \in [Cpus -> FR] /\ bandeja \in [Cpus -> MR]
      /\ cpu[c].pid \in Pids /\ cpu[c].pc \in Nat
  <2>1. cpu \in [Cpus -> FR] /\ bandeja \in [Cpus -> MR] /\ cpu[c].pid # Nadie
    BY DEF IInv, TypeOK, CpusEnFase
  <2> QED
    BY <2>1
<1>2. bandeja[c].cod = "nada" /\ bandeja[c].pid = Nadie
  BY <1>1 DEF IInv, CpusEnFase, Mensajes
<1>3. \A d \in Cpus \ {c} : cpu'[d] = cpu[d] /\ bandeja'[d] = bandeja[d]
  BY <1>1 DEF Instruccion
<1>4. \/ /\ cpu'[c].fase = "corre" /\ cpu'[c].pid = cpu[c].pid /\ cpu'[c].pc = cpu[c].pc + 1
         /\ bandeja'[c] = bandeja[c]
      \/ /\ cpu'[c].fase = "libre" /\ cpu'[c].pid = Nadie
         /\ bandeja'[c].cod \in {"P12", "P13", "P16"}
         /\ bandeja'[c].pid = cpu[c].pid /\ bandeja'[c].pc = cpu[c].pc + 1
  BY <1>1 DEF Instruccion, Ocioso
<1> QED
  BY <1>1, <1>2, <1>3, <1>4 DEF Sigue

LEMMA HechasSigue ==
  ASSUME IInv, Cumplidos, Cumplidos', NEW c \in Cpus, NEW p, NEW n, Sigue(c, p, n), pcb' = pcb
  PROVE  /\ Hechas(p) = n + (IF cpu[c].fase = "OK" THEN 1 ELSE 0)
         /\ Hechas(p)' = n + 1
         /\ \A q \in Pids \ {p} : Hechas(q)' = Hechas(q)
<1>1. Hechas(p) = n + (IF cpu[c].fase = "OK" THEN 1 ELSE 0)
  BY DEF Cumplidos, Sigue
<1>2. Hechas(p)' = n + 1
  <2>1. CASE cpu'[c].pid = p /\ cpu'[c].fase = "corre" /\ cpu'[c].pc = n + 1
    <3>1. Hechas(p)' = cpu'[c].pc + (IF cpu'[c].fase = "OK" THEN 1 ELSE 0)
      BY <2>1 DEF Cumplidos, Sigue
    <3> QED
      BY <2>1, <3>1 DEF Sigue
  <2>2. CASE bandeja'[c].pid = p /\ bandeja'[c].pc = n + 1
    BY <2>2 DEF Cumplidos, Sigue
  <2> QED
    BY <2>1, <2>2 DEF Sigue
<1>3. ASSUME NEW q \in Pids \ {p} PROVE Hechas(q)' = Hechas(q)
  <2>1. \A d \in Cpus : cpu[d].pid = q \/ cpu'[d].pid = q => d # c
    BY NadieAparte DEF Sigue
  <2>2. \A d \in Cpus : bandeja[d].pid = q \/ bandeja'[d].pid = q => d # c
    BY NadieAparte DEF Sigue
  <2>3. \A d \in Cpus \ {c} : cpu'[d] = cpu[d] /\ bandeja'[d] = bandeja[d]
    BY DEF Sigue
  <2>4. /\ \A d \in Cpus : cpu[d].pid = q =>
             cpu'[d].pid = q /\ cpu'[d].pc = cpu[d].pc /\ (cpu'[d].fase = "OK" <=> cpu[d].fase = "OK")
        /\ \A d \in Cpus : bandeja[d].pid = q => bandeja'[d] = bandeja[d]
        /\ \A d \in Cpus : cpu'[d].pid = q \/ bandeja'[d].pid = q => d \in CpusDe(q)
    BY <2>1, <2>2, <2>3 DEF CpusDe
  <2> QED
    BY <2>4, HechasIgual
<1> QED
  BY <1>1, <1>2, <1>3

(* What it asks for still stands.                                           *)
LEMMA PedidosSigue ==
  ASSUME Pedidos, NEW c \in Cpus, NEW p, NEW n, Sigue(c, p, n), hiloM' = hiloM,
         hiloM.pc = "K23" =>
           /\ hiloM.cpu \in Cpus
           /\ hiloM.cpu # c \/ (cpu[c].pid = hiloM.pid /\ cpu'[c].pid = Nadie)
  PROVE  Pedidos'
<1>1. PideBien(c)'
  BY DEF PideBien, Sigue
<1>2. K23Bien'
  <2> SUFFICES ASSUME hiloM.pc = "K23"
               PROVE  /\ cpu'[hiloM.cpu].pid = hiloM.pid =>
                           Guion[hiloM.pid][cpu'[hiloM.cpu].pc + 1] = [op |-> "wait", sem |-> hiloM.sem]
                      /\ bandeja'[hiloM.cpu].pid = hiloM.pid =>
                           /\ bandeja'[hiloM.cpu].pc > 0
                           /\ Guion[hiloM.pid][bandeja'[hiloM.cpu].pc] = [op |-> "wait", sem |-> hiloM.sem]
    BY DEF K23Bien
  <2>1. CASE hiloM.cpu # c
    <3>1. cpu'[hiloM.cpu] = cpu[hiloM.cpu] /\ bandeja'[hiloM.cpu] = bandeja[hiloM.cpu]
      BY <2>1 DEF Sigue
    <3> QED
      BY <3>1 DEF Pedidos, K23Bien
  <2>2. CASE hiloM.cpu = c /\ cpu'[c].pid = Nadie
    <3>1. Guion[p][n + 1] = [op |-> "wait", sem |-> hiloM.sem] /\ hiloM.pid = p
      BY <2>2 DEF Pedidos, K23Bien, Sigue
    <3>2. bandeja'[c].pc = n + 1 /\ n + 1 > 0 /\ cpu'[c].pid # p
      BY <2>2, NadieAparte DEF Sigue
    <3> QED
      BY <2>2, <3>1, <3>2
  <2> QED
    BY <2>1, <2>2
<1>3. \A d \in Cpus \ {c} : cpu'[d].pid = cpu[d].pid /\ cpu'[d].pc = cpu[d].pc
                            /\ bandeja'[d] = bandeja[d]
  BY DEF Sigue
<1> QED
  BY <1>1, <1>2, <1>3, PedidosDeOtros

(* A step of a CPU that leaves what it has waited and signalled as it was.  *)
LEMMA ExclusionSigue ==
  ASSUME IInv, ExclusionInv, Cumplidos, Cumplidos', NEW c \in Cpus, NEW p, NEW n, Sigue(c, p, n),
         SoloCpu, n + 1 <= Len(Guion[p]),
         hiloM.pc = "K23" =>
           /\ hiloM.cpu \in Cpus
           /\ hiloM.cpu # c \/ (cpu[c].pid = hiloM.pid /\ cpu'[c].pid = Nadie),
         \A t \in Sems : Contado(p, t)' = Contado(p, t)
  PROVE  ExclusionInv'
<1>1. /\ pcb' = pcb /\ hiloM' = hiloM /\ bloqueados' = bloqueados /\ valor' = valor
      /\ cola' = cola
  BY DEF SoloCpu
<1>2. /\ Hechas(p)' = n + 1 /\ \A q \in Pids \ {p} : Hechas(q)' = Hechas(q)
  BY <1>1, HechasSigue
<1>3. Pedidos'
  BY <1>1, PedidosSigue DEF ExclusionInv
<1>4. HechasBien'
  BY <1>2 DEF ExclusionInv, HechasBien
<1>5. ASSUME NEW q \in Pids \ {p}, NEW t \in Sems PROVE Contado(q, t)' = Contado(q, t)
  <2>1. PorBloquear(q, t)' <=> PorBloquear(q, t)
    <3>1. CASE hiloM.pc = "K23" /\ hiloM.cpu # c
      <4>1. bandeja'[hiloM.cpu] = bandeja[hiloM.cpu]
        BY <3>1 DEF Sigue
      <4> QED
        BY <1>1, <4>1 DEF PorBloquear
    <3>2. CASE hiloM.pc = "K23" /\ hiloM.cpu = c
      <4>1. hiloM.pid = p
        BY <3>2 DEF Sigue
      <4> QED
        BY <1>1, <4>1 DEF PorBloquear
    <3>3. CASE hiloM.pc # "K23"
      BY <1>1, <3>3 DEF PorBloquear
    <3> QED
      BY <3>1, <3>2, <3>3
  <2> QED
    BY <1>2, <2>1, ContadoIgual
<1>6. Quieta
  BY <1>1, <1>5 DEF Quieta, ExclusionInv, EnCola
<1> QED
  BY <1>3, <1>4, <1>6, ExclusionQuieta

(* Of the process hiloM waits for in K23, and of no other, it has the CPU.  *)
LEMMA EnK23 ==
  ASSUME IInv, NEW c \in Cpus, cpu[c].fase # "libre", hiloM.pc = "K23"
  PROVE  /\ hiloM.cpu \in Cpus
         /\ cpu[c].fase # "K23" => hiloM.cpu # c
         /\ cpu[c].fase = "K23" => hiloM.cpu = c /\ hiloM.pid = cpu[c].pid
<1> USE DEF IInv
<1>1. /\ hiloM.cpu \in CpusDe(hiloM.pid) /\ hiloM.cpu \in Cpus /\ hiloM.pid \in Pids
      /\ cpu[hiloM.cpu].fase = "K23" \/ bandeja[hiloM.cpu].cod \in {"P12", "P16"}
  BY DEF HiloMBien, CpusDe, TypeOK
<1>2. cpu[c].fase # "K23" => hiloM.cpu # c
  BY <1>1 DEF CpusEnFase
<1>3. ASSUME cpu[c].fase = "K23" PROVE hiloM.cpu = c /\ hiloM.pid = cpu[c].pid
  <2>1. hiloM.cpu = c /\ bandeja[c].cod \notin {"P12", "P13", "P16", "P14", "P15"}
    BY <1>3 DEF CpusEnFase
  <2>2. bandeja[c].pid = Nadie
    BY <2>1 DEF CpusEnFase, TypeOK, Mensajes
  <2> QED
    BY <1>1, <2>1, <2>2, NadieAparte DEF CpusDe
<1> QED
  BY <1>1, <1>2, <1>3

LEMMA ExclusionRespuestaKernel ==
  ASSUME IInv, AInv, ExclusionInv, Cumplidos, Cumplidos', NEW c \in Cpus, RespuestaKernel(c)
  PROVE  ExclusionInv'
<1> SUFFICES ASSUME NEW p, p = cpu[c].pid, NEW n, n = cpu[c].pc PROVE ExclusionInv'
  OBVIOUS
<1>1. SoloCpu
  BY DEF RespuestaKernel, SoloCpu, listas
<1>2. /\ cpu[c].fase \in {"OK", "K23"}
      /\ Sigue(c, p, n)
  <2>1. \/ cpu[c].fase = "OK"  /\ Instruccion(c, "continuar")
        \/ cpu[c].fase = "K23" /\ Instruccion(c, "P16")
    BY DEF RespuestaKernel
  <2> QED
    BY <2>1, InstruccionEs
<1>3. p \in Pids /\ n \in Nat /\ pcb' = pcb /\ hiloM' = hiloM
  BY <1>1, <1>2 DEF Sigue, SoloCpu
<1>4. n + 1 <= Len(Guion[p])
  <2>1. n + 1 < Len(Guion[p])
    BY <1>2, <1>3 DEF AInv, EnMarcha
  <2> QED
    BY <1>3, <2>1, GuionLargo
<1>5. CASE cpu[c].fase = "OK"
  <2>1. hiloM.pc = "K23" => hiloM.cpu \in Cpus /\ hiloM.cpu # c
    BY <1>5, EnK23
  <2>2. Hechas(p) = n + 1 /\ Hechas(p)' = n + 1
    BY <1>2, <1>3, <1>5, HechasSigue
  <2>3. \A t \in Sems : PorBloquear(p, t)' <=> PorBloquear(p, t)
    <3>1. hiloM.pc = "K23" => bandeja'[hiloM.cpu] = bandeja[hiloM.cpu]
      BY <1>2, <2>1 DEF Sigue
    <3> QED
      BY <1>3, <3>1 DEF PorBloquear
  <2>4. \A t \in Sems : Contado(p, t)' = Contado(p, t)
    BY <2>2, <2>3, ContadoIgual
  <2> QED
    BY <1>1, <1>2, <1>4, <2>1, <2>4, ExclusionSigue
<1>6. CASE cpu[c].fase = "K23"
  <2>1. hiloM.pc = "K23" /\ hiloM.cpu = c /\ hiloM.pid = p
    <3>1. hiloM.pc = "K23"
      BY <1>6 DEF IInv, CpusEnFase
    <3> QED
      BY <1>6, <3>1, EnK23
  <2>2. cpu'[c].pid = Nadie /\ bandeja'[c].pid = p
    <3>1. Instruccion(c, "P16")
      BY <1>6 DEF RespuestaKernel
    <3>2. cpu \in [Cpus -> [fase : {"libre", "corre", "espera", "OK", "K23"},
                            pid : Pids \cup {Nadie}, pc : Nat, inst : Nat]]
      BY DEF IInv, TypeOK
    <3>3. cpu'[c].pid = Nadie
      BY <3>1, <3>2 DEF Instruccion, Ocioso
    <3> QED
      BY <1>2, <1>3, <3>3, NadieAparte DEF Sigue
  <2>3. Hechas(p) = n /\ Hechas(p)' = n + 1
    <3>1. Hechas(p) = n + 0 /\ Hechas(p)' = n + 1
      BY <1>2, <1>3, <1>6, HechasSigue
    <3> QED
      BY <1>3, <3>1
  <2>4. Guion[p][n + 1] = [op |-> "wait", sem |-> hiloM.sem]
    BY <2>1 DEF ExclusionInv, Pedidos, K23Bien
  <2>5. ASSUME NEW t \in Sems PROVE Contado(p, t)' = Contado(p, t)
    <3>1. Saldo(p, t, Hechas(p))' = Saldo(p, t, n + 1) /\ Saldo(p, t, Hechas(p)) = Saldo(p, t, n)
      BY <2>3 DEF Saldo, Veces
    <3>2. ~ PorBloquear(p, t)
      BY <1>2, <1>3, <2>1, NadieAparte DEF PorBloquear, Sigue
    <3>3. PorBloquear(p, t)' <=> t = hiloM.sem
      BY <1>3, <2>1, <2>2 DEF PorBloquear
    <3>4. CASE t = hiloM.sem
      <4>1. Saldo(p, t, n) \in Int /\ Saldo(p, t, n + 1) = Saldo(p, t, n) + 1
        BY <1>3, <2>4, <3>4, SaldoInstruccion
      <4> QED
        BY <3>1, <3>2, <3>3, <3>4, <4>1 DEF Contado
    <3>5. CASE t # hiloM.sem
      <4>1. /\ Guion[p][n + 1] # [op |-> "wait", sem |-> t]
          /\ Guion[p][n + 1] # [op |-> "signal", sem |-> t]
        BY <2>4, <3>5, OtraInstruccion
      <4>2. Saldo(p, t, n + 1) = Saldo(p, t, n)
        BY <1>3, <4>1, SaldoInstruccion
      <4> QED
        BY <3>1, <3>2, <3>3, <3>5, <4>2 DEF Contado
    <3> QED
      BY <3>4, <3>5
  <2> QED
    BY <1>1, <1>2, <1>4, <2>1, <2>2, <2>5, ExclusionSigue
<1> QED
  BY <1>2, <1>5, <1>6

LEMMA ExclusionEjecutar ==
  ASSUME IInv, ExclusionInv, Cumplidos, Cumplidos', NEW c \in Cpus, Ejecutar(c)
  PROVE  ExclusionInv'
<1> SUFFICES ASSUME NEW p, p = cpu[c].pid, NEW n, n = cpu[c].pc,
                    NEW i, i = Guion[p][n + 1]
             PROVE  ExclusionInv'
  OBVIOUS
<1>1. /\ cpu[c].fase = "corre" /\ n < Len(Guion[p]) /\ SoloCpu
  BY DEF Ejecutar, SoloCpu, listas
<1>2. p \in Pids /\ p # Nadie /\ n \in Nat /\ c \in CpusDe(p)
  <2>1. p \in Pids \cup {Nadie} /\ p # Nadie /\ n \in Nat
    BY <1>1 DEF IInv, TypeOK, CpusEnFase
  <2> QED
    BY <2>1 DEF CpusDe
<1>3. i \in Instrucciones /\ n + 1 <= Len(Guion[p])
  <2>1. n + 1 \in DOMAIN Guion[p] /\ n + 1 <= Len(Guion[p])
    BY <1>1, <1>2, GuionLargo
  <2> QED
    BY <1>2, <2>1, GuionLargo, ElementOfSeq
<1>4. hiloM.pc = "K23" => hiloM.cpu \in Cpus /\ hiloM.cpu # c
  BY <1>1, EnK23
<1>5. pcb' = pcb /\ hiloM' = hiloM /\ bloqueados' = bloqueados /\ valor' = valor /\ cola' = cola
  BY <1>1 DEF SoloCpu
<1>6. CASE i.op \in {"otra", "fin"}
  <2>1. \E accion \in {"continuar", "P13", "P16"} : Instruccion(c, accion)
    BY <1>6 DEF Ejecutar
  <2>2. Sigue(c, p, n)
    BY <1>1, <2>1, InstruccionEs
  <2>3. Hechas(p) = n /\ Hechas(p)' = n + 1
    <3>1. Hechas(p) = n + 0 /\ Hechas(p)' = n + 1
      BY <1>1, <1>5, <2>2, HechasSigue
    <3> QED
      BY <1>2, <3>1
  <2>4. \A t \in Sems : PorBloquear(p, t)' <=> PorBloquear(p, t)
    <3>1. hiloM.pc = "K23" => bandeja'[hiloM.cpu] = bandeja[hiloM.cpu]
      BY <1>4, <2>2 DEF Sigue
    <3> QED
      BY <1>5, <3>1 DEF PorBloquear
  <2>5. ASSUME NEW t \in Sems PROVE Contado(p, t)' = Contado(p, t)
    <3>1. i # [op |-> "wait", sem |-> t] /\ i # [op |-> "signal", sem |-> t]
      BY <1>6
    <3>2. Saldo(p, t, n + 1) = Saldo(p, t, n)
      BY <1>2, <3>1, SaldoInstruccion
    <3>3. Saldo(p, t, Hechas(p))' = Saldo(p, t, n + 1) /\ Saldo(p, t, Hechas(p)) = Saldo(p, t, n)
      BY <2>3 DEF Saldo, Veces
    <3> QED
      BY <2>4, <3>2, <3>3 DEF Contado
  <2> QED
    BY <1>1, <1>3, <1>4, <2>2, <2>5, ExclusionSigue
<1>7. CASE i.op \in {"wait", "signal"}
  <2>1. \/ i.op = "wait" /\ Pedir(c, "P14", i.sem)
        \/ i.op = "signal" /\ Pedir(c, "P15", i.sem)
    BY <1>7 DEF Ejecutar
  <2>2. PICK m \in {"P14", "P15"} : /\ Pedir(c, m, i.sem)
                                    /\ m = "P14" <=> i.op = "wait"
                                    /\ m = "P15" <=> i.op = "signal"
    BY <2>1
  <2>3. /\ bandeja'[c].cod = m /\ bandeja'[c].pid = Nadie /\ bandeja'[c].sem = i.sem
        /\ bandeja[c].pid = Nadie
        /\ \A d \in Cpus \ {c} : bandeja'[d] = bandeja[d]
    <3>1. bandeja[c].pid = Nadie
      BY <1>1, <1>2 DEF IInv, CpusEnFase, TypeOK, Mensajes
    <3> QED
      BY <2>2, <3>1 DEF Pedir, IInv, TypeOK
  <2>4. /\ cpu'[c].pid = p /\ cpu'[c].pc = n /\ cpu'[c].fase = "espera"
        /\ \A d \in Cpus \ {c} : cpu'[d] = cpu[d]
    <3>1. cpu' = [cpu EXCEPT ![c] = [cpu[c] EXCEPT !.fase = "espera"]]
      BY <2>2 DEF Pedir
    <3>2. /\ cpu \in [Cpus -> [fase : {"libre", "corre", "espera", "OK", "K23"},
                               pid : Pids \cup {Nadie}, pc : Nat, inst : Nat]]
          /\ cpu[c] \in [fase : {"libre", "corre", "espera", "OK", "K23"},
                         pid : Pids \cup {Nadie}, pc : Nat, inst : Nat]
      BY DEF IInv, TypeOK
    <3>3. /\ [cpu[c] EXCEPT !.fase = "espera"].pid = p
          /\ [cpu[c] EXCEPT !.fase = "espera"].pc = n
          /\ [cpu[c] EXCEPT !.fase = "espera"].fase = "espera"
      BY <3>2
    <3> QED
      BY <3>1, <3>2, <3>3
  <2>5. ASSUME NEW q \in Pids PROVE Hechas(q)' = Hechas(q)
    <3>1. \A d \in Cpus : bandeja[d].pid = q => bandeja'[d] = bandeja[d]
      BY <2>3, NadieAparte
    <3>2. \A d \in Cpus : cpu'[d].pid = q \/ bandeja'[d].pid = q => d \in CpusDe(q)
      BY <2>3, <2>4, NadieAparte DEF CpusDe
    <3>3. \A d \in Cpus : cpu[d].pid = q =>
            cpu'[d].pid = q /\ cpu'[d].pc = cpu[d].pc /\ (cpu'[d].fase = "OK" <=> cpu[d].fase = "OK")
      BY <1>1, <2>4
    <3> QED
      BY <1>5, <3>1, <3>2, <3>3, HechasIgual
  <2>6. Pedidos'
    <3>1. PideBien(c)'
      <4>1. i = [op |-> i.op, sem |-> i.sem]
        BY <1>3 DEF Instrucciones
      <4> QED
        BY <2>2, <2>3, <2>4, <4>1 DEF PideBien
    <3>2. K23Bien'
      <4>1. hiloM.pc = "K23" => /\ bandeja'[hiloM.cpu] = bandeja[hiloM.cpu]
                                /\ cpu'[hiloM.cpu] = cpu[hiloM.cpu]
        BY <1>4, <2>3, <2>4
      <4> QED
        BY <1>5, <4>1 DEF ExclusionInv, Pedidos, K23Bien
    <3>3. Pedidos /\ \A d \in Cpus \ {c} : cpu'[d].pid = cpu[d].pid /\ cpu'[d].pc = cpu[d].pc
                                           /\ bandeja'[d] = bandeja[d]
      BY <2>3, <2>4 DEF ExclusionInv
    <3> QED
      BY <3>1, <3>2, <3>3, PedidosDeOtros
  <2>7. \A q \in Pids, t \in Sems : PorBloquear(q, t)' <=> PorBloquear(q, t)
    <3>1. hiloM.pc = "K23" => bandeja'[hiloM.cpu] = bandeja[hiloM.cpu]
      BY <1>4, <2>3
    <3> QED
      BY <1>5, <3>1 DEF PorBloquear
  <2>8. HechasBien'
    BY <2>5 DEF ExclusionInv, HechasBien
  <2>9. Quieta
    BY <1>5, <2>5, <2>7, ContadoIgual DEF Quieta, ExclusionInv, EnCola
  <2> QED
    BY <2>6, <2>8, <2>9, ExclusionQuieta
<1>8. i.op \in {"wait", "signal", "otra", "fin"}
  BY <1>3 DEF Instrucciones
<1> QED
  BY <1>6, <1>7, <1>8

LEMMA ExclusionPaso ==
  ASSUME SinSenalesDeMas, IInv, IInv', AInv, QuantumLimpio, ExclusionInv, Cumplidos, Cumplidos',
         [Next]_vars
  PROVE  ExclusionInv'
<1>1. \A s \in Sems : IsInjective(cola[s])
  BY DEF ExclusionInv, EnCola
<1>2. CASE C01 \/ PedirMemoria \/ AnotarDespacho
  <2>1. UNCHANGED <<cpu, bandeja, pcb, bloqueados, valor, hiloM, cola>>
    BY <1>2 DEF C01, PedirMemoria, AnotarDespacho
  <2> QED
    BY <1>1, <2>1, ExclusionIgual
<1>3. CASE AgregarNuevaProg
  BY <1>3, ExclusionAgregarNuevaProg
<1>4. CASE Despachar
  BY <1>4, ExclusionDespachar
<1>5. CASE FinalizarQuantum
  <2>1. /\ UNCHANGED <<cpu, bandeja, pcb, bloqueados, valor, cola>>
        /\ hiloM.pc = "P12" /\ hiloM' = EnSelect
    BY <1>5 DEF FinalizarQuantum
  <2> QED
    BY <1>1, <2>1, ExclusionIgual DEF EnSelect
<1>6. CASE FinalizarProceso
  BY <1>6, ExclusionFinalizarProceso
<1>7. CASE BloquearProceso
  BY <1>7, ExclusionBloquearProceso
<1>8. ASSUME NEW c \in Cpus, AgregarCpu(c) PROVE ExclusionInv'
  <2>1. UNCHANGED <<cpu, bandeja, pcb, bloqueados, valor, hiloM, cola>>
    BY <1>8 DEF AgregarCpu, listas
  <2> QED
    BY <1>1, <2>1, ExclusionIgual
<1>9. ASSUME NEW c \in Cpus, P12(c) \/ P13(c) PROVE ExclusionInv'
  BY <1>9, ExclusionDevuelvePcb DEF P12, P13
<1>10. ASSUME NEW c \in Cpus, P14(c) \/ P15(c) PROVE ExclusionInv'
  BY <1>10, ExclusionP14, ExclusionP15
<1>11. ASSUME NEW c \in Cpus, Ejecutar(c) \/ RespuestaKernel(c) PROVE ExclusionInv'
  BY <1>11, ExclusionEjecutar, ExclusionRespuestaKernel
<1>12. CASE UNCHANGED vars
  <2>1. UNCHANGED <<cpu, bandeja, pcb, bloqueados, valor, hiloM, cola>>
    BY <1>12 DEF vars
  <2> QED
    BY <1>1, <2>1, ExclusionIgual
<1> QED
  BY <1>2, <1>3, <1>4, <1>5, <1>6, <1>7, <1>8, <1>9, <1>10, <1>11, <1>12 DEF Next

LEMMA ExclusionInicio == Init => ExclusionInv
<1> SUFFICES ASSUME Init PROVE ExclusionInv
  OBVIOUS
<1>1. IInv
  BY Inicio
<1>2. Cumplidos
  BY <1>1, CumplidosSiempre
<1>3. \A p \in Pids : Hechas(p) = 0 /\ ~ (\E s : PorBloquear(p, s) \/ BloqueadoEn(p, s))
  <2> SUFFICES ASSUME NEW p \in Pids
               PROVE  Hechas(p) = 0 /\ ~ (\E s : PorBloquear(p, s) \/ BloqueadoEn(p, s))
    OBVIOUS
  <2>1. CpusDe(p) = {} /\ pcb[p].pc = 0
    BY NadieAparte DEF Init, CpusDe, Ocioso, Vacia
  <2>2. Hechas(p) = 0
    BY <1>2, <2>1 DEF Cumplidos
  <2> QED
    BY <2>2 DEF Init, PorBloquear, BloqueadoEn, EnSelect
<1>4. Pedidos
  BY DEF Init, Pedidos, PideBien, K23Bien, Vacia, EnSelect
<1>5. EnCola
  BY DEF Init, EnCola, IsInjective, ToSet
<1>6. HechasBien
  BY <1>3, GuionLargo DEF HechasBien
<1>7. ASSUME NEW s \in Sems PROVE ValorBien(s)
  <2>1. \A p \in Pids : Contado(p, s) = 0
    <3> SUFFICES ASSUME NEW p \in Pids PROVE Contado(p, s) = 0
      OBVIOUS
    <3>1. Veces(p, s, "wait", 0) = {} /\ Veces(p, s, "signal", 0) = {}
      BY DEF Veces
    <3>2. Saldo(p, s, 0) = 0
      BY <3>1, FS_EmptySet DEF Saldo
    <3> QED
      BY <1>3, <3>2 DEF Contado
  <2>2. Prendas(Contados(s)) = {} /\ Prendas(Pasados(s)) = {}
    BY <1>3, <2>1 DEF Prendas, Contados, Pasados
  <2>3. valor[s] = SemInit[s]
    BY DEF Init
  <2> QED
    BY <2>2, <2>3, FS_EmptySet DEF ValorBien
<1> QED
  BY <1>4, <1>5, <1>6, <1>7 DEF ExclusionInv, Valores

(* Whoever is inside has a token of those that are not blocked.             *)
LEMMA SeccionEs ==
  ASSUME Cumplidos, HechasBien, NEW p \in Pids, NEW s \in Sems, EnSeccion(p, s)
  PROVE  Pasados(s)[p] >= 1
<1> DEFINE n == Hechas(p)
           hechas == SubSeq(Guion[p], 1, n)
<1>1. n \in Nat /\ n <= Len(Guion[p])
  BY DEF Cumplidos, HechasBien
<1> HIDE DEF n
<1>2. /\ DOMAIN hechas = 1 .. n
      /\ \A i \in 1 .. n : hechas[i] = Guion[p][i]
  <2>1. Len(hechas) = n /\ hechas \in Seq(Instrucciones)
        /\ \A i \in 1 .. n : hechas[i] = Guion[p][i]
    BY <1>1, GuionLargo
  <2> QED
    BY <2>1, LenProperties
<1>3. \A op : {i \in DOMAIN hechas : hechas[i] = [op |-> op, sem |-> s]} = Veces(p, s, op, n)
  BY <1>2 DEF Veces
<1>4. /\ p \notin bloqueados /\ ~ (hiloM.pc = "K23" /\ hiloM.pid = p)
      /\ Cardinality({i \in DOMAIN hechas : hechas[i] = [op |-> "wait", sem |-> s]})
           > Cardinality({i \in DOMAIN hechas : hechas[i] = [op |-> "signal", sem |-> s]})
  BY DEF EnSeccion, n, Hechas, Contestada
<1>5. Cardinality(Veces(p, s, "wait", n)) > Cardinality(Veces(p, s, "signal", n))
  <2> HIDE DEF hechas
  <2> QED
    BY <1>3, <1>4
<1>6. Saldo(p, s, n) >= 1
  BY <1>1, <1>5, VecesFinitas DEF Saldo
<1>7. ~ PorBloquear(p, s) /\ ~ BloqueadoEn(p, s)
  BY <1>4 DEF PorBloquear, BloqueadoEn
<1>8. Contado(p, s) >= 1
  <2>1. Saldo(p, s, n) \in Int
    BY <1>1, SaldoSigue
  <2> QED
    BY <1>6, <1>7, <2>1 DEF Contado, n
<1>9. Contado(p, s) \in Int /\ Pasados(s)[p] = Contado(p, s) - 0
  BY <1>7, FuncionesEnteras DEF Enteros
<1> QED
  BY <1>8, <1>9

LEMMA ExclusionResulta ==
  ASSUME Cumplidos, ExclusionInv
  PROVE  ExclusionMutua
<1> SUFFICES ASSUME NEW s \in Sems, SemInit[s] = 1
             PROVE  Cardinality({p \in Pids : EnSeccion(p, s)}) <= 1
  BY DEF ExclusionMutua
<1> DEFINE D == {p \in Pids : EnSeccion(p, s)}
           T == Prendas(Pasados(s))
           f == [p \in D |-> <<p, 1>>]
<1>1. Pasados(s) \in [Pids -> Int]
  BY FuncionesEnteras DEF Enteros
<1>2. IsFiniteSet(T) /\ Cardinality(T) \in Nat
  BY <1>1, PrendasFinitas
<1>3. \A p \in D : <<p, 1>> \in T
  <2> SUFFICES ASSUME NEW p \in D PROVE <<p, 1>> \in T
    OBVIOUS
  <2>1. Pasados(s)[p] >= 1
    BY SeccionEs DEF ExclusionInv
  <2> QED
    BY <2>1 DEF Prendas
<1> HIDE DEF D, T
<1>4. f \in Injection(D, T)
  <2>1. f \in [D -> T]
    BY <1>3
  <2>2. \A p, q \in D : f[p] = f[q] => p = q
    OBVIOUS
  <2> QED
    BY <2>1, <2>2 DEF Injection, IsInjective
<1> HIDE DEF f
<1>5. IsFiniteSet(D) /\ Cardinality(D) <= Cardinality(T) /\ Cardinality(D) \in Nat
  BY <1>2, <1>4, FS_Injection, FS_CardinalityType
<1>6. Cardinality(T) <= 1
  BY DEF ExclusionInv, Valores, ValorBien, T
<1>7. Cardinality(D) <= 1
  BY <1>2, <1>5, <1>6
<1> QED
  BY <1>7 DEF D

-----------------------------------------------------------------------------
(* Theorems *)

(* A semaphore that starts at one is a mutex for the programs: of those     *)
(* whose wait has been answered, one at most has not signalled it yet.      *)
THEOREM ExclusionDeTodos ==
  ASSUME TerminaUnaVez, IsFiniteSet(Cpus), SinSenalesDeMas
  PROVE  Spec /\ []QuantumLimpio => []ExclusionMutua
<1>1. IInv => Cumplidos
  BY CumplidosSiempre
<1>2. /\ IInv /\ IInv' /\ AInv /\ QuantumLimpio /\ ExclusionInv
      /\ Cumplidos /\ Cumplidos' /\ [Next]_vars
      => ExclusionInv'
  BY ExclusionPaso
<1>3. Init => ExclusionInv
  BY ExclusionInicio
<1>4. Cumplidos /\ ExclusionInv => ExclusionMutua
  BY ExclusionResulta
<1> QED
  BY <1>1, <1>2, <1>3, <1>4, Invariante, AvanceFiel, PTL DEF Spec

(* The same of the programs that no quantum interrupts, with nothing to be  *)
(* assumed of an execution.                                                 *)
THEOREM ExclusionSinQuantum ==
  ASSUME TerminaUnaVez, IsFiniteSet(Cpus), SinSenalesDeMas, QuantumLargo
  PROVE  Spec => []ExclusionMutua
BY LimpioSinQuantum, ExclusionDeTodos, PTL

=============================================================================
