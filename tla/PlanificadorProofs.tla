------------------------- MODULE PlanificadorProofs -------------------------
(***************************************************************************)
(* Proofs about the scheduler: where a process can be, what a CPU can be   *)
(* running and what the semaphores of the three threads count, for any     *)
(* number of programs, CPUs and semaphores, any degree, quantum and        *)
(* algorithm, and any programs.                                            *)
(***************************************************************************)
EXTENDS Planificador, Lemas

-----------------------------------------------------------------------------
(* The inductive invariant *)

(* Nothing ever puts the NULL of an empty search on cola_listos. *)
ListosReales == listos \in Seq(Pids)

(* A process is in one place, and once. *)
Sitios ==
  /\ IsInjective(nuevos) /\ IsInjective(listos)
  /\ \A p \in Pids :
       /\ p \in ToSet(nuevos) =>
            /\ p \notin ToSet(listos) \cup ejecutando \cup bloqueados \cup finalizados
            /\ p \notin {hiloN, hiloL.pid}
       /\ p \in ToSet(listos) =>
            p \notin ejecutando \cup bloqueados \cup finalizados \cup {hiloN, hiloL.pid}
       /\ p \in ejecutando => p \notin bloqueados \cup finalizados \cup {hiloN, hiloL.pid}
       /\ p \in bloqueados => p \notin finalizados \cup {hiloN, hiloL.pid}
       /\ p \in finalizados => p \notin {hiloN, hiloL.pid}
       /\ hiloN = p => hiloL.pid # p

(* Pids are given in order, so the next one has not been used. *)
EnOrden == Ingresados = 1 .. Cardinality(Ingresados)

(* What a CPU is doing agrees with the message it has left. *)
CpusEnFase ==
  \A c \in Cpus :
    /\ cpu[c].fase = "libre" <=> cpu[c].pid = Nadie
    /\ bandeja[c].pid = Nadie <=> bandeja[c].cod \in {"nada", "P14", "P15"}
    /\ bandeja[c].cod \in {"P12", "P13", "P16"} => cpu[c].fase = "libre"
    /\ cpu[c].fase = "espera" <=> bandeja[c].cod \in {"P14", "P15"}
    /\ bandeja[c].cod \in {"P14", "P15"} => bandeja[c].sem \in Sems
    /\ cpu[c].fase = "K23" \/ bandeja[c].cod = "P16" => hiloM.pc = "K23" /\ hiloM.cpu = c

(* The process hiloL has sent goes to the first CPU that was free. *)
HiloLBien ==
  hiloL # SinDespacho =>
    /\ hiloL.pid \in Pids /\ ~ejec[hiloL.cpu]
    /\ \E k \in DOMAIN cpus : /\ cpus[k] = hiloL.cpu
                              /\ \A j \in 1 .. k - 1 : program[cpus[j]] # Nadie

(* The process hiloM has in hand is running: on the CPU it answered K23 to, *)
(* or on none any more once its PCB is back.                                *)
HiloMBien ==
  /\ hiloM.pc = "K23" =>
       /\ hiloM.pid \in ejecutando /\ hiloM.sem \in Sems
       /\ hiloM.cpu \in CpusDe(hiloM.pid)
       /\ cpu[hiloM.cpu].fase = "K23" \/ bandeja[hiloM.cpu].cod \in {"P12", "P16"}
  /\ hiloM.pc \in {"P12", "P13"} =>
       /\ hiloM.pid \in ejecutando /\ hiloM.cpu \in Cpus
       /\ CpusDe(hiloM.pid) = {}

(* A CPU is in the list once, and has had a program only if it is there. *)
Conexion ==
  /\ IsInjective(cpus)
  /\ \A c \in Cpus : ejec[c] => program[c] # Nadie
  /\ \A c \in Cpus \ ToSet(cpus) : program[c] = Nadie

(* CpuCorrecta without counting. *)
CpuUnica ==
  \A p \in Pids :
    /\ pcb[p].pid = p
    /\ \A c, d \in CpusDe(p) : c = d
    /\ \A c \in CpusDe(p) : \/ p \in ejecutando /\ program[c] = p /\ ejec[c]
                            \/ hiloL = [pid |-> p, cpu |-> c]

(* The CPUs of the list that are free: those the semaphore still counts,    *)
(* the one hiloL has taken and the one hiloM has not posted.                *)
Desocupadas(q, e) == {i \in DOMAIN q : ~e[q[i]]}
EnManos == IF hiloL = SinDespacho THEN 0 ELSE 1
PorPostear == IF hiloM.pc \in {"P12", "P13"} THEN 1 ELSE 0

Cuentas ==
  /\ sem.nuevos = Len(nuevos) /\ sem.listos = Len(listos)
  /\ sem.cpus + EnManos + PorPostear = Cardinality(Desocupadas(cpus, ejec))

IInv ==
  /\ TypeOK /\ ListosReales /\ Sitios /\ EnOrden
  /\ CpusEnFase /\ HiloLBien /\ HiloMBien /\ Conexion /\ CpuUnica
  /\ ProgramasPrimero /\ Cuentas /\ GradoExacto

-----------------------------------------------------------------------------
(* Constants and sets *)

LEMMA NadieAparte == /\ Nadie \notin Pids /\ Nadie \notin Cpus /\ Nadie \notin Sems
                     /\ IsFiniteSet(Pids) /\ Pids \subseteq Nat \ {0}
                     /\ Cardinality(Pids) \in Nat /\ Pids = 1 .. Cardinality(Pids)
<1>1. IsFiniteSet(Pids) /\ Pids = 1 .. Cardinality(Pids)
  BY PlanificadorOK
<1>2. Cardinality(Pids) \in Nat
  BY <1>1, FS_CardinalityType
<1> QED
  BY <1>1, <1>2, PlanificadorOK

(* The processes of the system, place by place. *)
LEMMA SistemaEs ==
  ASSUME TypeOK, ListosReales, Sitios
  PROVE  /\ EnSistema = ToSet(listos) \cup ejecutando \cup bloqueados
                        \cup ({hiloN, hiloL.pid} \ {Nadie})
         /\ Ingresados \subseteq Pids /\ EnSistema \subseteq Pids
         /\ IsFiniteSet(Ingresados) /\ IsFiniteSet(EnSistema)
         /\ Cardinality(Ingresados) \in Nat /\ Cardinality(EnSistema) \in Nat
<1>1. ToSet(nuevos) \subseteq Pids /\ ToSet(listos) \subseteq Pids
  BY ToSetElemento DEF TypeOK, ListosReales
<1>2. /\ hiloN \in Pids \cup {Nadie} /\ hiloL.pid \in Pids \cup {Nadie}
      /\ ejecutando \subseteq Pids /\ bloqueados \subseteq Pids /\ finalizados \subseteq Pids
  BY DEF TypeOK
<1>3. Ingresados \subseteq Pids /\ EnSistema \subseteq Pids
  BY <1>1, <1>2 DEF Ingresados, EnSistema
<1>4. EnSistema = ToSet(listos) \cup ejecutando \cup bloqueados
                  \cup ({hiloN, hiloL.pid} \ {Nadie})
  BY <1>1, <1>2 DEF Sitios, EnSistema, Ingresados
<1>5. IsFiniteSet(Ingresados) /\ IsFiniteSet(EnSistema)
  BY <1>3, NadieAparte, FS_Subset
<1> QED
  BY <1>3, <1>4, <1>5, FS_CardinalityType

-----------------------------------------------------------------------------
(* The initial state *)

LEMMA Inicio == Init => IInv
<1> SUFFICES ASSUME Init PROVE IInv
  OBVIOUS
<1> USE NadieAparte
<1>1. TypeOK /\ ListosReales
  <2>1. /\ nuevos \in Seq(Pids) /\ listos \in Seq(Pids) /\ listos \in Seq(Pids \cup {Nadie})
        /\ cpus \in Seq(Cpus) /\ cola \in [Sems -> Seq(Pids)]
    BY DEF Init
  <2>2. /\ sem \in [{"nuevos", "listos", "cpus", "grado"} -> Nat]
        /\ valor \in [Sems -> Int] /\ pcb \in [Pids -> [pid : Pids, pc : Nat]]
    BY PlanificadorOK DEF Init
  <2>3. /\ ejec \in [Cpus -> BOOLEAN] /\ program \in [Cpus -> Pids \cup {Nadie}]
        /\ cpu \in [Cpus -> [fase : {"libre", "corre", "espera", "OK", "K23"},
                             pid : Pids \cup {Nadie}, pc : Nat, inst : Nat]]
        /\ bandeja \in [Cpus -> [cod : Mensajes, pid : Pids \cup {Nadie}, pc : Nat,
                                 sem : Sems \cup {Nadie}]]
    BY DEF Init, Ocioso, Vacia, Mensajes
  <2> QED
    BY <2>1, <2>2, <2>3 DEF Init, TypeOK, ListosReales, SinDespacho, EnSelect
<1>2. ToSet(<<>>) = {} /\ IsInjective(<<>>)
  BY DEF ToSet, IsInjective
<1>3. Sitios
  BY <1>2 DEF Init, Sitios, SinDespacho
<1>4. Ingresados = {} /\ EnSistema = {}
  BY <1>2 DEF Init, Ingresados, EnSistema, SinDespacho
<1>5. EnOrden /\ GradoExacto
  BY <1>4, FS_EmptySet, PlanificadorOK DEF Init, EnOrden, GradoExacto
<1>6. CpusEnFase
  BY DEF Init, CpusEnFase, Ocioso, Vacia
<1>7. HiloLBien /\ HiloMBien
  BY DEF Init, HiloLBien, HiloMBien, EnSelect
<1>8. Conexion
  BY <1>2 DEF Init, Conexion
<1>9. CpuUnica
  BY DEF Init, CpuUnica, CpusDe, Ocioso, Vacia
<1>10. ProgramasPrimero
  BY DEF Init, ProgramasPrimero
<1>11. Cuentas
  <2>1. Desocupadas(cpus, ejec) = {}
    BY DEF Init, Desocupadas
  <2>2. EnManos = 0 /\ PorPostear = 0
    BY DEF Init, EnManos, PorPostear, EnSelect
  <2>3. Cardinality(Desocupadas(cpus, ejec)) = 0
    BY <2>1, FS_EmptySet
  <2> QED
    BY <2>2, <2>3 DEF Init, Cuentas
<1> QED
  BY <1>1, <1>3, <1>5, <1>6, <1>7, <1>8, <1>9, <1>10, <1>11 DEF IInv

-----------------------------------------------------------------------------
(* The steps, one lemma each *)

(* The semaphores of the threads after a post or a wait. *)
LEMMA SemaforosTipo ==
  ASSUME TypeOK, NEW cuales
  PROVE  /\ \A k \in {"nuevos", "listos", "cpus", "grado"} :
              /\ sem[k] \in Nat
              /\ Postear(sem, cuales)[k] = IF k \in cuales THEN sem[k] + 1 ELSE sem[k]
              /\ Esperar(sem, cuales)[k] = IF k \in cuales THEN sem[k] - 1 ELSE sem[k]
         /\ Postear(sem, cuales) \in [{"nuevos", "listos", "cpus", "grado"} -> Nat]
         /\ (\A k \in cuales : sem[k] > 0) =>
              Esperar(sem, cuales) \in [{"nuevos", "listos", "cpus", "grado"} -> Nat]
<1> DEFINE K == {"nuevos", "listos", "cpus", "grado"}
<1>1. DOMAIN sem = K /\ \A k \in K : sem[k] \in Nat
  BY DEF TypeOK
<1> HIDE DEF K
<1>2. Postear(sem, cuales) = [k \in K |-> IF k \in cuales THEN sem[k] + 1 ELSE sem[k]]
  BY <1>1 DEF Postear
<1>3. Esperar(sem, cuales) = [k \in K |-> IF k \in cuales THEN sem[k] - 1 ELSE sem[k]]
  BY <1>1 DEF Esperar
<1>4. \A k \in K : sem[k] + 1 \in Nat /\ (sem[k] > 0 => sem[k] - 1 \in Nat)
  BY <1>1
<1>5. /\ \A k \in K : /\ Postear(sem, cuales)[k] = IF k \in cuales THEN sem[k] + 1 ELSE sem[k]
                     /\ Esperar(sem, cuales)[k] = IF k \in cuales THEN sem[k] - 1 ELSE sem[k]
  BY <1>2, <1>3
<1>6. Postear(sem, cuales) \in [K -> Nat]
  BY <1>1, <1>2, <1>4
<1>7. ASSUME \A k \in cuales : sem[k] > 0 PROVE Esperar(sem, cuales) \in [K -> Nat]
  <2>1. \A k \in K : (IF k \in cuales THEN sem[k] - 1 ELSE sem[k]) \in Nat
    BY <1>1, <1>4, <1>7
  <2> QED
    BY <1>3, <2>1
<1> QED
  BY <1>1, <1>5, <1>6, <1>7 DEF K

LEMMA PasoC01 == IInv /\ C01 => IInv'
<1> SUFFICES ASSUME IInv, C01 PROVE IInv'
  OBVIOUS
<1> DEFINE p == UltimoPid
<1> USE DEF IInv
<1>1. /\ p \in Pids /\ p \notin Ingresados
      /\ Ingresados \cup {p} = 1 .. Cardinality(Ingresados) + 1
      /\ Cardinality(Ingresados) \in Nat
  <2>1. Cardinality(Ingresados) \in Nat
    BY SistemaEs
  <2>2. p = Cardinality(Ingresados) + 1 /\ p \in Pids
    BY DEF C01, UltimoPid
  <2> HIDE DEF p
  <2> QED
    BY <2>1, <2>2 DEF EnOrden
<1> HIDE DEF p
<1>2. /\ nuevos' = Append(nuevos, p) /\ sem' = Postear(sem, {"nuevos"})
      /\ UNCHANGED <<listos, ejecutando, bloqueados, finalizados, cpus, ejec, program, valor,
                     cola, pcb, hiloN, hiloL, hiloM, cpu, bandeja, caido>>
  BY DEF C01, p
<1>3. /\ p \notin ToSet(nuevos) \cup ToSet(listos) \cup ejecutando \cup bloqueados \cup finalizados
      /\ p # hiloN /\ p # hiloL.pid
  BY <1>1, NadieAparte DEF Ingresados
<1>4. /\ nuevos' \in Seq(Pids) /\ Len(nuevos') = Len(nuevos) + 1
      /\ ToSet(nuevos') = ToSet(nuevos) \cup {p}
      /\ IsInjective(nuevos')
  BY <1>1, <1>2, <1>3, AlFinal DEF TypeOK, Sitios
<1>5. /\ sem' \in [{"nuevos", "listos", "cpus", "grado"} -> Nat]
      /\ sem'.nuevos = sem.nuevos + 1
      /\ sem'.listos = sem.listos /\ sem'.cpus = sem.cpus /\ sem'.grado = sem.grado
  BY <1>2, SemaforosTipo
<1>6. TypeOK' /\ ListosReales'
  BY <1>2, <1>4, <1>5 DEF TypeOK, ListosReales
<1>7. Sitios'
  BY <1>2, <1>3, <1>4 DEF Sitios
<1>8. Ingresados' = Ingresados \cup {p} /\ EnSistema' = EnSistema
  BY <1>1, <1>2, <1>4 DEF Ingresados, EnSistema
<1>9. EnOrden'
  <2>1. Cardinality(Ingresados') = Cardinality(Ingresados) + 1
    BY <1>1, <1>8, FS_AddElement, SistemaEs
  <2> QED
    BY <1>1, <1>8, <2>1 DEF EnOrden
<1>10. CpusEnFase' /\ HiloLBien' /\ HiloMBien' /\ Conexion' /\ CpuUnica' /\ ProgramasPrimero'
  BY <1>2 DEF CpusEnFase, HiloLBien, HiloMBien, Conexion, CpuUnica, ProgramasPrimero, CpusDe
<1>11. Cuentas' /\ GradoExacto'
  BY <1>2, <1>4, <1>5, <1>8 DEF Cuentas, EnManos, PorPostear, GradoExacto
<1> QED
  BY <1>6, <1>7, <1>9, <1>10, <1>11

LEMMA DesocupadasFinitas ==
  ASSUME NEW q \in Seq(Cpus), NEW e \in [Cpus -> BOOLEAN]
  PROVE  /\ IsFiniteSet(Desocupadas(q, e)) /\ Cardinality(Desocupadas(q, e)) \in Nat
         /\ Desocupadas(q, e) \subseteq 1 .. Len(q)
<1>1. Desocupadas(q, e) \subseteq 1 .. Len(q) /\ Len(q) \in Nat
  BY LenProperties DEF Desocupadas
<1>2. IsFiniteSet(1 .. Len(q))
  BY <1>1, FS_Interval
<1> QED
  BY <1>1, <1>2, FS_Subset, FS_CardinalityType

LEMMA DesocupadasAlFinal ==
  ASSUME NEW q \in Seq(Cpus), NEW e \in [Cpus -> BOOLEAN], NEW c \in Cpus, ~e[c]
  PROVE  Cardinality(Desocupadas(Append(q, c), e)) = Cardinality(Desocupadas(q, e)) + 1
<1>1. Desocupadas(Append(q, c), e) = Desocupadas(q, e) \cup {Len(q) + 1}
  BY AppendProperties, LenProperties DEF Desocupadas
<1>2. Len(q) + 1 \notin Desocupadas(q, e)
  BY LenProperties DEF Desocupadas
<1> QED
  BY <1>1, <1>2, DesocupadasFinitas, FS_AddElement

(* One CPU of the list that changes hands changes the count by one. *)
LEMMA DesocupadasCambia ==
  ASSUME NEW q \in Seq(Cpus), IsInjective(q), NEW c \in ToSet(q),
         NEW e \in [Cpus -> BOOLEAN], NEW f \in [Cpus -> BOOLEAN],
         e[c], ~f[c], \A d \in Cpus \ {c} : f[d] = e[d]
  PROVE  Cardinality(Desocupadas(q, f)) = Cardinality(Desocupadas(q, e)) + 1
<1>1. PICK k \in DOMAIN q : q[k] = c
  BY ToSetElemento
<1>2. \A i \in DOMAIN q : q[i] \in Cpus /\ (q[i] = c => i = k)
  BY <1>1, LenProperties DEF IsInjective
<1>3. Desocupadas(q, f) = Desocupadas(q, e) \cup {k}
  BY <1>1, <1>2 DEF Desocupadas
<1>4. k \notin Desocupadas(q, e)
  BY <1>1 DEF Desocupadas
<1> QED
  BY <1>3, <1>4, DesocupadasFinitas, FS_AddElement

LEMMA PasoAgregarCpu ==
  ASSUME IInv, NEW c \in Cpus, AgregarCpu(c)
  PROVE  IInv'
<1> USE DEF IInv
<1>1. /\ cpus' = Append(cpus, c) /\ sem' = Postear(sem, {"cpus"})
      /\ UNCHANGED <<nuevos, listos, ejecutando, bloqueados, finalizados, ejec, program, valor,
                     cola, pcb, hiloN, hiloL, hiloM, cpu, bandeja, caido>>
  BY DEF AgregarCpu, listas
<1>2. cpus \in Seq(Cpus) /\ ejec \in [Cpus -> BOOLEAN]
  BY DEF TypeOK
<1>3. c \notin ToSet(cpus) /\ program[c] = Nadie /\ ~ejec[c]
  BY <1>2, ToSetElemento DEF AgregarCpu, Conectada, Conexion
<1>4. /\ cpus' \in Seq(Cpus) /\ Len(cpus') = Len(cpus) + 1 /\ Len(cpus) \in Nat
      /\ ToSet(cpus') = ToSet(cpus) \cup {c} /\ IsInjective(cpus')
      /\ \A i \in 1 .. Len(cpus) : cpus'[i] = cpus[i]
      /\ cpus'[Len(cpus) + 1] = c
      /\ DOMAIN cpus = 1 .. Len(cpus) /\ DOMAIN cpus' = 1 .. Len(cpus) + 1
  BY <1>1, <1>2, <1>3, AlFinal, AppendProperties, LenProperties DEF Conexion
<1>5. /\ sem' \in [{"nuevos", "listos", "cpus", "grado"} -> Nat]
      /\ sem'.nuevos = sem.nuevos /\ sem.cpus \in Nat
      /\ sem'.listos = sem.listos /\ sem'.cpus = sem.cpus + 1 /\ sem'.grado = sem.grado
  BY <1>1, SemaforosTipo
<1>6. TypeOK' /\ ListosReales'
  BY <1>1, <1>4, <1>5 DEF TypeOK, ListosReales
<1>7. Sitios' /\ EnOrden' /\ CpusEnFase' /\ HiloMBien' /\ CpuUnica'
  <2>1. Sitios'
    BY <1>1 DEF Sitios
  <2>2. EnOrden'
    BY <1>1 DEF EnOrden, Ingresados
  <2>3. CpusEnFase' /\ HiloMBien'
    BY <1>1 DEF CpusEnFase, HiloMBien, CpusDe
  <2>4. CpuUnica'
    BY <1>1 DEF CpuUnica, CpusDe
  <2> QED
    BY <2>1, <2>2, <2>3, <2>4
<1>8. HiloLBien'
  BY <1>1, <1>4 DEF HiloLBien
<1>9. Conexion'
  BY <1>1, <1>3, <1>4 DEF Conexion
<1>10. ProgramasPrimero'
  BY <1>1, <1>3, <1>4 DEF ProgramasPrimero
<1>11. Cuentas'
  <2>1. Cardinality(Desocupadas(cpus', ejec)) = Cardinality(Desocupadas(cpus, ejec)) + 1
    BY <1>1, <1>2, <1>3, DesocupadasAlFinal
  <2>2. Cardinality(Desocupadas(cpus, ejec)) \in Nat
    BY <1>2, DesocupadasFinitas
  <2> QED
    BY <1>1, <1>5, <2>1, <2>2 DEF Cuentas, EnManos, PorPostear
<1>12. GradoExacto'
  BY <1>1, <1>5 DEF GradoExacto, EnSistema, Ingresados
<1> QED
  BY <1>6, <1>7, <1>8, <1>9, <1>10, <1>11, <1>12

LEMMA PasoPedirMemoria == IInv /\ PedirMemoria => IInv'
<1> SUFFICES ASSUME IInv, PedirMemoria PROVE IInv'
  OBVIOUS
<1> DEFINE p == Head(nuevos)
<1> USE DEF IInv
<1>1. /\ nuevos' = Tail(nuevos) /\ hiloN' = p /\ sem' = Esperar(sem, {"nuevos", "grado"})
      /\ hiloN = Nadie /\ sem.nuevos > 0 /\ sem.grado > 0
      /\ UNCHANGED <<listos, ejecutando, bloqueados, finalizados, cpus, ejec, program, valor,
                     cola, pcb, hiloL, hiloM, cpu, bandeja, caido>>
  BY DEF PedirMemoria
<1>2. nuevos \in Seq(Pids) /\ nuevos # <<>>
  BY <1>1, EmptySeq DEF TypeOK, Cuentas, EnManos, PorPostear
<1>3. /\ p \in Pids /\ p \in ToSet(nuevos) /\ nuevos' \in Seq(Pids)
      /\ Len(nuevos') = Len(nuevos) - 1 /\ Len(nuevos) \in Nat
      /\ IsInjective(nuevos') /\ ToSet(nuevos') = ToSet(nuevos) \ {p}
  BY <1>1, <1>2, SinPrimero, LenProperties DEF Sitios
<1> HIDE DEF p
<1>4. /\ p \notin ToSet(listos) \cup ejecutando \cup bloqueados \cup finalizados
      /\ p # hiloL.pid /\ p # Nadie
  BY <1>3, NadieAparte DEF Sitios
<1>5. /\ sem' \in [{"nuevos", "listos", "cpus", "grado"} -> Nat]
      /\ sem.grado \in Nat /\ sem.nuevos \in Nat
      /\ sem'.nuevos = sem.nuevos - 1 /\ sem'.listos = sem.listos
      /\ sem'.cpus = sem.cpus /\ sem'.grado = sem.grado - 1
  BY <1>1, SemaforosTipo
<1>6. TypeOK' /\ ListosReales'
  BY <1>1, <1>3, <1>5 DEF TypeOK, ListosReales
<1>7. Sitios'
  BY <1>1, <1>3, <1>4, NadieAparte DEF Sitios
<1>8. Ingresados' = Ingresados /\ EnOrden'
  <2>1. Ingresados' = Ingresados
    BY <1>1, <1>3, <1>4 DEF Ingresados
  <2> QED
    BY <2>1 DEF EnOrden
<1>9. CpusEnFase' /\ HiloLBien' /\ HiloMBien' /\ Conexion' /\ CpuUnica' /\ ProgramasPrimero'
  BY <1>1 DEF CpusEnFase, HiloLBien, HiloMBien, Conexion, CpuUnica, ProgramasPrimero, CpusDe
<1>10. Cuentas'
  BY <1>1, <1>3, <1>5 DEF Cuentas, EnManos, PorPostear
<1>11. GradoExacto'
  <2>1. EnSistema' = EnSistema \cup {p} /\ p \notin EnSistema
    BY <1>1, <1>3, <1>4, <1>8 DEF EnSistema, Ingresados
  <2>2. Cardinality(EnSistema') = Cardinality(EnSistema) + 1 /\ Cardinality(EnSistema) \in Nat
    BY <2>1, SistemaEs, FS_AddElement
  <2> QED
    BY <1>5, <2>2 DEF GradoExacto
<1> QED
  BY <1>6, <1>7, <1>8, <1>9, <1>10, <1>11

LEMMA PasoAgregarNuevaProg == IInv /\ AgregarNuevaProg => IInv'
<1> SUFFICES ASSUME IInv, AgregarNuevaProg PROVE IInv'
  OBVIOUS
<1> DEFINE p == hiloN
<1> USE DEF IInv
<1>1. /\ pcb' = [pcb EXCEPT ![p] = [pid |-> p, pc |-> 0]]
      /\ listos' = Append(listos, p) /\ sem' = Postear(sem, {"listos"})
      /\ p # Nadie /\ hiloN' = Nadie
      /\ UNCHANGED <<nuevos, ejecutando, bloqueados, finalizados, cpus, ejec, program, valor,
                     cola, hiloL, hiloM, cpu, bandeja, caido>>
  BY DEF AgregarNuevaProg
<1>2. p \in Pids /\ listos \in Seq(Pids)
  BY <1>1 DEF TypeOK, ListosReales
<1>3. /\ p \notin ToSet(nuevos) \cup ToSet(listos) \cup ejecutando \cup bloqueados \cup finalizados
      /\ p # hiloL.pid
  BY <1>2 DEF Sitios
<1>4. /\ listos' \in Seq(Pids) /\ Len(listos') = Len(listos) + 1
      /\ ToSet(listos') = ToSet(listos) \cup {p} /\ IsInjective(listos')
  BY <1>1, <1>2, <1>3, AlFinal DEF Sitios
<1>5. /\ sem' \in [{"nuevos", "listos", "cpus", "grado"} -> Nat]
      /\ sem'.nuevos = sem.nuevos /\ sem'.listos = sem.listos + 1
      /\ sem'.cpus = sem.cpus /\ sem'.grado = sem.grado
  BY <1>1, SemaforosTipo
<1>6. TypeOK' /\ ListosReales'
  <2>1. listos' \in Seq(Pids \cup {Nadie})
    BY <1>4, SeqMonotonic
  <2>2. pcb' \in [Pids -> [pid : Pids, pc : Nat]]
    BY <1>1, <1>2 DEF TypeOK
  <2> QED
    BY <1>1, <1>4, <1>5, <2>1, <2>2 DEF TypeOK, ListosReales
<1>7. Sitios'
  BY <1>1, <1>3, <1>4, NadieAparte DEF Sitios
<1>8. Ingresados' = Ingresados /\ EnSistema' = EnSistema
  BY <1>1, <1>3, <1>4 DEF Ingresados, EnSistema
<1>9. CpusEnFase' /\ HiloLBien' /\ HiloMBien' /\ Conexion' /\ ProgramasPrimero'
  BY <1>1 DEF CpusEnFase, HiloLBien, HiloMBien, Conexion, ProgramasPrimero, CpusDe
<1>10. CpuUnica'
  <2>1. \A q \in Pids : pcb'[q].pid = q
    BY <1>1, <1>2 DEF TypeOK, CpuUnica
  <2> QED
    BY <1>1, <2>1 DEF CpuUnica, CpusDe
<1>11. EnOrden' /\ Cuentas' /\ GradoExacto'
  BY <1>1, <1>4, <1>5, <1>8 DEF EnOrden, Cuentas, EnManos, PorPostear, GradoExacto
<1> QED
  BY <1>6, <1>7, <1>9, <1>10, <1>11

(* The CPU that hiloL chooses: the first one that is free, after CPUs that  *)
(* have all had a program.                                                  *)
LEMMA CpuLibreEs ==
  ASSUME TypeOK, Conexion, CpuLibre # Nadie
  PROVE  /\ CpuLibre \in Cpus /\ ~ejec[CpuLibre]
         /\ \E k \in DOMAIN cpus : /\ cpus[k] = CpuLibre
                                   /\ \A j \in 1 .. k - 1 : program[cpus[j]] # Nadie
<1> DEFINE D == {i \in DOMAIN cpus : ~ejec[cpus[i]]}
           k == Min(D)
<1>1. /\ cpus \in Seq(Cpus) /\ DOMAIN cpus = 1 .. Len(cpus) /\ Len(cpus) \in Nat
      /\ \A i \in DOMAIN cpus : cpus[i] \in Cpus
  BY LenProperties, ElementOfSeq DEF TypeOK
<1>2. D \in SUBSET Nat /\ D # {} /\ CpuLibre = cpus[k]
  <2>1. CpuLibre = IF D = {} THEN Nadie ELSE cpus[k]
    BY DEF CpuLibre
  <2>2. D # {}
    BY <2>1
  <2>3. \A i \in DOMAIN cpus : i \in Nat
    BY <1>1
  <2> QED
    BY <2>1, <2>2, <2>3
<1>3. k \in D /\ \A i \in D : k <= i
  BY <1>2, MinEsMinimo
<1>4. k \in DOMAIN cpus /\ ~ejec[cpus[k]]
  BY <1>3
<1>5. \A j \in 1 .. k - 1 : program[cpus[j]] # Nadie
  <2> SUFFICES ASSUME NEW j \in 1 .. k - 1 PROVE program[cpus[j]] # Nadie
    OBVIOUS
  <2>1. j \in DOMAIN cpus /\ j < k
    BY <1>1, <1>4
  <2>2. j \notin D
    <3>1. j \in Nat /\ k \in Nat
      BY <1>1, <1>4, <2>1
    <3> HIDE DEF D, k
    <3> QED
      BY <1>3, <2>1, <3>1
  <2> QED
    BY <1>1, <2>1, <2>2 DEF Conexion
<1> HIDE DEF k
<1> QED
  BY <1>1, <1>2, <1>4, <1>5

(* A CPU that is not counted as busy nor taken by hiloL does nothing. *)
LEMMA CpuOciosa ==
  ASSUME IInv, NEW c \in Cpus, ~ejec[c], hiloL.cpu # c
  PROVE  /\ \A p \in Pids : c \notin CpusDe(p)
         /\ cpu[c].pid = Nadie /\ bandeja[c].pid = Nadie
         /\ cpu[c].fase = "libre" /\ bandeja[c].cod = "nada"
<1> USE DEF IInv
<1>1. \A p \in Pids : c \notin CpusDe(p)
  BY DEF CpuUnica
<1>2. cpu[c].pid \in Pids \cup {Nadie} /\ bandeja[c].pid \in Pids \cup {Nadie}
  BY DEF TypeOK
<1>3. cpu[c].pid = Nadie /\ bandeja[c].pid = Nadie
  BY <1>1, <1>2 DEF CpusDe
<1> QED
  BY <1>1, <1>3 DEF CpusEnFase

(* Despachar finds a process and a CPU: the semaphores do not lie. *)
LEMMA DespachoPosible ==
  ASSUME IInv, Despachar
  PROVE  listos # <<>> /\ CpuLibre # Nadie
<1> USE DEF IInv
<1>1. sem.listos > 0 /\ sem.cpus > 0 /\ hiloL = SinDespacho /\ hiloL.cpu = Nadie
  BY DEF Despachar, SinDespacho
<1>2. listos # <<>>
  BY <1>1, EmptySeq DEF Cuentas
<1>3. Cardinality(Desocupadas(cpus, ejec)) > 0
  <2>1. EnManos \in {0, 1} /\ PorPostear \in {0, 1} /\ sem.cpus \in Nat
    BY SemaforosTipo DEF EnManos, PorPostear
  <2> QED
    BY <1>1, <2>1 DEF Cuentas
<1>4. Desocupadas(cpus, ejec) # {}
  BY <1>3, FS_EmptySet
<1>5. PICK i \in DOMAIN cpus : ~ejec[cpus[i]]
  BY <1>4 DEF Desocupadas
<1> DEFINE D == {j \in DOMAIN cpus : ~ejec[cpus[j]]}
<1>6. D # {} /\ D \in SUBSET Nat
  <2>1. cpus \in Seq(Cpus)
    BY DEF TypeOK
  <2>2. \A j \in DOMAIN cpus : j \in Nat
    BY <2>1, LenProperties
  <2> QED
    BY <1>5, <2>2
<1>7. Min(D) \in DOMAIN cpus
  BY <1>6, MinEsMinimo
<1>8. cpus[Min(D)] \in Cpus
  BY <1>7, LenProperties DEF TypeOK
<1>9. CpuLibre = cpus[Min(D)]
  BY <1>6 DEF CpuLibre
<1> QED
  BY <1>2, <1>8, <1>9, NadieAparte

LEMMA PasoDespachar == IInv /\ Despachar => IInv'
<1> SUFFICES ASSUME IInv, Despachar, NEW p, p = Head(listos), NEW c, c = CpuLibre
             PROVE  IInv'
  OBVIOUS
<1> USE DEF IInv
<1>1. listos # <<>> /\ c # Nadie
  BY DespachoPosible
<1>2. c \in Cpus /\ ~ejec[c]
  BY <1>1, CpuLibreEs
<1>3. PICK k \in DOMAIN cpus : cpus[k] = c /\ \A j \in 1 .. k - 1 : program[cpus[j]] # Nadie
  BY <1>1, CpuLibreEs
<1>4. listos \in Seq(Pids) /\ p \in Pids /\ p # Nadie
  BY <1>1, SinPrimero, NadieAparte DEF ListosReales
<1>5. /\ listos' = Tail(listos) /\ sem' = Esperar(sem, {"listos", "cpus"})
      /\ hiloL = SinDespacho /\ sem.listos > 0 /\ sem.cpus > 0
      /\ hiloL' = [pid |-> p, cpu |-> c]
      /\ cpu' = [cpu EXCEPT ![c] = [fase |-> "corre", pid |-> pcb[p].pid, pc |-> pcb[p].pc,
                                    inst |-> 0]]
      /\ UNCHANGED <<nuevos, ejecutando, bloqueados, finalizados, cpus, ejec, program,
                     valor, cola, pcb, hiloN, hiloM, bandeja, caido>>
  BY <1>1, <1>4 DEF Despachar, TypeOK
<1>6. /\ listos' \in Seq(Pids) /\ Len(listos') = Len(listos) - 1 /\ Len(listos) \in Nat
      /\ p \in ToSet(listos) /\ ToSet(listos') = ToSet(listos) \ {p} /\ IsInjective(listos')
  BY <1>1, <1>4, <1>5, SinPrimero, LenProperties DEF Sitios
<1>7. /\ p \notin ToSet(nuevos) \cup ejecutando \cup bloqueados \cup finalizados
      /\ p # hiloN
  BY <1>4, <1>6 DEF Sitios
<1>8. /\ sem' \in [{"nuevos", "listos", "cpus", "grado"} -> Nat]
      /\ sem.listos \in Nat /\ sem.cpus \in Nat
      /\ sem'.nuevos = sem.nuevos /\ sem'.listos = sem.listos - 1
      /\ sem'.cpus = sem.cpus - 1 /\ sem'.grado = sem.grado
  BY <1>5, SemaforosTipo
<1>9. /\ \A q \in Pids : c \notin CpusDe(q)
      /\ bandeja[c].pid = Nadie /\ bandeja[c].cod = "nada" /\ cpu[c].fase = "libre"
  <2>1. hiloL.cpu # c
    BY <1>1, <1>5 DEF SinDespacho
  <2> QED
    BY <1>2, <2>1, CpuOciosa
<1>10. /\ pcb[p].pid = p /\ pcb[p].pc \in Nat
       /\ cpu'[c].pid = p /\ cpu'[c].fase = "corre"
       /\ \A d \in Cpus \ {c} : cpu'[d] = cpu[d]
       /\ cpu' \in [Cpus -> [fase : {"libre", "corre", "espera", "OK", "K23"},
                             pid : Pids \cup {Nadie}, pc : Nat, inst : Nat]]
  <2> DEFINE Fases == {"libre", "corre", "espera", "OK", "K23"}
  <2>1. /\ cpu \in [Cpus -> [fase : Fases, pid : Pids \cup {Nadie}, pc : Nat, inst : Nat]]
        /\ pcb[p] \in [pid : Pids, pc : Nat] /\ pcb[p].pid = p
    BY <1>4 DEF TypeOK, CpuUnica
  <2>2. [fase |-> "corre", pid |-> pcb[p].pid, pc |-> pcb[p].pc, inst |-> 0]
          \in [fase : Fases, pid : Pids \cup {Nadie}, pc : Nat, inst : Nat]
    BY <2>1
  <2> QED
    BY <1>2, <1>5, <2>1, <2>2
<1>11. TypeOK' /\ ListosReales'
  <2>1. listos' \in Seq(Pids \cup {Nadie})
    BY <1>6, SeqMonotonic
  <2>2. hiloL' \in [pid : Pids \cup {Nadie}, cpu : Cpus \cup {Nadie}]
    BY <1>2, <1>4, <1>5
  <2> QED
    BY <1>5, <1>6, <1>8, <1>10, <2>1, <2>2 DEF TypeOK, ListosReales
<1>12. Sitios'
  BY <1>4, <1>5, <1>6, <1>7 DEF Sitios, SinDespacho
<1>13. Ingresados' = Ingresados /\ EnSistema' = EnSistema
  BY <1>4, <1>5, <1>6, <1>7 DEF Ingresados, EnSistema, SinDespacho
<1>14. CpusEnFase'
  BY <1>4, <1>5, <1>9, <1>10 DEF CpusEnFase
<1>15. HiloLBien'
  BY <1>2, <1>3, <1>4, <1>5 DEF HiloLBien
<1>16. CpusDe(p) = {} /\ CpusDe(p)' = {c} /\ \A q \in Pids \ {p} : CpusDe(q)' = CpusDe(q)
  <2>1. CpusDe(p) = {}
    BY <1>4, <1>5, <1>7 DEF CpuUnica, SinDespacho
  <2>2. CpusDe(p)' = {c}
    <3>1. \A d \in Cpus : cpu'[d].pid = p \/ bandeja'[d].pid = p <=> d = c
      BY <1>2, <1>5, <1>10, <2>1 DEF CpusDe
    <3>2. CpusDe(p)' = {d \in Cpus : cpu'[d].pid = p \/ bandeja'[d].pid = p}
      BY DEF CpusDe
    <3> QED
      BY <1>2, <3>1, <3>2
  <2>3. \A q \in Pids \ {p} : CpusDe(q)' = CpusDe(q)
    BY <1>2, <1>5, <1>9, <1>10 DEF CpusDe
  <2> QED
    BY <2>1, <2>2, <2>3
<1>17. HiloMBien'
  <2>1. hiloM.pid \in ejecutando => hiloM.pid \in Pids \ {p}
    BY <1>7 DEF TypeOK
  <2>2. hiloM.pc = "K23" => hiloM.cpu \in Cpus \ {c}
    BY <1>9, <2>1 DEF HiloMBien, CpusDe
  <2> QED
    BY <1>5, <1>10, <1>16, <2>1, <2>2 DEF HiloMBien
<1>18. CpuUnica'
  <2> SUFFICES ASSUME NEW q \in Pids
               PROVE  /\ pcb[q].pid = q
                      /\ \A d, e \in CpusDe(q)' : d = e
                      /\ \A d \in CpusDe(q)' : \/ q \in ejecutando /\ program[d] = q /\ ejec[d]
                                               \/ hiloL' = [pid |-> q, cpu |-> d]
    BY <1>5 DEF CpuUnica
  <2>1. CASE q = p
    <3>1. pcb[q].pid = q
      BY DEF CpuUnica
    <3>2. CpusDe(q)' = {c} /\ hiloL' = [pid |-> q, cpu |-> c]
      BY <1>5, <1>16, <2>1
    <3> QED
      BY <3>1, <3>2
  <2>2. CASE q # p
    <3>1. CpusDe(q)' = CpusDe(q)
      BY <1>16, <2>2
    <3>2. \A d \in CpusDe(q) : hiloL # [pid |-> q, cpu |-> d]
      BY <1>5, NadieAparte DEF SinDespacho
    <3> QED
      BY <3>1, <3>2 DEF CpuUnica
  <2> QED
    BY <2>1, <2>2
<1>19. EnOrden' /\ Conexion' /\ ProgramasPrimero' /\ GradoExacto'
  BY <1>5, <1>8, <1>13 DEF EnOrden, Conexion, ProgramasPrimero, GradoExacto
<1>20. Cuentas'
  <2>1. EnManos = 0 /\ EnManos' = 1 /\ PorPostear' = PorPostear /\ PorPostear \in {0, 1}
    BY <1>4, <1>5 DEF EnManos, PorPostear, SinDespacho
  <2>2. Desocupadas(cpus', ejec') = Desocupadas(cpus, ejec)
    BY <1>5
  <2> QED
    BY <1>5, <1>6, <1>8, <2>1, <2>2 DEF Cuentas
<1> QED
  BY <1>11, <1>12, <1>14, <1>15, <1>17, <1>18, <1>19, <1>20

LEMMA PasoAnotarDespacho == IInv /\ AnotarDespacho => IInv'
<1> SUFFICES ASSUME IInv, AnotarDespacho PROVE IInv'
  OBVIOUS
<1> DEFINE p == hiloL.pid
           c == hiloL.cpu
<1> USE DEF IInv
<1>1. /\ hiloL # SinDespacho /\ hiloL' = SinDespacho
      /\ ejecutando' = ejecutando \cup {p}
      /\ ejec' = [ejec EXCEPT ![c] = TRUE] /\ program' = [program EXCEPT ![c] = p]
      /\ UNCHANGED <<nuevos, listos, bloqueados, finalizados, cpus, sem, valor, cola, pcb,
                     hiloN, hiloM, cpu, bandeja, caido>>
  BY DEF AnotarDespacho
<1>2. PICK k \in DOMAIN cpus : cpus[k] = c /\ \A j \in 1 .. k - 1 : program[cpus[j]] # Nadie
  BY <1>1 DEF HiloLBien
<1>3. /\ p \in Pids /\ p # Nadie /\ ~ejec[c]
      /\ hiloL = [pid |-> p, cpu |-> c]
  BY <1>1, NadieAparte DEF HiloLBien, TypeOK
<1>4. /\ cpus \in Seq(Cpus) /\ DOMAIN cpus = 1 .. Len(cpus) /\ Len(cpus) \in Nat
      /\ \A i \in DOMAIN cpus : cpus[i] \in Cpus
      /\ \A i, j \in DOMAIN cpus : cpus[i] = cpus[j] => i = j
  <2>1. cpus \in Seq(Cpus)
    BY DEF TypeOK
  <2>2. \A i, j \in DOMAIN cpus : cpus[i] = cpus[j] => i = j
    BY DEF Conexion, IsInjective
  <2> QED
    BY <2>1, <2>2, LenProperties, ElementOfSeq
<1>5. c \in Cpus /\ c \in ToSet(cpus)
  BY <1>2, <1>4 DEF ToSet
<1>6. p \notin ToSet(nuevos) \cup ToSet(listos) \cup ejecutando \cup bloqueados \cup finalizados
      /\ p # hiloN
  BY <1>3 DEF Sitios
<1> HIDE DEF p, c
<1>7. /\ ejec' \in [Cpus -> BOOLEAN] /\ program' \in [Cpus -> Pids \cup {Nadie}]
      /\ ejec'[c] /\ program'[c] = p
      /\ \A d \in Cpus \ {c} : ejec'[d] = ejec[d] /\ program'[d] = program[d]
  BY <1>1, <1>3, <1>5 DEF TypeOK
<1>8. TypeOK' /\ ListosReales'
  BY <1>1, <1>3, <1>7 DEF TypeOK, ListosReales, SinDespacho
<1>9. Sitios'
  BY <1>1, <1>3, <1>6, NadieAparte DEF Sitios, SinDespacho
<1>10. Ingresados' = Ingresados /\ EnSistema' = EnSistema
  BY <1>1, <1>3, <1>6 DEF Ingresados, EnSistema, SinDespacho
<1>11. CpusEnFase' /\ HiloLBien' /\ HiloMBien'
  BY <1>1 DEF CpusEnFase, HiloLBien, HiloMBien, CpusDe
<1>12. Conexion'
  BY <1>1, <1>3, <1>5, <1>7 DEF Conexion
<1>13. CpuUnica'
  <2> SUFFICES ASSUME NEW q \in Pids
               PROVE  /\ pcb[q].pid = q
                      /\ \A d, e \in CpusDe(q) : d = e
                      /\ \A d \in CpusDe(q) : q \in ejecutando' /\ program'[d] = q /\ ejec'[d]
    BY <1>1 DEF CpuUnica, CpusDe
  <2> SUFFICES ASSUME NEW d \in CpusDe(q)
               PROVE  q \in ejecutando' /\ program'[d] = q /\ ejec'[d]
    BY DEF CpuUnica
  <2>1. d \in Cpus
    BY DEF CpusDe
  <2>2. CASE hiloL = [pid |-> q, cpu |-> d]
    BY <1>1, <1>3, <1>7, <2>2
  <2>3. CASE hiloL # [pid |-> q, cpu |-> d]
    <3>1. q \in ejecutando /\ program[d] = q /\ ejec[d]
      BY <2>3 DEF CpuUnica
    <3>2. d # c
      BY <1>3, <3>1
    <3> QED
      BY <1>1, <1>7, <2>1, <3>1, <3>2
  <2> QED
    BY <2>2, <2>3
<1>14. ProgramasPrimero'
  <2> SUFFICES ASSUME NEW i \in DOMAIN cpus, NEW j \in DOMAIN cpus, i < j,
                      program'[cpus[j]] # Nadie
               PROVE  program'[cpus[i]] # Nadie
    BY <1>1 DEF ProgramasPrimero
  <2>1. CASE i = k
    BY <1>2, <1>3, <1>7, <2>1
  <2>2. CASE i # k /\ j = k
    BY <1>2, <1>4, <1>7, <2>2
  <2>3. CASE i # k /\ j # k
    BY <1>2, <1>4, <1>7, <2>3 DEF ProgramasPrimero
  <2> QED
    BY <2>1, <2>2, <2>3
<1>15. Cuentas'
  <2>1. EnManos = 1 /\ EnManos' = 0 /\ PorPostear' = PorPostear /\ PorPostear \in {0, 1}
    BY <1>1 DEF EnManos, PorPostear
  <2>2. ejec \in [Cpus -> BOOLEAN] /\ IsInjective(cpus)
    BY DEF TypeOK, Conexion
  <2>3. Cardinality(Desocupadas(cpus, ejec)) = Cardinality(Desocupadas(cpus, ejec')) + 1
    BY <1>3, <1>4, <1>5, <1>7, <2>2, DesocupadasCambia
  <2>4. Cardinality(Desocupadas(cpus, ejec')) \in Nat
    BY <1>4, <1>7, DesocupadasFinitas
  <2>5. sem.cpus \in Nat
    BY SemaforosTipo
  <2> QED
    BY <1>1, <2>1, <2>3, <2>4, <2>5 DEF Cuentas
<1>16. EnOrden' /\ GradoExacto'
  BY <1>1, <1>10 DEF EnOrden, GradoExacto
<1> QED
  BY <1>8, <1>9, <1>11, <1>12, <1>13, <1>14, <1>15, <1>16

LEMMA PasoDevuelvePcb ==
  ASSUME IInv, NEW c \in Cpus, NEW cod \in {"P12", "P13"}, DevuelvePcb(c, cod)
  PROVE  IInv'
<1> SUFFICES ASSUME NEW p, p = bandeja[c].pid PROVE IInv'
  OBVIOUS
<1> USE DEF IInv
<1>1. /\ hiloM = EnSelect /\ hiloM.pc = "select" /\ hiloL.cpu # c /\ bandeja[c].cod = cod
      /\ pcb' = [pcb EXCEPT ![program[c]] = [pid |-> p, pc |-> bandeja[c].pc]]
      /\ ejec' = [ejec EXCEPT ![c] = FALSE]
      /\ hiloM' = [pc |-> cod, cpu |-> c, pid |-> p, sem |-> Nadie]
      /\ bandeja' = [bandeja EXCEPT ![c] = Vacia]
      /\ UNCHANGED <<nuevos, listos, ejecutando, bloqueados, finalizados, cpus, program, sem,
                     valor, cola, hiloN, hiloL, cpu, caido>>
  BY DEF DevuelvePcb, Mensaje, Leido, listas, EnSelect
<1>2. /\ bandeja[c] \in [cod : Mensajes, pid : Pids \cup {Nadie}, pc : Nat, sem : Sems \cup {Nadie}]
      /\ bandeja[c].cod # "nada" /\ bandeja[c].pid # Nadie
      /\ cpu[c].fase = "libre" /\ cpu[c].pid = Nadie
  BY <1>1 DEF TypeOK, CpusEnFase
<1>3. p \in Pids /\ p # Nadie /\ bandeja[c].pc \in Nat /\ c \in CpusDe(p)
  BY <1>2 DEF CpusDe
<1>4. p \in ejecutando /\ program[c] = p /\ ejec[c]
  BY <1>1, <1>3 DEF CpuUnica
<1>5. /\ bandeja'[c].pid = Nadie /\ bandeja'[c].cod = "nada"
      /\ \A d \in Cpus \ {c} : bandeja'[d] = bandeja[d]
      /\ bandeja' \in [Cpus -> [cod : Mensajes, pid : Pids \cup {Nadie}, pc : Nat,
                                sem : Sems \cup {Nadie}]]
  <2>1. Vacia \in [cod : Mensajes, pid : Pids \cup {Nadie}, pc : Nat, sem : Sems \cup {Nadie}]
    BY DEF Vacia, Mensajes
  <2>2. bandeja \in [Cpus -> [cod : Mensajes, pid : Pids \cup {Nadie}, pc : Nat,
                              sem : Sems \cup {Nadie}]]
    BY DEF TypeOK
  <2> QED
    BY <1>1, <2>1, <2>2 DEF Vacia
<1>6. /\ ejec' \in [Cpus -> BOOLEAN] /\ ejec \in [Cpus -> BOOLEAN] /\ ~ejec'[c]
      /\ \A d \in Cpus \ {c} : ejec'[d] = ejec[d]
  BY <1>1 DEF TypeOK
<1>7. CpusDe(p)' = {} /\ \A q \in Pids \ {p} : CpusDe(q)' = CpusDe(q)
  <2>1. \A d \in Cpus : d # c => d \notin CpusDe(p)
    BY <1>3 DEF CpuUnica
  <2>2. \A q \in Pids : CpusDe(q)' = {d \in Cpus : cpu[d].pid = q \/ bandeja'[d].pid = q}
    BY <1>1 DEF CpusDe
  <2>3. \A d \in Cpus : ~ (cpu[d].pid = p \/ bandeja'[d].pid = p)
    BY <1>2, <1>3, <1>5, <2>1 DEF CpusDe
  <2>4. \A q \in Pids \ {p} : \A d \in Cpus :
          cpu[d].pid = q \/ bandeja'[d].pid = q <=> cpu[d].pid = q \/ bandeja[d].pid = q
    BY <1>3, <1>5, NadieAparte
  <2>5. CpusDe(p)' = {}
    BY <1>3, <2>2, <2>3
  <2>6. ASSUME NEW q \in Pids \ {p} PROVE CpusDe(q)' = CpusDe(q)
    BY <2>2, <2>4 DEF CpusDe
  <2> QED
    BY <2>5, <2>6
<1>8. pcb' \in [Pids -> [pid : Pids, pc : Nat]] /\ \A q \in Pids : pcb'[q].pid = q
  <2>1. /\ pcb \in [Pids -> [pid : Pids, pc : Nat]] /\ \A q \in Pids : pcb[q].pid = q
    BY DEF TypeOK, CpuUnica
  <2>2. [pid |-> p, pc |-> bandeja[c].pc] \in [pid : Pids, pc : Nat]
    BY <1>3
  <2> QED
    BY <1>1, <1>3, <1>4, <2>1, <2>2
<1>9. TypeOK' /\ ListosReales'
  <2>1. hiloM' \in [pc : {"select", "P12", "P13", "K23"}, cpu : Cpus \cup {Nadie},
                    pid : Pids \cup {Nadie}, sem : Sems \cup {Nadie}]
    BY <1>1, <1>3
  <2> QED
    BY <1>1, <1>5, <1>6, <1>8, <2>1 DEF TypeOK, ListosReales
<1>10. Sitios' /\ EnOrden' /\ GradoExacto' /\ ProgramasPrimero'
  BY <1>1 DEF Sitios, EnOrden, GradoExacto, EnSistema, Ingresados, ProgramasPrimero
<1>11. CpusEnFase'
  <2>1. \A d \in Cpus : cpu[d].fase # "K23" /\ bandeja[d].cod # "P16"
    BY <1>1 DEF CpusEnFase
  <2> SUFFICES ASSUME NEW d \in Cpus
               PROVE  /\ cpu[d].fase = "libre" <=> cpu[d].pid = Nadie
                      /\ bandeja'[d].pid = Nadie <=> bandeja'[d].cod \in {"nada", "P14", "P15"}
                      /\ bandeja'[d].cod \in {"P12", "P13", "P16"} => cpu[d].fase = "libre"
                      /\ cpu[d].fase = "espera" <=> bandeja'[d].cod \in {"P14", "P15"}
                      /\ bandeja'[d].cod \in {"P14", "P15"} => bandeja'[d].sem \in Sems
                      /\ cpu[d].fase # "K23" /\ bandeja'[d].cod # "P16"
    BY <1>1 DEF CpusEnFase
  <2>2. CASE d = c
    BY <1>2, <1>5, <2>2
  <2>3. CASE d # c
    BY <1>5, <2>1, <2>3 DEF CpusEnFase
  <2> QED
    BY <2>2, <2>3
<1>12. HiloLBien'
  BY <1>1, <1>6 DEF HiloLBien
<1>13. HiloMBien'
  <2>1. hiloM'.pc = cod /\ hiloM'.pid = p /\ hiloM'.cpu = c
    BY <1>1
  <2>2. CpusDe(hiloM.pid)' = {}
    BY <1>7, <2>1 DEF CpusDe
  <2> QED
    BY <1>1, <1>4, <2>1, <2>2 DEF HiloMBien
<1>14. Conexion'
  BY <1>1, <1>6 DEF Conexion
<1>15. CpuUnica'
  <2> SUFFICES ASSUME NEW q \in Pids
               PROVE  /\ \A d, e \in CpusDe(q)' : d = e
                      /\ \A d \in CpusDe(q)' : \/ q \in ejecutando /\ program[d] = q /\ ejec'[d]
                                               \/ hiloL = [pid |-> q, cpu |-> d]
    BY <1>1, <1>8 DEF CpuUnica
  <2>1. CASE q = p
    BY <1>7, <2>1
  <2>2. CASE q # p
    <3>1. CpusDe(q)' = CpusDe(q)
      BY <1>7, <2>2
    <3>2. c \notin CpusDe(q)
      BY <1>2, <1>3, <2>2, NadieAparte DEF CpusDe
    <3>3. \A d \in CpusDe(q) : ejec'[d] = ejec[d]
      BY <1>6, <3>2 DEF CpusDe
    <3> QED
      BY <3>1, <3>3 DEF CpuUnica
  <2> QED
    BY <2>1, <2>2
<1>16. Cuentas'
  <2>1. EnManos' = EnManos /\ PorPostear = 0 /\ PorPostear' = 1 /\ EnManos \in {0, 1}
    BY <1>1 DEF EnManos, PorPostear
  <2>2. cpus \in Seq(Cpus) /\ IsInjective(cpus) /\ c \in ToSet(cpus)
    BY <1>3, <1>4 DEF TypeOK, Conexion
  <2>3. Cardinality(Desocupadas(cpus, ejec')) = Cardinality(Desocupadas(cpus, ejec)) + 1
    BY <1>4, <1>6, <2>2, DesocupadasCambia
  <2>4. Cardinality(Desocupadas(cpus, ejec)) \in Nat /\ sem.cpus \in Nat
    BY <1>6, <2>2, DesocupadasFinitas, SemaforosTipo
  <2> QED
    BY <1>1, <2>1, <2>3, <2>4 DEF Cuentas
<1> QED
  BY <1>9, <1>10, <1>11, <1>12, <1>13, <1>14, <1>15, <1>16

LEMMA PasoFinalizarQuantum == IInv /\ FinalizarQuantum => IInv'
<1> SUFFICES ASSUME IInv, FinalizarQuantum, NEW p, p = hiloM.pid PROVE IInv'
  OBVIOUS
<1> USE DEF IInv
<1>1. p \in ejecutando /\ p \in Pids /\ p # Nadie /\ CpusDe(p) = {} /\ hiloM.pc = "P12"
  BY NadieAparte DEF FinalizarQuantum, HiloMBien, TypeOK
<1>2. /\ ejecutando' = ejecutando \ {p} /\ listos' = Append(listos, p)
      /\ sem' = Postear(sem, {"listos", "cpus"}) /\ hiloM' = EnSelect
      /\ UNCHANGED <<nuevos, bloqueados, finalizados, cpus, ejec, program, valor, cola, pcb,
                     hiloN, hiloL, cpu, bandeja, caido>>
  BY <1>1 DEF FinalizarQuantum, Sacado
<1>3. /\ p \notin ToSet(nuevos) \cup ToSet(listos) \cup bloqueados \cup finalizados
      /\ p # hiloN /\ p # hiloL.pid
  BY <1>1 DEF Sitios
<1>4. /\ listos' \in Seq(Pids) /\ Len(listos') = Len(listos) + 1
      /\ ToSet(listos') = ToSet(listos) \cup {p} /\ IsInjective(listos')
  BY <1>1, <1>2, <1>3, AlFinal DEF ListosReales, Sitios
<1>5. /\ sem' \in [{"nuevos", "listos", "cpus", "grado"} -> Nat] /\ sem.cpus \in Nat
      /\ sem'.nuevos = sem.nuevos /\ sem'.listos = sem.listos + 1
      /\ sem'.cpus = sem.cpus + 1 /\ sem'.grado = sem.grado
  BY <1>2, SemaforosTipo
<1>6. TypeOK' /\ ListosReales'
  <2>1. listos' \in Seq(Pids \cup {Nadie})
    BY <1>4, SeqMonotonic
  <2> QED
    BY <1>2, <1>4, <1>5, <2>1 DEF TypeOK, ListosReales, EnSelect
<1>7. Sitios'
  BY <1>1, <1>2, <1>3, <1>4 DEF Sitios
<1>8. Ingresados' = Ingresados /\ EnSistema' = EnSistema
  BY <1>1, <1>2, <1>3, <1>4 DEF Ingresados, EnSistema
<1>9. CpusEnFase' /\ HiloMBien'
  BY <1>1, <1>2 DEF CpusEnFase, HiloMBien, EnSelect
<1>10. HiloLBien' /\ Conexion' /\ ProgramasPrimero'
  BY <1>2 DEF HiloLBien, Conexion, ProgramasPrimero
<1>11. CpuUnica'
  <2>1. \A q \in Pids : CpusDe(q)' = CpusDe(q)
    BY <1>2 DEF CpusDe
  <2>2. \A q \in Pids \ {p} : q \in ejecutando => q \in ejecutando'
    BY <1>2
  <2> QED
    BY <1>1, <1>2, <2>1, <2>2 DEF CpuUnica
<1>12. Cuentas'
  <2>1. EnManos' = EnManos /\ PorPostear = 1 /\ PorPostear' = 0 /\ EnManos \in {0, 1}
    BY <1>1, <1>2 DEF EnManos, PorPostear, EnSelect
  <2> QED
    BY <1>2, <1>4, <1>5, <2>1 DEF Cuentas
<1>13. EnOrden' /\ GradoExacto'
  BY <1>5, <1>8 DEF EnOrden, GradoExacto
<1> QED
  BY <1>6, <1>7, <1>9, <1>10, <1>11, <1>12, <1>13

LEMMA EliminarTipo ==
  ASSUME NEW q \in Seq(Pids)
  PROVE  EliminarProceso(q) \in Seq(Pids) /\ (Len(q) <= 1 => EliminarProceso(q) = q)
<1>1. CASE Len(q) <= 1
  BY <1>1 DEF EliminarProceso
<1>2. CASE ~(Len(q) <= 1)
  <2>1. Len(q) \in Nat /\ Len(q) \in 1 .. Len(q) /\ \A i \in 1 .. Len(q) : q[i] \in Pids
    BY <1>2, LenProperties
  <2>2. <<Last(q)>> \in Seq(Pids)
    BY <2>1 DEF Last
  <2>3. SubSeq(q, 1, Len(q) - 2) \in Seq(Pids)
    BY <2>1, SubSeqProperties
  <2>4. <<Last(q)>> \o SubSeq(q, 1, Len(q) - 2) \in Seq(Pids)
    BY <2>2, <2>3, ConcatProperties
  <2> QED
    BY <1>2, <2>4 DEF EliminarProceso
<1>3. Len(q) \in Nat
  BY LenProperties
<1> QED
  BY <1>1, <1>2, <1>3

LEMMA PasoFinalizarProceso == IInv /\ FinalizarProceso => IInv'
<1> SUFFICES ASSUME IInv, FinalizarProceso, NEW p, p = hiloM.pid PROVE IInv'
  OBVIOUS
<1> USE DEF IInv
<1>1. p \in ejecutando /\ p \in Pids /\ p # Nadie /\ CpusDe(p) = {} /\ hiloM.pc = "P13"
  BY NadieAparte DEF FinalizarProceso, HiloMBien, TypeOK
<1>2. CASE EncuentraCpu(p)
  <2>1. /\ ejecutando' = ejecutando \ {p} /\ finalizados' = finalizados \cup {p}
        /\ cola' = [s \in Sems |-> EliminarProceso(cola[s])]
        /\ sem' = Postear(sem, {"cpus", "grado"}) /\ hiloM' = EnSelect
        /\ UNCHANGED <<nuevos, listos, bloqueados, cpus, ejec, program, valor, pcb, hiloN,
                       hiloL, cpu, bandeja, caido>>
    BY <1>1, <1>2 DEF FinalizarProceso, Sacado
  <2>2. /\ p \notin ToSet(nuevos) \cup ToSet(listos) \cup bloqueados \cup finalizados
        /\ p # hiloN /\ p # hiloL.pid
    BY <1>1 DEF Sitios
  <2>3. /\ sem' \in [{"nuevos", "listos", "cpus", "grado"} -> Nat] /\ sem.cpus \in Nat
        /\ sem'.nuevos = sem.nuevos /\ sem'.listos = sem.listos /\ sem.grado \in Nat
        /\ sem'.cpus = sem.cpus + 1 /\ sem'.grado = sem.grado + 1
    BY <2>1, SemaforosTipo
  <2>4. cola' \in [Sems -> Seq(Pids)]
    <3>1. cola \in [Sems -> Seq(Pids)]
      BY DEF TypeOK
    <3> QED
      BY <2>1, <3>1, EliminarTipo
  <2>5. TypeOK' /\ ListosReales'
    BY <1>1, <2>1, <2>3, <2>4 DEF TypeOK, ListosReales, EnSelect
  <2>6. Sitios'
    BY <1>1, <2>1, <2>2 DEF Sitios
  <2>7. Ingresados' = Ingresados /\ EnSistema' = EnSistema \ {p} /\ p \in EnSistema
    BY <1>1, <2>1, <2>2 DEF Ingresados, EnSistema
  <2>8. CpusEnFase' /\ HiloMBien'
    BY <1>1, <2>1 DEF CpusEnFase, HiloMBien, EnSelect
  <2>9. HiloLBien' /\ Conexion' /\ ProgramasPrimero'
    BY <2>1 DEF HiloLBien, Conexion, ProgramasPrimero
  <2>10. CpuUnica'
    <3>1. \A q \in Pids : CpusDe(q)' = CpusDe(q)
      BY <2>1 DEF CpusDe
    <3>2. \A q \in Pids \ {p} : q \in ejecutando => q \in ejecutando'
      BY <2>1
    <3> QED
      BY <1>1, <2>1, <3>1, <3>2 DEF CpuUnica
  <2>11. Cuentas'
    <3>1. EnManos' = EnManos /\ PorPostear = 1 /\ PorPostear' = 0 /\ EnManos \in {0, 1}
      BY <1>1, <2>1 DEF EnManos, PorPostear, EnSelect
    <3> QED
      BY <2>1, <2>3, <3>1 DEF Cuentas
  <2>12. GradoExacto'
    <3>1. /\ Cardinality(EnSistema') = Cardinality(EnSistema) - 1
          /\ Cardinality(EnSistema) \in Nat
      BY <2>7, SistemaEs, FS_RemoveElement
    <3> QED
      BY <2>3, <3>1 DEF GradoExacto
  <2>13. EnOrden'
    BY <2>7 DEF EnOrden
  <2> QED
    BY <2>5, <2>6, <2>8, <2>9, <2>10, <2>11, <2>12, <2>13
<1>3. CASE ~EncuentraCpu(p)
  <2>1. /\ caido' = TRUE
        /\ UNCHANGED <<nuevos, listos, ejecutando, bloqueados, finalizados, cpus, ejec, program,
                       sem, valor, cola, pcb, hiloN, hiloL, hiloM, cpu, bandeja>>
    BY <1>3 DEF FinalizarProceso
  <2>2. TypeOK' /\ ListosReales' /\ Sitios' /\ EnOrden' /\ CpusEnFase'
    BY <2>1 DEF TypeOK, ListosReales, Sitios, EnOrden, Ingresados, CpusEnFase
  <2>3. HiloLBien' /\ HiloMBien' /\ Conexion' /\ CpuUnica'
    BY <2>1 DEF HiloLBien, HiloMBien, Conexion, CpuUnica, CpusDe
  <2>4. ProgramasPrimero' /\ Cuentas' /\ GradoExacto'
    BY <2>1 DEF ProgramasPrimero, Cuentas, EnManos, PorPostear, GradoExacto, EnSistema,
                Ingresados
  <2> QED
    BY <2>2, <2>3, <2>4
<1> QED
  BY <1>2, <1>3

(* A message read, and the CPU put in another phase. *)
Pasa(c, f) == cpu' = [cpu EXCEPT ![c].fase = f]

LEMMA PasaEs ==
  ASSUME TypeOK, NEW c \in Cpus, NEW f \in {"libre", "corre", "espera", "OK", "K23"},
         Pasa(c, f)
  PROVE  /\ cpu' \in [Cpus -> [fase : {"libre", "corre", "espera", "OK", "K23"},
                               pid : Pids \cup {Nadie}, pc : Nat, inst : Nat]]
         /\ cpu'[c].fase = f
         /\ \A d \in Cpus \ {c} : cpu'[d] = cpu[d]
         /\ \A d \in Cpus : cpu'[d].pid = cpu[d].pid
<1> DEFINE R == [fase : {"libre", "corre", "espera", "OK", "K23"},
                 pid : Pids \cup {Nadie}, pc : Nat, inst : Nat]
<1>1. cpu \in [Cpus -> R]
  BY DEF TypeOK
<1>2. cpu' = [cpu EXCEPT ![c] = [cpu[c] EXCEPT !.fase = f]]
  BY DEF Pasa
<1>3. /\ [cpu[c] EXCEPT !.fase = f] \in R
      /\ [cpu[c] EXCEPT !.fase = f].fase = f /\ [cpu[c] EXCEPT !.fase = f].pid = cpu[c].pid
  BY <1>1
<1> HIDE DEF R
<1>4. cpu' \in [Cpus -> R] /\ cpu'[c].fase = f /\ cpu'[c].pid = cpu[c].pid
  BY <1>1, <1>2, <1>3
<1>5. \A d \in Cpus \ {c} : cpu'[d] = cpu[d]
  BY <1>1, <1>2
<1> QED
  BY <1>4, <1>5 DEF R

LEMMA LeidoEs ==
  ASSUME TypeOK, NEW c \in Cpus, Leido(c)
  PROVE  /\ bandeja' \in [Cpus -> [cod : Mensajes, pid : Pids \cup {Nadie}, pc : Nat,
                                   sem : Sems \cup {Nadie}]]
         /\ bandeja'[c].pid = Nadie /\ bandeja'[c].cod = "nada"
         /\ \A d \in Cpus \ {c} : bandeja'[d] = bandeja[d]
<1>1. Vacia \in [cod : Mensajes, pid : Pids \cup {Nadie}, pc : Nat, sem : Sems \cup {Nadie}]
  BY DEF Vacia, Mensajes
<1>2. bandeja \in [Cpus -> [cod : Mensajes, pid : Pids \cup {Nadie}, pc : Nat,
                            sem : Sems \cup {Nadie}]]
  BY DEF TypeOK
<1> QED
  BY <1>1, <1>2 DEF Leido, Vacia

LEMMA PasoP14 ==
  ASSUME IInv, NEW c \in Cpus, P14(c)
  PROVE  IInv'
<1> SUFFICES ASSUME NEW s, s = bandeja[c].sem PROVE IInv'
  OBVIOUS
<1> USE DEF IInv
<1>1. /\ hiloM = EnSelect /\ hiloM.pc = "select" /\ hiloL.cpu # c /\ bandeja[c].cod = "P14"
      /\ Leido(c)
      /\ UNCHANGED <<nuevos, listos, ejecutando, bloqueados, finalizados, cpus, ejec, program,
                     sem, cola, pcb, hiloN, hiloL, caido>>
  BY DEF P14, Mensaje, listas, EnSelect
<1>2. PICK f \in {"OK", "K23"} :
        /\ Pasa(c, f)
        /\ \/ f = "OK" /\ valor' = [valor EXCEPT ![s] = @ - 1] /\ hiloM' = hiloM
           \/ /\ f = "K23" /\ valor' = valor
              /\ hiloM' = [pc |-> "K23", cpu |-> c, pid |-> program[c], sem |-> s]
  BY DEF P14, Pasa
<1>3. /\ s \in Sems /\ bandeja[c].pid = Nadie /\ cpu[c].fase = "espera" /\ cpu[c].pid # Nadie
      /\ cpu[c].pid \in Pids /\ c \in CpusDe(cpu[c].pid)
      /\ program[c] = cpu[c].pid /\ program[c] \in ejecutando /\ ejec[c]
  <2>1. s \in Sems /\ bandeja[c].pid = Nadie /\ cpu[c].fase = "espera" /\ cpu[c].pid # Nadie
    BY <1>1 DEF CpusEnFase
  <2>2. cpu[c].pid \in Pids
    BY <2>1 DEF TypeOK
  <2>3. c \in CpusDe(cpu[c].pid)
    BY <2>2 DEF CpusDe
  <2> QED
    BY <1>1, <2>1, <2>2, <2>3 DEF CpuUnica
<1>4. /\ bandeja' \in [Cpus -> [cod : Mensajes, pid : Pids \cup {Nadie}, pc : Nat,
                                sem : Sems \cup {Nadie}]]
      /\ bandeja'[c].pid = Nadie /\ bandeja'[c].cod = "nada"
      /\ \A d \in Cpus \ {c} : bandeja'[d] = bandeja[d]
  BY <1>1, LeidoEs
<1>5. /\ cpu' \in [Cpus -> [fase : {"libre", "corre", "espera", "OK", "K23"},
                            pid : Pids \cup {Nadie}, pc : Nat, inst : Nat]]
      /\ cpu'[c].fase = f /\ cpu'[c].pid = cpu[c].pid
      /\ \A d \in Cpus \ {c} : cpu'[d] = cpu[d]
      /\ \A d \in Cpus : cpu'[d].pid = cpu[d].pid
  BY <1>2, PasaEs
<1>6. \A q \in Pids : CpusDe(q)' = CpusDe(q)
  <2>1. \A d \in Cpus : cpu'[d].pid = cpu[d].pid /\ bandeja'[d].pid = bandeja[d].pid
    BY <1>3, <1>4, <1>5
  <2> QED
    BY <2>1 DEF CpusDe
<1>7. TypeOK' /\ ListosReales'
  <2>1. hiloM' \in [pc : {"select", "P12", "P13", "K23"}, cpu : Cpus \cup {Nadie},
                    pid : Pids \cup {Nadie}, sem : Sems \cup {Nadie}]
    <3>1. program[c] \in Pids
      BY <1>3
    <3> QED
      BY <1>2, <1>3, <3>1 DEF TypeOK
  <2>2. valor' \in [Sems -> Int]
    BY <1>2, <1>3 DEF TypeOK
  <2> QED
    BY <1>1, <1>4, <1>5, <2>1, <2>2 DEF TypeOK, ListosReales
<1>8. Sitios' /\ EnOrden' /\ GradoExacto' /\ ProgramasPrimero' /\ HiloLBien' /\ Conexion'
  <2>1. Sitios' /\ EnOrden' /\ GradoExacto'
    BY <1>1 DEF Sitios, EnOrden, GradoExacto, EnSistema, Ingresados
  <2>2. ProgramasPrimero' /\ HiloLBien' /\ Conexion'
    BY <1>1 DEF ProgramasPrimero, HiloLBien, Conexion
  <2> QED
    BY <2>1, <2>2
<1>9. CpusEnFase'
  <2>1. \A d \in Cpus : cpu[d].fase # "K23" /\ bandeja[d].cod # "P16"
    BY <1>1 DEF CpusEnFase
  <2> SUFFICES ASSUME NEW d \in Cpus
               PROVE  /\ cpu'[d].fase = "libre" <=> cpu'[d].pid = Nadie
                      /\ bandeja'[d].pid = Nadie <=> bandeja'[d].cod \in {"nada", "P14", "P15"}
                      /\ bandeja'[d].cod \in {"P12", "P13", "P16"} => cpu'[d].fase = "libre"
                      /\ cpu'[d].fase = "espera" <=> bandeja'[d].cod \in {"P14", "P15"}
                      /\ bandeja'[d].cod \in {"P14", "P15"} => bandeja'[d].sem \in Sems
                      /\ cpu'[d].fase = "K23" \/ bandeja'[d].cod = "P16" =>
                           hiloM'.pc = "K23" /\ hiloM'.cpu = d
    BY DEF CpusEnFase
  <2>2. CASE d = c
    BY <1>2, <1>3, <1>4, <1>5, <2>2
  <2>3. CASE d # c
    BY <1>4, <1>5, <2>1, <2>3 DEF CpusEnFase
  <2> QED
    BY <2>2, <2>3
<1>10. HiloMBien'
  <2>1. CASE f = "OK"
    BY <1>1, <1>2, <2>1 DEF HiloMBien
  <2>2. CASE f = "K23"
    <3>1. hiloM' = [pc |-> "K23", cpu |-> c, pid |-> program[c], sem |-> s]
      BY <1>2, <2>2
    <3>2. c \in CpusDe(hiloM.pid)'
      <4>1. cpu'[c].pid = hiloM'.pid
        BY <1>3, <1>5, <3>1
      <4> QED
        BY <4>1 DEF CpusDe
    <3> QED
      BY <1>1, <1>3, <1>5, <2>2, <3>1, <3>2 DEF HiloMBien
  <2> QED
    BY <2>1, <2>2
<1>11. CpuUnica'
  BY <1>1, <1>6 DEF CpuUnica
<1>12. Cuentas'
  <2>1. EnManos' = EnManos /\ PorPostear' = PorPostear
    BY <1>1, <1>2 DEF EnManos, PorPostear
  <2> QED
    BY <1>1, <2>1 DEF Cuentas
<1> QED
  BY <1>7, <1>8, <1>9, <1>10, <1>11, <1>12

LEMMA PasoBloquearProceso == IInv /\ BloquearProceso => IInv'
<1> SUFFICES ASSUME IInv, BloquearProceso,
                    NEW c, c = hiloM.cpu, NEW s, s = hiloM.sem, NEW p, p = hiloM.pid
             PROVE  IInv'
  OBVIOUS
<1> USE DEF IInv
<1>1. /\ hiloM.pc = "K23" /\ bandeja[c].cod # "nada"
      /\ p \in ejecutando /\ p \in Pids /\ p # Nadie /\ s \in Sems /\ c \in CpusDe(p)
      /\ cpu[c].fase = "K23" \/ bandeja[c].cod \in {"P12", "P16"}
  BY NadieAparte DEF BloquearProceso, HiloMBien, TypeOK
<1>2. c \in Cpus /\ bandeja[c].cod \in Mensajes
  BY <1>1 DEF CpusDe, TypeOK
<1>3. /\ bandeja[c].cod \in {"P12", "P16"} /\ cpu[c].fase = "libre"
      /\ cpu[c].pid = Nadie /\ bandeja[c].pid = p
  <2>1. bandeja[c].cod \in {"P12", "P16"}
    BY <1>1, <1>2 DEF CpusEnFase, Mensajes
  <2>2. cpu[c].fase = "libre" /\ cpu[c].pid = Nadie
    BY <1>2, <2>1 DEF CpusEnFase
  <2> QED
    BY <1>1, <2>1, <2>2 DEF CpusDe
<1>4. program[c] = p /\ ejec[c] /\ p # hiloL.pid
  BY <1>1 DEF CpuUnica, Sitios
<1>5. /\ Leido(c) /\ pcb' = PcbTrasK23 /\ caido' = FALSE
      /\ ejecutando' = ejecutando \ {p} /\ bloqueados' = bloqueados \cup {p}
      /\ ejec' = [ejec EXCEPT ![c] = FALSE] /\ sem' = Postear(sem, {"cpus"})
      /\ cola' = [cola EXCEPT ![s] = Append(@, p)]
      /\ valor' = [valor EXCEPT ![s] = @ - 1] /\ hiloM' = EnSelect
      /\ UNCHANGED <<nuevos, listos, finalizados, cpus, program, hiloN, hiloL, cpu>>
  <2>1. Sacado = p
    BY <1>1 DEF Sacado
  <2>2. ~ (Sacado = Nadie)
    BY <1>1, <2>1
  <2> QED
    BY <2>1, <2>2 DEF BloquearProceso
<1>6. /\ bandeja' \in [Cpus -> [cod : Mensajes, pid : Pids \cup {Nadie}, pc : Nat,
                                sem : Sems \cup {Nadie}]]
      /\ bandeja'[c].pid = Nadie /\ bandeja'[c].cod = "nada"
      /\ \A d \in Cpus \ {c} : bandeja'[d] = bandeja[d]
  BY <1>2, <1>5, LeidoEs
<1>7. /\ p \notin ToSet(nuevos) \cup ToSet(listos) \cup bloqueados \cup finalizados
      /\ p # hiloN
  BY <1>1 DEF Sitios
<1>8. /\ sem' \in [{"nuevos", "listos", "cpus", "grado"} -> Nat] /\ sem.cpus \in Nat
      /\ sem'.nuevos = sem.nuevos /\ sem'.listos = sem.listos
      /\ sem'.cpus = sem.cpus + 1 /\ sem'.grado = sem.grado
  BY <1>5, SemaforosTipo
<1>9. /\ ejec' \in [Cpus -> BOOLEAN] /\ ejec \in [Cpus -> BOOLEAN] /\ ~ejec'[c]
      /\ \A d \in Cpus \ {c} : ejec'[d] = ejec[d]
  BY <1>2, <1>5 DEF TypeOK
<1>10. pcb' \in [Pids -> [pid : Pids, pc : Nat]] /\ \A q \in Pids : pcb'[q].pid = q
  <2>1. /\ pcb \in [Pids -> [pid : Pids, pc : Nat]] /\ \A q \in Pids : pcb[q].pid = q
    BY DEF TypeOK, CpuUnica
  <2>2. /\ bandeja[c].pc \in Nat
        /\ [pid |-> p, pc |-> bandeja[c].pc] \in [pid : Pids, pc : Nat]
    BY <1>1, <1>2 DEF TypeOK
  <2>3. \/ pcb' = pcb
        \/ pcb' = [pcb EXCEPT ![p] = [pid |-> p, pc |-> bandeja[c].pc]]
    BY <1>3, <1>5 DEF PcbTrasK23
  <2> QED
    BY <1>1, <2>1, <2>2, <2>3
<1>11. valor' \in [Sems -> Int] /\ cola' \in [Sems -> Seq(Pids)]
  <2>1. valor \in [Sems -> Int] /\ cola \in [Sems -> Seq(Pids)]
    BY DEF TypeOK
  <2>2. Append(cola[s], p) \in Seq(Pids)
    BY <1>1, <2>1, AppendProperties
  <2> QED
    BY <1>1, <1>5, <2>1, <2>2
<1>12. CpusDe(p)' = {} /\ \A q \in Pids \ {p} : CpusDe(q)' = CpusDe(q)
  <2>1. \A d \in Cpus : d # c => d \notin CpusDe(p)
    BY <1>1 DEF CpuUnica
  <2>2. \A q \in Pids : CpusDe(q)' = {d \in Cpus : cpu[d].pid = q \/ bandeja'[d].pid = q}
    BY <1>5 DEF CpusDe
  <2>3. \A d \in Cpus : ~ (cpu[d].pid = p \/ bandeja'[d].pid = p)
    BY <1>1, <1>3, <1>6, <2>1 DEF CpusDe
  <2>4. \A q \in Pids \ {p} : \A d \in Cpus :
          cpu[d].pid = q \/ bandeja'[d].pid = q <=> cpu[d].pid = q \/ bandeja[d].pid = q
    BY <1>3, <1>6, NadieAparte
  <2>5. CpusDe(p)' = {}
    BY <1>1, <2>2, <2>3
  <2>6. ASSUME NEW q \in Pids \ {p} PROVE CpusDe(q)' = CpusDe(q)
    BY <2>2, <2>4 DEF CpusDe
  <2> QED
    BY <2>5, <2>6
<1>13. TypeOK' /\ ListosReales'
  BY <1>1, <1>5, <1>6, <1>8, <1>9, <1>10, <1>11 DEF TypeOK, ListosReales, EnSelect
<1>14. Sitios'
  BY <1>1, <1>4, <1>5, <1>7 DEF Sitios
<1>15. Ingresados' = Ingresados /\ EnSistema' = EnSistema
  BY <1>1, <1>5, <1>7 DEF Ingresados, EnSistema
<1>16. EnOrden' /\ GradoExacto'
  BY <1>8, <1>15 DEF EnOrden, GradoExacto
<1>17. CpusEnFase'
  <2>1. \A d \in Cpus \ {c} : cpu[d].fase # "K23" /\ bandeja[d].cod # "P16"
    BY DEF CpusEnFase
  <2> SUFFICES ASSUME NEW d \in Cpus
               PROVE  /\ cpu[d].fase = "libre" <=> cpu[d].pid = Nadie
                      /\ bandeja'[d].pid = Nadie <=> bandeja'[d].cod \in {"nada", "P14", "P15"}
                      /\ bandeja'[d].cod \in {"P12", "P13", "P16"} => cpu[d].fase = "libre"
                      /\ cpu[d].fase = "espera" <=> bandeja'[d].cod \in {"P14", "P15"}
                      /\ bandeja'[d].cod \in {"P14", "P15"} => bandeja'[d].sem \in Sems
                      /\ cpu[d].fase # "K23" /\ bandeja'[d].cod # "P16"
    BY <1>5 DEF CpusEnFase
  <2>2. CASE d = c
    BY <1>3, <1>6, <2>2
  <2>3. CASE d # c
    BY <1>6, <2>1, <2>3 DEF CpusEnFase
  <2> QED
    BY <2>2, <2>3
<1>18. HiloLBien'
  BY <1>5, <1>9, <1>4 DEF HiloLBien, TypeOK
<1>19. HiloMBien'
  BY <1>5 DEF HiloMBien, EnSelect
<1>20. Conexion' /\ ProgramasPrimero'
  BY <1>5, <1>9 DEF Conexion, ProgramasPrimero
<1>21. CpuUnica'
  <2> SUFFICES ASSUME NEW q \in Pids
               PROVE  /\ \A d, e \in CpusDe(q)' : d = e
                      /\ \A d \in CpusDe(q)' : \/ q \in ejecutando' /\ program[d] = q /\ ejec'[d]
                                               \/ hiloL = [pid |-> q, cpu |-> d]
    BY <1>5, <1>10 DEF CpuUnica
  <2>1. CASE q = p
    BY <1>12, <2>1
  <2>2. CASE q # p
    <3>1. CpusDe(q)' = CpusDe(q)
      BY <1>12, <2>2
    <3>2. c \notin CpusDe(q)
      BY <1>3, <2>2, NadieAparte DEF CpusDe
    <3>3. \A d \in CpusDe(q) : ejec'[d] = ejec[d]
      BY <1>9, <3>2 DEF CpusDe
    <3>4. q \in ejecutando => q \in ejecutando'
      BY <1>5, <2>2
    <3> QED
      BY <3>1, <3>3, <3>4 DEF CpuUnica
  <2> QED
    BY <2>1, <2>2
<1>22. Cuentas'
  <2>1. EnManos' = EnManos /\ PorPostear' = PorPostear /\ EnManos \in {0, 1} /\ PorPostear = 0
    BY <1>1, <1>5 DEF EnManos, PorPostear, EnSelect
  <2>2. cpus \in Seq(Cpus) /\ IsInjective(cpus) /\ c \in ToSet(cpus)
    BY <1>1, <1>2, <1>4 DEF TypeOK, Conexion
  <2>3. Cardinality(Desocupadas(cpus, ejec')) = Cardinality(Desocupadas(cpus, ejec)) + 1
    BY <1>4, <1>9, <2>2, DesocupadasCambia
  <2>4. Cardinality(Desocupadas(cpus, ejec)) \in Nat
    BY <1>9, <2>2, DesocupadasFinitas
  <2> QED
    BY <1>5, <1>8, <2>1, <2>3, <2>4 DEF Cuentas
<1> QED
  BY <1>13, <1>14, <1>16, <1>17, <1>18, <1>19, <1>20, <1>21, <1>22

LEMMA PasoP15 ==
  ASSUME IInv, NEW c \in Cpus, P15(c)
  PROVE  IInv'
<1> SUFFICES ASSUME NEW s, s = bandeja[c].sem PROVE IInv'
  OBVIOUS
<1> USE DEF IInv
<1>1. /\ hiloM = EnSelect /\ hiloM.pc = "select" /\ hiloL.cpu # c /\ bandeja[c].cod = "P15"
      /\ Leido(c) /\ Pasa(c, "OK") /\ valor' = [valor EXCEPT ![s] = @ + 1]
      /\ UNCHANGED <<nuevos, ejecutando, finalizados, cpus, ejec, program, pcb, hiloN,
                     hiloL, hiloM>>
  BY DEF P15, Mensaje, EnSelect, Pasa
<1>2. /\ s \in Sems /\ bandeja[c].pid = Nadie /\ cpu[c].fase = "espera" /\ cpu[c].pid # Nadie
  BY <1>1 DEF CpusEnFase
<1>3. /\ bandeja' \in [Cpus -> [cod : Mensajes, pid : Pids \cup {Nadie}, pc : Nat,
                                sem : Sems \cup {Nadie}]]
      /\ bandeja'[c].pid = Nadie /\ bandeja'[c].cod = "nada"
      /\ \A d \in Cpus \ {c} : bandeja'[d] = bandeja[d]
  BY <1>1, LeidoEs
<1>4. /\ cpu' \in [Cpus -> [fase : {"libre", "corre", "espera", "OK", "K23"},
                            pid : Pids \cup {Nadie}, pc : Nat, inst : Nat]]
      /\ cpu'[c].fase = "OK"
      /\ \A d \in Cpus \ {c} : cpu'[d] = cpu[d]
      /\ \A d \in Cpus : cpu'[d].pid = cpu[d].pid
  BY <1>1, PasaEs
<1>5. \A q \in Pids : CpusDe(q)' = CpusDe(q)
  <2>1. \A d \in Cpus : cpu'[d].pid = cpu[d].pid /\ bandeja'[d].pid = bandeja[d].pid
    BY <1>2, <1>3, <1>4
  <2> QED
    BY <2>1 DEF CpusDe
<1>6. /\ valor' \in [Sems -> Int] /\ cola \in [Sems -> Seq(Pids)] /\ cola[s] \in Seq(Pids)
  <2>1. valor \in [Sems -> Int] /\ cola \in [Sems -> Seq(Pids)]
    BY DEF TypeOK
  <2> QED
    BY <1>1, <1>2, <2>1
<1>7. \/ /\ caido' \in BOOLEAN
         /\ UNCHANGED <<cola, bloqueados, listos, sem>>
      \/ \E p \in bloqueados :
           /\ cola' = [cola EXCEPT ![s] = Tail(@)] /\ cola[s] # <<>>
           /\ bloqueados' = bloqueados \ {p} /\ listos' = Append(listos, p)
           /\ sem' = Postear(sem, {"listos"}) /\ UNCHANGED caido
  <2> DEFINE p == IF cola[s] = <<>> THEN Nadie ELSE Head(cola[s])
  <2>1. CASE ~Despierta(s)
    BY <2>1 DEF P15, TypeOK
  <2>2. CASE Despierta(s) /\ p \notin bloqueados
    BY <2>2 DEF P15
  <2>3. CASE Despierta(s) /\ p \in bloqueados
    <3>1. cola[s] # <<>>
      BY <2>3, NadieAparte DEF TypeOK
    <3> QED
      BY <2>3, <3>1 DEF P15
  <2> QED
    BY <2>1, <2>2, <2>3
<1>8. CpusEnFase'
  <2>1. \A d \in Cpus : cpu[d].fase # "K23" /\ bandeja[d].cod # "P16"
    BY <1>1 DEF CpusEnFase
  <2> SUFFICES ASSUME NEW d \in Cpus
               PROVE  /\ cpu'[d].fase = "libre" <=> cpu'[d].pid = Nadie
                      /\ bandeja'[d].pid = Nadie <=> bandeja'[d].cod \in {"nada", "P14", "P15"}
                      /\ bandeja'[d].cod \in {"P12", "P13", "P16"} => cpu'[d].fase = "libre"
                      /\ cpu'[d].fase = "espera" <=> bandeja'[d].cod \in {"P14", "P15"}
                      /\ bandeja'[d].cod \in {"P14", "P15"} => bandeja'[d].sem \in Sems
                      /\ cpu'[d].fase # "K23" /\ bandeja'[d].cod # "P16"
    BY DEF CpusEnFase
  <2>2. CASE d = c
    BY <1>2, <1>3, <1>4, <2>2
  <2>3. CASE d # c
    BY <1>3, <1>4, <2>1, <2>3 DEF CpusEnFase
  <2> QED
    BY <2>2, <2>3
<1>9. HiloLBien' /\ HiloMBien' /\ Conexion' /\ ProgramasPrimero'
  BY <1>1 DEF HiloLBien, HiloMBien, Conexion, ProgramasPrimero
<1>10. CpuUnica'
  BY <1>1, <1>5 DEF CpuUnica
<1>11. EnManos' = EnManos /\ PorPostear' = PorPostear
  BY <1>1 DEF EnManos, PorPostear
<1>12. CASE caido' \in BOOLEAN /\ UNCHANGED <<cola, bloqueados, listos, sem>>
  <2>1. TypeOK' /\ ListosReales'
    BY <1>1, <1>3, <1>4, <1>6, <1>12 DEF TypeOK, ListosReales
  <2>2. Sitios' /\ EnOrden' /\ GradoExacto'
    BY <1>1, <1>12 DEF Sitios, EnOrden, GradoExacto, EnSistema, Ingresados
  <2>3. Cuentas'
    BY <1>1, <1>11, <1>12 DEF Cuentas
  <2> QED
    BY <1>8, <1>9, <1>10, <2>1, <2>2, <2>3
<1>13. ASSUME NEW p \in bloqueados,
              cola' = [cola EXCEPT ![s] = Tail(@)], cola[s] # <<>>,
              bloqueados' = bloqueados \ {p}, listos' = Append(listos, p),
              sem' = Postear(sem, {"listos"}), UNCHANGED caido
       PROVE  IInv'
  <2>1. /\ p \in Pids /\ p # Nadie /\ p # hiloN /\ p # hiloL.pid
        /\ p \notin ToSet(nuevos) \cup ToSet(listos) \cup ejecutando \cup finalizados
    BY NadieAparte DEF TypeOK, Sitios
  <2>2. /\ listos' \in Seq(Pids) /\ Len(listos') = Len(listos) + 1
        /\ ToSet(listos') = ToSet(listos) \cup {p} /\ IsInjective(listos')
    BY <1>13, <2>1, AlFinal DEF ListosReales, Sitios
  <2>3. /\ sem' \in [{"nuevos", "listos", "cpus", "grado"} -> Nat]
        /\ sem'.nuevos = sem.nuevos /\ sem'.listos = sem.listos + 1
        /\ sem'.cpus = sem.cpus /\ sem'.grado = sem.grado
    BY <1>13, SemaforosTipo
  <2>4. cola' \in [Sems -> Seq(Pids)]
    <3>1. Tail(cola[s]) \in Seq(Pids)
      BY <1>6, <1>13, HeadTailProperties
    <3> QED
      BY <1>2, <1>6, <1>13, <3>1
  <2>5. TypeOK' /\ ListosReales'
    <3>1. listos' \in Seq(Pids \cup {Nadie})
      BY <2>2, SeqMonotonic
    <3> QED
      BY <1>1, <1>3, <1>4, <1>6, <1>13, <2>2, <2>3, <2>4, <3>1 DEF TypeOK, ListosReales
  <2>6. Sitios'
    BY <1>1, <1>13, <2>1, <2>2 DEF Sitios
  <2>7. Ingresados' = Ingresados /\ EnSistema' = EnSistema
    BY <1>1, <1>13, <2>1, <2>2 DEF Ingresados, EnSistema
  <2>8. EnOrden' /\ GradoExacto'
    BY <2>3, <2>7 DEF EnOrden, GradoExacto
  <2>9. Cuentas'
    BY <1>1, <1>11, <2>2, <2>3 DEF Cuentas
  <2> QED
    BY <1>8, <1>9, <1>10, <2>5, <2>6, <2>8, <2>9
<1> QED
  BY <1>7, <1>12, <1>13

(* A step of a CPU changes what that CPU does and the message it leaves,    *)
(* and keeps the process it holds.                                          *)
SoloCpu == UNCHANGED <<nuevos, listos, ejecutando, bloqueados, finalizados, cpus, ejec, program,
                       sem, valor, cola, pcb, hiloN, hiloL, hiloM, caido>>

Deja(c, f, m) == /\ cpu' = [cpu EXCEPT ![c] = f]
                 /\ bandeja' = [bandeja EXCEPT ![c] = m]

LEMMA PasoCpu ==
  ASSUME IInv, NEW c \in Cpus, SoloCpu,
         NEW f \in [fase : {"libre", "corre", "espera", "OK", "K23"},
                    pid : Pids \cup {Nadie}, pc : Nat, inst : Nat],
         NEW m \in [cod : Mensajes, pid : Pids \cup {Nadie}, pc : Nat, sem : Sems \cup {Nadie}],
         Deja(c, f, m),
         \A q \in Pids : f.pid = q \/ m.pid = q <=> c \in CpusDe(q),
         f.fase = "libre" <=> f.pid = Nadie,
         m.pid = Nadie <=> m.cod \in {"nada", "P14", "P15"},
         m.cod \in {"P12", "P13", "P16"} => f.fase = "libre",
         f.fase = "espera" <=> m.cod \in {"P14", "P15"},
         m.cod \in {"P14", "P15"} => m.sem \in Sems,
         f.fase # "K23", m.cod = "P16" => hiloM.pc = "K23" /\ hiloM.cpu = c,
         hiloM.pc = "K23" /\ hiloM.cpu = c => m.cod \in {"P12", "P16"}
  PROVE  IInv'
<1> USE DEF IInv, SoloCpu, Deja
<1>1. /\ cpu'[c] = f /\ bandeja'[c] = m
      /\ \A d \in Cpus \ {c} : cpu'[d] = cpu[d] /\ bandeja'[d] = bandeja[d]
      /\ cpu' \in [Cpus -> [fase : {"libre", "corre", "espera", "OK", "K23"},
                            pid : Pids \cup {Nadie}, pc : Nat, inst : Nat]]
      /\ bandeja' \in [Cpus -> [cod : Mensajes, pid : Pids \cup {Nadie}, pc : Nat,
                                sem : Sems \cup {Nadie}]]
  BY DEF TypeOK
<1>2. \A q \in Pids : CpusDe(q)' = CpusDe(q)
  <2> SUFFICES ASSUME NEW q \in Pids PROVE CpusDe(q)' = CpusDe(q)
    OBVIOUS
  <2>1. CpusDe(q)' = {d \in Cpus : cpu'[d].pid = q \/ bandeja'[d].pid = q}
    BY DEF CpusDe
  <2>2. \A d \in Cpus : cpu'[d].pid = q \/ bandeja'[d].pid = q <=> d \in CpusDe(q)
    BY <1>1 DEF CpusDe
  <2>3. CpusDe(q) \subseteq Cpus
    BY DEF CpusDe
  <2> QED
    BY <2>1, <2>2, <2>3
<1>3. TypeOK' /\ ListosReales'
  BY <1>1 DEF TypeOK, ListosReales
<1>4. Sitios' /\ EnOrden' /\ GradoExacto'
  BY DEF Sitios, EnOrden, GradoExacto, EnSistema, Ingresados
<1>5. HiloLBien' /\ Conexion' /\ ProgramasPrimero'
  BY DEF HiloLBien, Conexion, ProgramasPrimero
<1>6. Cuentas'
  BY DEF Cuentas, EnManos, PorPostear
<1>7. CpusEnFase'
  <2> SUFFICES ASSUME NEW d \in Cpus
               PROVE  /\ cpu'[d].fase = "libre" <=> cpu'[d].pid = Nadie
                      /\ bandeja'[d].pid = Nadie <=> bandeja'[d].cod \in {"nada", "P14", "P15"}
                      /\ bandeja'[d].cod \in {"P12", "P13", "P16"} => cpu'[d].fase = "libre"
                      /\ cpu'[d].fase = "espera" <=> bandeja'[d].cod \in {"P14", "P15"}
                      /\ bandeja'[d].cod \in {"P14", "P15"} => bandeja'[d].sem \in Sems
                      /\ cpu'[d].fase = "K23" \/ bandeja'[d].cod = "P16" =>
                           hiloM.pc = "K23" /\ hiloM.cpu = d
    BY DEF CpusEnFase
  <2>1. CASE d = c
    BY <1>1, <2>1
  <2>2. CASE d # c
    BY <1>1, <2>2 DEF CpusEnFase
  <2> QED
    BY <2>1, <2>2
<1>8. HiloMBien'
  <2> DEFINE p == hiloM.pid
  <2>1. p \in ejecutando => CpusDe(p)' = CpusDe(p)
    <3>1. p' = p
      OBVIOUS
    <3>2. p \in ejecutando => p \in Pids
      BY DEF TypeOK
    <3> QED
      BY <1>2, <3>1, <3>2 DEF CpusDe
  <2>2. hiloM.pc = "K23" => hiloM.cpu \in Cpus
    BY DEF HiloMBien, CpusDe
  <2>3. hiloM.pc = "K23" => cpu'[hiloM.cpu].fase = "K23" \/ bandeja'[hiloM.cpu].cod \in {"P12", "P16"}
    BY <1>1, <2>2 DEF HiloMBien
  <2> QED
    BY <2>1, <2>3 DEF HiloMBien
<1>9. CpuUnica'
  BY <1>2 DEF CpuUnica
<1> QED
  BY <1>3, <1>4, <1>5, <1>6, <1>7, <1>8, <1>9

(* What an instruction leaves: the CPU goes on with its process, or hands   *)
(* it over with the message.                                                *)
LEMMA PasoInstruccion ==
  ASSUME IInv, NEW c \in Cpus, NEW accion \in {"continuar", "P13", "P16"},
         Instruccion(c, accion),
         cpu[c].fase \in {"corre", "OK", "K23"},
         accion = "P16" <=> cpu[c].fase = "K23", SoloCpu
  PROVE  IInv'
<1> USE DEF IInv
<1> DEFINE hechas == cpu[c].inst + 1
           cod == IF Algoritmo = "RR" /\ hechas = Quantum THEN "P12" ELSE accion
           FR == [fase : {"libre", "corre", "espera", "OK", "K23"},
                  pid : Pids \cup {Nadie}, pc : Nat, inst : Nat]
           MR == [cod : Mensajes, pid : Pids \cup {Nadie}, pc : Nat, sem : Sems \cup {Nadie}]
<1>1. cpu \in [Cpus -> FR] /\ bandeja \in [Cpus -> MR]
  BY DEF TypeOK
<1>2. /\ cpu[c].pid \in Pids /\ cpu[c].pid # Nadie /\ cpu[c].pc \in Nat /\ cpu[c].inst \in Nat
      /\ cpu[c] \in FR /\ bandeja[c] \in MR
  <2>1. cpu[c].pid # Nadie
    BY DEF CpusEnFase
  <2>2. cpu[c] \in FR /\ bandeja[c] \in MR
    BY <1>1
  <2> QED
    BY <2>1, <2>2
<1>3. bandeja[c].cod = "nada" /\ bandeja[c].pid = Nadie
  BY <1>2 DEF CpusEnFase, Mensajes
<1>4. \A q \in Pids : c \in CpusDe(q) <=> cpu[c].pid = q
  BY <1>3, NadieAparte DEF CpusDe
<1>5. CASE cod = "continuar"
  <2> DEFINE f == [fase |-> "corre", pid |-> cpu[c].pid, pc |-> cpu[c].pc + 1, inst |-> hechas]
  <2>1. accion = "continuar" /\ cpu[c].fase # "K23"
    BY <1>5
  <2>2. cpu' = [cpu EXCEPT ![c] = f] /\ bandeja' = bandeja
    BY <1>5 DEF Instruccion
  <2>3. Deja(c, f, bandeja[c])
    BY <1>1, <2>2 DEF Deja
  <2>4. f \in FR /\ f.fase = "corre" /\ f.pid = cpu[c].pid
    BY <1>2
  <2>5. ~ (hiloM.pc = "K23" /\ hiloM.cpu = c)
    BY <1>3, <2>1 DEF HiloMBien
  <2>6. \A q \in Pids : f.pid = q \/ bandeja[c].pid = q <=> c \in CpusDe(q)
    BY <1>3, <1>4, <2>4, NadieAparte
  <2> HIDE DEF f
  <2> QED
    BY <1>2, <1>3, <2>3, <2>4, <2>5, <2>6, PasoCpu
<1>6. CASE cod # "continuar"
  <2> DEFINE m == [cod |-> cod, pid |-> cpu[c].pid, pc |-> cpu[c].pc + 1, sem |-> Nadie]
  <2>1. Deja(c, Ocioso, m)
    BY <1>6 DEF Instruccion, Deja
  <2>2. /\ cod \in {"P12", "P13", "P16"}
        /\ cpu[c].fase = "K23" => cod \in {"P12", "P16"}
        /\ cod = "P16" => cpu[c].fase = "K23"
    BY <1>6
  <2>3. cpu[c].fase = "K23" => hiloM.pc = "K23" /\ hiloM.cpu = c
    BY DEF CpusEnFase
  <2>4. hiloM.pc = "K23" /\ hiloM.cpu = c => cpu[c].fase = "K23"
    BY <1>3 DEF HiloMBien
  <2> HIDE DEF cod
  <2>5. /\ m \in MR /\ m.cod = cod /\ m.pid = cpu[c].pid
        /\ Ocioso \in FR /\ Ocioso.fase = "libre" /\ Ocioso.pid = Nadie
    BY <1>2, <2>2 DEF Ocioso, Mensajes
  <2>6. \A q \in Pids : Ocioso.pid = q \/ m.pid = q <=> c \in CpusDe(q)
    BY <1>4, <2>5, NadieAparte
  <2> HIDE DEF m
  <2> QED
    BY <1>2, <2>1, <2>2, <2>3, <2>4, <2>5, <2>6, PasoCpu
<1> QED
  BY <1>5, <1>6

LEMMA PasoEjecutar ==
  ASSUME IInv, NEW c \in Cpus, Ejecutar(c)
  PROVE  IInv'
<1> SUFFICES ASSUME NEW i, i = Guion[cpu[c].pid][cpu[c].pc + 1] PROVE IInv'
  OBVIOUS
<1> DEFINE FR == [fase : {"libre", "corre", "espera", "OK", "K23"},
                  pid : Pids \cup {Nadie}, pc : Nat, inst : Nat]
           MR == [cod : Mensajes, pid : Pids \cup {Nadie}, pc : Nat, sem : Sems \cup {Nadie}]
<1> USE DEF IInv
<1>1. /\ cpu[c].fase = "corre" /\ cpu[c].pc < Len(Guion[cpu[c].pid]) /\ SoloCpu
      /\ CASE i.op = "wait"   -> Pedir(c, "P14", i.sem)
           [] i.op = "signal" -> Pedir(c, "P15", i.sem)
           [] i.op = "otra"   -> Instruccion(c, "continuar")
           [] i.op = "fin"    -> Instruccion(c, "P13")
  BY DEF Ejecutar, SoloCpu, listas
<1>2. cpu \in [Cpus -> FR] /\ bandeja \in [Cpus -> MR]
  BY DEF TypeOK
<1>3. /\ cpu[c].pid \in Pids /\ cpu[c].pid # Nadie /\ cpu[c].pc \in Nat /\ cpu[c].inst \in Nat
  <2>1. cpu[c].pid # Nadie
    BY <1>1 DEF CpusEnFase
  <2>2. cpu[c] \in FR
    BY <1>2
  <2> QED
    BY <2>1, <2>2
<1>4. i \in Instrucciones
  <2>1. Guion[cpu[c].pid] \in Seq(Instrucciones)
    BY <1>3, PlanificadorOK
  <2> QED
    BY <1>1, <1>3, <2>1, ElementOfSeq, LenProperties
<1>5. /\ i.op \in {"wait", "signal", "otra", "fin"}
      /\ i.op \in {"wait", "signal"} => i.sem \in Sems
  BY <1>4 DEF Instrucciones
<1>6. ASSUME NEW cod \in {"P14", "P15"}, Pedir(c, cod, i.sem), i.sem \in Sems PROVE IInv'
  <2> DEFINE f == [cpu[c] EXCEPT !.fase = "espera"]
             m == [cod |-> cod, pid |-> Nadie, pc |-> 0, sem |-> i.sem]
  <2>1. Deja(c, f, m)
    BY <1>2, <1>6 DEF Pedir, Deja
  <2>2. f \in FR /\ f.fase = "espera" /\ f.pid = cpu[c].pid
    BY <1>2
  <2>3. m \in MR /\ m.cod = cod /\ m.pid = Nadie /\ m.sem \in Sems
    BY <1>6 DEF Mensajes
  <2>4. bandeja[c].cod = "nada" /\ bandeja[c].pid = Nadie
    BY <1>1, <1>2 DEF CpusEnFase, Mensajes
  <2>5. ~ (hiloM.pc = "K23" /\ hiloM.cpu = c)
    BY <1>1, <2>4 DEF HiloMBien
  <2>6. \A q \in Pids : f.pid = q \/ m.pid = q <=> c \in CpusDe(q)
    BY <2>2, <2>3, <2>4, NadieAparte DEF CpusDe
  <2> HIDE DEF f, m
  <2> QED
    BY <1>1, <1>3, <2>1, <2>2, <2>3, <2>5, <2>6, PasoCpu
<1>7. ASSUME NEW accion \in {"continuar", "P13"}, Instruccion(c, accion) PROVE IInv'
  BY <1>1, <1>7, PasoInstruccion
<1> QED
  BY <1>1, <1>5, <1>6, <1>7

LEMMA PasoRespuestaKernel ==
  ASSUME IInv, NEW c \in Cpus, RespuestaKernel(c)
  PROVE  IInv'
<1>1. SoloCpu
  BY DEF RespuestaKernel, SoloCpu, listas
<1>2. \/ cpu[c].fase = "OK" /\ Instruccion(c, "continuar")
      \/ cpu[c].fase = "K23" /\ Instruccion(c, "P16")
  BY DEF RespuestaKernel
<1> QED
  BY <1>1, <1>2, PasoInstruccion

LEMMA Paso == IInv /\ [Next]_vars => IInv'
<1> SUFFICES ASSUME IInv, [Next]_vars PROVE IInv'
  OBVIOUS
<1>1. CASE Next
  <2>1. CASE C01
    BY <2>1, PasoC01
  <2>2. CASE PedirMemoria
    BY <2>2, PasoPedirMemoria
  <2>3. CASE AgregarNuevaProg
    BY <2>3, PasoAgregarNuevaProg
  <2>4. CASE Despachar
    BY <2>4, PasoDespachar
  <2>5. CASE AnotarDespacho
    BY <2>5, PasoAnotarDespacho
  <2>6. CASE FinalizarQuantum
    BY <2>6, PasoFinalizarQuantum
  <2>7. CASE FinalizarProceso
    BY <2>7, PasoFinalizarProceso
  <2>8. CASE BloquearProceso
    BY <2>8, PasoBloquearProceso
  <2>9. ASSUME NEW c \in Cpus, AgregarCpu(c) PROVE IInv'
    BY <2>9, PasoAgregarCpu
  <2>10. ASSUME NEW c \in Cpus, P12(c) \/ P13(c) PROVE IInv'
    BY <2>10, PasoDevuelvePcb DEF P12, P13
  <2>11. ASSUME NEW c \in Cpus, P14(c) PROVE IInv'
    BY <2>11, PasoP14
  <2>12. ASSUME NEW c \in Cpus, P15(c) PROVE IInv'
    BY <2>12, PasoP15
  <2>13. ASSUME NEW c \in Cpus, Ejecutar(c) PROVE IInv'
    BY <2>13, PasoEjecutar
  <2>14. ASSUME NEW c \in Cpus, RespuestaKernel(c) PROVE IInv'
    BY <2>14, PasoRespuestaKernel
  <2> QED
    BY <1>1, <2>1, <2>2, <2>3, <2>4, <2>5, <2>6, <2>7, <2>8, <2>9, <2>10, <2>11, <2>12, <2>13,
       <2>14 DEF Next
<1>2. CASE UNCHANGED vars
  <2>1. TypeOK' /\ ListosReales' /\ Sitios' /\ EnOrden'
    BY <1>2 DEF IInv, vars, TypeOK, ListosReales, Sitios, EnOrden, Ingresados
  <2>2. CpusEnFase' /\ HiloLBien' /\ HiloMBien' /\ Conexion' /\ CpuUnica'
    BY <1>2 DEF IInv, vars, CpusEnFase, HiloLBien, HiloMBien, Conexion, CpuUnica, CpusDe
  <2>3. ProgramasPrimero' /\ Cuentas' /\ GradoExacto'
    BY <1>2 DEF IInv, vars, ProgramasPrimero, Cuentas, EnManos, PorPostear, GradoExacto,
                EnSistema, Ingresados
  <2> QED
    BY <2>1, <2>2, <2>3 DEF IInv
<1> QED
  BY <1>1, <1>2

-----------------------------------------------------------------------------
(* Theorems *)

(* The inductive invariant of the scheduler: where each process is, what    *)
(* each CPU holds and what the three threads are about to do.               *)
THEOREM Invariante == Spec => []IInv
BY Inicio, Paso, PTL DEF Spec

(* The lists hold processes, programas_nuevos_A_listos and                  *)
(* programas_listos_A_ejecutar never take a semaphore below zero.           *)
THEOREM TypeCorrect == Spec => []TypeOK
<1>1. IInv => TypeOK
  BY DEF IInv
<1> QED
  BY Invariante, <1>1, PTL

(* How many times a process is in a queue that holds it once or not at all. *)
LEMMA VecesEs ==
  ASSUME NEW S, NEW q \in Seq(S), IsInjective(q), NEW p
  PROVE  Cardinality({i \in DOMAIN q : q[i] = p}) = IF p \in ToSet(q) THEN 1 ELSE 0
<1>1. CASE p \in ToSet(q)
  <2>1. PICK k \in DOMAIN q : q[k] = p
    BY <1>1 DEF ToSet
  <2>2. {i \in DOMAIN q : q[i] = p} = {k}
    BY <2>1 DEF IsInjective
  <2> QED
    BY <1>1, <2>2, FS_Singleton
<1>2. CASE p \notin ToSet(q)
  <2>1. {i \in DOMAIN q : q[i] = p} = {}
    BY <1>2 DEF ToSet
  <2> QED
    BY <1>2, <2>1, FS_EmptySet
<1> QED
  BY <1>1, <1>2

(* However the threads and the CPUs interleave, a process is never on two   *)
(* lists, twice on one, or in the hands of a thread and on a list.          *)
THEOREM UnLugar == Spec => []UnSoloLugar
<1>1. ASSUME IInv, NEW p \in Pids
      PROVE  Cardinality({i \in DOMAIN nuevos : nuevos[i] = p})
             + Cardinality({i \in DOMAIN listos : listos[i] = p})
             + Cardinality({l \in {1, 2, 3} : p \in <<ejecutando, bloqueados, finalizados>>[l]})
             + (IF hiloN = p THEN 1 ELSE 0) + (IF hiloL.pid = p THEN 1 ELSE 0) <= 1
  <2> DEFINE L == {l \in {1, 2, 3} : p \in <<ejecutando, bloqueados, finalizados>>[l]}
  <2>1. /\ Cardinality({i \in DOMAIN nuevos : nuevos[i] = p}) = IF p \in ToSet(nuevos) THEN 1 ELSE 0
        /\ Cardinality({i \in DOMAIN listos : listos[i] = p}) = IF p \in ToSet(listos) THEN 1 ELSE 0
    BY <1>1, VecesEs DEF IInv, TypeOK, ListosReales, Sitios
  <2>2. Cardinality(L) = IF p \in ejecutando \cup bloqueados \cup finalizados THEN 1 ELSE 0
    <3>1. CASE p \in ejecutando
      <4>1. L = {1}
        BY <1>1, <3>1 DEF IInv, Sitios
      <4> QED
        BY <3>1, <4>1, FS_Singleton
    <3>2. CASE p \in bloqueados
      <4>1. L = {2}
        BY <1>1, <3>2 DEF IInv, Sitios
      <4> QED
        BY <3>2, <4>1, FS_Singleton
    <3>3. CASE p \in finalizados
      <4>1. L = {3}
        BY <1>1, <3>3 DEF IInv, Sitios
      <4> QED
        BY <3>3, <4>1, FS_Singleton
    <3>4. CASE p \notin ejecutando \cup bloqueados \cup finalizados
      <4>1. L = {}
        BY <3>4
      <4> QED
        BY <3>4, <4>1, FS_EmptySet
    <3> QED
      BY <3>1, <3>2, <3>3, <3>4
  <2> QED
    BY <1>1, <2>1, <2>2 DEF IInv, Sitios
<1>2. IInv => UnSoloLugar
  BY <1>1 DEF UnSoloLugar
<1> QED
  BY Invariante, <1>2, PTL

(* A process runs on at most one CPU, the Kernel knows which one, the PCB   *)
(* that a CPU sends back is stored in the process it belongs to, and the    *)
(* search of finalizar_proceso passes over no CPU without a program.        *)
THEOREM CpuDeCadaUno == Spec => []CpuCorrecta
<1>1. ASSUME IInv, NEW p \in Pids PROVE Cardinality(CpusDe(p)) <= 1
  <2>1. \A c, d \in CpusDe(p) : c = d
    BY <1>1 DEF IInv, CpuUnica
  <2>2. CASE CpusDe(p) = {}
    BY <2>2, FS_EmptySet
  <2>3. CASE CpusDe(p) # {}
    <3>1. PICK c : c \in CpusDe(p)
      BY <2>3
    <3>2. CpusDe(p) = {c}
      BY <2>1, <3>1
    <3>3. Cardinality({c}) = 1
      BY FS_Singleton
    <3> QED
      BY <3>2, <3>3
  <2> QED
    BY <2>2, <2>3
<1>2. IInv => CpuCorrecta
  BY <1>1 DEF IInv, CpuUnica, CpuCorrecta
<1> QED
  BY Invariante, <1>2, PTL

(* What the three semaphores of the Kernel count: none of the waits of the  *)
(* threads lets one through with nothing to take.                           *)
THEOREM SemaforosExactos == Spec => []SemaforosCuentan
<1>1. IInv => SemaforosCuentan
  BY DEF IInv, Cuentas, SemaforosCuentan, EnManos, PorPostear, Desocupadas
<1> QED
  BY Invariante, <1>1, PTL

(* The degree of multiprogramming is respected and no slot of it is lost,   *)
(* whatever the order of arrivals, dispatches and endings.                  *)
THEOREM GradoRespetado == Spec => []GradoExacto
<1>1. IInv => GradoExacto
  BY DEF IInv
<1> QED
  BY Invariante, <1>1, PTL

-----------------------------------------------------------------------------
(* What holds only while two races do not happen *)

(* Nobody ends while two processes wait for one semaphore: sem_signal with  *)
(* free_all leaves every queue as it was.                                   *)
FinSinColas == hiloM.pc = "P13" => \A s \in Sems : Len(cola[s]) <= 1

(* Nobody ends whose CPU has been given another process before the Kernel   *)
(* looks for it.                                                            *)
FinConCpu == hiloM.pc = "P13" => program[hiloM.cpu] = hiloM.pid

(* A blocked process waits for one semaphore, once.  hiloM never blocks a   *)
(* process on a semaphore that has room.                                    *)
Espera ==
  /\ \A p \in bloqueados : \E s \in Sems : p \in ToSet(cola[s])
  /\ \A s \in Sems : /\ ToSet(cola[s]) \subseteq bloqueados /\ IsInjective(cola[s])
                     /\ Len(cola[s]) = IF valor[s] < 0 THEN -valor[s] ELSE 0
  /\ \A s, t \in Sems : \A p \in ToSet(cola[s]) : p \in ToSet(cola[t]) => s = t
  /\ hiloM.pc = "K23" => valor[hiloM.sem] <= 0

LEMMA EsperaInicio == Init => Espera
<1>1. ToSet(<<>>) = {} /\ IsInjective(<<>>) /\ Len(<<>>) = 0
  BY DEF ToSet, IsInjective
<1> QED
  BY <1>1, PlanificadorOK DEF Init, Espera, EnSelect

(* A process blocks: it joins the queue of the semaphore that has no room.  *)
LEMMA EsperaBloquear == IInv /\ Espera /\ BloquearProceso => Espera'
<1> SUFFICES ASSUME IInv, Espera, BloquearProceso, NEW s, s = hiloM.sem, NEW p, p = hiloM.pid
             PROVE  Espera'
  OBVIOUS
<1> USE DEF IInv
<1>1. /\ hiloM.pc = "K23" /\ p \in ejecutando /\ p \in Pids /\ p # Nadie /\ s \in Sems
      /\ p \notin bloqueados /\ valor[s] <= 0
  BY NadieAparte DEF BloquearProceso, HiloMBien, TypeOK, Sitios, Espera
<1>2. /\ bloqueados' = bloqueados \cup {p}
      /\ cola' = [cola EXCEPT ![s] = Append(@, p)]
      /\ valor' = [valor EXCEPT ![s] = @ - 1] /\ hiloM' = EnSelect
  BY <1>1 DEF BloquearProceso, Sacado
<1>3. cola \in [Sems -> Seq(Pids)] /\ valor \in [Sems -> Int]
  BY DEF TypeOK
<1>4. /\ \A t \in Sems \ {s} : cola'[t] = cola[t] /\ valor'[t] = valor[t]
      /\ cola'[s] = Append(cola[s], p) /\ valor'[s] = valor[s] - 1
  BY <1>1, <1>2, <1>3
<1>5. \A t \in Sems : p \notin ToSet(cola[t])
  BY <1>1 DEF Espera
<1>6. /\ ToSet(cola'[s]) = ToSet(cola[s]) \cup {p} /\ IsInjective(cola'[s])
      /\ Len(cola'[s]) = Len(cola[s]) + 1
  BY <1>1, <1>3, <1>4, <1>5, AlFinal DEF Espera
<1>7. \A q \in bloqueados' : \E t \in Sems : q \in ToSet(cola'[t])
  BY <1>1, <1>2, <1>4, <1>6 DEF Espera
<1>8. \A t \in Sems : /\ ToSet(cola'[t]) \subseteq bloqueados' /\ IsInjective(cola'[t])
                      /\ Len(cola'[t]) = IF valor'[t] < 0 THEN -valor'[t] ELSE 0
  <2> SUFFICES ASSUME NEW t \in Sems
               PROVE  /\ ToSet(cola'[t]) \subseteq bloqueados' /\ IsInjective(cola'[t])
                      /\ Len(cola'[t]) = IF valor'[t] < 0 THEN -valor'[t] ELSE 0
    OBVIOUS
  <2>1. /\ ToSet(cola[t]) \subseteq bloqueados /\ IsInjective(cola[t])
        /\ Len(cola[t]) = (IF valor[t] < 0 THEN -valor[t] ELSE 0)
        /\ valor[t] \in Int
    BY <1>3 DEF Espera
  <2>2. CASE t = s
    BY <1>1, <1>2, <1>4, <1>6, <2>1, <2>2
  <2>3. CASE t # s
    BY <1>2, <1>4, <2>1, <2>3
  <2> QED
    BY <2>2, <2>3
<1>9. \A t, u \in Sems : \A q \in ToSet(cola'[t]) : q \in ToSet(cola'[u]) => t = u
  <2>1. \A t \in Sems : \A q \in ToSet(cola'[t]) : q \in ToSet(cola[t]) \/ (q = p /\ t = s)
    BY <1>4, <1>6
  <2> SUFFICES ASSUME NEW t \in Sems, NEW u \in Sems, NEW q \in ToSet(cola'[t]),
                      q \in ToSet(cola'[u])
               PROVE  t = u
    OBVIOUS
  <2>2. CASE q = p
    BY <1>5, <2>1, <2>2
  <2>3. CASE q # p
    BY <2>1, <2>3 DEF Espera
  <2> QED
    BY <2>2, <2>3
<1> QED
  BY <1>2, <1>7, <1>8, <1>9 DEF Espera, EnSelect

(* A signal: the first one that waits leaves the queue and the blocked.     *)
LEMMA EsperaP15 ==
  ASSUME IInv, Espera, NEW c \in Cpus, P15(c)
  PROVE  Espera' /\ caido' = caido
<1> SUFFICES ASSUME NEW s, s = bandeja[c].sem PROVE Espera' /\ caido' = caido
  OBVIOUS
<1> USE DEF IInv
<1>1. /\ hiloM = EnSelect /\ hiloM' = hiloM /\ bandeja[c].cod = "P15"
      /\ valor' = [valor EXCEPT ![s] = @ + 1]
  BY DEF P15, Mensaje
<1>2. s \in Sems /\ cola \in [Sems -> Seq(Pids)] /\ valor \in [Sems -> Int] /\ valor[s] \in Int
  <2>1. cola \in [Sems -> Seq(Pids)] /\ valor \in [Sems -> Int]
    BY DEF TypeOK
  <2>2. s \in Sems
    BY <1>1 DEF CpusEnFase
  <2> QED
    BY <2>1, <2>2
<1>3. valor'[s] = valor[s] + 1 /\ \A t \in Sems \ {s} : valor'[t] = valor[t]
  BY <1>1, <1>2
<1>4. CASE ~Despierta(s)
  <2>1. UNCHANGED <<cola, bloqueados, caido>>
    BY <1>4 DEF P15
  <2>2. valor[s] + 1 > 0
    BY <1>2, <1>4 DEF Despierta
  <2>3. \A t \in Sems : Len(cola[t]) = IF valor'[t] < 0 THEN -valor'[t] ELSE 0
    <3> SUFFICES ASSUME NEW t \in Sems
                 PROVE  Len(cola[t]) = IF valor'[t] < 0 THEN -valor'[t] ELSE 0
      OBVIOUS
    <3>1. Len(cola[t]) = IF valor[t] < 0 THEN -valor[t] ELSE 0
      BY DEF Espera
    <3>2. CASE t = s
      BY <1>2, <1>3, <2>2, <3>1, <3>2
    <3>3. CASE t # s
      BY <1>3, <3>1, <3>3
    <3> QED
      BY <3>2, <3>3
  <2> QED
    BY <1>1, <2>1, <2>3 DEF Espera, EnSelect
<1>5. CASE Despierta(s)
  <2> SUFFICES ASSUME NEW p, p = Head(cola[s]) PROVE Espera' /\ caido' = caido
    OBVIOUS
  <2>1. valor[s] + 1 <= 0
    BY <1>5 DEF Despierta
  <2>2. Len(cola[s]) = -valor[s] /\ cola[s] # <<>>
    BY <1>2, <2>1, EmptySeq DEF Espera
  <2>3. p \in ToSet(cola[s]) /\ p \in bloqueados
    BY <1>2, <2>2, SinPrimero DEF Espera
  <2>4. /\ cola' = [cola EXCEPT ![s] = Tail(@)] /\ bloqueados' = bloqueados \ {p}
        /\ UNCHANGED caido
    BY <1>5, <2>2, <2>3 DEF P15
  <2>5. cola'[s] = Tail(cola[s]) /\ \A t \in Sems \ {s} : cola'[t] = cola[t]
    BY <1>2, <2>4
  <2>6. /\ Len(cola'[s]) = Len(cola[s]) - 1 /\ IsInjective(cola'[s])
        /\ ToSet(cola'[s]) = ToSet(cola[s]) \ {p}
    BY <1>2, <2>2, <2>5, SinPrimero DEF Espera
  <2>7. \A t \in Sems \ {s} : p \notin ToSet(cola[t])
    BY <1>2, <2>3 DEF Espera
  <2>8. \A q \in bloqueados' : \E t \in Sems : q \in ToSet(cola'[t])
    BY <1>2, <2>4, <2>5, <2>6 DEF Espera
  <2>9. \A t \in Sems : /\ ToSet(cola'[t]) \subseteq bloqueados' /\ IsInjective(cola'[t])
                        /\ Len(cola'[t]) = IF valor'[t] < 0 THEN -valor'[t] ELSE 0
    <3> SUFFICES ASSUME NEW t \in Sems
                 PROVE  /\ ToSet(cola'[t]) \subseteq bloqueados' /\ IsInjective(cola'[t])
                        /\ Len(cola'[t]) = IF valor'[t] < 0 THEN -valor'[t] ELSE 0
      OBVIOUS
    <3>1. /\ ToSet(cola[t]) \subseteq bloqueados /\ IsInjective(cola[t])
          /\ Len(cola[t]) = IF valor[t] < 0 THEN -valor[t] ELSE 0
      BY DEF Espera
    <3>2. CASE t = s
      BY <1>2, <1>3, <2>1, <2>2, <2>4, <2>6, <3>1, <3>2
    <3>3. CASE t # s
      BY <1>3, <2>4, <2>5, <2>7, <3>1, <3>3
    <3> QED
      BY <3>2, <3>3
  <2>10. \A t, u \in Sems : \A q \in ToSet(cola'[t]) : q \in ToSet(cola'[u]) => t = u
    BY <2>5, <2>6 DEF Espera
  <2> QED
    BY <1>1, <2>4, <2>8, <2>9, <2>10 DEF Espera, EnSelect
<1> QED
  BY <1>4, <1>5

LEMMA EsperaPaso == IInv /\ Espera /\ FinSinColas /\ [Next]_vars => Espera'
<1> SUFFICES ASSUME IInv, Espera, FinSinColas, [Next]_vars PROVE Espera'
  OBVIOUS
<1>1. ASSUME UNCHANGED <<bloqueados, cola, valor, hiloM>> PROVE Espera'
  BY <1>1 DEF Espera
<1>2. CASE C01 \/ PedirMemoria \/ AgregarNuevaProg \/ Despachar \/ AnotarDespacho
  BY <1>1, <1>2 DEF C01, PedirMemoria, AgregarNuevaProg, Despachar, AnotarDespacho
<1>3. CASE FinalizarQuantum
  BY <1>3 DEF FinalizarQuantum, Espera, EnSelect
<1>4. CASE FinalizarProceso
  <2>1. cola \in [Sems -> Seq(Pids)]
    BY DEF IInv, TypeOK
  <2>2. \A s \in Sems : EliminarProceso(cola[s]) = cola[s]
    BY <1>4, <2>1, EliminarTipo DEF FinSinColas, FinalizarProceso
  <2>3. [s \in Sems |-> EliminarProceso(cola[s])] = cola
    BY <2>1, <2>2
  <2>4. cola' = cola /\ UNCHANGED <<bloqueados, valor>> /\ (hiloM' = EnSelect \/ hiloM' = hiloM)
    BY <1>4, <2>3 DEF FinalizarProceso
  <2> QED
    BY <2>4 DEF Espera, EnSelect
<1>5. CASE BloquearProceso
  BY <1>5, EsperaBloquear
<1>6. ASSUME NEW c \in Cpus, AgregarCpu(c) \/ Ejecutar(c) \/ RespuestaKernel(c) PROVE Espera'
  BY <1>1, <1>6 DEF AgregarCpu, Ejecutar, RespuestaKernel, listas
<1>7. ASSUME NEW c \in Cpus, NEW cod \in {"P12", "P13"}, DevuelvePcb(c, cod) PROVE Espera'
  BY <1>7 DEF DevuelvePcb, Espera, listas
<1>8. ASSUME NEW c \in Cpus, P14(c) PROVE Espera'
  <2> SUFFICES ASSUME NEW s, s = bandeja[c].sem PROVE Espera'
    OBVIOUS
  <2>1. s \in Sems /\ valor \in [Sems -> Int]
    BY <1>8 DEF IInv, TypeOK, CpusEnFase, P14, Mensaje
  <2>2. UNCHANGED <<bloqueados, cola>> /\ hiloM.pc = "select"
    BY <1>8 DEF P14, Mensaje, listas, EnSelect
  <2>3. CASE HayLugar(s)
    <3>1. valor' = [valor EXCEPT ![s] = @ - 1] /\ hiloM' = hiloM /\ valor[s] > 0
      BY <1>8, <2>3 DEF P14, HayLugar
    <3>2. valor'[s] = valor[s] - 1 /\ \A t \in Sems \ {s} : valor'[t] = valor[t]
      BY <2>1, <3>1
    <3>3. \A t \in Sems : Len(cola[t]) = IF valor'[t] < 0 THEN -valor'[t] ELSE 0
      <4> SUFFICES ASSUME NEW t \in Sems
                   PROVE  Len(cola[t]) = IF valor'[t] < 0 THEN -valor'[t] ELSE 0
        OBVIOUS
      <4>1. Len(cola[t]) = (IF valor[t] < 0 THEN -valor[t] ELSE 0) /\ valor[t] \in Int
        BY <2>1 DEF Espera
      <4>2. CASE t = s
        BY <3>1, <3>2, <4>1, <4>2
      <4>3. CASE t # s
        BY <3>2, <4>1, <4>3
      <4> QED
        BY <4>2, <4>3
    <3> QED
      BY <2>2, <3>1, <3>3 DEF Espera
  <2>4. CASE ~HayLugar(s)
    <3>1. valor' = valor /\ hiloM'.pc = "K23" /\ hiloM'.sem = s
      BY <1>8, <2>4 DEF P14
    <3>2. valor[s] <= 0
      BY <2>1, <2>4 DEF HayLugar
    <3> QED
      BY <2>2, <3>1, <3>2 DEF Espera
  <2> QED
    BY <2>3, <2>4
<1>9. ASSUME NEW c \in Cpus, P15(c) PROVE Espera'
  BY <1>9, EsperaP15
<1>10. CASE UNCHANGED vars
  BY <1>1, <1>10 DEF vars
<1> QED
  BY <1>2, <1>3, <1>4, <1>5, <1>6, <1>7, <1>8, <1>9, <1>10 DEF Next, P12, P13

LEMMA EsperaBasta == IInv /\ Espera => BloqueadosEsperan
<1> SUFFICES ASSUME IInv, Espera PROVE BloqueadosEsperan
  OBVIOUS
<1>1. \A s \in Sems : cola[s] \in Seq(Pids)
  BY DEF IInv, TypeOK
<1>2. \A s \in Sems : \A p : p \in ToSet(cola[s]) <=> Contains(cola[s], p)
  BY <1>1, ToSetElemento
<1> QED
  BY <1>2 DEF Espera, BloqueadosEsperan

(* While nobody ends with two processes waiting for one semaphore, every    *)
(* blocked process is in a queue, and the value of a semaphore counts those *)
(* that wait: no signal is lost.                                            *)
THEOREM NadieSePierde == Spec /\ []FinSinColas => []BloqueadosEsperan
<1>1. Spec /\ []FinSinColas => []Espera
  BY EsperaInicio, EsperaPaso, Invariante, PTL DEF Spec
<1> QED
  BY <1>1, EsperaBasta, Invariante, PTL

(* Two processes in the system: at most one waits when the other ends.      *)
LEMMA DosEnSistema == IInv /\ Espera /\ Grado <= 2 => FinSinColas
<1> SUFFICES ASSUME IInv, Espera, Grado <= 2, hiloM.pc = "P13", NEW s \in Sems,
                    ~ (Len(cola[s]) <= 1)
             PROVE  FALSE
  BY DEF FinSinColas
<1> USE DEF IInv
<1> DEFINE a == cola[s][1]
           b == cola[s][2]
           p == hiloM.pid
<1>1. cola[s] \in Seq(Pids) /\ Len(cola[s]) \in Nat /\ 1 \in DOMAIN cola[s] /\ 2 \in DOMAIN cola[s]
  BY LenProperties DEF TypeOK
<1>2. a \in ToSet(cola[s]) /\ b \in ToSet(cola[s]) /\ a # b
  BY <1>1 DEF ToSet, Espera, IsInjective
<1>3. a \in bloqueados /\ b \in bloqueados /\ p \in ejecutando /\ a \in Pids /\ b \in Pids
  BY <1>2 DEF Espera, HiloMBien, TypeOK
<1>4. p # a /\ p # b
  BY <1>3 DEF Sitios
<1>5. {a, b, p} \subseteq EnSistema
  BY <1>3, SistemaEs
<1> HIDE DEF a, b, p
<1>6. Cardinality({a, b, p}) = 3
  BY <1>2, <1>4, TresDistintos
<1>7. Cardinality({a, b, p}) <= Cardinality(EnSistema)
  BY <1>5, SistemaEs, FS_Subset
<1>8. Cardinality(EnSistema) <= Grado
  <2>1. sem.grado \in Nat /\ Cardinality(EnSistema) \in Nat /\ Grado \in Nat
    BY SemaforosTipo, SistemaEs, PlanificadorOK
  <2> QED
    BY <2>1 DEF GradoExacto
<1> QED
  BY <1>6, <1>7, <1>8, SistemaEs, PlanificadorOK

(* With a degree of two no signal is lost, whatever the programs do.        *)
THEOREM NadieSePierdeConDos ==
  ASSUME Grado <= 2
  PROVE  Spec => []BloqueadosEsperan
<1>1. IInv /\ Espera => FinSinColas
  BY DosEnSistema
<1>2. IInv /\ Espera /\ [Next]_vars => Espera'
  BY <1>1, EsperaPaso
<1> QED
  BY <1>2, EsperaInicio, EsperaBasta, Invariante, PTL DEF Spec

(* The process that ends is found on its CPU: the CPUs before that one in   *)
(* the list have all had a program.                                         *)
LEMMA SeEncuentra ==
  ASSUME IInv, FinConCpu, hiloM.pc = "P13"
  PROVE  EncuentraCpu(hiloM.pid) /\ Sacado # Nadie
<1> SUFFICES ASSUME NEW c, c = hiloM.cpu, NEW p, p = hiloM.pid
             PROVE  EncuentraCpu(p) /\ Sacado # Nadie
  OBVIOUS
<1> USE DEF IInv
<1>1. p \in ejecutando /\ p \in Pids /\ p # Nadie /\ c \in Cpus /\ program[c] = p
  BY NadieAparte DEF HiloMBien, TypeOK, FinConCpu
<1>2. cpus \in Seq(Cpus)
  BY DEF TypeOK
<1>3. DOMAIN cpus = 1 .. Len(cpus) /\ Len(cpus) \in Nat
  BY <1>2, LenProperties
<1>4. c \in ToSet(cpus)
  BY <1>1 DEF Conexion
<1>5. PICK i \in DOMAIN cpus : cpus[i] = c
  BY <1>4 DEF ToSet
<1>6. \A j \in 1 .. i : program[cpus[j]] # Nadie
  <2> SUFFICES ASSUME NEW j \in 1 .. i PROVE program[cpus[j]] # Nadie
    OBVIOUS
  <2>1. j \in DOMAIN cpus /\ (j < i \/ j = i)
    BY <1>3
  <2> QED
    BY <1>1, <1>5, <2>1 DEF ProgramasPrimero
<1>7. EncuentraCpu(p)
  BY <1>1, <1>5, <1>6 DEF EncuentraCpu
<1> QED
  BY <1>1, <1>7 DEF Sacado

(* One step does not dereference NULL: there is a CPU for what hiloL takes, *)
(* the process that ends or blocks is running, the one that is woken up is  *)
(* blocked.                                                                 *)
LEMMA SinCaidaPaso ==
  IInv /\ Espera /\ FinConCpu /\ SinCaida /\ [Next]_vars => SinCaida'
<1> SUFFICES ASSUME IInv, Espera, FinConCpu, SinCaida, [Next]_vars PROVE SinCaida'
  OBVIOUS
<1>1. ASSUME UNCHANGED caido PROVE SinCaida'
  BY <1>1 DEF SinCaida
<1>2. CASE C01 \/ PedirMemoria \/ AgregarNuevaProg \/ AnotarDespacho \/ FinalizarQuantum
  BY <1>1, <1>2 DEF C01, PedirMemoria, AgregarNuevaProg, AnotarDespacho, FinalizarQuantum
<1>3. CASE Despachar
  <2>1. listos # <<>> /\ CpuLibre # Nadie
    BY <1>3, DespachoPosible
  <2>2. Head(listos) # Nadie
    BY <2>1, SinPrimero, NadieAparte DEF IInv, ListosReales
  <2>3. caido' = (CpuLibre = Nadie)
    BY <1>3, <2>1, <2>2 DEF Despachar
  <2> QED
    BY <2>1, <2>3 DEF SinCaida
<1>4. CASE FinalizarProceso
  <2>1. hiloM.pc = "P13"
    BY <1>4 DEF FinalizarProceso
  <2>2. UNCHANGED caido
    BY <1>4, <2>1, SeEncuentra DEF FinalizarProceso
  <2> QED
    BY <1>1, <2>2
<1>5. CASE BloquearProceso
  <2>1. hiloM.pid \in ejecutando /\ hiloM.pid # Nadie
    BY <1>5, NadieAparte DEF BloquearProceso, IInv, HiloMBien, TypeOK
  <2> QED
    BY <1>5, <2>1 DEF BloquearProceso, Sacado, SinCaida
<1>6. ASSUME NEW c \in Cpus, AgregarCpu(c) \/ Ejecutar(c) \/ RespuestaKernel(c) PROVE SinCaida'
  BY <1>1, <1>6 DEF AgregarCpu, Ejecutar, RespuestaKernel
<1>7. ASSUME NEW c \in Cpus, P12(c) \/ P13(c) \/ P14(c) PROVE SinCaida'
  BY <1>1, <1>7 DEF P12, P13, P14, DevuelvePcb
<1>8. ASSUME NEW c \in Cpus, P15(c) PROVE SinCaida'
  BY <1>1, <1>8, EsperaP15
<1>9. CASE UNCHANGED vars
  BY <1>1, <1>9 DEF vars
<1> QED
  BY <1>2, <1>3, <1>4, <1>5, <1>6, <1>7, <1>8, <1>9 DEF Next

(* The Kernel never dereferences NULL while neither race happens: a process *)
(* that ends with two others waiting for one semaphore, or after its CPU    *)
(* has been given to another.                                               *)
THEOREM NoSeCae == Spec /\ [](FinSinColas /\ FinConCpu) => []SinCaida
<1>1. Init => SinCaida
  BY DEF Init, SinCaida
<1>2. Spec /\ []FinSinColas => []Espera
  BY EsperaInicio, EsperaPaso, Invariante, PTL DEF Spec
<1> QED
  BY <1>1, <1>2, SinCaidaPaso, Invariante, PTL DEF Spec

-----------------------------------------------------------------------------
(* One CPU: the second race needs another *)

(* What hiloM has from P12 or P13 to its post is still the program of the   *)
(* CPU that sent it.                                                        *)
CpuEspera == hiloM.pc \in {"P12", "P13"} => program[hiloM.cpu] = hiloM.pid

LEMMA UnaPosicion ==
  ASSUME IInv, IsFiniteSet(Cpus), Cardinality(Cpus) <= 1
  PROVE  Cardinality(Desocupadas(cpus, ejec)) <= 1
<1> USE DEF IInv
<1>1. cpus \in Seq(Cpus)
  BY DEF TypeOK
<1>2. DOMAIN cpus = 1 .. Len(cpus) /\ Len(cpus) \in Nat /\ \A i \in DOMAIN cpus : cpus[i] \in Cpus
  BY <1>1, LenProperties, ElementOfSeq
<1>3. \A c, d \in Cpus : c = d
  <2> SUFFICES ASSUME NEW c \in Cpus, NEW d \in Cpus, c # d PROVE FALSE
    OBVIOUS
  <2>1. Cardinality(Cpus) \in Nat /\ Cpus # {}
    BY FS_CardinalityType
  <2>2. Cardinality(Cpus) = 1
    BY <2>1, FS_EmptySet
  <2>3. PICK x : Cpus = {x}
    BY <2>2, FS_Singleton
  <2> QED
    BY <2>3
<1>4. \A i, j \in DOMAIN cpus : i = j
  BY <1>2, <1>3 DEF Conexion, IsInjective
<1>5. CASE Desocupadas(cpus, ejec) = {}
  BY <1>5, FS_EmptySet
<1>6. CASE Desocupadas(cpus, ejec) # {}
  <2>1. PICK i : i \in Desocupadas(cpus, ejec)
    BY <1>6
  <2>2. Desocupadas(cpus, ejec) = {i}
    BY <1>4, <2>1 DEF Desocupadas
  <2>3. Cardinality({i}) = 1
    BY FS_Singleton
  <2> QED
    BY <2>2, <2>3
<1> QED
  BY <1>5, <1>6

LEMMA CpuEsperaPaso ==
  ASSUME IsFiniteSet(Cpus), Cardinality(Cpus) <= 1, IInv, CpuEspera, [Next]_vars
  PROVE  CpuEspera'
<1> USE DEF IInv
<1>1. ASSUME UNCHANGED <<hiloM, program>> PROVE CpuEspera'
  BY <1>1 DEF CpuEspera
<1>2. CASE C01 \/ PedirMemoria \/ AgregarNuevaProg \/ Despachar
  BY <1>1, <1>2 DEF C01, PedirMemoria, AgregarNuevaProg, Despachar
<1>3. CASE AnotarDespacho
  <2>1. EnManos = 1 /\ hiloM' = hiloM
    BY <1>3 DEF AnotarDespacho, EnManos
  <2>2. Cardinality(Desocupadas(cpus, ejec)) <= 1 /\ sem.cpus \in Nat
    BY UnaPosicion, SemaforosTipo
  <2>3. PorPostear = 0
    BY <2>1, <2>2 DEF Cuentas, PorPostear
  <2> QED
    BY <2>1, <2>3 DEF PorPostear, CpuEspera
<1>4. CASE FinalizarQuantum
  BY <1>4 DEF FinalizarQuantum, CpuEspera, EnSelect
<1>5. CASE FinalizarProceso
  BY <1>5 DEF FinalizarProceso, CpuEspera, EnSelect
<1>6. CASE BloquearProceso
  BY <1>6 DEF BloquearProceso, CpuEspera, EnSelect
<1>7. ASSUME NEW c \in Cpus, AgregarCpu(c) \/ Ejecutar(c) \/ RespuestaKernel(c) PROVE CpuEspera'
  BY <1>1, <1>7 DEF AgregarCpu, Ejecutar, RespuestaKernel
<1>8. ASSUME NEW c \in Cpus, NEW cod \in {"P12", "P13"}, DevuelvePcb(c, cod) PROVE CpuEspera'
  <2>1. /\ hiloM'.cpu = c /\ hiloM'.pid = bandeja[c].pid /\ program' = program
        /\ bandeja[c].cod = cod /\ hiloL.cpu # c
    BY <1>8 DEF DevuelvePcb, Mensaje
  <2>2. bandeja[c].pid \in Pids
    <3>1. bandeja[c].pid \in Pids \cup {Nadie}
      BY DEF TypeOK
    <3>2. bandeja[c].pid # Nadie
      BY <2>1 DEF CpusEnFase
    <3> QED
      BY <3>1, <3>2
  <2>3. program[c] = bandeja[c].pid
    BY <2>1, <2>2 DEF CpuUnica, CpusDe
  <2> QED
    BY <2>1, <2>3 DEF CpuEspera
<1>9. ASSUME NEW c \in Cpus, P14(c) PROVE CpuEspera'
  BY <1>9 DEF P14, CpuEspera, Mensaje, EnSelect
<1>10. ASSUME NEW c \in Cpus, P15(c) PROVE CpuEspera'
  BY <1>1, <1>10 DEF P15
<1>11. CASE UNCHANGED vars
  BY <1>1, <1>11 DEF vars
<1> QED
  BY <1>2, <1>3, <1>4, <1>5, <1>6, <1>7, <1>8, <1>9, <1>10, <1>11 DEF Next, P12, P13

(* With one CPU and a degree of two the Kernel never dereferences NULL,     *)
(* whatever the programs do.                                                *)
THEOREM NoSeCaeConUnaCpu ==
  ASSUME IsFiniteSet(Cpus), Cardinality(Cpus) <= 1, Grado <= 2
  PROVE  Spec => []SinCaida
<1>1. Init => CpuEspera /\ SinCaida
  BY DEF Init, CpuEspera, EnSelect, SinCaida
<1>2. IInv /\ CpuEspera /\ [Next]_vars => CpuEspera'
  BY CpuEsperaPaso
<1>3. IInv /\ Espera /\ [Next]_vars => Espera'
  BY DosEnSistema, EsperaPaso
<1>4. IInv /\ Espera /\ CpuEspera /\ SinCaida /\ [Next]_vars => SinCaida'
  BY SinCaidaPaso DEF FinConCpu, CpuEspera
<1> QED
  BY <1>1, <1>2, <1>3, <1>4, EsperaInicio, Invariante, PTL DEF Spec
=============================================================================
