------------------------------ MODULE CicloVida ------------------------------
(***************************************************************************)
(* What the Kernel and the CPUs promise a program between them: it is      *)
(* admitted while there is degree of multiprogramming, runs its            *)
(* instructions in order, each one once, on no more CPUs than there are,   *)
(* and it is finished only after its last instruction.                     *)
(***************************************************************************)
EXTENDS Naturals, FiniteSets

CONSTANTS
  Procesos,   \* process identifiers
  Largo,      \* instructions of each program, the final one included
  Admitibles, \* degree of multiprogramming
  Maquinas    \* number of CPUs

VARIABLES
  estado,     \* where the process is in its life
  avance      \* instructions it has executed

En(e) == {p \in Procesos : estado[p] = e}

Admitidos == {p \in Procesos : estado[p] \notin {"ausente", "nuevo", "finalizado"}}

Init == /\ estado = [p \in Procesos |-> "ausente"]
        /\ avance = [p \in Procesos |-> 0]

Pasar(p, de, a) == /\ estado[p] = de
                   /\ estado' = [estado EXCEPT ![p] = a]
                   /\ UNCHANGED avance

Iniciar(p) == Pasar(p, "ausente", "nuevo")

Admitir(p) == Pasar(p, "nuevo", "cargando") /\ Cardinality(Admitidos) < Admitibles

Cargar(p) == Pasar(p, "cargando", "listo")

Despachar(p) == Pasar(p, "listo", "ejecutando") /\ Cardinality(En("ejecutando")) < Maquinas

Avanzar(p) == /\ estado[p] = "ejecutando"
              /\ avance[p] < Largo[p]
              /\ avance' = [avance EXCEPT ![p] = @ + 1]
              /\ UNCHANGED estado

Desalojar(p) == Pasar(p, "ejecutando", "listo") /\ avance[p] < Largo[p]

Bloquear(p) == Pasar(p, "ejecutando", "bloqueado") /\ avance[p] < Largo[p]

Desbloquear(p) == Pasar(p, "bloqueado", "listo")

Terminar(p) == Pasar(p, "ejecutando", "finalizado") /\ avance[p] = Largo[p]

Next == \E p \in Procesos :
          \/ Iniciar(p)   \/ Admitir(p)  \/ Cargar(p) \/ Despachar(p) \/ Avanzar(p)
          \/ Desalojar(p) \/ Bloquear(p) \/ Desbloquear(p) \/ Terminar(p)

Spec == Init /\ [][Next]_<<estado, avance>>
=============================================================================
