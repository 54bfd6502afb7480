--------------------------- MODULE MCPlanificador ---------------------------
(* Programs that share a mutex and are preempted inside it, two of them      *)
(* admitted at a time.  With five instructions and a quantum of three no     *)
(* program blocks or ends on the last instruction of its quantum; a program  *)
(* of three does.                                                            *)
EXTENDS Planificador

CONSTANTS c1, c2, mutex

W == [op |-> "wait", sem |-> mutex]
S == [op |-> "signal", sem |-> mutex]
O == [op |-> "otra", sem |-> Nadie]
F == [op |-> "fin", sem |-> Nadie]

MCTres == 1 .. 3
MCCuatro == 1 .. 4
MCSemInit == [s \in Sems |-> 1]
MCGuion == [p \in Pids |-> <<W, O, O, S, F>>]
MCGuionExacto == [p \in Pids |-> <<W, S, F>>]

(* The first program keeps the mutex, the last one does not use it. *)
MCGuionRetiene == [p \in Pids |-> IF p = 1 THEN <<W, O, O, O, O, O, S, F>>
                                  ELSE IF p = 4 THEN <<O, F>> ELSE <<W, O, O, S, F>>]
=============================================================================
