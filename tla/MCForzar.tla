------------------------------ MODULE MCForzar ------------------------------
(* Programs 1 and 3 wait, 2 signals.  With a quantum of two 2 is preempted   *)
(* before its end; so are 1 and 3 when they need not wait, and their end is  *)
(* then lost (run quantum): their CPU has nothing more to execute.           *)
EXTENDS PlanificadorForzar

CONSTANTS c1, c2, s1

W == [op |-> "wait", sem |-> s1]
S == [op |-> "signal", sem |-> s1]
O == [op |-> "otra", sem |-> Nadie]
F == [op |-> "fin", sem |-> Nadie]

MCPids == 1 .. 3
MCSemInit == [s \in Sems |-> 0]
MCGuion == [p \in Pids |-> IF p = 2 THEN <<S, O, F>> ELSE <<W, F>>]
Simetria == Permutations(Cpus)
=============================================================================
