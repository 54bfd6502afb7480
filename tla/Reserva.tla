------------------------------ MODULE Reserva ------------------------------
(***************************************************************************)
(* What the dynamic memory of a program promises: every reservation is a   *)
(* range of addresses that no other live reservation of the program        *)
(* touches, and it stays where it is until the program frees it or ends.   *)
(***************************************************************************)
EXTENDS Integers

CONSTANT Pids

VARIABLE rangos    \* by program: the live reservations, as [desde, tam]

Rangos == [desde : Nat, tam : Nat \ {0}]

Disjuntos(a, b) == a.desde + a.tam <= b.desde \/ b.desde + b.tam <= a.desde

Init == rangos = [p \in Pids |-> {}]

Reservar(p) ==
  \E r \in rangos'[p] \ rangos[p] :
    /\ r \in Rangos
    /\ \A otro \in rangos[p] : Disjuntos(r, otro)
    /\ rangos' = [rangos EXCEPT ![p] = @ \cup {r}]

Liberar(p) == \E r \in rangos[p] : rangos' = [rangos EXCEPT ![p] = @ \ {r}]

Terminar(p) == rangos' = [rangos EXCEPT ![p] = {}]

Next == \E p \in Pids : Reservar(p) \/ Liberar(p) \/ Terminar(p)

Spec == Init /\ [][Next]_rangos
=============================================================================
