------------------------------ MODULE MCClaves ------------------------------
(* The hundred frames of evaluacion-final-esther/prueba-heap-memoria, five  *)
(* of them filled by the table, and the processes 1 and 11 with ten pages   *)
(* of code and two of stack.  Page 10 of process 1 and page 0 of process 11 *)
(* have the same digits, "110", and frame 10 is taken by page 0 of process  *)
(* 1: both pages collide in the dictionary of frame 10, under the same key. *)
EXTENDS TablaPaginas

MCPids == {1, 11}
MCPagsCodigo == {10}
MCPagsHeap == {1}
=============================================================================
