--------------------------- MODULE MCTablaPaginas ---------------------------
(* A Memoria of seven frames, the first one filled by the table, and three   *)
(* processes.  With seven frames the pages of every process collide with     *)
(* their own, with those of the others and with the table's frame, and the  *)
(* third process or a heap page finds no room.                              *)
EXTENDS TablaPaginas

MCPids == 1 .. 3
MCPagsCodigo == {1, 2}
MCPagsHeap == {1}
=============================================================================
