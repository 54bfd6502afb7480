----------------------------- MODULE MCArchivos -----------------------------
(***************************************************************************)
(* Blocks of two characters: a write of three at offset one takes two      *)
(* blocks, one of five at zero three.                                      *)
(***************************************************************************)
EXTENDS Archivos

MCPermisos == {{"c", "w", "r"}, {"r"}}
MCTamanos == {1, 5}
MCPosiciones == {1, 2}
=============================================================================
