------------------------------- MODULE MCHeap -------------------------------
(***************************************************************************)
(* Pages of 50 bytes: a request of 40 is too large for any, 10 and 15 fill *)
(* holes exactly and leave pieces apart, and 12 in a hole of 15 leaves     *)
(* less than a header.                                                     *)
(***************************************************************************)
EXTENDS Heap

MCTamanos == {10, 12, 15, 40}
MCMaxVivos == <<3, 1>>
=============================================================================
