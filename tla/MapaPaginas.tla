---------------------------- MODULE MapaPaginas ----------------------------
(***************************************************************************)
(* What the Memoria process promises its clients about page placement: a   *)
(* partial map from pages (pid, pag) to frames in which no frame serves    *)
(* two pages and a page, once placed, keeps its frame until it is          *)
(* released.  Nothing is said of hashing, of collisions or of the order in *)
(* which frames are chosen; TablaPaginas implements this module.           *)
(***************************************************************************)
EXTENDS Integers

CONSTANTS Pids,      \* process identifiers
          Paginas,   \* page numbers
          MarcosUso  \* frames that may hold pages of processes

SinMarco == -1

VARIABLE marcoDe     \* marcoDe[<<pid, pag>>]: the page's frame or SinMarco

Init == marcoDe = [par \in Pids \X Paginas |-> SinMarco]

(* A page without a frame gets one that no page has. *)
Ubicar(pid, pag) ==
  /\ marcoDe[<<pid, pag>>] = SinMarco
  /\ \E m \in MarcosUso :
       /\ \A par \in Pids \X Paginas : marcoDe[par] # m
       /\ marcoDe' = [marcoDe EXCEPT ![<<pid, pag>>] = m]

(* A page loses its frame. *)
Soltar(pid, pag) ==
  /\ marcoDe[<<pid, pag>>] # SinMarco
  /\ marcoDe' = [marcoDe EXCEPT ![<<pid, pag>>] = SinMarco]

Next == \E pid \in Pids, pag \in Paginas : Ubicar(pid, pag) \/ Soltar(pid, pag)

Spec == Init /\ [][Next]_marcoDe
=============================================================================
