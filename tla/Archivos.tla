------------------------------ MODULE Archivos ------------------------------
(***************************************************************************)
(* The files of the programs: the primitives of the CPU, fileSystem.c of   *)
(* the Kernel with its table of open files (TAG, global_fd) and one table  *)
(* per program (TAP), and the process FileSystem.                          *)
(*                                                                         *)
(* The main thread of the Kernel serves one message of a CPU at a time and *)
(* waits for FileSystem each time.  After moverCursor it also waits for    *)
(* the next message of the same CPU: no offset is kept anywhere.  The      *)
(* message of another CPU waits meanwhile in its socket, so that sending   *)
(* it and serving it are one step.                                         *)
(***************************************************************************)
EXTENDS SistemaArchivos

CONSTANTS
  Pids,       \* programs that are running
  Permisos,   \* sets of flags a program opens with
  Posiciones, \* where a program moves a cursor
  Tamanos,    \* how much it reads or writes
  MaxTap,     \* bound: open files of a program
  MaxTag,     \* bound: entries of the global table
  MaxOps,     \* bound: messages the programs send
  MaxParadas  \* bound: stops of FileSystem

ASSUME ArchivosOK ==
  /\ MaxTap \in Nat /\ MaxTag \in Nat /\ MaxOps \in Nat /\ MaxParadas \in Nat
  /\ 0 \notin Pids
  /\ Posiciones \subseteq Nat /\ Tamanos \subseteq Nat

VARIABLES
  tag,      \* global_fd: [fd, c, abiertos]
  tap,      \* by program: [fd, permisos]
  atiende,  \* what the main thread is in the middle of
  prog,     \* "corre", "espera" an answer, "mudo" (none will come), "error"
            \* (K21), "perdido" (its CPU was dropped), "fin"
  caido,    \* the Kernel dereferenced NULL
  ops,      \* messages sent, but for those read after moverCursor
  borrados, \* history: paths removed with K13
  paradas

kernelVars == <<tag, tap, atiende, prog, caido>>
vars == <<fsVars, kernelVars, ops, borrados, paradas>>

EnSelect == [pc |-> "select", pid |-> 0, c |-> "", permisos |-> {}, fd |-> 0, off |-> 0]

Init ==
  /\ FsInit
  /\ tag = <<>> /\ tap = [p \in Pids |-> <<>>]
  /\ atiende = EnSelect
  /\ prog = [p \in Pids |-> "corre"]
  /\ caido = FALSE /\ ops = 0 /\ borrados = {} /\ paradas = 0

-----------------------------------------------------------------------------
(* The tables *)

(* buscar_archivo_TAG: the first entry whose path is another (strcmp is not *)
(* compared with zero); and by descriptor.                                  *)
BuscarTag(c) == SelectInSeq(tag, LAMBDA x : x.c # c)
BuscarTagFd(fd) == SelectInSeq(tag, LAMBDA x : x.fd = fd)
BuscarTap(p, fd) == SelectInSeq(tap[p], LAMBDA x : x.fd = fd)
GetPath(fd) == tag[BuscarTagFd(fd)].c

Tiene(p, fd) == BuscarTap(p, fd) # 0
Puede(p, fd, permiso) == permiso \in tap[p][BuscarTap(p, fd)].permisos

AbrirSinContar(p, c, permisos) ==                                 \* TablaGlobal
  \E k \in {BuscarTag(c)} :
    LET fd == IF k = 0 THEN Len(tag) + 3 ELSE tag[k].fd
    IN  /\ tag' = IF k = 0 THEN Append(tag, [fd |-> fd, c |-> c, abiertos |-> 1]) ELSE tag
        /\ tap' = [tap EXCEPT ![p] = Append(@, [fd |-> fd, permisos |-> permisos])]

(* abrir_archivo: the descriptor comes from the length of the global table. *)
AbrirArchivo(p, c, permisos) ==
  \E k \in {BuscarTag(c)} :
    LET fd == IF k = 0 THEN Len(tag) + 3 ELSE tag[k].fd
    IN  /\ tag' = IF k = 0 THEN Append(tag, [fd |-> fd, c |-> c, abiertos |-> 1])
                  ELSE [tag EXCEPT ![k].abiertos = @ + 1]
        /\ tap' = [tap EXCEPT ![p] = Append(@, [fd |-> fd, permisos |-> permisos])]

-----------------------------------------------------------------------------
(* The main thread and the programs *)

(* The next message of a CPU to the Kernel, which the main thread reads in  *)
(* select or, after moverCursor, from that CPU alone.                       *)
Mensaje(p) ==
  /\ ~caido /\ ~roto /\ prog[p] = "corre" /\ atiende = EnSelect
  /\ ops < MaxOps                                               \* bound
  /\ ops' = ops + 1

Moviendo == ~caido /\ ~roto /\ atiende.pc = "mover"

(* The main thread is back in select, with something sent to the CPU. *)
Responde(p, estado) ==
  /\ prog' = [prog EXCEPT ![p] = estado]
  /\ atiende' = EnSelect

(* It asks FileSystem, and the program waits. *)
Consulta(p, pc, c, off, size) ==
  /\ Pedir(pc, c, off, size)
  /\ prog' = [prog EXCEPT ![p] = "espera"]
  /\ atiende' = [EnSelect EXCEPT !.pc = pc, !.pid = p, !.c = c]

(* P02, abrir: K11, K12 if the path is new and may be created, K16. *)
AbrirCrear(p, c, permisos) ==
  /\ Mensaje(p)
  /\ Len(tap[p]) < MaxTap /\ Len(tag) < MaxTag                   \* bounds
  /\ Pedir("validar", c, 0, 0)
  /\ prog' = [prog EXCEPT ![p] = "espera"]
  /\ atiende' = [EnSelect EXCEPT !.pc = "validar", !.pid = p, !.c = c, !.permisos = permisos]
  /\ UNCHANGED <<tag, tap, caido, borrados, paradas>>

(* chequear_respuesta after K11: without permission to create, the          *)
(* descriptor is -2 and the program goes on.                                *)
RespuestaAbrir ==
  /\ ~caido /\ ~roto /\ atiende.pc = "validar" /\ resp # ""
  /\ resp' = ""
  /\ \/ /\ resp = "ok"
        /\ AbrirArchivo(atiende.pid, atiende.c, atiende.permisos)
        /\ Responde(atiende.pid, "corre")
        /\ UNCHANGED fs
     \/ /\ resp = "no" /\ "c" \in atiende.permisos
        /\ fs' = [Ocioso EXCEPT !.pc = "crear", !.c = atiende.c]
        /\ atiende' = [atiende EXCEPT !.pc = "crear"]
        /\ UNCHANGED <<tag, tap, prog>>
     \/ /\ resp = "no" /\ "c" \notin atiende.permisos
        /\ Responde(atiende.pid, "corre")
        /\ UNCHANGED <<fs, tag, tap>>
  /\ UNCHANGED <<disco, roto, historia, caido, ops, borrados, paradas>>

(* after K12, with FileSystem maybe still about to give it a block *)
RespuestaCrear ==
  /\ ~caido /\ ~roto /\ atiende.pc = "crear" /\ resp # ""
  /\ resp' = ""
  /\ IF resp = "ok"
     THEN /\ AbrirArchivo(atiende.pid, atiende.c, atiende.permisos)
          /\ Responde(atiende.pid, "corre")
          /\ borrados' = borrados \ {atiende.c}
     ELSE Responde(atiende.pid, "error") /\ UNCHANGED <<tag, tap, borrados>>
  /\ UNCHANGED <<disco, fs, roto, historia, caido, ops, paradas>>

(* escribir_archivo, pedido_lectura: K15 and K14, or K21 without the flag *)
EscribirLeer(p, pc, fd, off, size) ==
  IF Puede(p, fd, IF pc = "leer" THEN "r" ELSE "w")
  THEN Consulta(p, pc, GetPath(fd), off, size)
  ELSE Responde(p, "error") /\ UNCHANGED fsVars

(* P05 and P04 straight from select: at offset zero, and with the path      *)
(* looked for before the descriptor is checked.                             *)
SinCursor(p, pc, fd, size) ==
  /\ Mensaje(p)
  /\ IF Tiene(p, fd)
     THEN EscribirLeer(p, pc, fd, 0, size) /\ UNCHANGED caido
     ELSE caido' = TRUE /\ UNCHANGED <<fsVars, prog, atiende>>
  /\ UNCHANGED <<tag, tap, borrados, paradas>>

(* P03, mover_puntero: nothing is answered for a descriptor that is not     *)
(* open; otherwise OK, and the next message is read from this CPU.          *)
MoverPuntero(p, fd, off) ==
  /\ Mensaje(p)
  /\ IF Tiene(p, fd)
     THEN atiende' = [EnSelect EXCEPT !.pc = "mover", !.pid = p, !.fd = fd, !.off = off]
          /\ UNCHANGED prog
     ELSE prog' = [prog EXCEPT ![p] = "mudo"] /\ UNCHANGED atiende
  /\ UNCHANGED <<fsVars, tag, tap, caido, borrados, paradas>>

(* Its P05 is for the descriptor that was moved. *)
EscribirEnCursor(size) ==
  /\ Moviendo
  /\ EscribirLeer(atiende.pid, "guardar", atiende.fd, atiende.off, size)
  /\ UNCHANGED <<tag, tap, caido, ops, borrados, paradas>>

(* Its P04 is taken as one number, the digits of the descriptor before      *)
(* those of the size.                                                       *)
LeerEnCursor(size) ==
  /\ Moviendo
  /\ EscribirLeer(atiende.pid, "leer", atiende.fd, atiende.off, 10 * atiende.fd + size)
  /\ UNCHANGED <<tag, tap, caido, ops, borrados, paradas>>

(* Any message but P04, P05 and P06 (the end of the quantum, an abrir, a    *)
(* print): default, eliminar_conexion.                                      *)
OtraCosaEnCursor ==
  /\ Moviendo
  /\ Responde(atiende.pid, "perdido")
  /\ UNCHANGED <<fsVars, tag, tap, caido, ops, borrados, paradas>>

RespuestaSoloOk ==                                              \* AtencionTermina
  /\ ~caido /\ ~roto /\ atiende.pc \in {"guardar", "leer", "borrar"}
  /\ resp \in {"ok", "lectura"}
  /\ resp' = "" /\ Responde(atiende.pid, "corre")
  /\ UNCHANGED <<disco, fs, roto, historia, tag, tap, caido, ops, borrados, paradas>>

(* OK to the CPU after F05, whether ok or no, and after F03; K88 after F04. *)
RespuestaDatos ==
  /\ ~caido /\ ~roto /\ atiende.pc \in {"guardar", "leer", "borrar"} /\ resp # ""
  /\ resp' = "" /\ Responde(atiende.pid, "corre")
  /\ UNCHANGED <<disco, fs, roto, historia, tag, tap, caido, ops, borrados, paradas>>

CerrarSinQuitar(p, fd) ==                                                \* TypeOK
  IF Tiene(p, fd)
  THEN /\ tag' = [tag EXCEPT ![BuscarTagFd(fd)].abiertos = @ - 1]
       /\ tap' = [tap EXCEPT ![p] = RemoveAt(@, BuscarTap(p, fd))]
       /\ Responde(p, "corre")
  ELSE Responde(p, "error") /\ UNCHANGED <<tag, tap>>

(* cerrar_file *)
CerrarFile(p, fd) ==
  IF Tiene(p, fd)
  THEN \E k \in {BuscarTagFd(fd)} :
         /\ tag' = IF tag[k].abiertos = 1 THEN RemoveAt(tag, k)
                   ELSE [tag EXCEPT ![k].abiertos = @ - 1]
         /\ tap' = [tap EXCEPT ![p] = RemoveAt(@, BuscarTap(p, fd))]
         /\ Responde(p, "corre")
  ELSE Responde(p, "error") /\ UNCHANGED <<tag, tap>>

(* P06, from select or after moverCursor *)
Cerrar(p, fd) ==
  /\ Mensaje(p)
  /\ CerrarFile(p, fd)
  /\ UNCHANGED <<fsVars, caido, borrados, paradas>>
CerrarEnCursor(fd) ==
  /\ Moviendo
  /\ CerrarFile(atiende.pid, fd)
  /\ UNCHANGED <<fsVars, caido, ops, borrados, paradas>>

(* P07, borrar_archivo: K13 when the entry of the descriptor counts one;    *)
(* the tables stay as they are.                                             *)
Borrar(p, fd) ==
  /\ Mensaje(p)
  /\ IF Tiene(p, fd)
     THEN IF tag[BuscarTagFd(fd)].abiertos = 1
          THEN /\ Consulta(p, "borrar", GetPath(fd), 0, 0)
               /\ borrados' = borrados \cup {GetPath(fd)}
          ELSE Responde(p, "corre") /\ UNCHANGED <<fsVars, borrados>>
     ELSE Responde(p, "error") /\ UNCHANGED <<fsVars, borrados>>
  /\ UNCHANGED <<tag, tap, caido, paradas>>

(* P13: finalizar_proceso closes nothing. *)
Terminar(p) ==
  /\ ~caido /\ ~roto /\ prog[p] = "corre" /\ atiende = EnSelect
  /\ prog' = [prog EXCEPT ![p] = "fin"]
  /\ UNCHANGED <<fsVars, tag, tap, atiende, caido, ops, borrados, paradas>>

(* FileSystem stops: the Kernel connects to it when it starts, so the whole *)
(* system starts again, with what is on the disk.                           *)
Reinicio ==
  /\ ~caido /\ paradas < MaxParadas                             \* bound
  /\ Parar
  /\ paradas' = paradas + 1
  /\ tag' = <<>> /\ tap' = [p \in Pids |-> <<>>]
  /\ atiende' = EnSelect /\ prog' = [p \in Pids |-> "corre"]
  /\ borrados' = {}
  /\ UNCHANGED <<caido, ops>>

Descriptores == 3 .. MaxTag + 2

EnCursor ==
  \/ \E size \in Tamanos : EscribirEnCursor(size) \/ LeerEnCursor(size)
  \/ \E fd \in Descriptores : CerrarEnCursor(fd)
  \/ OtraCosaEnCursor

FileSystem == ~caido /\ Servir /\ UNCHANGED <<kernelVars, ops, borrados, paradas>>
Kernel == RespuestaAbrir \/ RespuestaCrear \/ RespuestaDatos

Next ==
  \/ \E p \in Pids, c \in Caminos, permisos \in Permisos : AbrirCrear(p, c, permisos)
  \/ \E p \in Pids, pc \in {"guardar", "leer"}, fd \in Descriptores, size \in Tamanos :
       SinCursor(p, pc, fd, size)
  \/ \E p \in Pids, fd \in Descriptores, off \in Posiciones : MoverPuntero(p, fd, off)
  \/ \E p \in Pids, fd \in Descriptores : Cerrar(p, fd) \/ Borrar(p, fd)
  \/ \E p \in Pids : Terminar(p)
  \/ EnCursor
  \/ FileSystem \/ Kernel \/ Reinicio

Spec == Init /\ [][Next]_vars /\ WF_vars(FileSystem) /\ WF_vars(Kernel) /\ WF_vars(EnCursor)

-----------------------------------------------------------------------------
(* Properties *)

TypeOK ==
  /\ bitmap \subseteq Bloques
  /\ DOMAIN archivos \subseteq Caminos
  /\ \A c \in DOMAIN archivos : archivos[c] \in [tam : Nat, bloques : Seq(Bloques)]
  /\ resp \in {"", "ok", "no", "lectura"}
  /\ tag \in Seq([fd : Descriptores, c : Caminos, abiertos : Nat \ {0}])
  /\ \A p \in Pids : /\ tap[p] \in Seq([fd : Descriptores, permisos : Permisos])
                     /\ prog[p] \in {"corre", "espera", "mudo", "error", "perdido", "fin"}
                     /\ prog[p] = "espera" <=> atiende.pid = p /\ atiende.pc # "mover"
  /\ fs.pc = "espera" /\ resp = "" => atiende.pc \in {"select", "mover"} \/ roto

(* guardar_datos and borrar_archivo take blocks and let them go one at a    *)
(* time, far from the metadata that says whose they are: two files never    *)
(* have the same block, except one that a stop left free in the bitmap and  *)
(* still in the metadata of a file (borrar_archivo clears the bits first).  *)
BloqueDeUno ==
  \A c1, c2 \in DOMAIN archivos :
    \A k1 \in DOMAIN ListaDe(c1), k2 \in DOMAIN ListaDe(c2) :
      ListaDe(c1)[k1] = ListaDe(c2)[k2] =>
        (c1 = c2 /\ k1 = k2) \/ ListaDe(c1)[k1] \in tocados

(* Between requests a bit is set when the block is in some file and only    *)
(* then, but for the blocks that a stop caught: what verificar_bloque gives *)
(* out is free, and no block is lost in writes that fail half way.          *)
BitmapExacto ==
  fs.pc = "espera" =>
    \A b \in Bloques \ tocados :
      b \in bitmap <=> \E c \in DOMAIN archivos : b \in ToSet(ListaDe(c))

(* What a program was told is written is where a read looks for it, for     *)
(* every file but those written beyond their end, rewritten shorter than    *)
(* they were (TAMANIO goes down), rewritten past two new blocks, or in a    *)
(* write that ran out of blocks and was answered OK all the same.           *)
EscritoSeLee ==
  fs.pc = "espera" =>
    \A c \in DOMAIN archivos \ raros : \A o \in creido[c] :
      /\ Alcanza(c, o)
      /\ \/ CeldaDe(c, o) = [c |-> c, off |-> o]
         \/ ListaDe(c)[o \div TBloques + 1] \in tocados

(* A token for each time the global table says a descriptor is open, and    *)
(* one for each entry of a program that has it.                             *)
Contadas(fd) ==
  UNION {{k} \X (1 .. tag[k].abiertos) : k \in {j \in DOMAIN tag : tag[j].fd = fd}}
Abiertas(fd) ==
  UNION {{p} \X {k \in DOMAIN tap[p] : tap[p][k].fd = fd} : p \in Pids}

(* open_ is kept in the global table and the descriptors in the programs':  *)
(* the entries of a descriptor count exactly the programs' entries for it,  *)
(* so that none is left without an entry to dereference; those of programs  *)
(* that ended are counted for ever.                                         *)
CuentaAbiertos ==
  \A fd \in Descriptores : Cardinality(Contadas(fd)) = Cardinality(Abiertas(fd))

(* A path of the global table exists in FileSystem until a program removes  *)
(* it: FileSystem looks for no metadata that was never there.               *)
TablaConArchivo ==
  \A k \in DOMAIN tag : tag[k].c \in DOMAIN archivos \cup borrados

(* The global table is what the programs have open, and what is on disk.    *)
TablaGlobal == CuentaAbiertos /\ TablaConArchivo

(* Whoever waits gets an answer, and the Kernel, that waits for one CPU     *)
(* after moverCursor, goes back to serving the others, unless a process is  *)
(* down.                                                                    *)
AtencionTermina == atiende # EnSelect ~> (atiende = EnSelect \/ caido \/ roto)
=============================================================================
