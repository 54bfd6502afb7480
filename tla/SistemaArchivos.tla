-------------------------- MODULE SistemaArchivos --------------------------
(***************************************************************************)
(* The process FileSystem: a bitmap of blocks (mapped from Bitmap.bin, so  *)
(* it outlives the process), a metadata file per path with its size and    *)
(* its blocks, and the blocks.  It serves the Kernel only, one request at  *)
(* a time; a request that changes the disk does it in several steps, and   *)
(* the process may stop between two of them.                               *)
(*                                                                         *)
(* The content of a cell is the file and offset it was last written for.   *)
(* tBloques is the 64 that funciones.c has written in it.                  *)
(***************************************************************************)
EXTENDS Integers, Sequences, FiniteSets, SequencesExt, FiniteSetsExt, Functions

CONSTANTS Caminos, CantBloques, TBloques

ASSUME SistemaOK == CantBloques \in Nat \ {0} /\ TBloques \in Nat \ {0}

VARIABLES
  bitmap,    \* blocks whose bit is set
  archivos,  \* metadata files, by path: [tam, bloques]
  celdas,    \* the blocks
  fs,        \* the request being served and the local variables of its function
  resp,      \* the answer on its way to the Kernel
  roto,      \* the process followed a pointer to nothing, or reads for ever
  tocados,   \* history: blocks that were changing hands in a stop
  creido,    \* history: offsets of each file that a program was told are written
  raros      \* history: files written in one of the ways EscritoSeLee excepts

disco == <<bitmap, archivos, celdas>>
historia == <<tocados, creido, raros>>
fsVars == <<disco, fs, resp, roto, historia>>

Bloques == 0 .. CantBloques - 1
Vacia == [c |-> "", off |-> 0]
SinMetadata == [tam |-> 0, bloques |-> <<>>]   \* a file with nothing in it
Ocioso == [pc |-> "espera", c |-> "", off |-> 0, size |-> 0, sig |-> 0, fis |-> 0, rem |-> 0,
           guardado |-> 0, nuevos |-> <<>>, flag |-> 0]

FsInit ==
  /\ bitmap = {} /\ archivos = [c \in {} |-> SinMetadata]
  /\ celdas = [b \in Bloques |-> [k \in 0 .. TBloques - 1 |-> Vacia]]
  /\ fs = Ocioso /\ resp = "" /\ roto = FALSE
  /\ tocados = {} /\ creido = [c \in Caminos |-> {}] /\ raros = {}

(* The Kernel sends a request (K11 to K15) when the last one is done with. *)
Pedir(pc, c, off, size) ==
  /\ ~roto /\ fs.pc = "espera"
  /\ fs' = [Ocioso EXCEPT !.pc = pc, !.c = c, !.off = off, !.size = size]
  /\ UNCHANGED <<disco, resp, roto, historia>>

(* leer_archivo of a path without metadata ends in NULL. *)
Legible(c) == c \in DOMAIN archivos /\ archivos[c] # SinMetadata
ListaDe(c) == archivos[c].bloques

SinArchivo ==
  /\ ~roto /\ fs.pc \in {"borrar", "leer", "guardar"} /\ ~Legible(fs.c)
  /\ roto' = TRUE
  /\ UNCHANGED <<disco, fs, resp, historia>>

(* Variants, here and below: one plausible slip each, to see that the       *)
(* property named on the right would notice it.  No behaviour uses them.    *)

(* verificar_bloque: the first free block, or -1; and -1 as well whenever   *)
(* its flag, which is never initialised, happens to start as false.         *)
VerificarBloque ==
  LET sueltos == Bloques \ bitmap IN {-1} \cup (IF sueltos = {} THEN {} ELSE {Min(sueltos)})

AgregarSinMarcar(b) == bitmap' = IF bitmap = {} THEN {b} ELSE bitmap  \* BloqueDeUno
AgregarBloque(b) == bitmap' = bitmap \cup {b}

-----------------------------------------------------------------------------
(* Creating, validating and removing *)

ValidarArchivo ==
  /\ ~roto /\ fs.pc = "validar"
  /\ resp' = IF fs.c \in DOMAIN archivos THEN "ok" ELSE "no"
  /\ fs' = Ocioso
  /\ UNCHANGED <<disco, roto, historia>>

(* crear_archivo: the path is created empty and F02 sent before it gets its *)
(* first block.  That fopen fails is as if there were no block.             *)
CrearArchivo ==
  /\ ~roto /\ fs.pc = "crear"
  /\ \E b \in VerificarBloque :
       IF b = -1
       THEN resp' = "no" /\ fs' = Ocioso /\ UNCHANGED archivos
       ELSE /\ resp' = "ok"
            /\ fs' = [fs EXCEPT !.pc = "armar"]
            /\ archivos' = [c \in DOMAIN archivos \cup {fs.c} |->
                              IF c \in DOMAIN archivos THEN archivos[c] ELSE SinMetadata]
  /\ UNCHANGED <<bitmap, celdas, roto, historia>>

(* armar_archivo: without a block nothing is written in the file. *)
ArmarArchivo ==
  /\ ~roto /\ fs.pc = "armar"
  /\ \E b \in VerificarBloque :
       IF b = -1
       THEN fs' = Ocioso /\ UNCHANGED bitmap
       ELSE AgregarBloque(b) /\ fs' = [fs EXCEPT !.pc = "cerrar", !.nuevos = <<b>>]
  /\ UNCHANGED <<archivos, celdas, resp, roto, historia>>

(* What armar_archivo wrote gets to the disk with the fclose. *)
CerrarArchivo ==
  /\ ~roto /\ fs.pc = "cerrar"
  /\ archivos' = [archivos EXCEPT ![fs.c] = [tam |-> 0, bloques |-> fs.nuevos]]
  /\ fs' = Ocioso
  /\ UNCHANGED <<bitmap, celdas, resp, roto, historia>>

BorrarMenosUno ==                                                   \* BitmapExacto
  /\ ~roto /\ fs.pc = "borrar" /\ Legible(fs.c)
  /\ bitmap' = bitmap \ ToSet(Front(ListaDe(fs.c)))
  /\ fs' = [fs EXCEPT !.pc = "quitar"]
  /\ UNCHANGED <<archivos, celdas, resp, roto, historia>>

(* borrar_archivo: the bits are cleared first, *)
BorrarArchivo ==
  /\ ~roto /\ fs.pc = "borrar" /\ Legible(fs.c)
  /\ bitmap' = bitmap \ ToSet(ListaDe(fs.c))
  /\ fs' = [fs EXCEPT !.pc = "quitar"]
  /\ UNCHANGED <<archivos, celdas, resp, roto, historia>>

(* and the path removed afterwards: F03. *)
QuitarArchivo ==
  /\ ~roto /\ fs.pc = "quitar"
  /\ archivos' = Restrict(archivos, DOMAIN archivos \ {fs.c})
  /\ resp' = "ok" /\ fs' = Ocioso
  /\ creido' = [creido EXCEPT ![fs.c] = {}]
  /\ raros' = raros \ {fs.c}
  /\ UNCHANGED <<bitmap, celdas, roto, tocados>>

-----------------------------------------------------------------------------
(* Reading *)

(* the cell where an offset of a file is looked for *)
CeldaDe(c, o) == celdas[ListaDe(c)[o \div TBloques + 1]][o % TBloques]
Alcanza(c, ultimo) == ultimo \div TBloques < Len(ListaDe(c))

(* obtener_datos: F04 when the blocks of the file reach.  When they do not  *)
(* the loop goes on with a file it has closed, and past the end of the      *)
(* list.  A cell never written reads as an empty string: the text may never *)
(* reach the length asked for.                                              *)
ObtenerDatos ==
  /\ ~roto /\ fs.pc = "leer" /\ Legible(fs.c)
  /\ LET pedidos == fs.off .. fs.off + fs.size - 1
         llega == Alcanza(fs.c, fs.off + fs.size - 1)
     IN  \/ /\ llega
            /\ resp' = "lectura" /\ fs' = Ocioso
            /\ UNCHANGED roto
         \/ /\ llega => \E o \in pedidos : CeldaDe(fs.c, o) = Vacia
            /\ roto' = TRUE
            /\ UNCHANGED <<resp, fs>>
  /\ UNCHANGED <<disco, historia>>

-----------------------------------------------------------------------------
(* Writing: guardar_datos *)

(* the test that picks one of the two loops *)
Dentro == fs.off < archivos[fs.c].tam
Cabe == fs.size - fs.guardado <= TBloques - fs.rem

(* n characters of the buffer go to the block that is open *)
Volcar(n) ==
  celdas' = [celdas EXCEPT ![fs.fis] =
    [k \in 0 .. TBloques - 1 |->
       IF k \in fs.rem .. fs.rem + n - 1
       THEN [c |-> fs.c, off |-> fs.off + fs.guardado + k - fs.rem] ELSE @[k]]]

SinLugar == [fs EXCEPT !.guardado = fs.size + 1, !.pc = "salvar"]
Agregado(b, flag) ==
  [fs EXCEPT !.pc = "escribir", !.sig = b, !.fis = b, !.rem = 0,
             !.nuevos = Append(@, b), !.flag = flag]

(* The block of the offset, or a new one when the file does not have it;    *)
(* bloqueSig is an index in the first case and a block in the second.       *)
GuardarDatos ==
  /\ ~roto /\ fs.pc = "guardar" /\ Legible(fs.c)
  /\ \E q \in {fs.off \div TBloques} :
       \/ /\ q >= Len(ListaDe(fs.c))
          /\ \E b \in VerificarBloque :
               IF b = -1 THEN fs' = SinLugar /\ UNCHANGED bitmap
               ELSE AgregarBloque(b) /\ fs' = Agregado(b, 1)
       \/ /\ q < Len(ListaDe(fs.c))
          /\ fs' = [fs EXCEPT !.pc = "escribir", !.sig = q, !.fis = ListaDe(fs.c)[q + 1],
                              !.rem = fs.off % TBloques]
          /\ UNCHANGED bitmap
  /\ raros' = raros \cup (IF fs.off > archivos[fs.c].tam THEN {fs.c} ELSE {})
  /\ UNCHANGED <<archivos, celdas, resp, roto, tocados, creido>>

(* the last piece *)
EscribirResto ==
  /\ ~roto /\ fs.pc = "escribir" /\ Cabe
  /\ Volcar(fs.size - fs.guardado)
  /\ fs' = [fs EXCEPT !.guardado = fs.size, !.flag = IF Dentro THEN 2 ELSE 1, !.pc = "salvar"]
  /\ UNCHANGED <<bitmap, archivos, resp, roto, historia>>

SiguienteSinVolver(lleva) ==                                        \* EscritoSeLee
  [fs EXCEPT !.guardado = lleva, !.sig = @ + 1, !.fis = ListaDe(fs.c)[fs.sig + 2], !.flag = 2]

(* the next block of the file, when it is rewritten *)
Siguiente(lleva) ==
  [fs EXCEPT !.guardado = lleva, !.sig = @ + 1, !.fis = ListaDe(fs.c)[fs.sig + 2],
             !.rem = 0, !.flag = 2]

(* A piece that fills the block, and the block where the next one goes: the *)
(* next of the file in the first loop, always a new one in the second.  The *)
(* first loop adds one to bloqueSig whatever it is.                         *)
EscribirBloque ==
  /\ ~roto /\ fs.pc = "escribir" /\ ~Cabe
  /\ Volcar(TBloques - fs.rem)
  /\ \E lleva \in {fs.guardado + TBloques - fs.rem}, cant \in {Len(ListaDe(fs.c))} :
       \/ /\ Dentro /\ fs.sig + 1 < cant
          /\ fs' = Siguiente(lleva)
          /\ UNCHANGED <<bitmap, roto>>
       \/ /\ Dentro /\ fs.sig + 1 > cant
          /\ roto' = TRUE
          /\ UNCHANGED <<bitmap, fs>>
       \/ /\ Dentro => fs.sig + 1 = cant
          /\ \E b \in VerificarBloque :
               IF b = -1
               THEN fs' = SinLugar /\ UNCHANGED bitmap
               ELSE /\ AgregarBloque(b)
                    /\ fs' = [Agregado(b, IF Dentro THEN 2 ELSE 1) EXCEPT !.guardado = lleva]
          /\ UNCHANGED roto
  /\ raros' = raros \cup (IF Dentro /\ fs.nuevos # <<>> THEN {fs.c} ELSE {})
  /\ UNCHANGED <<archivos, resp, tocados, creido>>

(* The metadata is saved, even after a failure that came late; the answer   *)
(* is F05 with ok or no, which the Kernel takes alike.                      *)
Salvar ==
  LET viejo == archivos[fs.c]
      tam == CASE fs.flag = 0 -> viejo.tam
               [] fs.flag = 1 -> viejo.tam + fs.size
               [] OTHER -> fs.off + fs.size
      mal == fs.guardado # fs.size \/ tam < viejo.tam
  IN  /\ ~roto /\ fs.pc = "salvar"
      /\ archivos' = [archivos EXCEPT ![fs.c] = [tam |-> tam, bloques |-> @.bloques \o fs.nuevos]]
      /\ resp' = IF fs.guardado = fs.size THEN "ok" ELSE "no"
      /\ fs' = Ocioso
      /\ creido' = [creido EXCEPT ![fs.c] = @ \cup fs.off .. fs.off + fs.size - 1]
      /\ raros' = raros \cup (IF mal THEN {fs.c} ELSE {})
      /\ UNCHANGED <<bitmap, celdas, roto, tocados>>

-----------------------------------------------------------------------------
(* The loop of main *)
Servir ==
  \/ ValidarArchivo \/ CrearArchivo \/ ArmarArchivo \/ CerrarArchivo
  \/ BorrarArchivo \/ QuitarArchivo \/ ObtenerDatos \/ SinArchivo
  \/ GuardarDatos \/ EscribirResto \/ EscribirBloque \/ Salvar

(* The process stops in the middle of a change and starts again. *)
Parar ==
  /\ ~roto /\ fs.pc \in {"armar", "cerrar", "quitar", "escribir", "salvar"}
  /\ tocados' = tocados \cup ToSet(fs.nuevos)
                \cup (IF fs.pc = "quitar" THEN ToSet(ListaDe(fs.c)) ELSE {})
  /\ fs' = Ocioso /\ resp' = ""
  /\ UNCHANGED <<disco, roto, creido, raros>>
=============================================================================
