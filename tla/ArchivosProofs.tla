--------------------------- MODULE ArchivosProofs ---------------------------
(***************************************************************************)
(* Proofs about the files, for any number of programs, paths and blocks    *)
(* and any number of stops of FileSystem in the middle of a change: the    *)
(* global table of the Kernel counts exactly what the programs have open,  *)
(* its paths exist, every block of the disk has one owner, the bitmap says *)
(* which are taken, and what was written is where it is read.              *)
(***************************************************************************)
EXTENDS Archivos, Lemas

-----------------------------------------------------------------------------
(* The inductive invariant of the tables *)

Entrada == [fd : Descriptores, c : Caminos, abiertos : Nat \ {0}]
Abierto == [fd : Descriptores, permisos : Permisos]

TablasTipo ==
  /\ tag \in Seq(Entrada)
  /\ tap \in [Pids -> Seq(Abierto)]

Estados == {"corre", "espera", "mudo", "error", "perdido", "fin"}
Atenciones ==
  [pc : {"select", "validar", "crear", "mover", "guardar", "leer", "borrar"},
   pid : Pids \cup {0}, c : Caminos \cup {""}, permisos : Permisos \cup {{}}, fd : Nat, off : Nat]

AtencionTipo ==
  /\ prog \in [Pids -> Estados]
  /\ atiende \in Atenciones
  /\ atiende.pc = "select" => atiende = EnSelect
  /\ atiende.pc # "select" => atiende.pid \in Pids
  /\ atiende.pc \in {"validar", "crear"} =>
       atiende.c \in Caminos /\ atiende.permisos \in Permisos /\ Len(tag) < MaxTag
  /\ atiende.pc = "mover" => Tiene(atiende.pid, atiende.fd)
  /\ \A p \in Pids : prog[p] = "espera" <=> atiende.pid = p /\ atiende.pc # "mover"

(* The tokens, of any tables. *)
ContadasEn(t, fd) == UNION {{k} \X (1 .. t[k].abiertos) : k \in {j \in DOMAIN t : t[j].fd = fd}}
AbiertasEn(u, fd) == UNION {{p} \X {k \in DOMAIN u[p] : u[p][k].fd = fd} : p \in Pids}

Cuadran(t, u) ==
  \A fd \in Descriptores :
    /\ IsFiniteSet(ContadasEn(t, fd)) /\ IsFiniteSet(AbiertasEn(u, fd))
    /\ Cardinality(ContadasEn(t, fd)) = Cardinality(AbiertasEn(u, fd))

TInv == TablasTipo /\ AtencionTipo /\ Cuadran(tag, tap)

-----------------------------------------------------------------------------
(* Looking in the tables *)

EsContada(t, fd, k, n) == k \in 1 .. Len(t) /\ t[k].fd = fd /\ n \in 1 .. t[k].abiertos
EsAbierta(u, fd, p, k) == p \in Pids /\ k \in 1 .. Len(u[p]) /\ u[p][k].fd = fd

LEMMA EnContadas ==
  ASSUME NEW t \in Seq(Entrada), NEW fd
  PROVE  /\ \A x : x \in ContadasEn(t, fd) <=>
              \E k, n \in Nat : x = <<k, n>> /\ EsContada(t, fd, k, n)
         /\ \A k, n : <<k, n>> \in ContadasEn(t, fd) <=> EsContada(t, fd, k, n)
<1>1. DOMAIN t = 1 .. Len(t) /\ \A k \in 1 .. Len(t) : t[k] \in Entrada
  BY LenProperties, ElementOfSeq
<1>2. \A e \in Entrada : e.abiertos \in Nat
  BY DEF Entrada
<1>3. \A k, n : EsContada(t, fd, k, n) => k \in Nat /\ n \in Nat
  BY <1>1, <1>2 DEF EsContada
<1> QED
  BY <1>1, <1>2, <1>3 DEF ContadasEn, EsContada

LEMMA EnAbiertas ==
  ASSUME NEW u \in [Pids -> Seq(Abierto)], NEW fd
  PROVE  /\ \A x : x \in AbiertasEn(u, fd) <=>
              \E p \in Pids, k \in Nat : x = <<p, k>> /\ EsAbierta(u, fd, p, k)
         /\ \A p, k : <<p, k>> \in AbiertasEn(u, fd) <=> EsAbierta(u, fd, p, k)
<1>1. \A p \in Pids : DOMAIN u[p] = 1 .. Len(u[p]) /\ 1 .. Len(u[p]) \subseteq Nat
  BY LenProperties
<1> QED
  BY <1>1 DEF AbiertasEn, EsAbierta

LEMMA ContadasIgual ==
  ASSUME NEW t \in Seq(Entrada), NEW t2 \in Seq(Entrada), NEW fd,
         \A k, n \in Nat :
           EsContada(t2, fd, k, n) <=> EsContada(t, fd, k, n)
  PROVE  ContadasEn(t2, fd) = ContadasEn(t, fd)
<1>1. /\ \A x : x \in ContadasEn(t, fd) <=>
             \E k, n \in Nat : x = <<k, n>> /\ EsContada(t, fd, k, n)
      /\ \A x : x \in ContadasEn(t2, fd) <=>
             \E k, n \in Nat : x = <<k, n>> /\ EsContada(t2, fd, k, n)
  BY EnContadas
<1>3. \A x : x \in ContadasEn(t2, fd) <=> x \in ContadasEn(t, fd)
  BY <1>1
<1> QED
  BY <1>3

LEMMA AbiertasIgual ==
  ASSUME NEW u \in [Pids -> Seq(Abierto)], NEW u2 \in [Pids -> Seq(Abierto)], NEW fd,
         \A p \in Pids, k \in Nat :
           EsAbierta(u2, fd, p, k) <=> EsAbierta(u, fd, p, k)
  PROVE  AbiertasEn(u2, fd) = AbiertasEn(u, fd)
<1>1. /\ \A x : x \in AbiertasEn(u, fd) <=>
             \E p \in Pids, k \in Nat : x = <<p, k>> /\ EsAbierta(u, fd, p, k)
      /\ \A x : x \in AbiertasEn(u2, fd) <=>
             \E p \in Pids, k \in Nat : x = <<p, k>> /\ EsAbierta(u2, fd, p, k)
  BY EnAbiertas
<1>3. \A x : x \in AbiertasEn(u2, fd) <=> x \in AbiertasEn(u, fd)
  BY <1>1
<1> QED
  BY <1>3

LEMMA BuscarTagEs ==
  ASSUME tag \in Seq(Entrada), NEW c
  PROVE  /\ BuscarTag(c) \in 0 .. Len(tag)
         /\ BuscarTag(c) # 0 => tag[BuscarTag(c)].c # c
         /\ BuscarTag(c) = 0 => \A k \in 1 .. Len(tag) : tag[k].c = c
<1> DEFINE I == {i \in 1 .. Len(tag) : tag[i].c # c}
<1>1. Len(tag) \in Nat
  BY LenProperties
<1>2. BuscarTag(c) = IF I # {} THEN Min(I) ELSE 0
  BY DEF BuscarTag, SelectInSeq
<1>3. /\ BuscarTag(c) \in 0 .. Len(tag)
      /\ BuscarTag(c) # 0 => BuscarTag(c) \in I
      /\ BuscarTag(c) = 0 => I = {}
  <2>1. I \in SUBSET (1 .. Len(tag))
    OBVIOUS
  <2> HIDE DEF I
  <2> QED
    BY <1>1, <1>2, <2>1, PrimeroDe
<1> QED
  BY <1>3

LEMMA BuscarTagFdEs ==
  ASSUME tag \in Seq(Entrada), NEW fd
  PROVE  /\ BuscarTagFd(fd) \in 0 .. Len(tag)
         /\ BuscarTagFd(fd) # 0 => tag[BuscarTagFd(fd)].fd = fd
         /\ BuscarTagFd(fd) = 0 => \A k \in 1 .. Len(tag) : tag[k].fd # fd
<1> DEFINE I == {i \in 1 .. Len(tag) : tag[i].fd = fd}
<1>1. Len(tag) \in Nat
  BY LenProperties
<1>2. BuscarTagFd(fd) = IF I # {} THEN Min(I) ELSE 0
  BY DEF BuscarTagFd, SelectInSeq
<1>3. /\ BuscarTagFd(fd) \in 0 .. Len(tag)
      /\ BuscarTagFd(fd) # 0 => BuscarTagFd(fd) \in I
      /\ BuscarTagFd(fd) = 0 => I = {}
  <2>1. I \in SUBSET (1 .. Len(tag))
    OBVIOUS
  <2> HIDE DEF I
  <2> QED
    BY <1>1, <1>2, <2>1, PrimeroDe
<1> QED
  BY <1>3

LEMMA BuscarTapEs ==
  ASSUME tap \in [Pids -> Seq(Abierto)], NEW p \in Pids, NEW fd
  PROVE  /\ BuscarTap(p, fd) \in 0 .. Len(tap[p])
         /\ BuscarTap(p, fd) # 0 => tap[p][BuscarTap(p, fd)].fd = fd
<1> DEFINE I == {i \in 1 .. Len(tap[p]) : tap[p][i].fd = fd}
<1>1. Len(tap[p]) \in Nat
  BY LenProperties
<1>2. BuscarTap(p, fd) = IF I # {} THEN Min(I) ELSE 0
  BY DEF BuscarTap, SelectInSeq
<1>3. /\ BuscarTap(p, fd) \in 0 .. Len(tap[p])
      /\ BuscarTap(p, fd) # 0 => BuscarTap(p, fd) \in I
  <2>1. I \in SUBSET (1 .. Len(tap[p]))
    OBVIOUS
  <2> HIDE DEF I
  <2> QED
    BY <1>1, <1>2, <2>1, PrimeroDe
<1> QED
  BY <1>3

(* What cerrar_file, borrar_archivo and get_path dereference is there.      *)
LEMMA TieneEntrada ==
  ASSUME TablasTipo, Cuadran(tag, tap), NEW p \in Pids, NEW fd, Tiene(p, fd)
  PROVE  /\ fd \in Descriptores
         /\ BuscarTagFd(fd) \in 1 .. Len(tag)
         /\ tag[BuscarTagFd(fd)] \in Entrada
         /\ tag[BuscarTagFd(fd)].fd = fd
         /\ BuscarTap(p, fd) \in 1 .. Len(tap[p])
         /\ tap[p][BuscarTap(p, fd)] \in Abierto
         /\ tap[p][BuscarTap(p, fd)].fd = fd
<1> DEFINE j == BuscarTap(p, fd)
           k == BuscarTagFd(fd)
<1>1. tag \in Seq(Entrada) /\ tap \in [Pids -> Seq(Abierto)] /\ Len(tap[p]) \in Nat /\ Len(tag) \in Nat
  BY LenProperties DEF TablasTipo
<1>2. j \in 1 .. Len(tap[p]) /\ tap[p][j].fd = fd
  BY <1>1, BuscarTapEs DEF Tiene
<1>3. tap[p][j] \in Abierto /\ fd \in Descriptores
  <2>1. tap[p] \in Seq(Abierto)
    BY <1>1
  <2>2. tap[p][j] \in Abierto
    BY <1>2, <2>1, ElementOfSeq
  <2> QED
    BY <1>2, <2>2 DEF Abierto
<1>4. k \in 0 .. Len(tag) /\ (k # 0 => tag[k].fd = fd)
      /\ (k = 0 => \A i \in 1 .. Len(tag) : tag[i].fd # fd)
  BY <1>1, BuscarTagFdEs
<1> HIDE DEF j, k
<1>5. k # 0
  <2> SUFFICES ASSUME k = 0 PROVE FALSE
    OBVIOUS
  <2>1. ContadasEn(tag, fd) = {}
    BY <1>1, <1>4, EnContadas DEF EsContada
  <2>2. <<p, j>> \in AbiertasEn(tap, fd)
    BY <1>1, <1>2, EnAbiertas DEF EsAbierta
  <2>3. Cardinality(AbiertasEn(tap, fd)) = 0
    BY <1>3, <2>1, FS_EmptySet DEF Cuadran
  <2> QED
    BY <1>3, <2>2, <2>3, FS_EmptySet DEF Cuadran
<1>6. k \in 1 .. Len(tag)
  BY <1>1, <1>4, <1>5
<1>7. tag[k] \in Entrada
  BY <1>1, <1>6, ElementOfSeq
<1> QED
  BY <1>2, <1>3, <1>4, <1>5, <1>6, <1>7 DEF j, k

-----------------------------------------------------------------------------
(* One token more, one token less *)

LEMMA UnoMas ==
  ASSUME NEW t, NEW u, NEW t2, NEW u2, NEW fd, NEW x, NEW y, Cuadran(t, u),
         x \notin ContadasEn(t, fd), y \notin AbiertasEn(u, fd),
         ContadasEn(t2, fd) = ContadasEn(t, fd) \cup {x},
         AbiertasEn(u2, fd) = AbiertasEn(u, fd) \cup {y},
         \A g \in Descriptores \ {fd} : /\ ContadasEn(t2, g) = ContadasEn(t, g)
                                        /\ AbiertasEn(u2, g) = AbiertasEn(u, g)
  PROVE  Cuadran(t2, u2)
<1> SUFFICES ASSUME NEW g \in Descriptores
             PROVE  /\ IsFiniteSet(ContadasEn(t2, g)) /\ IsFiniteSet(AbiertasEn(u2, g))
                    /\ Cardinality(ContadasEn(t2, g)) = Cardinality(AbiertasEn(u2, g))
  BY DEF Cuadran
<1>1. /\ IsFiniteSet(ContadasEn(t, g)) /\ IsFiniteSet(AbiertasEn(u, g))
      /\ Cardinality(ContadasEn(t, g)) = Cardinality(AbiertasEn(u, g))
  BY DEF Cuadran
<1>2. CASE g # fd
  BY <1>1, <1>2
<1>3. CASE g = fd
  <2>1. /\ IsFiniteSet(ContadasEn(t2, fd))
        /\ Cardinality(ContadasEn(t2, fd)) = Cardinality(ContadasEn(t, fd)) + 1
    BY <1>1, <1>3, FS_AddElement
  <2>2. /\ IsFiniteSet(AbiertasEn(u2, fd))
        /\ Cardinality(AbiertasEn(u2, fd)) = Cardinality(AbiertasEn(u, fd)) + 1
    BY <1>1, <1>3, FS_AddElement
  <2> QED
    BY <1>1, <1>3, <2>1, <2>2
<1> QED
  BY <1>2, <1>3

(* The tokens that are left may be numbered in another way: f and h.        *)
QuedanContadas(t, t2, x, g) ==
  IsFiniteSet(ContadasEn(t, g) \ {x}) =>
    /\ IsFiniteSet(ContadasEn(t2, g))
    /\ Cardinality(ContadasEn(t2, g)) = Cardinality(ContadasEn(t, g) \ {x})
QuedanAbiertas(u, u2, y, g) ==
  IsFiniteSet(AbiertasEn(u, g) \ {y}) =>
    /\ IsFiniteSet(AbiertasEn(u2, g))
    /\ Cardinality(AbiertasEn(u2, g)) = Cardinality(AbiertasEn(u, g) \ {y})

Quita(t, u, t2, u2, x, y) ==
  \A g \in Descriptores : /\ x \in ContadasEn(t, g) <=> y \in AbiertasEn(u, g)
                          /\ QuedanContadas(t, t2, x, g) /\ QuedanAbiertas(u, u2, y, g)

LEMMA UnoMenos ==
  ASSUME NEW t, NEW u, NEW t2, NEW u2, NEW x, NEW y, Cuadran(t, u), Quita(t, u, t2, u2, x, y)
  PROVE  Cuadran(t2, u2)
<1> SUFFICES ASSUME NEW g \in Descriptores
             PROVE  /\ IsFiniteSet(ContadasEn(t2, g)) /\ IsFiniteSet(AbiertasEn(u2, g))
                    /\ Cardinality(ContadasEn(t2, g)) = Cardinality(AbiertasEn(u2, g))
  BY DEF Cuadran
<1> DEFINE C == ContadasEn(t, g)
           A == AbiertasEn(u, g)
<1>1. IsFiniteSet(C) /\ IsFiniteSet(A) /\ Cardinality(C) = Cardinality(A)
  BY DEF Cuadran
<1>2. IsFiniteSet(C \ {x}) /\ Cardinality(C \ {x}) = IF x \in C THEN Cardinality(C) - 1 ELSE Cardinality(C)
  BY <1>1, FS_RemoveElement
<1>3. IsFiniteSet(A \ {y}) /\ Cardinality(A \ {y}) = IF y \in A THEN Cardinality(A) - 1 ELSE Cardinality(A)
  BY <1>1, FS_RemoveElement
<1>4. x \in C <=> y \in A
  BY DEF Quita
<1> QED
  BY <1>1, <1>2, <1>3, <1>4 DEF Quita, QuedanContadas, QuedanAbiertas

(* abrir_archivo adds one entry to the program and one to the count.        *)
LEMMA AbrirTablas ==
  ASSUME TablasTipo, Cuadran(tag, tap), Len(tag) < MaxTag,
         NEW p \in Pids, NEW c \in Caminos, NEW permisos \in Permisos,
         AbrirArchivo(p, c, permisos)
  PROVE  /\ TablasTipo' /\ Cuadran(tag', tap')
         /\ \A k \in 1 .. Len(tag') : tag'[k].c = c \/ \E j \in 1 .. Len(tag) : tag'[k].c = tag[j].c
<1>1. /\ tag \in Seq(Entrada) /\ tap \in [Pids -> Seq(Abierto)]
      /\ Len(tag) \in Nat /\ Len(tap[p]) \in Nat /\ MaxTag \in Nat
      /\ \A k \in 1 .. Len(tag) : tag[k] \in Entrada
  BY LenProperties, ElementOfSeq, ArchivosOK DEF TablasTipo
<1> DEFINE k == BuscarTag(c)
<1>2. k \in 0 .. Len(tag)
  BY <1>1, BuscarTagEs
<1>3. PICK fd : /\ fd = IF k = 0 THEN Len(tag) + 3 ELSE tag[k].fd
                /\ tag' = IF k = 0 THEN Append(tag, [fd |-> fd, c |-> c, abiertos |-> 1])
                          ELSE [tag EXCEPT ![k].abiertos = @ + 1]
                /\ tap' = [tap EXCEPT ![p] = Append(@, [fd |-> fd, permisos |-> permisos])]
  BY DEF AbrirArchivo
<1> HIDE DEF k
<1>4. fd \in Descriptores
  <2>1. CASE k = 0
    BY <1>1, <1>3, <2>1 DEF Descriptores
  <2>2. CASE k # 0
    <3>1. tag[k] \in Entrada
      BY <1>1, <1>2, <2>2
    <3> QED
      BY <1>3, <2>2, <3>1 DEF Entrada
  <2> QED
    BY <2>1, <2>2
<1> DEFINE a == [fd |-> fd, permisos |-> permisos]
           y == <<p, Len(tap[p]) + 1>>
<1>5. a \in Abierto /\ a.fd = fd
  BY <1>4 DEF Abierto
<1> HIDE DEF a
<1>6. /\ tap' \in [Pids -> Seq(Abierto)]
      /\ tap'[p] = Append(tap[p], a) /\ \A q \in Pids \ {p} : tap'[q] = tap[q]
      /\ Len(tap'[p]) = Len(tap[p]) + 1 /\ tap'[p][Len(tap[p]) + 1] = a
      /\ \A i \in 1 .. Len(tap[p]) : tap'[p][i] = tap[p][i]
  <2>1. tap[p] \in Seq(Abierto)
    BY <1>1
  <2>2. /\ Append(tap[p], a) \in Seq(Abierto)
        /\ Len(Append(tap[p], a)) = Len(tap[p]) + 1
        /\ \A i \in 1 .. Len(tap[p]) : Append(tap[p], a)[i] = tap[p][i]
        /\ Append(tap[p], a)[Len(tap[p]) + 1] = a
    BY <1>5, <2>1, AppendProperties
  <2>3. tap' = [tap EXCEPT ![p] = Append(@, a)]
    BY <1>3 DEF a
  <2>4. tap'[p] = Append(tap[p], a) /\ \A q \in Pids \ {p} : tap'[q] = tap[q]
    BY <1>1, <2>3
  <2>5. tap' \in [Pids -> Seq(Abierto)]
    BY <1>1, <2>2, <2>3
  <2> QED
    BY <2>2, <2>4, <2>5
<1>7. /\ y \notin AbiertasEn(tap, fd)
      /\ AbiertasEn(tap', fd) = AbiertasEn(tap, fd) \cup {y}
      /\ \A g \in Descriptores \ {fd} : AbiertasEn(tap', g) = AbiertasEn(tap, g)
  <2>1. y \notin AbiertasEn(tap, fd)
    BY <1>1, EnAbiertas DEF EsAbierta
  <2>2. ASSUME NEW g, NEW q \in Pids, NEW i \in Nat
        PROVE  EsAbierta(tap', g, q, i) <=>
                 EsAbierta(tap, g, q, i) \/ (q = p /\ i = Len(tap[p]) + 1 /\ g = fd)
    <3>1. CASE q # p
      BY <1>6, <3>1 DEF EsAbierta
    <3>2. CASE q = p
      <4>1. i \in 1 .. Len(tap[p]) => tap'[p][i].fd = tap[p][i].fd
        BY <1>6
      <4>2. tap'[p][Len(tap[p]) + 1].fd = fd
        BY <1>5, <1>6
      <4>3. i \in 1 .. Len(tap[p]) + 1 <=> i \in 1 .. Len(tap[p]) \/ i = Len(tap[p]) + 1
        BY <1>1
      <4> QED
        BY <1>1, <1>6, <3>2, <4>1, <4>2, <4>3 DEF EsAbierta
    <3> QED
      BY <3>1, <3>2
  <2>3. Len(tap[p]) + 1 \in Nat
    BY <1>1
  <2>4. AbiertasEn(tap', fd) = AbiertasEn(tap, fd) \cup {y}
    <3>1. PICK b \in Nat : b = Len(tap[p]) + 1
      BY <2>3
    <3>2. \A q \in Pids, i \in Nat : EsAbierta(tap', fd, q, i) <=>
                                        EsAbierta(tap, fd, q, i) \/ (q = p /\ i = b)
      BY <2>2, <3>1
    <3>3. tap \in [Pids -> Seq(Abierto)] /\ tap' \in [Pids -> Seq(Abierto)]
      BY <1>1, <1>6
    <3>4. \A z : z \in AbiertasEn(tap', fd) <=> z \in AbiertasEn(tap, fd) \/ z = <<p, b>>
      <4>1. \A z : z \in AbiertasEn(tap, fd) <=>
              \E q \in Pids, i \in Nat : z = <<q, i>> /\ EsAbierta(tap, fd, q, i)
        BY <3>3, EnAbiertas
      <4>2. \A z : z \in AbiertasEn(tap', fd) <=>
              \E q \in Pids, i \in Nat : z = <<q, i>> /\ EsAbierta(tap', fd, q, i)
        BY <3>3, EnAbiertas
      <4>3. \A q, i : <<q, i>> = <<p, b>> <=> q = p /\ i = b
        OBVIOUS
      <4> QED
        BY <3>2, <4>1, <4>2, <4>3
    <3> QED
      BY <3>1, <3>4
  <2>5. \A g \in Descriptores \ {fd} : AbiertasEn(tap', g) = AbiertasEn(tap, g)
    <3> SUFFICES ASSUME NEW g \in Descriptores \ {fd}
                 PROVE  AbiertasEn(tap', g) = AbiertasEn(tap, g)
      OBVIOUS
    <3>1. \A q \in Pids, i \in Nat : EsAbierta(tap', g, q, i) <=> EsAbierta(tap, g, q, i)
      BY <2>2
    <3>2. tap \in [Pids -> Seq(Abierto)] /\ tap' \in [Pids -> Seq(Abierto)]
      BY <1>1, <1>6
    <3> QED
      BY <3>1, <3>2, AbiertasIgual
  <2> QED
    BY <2>1, <2>4, <2>5
<1>8. CASE k = 0
  <2> DEFINE e == [fd |-> fd, c |-> c, abiertos |-> 1]
             x == <<Len(tag) + 1, 1>>
  <2>1. e \in Entrada /\ e.fd = fd /\ e.abiertos = 1 /\ e.c = c
    BY <1>4 DEF Entrada
  <2>2. tag' = Append(tag, e)
    BY <1>3, <1>8
  <2> HIDE DEF e
  <2>3. /\ tag' \in Seq(Entrada) /\ Len(tag') = Len(tag) + 1 /\ tag'[Len(tag) + 1] = e
        /\ \A i \in 1 .. Len(tag) : tag'[i] = tag[i]
    BY <1>1, <2>1, <2>2, AppendProperties
  <2>4. x \notin ContadasEn(tag, fd)
    BY <1>1, EnContadas DEF EsContada
  <2>5. ASSUME NEW g, NEW i \in Nat, NEW n \in Nat
        PROVE  EsContada(tag', g, i, n) <=>
                 EsContada(tag, g, i, n) \/ (i = Len(tag) + 1 /\ n = 1 /\ g = fd)
    <3>1. CASE i \in 1 .. Len(tag)
      <4>1. tag'[i] = tag[i] /\ i \in 1 .. Len(tag') /\ i # Len(tag) + 1
        BY <1>1, <2>3, <3>1
      <4> QED
        BY <3>1, <4>1 DEF EsContada
    <3>2. CASE i = Len(tag) + 1
      <4>1. tag'[i].fd = fd /\ tag'[i].abiertos = 1 /\ i \in 1 .. Len(tag') /\ i \notin 1 .. Len(tag)
        BY <1>1, <2>1, <2>3, <3>2
      <4>2. n \in 1 .. 1 <=> n = 1
        OBVIOUS
      <4> QED
        BY <3>2, <4>1, <4>2 DEF EsContada
    <3>3. CASE i \notin 1 .. Len(tag) /\ i # Len(tag) + 1
      <4>1. i \notin 1 .. Len(tag')
        BY <1>1, <2>3, <3>3
      <4> QED
        BY <3>3, <4>1 DEF EsContada
    <3> QED
      BY <3>1, <3>2, <3>3
  <2>6. Cuadran(tag', tap')
    <3>1. Len(tag) + 1 \in Nat /\ 1 \in Nat
      BY <1>1
    <3>2. ContadasEn(tag', fd) = ContadasEn(tag, fd) \cup {x}
      <4>1. PICK a0 \in Nat, b0 \in Nat : a0 = Len(tag) + 1 /\ b0 = 1
        BY <3>1
      <4>2. \A i, n \in Nat : EsContada(tag', fd, i, n) <=>
                                EsContada(tag, fd, i, n) \/ (i = a0 /\ n = b0)
        BY <2>5, <4>1
      <4>3. tag \in Seq(Entrada) /\ tag' \in Seq(Entrada)
        BY <1>1, <2>3
      <4>4. \A z : z \in ContadasEn(tag', fd) <=> z \in ContadasEn(tag, fd) \/ z = <<a0, b0>>
        <5>1. \A z : z \in ContadasEn(tag, fd) <=>
                \E i, n \in Nat : z = <<i, n>> /\ EsContada(tag, fd, i, n)
          BY <4>3, EnContadas
        <5>2. \A z : z \in ContadasEn(tag', fd) <=>
                \E i, n \in Nat : z = <<i, n>> /\ EsContada(tag', fd, i, n)
          BY <4>3, EnContadas
        <5>3. \A i, n : <<i, n>> = <<a0, b0>> <=> i = a0 /\ n = b0
          OBVIOUS
        <5> QED
          BY <4>2, <5>1, <5>2, <5>3
      <4> QED
        BY <4>1, <4>4
    <3>3. ASSUME NEW g \in Descriptores \ {fd} PROVE ContadasEn(tag', g) = ContadasEn(tag, g)
      <4>1. \A i, n \in Nat : EsContada(tag', g, i, n) <=> EsContada(tag, g, i, n)
        BY <2>5
      <4>2. tag \in Seq(Entrada) /\ tag' \in Seq(Entrada)
        BY <1>1, <2>3
      <4> QED
        BY <4>1, <4>2, ContadasIgual
    <3> HIDE DEF x, y
    <3> QED
      BY <1>7, <2>4, <3>2, <3>3, UnoMas
  <2>7. ASSUME NEW i \in 1 .. Len(tag')
        PROVE  tag'[i].c = c \/ \E j \in 1 .. Len(tag) : tag'[i].c = tag[j].c
    <3>1. CASE i = Len(tag) + 1
      BY <2>1, <2>3, <3>1
    <3>2. CASE i # Len(tag) + 1
      <4>1. i \in 1 .. Len(tag)
        BY <1>1, <2>3, <3>2
      <4> QED
        BY <2>3, <4>1
    <3> QED
      BY <3>1, <3>2
  <2> QED
    BY <1>6, <2>3, <2>6, <2>7 DEF TablasTipo
<1>9. CASE k # 0
  <2> DEFINE e == [tag[k] EXCEPT !.abiertos = @ + 1]
             x == <<k, tag[k].abiertos + 1>>
  <2>1. /\ k \in 1 .. Len(tag) /\ tag[k] \in Entrada /\ tag[k].fd = fd
        /\ tag[k].abiertos \in Nat
    <3>1. k \in 1 .. Len(tag)
      BY <1>1, <1>2, <1>9
    <3>2. tag[k] \in Entrada
      BY <1>1, <3>1
    <3> QED
      BY <1>3, <1>9, <3>1, <3>2 DEF Entrada
  <2>2. e \in Entrada /\ e.fd = fd /\ e.abiertos = tag[k].abiertos + 1 /\ e.c = tag[k].c
    BY <2>1 DEF Entrada
  <2>3. tag' = [tag EXCEPT ![k] = e]
    BY <1>3, <1>9
  <2> HIDE DEF e
  <2>4. /\ tag' \in Seq(Entrada) /\ Len(tag') = Len(tag)
        /\ \A i \in 1 .. Len(tag) : tag'[i] = IF i = k THEN e ELSE tag[i]
    BY <1>1, <2>1, <2>2, <2>3, ExceptSeq
  <2>5. x \notin ContadasEn(tag, fd)
    BY <1>1, <2>1, EnContadas DEF EsContada
  <2>6. ASSUME NEW g, NEW i \in Nat, NEW n \in Nat
        PROVE  EsContada(tag', g, i, n) <=>
                 EsContada(tag, g, i, n) \/ (i = k /\ n = tag[k].abiertos + 1 /\ g = fd)
    <3>1. CASE i \in 1 .. Len(tag) /\ i # k
      BY <2>4, <3>1 DEF EsContada
    <3>2. CASE i = k
      <4>1. tag'[i].fd = fd /\ tag'[i].abiertos = tag[k].abiertos + 1
        BY <2>1, <2>2, <2>4, <3>2
      <4>2. n \in 1 .. tag[k].abiertos + 1 <=> n \in 1 .. tag[k].abiertos \/ n = tag[k].abiertos + 1
        BY <2>1
      <4> QED
        BY <2>1, <2>4, <3>2, <4>1, <4>2 DEF EsContada
    <3>3. CASE i \notin 1 .. Len(tag)
      BY <2>1, <2>4, <3>3 DEF EsContada
    <3> QED
      BY <3>1, <3>2, <3>3
  <2>7. Cuadran(tag', tap')
    <3>1. k \in Nat /\ tag[k].abiertos + 1 \in Nat
      BY <1>1, <2>1
    <3>2. ContadasEn(tag', fd) = ContadasEn(tag, fd) \cup {x}
      <4>1. PICK a0 \in Nat, b0 \in Nat : a0 = k /\ b0 = tag[k].abiertos + 1
        BY <3>1
      <4>2. \A i, n \in Nat : EsContada(tag', fd, i, n) <=>
                                EsContada(tag, fd, i, n) \/ (i = a0 /\ n = b0)
        BY <2>6, <4>1
      <4>3. tag \in Seq(Entrada) /\ tag' \in Seq(Entrada)
        BY <1>1, <2>4
      <4>4. \A z : z \in ContadasEn(tag', fd) <=> z \in ContadasEn(tag, fd) \/ z = <<a0, b0>>
        <5>1. \A z : z \in ContadasEn(tag, fd) <=>
                \E i, n \in Nat : z = <<i, n>> /\ EsContada(tag, fd, i, n)
          BY <4>3, EnContadas
        <5>2. \A z : z \in ContadasEn(tag', fd) <=>
                \E i, n \in Nat : z = <<i, n>> /\ EsContada(tag', fd, i, n)
          BY <4>3, EnContadas
        <5>3. \A i, n : <<i, n>> = <<a0, b0>> <=> i = a0 /\ n = b0
          OBVIOUS
        <5> QED
          BY <4>2, <5>1, <5>2, <5>3
      <4> QED
        BY <4>1, <4>4
    <3>3. ASSUME NEW g \in Descriptores \ {fd} PROVE ContadasEn(tag', g) = ContadasEn(tag, g)
      <4>1. \A i, n \in Nat : EsContada(tag', g, i, n) <=> EsContada(tag, g, i, n)
        BY <2>6
      <4>2. tag \in Seq(Entrada) /\ tag' \in Seq(Entrada)
        BY <1>1, <2>4
      <4> QED
        BY <4>1, <4>2, ContadasIgual
    <3> HIDE DEF x, y
    <3> QED
      BY <1>7, <2>5, <3>2, <3>3, UnoMas
  <2>8. \A i \in 1 .. Len(tag') : tag'[i].c = c \/ \E j \in 1 .. Len(tag) : tag'[i].c = tag[j].c
    BY <1>1, <2>1, <2>2, <2>4
  <2> QED
    BY <1>6, <2>4, <2>7, <2>8 DEF TablasTipo
<1> QED
  BY <1>8, <1>9

(* The entries behind the one that goes move one place.                     *)
LEMMA ContadasSin ==
  ASSUME NEW t \in Seq(Entrada), NEW k \in 1 .. Len(t), t[k].abiertos = 1,
         NEW t2, t2 = RemoveAt(t, k), NEW g, IsFiniteSet(ContadasEn(t, g) \ {<<k, 1>>})
  PROVE  /\ IsFiniteSet(ContadasEn(t2, g))
         /\ Cardinality(ContadasEn(t2, g)) = Cardinality(ContadasEn(t, g) \ {<<k, 1>>})
<1> DEFINE S == ContadasEn(t, g) \ {<<k, 1>>}
           f == [z \in S |-> <<IF z[1] < k THEN z[1] ELSE z[1] - 1, z[2]>>]
<1>1. /\ t2 \in Seq(Entrada) /\ Len(t) \in Nat /\ Len(t2) = Len(t) - 1
      /\ \A i \in 1 .. Len(t) - 1 : t2[i] = t[IF i < k THEN i ELSE i + 1]
  BY LenProperties, SinElemento
<1>2. /\ \A z : z \in ContadasEn(t, g) <=> \E i, n \in Nat : z = <<i, n>> /\ EsContada(t, g, i, n)
      /\ \A i, n : <<i, n>> \in ContadasEn(t, g) <=> EsContada(t, g, i, n)
  BY EnContadas
<1>3. /\ \A z : z \in ContadasEn(t2, g) <=> \E i, n \in Nat : z = <<i, n>> /\ EsContada(t2, g, i, n)
      /\ \A i, n : <<i, n>> \in ContadasEn(t2, g) <=> EsContada(t2, g, i, n)
  BY <1>1, EnContadas
<1>4. ASSUME NEW z \in S
      PROVE  \E i, n \in Nat : z = <<i, n>> /\ i # k /\ EsContada(t, g, i, n)
  <2>1. PICK i \in Nat, n \in Nat : z = <<i, n>> /\ EsContada(t, g, i, n)
    BY <1>2
  <2>2. i # k
    <3> SUFFICES ASSUME i = k PROVE FALSE
      OBVIOUS
    <3>1. n \in 1 .. 1
      BY <2>1 DEF EsContada
    <3> QED
      BY <2>1, <3>1
  <2> QED
    BY <2>1, <2>2
<1>5. ASSUME NEW i \in Nat, NEW n \in Nat, i # k, EsContada(t, g, i, n)
      PROVE  EsContada(t2, g, IF i < k THEN i ELSE i - 1, n)
  <2>1. CASE i < k
    <3>1. i \in 1 .. Len(t) - 1 /\ t2[i] = t[i]
      BY <1>1, <1>5, <2>1 DEF EsContada
    <3> QED
      BY <1>1, <1>5, <2>1, <3>1 DEF EsContada
  <2>2. CASE ~(i < k)
    <3>1. i - 1 \in 1 .. Len(t) - 1 /\ ~(i - 1 < k) /\ i - 1 + 1 = i
      BY <1>1, <1>5, <2>2 DEF EsContada
    <3>2. t2[i - 1] = t[i]
      BY <1>1, <3>1
    <3> QED
      BY <1>1, <1>5, <2>2, <3>1, <3>2 DEF EsContada
  <2> QED
    BY <2>1, <2>2
<1>6. ASSUME NEW i \in Nat, NEW n \in Nat, EsContada(t2, g, i, n)
      PROVE  \E h \in Nat : /\ h # k /\ EsContada(t, g, h, n)
                            /\ i = IF h < k THEN h ELSE h - 1
  <2>1. i \in 1 .. Len(t) - 1
    BY <1>1, <1>6 DEF EsContada
  <2>2. CASE i < k
    <3>1. t2[i] = t[i] /\ i \in 1 .. Len(t)
      BY <1>1, <2>1, <2>2
    <3> QED
      BY <1>6, <2>2, <3>1 DEF EsContada
  <2>3. CASE ~(i < k)
    <3>1. PICK h \in Nat : h = i + 1
      OBVIOUS
    <3>2. h \in 1 .. Len(t) /\ h # k /\ ~(h < k) /\ i = h - 1
      BY <1>1, <2>1, <2>3, <3>1
    <3>3. t2[i] = t[h]
      BY <1>1, <2>1, <2>3, <3>1
    <3>4. EsContada(t, g, h, n)
      BY <1>6, <3>2, <3>3 DEF EsContada
    <3> QED
      BY <3>2, <3>4
  <2> QED
    BY <2>2, <2>3
<1>7. f \in [S -> ContadasEn(t2, g)]
  <2> SUFFICES ASSUME NEW z \in S
               PROVE  <<IF z[1] < k THEN z[1] ELSE z[1] - 1, z[2]>> \in ContadasEn(t2, g)
    OBVIOUS
  <2>1. PICK i \in Nat, n \in Nat : z = <<i, n>> /\ i # k /\ EsContada(t, g, i, n)
    BY <1>4
  <2>2. EsContada(t2, g, IF i < k THEN i ELSE i - 1, n)
    BY <1>5, <2>1
  <2> QED
    BY <1>3, <2>1, <2>2
<1>8. ASSUME NEW y \in S, NEW z \in S, f[y] = f[z] PROVE y = z
  <2>1. PICK i \in Nat, n \in Nat : y = <<i, n>> /\ i # k
    BY <1>4
  <2>2. PICK h \in Nat, m \in Nat : z = <<h, m>> /\ h # k
    BY <1>4
  <2>3. /\ f[y] = <<IF i < k THEN i ELSE i - 1, n>>
        /\ f[z] = <<IF h < k THEN h ELSE h - 1, m>>
    BY <2>1, <2>2
  <2>4. n = m /\ (IF i < k THEN i ELSE i - 1) = (IF h < k THEN h ELSE h - 1)
    BY <1>8, <2>3
  <2>5. i = h
    BY <1>1, <2>1, <2>2, <2>4
  <2> QED
    BY <2>1, <2>2, <2>4, <2>5
<1>9. ASSUME NEW y \in ContadasEn(t2, g) PROVE \E z \in S : f[z] = y
  <2>1. PICK i \in Nat, n \in Nat : y = <<i, n>> /\ EsContada(t2, g, i, n)
    BY <1>3
  <2>2. PICK h \in Nat : h # k /\ EsContada(t, g, h, n) /\ i = IF h < k THEN h ELSE h - 1
    BY <1>6, <2>1
  <2>3. <<h, n>> \in S
    BY <1>2, <2>2
  <2>4. f[<<h, n>>] = <<i, n>>
    BY <2>2, <2>3
  <2> QED
    BY <2>1, <2>3, <2>4
<1>10. IsFiniteSet(S)
  OBVIOUS
<1> HIDE DEF S, f
<1>11. IsFiniteSet(ContadasEn(t2, g)) /\ Cardinality(ContadasEn(t2, g)) = Cardinality(S)
  BY <1>7, <1>8, <1>9, <1>10, ConBiyeccion
<1> QED
  BY <1>11 DEF S

SinUna(u, p, k, u2) == k \in 1 .. Len(u[p]) /\ u2 = [u EXCEPT ![p] = RemoveAt(@, k)]

LEMMA AbiertasSin ==
  ASSUME NEW u \in [Pids -> Seq(Abierto)], NEW p \in Pids, NEW k, NEW u2, SinUna(u, p, k, u2)
  PROVE  \A g : QuedanAbiertas(u, u2, <<p, k>>, g)
<1> SUFFICES ASSUME NEW g, IsFiniteSet(AbiertasEn(u, g) \ {<<p, k>>})
             PROVE  /\ IsFiniteSet(AbiertasEn(u2, g))
                    /\ Cardinality(AbiertasEn(u2, g)) = Cardinality(AbiertasEn(u, g) \ {<<p, k>>})
  BY DEF QuedanAbiertas
<1>0. k \in 1 .. Len(u[p]) /\ u2 = [u EXCEPT ![p] = RemoveAt(@, k)]
  BY DEF SinUna
<1> DEFINE S == AbiertasEn(u, g) \ {<<p, k>>}
           f == [z \in S |-> <<z[1], IF z[1] = p /\ k < z[2] THEN z[2] - 1 ELSE z[2]>>]
<1>1. /\ u2 \in [Pids -> Seq(Abierto)] /\ Len(u[p]) \in Nat /\ Len(u2[p]) = Len(u[p]) - 1
      /\ \A i \in 1 .. Len(u[p]) - 1 : u2[p][i] = u[p][IF i < k THEN i ELSE i + 1]
      /\ \A q \in Pids \ {p} : u2[q] = u[q]
  <2>1. u[p] \in Seq(Abierto)
    OBVIOUS
  <2>2. /\ RemoveAt(u[p], k) \in Seq(Abierto) /\ Len(u[p]) \in Nat
        /\ Len(RemoveAt(u[p], k)) = Len(u[p]) - 1
        /\ \A i \in 1 .. Len(u[p]) - 1 : RemoveAt(u[p], k)[i] = u[p][IF i < k THEN i ELSE i + 1]
    BY <1>0, <2>1, LenProperties, SinElemento
  <2>3. u2[p] = RemoveAt(u[p], k) /\ \A q \in Pids \ {p} : u2[q] = u[q]
    BY <1>0
  <2>4. u2 \in [Pids -> Seq(Abierto)]
    BY <1>0, <2>2
  <2> QED
    BY <2>2, <2>3, <2>4
<1>2. /\ \A z : z \in AbiertasEn(u, g) <=> \E q \in Pids, i \in Nat : z = <<q, i>> /\ EsAbierta(u, g, q, i)
      /\ \A q, i : <<q, i>> \in AbiertasEn(u, g) <=> EsAbierta(u, g, q, i)
  BY EnAbiertas
<1>3. /\ \A z : z \in AbiertasEn(u2, g) <=> \E q \in Pids, i \in Nat : z = <<q, i>> /\ EsAbierta(u2, g, q, i)
      /\ \A q, i : <<q, i>> \in AbiertasEn(u2, g) <=> EsAbierta(u2, g, q, i)
  BY <1>1, EnAbiertas
<1>4. ASSUME NEW z \in S
      PROVE  \E q \in Pids, i \in Nat : z = <<q, i>> /\ ~(q = p /\ i = k) /\ EsAbierta(u, g, q, i)
  BY <1>2
<1>5. ASSUME NEW q \in Pids, NEW i \in Nat, ~(q = p /\ i = k), EsAbierta(u, g, q, i)
      PROVE  EsAbierta(u2, g, q, IF q = p /\ k < i THEN i - 1 ELSE i)
  <2>1. CASE q # p
    BY <1>0, <1>1, <1>5, <2>1 DEF EsAbierta
  <2>2. CASE q = p /\ i < k
    <3>1. i \in 1 .. Len(u[p]) - 1 /\ u2[p][i] = u[p][i]
      BY <1>0, <1>1, <1>5, <2>2 DEF EsAbierta
    <3> QED
      BY <1>0, <1>1, <1>5, <2>2, <3>1 DEF EsAbierta
  <2>3. CASE q = p /\ k < i
    <3>1. i - 1 \in 1 .. Len(u[p]) - 1 /\ ~(i - 1 < k) /\ i - 1 + 1 = i
      BY <1>0, <1>1, <1>5, <2>3 DEF EsAbierta
    <3>2. u2[p][i - 1] = u[p][i]
      BY <1>0, <1>1, <3>1
    <3> QED
      BY <1>0, <1>1, <1>5, <2>3, <3>1, <3>2 DEF EsAbierta
  <2> QED
    BY <1>0, <1>1, <1>5, <2>1, <2>2, <2>3
<1>6. ASSUME NEW q \in Pids, NEW i \in Nat, EsAbierta(u2, g, q, i)
      PROVE  \E h \in Nat : /\ ~(q = p /\ h = k) /\ EsAbierta(u, g, q, h)
                            /\ i = IF q = p /\ k < h THEN h - 1 ELSE h
  <2>1. CASE q # p
    BY <1>0, <1>1, <1>6, <2>1 DEF EsAbierta
  <2>2. CASE q = p
    <3>1. i \in 1 .. Len(u[p]) - 1
      BY <1>0, <1>1, <1>6, <2>2 DEF EsAbierta
    <3>2. CASE i < k
      <4>1. u2[p][i] = u[p][i] /\ i \in 1 .. Len(u[p]) /\ ~(k < i)
        BY <1>0, <1>1, <3>1, <3>2
      <4> QED
        BY <1>6, <2>2, <3>2, <4>1 DEF EsAbierta
    <3>3. CASE ~(i < k)
      <4>1. u2[p][i] = u[p][i + 1] /\ i + 1 \in 1 .. Len(u[p]) /\ i + 1 # k /\ k < i + 1 /\ i = i + 1 - 1
        BY <1>0, <1>1, <3>1, <3>3
      <4> QED
        BY <1>6, <2>2, <4>1 DEF EsAbierta
    <3> QED
      BY <3>2, <3>3
  <2> QED
    BY <2>1, <2>2
<1>7. f \in [S -> AbiertasEn(u2, g)]
  <2> SUFFICES ASSUME NEW z \in S
               PROVE  <<z[1], IF z[1] = p /\ k < z[2] THEN z[2] - 1 ELSE z[2]>> \in AbiertasEn(u2, g)
    OBVIOUS
  <2>1. PICK q \in Pids, i \in Nat : z = <<q, i>> /\ ~(q = p /\ i = k) /\ EsAbierta(u, g, q, i)
    BY <1>4
  <2>2. EsAbierta(u2, g, q, IF q = p /\ k < i THEN i - 1 ELSE i)
    BY <1>5, <2>1
  <2> QED
    BY <1>3, <2>1, <2>2
<1>8. ASSUME NEW y \in S, NEW z \in S, f[y] = f[z] PROVE y = z
  <2>1. PICK q \in Pids, i \in Nat : y = <<q, i>> /\ ~(q = p /\ i = k)
    BY <1>4
  <2>2. PICK r \in Pids, h \in Nat : z = <<r, h>> /\ ~(r = p /\ h = k)
    BY <1>4
  <2>3. /\ f[y] = <<q, IF q = p /\ k < i THEN i - 1 ELSE i>>
        /\ f[z] = <<r, IF r = p /\ k < h THEN h - 1 ELSE h>>
    BY <2>1, <2>2
  <2>4. q = r /\ (IF q = p /\ k < i THEN i - 1 ELSE i) = (IF r = p /\ k < h THEN h - 1 ELSE h)
    BY <1>8, <2>3
  <2>5. i = h
    BY <1>0, <1>1, <2>1, <2>2, <2>4
  <2> QED
    BY <2>1, <2>2, <2>4, <2>5
<1>9. ASSUME NEW y \in AbiertasEn(u2, g) PROVE \E z \in S : f[z] = y
  <2>1. PICK q \in Pids, i \in Nat : y = <<q, i>> /\ EsAbierta(u2, g, q, i)
    BY <1>3
  <2>2. PICK h \in Nat : /\ ~(q = p /\ h = k) /\ EsAbierta(u, g, q, h)
                         /\ i = IF q = p /\ k < h THEN h - 1 ELSE h
    BY <1>6, <2>1
  <2>3. <<q, h>> \in S
    BY <1>2, <2>2
  <2>4. f[<<q, h>>] = <<q, i>>
    BY <2>2, <2>3
  <2> QED
    BY <2>1, <2>3, <2>4
<1>10. IsFiniteSet(S)
  OBVIOUS
<1> HIDE DEF S, f
<1>11. IsFiniteSet(AbiertasEn(u2, g)) /\ Cardinality(AbiertasEn(u2, g)) = Cardinality(S)
  BY <1>7, <1>8, <1>9, <1>10, ConBiyeccion
<1> QED
  BY <1>0, <1>1, <1>11 DEF S

(* cerrar_file takes one entry from the program and one from the count.     *)
LEMMA CerrarTablas ==
  ASSUME TablasTipo, Cuadran(tag, tap), NEW p \in Pids, NEW fd, Tiene(p, fd), CerrarFile(p, fd)
  PROVE  /\ TablasTipo' /\ Cuadran(tag', tap')
         /\ \A i \in 1 .. Len(tag') : \E h \in 1 .. Len(tag) : tag'[i].c = tag[h].c
<1>1. PICK k, j : /\ k = BuscarTagFd(fd) /\ j = BuscarTap(p, fd)
                  /\ tag' = IF tag[k].abiertos = 1 THEN RemoveAt(tag, k)
                            ELSE [tag EXCEPT ![k].abiertos = @ - 1]
                  /\ tap' = [tap EXCEPT ![p] = RemoveAt(@, j)]
  BY DEF CerrarFile
<1>2. /\ fd \in Descriptores
      /\ k \in 1 .. Len(tag) /\ tag[k] \in Entrada /\ tag[k].fd = fd
      /\ j \in 1 .. Len(tap[p]) /\ tap[p][j].fd = fd
  BY <1>1, TieneEntrada
<1>3. /\ tag \in Seq(Entrada) /\ Len(tag) \in Nat /\ tap \in [Pids -> Seq(Abierto)]
      /\ \A i \in 1 .. Len(tag) : tag[i] \in Entrada
  BY LenProperties, ElementOfSeq DEF TablasTipo
<1>4. PICK a \in Nat \ {0} : a = tag[k].abiertos
  BY <1>2 DEF Entrada
<1>5. ASSUME NEW g \in Descriptores
      PROVE  /\ <<k, a>> \in ContadasEn(tag, g) <=> g = fd
             /\ <<p, j>> \in AbiertasEn(tap, g) <=> g = fd
  <2>1. <<k, a>> \in ContadasEn(tag, g) <=> EsContada(tag, g, k, a)
    BY <1>3, EnContadas
  <2>2. <<p, j>> \in AbiertasEn(tap, g) <=> EsAbierta(tap, g, p, j)
    BY <1>3, EnAbiertas
  <2>3. a \in 1 .. a
    OBVIOUS
  <2>4. EsContada(tag, g, k, a) <=> g = fd
    BY <1>2, <1>4, <2>3 DEF EsContada
  <2>5. EsAbierta(tap, g, p, j) <=> g = fd
    BY <1>2 DEF EsAbierta
  <2> QED
    BY <2>1, <2>2, <2>4, <2>5
<1>6. tap' \in [Pids -> Seq(Abierto)] /\ \A g \in Descriptores :
        QuedanAbiertas(tap, tap', <<p, j>>, g)
  <2>1. PICK u2 : u2 = [tap EXCEPT ![p] = RemoveAt(@, j)]
    OBVIOUS
  <2>2. u2 \in [Pids -> Seq(Abierto)] /\ \A g \in Descriptores :
          QuedanAbiertas(tap, u2, <<p, j>>, g)
    <3>1. u2 \in [Pids -> Seq(Abierto)]
      <4>1. tap[p] \in Seq(Abierto)
        BY <1>3
      <4>2. RemoveAt(tap[p], j) \in Seq(Abierto)
        BY <1>2, <4>1, SinElemento
      <4> QED
        BY <1>3, <2>1, <4>2
    <3>2. SinUna(tap, p, j, u2)
      BY <1>2, <2>1 DEF SinUna
    <3>3. \A g : QuedanAbiertas(tap, u2, <<p, j>>, g)
      BY <1>3, <3>2, AbiertasSin
    <3> QED
      BY <3>1, <3>3
  <2>3. tap' = u2
    BY <1>1, <2>1
  <2> QED
    BY <2>2, <2>3
<1>7. CASE a = 1
  <2>1. PICK t2 : t2 = RemoveAt(tag, k)
    OBVIOUS
  <2>2. tag' = t2
    BY <1>1, <1>4, <1>7, <2>1
  <2>3. /\ t2 \in Seq(Entrada) /\ Len(t2) = Len(tag) - 1
        /\ \A i \in 1 .. Len(tag) - 1 : t2[i] = tag[IF i < k THEN i ELSE i + 1]
    BY <1>2, <1>3, <2>1, SinElemento
  <2>4. ASSUME NEW g \in Descriptores, IsFiniteSet(ContadasEn(tag, g) \ {<<k, a>>})
        PROVE  /\ IsFiniteSet(ContadasEn(t2, g))
               /\ Cardinality(ContadasEn(t2, g)) = Cardinality(ContadasEn(tag, g) \ {<<k, a>>})
    <3>1. tag[k].abiertos = 1 /\ IsFiniteSet(ContadasEn(tag, g) \ {<<k, 1>>})
      BY <1>4, <1>7, <2>4
    <3>2. /\ IsFiniteSet(ContadasEn(t2, g))
          /\ Cardinality(ContadasEn(t2, g)) = Cardinality(ContadasEn(tag, g) \ {<<k, 1>>})
      BY <1>2, <1>3, <2>1, <3>1, ContadasSin
    <3> QED
      BY <1>7, <3>2
  <2>5. Cuadran(t2, tap')
    <3>1. Quita(tag, tap, t2, tap', <<k, a>>, <<p, j>>)
      BY <1>5, <1>6, <2>4 DEF Quita, QuedanContadas
    <3> QED
      BY <3>1, UnoMenos
  <2>6. ASSUME NEW i \in 1 .. Len(t2) PROVE \E h \in 1 .. Len(tag) : t2[i].c = tag[h].c
    <3>1. (IF i < k THEN i ELSE i + 1) \in 1 .. Len(tag) /\ i \in 1 .. Len(tag) - 1
      BY <1>2, <1>3, <2>3
    <3> QED
      BY <2>3, <3>1
  <2> QED
    BY <1>6, <2>2, <2>3, <2>5, <2>6 DEF TablasTipo
<1>8. CASE a # 1
  <2>1. PICK e : e = [tag[k] EXCEPT !.abiertos = @ - 1]
    OBVIOUS
  <2>2. e \in Entrada /\ e.fd = fd /\ e.abiertos = a - 1 /\ e.c = tag[k].c
    BY <1>2, <1>4, <1>8, <2>1 DEF Entrada
  <2>3. PICK t2 : t2 = [tag EXCEPT ![k] = e]
    OBVIOUS
  <2>4. tag' = t2
    BY <1>1, <1>4, <1>8, <2>1, <2>3
  <2>5. /\ t2 \in Seq(Entrada) /\ Len(t2) = Len(tag)
        /\ \A i \in 1 .. Len(tag) : t2[i] = IF i = k THEN e ELSE tag[i]
    BY <1>2, <1>3, <2>2, <2>3, ExceptSeq
  <2>6. ASSUME NEW g PROVE ContadasEn(t2, g) = ContadasEn(tag, g) \ {<<k, a>>}
    <3>1. \A z : z \in ContadasEn(tag, g) <=>
            \E i, n \in Nat : z = <<i, n>> /\ EsContada(tag, g, i, n)
      BY <1>3, EnContadas
    <3>2. \A z : z \in ContadasEn(t2, g) <=>
            \E i, n \in Nat : z = <<i, n>> /\ EsContada(t2, g, i, n)
      BY <2>5, EnContadas
    <3>3. \A i, n : <<i, n>> = <<k, a>> <=> i = k /\ n = a
      OBVIOUS
    <3>4. ASSUME NEW i \in Nat, NEW n \in Nat
          PROVE  EsContada(t2, g, i, n) <=> EsContada(tag, g, i, n) /\ ~(i = k /\ n = a)
      <4>1. CASE i \in 1 .. Len(tag) /\ i # k
        BY <2>5, <4>1 DEF EsContada
      <4>2. CASE i = k
        <5>1. t2[i].fd = fd /\ t2[i].abiertos = a - 1
          BY <1>2, <2>2, <2>5, <4>2
        <5>2. n \in 1 .. a - 1 <=> n \in 1 .. a /\ n # a
          OBVIOUS
        <5> QED
          BY <1>2, <1>4, <2>5, <4>2, <5>1, <5>2 DEF EsContada
      <4>3. CASE i \notin 1 .. Len(tag)
        BY <1>2, <2>5, <4>3 DEF EsContada
      <4> QED
        BY <4>1, <4>2, <4>3
    <3>5. \A z : z \in ContadasEn(t2, g) <=> z \in ContadasEn(tag, g) /\ z # <<k, a>>
      BY <3>1, <3>2, <3>3, <3>4
    <3> QED
      BY <3>5
  <2>7. Cuadran(t2, tap')
    <3>1. Quita(tag, tap, t2, tap', <<k, a>>, <<p, j>>)
      BY <1>5, <1>6, <2>6 DEF Quita, QuedanContadas
    <3> QED
      BY <3>1, UnoMenos
  <2>8. ASSUME NEW i \in 1 .. Len(t2) PROVE \E h \in 1 .. Len(tag) : t2[i].c = tag[h].c
    BY <1>2, <2>2, <2>5
  <2> QED
    BY <1>6, <2>4, <2>5, <2>7, <2>8 DEF TablasTipo
<1> QED
  BY <1>7, <1>8

-----------------------------------------------------------------------------
(* What the main thread is in the middle of *)

(* Back to select, when only p could be waiting.                            *)
LEMMA Vuelve ==
  ASSUME AtencionTipo, NEW p \in Pids, NEW estado \in Estados \ {"espera"},
         Responde(p, estado), \A q \in Pids \ {p} : prog[q] # "espera"
  PROVE  AtencionTipo'
<1>1. prog' = [prog EXCEPT ![p] = estado] /\ atiende' = EnSelect
  BY DEF Responde
<1>2. prog' \in [Pids -> Estados] /\ prog'[p] = estado /\ \A q \in Pids \ {p} : prog'[q] = prog[q]
  BY <1>1 DEF AtencionTipo
<1>3. 0 \notin Pids
  BY ArchivosOK
<1>4. \A q \in Pids : prog'[q] # "espera"
  BY <1>2
<1>5. atiende'.pid = 0 /\ atiende'.pc = "select"
  BY <1>1 DEF EnSelect
<1>6. atiende' \in Atenciones
  BY <1>1 DEF EnSelect, Atenciones
<1> QED
  BY <1>1, <1>2, <1>3, <1>4, <1>5, <1>6 DEF AtencionTipo

(* Something asked of FileSystem for p.                                     *)
LEMMA Espera ==
  ASSUME AtencionTipo, NEW p \in Pids, \A q \in Pids \ {p} : prog[q] # "espera",
         NEW pc \in {"validar", "guardar", "leer", "borrar"}, NEW c \in Caminos,
         prog' = [prog EXCEPT ![p] = "espera"], atiende' \in Atenciones,
         atiende'.pc = pc, atiende'.pid = p, atiende'.c = c,
         pc = "validar" => atiende'.permisos \in Permisos /\ Len(tag') < MaxTag
  PROVE  AtencionTipo'
<1>1. /\ prog' \in [Pids -> Estados] /\ prog'[p] = "espera"
      /\ \A q \in Pids \ {p} : prog'[q] = prog[q]
  BY DEF AtencionTipo, Estados
<1>3. \A q \in Pids : prog'[q] = "espera" <=> q = p
  BY <1>1
<1> QED
  BY <1>1, <1>3 DEF AtencionTipo

LEMMA NadieEspera ==
  ASSUME AtencionTipo
  PROVE  /\ atiende.pc \in {"select", "mover"} => \A q \in Pids : prog[q] # "espera"
         /\ \A q \in Pids : q # atiende.pid => prog[q] # "espera"
<1>1. 0 \notin Pids
  BY ArchivosOK
<1>2. /\ atiende.pc = "select" => atiende = EnSelect
      /\ \A q \in Pids : prog[q] = "espera" <=> atiende.pid = q /\ atiende.pc # "mover"
  BY DEF AtencionTipo
<1>3. EnSelect.pid = 0
  BY DEF EnSelect
<1>4. atiende.pc = "select" => atiende.pid = 0
  BY <1>2, <1>3
<1> QED
  BY <1>1, <1>2, <1>4

-----------------------------------------------------------------------------
(* Every step keeps the tables *)

LEMMA TablasVacias ==
  ASSUME NEW fd
  PROVE  ContadasEn(<<>>, fd) = {} /\ AbiertasEn([p \in Pids |-> <<>>], fd) = {}
<1> DEFINE u == [p \in Pids |-> <<>>]
<1>1. <<>> \in Seq(Entrada) /\ u \in [Pids -> Seq(Abierto)] /\ Len(<<>>) = 0
  OBVIOUS
<1>2. \A k, n : ~EsContada(<<>>, fd, k, n)
  BY <1>1 DEF EsContada
<1>3. \A p, k : ~EsAbierta(u, fd, p, k)
  BY <1>1 DEF EsAbierta
<1> HIDE DEF u
<1>4. ContadasEn(<<>>, fd) = {}
  BY <1>1, <1>2, EnContadas
<1>5. AbiertasEn(u, fd) = {}
  BY <1>1, <1>3, EnAbiertas
<1> QED
  BY <1>4, <1>5 DEF u

(* When the Kernel starts, and when it starts again. *)
AlEmpezar ==
  tag = <<>> /\ tap = [p \in Pids |-> <<>>] /\ atiende = EnSelect /\ prog = [p \in Pids |-> "corre"]

LEMMA TablasAlEmpezar == AlEmpezar => TInv
<1> SUFFICES ASSUME AlEmpezar PROVE TInv
  OBVIOUS
<1>1. /\ tag = <<>> /\ tap = [p \in Pids |-> <<>>] /\ atiende = EnSelect
      /\ prog = [p \in Pids |-> "corre"]
  BY DEF AlEmpezar
<1>2. TablasTipo
  BY <1>1 DEF TablasTipo
<1>3. AtencionTipo
  <2>1. /\ atiende \in Atenciones
        /\ atiende.pc = "select" /\ atiende.pid = 0 /\ 0 \notin Pids
    BY <1>1, ArchivosOK DEF EnSelect, Atenciones
  <2> QED
    BY <1>1, <2>1 DEF AtencionTipo, Estados
<1>4. Cuadran(tag, tap)
  BY <1>1, TablasVacias, FS_EmptySet DEF Cuadran
<1> QED
  BY <1>2, <1>3, <1>4 DEF TInv

LEMMA TablasIguales ==
  ASSUME TInv, UNCHANGED <<tag, tap>>, AtencionTipo'
  PROVE  TInv'
BY DEF TInv, TablasTipo

LEMMA AtencionIgual ==
  ASSUME TInv, UNCHANGED kernelVars
  PROVE  TInv'
<1>1. UNCHANGED <<tag, tap, atiende, prog>>
  BY DEF kernelVars
<1>2. AtencionTipo
  BY DEF TInv
<1>3. Tiene(atiende.pid, atiende.fd)' <=> Tiene(atiende.pid, atiende.fd)
  BY <1>1 DEF Tiene, BuscarTap, SelectInSeq
<1>4. AtencionTipo'
  BY <1>1, <1>2, <1>3 DEF AtencionTipo
<1> QED
  BY <1>1, <1>4, TablasIguales

LEMMA AlSelect ==
  ASSUME TInv, UNCHANGED <<tag, tap>>, NEW p \in Pids, NEW estado \in Estados \ {"espera"},
         Responde(p, estado), atiende.pc \in {"select", "mover"} \/ atiende.pid = p
  PROVE  TInv'
<1>1. AtencionTipo
  BY DEF TInv
<1>2. \A q \in Pids \ {p} : prog[q] # "espera"
  BY <1>1, NadieEspera
<1>3. AtencionTipo'
  BY <1>1, <1>2, Vuelve
<1> QED
  BY <1>3, TablasIguales

(* Whoever has a descriptor asks for its path. *)
LEMMA CaminoTipo ==
  ASSUME TInv, NEW p \in Pids, NEW fd, Tiene(p, fd)
  PROVE  GetPath(fd) \in Caminos
<1>1. tag[BuscarTagFd(fd)] \in Entrada
  BY TieneEntrada DEF TInv
<1> QED
  BY <1>1 DEF GetPath, Entrada

LEMMA AlPedir ==
  ASSUME TInv, UNCHANGED <<tag, tap>>, NEW p \in Pids, NEW fd, Tiene(p, fd),
         NEW pc \in {"guardar", "leer", "borrar"}, NEW off, NEW size,
         Consulta(p, pc, GetPath(fd), off, size), atiende.pc \in {"select", "mover"}
  PROVE  TInv'
<1>1. AtencionTipo
  BY DEF TInv
<1>2. \A q \in Pids \ {p} : prog[q] # "espera"
  BY <1>1, NadieEspera
<1>3. GetPath(fd) \in Caminos
  BY CaminoTipo
<1>4. /\ prog' = [prog EXCEPT ![p] = "espera"]
      /\ atiende' = [EnSelect EXCEPT !.pc = pc, !.pid = p, !.c = GetPath(fd)]
  BY DEF Consulta
<1>5. /\ atiende' \in Atenciones
      /\ atiende'.pc = pc /\ atiende'.pid = p /\ atiende'.c = GetPath(fd)
  BY <1>3, <1>4 DEF EnSelect, Atenciones
<1>6. AtencionTipo'
  BY <1>1, <1>2, <1>3, <1>4, <1>5, Espera
<1> QED
  BY <1>6, TablasIguales

LEMMA EscribirLeerT ==
  ASSUME TInv, UNCHANGED <<tag, tap>>, NEW p \in Pids, NEW fd, Tiene(p, fd),
         NEW pc \in {"guardar", "leer"}, NEW off, NEW size,
         EscribirLeer(p, pc, fd, off, size), atiende.pc \in {"select", "mover"}
  PROVE  TInv'
<1>1. CASE Consulta(p, pc, GetPath(fd), off, size)
  <2>1. pc \in {"guardar", "leer", "borrar"}
    OBVIOUS
  <2> QED
    BY <1>1, <2>1, AlPedir
<1>2. CASE Responde(p, "error")
  <2>1. "error" \in Estados \ {"espera"}
    BY DEF Estados
  <2> QED
    BY <1>2, <2>1, AlSelect
<1> QED
  BY <1>1, <1>2 DEF EscribirLeer

LEMMA EnEspera ==
  ASSUME TInv, atiende = EnSelect
  PROVE  atiende.pc \in {"select", "mover"}
BY DEF EnSelect

LEMMA MoviendoTiene ==
  ASSUME TInv, Moviendo
  PROVE  atiende.pid \in Pids /\ Tiene(atiende.pid, atiende.fd) /\ atiende.pc \in {"select", "mover"}
BY DEF Moviendo, TInv, AtencionTipo

LEMMA TablasAbrirCrear ==
  ASSUME TInv, NEW p \in Pids, NEW c \in Caminos, NEW permisos \in Permisos,
         AbrirCrear(p, c, permisos)
  PROVE  TInv'
<1>1. /\ atiende = EnSelect /\ Len(tag) < MaxTag /\ prog' = [prog EXCEPT ![p] = "espera"]
      /\ atiende' = [EnSelect EXCEPT !.pc = "validar", !.pid = p, !.c = c, !.permisos = permisos]
      /\ UNCHANGED <<tag, tap>>
  BY DEF AbrirCrear, Mensaje
<1>2. AtencionTipo
  BY DEF TInv
<1>3. \A q \in Pids \ {p} : prog[q] # "espera"
  BY <1>1, <1>2, NadieEspera, EnEspera
<1>4. AtencionTipo'
  <2>1. /\ atiende' \in Atenciones /\ atiende'.permisos = permisos
        /\ atiende'.pc = "validar" /\ atiende'.pid = p /\ atiende'.c = c
    BY <1>1 DEF EnSelect, Atenciones
  <2> QED
    BY <1>1, <1>2, <1>3, <2>1, Espera
<1> QED
  BY <1>1, <1>4, TablasIguales

(* with what abrir_archivo does to the paths of the table *)
LEMMA TablasRespuestaAbrir ==
  ASSUME TInv, RespuestaAbrir
  PROVE  TInv'
<1>1. AtencionTipo /\ TablasTipo /\ Cuadran(tag, tap) /\ atiende.pc = "validar"
  BY DEF TInv, RespuestaAbrir
<1>2. /\ atiende.pid \in Pids /\ atiende.c \in Caminos /\ atiende.permisos \in Permisos
      /\ Len(tag) < MaxTag
  BY <1>1 DEF AtencionTipo
<1>3. "corre" \in Estados \ {"espera"}
  BY DEF Estados
<1>4. CASE AbrirArchivo(atiende.pid, atiende.c, atiende.permisos) /\ Responde(atiende.pid, "corre")
  <2>1. TablasTipo' /\ Cuadran(tag', tap')
    BY <1>1, <1>2, <1>4, AbrirTablas
  <2>2. \A q \in Pids \ {atiende.pid} : prog[q] # "espera"
    BY <1>1, NadieEspera
  <2>3. AtencionTipo'
    BY <1>1, <1>2, <1>3, <1>4, <2>2, Vuelve
  <2> QED
    BY <2>1, <2>3 DEF TInv
<1>5. CASE atiende' = [atiende EXCEPT !.pc = "crear"] /\ UNCHANGED <<tag, tap, prog>>
  <2>1. AtencionTipo'
    <3>1. /\ atiende'.pid = atiende.pid /\ atiende'.c = atiende.c
          /\ atiende'.permisos = atiende.permisos /\ atiende'.pc = "crear"
          /\ atiende' \in Atenciones
      BY <1>1, <1>5 DEF AtencionTipo, Atenciones
    <3> QED
      BY <1>1, <1>2, <1>5, <3>1 DEF AtencionTipo
  <2> QED
    BY <1>5, <2>1, TablasIguales
<1>6. CASE Responde(atiende.pid, "corre") /\ UNCHANGED <<tag, tap>>
  BY <1>2, <1>3, <1>6, AlSelect
<1> QED
  BY <1>4, <1>5, <1>6 DEF RespuestaAbrir

LEMMA TablasRespuestaCrear ==
  ASSUME TInv, RespuestaCrear
  PROVE  TInv'
<1>1. AtencionTipo /\ TablasTipo /\ Cuadran(tag, tap) /\ atiende.pc = "crear"
  BY DEF TInv, RespuestaCrear
<1>2. /\ atiende.pid \in Pids /\ atiende.c \in Caminos /\ atiende.permisos \in Permisos
      /\ Len(tag) < MaxTag
  BY <1>1 DEF AtencionTipo
<1>3. "corre" \in Estados \ {"espera"} /\ "error" \in Estados \ {"espera"}
  BY DEF Estados
<1>4. CASE AbrirArchivo(atiende.pid, atiende.c, atiende.permisos) /\ Responde(atiende.pid, "corre")
  <2>1. TablasTipo' /\ Cuadran(tag', tap')
    BY <1>1, <1>2, <1>4, AbrirTablas
  <2>2. \A q \in Pids \ {atiende.pid} : prog[q] # "espera"
    BY <1>1, NadieEspera
  <2>3. AtencionTipo'
    BY <1>1, <1>2, <1>3, <1>4, <2>2, Vuelve
  <2> QED
    BY <2>1, <2>3 DEF TInv
<1>5. CASE Responde(atiende.pid, "error") /\ UNCHANGED <<tag, tap>>
  BY <1>2, <1>3, <1>5, AlSelect
<1> QED
  BY <1>4, <1>5 DEF RespuestaCrear

LEMMA TablasCerrarFile ==
  ASSUME TInv, NEW p \in Pids, NEW fd, CerrarFile(p, fd), atiende.pc \in {"select", "mover"}
  PROVE  TInv'
<1>1. "corre" \in Estados \ {"espera"} /\ "error" \in Estados \ {"espera"}
  BY DEF Estados
<1>2. AtencionTipo /\ TablasTipo /\ Cuadran(tag, tap)
  BY DEF TInv
<1>3. CASE Tiene(p, fd)
  <2>1. TablasTipo' /\ Cuadran(tag', tap')
    BY <1>2, <1>3, CerrarTablas
  <2>2. \A q \in Pids \ {p} : prog[q] # "espera"
    BY <1>2, NadieEspera
  <2>3. Responde(p, "corre")
    BY <1>3 DEF CerrarFile
  <2>4. AtencionTipo'
    BY <1>1, <1>2, <2>2, <2>3, Vuelve
  <2> QED
    BY <2>1, <2>4 DEF TInv
<1>4. CASE ~Tiene(p, fd)
  <2>1. Responde(p, "error") /\ UNCHANGED <<tag, tap>>
    BY <1>4 DEF CerrarFile
  <2> QED
    BY <1>1, <2>1, AlSelect
<1> QED
  BY <1>3, <1>4

LEMMA TablasMoverPuntero ==
  ASSUME TInv, NEW p \in Pids, NEW fd \in Descriptores, NEW off \in Posiciones,
         MoverPuntero(p, fd, off)
  PROVE  TInv'
<1>1. UNCHANGED <<tag, tap>> /\ atiende = EnSelect
  BY DEF MoverPuntero, Mensaje
<1>2. AtencionTipo /\ \A q \in Pids : prog[q] # "espera"
  BY <1>1, NadieEspera, EnEspera DEF TInv
<1>3. AtencionTipo'
  <2>1. CASE Tiene(p, fd)
    <3>1. /\ atiende' = [EnSelect EXCEPT !.pc = "mover", !.pid = p, !.fd = fd, !.off = off]
          /\ prog' = prog
      BY <2>1 DEF MoverPuntero
    <3>2. fd \in Nat /\ off \in Nat
      BY ArchivosOK DEF Descriptores
    <3>3. /\ atiende' \in Atenciones
          /\ atiende'.pc = "mover" /\ atiende'.pid = p /\ atiende'.fd = fd
      BY <3>1, <3>2 DEF EnSelect, Atenciones
    <3>4. Tiene(p, fd)'
      BY <1>1, <2>1 DEF Tiene, BuscarTap, SelectInSeq
    <3>5. Tiene(atiende.pid, atiende.fd)'
      BY <3>3, <3>4 DEF Tiene, BuscarTap, SelectInSeq
    <3> QED
      BY <1>2, <3>1, <3>3, <3>5 DEF AtencionTipo
  <2>2. CASE ~Tiene(p, fd)
    <3>1. prog' = [prog EXCEPT ![p] = "mudo"] /\ atiende' = EnSelect
      BY <1>1, <2>2 DEF MoverPuntero
    <3>2. Responde(p, "mudo") /\ "mudo" \in Estados \ {"espera"}
      BY <3>1 DEF Responde, Estados
    <3> QED
      BY <1>2, <3>2, Vuelve
  <2> QED
    BY <2>1, <2>2
<1> QED
  BY <1>1, <1>3, TablasIguales

LEMMA TablasPaso ==
  ASSUME TInv, Next
  PROVE  TInv'
<1>1. ASSUME NEW p \in Pids, NEW c \in Caminos, NEW permisos \in Permisos,
             AbrirCrear(p, c, permisos)
      PROVE  TInv'
  BY <1>1, TablasAbrirCrear
<1>2. ASSUME NEW p \in Pids, NEW pc \in {"guardar", "leer"}, NEW fd \in Descriptores,
             NEW size \in Tamanos, SinCursor(p, pc, fd, size)
      PROVE  TInv'
  <2>1. UNCHANGED <<tag, tap>> /\ atiende = EnSelect /\ atiende.pc \in {"select", "mover"}
    BY <1>2, EnEspera DEF SinCursor, Mensaje
  <2>2. CASE Tiene(p, fd)
    BY <1>2, <2>1, <2>2, EscribirLeerT DEF SinCursor
  <2>3. CASE ~Tiene(p, fd)
    <3>1. UNCHANGED <<tag, tap, prog, atiende>>
      BY <1>2, <2>3 DEF SinCursor
    <3>2. AtencionTipo /\ atiende.pc = "select"
      BY <2>1 DEF TInv, EnSelect
    <3>3. AtencionTipo'
      BY <3>1, <3>2 DEF AtencionTipo
    <3> QED
      BY <3>1, <3>3, TablasIguales
  <2> QED
    BY <2>2, <2>3
<1>3. ASSUME NEW p \in Pids, NEW fd \in Descriptores, NEW off \in Posiciones,
             MoverPuntero(p, fd, off)
      PROVE  TInv'
  BY <1>3, TablasMoverPuntero
<1>4. ASSUME NEW p \in Pids, NEW fd \in Descriptores, Cerrar(p, fd)
      PROVE  TInv'
  BY <1>4, TablasCerrarFile, EnEspera DEF Cerrar, Mensaje
<1>5. ASSUME NEW p \in Pids, NEW fd \in Descriptores, Borrar(p, fd)
      PROVE  TInv'
  <2>1. UNCHANGED <<tag, tap>> /\ atiende.pc \in {"select", "mover"}
    BY <1>5, EnEspera DEF Borrar, Mensaje
  <2>2. "corre" \in Estados \ {"espera"} /\ "error" \in Estados \ {"espera"}
    BY DEF Estados
  <2>3. CASE Tiene(p, fd) /\ Consulta(p, "borrar", GetPath(fd), 0, 0)
    <3>1. "borrar" \in {"guardar", "leer", "borrar"}
      OBVIOUS
    <3> QED
      BY <2>1, <2>3, <3>1, AlPedir
  <2>4. CASE Responde(p, "corre")
    BY <2>1, <2>2, <2>4, AlSelect
  <2>5. CASE Responde(p, "error")
    BY <2>1, <2>2, <2>5, AlSelect
  <2> QED
    BY <1>5, <2>3, <2>4, <2>5 DEF Borrar
<1>6. ASSUME NEW p \in Pids, Terminar(p)
      PROVE  TInv'
  <2>1. UNCHANGED <<tag, tap, atiende>> /\ atiende = EnSelect /\ prog' = [prog EXCEPT ![p] = "fin"]
    BY <1>6 DEF Terminar
  <2>2. Responde(p, "fin") /\ "fin" \in Estados \ {"espera"} /\ atiende.pc \in {"select", "mover"}
    BY <2>1, EnEspera DEF Responde, Estados
  <2> QED
    BY <2>1, <2>2, AlSelect
<1>7. ASSUME EnCursor PROVE TInv'
  <2>1. atiende.pid \in Pids /\ Tiene(atiende.pid, atiende.fd) /\ atiende.pc \in {"select", "mover"}
    BY <1>7, MoviendoTiene
    DEF EnCursor, EscribirEnCursor, LeerEnCursor, CerrarEnCursor, OtraCosaEnCursor
  <2>2. ASSUME NEW size \in Tamanos, EscribirEnCursor(size) PROVE TInv'
    <3>1. /\ EscribirLeer(atiende.pid, "guardar", atiende.fd, atiende.off, size)
          /\ UNCHANGED <<tag, tap>> /\ "guardar" \in {"guardar", "leer"}
      BY <2>2 DEF EscribirEnCursor
    <3> QED
      BY <2>1, <3>1, EscribirLeerT
  <2>3. ASSUME NEW size \in Tamanos, LeerEnCursor(size) PROVE TInv'
    <3>1. /\ EscribirLeer(atiende.pid, "leer", atiende.fd, atiende.off, 10 * atiende.fd + size)
          /\ UNCHANGED <<tag, tap>> /\ "leer" \in {"guardar", "leer"}
      BY <2>3 DEF LeerEnCursor
    <3> QED
      BY <2>1, <3>1, EscribirLeerT
  <2>4. ASSUME NEW fd \in Descriptores, CerrarEnCursor(fd) PROVE TInv'
    BY <2>1, <2>4, TablasCerrarFile DEF CerrarEnCursor
  <2>5. ASSUME OtraCosaEnCursor PROVE TInv'
    <3>1. "perdido" \in Estados \ {"espera"}
      BY DEF Estados
    <3> QED
      BY <2>1, <2>5, <3>1, AlSelect DEF OtraCosaEnCursor
  <2> QED
    BY <1>7, <2>2, <2>3, <2>4, <2>5 DEF EnCursor
<1>8. ASSUME FileSystem PROVE TInv'
  BY <1>8, AtencionIgual DEF FileSystem
<1>9. ASSUME Kernel PROVE TInv'
  <2>1. CASE RespuestaDatos
    <3>1. atiende.pid \in Pids /\ UNCHANGED <<tag, tap>> /\ Responde(atiende.pid, "corre")
      BY <2>1 DEF RespuestaDatos, TInv, AtencionTipo
    <3>2. "corre" \in Estados \ {"espera"}
      BY DEF Estados
    <3> QED
      BY <3>1, <3>2, AlSelect
  <2> QED
    BY <1>9, <2>1, TablasRespuestaAbrir, TablasRespuestaCrear DEF Kernel
<1>10. ASSUME Reinicio PROVE TInv'
  <2>1. AlEmpezar'
    BY <1>10 DEF Reinicio, AlEmpezar
  <2>2. (AlEmpezar => TInv)'
    BY TablasAlEmpezar, PTL
  <2> QED
    BY <2>1, <2>2
<1> QED
  BY <1>1, <1>2, <1>3, <1>4, <1>5, <1>6, <1>7, <1>8, <1>9, <1>10 DEF Next

(* The counts of the global table, at every moment. *)
LEMMA TablasSiempre == Spec => []TInv
<1>1. Init => TInv
  <2>1. Init => AlEmpezar
    BY DEF Init, AlEmpezar
  <2> QED
    BY <2>1, TablasAlEmpezar
<1>2. TInv /\ [Next]_vars => TInv'
  <2>1. ASSUME TInv, UNCHANGED vars PROVE TInv'
    BY <2>1, AtencionIgual DEF vars
  <2> QED
    BY <2>1, TablasPaso
<1> QED
  BY <1>1, <1>2, PTL DEF Spec

(* CuentaAbiertos for any number of programs, paths and messages: abiertos  *)
(* of global_fd is the number of entries of the programs, so cerrar_file    *)
(* takes an entry out when the last one closes and never before.            *)
THEOREM AbiertosExactos == Spec => []CuentaAbiertos
<1>1. TInv => CuentaAbiertos
  BY DEF TInv, Cuadran, CuentaAbiertos, Contadas, Abiertas, ContadasEn, AbiertasEn
<1> QED
  BY <1>1, TablasSiempre, PTL

-----------------------------------------------------------------------------
(* The inductive invariant of the disk, and of who waits for whom *)

Fases == {"espera", "validar", "crear", "armar", "cerrar", "borrar", "quitar", "leer",
          "guardar", "escribir", "salvar"}
Metadatos == [tam : Nat, bloques : Seq(Bloques)]
Pedidos == [pc : Fases, c : Caminos \cup {""}, off : Nat, size : Nat, sig : Nat, fis : Bloques,
            rem : 0 .. TBloques - 1, guardado : Nat, nuevos : Seq(Bloques), flag : {0, 1, 2}]

DiscoTipo ==
  /\ bitmap \subseteq Bloques
  /\ DOMAIN archivos \subseteq Caminos
  /\ archivos \in [DOMAIN archivos -> Metadatos]
  /\ fs \in Pedidos

EnCurso ==
  /\ fs.pc = "espera" => fs = Ocioso
  /\ fs.pc # "espera" => fs.c \in Caminos
  /\ fs.pc = "crear" => fs.c \notin DOMAIN archivos
  /\ fs.pc \in {"armar", "cerrar"} => fs.c \in DOMAIN archivos /\ archivos[fs.c] = SinMetadata
  /\ fs.pc \in {"quitar", "escribir", "salvar"} => fs.c \in DOMAIN archivos
  /\ fs.pc \notin {"cerrar", "escribir", "salvar"} => fs.nuevos = <<>>

(* what the Kernel waits for in each phase of FileSystem *)
Pide(pc) == IF pc = "quitar" THEN "borrar" ELSE IF pc \in {"escribir", "salvar"} THEN "guardar" ELSE pc
Pidiendo == Fases \ {"espera", "armar", "cerrar"}

Enlace ==
  /\ resp \in {"", "ok", "no", "lectura"}
  /\ fs.pc \in Pidiendo => atiende.pc = Pide(fs.pc) /\ atiende.c = fs.c /\ resp = ""
  /\ atiende.pc \in {"select", "mover"} => resp = ""
  /\ atiende.pc \notin {"select", "mover"} => resp # "" \/ fs.pc \in Pidiendo
  /\ fs.pc \in {"armar", "cerrar"} => atiende.pc \in {"select", "mover", "crear"}

Existe ==
  /\ atiende.pc = "validar" /\ resp = "ok" => atiende.c \in DOMAIN archivos
  /\ atiende.pc = "validar" /\ resp = "no" => atiende.c \notin DOMAIN archivos
  /\ atiende.pc = "crear" /\ resp = "ok" => atiende.c \in DOMAIN archivos
  /\ fs.pc \in {"borrar", "quitar"} => fs.c \in borrados

DInv == DiscoTipo /\ EnCurso
LInv == Enlace /\ Existe /\ TablaConArchivo

LEMMA DominioVacio == \A t : t = <<>> => DOMAIN t = {}
<1>1. <<>> \in Seq({}) /\ Len(<<>>) = 0
  OBVIOUS
<1>2. DOMAIN <<>> = 1 .. 0
  BY <1>1, LenProperties
<1> QED
  BY <1>2

LEMMA BloquesTipo ==
  /\ Bloques \subseteq Nat /\ 0 \in Bloques
  /\ TBloques \in Nat \ {0} /\ 0 \in 0 .. TBloques - 1
  /\ \A o \in Nat : o \div TBloques \in Nat /\ o % TBloques \in 0 .. TBloques - 1
BY SistemaOK DEF Bloques

(* verificar_bloque gives out a block whose bit is not set. *)
LEMMA BloqueLibre ==
  ASSUME bitmap \subseteq Bloques, NEW b \in VerificarBloque, b # -1
  PROVE  b \in Bloques \ bitmap
<1> DEFINE s == Bloques \ bitmap
<1>1. s \in SUBSET Nat
  BY BloquesTipo
<1>2. s # {} => Min(s) \in s
  BY <1>1, MinEsMinimo
<1> HIDE DEF Min
<1>3. b \in IF s = {} THEN {} ELSE {Min(s)}
  BY DEF VerificarBloque
<1> QED
  BY <1>2, <1>3

LEMMA OciosoTipo ==
  Ocioso \in Pedidos /\ Ocioso.pc = "espera" /\ Ocioso.nuevos = <<>> /\ Ocioso.guardado = 0
BY BloquesTipo DEF Ocioso, Pedidos, Fases

LEMMA EmpiezaDisco ==
  ASSUME DOMAIN archivos \subseteq Caminos, bitmap \subseteq Bloques,
         archivos \in [DOMAIN archivos -> Metadatos], fs = Ocioso
  PROVE  DInv
BY OciosoTipo DEF DInv, DiscoTipo, EnCurso

LEMMA TerminaPedido ==
  ASSUME DInv, bitmap' \subseteq Bloques, DOMAIN archivos' \subseteq Caminos,
         archivos' \in [DOMAIN archivos' -> Metadatos], fs' = Ocioso
  PROVE  DInv'
BY EmpiezaDisco, OciosoTipo DEF DInv, DiscoTipo, EnCurso

LEMMA ConMetadata ==
  ASSUME DInv, NEW c \in DOMAIN archivos, NEW m \in Metadatos, archivos' = [archivos EXCEPT ![c] = m]
  PROVE  /\ DOMAIN archivos' = DOMAIN archivos
         /\ archivos' \in [DOMAIN archivos' -> Metadatos]
         /\ archivos'[c] = m /\ \A d \in DOMAIN archivos \ {c} : archivos'[d] = archivos[d]
BY DEF DInv, DiscoTipo

LEMMA FsCrear ==
  ASSUME DInv, CrearArchivo
  PROVE  /\ DInv'
         /\ \/ UNCHANGED archivos /\ resp' = "no" /\ fs' = Ocioso
            \/ /\ DOMAIN archivos' = DOMAIN archivos \cup {fs.c} /\ archivos'[fs.c] = SinMetadata
               /\ \A c \in DOMAIN archivos : archivos'[c] = archivos[c]
               /\ resp' = "ok" /\ fs'.pc = "armar" /\ fs'.c = fs.c /\ fs'.nuevos = <<>>
<1>1. /\ fs.pc = "crear" /\ fs.c \in Caminos /\ fs.c \notin DOMAIN archivos /\ fs.nuevos = <<>>
      /\ fs \in Pedidos /\ bitmap' \subseteq Bloques
  BY DEF CrearArchivo, DInv, DiscoTipo, EnCurso
<1>2. CASE resp' = "no" /\ fs' = Ocioso /\ UNCHANGED archivos
  <2>1. DOMAIN archivos' \subseteq Caminos /\ archivos' \in [DOMAIN archivos' -> Metadatos]
    BY <1>2 DEF DInv, DiscoTipo
  <2> QED
    BY <1>1, <1>2, <2>1, TerminaPedido
<1>3. CASE /\ resp' = "ok" /\ fs' = [fs EXCEPT !.pc = "armar"]
           /\ archivos' = [c \in DOMAIN archivos \cup {fs.c} |->
                              IF c \in DOMAIN archivos THEN archivos[c] ELSE SinMetadata]
  <2>1. SinMetadata \in Metadatos
    BY DEF SinMetadata, Metadatos
  <2>2. /\ DOMAIN archivos' = DOMAIN archivos \cup {fs.c} /\ archivos'[fs.c] = SinMetadata
        /\ \A c \in DOMAIN archivos : archivos'[c] = archivos[c]
    BY <1>1, <1>3
  <2>3. DOMAIN archivos' \subseteq Caminos
    BY <1>1, <2>2 DEF DInv, DiscoTipo
  <2>4. archivos' \in [DOMAIN archivos' -> Metadatos]
    BY <1>3, <2>1, <2>2 DEF DInv, DiscoTipo
  <2>5. fs' \in Pedidos /\ fs'.pc = "armar" /\ fs'.c = fs.c /\ fs'.nuevos = <<>>
    BY <1>1, <1>3 DEF Pedidos, Fases
  <2>6. DInv'
    BY <1>1, <2>2, <2>3, <2>4, <2>5 DEF DInv, DiscoTipo, EnCurso
  <2> QED
    BY <1>3, <2>2, <2>5, <2>6
<1> QED
  BY <1>2, <1>3 DEF CrearArchivo

LEMMA FsArmar ==
  ASSUME DInv, ArmarArchivo
  PROVE  /\ DInv' /\ UNCHANGED archivos
         /\ \/ fs' = Ocioso /\ UNCHANGED bitmap
            \/ \E b \in Bloques \ bitmap : /\ bitmap' = bitmap \cup {b} /\ fs'.pc = "cerrar"
                                           /\ fs'.c = fs.c /\ fs'.nuevos = <<b>>
<1>1. /\ fs.pc = "armar" /\ fs.c \in Caminos /\ fs.c \in DOMAIN archivos
      /\ archivos[fs.c] = SinMetadata /\ fs.nuevos = <<>>
      /\ fs \in Pedidos /\ UNCHANGED archivos /\ bitmap \subseteq Bloques
  BY DEF ArmarArchivo, DInv, DiscoTipo, EnCurso
<1>2. CASE fs' = Ocioso /\ UNCHANGED bitmap
  <2>1. DOMAIN archivos' \subseteq Caminos /\ archivos' \in [DOMAIN archivos' -> Metadatos]
    BY <1>1 DEF DInv, DiscoTipo
  <2>2. DInv'
    BY <1>1, <1>2, <2>1, TerminaPedido
  <2> QED
    BY <1>1, <1>2, <2>2
<1>3. ASSUME NEW b \in VerificarBloque, b # -1, AgregarBloque(b),
             fs' = [fs EXCEPT !.pc = "cerrar", !.nuevos = <<b>>]
      PROVE  /\ DInv'
             /\ b \in Bloques \ bitmap /\ bitmap' = bitmap \cup {b} /\ fs'.pc = "cerrar"
             /\ fs'.c = fs.c /\ fs'.nuevos = <<b>>
  <2>1. b \in Bloques \ bitmap
    BY <1>1, <1>3, BloqueLibre
  <2>2. bitmap' = bitmap \cup {b}
    BY <1>3 DEF AgregarBloque
  <2>3. fs' \in Pedidos /\ fs'.pc = "cerrar" /\ fs'.c = fs.c /\ fs'.nuevos = <<b>>
    <3>1. PICK n : n = <<b>>
      OBVIOUS
    <3>2. n \in Seq(Bloques)
      BY <2>1, <3>1
    <3>3. fs' = [fs EXCEPT !.pc = "cerrar", !.nuevos = n]
      BY <1>3, <3>1
    <3>4. fs' \in Pedidos /\ fs'.pc = "cerrar" /\ fs'.c = fs.c /\ fs'.nuevos = n
      BY <1>1, <3>2, <3>3 DEF Pedidos, Fases
    <3> QED
      BY <3>1, <3>4
  <2>4. DInv'
    BY <1>1, <2>1, <2>2, <2>3 DEF DInv, DiscoTipo, EnCurso
  <2> QED
    BY <2>1, <2>2, <2>3, <2>4
<1> QED
  BY <1>1, <1>2, <1>3 DEF ArmarArchivo

LEMMA FsCerrar ==
  ASSUME DInv, CerrarArchivo
  PROVE  /\ DInv' /\ DOMAIN archivos' = DOMAIN archivos
         /\ fs.c \in DOMAIN archivos /\ archivos'[fs.c].bloques = fs.nuevos
         /\ \A c \in DOMAIN archivos \ {fs.c} : archivos'[c] = archivos[c]
<1>1. /\ fs.pc = "cerrar" /\ fs.c \in DOMAIN archivos /\ fs \in Pedidos /\ bitmap' \subseteq Bloques
      /\ fs' = Ocioso
      /\ archivos' = [archivos EXCEPT ![fs.c] = [tam |-> 0, bloques |-> fs.nuevos]]
  BY DEF CerrarArchivo, DInv, DiscoTipo, EnCurso
<1>2. PICK m : m = [tam |-> 0, bloques |-> fs.nuevos]
  OBVIOUS
<1>3. m \in Metadatos /\ m.bloques = fs.nuevos
  BY <1>1, <1>2 DEF Pedidos, Metadatos
<1>4. archivos' = [archivos EXCEPT ![fs.c] = m]
  BY <1>1, <1>2
<1>5. /\ DOMAIN archivos' = DOMAIN archivos
      /\ archivos' \in [DOMAIN archivos' -> Metadatos]
      /\ archivos'[fs.c] = m /\ \A d \in DOMAIN archivos \ {fs.c} : archivos'[d] = archivos[d]
  BY <1>1, <1>3, <1>4, ConMetadata
<1>6. DOMAIN archivos' \subseteq Caminos
  BY <1>5 DEF DInv, DiscoTipo
<1>7. DInv'
  BY <1>1, <1>5, <1>6, TerminaPedido
<1> QED
  BY <1>1, <1>3, <1>5, <1>7

LEMMA FsBorrar ==
  ASSUME DInv, BorrarArchivo
  PROVE  /\ DInv' /\ UNCHANGED archivos /\ fs.c \in DOMAIN archivos
         /\ fs'.pc = "quitar" /\ fs'.c = fs.c /\ fs'.nuevos = <<>>
         /\ bitmap' = bitmap \ ToSet(ListaDe(fs.c))
<1>1. /\ fs.pc = "borrar" /\ fs.c \in DOMAIN archivos /\ fs.c \in Caminos /\ fs \in Pedidos
      /\ fs.nuevos = <<>>
      /\ bitmap' = bitmap \ ToSet(ListaDe(fs.c)) /\ UNCHANGED archivos
      /\ fs' = [fs EXCEPT !.pc = "quitar"]
  BY DEF BorrarArchivo, Legible, DInv, DiscoTipo, EnCurso
<1>2. fs' \in Pedidos /\ fs'.pc = "quitar" /\ fs'.c = fs.c /\ fs'.nuevos = <<>>
  BY <1>1 DEF Pedidos, Fases
<1>3. DInv'
  BY <1>1, <1>2 DEF DInv, DiscoTipo, EnCurso
<1> QED
  BY <1>1, <1>2, <1>3

LEMMA FsQuitar ==
  ASSUME DInv, QuitarArchivo
  PROVE  /\ DInv' /\ UNCHANGED bitmap /\ DOMAIN archivos' = DOMAIN archivos \ {fs.c}
         /\ \A c \in DOMAIN archivos \ {fs.c} : archivos'[c] = archivos[c]
<1>1. /\ UNCHANGED bitmap /\ fs' = Ocioso
      /\ archivos' = [c \in DOMAIN archivos \ {fs.c} |-> archivos[c]]
  BY DEF QuitarArchivo, Restrict
<1>2. /\ DOMAIN archivos' = DOMAIN archivos \ {fs.c}
      /\ \A c \in DOMAIN archivos \ {fs.c} : archivos'[c] = archivos[c]
  BY <1>1
<1>3. /\ DOMAIN archivos' \subseteq Caminos /\ archivos' \in [DOMAIN archivos' -> Metadatos]
      /\ bitmap' \subseteq Bloques
  BY <1>1, <1>2 DEF DInv, DiscoTipo
<1>4. DInv'
  BY <1>1, <1>3, TerminaPedido
<1> QED
  BY <1>1, <1>2, <1>4

(* A block for a write: it was free, and it is the last of the new ones.    *)
LEMMA FsAgregado ==
  ASSUME DInv, NEW b \in VerificarBloque, b # -1, AgregarBloque(b), UNCHANGED archivos,
         fs.pc \in {"guardar", "escribir"}, fs.c \in DOMAIN archivos,
         NEW flag \in {1, 2}, NEW lleva \in Nat,
         fs' = [Agregado(b, flag) EXCEPT !.guardado = lleva]
  PROVE  /\ DInv'
         /\ b \in Bloques \ bitmap /\ bitmap' = bitmap \cup {b}
         /\ fs'.pc = "escribir" /\ fs'.c = fs.c /\ fs'.nuevos = Append(fs.nuevos, b)
         /\ fs'.off = fs.off /\ fs'.size = fs.size /\ fs'.sig = b /\ fs'.fis = b /\ fs'.rem = 0
         /\ fs'.flag = flag /\ fs'.guardado = lleva
<1>1. fs \in Pedidos /\ fs.nuevos \in Seq(Bloques) /\ bitmap \subseteq Bloques
  BY DEF DInv, DiscoTipo, Pedidos
<1>2. b \in Bloques \ bitmap /\ bitmap' = bitmap \cup {b}
  BY <1>1, BloqueLibre DEF AgregarBloque
<1>3. PICK n : n = Append(fs.nuevos, b)
  OBVIOUS
<1>4. n \in Seq(Bloques) /\ b \in Nat
  BY <1>1, <1>2, <1>3, AppendProperties, BloquesTipo
<1>5. fs' = [fs EXCEPT !.pc = "escribir", !.sig = b, !.fis = b, !.rem = 0,
                       !.nuevos = n, !.flag = flag, !.guardado = lleva]
  BY <1>3 DEF Agregado
<1>6. /\ fs' \in Pedidos
      /\ fs'.pc = "escribir" /\ fs'.c = fs.c /\ fs'.nuevos = n
      /\ fs'.off = fs.off /\ fs'.size = fs.size /\ fs'.sig = b /\ fs'.fis = b /\ fs'.rem = 0
      /\ fs'.flag = flag /\ fs'.guardado = lleva
  BY <1>1, <1>2, <1>4, <1>5, BloquesTipo DEF Pedidos, Fases
<1>7. DInv'
  BY <1>2, <1>6 DEF DInv, DiscoTipo, EnCurso
<1> QED
  BY <1>2, <1>3, <1>6, <1>7

LEMMA FsSinLugar ==
  ASSUME DInv, UNCHANGED <<bitmap, archivos>>, fs.pc \in {"guardar", "escribir"},
         fs.c \in DOMAIN archivos, fs' = SinLugar
  PROVE  /\ DInv'
         /\ fs'.pc = "salvar" /\ fs'.c = fs.c /\ fs'.nuevos = fs.nuevos
         /\ fs'.off = fs.off /\ fs'.size = fs.size /\ fs'.guardado = fs.size + 1
<1>1. fs \in Pedidos /\ fs.size + 1 \in Nat
  <2>1. fs \in Pedidos
    BY DEF DInv, DiscoTipo
  <2>2. fs.size \in Nat
    BY <2>1 DEF Pedidos
  <2> QED
    BY <2>1, <2>2
<1>2. PICK n : n = fs.size + 1
  OBVIOUS
<1>3. fs' = [fs EXCEPT !.guardado = n, !.pc = "salvar"]
  BY <1>2 DEF SinLugar
<1>4. /\ fs' \in Pedidos
      /\ fs'.pc = "salvar" /\ fs'.c = fs.c /\ fs'.nuevos = fs.nuevos
      /\ fs'.off = fs.off /\ fs'.size = fs.size /\ fs'.guardado = n
  BY <1>1, <1>2, <1>3 DEF Pedidos, Fases
<1>5. DInv'
  BY <1>4 DEF DInv, DiscoTipo, EnCurso
<1> QED
  BY <1>2, <1>4, <1>5

LEMMA PedidoCampos ==
  ASSUME DInv
  PROVE  /\ fs \in Pedidos
         /\ fs.off \in Nat /\ fs.size \in Nat /\ fs.sig \in Nat /\ fs.fis \in Bloques
         /\ fs.rem \in 0 .. TBloques - 1 /\ fs.guardado \in Nat /\ fs.nuevos \in Seq(Bloques)
         /\ fs.pc \in Fases
<1>1. fs \in Pedidos
  BY DEF DInv, DiscoTipo
<1> QED
  BY <1>1 DEF Pedidos

LEMMA ListaTipo ==
  ASSUME DInv, NEW c \in DOMAIN archivos
  PROVE  /\ archivos[c] \in Metadatos /\ archivos[c].tam \in Nat
         /\ ListaDe(c) \in Seq(Bloques) /\ Len(ListaDe(c)) \in Nat
         /\ \A i \in 1 .. Len(ListaDe(c)) : ListaDe(c)[i] \in Bloques
<1>1. archivos[c] \in Metadatos
  BY DEF DInv, DiscoTipo
<1>2. ListaDe(c) \in Seq(Bloques) /\ archivos[c].tam \in Nat
  BY <1>1 DEF Metadatos, ListaDe
<1> QED
  BY <1>1, <1>2, LenProperties, ElementOfSeq

(* the three ways a write goes on *)
SinLugarEn == /\ UNCHANGED bitmap /\ fs' = SinLugar
              /\ fs'.pc = "salvar" /\ fs'.c = fs.c /\ fs'.nuevos = fs.nuevos
              /\ fs'.off = fs.off /\ fs'.size = fs.size /\ fs'.guardado = fs.size + 1
BloqueNuevo(lleva) ==
  \E b \in Bloques \ bitmap :
    /\ bitmap' = bitmap \cup {b}
    /\ fs'.pc = "escribir" /\ fs'.c = fs.c /\ fs'.nuevos = Append(fs.nuevos, b)
    /\ fs'.off = fs.off /\ fs'.size = fs.size /\ fs'.sig = b /\ fs'.fis = b /\ fs'.rem = 0
    /\ fs'.guardado = lleva
DelArchivo(i, rem, lleva) ==
  /\ UNCHANGED bitmap /\ i \in Nat /\ i < Len(ListaDe(fs.c))
  /\ fs'.pc = "escribir" /\ fs'.c = fs.c /\ fs'.nuevos = fs.nuevos
  /\ fs'.off = fs.off /\ fs'.size = fs.size /\ fs'.sig = i /\ fs'.fis = ListaDe(fs.c)[i + 1]
  /\ fs'.rem = rem /\ fs'.guardado = lleva

LEMMA FsGuardar ==
  ASSUME DInv, GuardarDatos
  PROVE  /\ DInv' /\ UNCHANGED archivos
         /\ fs.c \in DOMAIN archivos /\ Len(ListaDe(fs.c)) \in Nat /\ fs.nuevos = <<>>
         /\ \/ SinLugarEn
            \/ fs.off \div TBloques >= Len(ListaDe(fs.c)) /\ BloqueNuevo(fs.guardado)
            \/ DelArchivo(fs.off \div TBloques, fs.off % TBloques, fs.guardado)
<1>1. /\ fs.pc = "guardar" /\ fs.c \in DOMAIN archivos /\ fs.c \in Caminos /\ fs.nuevos = <<>>
      /\ UNCHANGED archivos
  BY DEF GuardarDatos, Legible, DInv, EnCurso
<1>2. /\ fs \in Pedidos /\ fs.off \in Nat /\ fs.guardado \in Nat /\ Len(ListaDe(fs.c)) \in Nat
      /\ \A i \in 1 .. Len(ListaDe(fs.c)) : ListaDe(fs.c)[i] \in Bloques
  BY <1>1, PedidoCampos, ListaTipo
<1>3. PICK q : q = fs.off \div TBloques
  OBVIOUS
<1>4. q \in Nat /\ fs.off % TBloques \in 0 .. TBloques - 1
  BY <1>2, <1>3, BloquesTipo
<1>5. CASE fs' = SinLugar /\ UNCHANGED bitmap
  BY <1>1, <1>2, <1>5, FsSinLugar DEF SinLugarEn
<1>6. ASSUME NEW b \in VerificarBloque, b # -1, AgregarBloque(b), fs' = Agregado(b, 1),
             q >= Len(ListaDe(fs.c))
      PROVE  DInv' /\ BloqueNuevo(fs.guardado)
  <2>1. PICK lleva \in Nat : lleva = fs.guardado
    BY <1>2
  <2>2. fs' = [Agregado(b, 1) EXCEPT !.guardado = lleva]
    BY <1>2, <1>6, <2>1 DEF Agregado, Pedidos
  <2>3. 1 \in {1, 2} /\ fs.pc \in {"guardar", "escribir"}
    BY <1>1
  <2> QED
    BY <1>1, <1>6, <2>1, <2>2, <2>3, FsAgregado DEF BloqueNuevo
<1>7. ASSUME q < Len(ListaDe(fs.c)), UNCHANGED bitmap,
             fs' = [fs EXCEPT !.pc = "escribir", !.sig = q, !.fis = ListaDe(fs.c)[q + 1],
                              !.rem = fs.off % TBloques]
      PROVE  DInv' /\ DelArchivo(fs.off \div TBloques, fs.off % TBloques, fs.guardado)
  <2>1. PICK f, r : f = ListaDe(fs.c)[q + 1] /\ r = fs.off % TBloques
    OBVIOUS
  <2>2. q + 1 \in 1 .. Len(ListaDe(fs.c))
    BY <1>2, <1>4, <1>7
  <2>3. f \in Bloques /\ r \in 0 .. TBloques - 1
    BY <1>2, <1>4, <2>1, <2>2
  <2>4. fs' = [fs EXCEPT !.pc = "escribir", !.sig = q, !.fis = f, !.rem = r]
    BY <1>7, <2>1
  <2>5. /\ fs' \in Pedidos /\ fs'.pc = "escribir" /\ fs'.c = fs.c /\ fs'.nuevos = fs.nuevos
        /\ fs'.off = fs.off /\ fs'.size = fs.size /\ fs'.sig = q /\ fs'.fis = f
        /\ fs'.rem = r /\ fs'.guardado = fs.guardado
    BY <1>2, <1>4, <2>3, <2>4 DEF Pedidos, Fases
  <2>6. DInv'
    BY <1>1, <1>7, <2>5 DEF DInv, DiscoTipo, EnCurso
  <2> QED
    BY <1>3, <1>4, <1>7, <2>1, <2>5, <2>6 DEF DelArchivo
<1> QED
  BY <1>1, <1>2, <1>3, <1>5, <1>6, <1>7 DEF GuardarDatos

LEMMA FsResto ==
  ASSUME DInv, EscribirResto
  PROVE  /\ DInv' /\ UNCHANGED <<bitmap, archivos>> /\ fs.c \in DOMAIN archivos
         /\ fs'.pc = "salvar" /\ fs'.c = fs.c /\ fs'.nuevos = fs.nuevos
         /\ fs'.off = fs.off /\ fs'.size = fs.size /\ fs'.guardado = fs.size
         /\ fs'.flag = IF Dentro THEN 2 ELSE 1
<1>1. /\ fs.pc = "escribir" /\ fs.c \in DOMAIN archivos /\ fs.c \in Caminos
      /\ UNCHANGED <<bitmap, archivos>>
      /\ fs' = [fs EXCEPT !.guardado = fs.size, !.flag = IF Dentro THEN 2 ELSE 1, !.pc = "salvar"]
  BY DEF EscribirResto, DInv, EnCurso
<1>2. PICK n \in {1, 2} : n = IF Dentro THEN 2 ELSE 1
  OBVIOUS
<1>3. fs' = [fs EXCEPT !.guardado = fs.size, !.flag = n, !.pc = "salvar"]
  BY <1>1, <1>2
<1>4. /\ fs' \in Pedidos
      /\ fs'.pc = "salvar" /\ fs'.c = fs.c /\ fs'.nuevos = fs.nuevos
      /\ fs'.off = fs.off /\ fs'.size = fs.size /\ fs'.guardado = fs.size /\ fs'.flag = n
  BY <1>3, PedidoCampos DEF Pedidos, Fases
<1>5. DInv'
  BY <1>1, <1>4 DEF DInv, DiscoTipo, EnCurso
<1> QED
  BY <1>1, <1>2, <1>4, <1>5

Lleva == fs.guardado + TBloques - fs.rem

LEMMA FsBloque ==
  ASSUME DInv, EscribirBloque
  PROVE  /\ DInv' /\ UNCHANGED archivos
         /\ fs.c \in DOMAIN archivos /\ Len(ListaDe(fs.c)) \in Nat
         /\ \/ roto' /\ UNCHANGED <<bitmap, fs>>
            \/ SinLugarEn
            \/ (Dentro => fs.sig + 1 = Len(ListaDe(fs.c))) /\ BloqueNuevo(Lleva)
            \/ Dentro /\ DelArchivo(fs.sig + 1, 0, Lleva)
<1>1. /\ fs.pc = "escribir" /\ fs.c \in DOMAIN archivos /\ fs.c \in Caminos /\ UNCHANGED archivos
  BY DEF EscribirBloque, DInv, EnCurso
<1>2. /\ fs \in Pedidos /\ Len(ListaDe(fs.c)) \in Nat /\ fs.sig \in Nat
      /\ fs.guardado \in Nat /\ fs.rem \in 0 .. TBloques - 1
      /\ \A i \in 1 .. Len(ListaDe(fs.c)) : ListaDe(fs.c)[i] \in Bloques
  BY <1>1, PedidoCampos, ListaTipo
<1>3. PICK lleva \in Nat : lleva = Lleva
  <2>1. TBloques \in Nat
    BY BloquesTipo
  <2>2. fs.guardado + TBloques - fs.rem \in Nat
    BY <1>2, <2>1
  <2> QED
    BY <2>2 DEF Lleva
<1>4. CASE UNCHANGED <<bitmap, fs>> /\ roto' = TRUE
  BY <1>1, <1>2, <1>4 DEF DInv, DiscoTipo, EnCurso
<1>5. CASE fs' = SinLugar /\ UNCHANGED bitmap
  BY <1>1, <1>2, <1>5, FsSinLugar DEF SinLugarEn
<1>6. ASSUME NEW b \in VerificarBloque, b # -1, AgregarBloque(b),
             fs' = [Agregado(b, IF Dentro THEN 2 ELSE 1) EXCEPT !.guardado = lleva]
      PROVE  DInv' /\ BloqueNuevo(Lleva)
  <2>1. PICK n \in {1, 2} : n = IF Dentro THEN 2 ELSE 1
    OBVIOUS
  <2>2. fs' = [Agregado(b, n) EXCEPT !.guardado = lleva] /\ fs.pc \in {"guardar", "escribir"}
    BY <1>1, <1>6, <2>1
  <2> QED
    BY <1>1, <1>3, <1>6, <2>2, FsAgregado DEF BloqueNuevo
<1>7. ASSUME fs.sig + 1 < Len(ListaDe(fs.c)), UNCHANGED bitmap, fs' = Siguiente(lleva)
      PROVE  DInv' /\ DelArchivo(fs.sig + 1, 0, Lleva)
  <2>1. PICK f, i : f = ListaDe(fs.c)[fs.sig + 2] /\ i = fs.sig + 1
    OBVIOUS
  <2>2. fs.sig + 2 \in 1 .. Len(ListaDe(fs.c)) /\ i \in Nat /\ fs.sig + 2 = i + 1
    BY <1>2, <1>7, <2>1
  <2>3. f \in Bloques /\ 0 \in 0 .. TBloques - 1
    BY <1>2, <2>1, <2>2, BloquesTipo
  <2>4. fs' = [fs EXCEPT !.guardado = lleva, !.sig = i, !.fis = f, !.rem = 0, !.flag = 2]
    BY <1>7, <2>1 DEF Siguiente
  <2>5. /\ fs' \in Pedidos /\ fs'.pc = "escribir" /\ fs'.c = fs.c /\ fs'.nuevos = fs.nuevos
        /\ fs'.off = fs.off /\ fs'.size = fs.size /\ fs'.sig = i /\ fs'.fis = f
        /\ fs'.rem = 0 /\ fs'.guardado = lleva
    BY <1>1, <1>2, <2>2, <2>3, <2>4 DEF Pedidos, Fases
  <2>6. DInv'
    BY <1>1, <1>7, <2>5 DEF DInv, DiscoTipo, EnCurso
  <2> QED
    BY <1>3, <1>7, <2>1, <2>2, <2>5, <2>6 DEF DelArchivo
<1> QED
  BY <1>1, <1>2, <1>3, <1>4, <1>5, <1>6, <1>7 DEF EscribirBloque, Lleva

TamNuevo ==
  CASE fs.flag = 0 -> archivos[fs.c].tam
    [] fs.flag = 1 -> archivos[fs.c].tam + fs.size
    [] OTHER -> fs.off + fs.size

LEMMA FsSalvar ==
  ASSUME DInv, Salvar
  PROVE  /\ DInv' /\ UNCHANGED bitmap /\ fs.c \in DOMAIN archivos /\ fs' = Ocioso
         /\ DOMAIN archivos' = DOMAIN archivos
         /\ archivos'[fs.c].bloques = ListaDe(fs.c) \o fs.nuevos /\ archivos'[fs.c].tam = TamNuevo
         /\ \A c \in DOMAIN archivos \ {fs.c} : archivos'[c] = archivos[c]
<1>1. /\ fs.pc = "salvar" /\ fs.c \in DOMAIN archivos /\ bitmap' \subseteq Bloques
      /\ UNCHANGED bitmap /\ fs' = Ocioso
  BY DEF Salvar, DInv, DiscoTipo, EnCurso
<1>2. PICK t, q : t = TamNuevo /\ q = ListaDe(fs.c) \o fs.nuevos
  OBVIOUS
<1>3. t \in Nat
  BY <1>1, <1>2, PedidoCampos, ListaTipo DEF TamNuevo
<1>4. q \in Seq(Bloques)
  BY <1>1, <1>2, PedidoCampos, ListaTipo, ConcatProperties
<1>5. PICK m : m = [tam |-> t, bloques |-> q]
  OBVIOUS
<1>6. m \in Metadatos /\ m.tam = t /\ m.bloques = q
  BY <1>3, <1>4, <1>5 DEF Metadatos
<1>7. archivos' = [archivos EXCEPT ![fs.c] = m]
  BY <1>2, <1>5 DEF Salvar, TamNuevo, ListaDe
<1>8. /\ DOMAIN archivos' = DOMAIN archivos
      /\ archivos' \in [DOMAIN archivos' -> Metadatos]
      /\ archivos'[fs.c] = m /\ \A d \in DOMAIN archivos \ {fs.c} : archivos'[d] = archivos[d]
  BY <1>1, <1>6, <1>7, ConMetadata
<1>9. DOMAIN archivos' \subseteq Caminos
  BY <1>8 DEF DInv, DiscoTipo
<1>10. DInv'
  BY <1>1, <1>8, <1>9, TerminaPedido
<1> QED
  BY <1>1, <1>2, <1>6, <1>8, <1>10

LEMMA FsSoloResponde ==
  ASSUME DInv, UNCHANGED <<bitmap, archivos>>, fs' = Ocioso
  PROVE  DInv'
<1>1. /\ bitmap' \subseteq Bloques /\ DOMAIN archivos' \subseteq Caminos
      /\ archivos' \in [DOMAIN archivos' -> Metadatos]
  BY DEF DInv, DiscoTipo
<1> QED
  BY <1>1, TerminaPedido

LEMMA DiscoIgual ==
  ASSUME DInv, UNCHANGED <<bitmap, archivos, fs>>
  PROVE  DInv'
BY DEF DInv, DiscoTipo, EnCurso

LEMMA DiscoServir ==
  ASSUME DInv, Servir
  PROVE  DInv'
<1>1. CASE ValidarArchivo
  BY <1>1, FsSoloResponde DEF ValidarArchivo, disco
<1>2. CASE ObtenerDatos
  <2>1. UNCHANGED <<bitmap, archivos>> /\ (fs' = Ocioso \/ fs' = fs)
    BY <1>2 DEF ObtenerDatos, disco
  <2> QED
    BY <2>1, FsSoloResponde, DiscoIgual
<1>3. CASE SinArchivo
  BY <1>3, DiscoIgual DEF SinArchivo, disco
<1> QED
  BY <1>1, <1>2, <1>3, FsCrear, FsArmar, FsCerrar, FsBorrar, FsQuitar, FsGuardar, FsResto,
     FsBloque, FsSalvar
  DEF Servir

-----------------------------------------------------------------------------
(* What the Kernel does to FileSystem: at most, it sends a request *)

Peticion(pc, c, off, size) == [Ocioso EXCEPT !.pc = pc, !.c = c, !.off = off, !.size = size]

Envia ==
  /\ fs = Ocioso /\ fs' \in Pedidos
  /\ fs'.pc \in {"validar", "crear", "borrar", "leer", "guardar"} /\ fs'.c \in Caminos
  /\ fs'.nuevos = <<>> /\ fs'.guardado = 0
  /\ fs'.pc = "crear" => fs'.c \notin DOMAIN archivos
DelKernel == UNCHANGED <<disco, roto, historia>> /\ (UNCHANGED fs \/ Envia)

LEMMA PeticionTipo ==
  ASSUME NEW pc \in Fases, NEW c \in Caminos, NEW off \in Nat, NEW size \in Nat
  PROVE  /\ Peticion(pc, c, off, size) \in Pedidos
         /\ Peticion(pc, c, off, size).pc = pc /\ Peticion(pc, c, off, size).c = c
         /\ Peticion(pc, c, off, size).off = off /\ Peticion(pc, c, off, size).size = size
         /\ Peticion(pc, c, off, size).nuevos = <<>> /\ Peticion(pc, c, off, size).guardado = 0
<1>1. PICK o : o = Ocioso
  OBVIOUS
<1>2. o \in Pedidos /\ o.nuevos = <<>> /\ o.guardado = 0
  BY <1>1, OciosoTipo
<1>3. PICK m : m = [o EXCEPT !.pc = pc, !.c = c, !.off = off, !.size = size]
  OBVIOUS
<1>4. /\ m \in Pedidos /\ m.pc = pc /\ m.c = c /\ m.off = off /\ m.size = size
      /\ m.nuevos = <<>> /\ m.guardado = 0
  BY <1>2, <1>3 DEF Pedidos
<1>5. m = Peticion(pc, c, off, size)
  BY <1>1, <1>3 DEF Peticion
<1> QED
  BY <1>4, <1>5

LEMMA DiscoDelKernel ==
  ASSUME DInv, DelKernel
  PROVE  DInv'
<1>1. UNCHANGED <<bitmap, archivos>>
  BY DEF DelKernel, disco
<1>2. CASE UNCHANGED fs
  BY <1>1, <1>2, DiscoIgual
<1>3. CASE Envia
  BY <1>1, <1>3 DEF Envia, DInv, DiscoTipo, EnCurso
<1> QED
  BY <1>2, <1>3 DEF DelKernel

LEMMA ConPedir ==
  ASSUME DInv, NEW pc \in {"validar", "borrar", "leer", "guardar"}, NEW c \in Caminos,
         NEW off \in Nat, NEW size \in Nat, Pedir(pc, c, off, size)
  PROVE  /\ DelKernel /\ fs = Ocioso /\ fs'.pc = pc /\ fs'.c = c /\ UNCHANGED <<disco, resp>>
<1>1. fs = Ocioso /\ UNCHANGED <<disco, resp, roto, historia>>
  BY DEF Pedir, DInv, EnCurso
<1>2. PICK m : m = Peticion(pc, c, off, size)
  OBVIOUS
<1>3. m \in Pedidos /\ m.pc = pc /\ m.c = c /\ m.nuevos = <<>> /\ m.guardado = 0
  BY <1>2, PeticionTipo DEF Fases
<1>4. fs' = m
  BY <1>2 DEF Pedir, Peticion
<1>5. Envia
  BY <1>1, <1>3, <1>4 DEF Envia
<1> QED
  BY <1>1, <1>3, <1>4, <1>5 DEF DelKernel

(* Nothing but the paths of the table counts for TablaConArchivo.           *)
LEMMA TablaIgual ==
  ASSUME TInv, TInv', TablaConArchivo, borrados \subseteq borrados',
         DOMAIN archivos' = DOMAIN archivos,
         \A i \in 1 .. Len(tag') : \E h \in 1 .. Len(tag) : tag'[i].c = tag[h].c
  PROVE  TablaConArchivo'
<1>1. DOMAIN tag = 1 .. Len(tag) /\ DOMAIN tag' = 1 .. Len(tag')
  BY LenProperties DEF TInv, TablasTipo
<1> QED
  BY <1>1 DEF TablaConArchivo

LEMMA EnlaceConsulta ==
  ASSUME TInv, TInv', DInv, LInv, NEW p \in Pids, NEW fd, Tiene(p, fd),
         NEW pc \in {"guardar", "leer", "borrar"}, NEW off \in Nat, NEW size \in Nat,
         Consulta(p, pc, GetPath(fd), off, size), atiende.pc \in {"select", "mover"},
         UNCHANGED tag, borrados \subseteq borrados', pc = "borrar" => GetPath(fd) \in borrados'
  PROVE  LInv' /\ DelKernel
<1>1. PICK c \in Caminos : c = GetPath(fd)
  BY CaminoTipo
<1>2. Pedir(pc, c, off, size) /\ atiende' = [EnSelect EXCEPT !.pc = pc, !.pid = p, !.c = c]
  BY <1>1 DEF Consulta
<1>3. /\ DelKernel /\ fs'.pc = pc /\ fs'.c = c /\ UNCHANGED <<disco, resp>>
  BY <1>2, ConPedir
<1>4. atiende'.pc = pc /\ atiende'.c = c
  BY <1>2 DEF EnSelect
<1>5. Enlace'
  BY <1>3, <1>4 DEF LInv, Enlace, Pide, Pidiendo, Fases
<1>6. Existe'
  BY <1>1, <1>3, <1>4 DEF Existe
<1>7. TablaConArchivo'
  BY <1>3, TablaIgual DEF LInv, disco
<1> QED
  BY <1>3, <1>5, <1>6, <1>7 DEF LInv

LEMMA EnlaceResponde ==
  ASSUME TInv, TInv', LInv, UNCHANGED fsVars, UNCHANGED borrados,
         atiende.pc \in {"select", "mover"}, atiende'.pc \in {"select", "mover"},
         \A i \in 1 .. Len(tag') : \E h \in 1 .. Len(tag) : tag'[i].c = tag[h].c
  PROVE  LInv' /\ DelKernel
<1>1. UNCHANGED <<disco, archivos, fs, resp, roto, historia>>
  BY DEF fsVars, disco
<1>2. Enlace'
  BY <1>1 DEF LInv, Enlace, Pide, Pidiendo, Fases
<1>3. Existe'
  BY <1>1 DEF LInv, Existe
<1>4. TablaConArchivo'
  BY <1>1, TablaIgual DEF LInv
<1> QED
  BY <1>1, <1>2, <1>3, <1>4 DEF LInv, DelKernel

LEMMA EnlaceEscribirLeer ==
  ASSUME TInv, TInv', DInv, LInv, NEW p \in Pids, NEW fd, Tiene(p, fd),
         NEW pc \in {"guardar", "leer"}, NEW off \in Nat, NEW size \in Nat,
         EscribirLeer(p, pc, fd, off, size), atiende.pc \in {"select", "mover"},
         UNCHANGED <<tag, borrados>>
  PROVE  LInv' /\ DelKernel
<1>1. CASE Consulta(p, pc, GetPath(fd), off, size)
  <2>1. pc \in {"guardar", "leer", "borrar"} /\ pc # "borrar"
    OBVIOUS
  <2> QED
    BY <1>1, <2>1, EnlaceConsulta
<1>2. CASE Responde(p, "error") /\ UNCHANGED fsVars
  <2>1. atiende'.pc \in {"select", "mover"}
    BY <1>2 DEF Responde, EnSelect
  <2> QED
    BY <1>2, <2>1, EnlaceResponde
<1> QED
  BY <1>1, <1>2 DEF EscribirLeer

LEMMA EnlaceAbrirCrear ==
  ASSUME TInv, TInv', DInv, LInv, NEW p \in Pids, NEW c \in Caminos, NEW permisos \in Permisos,
         AbrirCrear(p, c, permisos)
  PROVE  LInv' /\ DelKernel
<1>1. /\ atiende = EnSelect /\ Pedir("validar", c, 0, 0) /\ UNCHANGED <<tag, borrados>>
      /\ atiende' = [EnSelect EXCEPT !.pc = "validar", !.pid = p, !.c = c, !.permisos = permisos]
  BY DEF AbrirCrear, Mensaje
<1>2. /\ DelKernel /\ fs'.pc = "validar" /\ fs'.c = c /\ UNCHANGED <<disco, resp>>
  BY <1>1, ConPedir
<1>3. atiende'.pc = "validar" /\ atiende'.c = c /\ atiende.pc = "select"
  BY <1>1 DEF EnSelect
<1>4. Enlace'
  BY <1>2, <1>3 DEF LInv, Enlace, Pide, Pidiendo, Fases
<1>5. Existe'
  BY <1>2, <1>3, <1>4 DEF LInv, Enlace, Existe
<1>6. TablaConArchivo'
  BY <1>1, <1>2, TablaIgual DEF LInv, disco
<1> QED
  BY <1>2, <1>4, <1>5, <1>6 DEF LInv

(* What abrir_archivo adds to the table exists. *)
LEMMA TablaConUnoMas ==
  ASSUME TInv, TInv', TablaConArchivo, NEW c \in DOMAIN archivos,
         UNCHANGED archivos, borrados \ {c} \subseteq borrados',
         \A k \in 1 .. Len(tag') : tag'[k].c = c \/ \E j \in 1 .. Len(tag) : tag'[k].c = tag[j].c
  PROVE  TablaConArchivo'
<1>1. DOMAIN tag = 1 .. Len(tag) /\ DOMAIN tag' = 1 .. Len(tag')
  BY LenProperties DEF TInv, TablasTipo
<1> QED
  BY <1>1 DEF TablaConArchivo

LEMMA EnlaceRespuestaAbrir ==
  ASSUME TInv, TInv', DInv, LInv, RespuestaAbrir
  PROVE  LInv' /\ DelKernel
<1>1. /\ atiende.pc = "validar" /\ resp # "" /\ resp' = "" /\ UNCHANGED <<disco, roto, historia, borrados>>
      /\ UNCHANGED archivos
  BY DEF RespuestaAbrir, disco
<1>2. /\ TablasTipo /\ Cuadran(tag, tap) /\ Len(tag) < MaxTag
      /\ atiende.pid \in Pids /\ atiende.c \in Caminos /\ atiende.permisos \in Permisos
      /\ atiende \in Atenciones
  BY <1>1 DEF TInv, AtencionTipo
<1>3. fs.pc = "espera" /\ fs = Ocioso
  <2>1. fs.pc \notin Pidiendo /\ fs.pc \notin {"armar", "cerrar"} /\ fs.pc \in Fases
    BY <1>1, PedidoCampos DEF LInv, Enlace
  <2>2. fs.pc = "espera"
    BY <2>1 DEF Pidiendo
  <2> QED
    BY <2>2 DEF DInv, EnCurso
<1>4. CASE /\ resp = "ok" /\ UNCHANGED fs /\ Responde(atiende.pid, "corre")
           /\ AbrirArchivo(atiende.pid, atiende.c, atiende.permisos)
  <2>1. atiende'.pc = "select"
    BY <1>4 DEF Responde, EnSelect
  <2>2. Enlace' /\ Existe'
    BY <1>1, <1>3, <1>4, <2>1 DEF Enlace, Existe, Pidiendo
  <2>3. atiende.c \in DOMAIN archivos
    BY <1>1, <1>4 DEF LInv, Existe
  <2>4. \A k \in 1 .. Len(tag') : tag'[k].c = atiende.c
                                    \/ \E j \in 1 .. Len(tag) : tag'[k].c = tag[j].c
    BY <1>2, <1>4, AbrirTablas
  <2>5. TablaConArchivo'
    BY <1>1, <2>3, <2>4, TablaConUnoMas DEF LInv
  <2> QED
    BY <1>1, <1>4, <2>2, <2>5 DEF LInv, DelKernel
<1>5. CASE /\ resp = "no" /\ fs' = [Ocioso EXCEPT !.pc = "crear", !.c = atiende.c]
           /\ atiende' = [atiende EXCEPT !.pc = "crear"] /\ UNCHANGED <<tag, tap, prog>>
  <2>1. atiende'.pc = "crear" /\ atiende'.c = atiende.c
    BY <1>2, <1>5 DEF Atenciones
  <2>2. /\ fs' \in Pedidos /\ fs'.pc = "crear" /\ fs'.c = atiende.c
        /\ fs'.nuevos = <<>> /\ fs'.guardado = 0
    <3>1. PICK o : o = Ocioso
      OBVIOUS
    <3>2. o \in Pedidos /\ o.nuevos = <<>> /\ o.guardado = 0
      BY <3>1, OciosoTipo
    <3>3. fs' = [o EXCEPT !.pc = "crear", !.c = atiende.c]
      BY <1>5, <3>1
    <3> QED
      BY <1>2, <3>2, <3>3 DEF Pedidos, Fases
  <2>3. atiende.c \notin DOMAIN archivos
    BY <1>1, <1>5 DEF LInv, Existe
  <2>4. DelKernel
    BY <1>1, <1>2, <1>3, <2>2, <2>3 DEF DelKernel, Envia
  <2>5. Enlace' /\ Existe'
    BY <1>1, <2>1, <2>2 DEF Enlace, Existe, Pide, Pidiendo, Fases
  <2>6. TablaConArchivo'
    BY <1>1, <1>5 DEF LInv, TablaConArchivo
  <2> QED
    BY <2>4, <2>5, <2>6 DEF LInv
<1>6. CASE Responde(atiende.pid, "corre") /\ UNCHANGED <<fs, tag, tap>>
  <2>1. atiende'.pc = "select"
    BY <1>6 DEF Responde, EnSelect
  <2>2. Enlace' /\ Existe'
    BY <1>1, <1>3, <1>6, <2>1 DEF Enlace, Existe, Pidiendo
  <2>3. TablaConArchivo'
    BY <1>1, <1>6 DEF LInv, TablaConArchivo
  <2> QED
    BY <1>1, <1>6, <2>2, <2>3 DEF LInv, DelKernel
<1> QED
  BY <1>4, <1>5, <1>6 DEF RespuestaAbrir

(* crear_archivo has answered; FileSystem may still be in armar_archivo.    *)
LEMMA EnlaceRespuestaCrear ==
  ASSUME TInv, TInv', DInv, LInv, RespuestaCrear
  PROVE  LInv' /\ DelKernel
<1>1. /\ atiende.pc = "crear" /\ resp # "" /\ resp' = ""
      /\ UNCHANGED <<disco, fs, roto, historia>> /\ UNCHANGED archivos
  BY DEF RespuestaCrear, disco
<1>2. /\ TablasTipo /\ Cuadran(tag, tap) /\ Len(tag) < MaxTag
      /\ atiende.pid \in Pids /\ atiende.c \in Caminos /\ atiende.permisos \in Permisos
  BY <1>1 DEF TInv, AtencionTipo
<1>3. atiende'.pc = "select"
  <2>1. atiende' = EnSelect
    BY DEF RespuestaCrear, Responde
  <2> QED
    BY <2>1 DEF EnSelect
<1>4. fs.pc \notin Pidiendo
  BY <1>1 DEF LInv, Enlace
<1>5. Enlace'
  BY <1>1, <1>3, <1>4 DEF Enlace
<1>6. Existe'
  BY <1>1, <1>3, <1>4 DEF Existe, Pidiendo, Fases
<1>7. DelKernel
  BY <1>1 DEF DelKernel
<1>8. TablaConArchivo'
  <2>1. CASE resp = "ok"
    <3>1. AbrirArchivo(atiende.pid, atiende.c, atiende.permisos) /\ borrados' = borrados \ {atiende.c}
      BY <2>1 DEF RespuestaCrear
    <3>2. atiende.c \in DOMAIN archivos
      BY <1>1, <2>1 DEF LInv, Existe
    <3>3. \A k \in 1 .. Len(tag') : tag'[k].c = atiende.c
                                      \/ \E j \in 1 .. Len(tag) : tag'[k].c = tag[j].c
      BY <1>2, <3>1, AbrirTablas
    <3> QED
      BY <1>1, <3>1, <3>2, <3>3, TablaConUnoMas DEF LInv
  <2>2. CASE resp # "ok"
    <3>1. UNCHANGED <<tag, borrados>>
      BY <2>2 DEF RespuestaCrear
    <3> QED
      BY <1>1, <3>1 DEF LInv, TablaConArchivo
  <2> QED
    BY <2>1, <2>2
<1> QED
  BY <1>5, <1>6, <1>7, <1>8 DEF LInv

LEMMA EnlaceRespuestaDatos ==
  ASSUME TInv, TInv', DInv, LInv, RespuestaDatos
  PROVE  LInv' /\ DelKernel
<1>1. /\ atiende.pc \in {"guardar", "leer", "borrar"} /\ resp # "" /\ resp' = ""
      /\ UNCHANGED <<disco, fs, roto, historia, tag, borrados>> /\ UNCHANGED archivos
  BY DEF RespuestaDatos, disco
<1>2. atiende'.pc = "select"
  BY DEF RespuestaDatos, Responde, EnSelect
<1>3. fs.pc \notin Pidiendo
  BY <1>1 DEF LInv, Enlace
<1>4. Enlace'
  BY <1>1, <1>2, <1>3 DEF Enlace
<1>5. Existe'
  BY <1>1, <1>2, <1>3 DEF Existe, Pidiendo, Fases
<1>6. TablaConArchivo'
  BY <1>1 DEF LInv, TablaConArchivo
<1> QED
  BY <1>1, <1>4, <1>5, <1>6 DEF LInv, DelKernel
LEMMA EnlaceCerrarFile ==
  ASSUME TInv, TInv', LInv, NEW p \in Pids, NEW fd, CerrarFile(p, fd),
         UNCHANGED fsVars, UNCHANGED borrados, atiende.pc \in {"select", "mover"}
  PROVE  LInv' /\ DelKernel
<1>1. \A i \in 1 .. Len(tag') : \E h \in 1 .. Len(tag) : tag'[i].c = tag[h].c
  <2>1. CASE Tiene(p, fd)
    BY <2>1, CerrarTablas DEF TInv
  <2>2. CASE ~Tiene(p, fd)
    BY <2>2 DEF CerrarFile
  <2> QED
    BY <2>1, <2>2
<1>2. atiende'.pc \in {"select", "mover"}
  <2>1. atiende' = EnSelect
    BY DEF CerrarFile, Responde
  <2> QED
    BY <2>1 DEF EnSelect
<1> QED
  BY <1>1, <1>2, EnlaceResponde

LEMMA EnlaceBorrar ==
  ASSUME TInv, TInv', DInv, LInv, NEW p \in Pids, NEW fd, Borrar(p, fd)
  PROVE  LInv' /\ DelKernel
<1>1. atiende.pc \in {"select", "mover"} /\ UNCHANGED tag
  BY EnEspera DEF Borrar, Mensaje
<1>2. CASE /\ Tiene(p, fd) /\ Consulta(p, "borrar", GetPath(fd), 0, 0)
           /\ borrados' = borrados \cup {GetPath(fd)}
  <2>1. /\ "borrar" \in {"guardar", "leer", "borrar"} /\ 0 \in Nat
        /\ borrados \subseteq borrados' /\ GetPath(fd) \in borrados'
    BY <1>2
  <2> QED
    BY <1>1, <1>2, <2>1, EnlaceConsulta
<1>3. CASE (\E estado : Responde(p, estado)) /\ UNCHANGED <<fsVars, borrados>>
  <2>1. atiende'.pc \in {"select", "mover"}
    <3>1. atiende' = EnSelect
      BY <1>3 DEF Responde
    <3> QED
      BY <3>1 DEF EnSelect
  <2>2. \A i \in 1 .. Len(tag') : \E h \in 1 .. Len(tag) : tag'[i].c = tag[h].c
    BY <1>1
  <2> QED
    BY <1>1, <1>3, <2>1, <2>2, EnlaceResponde
<1> QED
  BY <1>2, <1>3 DEF Borrar

LEMMA EnlaceSinCursor ==
  ASSUME TInv, TInv', DInv, LInv, NEW p \in Pids, NEW pc \in {"guardar", "leer"},
         NEW fd, NEW size \in Tamanos, SinCursor(p, pc, fd, size)
  PROVE  LInv' /\ DelKernel
<1>1. atiende.pc \in {"select", "mover"} /\ UNCHANGED <<tag, borrados>>
  BY EnEspera DEF SinCursor, Mensaje
<1>2. 0 \in Nat /\ size \in Nat
  BY ArchivosOK
<1>3. CASE Tiene(p, fd)
  BY <1>1, <1>2, <1>3, EnlaceEscribirLeer DEF SinCursor
<1>4. CASE ~Tiene(p, fd)
  <2>1. UNCHANGED fsVars /\ UNCHANGED atiende
    BY <1>4 DEF SinCursor
  <2>2. \A i \in 1 .. Len(tag') : \E h \in 1 .. Len(tag) : tag'[i].c = tag[h].c
    BY <1>1
  <2> QED
    BY <1>1, <2>1, <2>2, EnlaceResponde
<1> QED
  BY <1>3, <1>4

(* Moving a cursor, ending, and any other message: FileSystem is not asked. *)
LEMMA EnlaceSinPedir ==
  ASSUME TInv, TInv', LInv,
         \/ \E p \in Pids, fd \in Descriptores, off \in Posiciones : MoverPuntero(p, fd, off)
         \/ \E p \in Pids : Terminar(p)
         \/ OtraCosaEnCursor
  PROVE  LInv' /\ DelKernel
<1>1. /\ UNCHANGED fsVars /\ UNCHANGED <<tag, borrados>>
      /\ atiende = EnSelect \/ Moviendo
  BY DEF MoverPuntero, Terminar, OtraCosaEnCursor, Mensaje
<1>2. atiende.pc \in {"select", "mover"}
  BY <1>1, EnEspera, MoviendoTiene
<1>3. atiende'.pc \in {"select", "mover"}
  <2>1. ASSUME NEW p \in Pids, NEW fd \in Descriptores, NEW off \in Posiciones,
               MoverPuntero(p, fd, off)
        PROVE  atiende'.pc \in {"select", "mover"}
    <3>1. \/ atiende' = [EnSelect EXCEPT !.pc = "mover", !.pid = p, !.fd = fd, !.off = off]
          \/ atiende' = atiende
      BY <2>1 DEF MoverPuntero
    <3> QED
      BY <3>1, <1>2 DEF EnSelect
  <2>2. CASE \E p \in Pids : Terminar(p)
    BY <1>2, <2>2 DEF Terminar
  <2>3. CASE OtraCosaEnCursor
    BY <2>3 DEF OtraCosaEnCursor, Responde, EnSelect
  <2> QED
    BY <2>1, <2>2, <2>3
<1>4. \A i \in 1 .. Len(tag') : \E h \in 1 .. Len(tag) : tag'[i].c = tag[h].c
  BY <1>1
<1> QED
  BY <1>1, <1>2, <1>3, <1>4, EnlaceResponde

LEMMA EnlaceEnCursor ==
  ASSUME TInv, TInv', DInv, LInv, EnCursor
  PROVE  LInv' /\ DelKernel
<1>1. ASSUME Moviendo
      PROVE  /\ atiende.pid \in Pids /\ Tiene(atiende.pid, atiende.fd)
             /\ atiende.pc \in {"select", "mover"} /\ atiende.off \in Nat /\ atiende.fd \in Nat
  <2>1. atiende \in Atenciones
    BY DEF TInv, AtencionTipo
  <2>2. atiende.off \in Nat /\ atiende.fd \in Nat
    BY <2>1 DEF Atenciones
  <2> QED
    BY <1>1, <2>2, MoviendoTiene
<1>2. ASSUME NEW size \in Tamanos, EscribirEnCursor(size) PROVE LInv' /\ DelKernel
  <2>1. /\ EscribirLeer(atiende.pid, "guardar", atiende.fd, atiende.off, size)
        /\ UNCHANGED <<tag, borrados>> /\ Moviendo /\ "guardar" \in {"guardar", "leer"}
    BY <1>2 DEF EscribirEnCursor
  <2>2. size \in Nat
    BY ArchivosOK
  <2> QED
    BY <1>1, <2>1, <2>2, EnlaceEscribirLeer
<1>3. ASSUME NEW size \in Tamanos, LeerEnCursor(size) PROVE LInv' /\ DelKernel
  <2>1. /\ EscribirLeer(atiende.pid, "leer", atiende.fd, atiende.off, 10 * atiende.fd + size)
        /\ UNCHANGED <<tag, borrados>> /\ Moviendo /\ "leer" \in {"guardar", "leer"}
    BY <1>3 DEF LeerEnCursor
  <2>2. 10 * atiende.fd + size \in Nat
    <3>1. size \in Nat /\ atiende.fd \in Nat
      BY <1>1, <2>1, ArchivosOK
    <3> QED
      BY <3>1
  <2> QED
    BY <1>1, <2>1, <2>2, EnlaceEscribirLeer
<1>4. ASSUME NEW fd \in Descriptores, CerrarEnCursor(fd) PROVE LInv' /\ DelKernel
  <2>1. CerrarFile(atiende.pid, fd) /\ UNCHANGED fsVars /\ UNCHANGED borrados /\ Moviendo
    BY <1>4 DEF CerrarEnCursor
  <2> QED
    BY <1>1, <2>1, EnlaceCerrarFile
<1> QED
  BY <1>2, <1>3, <1>4, EnlaceSinPedir DEF EnCursor

(* Every step of the Kernel and of the programs. *)
DeKernel ==
  \/ \E p \in Pids, c \in Caminos, permisos \in Permisos : AbrirCrear(p, c, permisos)
  \/ \E p \in Pids, pc \in {"guardar", "leer"}, fd \in Descriptores, size \in Tamanos :
       SinCursor(p, pc, fd, size)
  \/ \E p \in Pids, fd \in Descriptores, off \in Posiciones : MoverPuntero(p, fd, off)
  \/ \E p \in Pids, fd \in Descriptores : Cerrar(p, fd) \/ Borrar(p, fd)
  \/ \E p \in Pids : Terminar(p)
  \/ EnCursor \/ Kernel

LEMMA EnlaceKernel ==
  ASSUME TInv, TInv', DInv, LInv, DeKernel
  PROVE  LInv' /\ DelKernel
<1>1. ASSUME NEW p \in Pids, NEW fd \in Descriptores, Cerrar(p, fd) PROVE LInv' /\ DelKernel
  <2>1. /\ CerrarFile(p, fd) /\ UNCHANGED fsVars /\ UNCHANGED borrados
        /\ atiende.pc \in {"select", "mover"}
    BY <1>1, EnEspera DEF Cerrar, Mensaje
  <2> QED
    BY <2>1, EnlaceCerrarFile
<1>2. CASE Kernel
  BY <1>2, EnlaceRespuestaAbrir, EnlaceRespuestaCrear, EnlaceRespuestaDatos DEF Kernel
<1> QED
  BY <1>1, <1>2, EnlaceAbrirCrear, EnlaceSinCursor, EnlaceBorrar, EnlaceSinPedir, EnlaceEnCursor
  DEF DeKernel

-----------------------------------------------------------------------------
(* What FileSystem does to what the Kernel waits for *)

DelFileSystem == UNCHANGED <<tag, atiende, borrados>>

(* A request that goes on. *)
LEMMA EnlaceSigue ==
  ASSUME LInv, DelFileSystem, UNCHANGED <<resp, archivos>>, fs.pc \in Pidiendo, fs'.pc \in Pidiendo,
         Pide(fs'.pc) = Pide(fs.pc), fs'.c = fs.c
  PROVE  LInv'
<1>1. Enlace'
  BY DEF LInv, DelFileSystem, Enlace, Pidiendo
<1>2. fs'.pc \in {"borrar", "quitar"} => fs.pc \in {"borrar", "quitar"}
  BY DEF Pide, Pidiendo, Fases
<1>3. Existe' /\ TablaConArchivo'
  BY <1>2 DEF LInv, DelFileSystem, Existe, TablaConArchivo
<1> QED
  BY <1>1, <1>3 DEF LInv

(* A request that is answered and done with. *)
LEMMA EnlaceContesta ==
  ASSUME LInv, DelFileSystem, fs.pc \in Pidiendo, fs' = Ocioso, resp' \in {"ok", "no", "lectura"},
         DOMAIN archivos \ borrados \subseteq DOMAIN archivos',
         fs.pc = "crear" => resp' # "ok",
         fs.pc = "validar" => /\ resp' = "ok" => fs.c \in DOMAIN archivos'
                              /\ resp' = "no" => fs.c \notin DOMAIN archivos'
  PROVE  LInv'
<1>1. /\ fs'.pc = "espera" /\ fs'.pc \notin Pidiendo
      /\ atiende.pc = Pide(fs.pc) /\ atiende.c = fs.c /\ atiende.pc \notin {"select", "mover"}
      /\ atiende.pc \in {"validar", "crear"} => atiende.pc = fs.pc
  BY OciosoTipo DEF LInv, Enlace, Pide, Pidiendo, Fases
<1>2. Enlace'
  BY <1>1 DEF Enlace, DelFileSystem
<1>3. Existe'
  BY <1>1 DEF Existe, DelFileSystem
<1>4. TablaConArchivo'
  BY DEF LInv, TablaConArchivo, DelFileSystem
<1> QED
  BY <1>2, <1>3, <1>4 DEF LInv

(* What FileSystem still does after it has answered K12. *)
LEMMA EnlaceTermina ==
  ASSUME LInv, DelFileSystem, fs.pc \in {"armar", "cerrar"},
         fs'.pc \in {"espera", "cerrar"}, UNCHANGED resp, DOMAIN archivos' = DOMAIN archivos
  PROVE  LInv'
<1>1. Enlace'
  BY DEF LInv, DelFileSystem, Enlace, Pidiendo, Fases
<1>2. Existe' /\ TablaConArchivo'
  BY DEF LInv, DelFileSystem, Existe, TablaConArchivo
<1> QED
  BY <1>1, <1>2 DEF LInv

LEMMA EnlaceServir ==
  ASSUME DInv, LInv, Servir, DelFileSystem
  PROVE  LInv'
<1>1. CASE ValidarArchivo
  <2>1. /\ fs.pc = "validar" /\ fs' = Ocioso /\ UNCHANGED archivos
        /\ resp' = IF fs.c \in DOMAIN archivos THEN "ok" ELSE "no"
    BY <1>1 DEF ValidarArchivo, disco
  <2> QED
    BY <2>1, EnlaceContesta DEF Pidiendo, Fases
<1>2. CASE CrearArchivo
  <2>1. fs.pc = "crear" /\ fs.pc \in Pidiendo
    BY <1>2 DEF CrearArchivo, Pidiendo, Fases
  <2>2. CASE UNCHANGED archivos /\ resp' = "no" /\ fs' = Ocioso
    BY <2>1, <2>2, EnlaceContesta
  <2>3. CASE /\ DOMAIN archivos' = DOMAIN archivos \cup {fs.c}
             /\ resp' = "ok" /\ fs'.pc = "armar" /\ fs'.c = fs.c
    <3>1. atiende.pc = "crear" /\ atiende.c = fs.c
      BY <2>1 DEF LInv, Enlace, Pide
    <3>2. Enlace' /\ Existe'
      BY <2>3, <3>1 DEF Enlace, Existe, DelFileSystem, Pidiendo
    <3>3. TablaConArchivo'
      BY <2>3 DEF LInv, TablaConArchivo, DelFileSystem
    <3> QED
      BY <3>2, <3>3 DEF LInv
  <2> QED
    BY <1>2, <2>2, <2>3, FsCrear
<1>3. CASE ArmarArchivo
  <2>1. fs.pc = "armar" /\ UNCHANGED resp
    BY <1>3 DEF ArmarArchivo
  <2>2. UNCHANGED archivos /\ fs'.pc \in {"espera", "cerrar"}
    BY <1>3, FsArmar, OciosoTipo
  <2> QED
    BY <2>1, <2>2, EnlaceTermina
<1>4. CASE CerrarArchivo
  <2>1. fs.pc = "cerrar" /\ UNCHANGED resp /\ fs'.pc = "espera"
    BY <1>4, OciosoTipo DEF CerrarArchivo
  <2> QED
    BY <1>4, <2>1, FsCerrar, EnlaceTermina
<1>5. CASE BorrarArchivo
  <2>1. fs.pc = "borrar" /\ UNCHANGED resp
    BY <1>5 DEF BorrarArchivo
  <2>2. UNCHANGED archivos /\ fs'.pc = "quitar" /\ fs'.c = fs.c
    BY <1>5, FsBorrar
  <2>3. fs.pc \in Pidiendo /\ fs'.pc \in Pidiendo /\ Pide(fs'.pc) = Pide(fs.pc)
    BY <2>1, <2>2 DEF Pidiendo, Pide, Fases
  <2> QED
    BY <2>1, <2>2, <2>3, EnlaceSigue
<1>6. CASE QuitarArchivo
  <2>1. fs.pc = "quitar" /\ resp' = "ok" /\ fs' = Ocioso
    BY <1>6 DEF QuitarArchivo
  <2>2. fs.c \in borrados
    BY <2>1 DEF LInv, Existe
  <2>3. DOMAIN archivos \ borrados \subseteq DOMAIN archivos'
    BY <1>6, <2>2, FsQuitar
  <2> QED
    BY <2>1, <2>3, EnlaceContesta DEF Pidiendo, Fases
<1>7. CASE ObtenerDatos
  <2>1. fs.pc = "leer" /\ UNCHANGED archivos
    BY <1>7 DEF ObtenerDatos, disco
  <2>2. (resp' = "lectura" /\ fs' = Ocioso) \/ UNCHANGED <<resp, fs>>
    BY <1>7 DEF ObtenerDatos
  <2>3. CASE resp' = "lectura" /\ fs' = Ocioso
    BY <2>1, <2>3, EnlaceContesta DEF Pidiendo, Fases
  <2>4. CASE UNCHANGED <<resp, fs>>
    BY <2>1, <2>4, EnlaceSigue DEF Pidiendo, Fases
  <2> QED
    BY <2>2, <2>3, <2>4
<1>8. CASE SinArchivo
  <2>1. fs.pc \in {"borrar", "leer", "guardar"} /\ UNCHANGED <<archivos, fs, resp>>
    BY <1>8 DEF SinArchivo, disco
  <2> QED
    BY <2>1, EnlaceSigue DEF Pidiendo, Fases
<1>9. CASE GuardarDatos
  <2>1. fs.pc = "guardar" /\ UNCHANGED resp
    BY <1>9 DEF GuardarDatos
  <2>2. UNCHANGED archivos /\ fs'.pc \in {"salvar", "escribir"} /\ fs'.c = fs.c
    BY <1>9, FsGuardar DEF SinLugarEn, BloqueNuevo, DelArchivo
  <2>3. fs.pc \in Pidiendo /\ fs'.pc \in Pidiendo /\ Pide(fs'.pc) = Pide(fs.pc)
    BY <2>1, <2>2 DEF Pidiendo, Pide, Fases
  <2> QED
    BY <2>1, <2>2, <2>3, EnlaceSigue
<1>10. CASE EscribirResto
  <2>1. fs.pc = "escribir" /\ UNCHANGED resp
    BY <1>10 DEF EscribirResto
  <2>2. UNCHANGED archivos /\ fs'.pc = "salvar" /\ fs'.c = fs.c
    BY <1>10, FsResto
  <2>3. fs.pc \in Pidiendo /\ fs'.pc \in Pidiendo /\ Pide(fs'.pc) = Pide(fs.pc)
    BY <2>1, <2>2 DEF Pidiendo, Pide, Fases
  <2> QED
    BY <2>1, <2>2, <2>3, EnlaceSigue
<1>11. CASE EscribirBloque
  <2>1. fs.pc = "escribir" /\ UNCHANGED resp
    BY <1>11 DEF EscribirBloque
  <2>2. UNCHANGED archivos /\ fs'.pc \in {"salvar", "escribir"} /\ fs'.c = fs.c
    BY <1>11, <2>1, FsBloque DEF SinLugarEn, BloqueNuevo, DelArchivo
  <2>3. fs.pc \in Pidiendo /\ fs'.pc \in Pidiendo /\ Pide(fs'.pc) = Pide(fs.pc)
    BY <2>1, <2>2 DEF Pidiendo, Pide, Fases
  <2> QED
    BY <2>1, <2>2, <2>3, EnlaceSigue
<1>12. CASE Salvar
  <2>1. fs.pc = "salvar" /\ resp' \in {"ok", "no"} /\ fs' = Ocioso
    BY <1>12 DEF Salvar
  <2>2. DOMAIN archivos' = DOMAIN archivos
    BY <1>12, FsSalvar
  <2> QED
    BY <2>1, <2>2, EnlaceContesta DEF Pidiendo, Fases
<1> QED
  BY <1>1, <1>2, <1>3, <1>4, <1>5, <1>6, <1>7, <1>8, <1>9, <1>10, <1>11, <1>12 DEF Servir

(* FileSystem stops, and the system starts again with the disk as it was.   *)
LEMMA EnlaceReinicio ==
  ASSUME DInv, Reinicio
  PROVE  DInv' /\ LInv' /\ UNCHANGED <<disco, archivos, bitmap>> /\ Parar
<1>1. /\ Parar /\ UNCHANGED <<disco, archivos, bitmap>> /\ fs' = Ocioso /\ resp' = ""
      /\ tag' = <<>> /\ atiende' = EnSelect
  BY DEF Reinicio, Parar, disco
<1>2. DInv'
  BY <1>1, FsSoloResponde
<1>3. fs'.pc = "espera" /\ atiende'.pc = "select"
  BY <1>1, OciosoTipo DEF EnSelect
<1>4. Enlace' /\ Existe'
  BY <1>1, <1>3 DEF Enlace, Existe, Pidiendo
<1>5. TablaConArchivo'
  <2>1. DOMAIN tag' = {}
    BY <1>1, DominioVacio
  <2> QED
    BY <2>1 DEF TablaConArchivo
<1> QED
  BY <1>1, <1>2, <1>4, <1>5 DEF LInv

LEMMA EnlacePaso ==
  ASSUME TInv, TInv', DInv, LInv, Next
  PROVE  /\ DInv' /\ LInv'
         /\ DelKernel \/ Servir \/ (Parar /\ UNCHANGED <<disco, archivos, bitmap>>)
<1>1. CASE DeKernel
  BY <1>1, EnlaceKernel, DiscoDelKernel
<1>2. CASE FileSystem
  BY <1>2, DiscoServir, EnlaceServir DEF FileSystem, kernelVars, DelFileSystem
<1>3. CASE Reinicio
  BY <1>3, EnlaceReinicio
<1> QED
  BY <1>1, <1>2, <1>3 DEF Next, DeKernel

LEMMA EnlaceIgual ==
  ASSUME DInv, LInv, UNCHANGED vars
  PROVE  DInv' /\ LInv'
<1>1. UNCHANGED <<bitmap, archivos, fs, resp, tag, atiende, borrados>>
  BY DEF vars, fsVars, disco, kernelVars
<1>2. DInv'
  BY <1>1, DiscoIgual
<1>3. Enlace' /\ Existe' /\ TablaConArchivo'
  BY <1>1 DEF LInv, Enlace, Existe, TablaConArchivo
<1> QED
  BY <1>2, <1>3 DEF LInv

LEMMA EnlaceInit == Init => DInv /\ LInv
<1> SUFFICES ASSUME Init PROVE DInv /\ LInv
  OBVIOUS
<1>1. /\ bitmap = {} /\ archivos = [c \in {} |-> SinMetadata] /\ fs = Ocioso /\ resp = ""
      /\ tag = <<>> /\ atiende = EnSelect
  BY DEF Init, FsInit
<1>2. DInv
  BY <1>1, EmpiezaDisco
<1>3. fs.pc = "espera" /\ atiende.pc = "select"
  BY <1>1, OciosoTipo DEF EnSelect
<1>4. Enlace /\ Existe
  BY <1>1, <1>3 DEF Enlace, Existe, Pidiendo
<1>5. TablaConArchivo
  <2>1. DOMAIN tag = {}
    BY <1>1, DominioVacio
  <2> QED
    BY <2>1 DEF TablaConArchivo
<1> QED
  BY <1>2, <1>4, <1>5 DEF LInv

LEMMA EnlaceSiempre == Spec => [](TInv /\ DInv /\ LInv)
<1>1. TInv /\ TInv' /\ DInv /\ LInv /\ [Next]_vars => DInv' /\ LInv'
  BY EnlacePaso, EnlaceIgual
<1> QED
  BY <1>1, EnlaceInit, TablasSiempre, PTL DEF Spec

-----------------------------------------------------------------------------
(* The type of the state, and in it who waits for whom: a program waits     *)
(* exactly while the Kernel is in the middle of its request, and the Kernel *)
(* never waits for a FileSystem that has nothing to do.                     *)
THEOREM TypeCorrect == Spec => []TypeOK
<1>1. TInv /\ DInv /\ LInv => TypeOK
  <2> SUFFICES ASSUME TInv, DInv, LInv PROVE TypeOK
    OBVIOUS
  <2>1. /\ bitmap \subseteq Bloques /\ DOMAIN archivos \subseteq Caminos
        /\ \A c \in DOMAIN archivos : archivos[c] \in [tam : Nat, bloques : Seq(Bloques)]
    BY DEF DInv, DiscoTipo, Metadatos
  <2>2. /\ tag \in Seq([fd : Descriptores, c : Caminos, abiertos : Nat \ {0}])
        /\ \A p \in Pids : tap[p] \in Seq([fd : Descriptores, permisos : Permisos])
    BY DEF TInv, TablasTipo, Entrada, Abierto
  <2>3. \A p \in Pids : /\ prog[p] \in {"corre", "espera", "mudo", "error", "perdido", "fin"}
                        /\ prog[p] = "espera" <=> atiende.pid = p /\ atiende.pc # "mover"
    BY DEF TInv, AtencionTipo, Estados
  <2>4. /\ resp \in {"", "ok", "no", "lectura"}
        /\ fs.pc = "espera" /\ resp = "" => atiende.pc \in {"select", "mover"} \/ roto
    BY DEF LInv, Enlace, Pidiendo
  <2> QED
    BY <2>1, <2>2, <2>3, <2>4 DEF TypeOK
<1> QED
  BY <1>1, EnlaceSiempre, PTL

(* TablaGlobal: what AbiertosExactos says of the counts, and FileSystem is  *)
(* only asked for paths that were created.  This needs that an answer of    *)
(* FileSystem is still true when the Kernel takes it: Existe, and with it   *)
(* that nothing else is asked meanwhile.                                    *)
THEOREM TablaGlobalExacta == Spec => []TablaGlobal
<1>1. LInv /\ CuentaAbiertos => TablaGlobal
  BY DEF LInv, TablaGlobal
<1> QED
  BY <1>1, EnlaceSiempre, AbiertosExactos, PTL

-----------------------------------------------------------------------------
(* The owner of each block.  The blocks of nuevos already belong to the     *)
(* file being written; those of a file being removed, to nobody.            *)

SinRepetir(q, T) == \A i, j \in 1 .. Len(q) : q[i] = q[j] => i = j \/ q[i] \in T
Comparten(q, r, T) == ToSet(q) \cap ToSet(r) \subseteq T
DeAlguien(b) ==
  \/ b \in ToSet(fs.nuevos)
  \/ \E c \in DOMAIN archivos : b \in ToSet(ListaDe(c)) /\ ~(fs.pc = "quitar" /\ c = fs.c)

Marcados == \A b \in Bloques \ tocados : b \in bitmap <=> DeAlguien(b)
Aparte ==
  /\ \A c \in DOMAIN archivos : /\ SinRepetir(ListaDe(c), tocados)
                                /\ Comparten(ListaDe(c), fs.nuevos, tocados)
  /\ \A c, d \in DOMAIN archivos : c # d => Comparten(ListaDe(c), ListaDe(d), tocados)
  /\ SinRepetir(fs.nuevos, tocados)

BInv == Marcados /\ Aparte

LEMMA ToSetVacio == ToSet(<<>>) = {}
BY DominioVacio DEF ToSet

LEMMA VacioSinRepetir == \A T : SinRepetir(<<>>, T)
<1>1. Len(<<>>) = 0
  OBVIOUS
<1> QED
  BY <1>1 DEF SinRepetir

(* Two sequences in a row. *)
LEMMA Juntos ==
  ASSUME NEW S, NEW q \in Seq(S), NEW r \in Seq(S), NEW T
  PROVE  /\ ToSet(q \o r) = ToSet(q) \cup ToSet(r)
         /\ SinRepetir(q, T) /\ SinRepetir(r, T) /\ Comparten(q, r, T) => SinRepetir(q \o r, T)
<1>1. PICK s : s = q \o r
  OBVIOUS
<1>2. /\ s \in Seq(S) /\ Len(s) = Len(q) + Len(r) /\ Len(q) \in Nat /\ Len(r) \in Nat
      /\ \A i \in 1 .. Len(q) + Len(r) : s[i] = IF i <= Len(q) THEN q[i] ELSE r[i - Len(q)]
  BY <1>1, ConcatProperties, LenProperties
<1>3. /\ \A x : x \in ToSet(s) <=> \E i \in 1 .. Len(s) : s[i] = x
      /\ \A x : x \in ToSet(q) <=> \E i \in 1 .. Len(q) : q[i] = x
      /\ \A x : x \in ToSet(r) <=> \E i \in 1 .. Len(r) : r[i] = x
  BY <1>2, ToSetElemento
<1>4. /\ \A i \in 1 .. Len(q) : i \in 1 .. Len(s) /\ s[i] = q[i]
      /\ \A i \in 1 .. Len(r) : i + Len(q) \in 1 .. Len(s) /\ s[i + Len(q)] = r[i]
      /\ \A i \in 1 .. Len(s) : \/ i \in 1 .. Len(q) /\ s[i] = q[i]
                                \/ i - Len(q) \in 1 .. Len(r) /\ s[i] = r[i - Len(q)]
  <2>1. \A i \in 1 .. Len(r) : i + Len(q) \in 1 .. Len(s) /\ s[i + Len(q)] = r[i]
    <3> TAKE i \in 1 .. Len(r)
    <3>1. i + Len(q) \in 1 .. Len(q) + Len(r) /\ ~(i + Len(q) <= Len(q)) /\ i + Len(q) - Len(q) = i
      BY <1>2
    <3> QED
      BY <1>2, <3>1
  <2> QED
    BY <1>2, <2>1
<1>5. \A x : x \in ToSet(s) <=> x \in ToSet(q) \/ x \in ToSet(r)
  <2> TAKE x
  <2>1. x \in ToSet(q) \/ x \in ToSet(r) => x \in ToSet(s)
    BY <1>3, <1>4
  <2>2. x \in ToSet(s) => x \in ToSet(q) \/ x \in ToSet(r)
    BY <1>3, <1>4
  <2> QED
    BY <2>1, <2>2
<1>6. ASSUME SinRepetir(q, T), SinRepetir(r, T), Comparten(q, r, T)
      PROVE  SinRepetir(s, T)
  <2> SUFFICES ASSUME NEW i \in 1 .. Len(s), NEW j \in 1 .. Len(s), s[i] = s[j]
               PROVE  i = j \/ s[i] \in T
    BY DEF SinRepetir
  <2>1. \A a \in 1 .. Len(q), b \in 1 .. Len(r) : q[a] = r[b] => q[a] \in T
    BY <1>3, <1>6 DEF Comparten
  <2>2. CASE i \in 1 .. Len(q) /\ s[i] = q[i] /\ j \in 1 .. Len(q) /\ s[j] = q[j]
    BY <1>6, <2>2 DEF SinRepetir
  <2>3. CASE /\ i - Len(q) \in 1 .. Len(r) /\ s[i] = r[i - Len(q)]
             /\ j - Len(q) \in 1 .. Len(r) /\ s[j] = r[j - Len(q)]
    <3>1. i - Len(q) = j - Len(q) \/ s[i] \in T
      BY <1>6, <2>3 DEF SinRepetir
    <3> QED
      BY <1>2, <3>1
  <2>4. CASE /\ i \in 1 .. Len(q) /\ s[i] = q[i]
             /\ j - Len(q) \in 1 .. Len(r) /\ s[j] = r[j - Len(q)]
    BY <2>1, <2>4
  <2>5. CASE /\ j \in 1 .. Len(q) /\ s[j] = q[j]
             /\ i - Len(q) \in 1 .. Len(r) /\ s[i] = r[i - Len(q)]
    BY <2>1, <2>5
  <2> QED
    BY <1>4, <2>2, <2>3, <2>4, <2>5
<1> QED
  BY <1>1, <1>5, <1>6

(* Nothing changes hands. *)
LEMMA BloquesIgual ==
  ASSUME BInv, UNCHANGED <<bitmap, tocados>>, fs'.nuevos = fs.nuevos,
         fs.pc # "quitar", fs'.pc # "quitar", DOMAIN archivos \subseteq DOMAIN archivos',
         \A c \in DOMAIN archivos : archivos'[c] = archivos[c],
         \A c \in DOMAIN archivos' \ DOMAIN archivos : archivos'[c] = SinMetadata
  PROVE  BInv'
<1>1. /\ \A c \in DOMAIN archivos : ListaDe(c)' = ListaDe(c)
      /\ \A c \in DOMAIN archivos' \ DOMAIN archivos : ListaDe(c)' = <<>>
  BY DEF ListaDe, SinMetadata
<1>2. \A c \in DOMAIN archivos' \ DOMAIN archivos : ToSet(ListaDe(c)') = {}
  BY <1>1, ToSetVacio
<1>3. \A b : DeAlguien(b)' <=> DeAlguien(b)
  BY <1>1, <1>2 DEF DeAlguien
<1>4. Marcados'
  BY <1>3 DEF BInv, Marcados, Bloques
<1>5. Aparte'
  BY <1>1, <1>2, VacioSinRepetir DEF BInv, Aparte, Comparten
<1> QED
  BY <1>4, <1>5 DEF BInv

(* verificar_bloque and agregar_bloque: the block was of nobody. *)
LEMMA BloqueTomado ==
  ASSUME DInv, BInv, NEW b \in Bloques \ bitmap, bitmap' = bitmap \cup {b},
         UNCHANGED <<tocados, archivos>>, fs'.nuevos = Append(fs.nuevos, b),
         fs.pc # "quitar", fs'.pc # "quitar"
  PROVE  BInv'
<1>1. \A c \in DOMAIN archivos : ListaDe(c)' = ListaDe(c)
  BY DEF ListaDe
<1>2. b \in tocados \/ ~DeAlguien(b)
  BY DEF BInv, Marcados
<1>3. PICK s, u : s = fs.nuevos /\ u = <<b>>
  OBVIOUS
<1>4. s \in Seq(Bloques) /\ u \in Seq(Bloques) /\ fs'.nuevos = s \o u
  BY <1>3, PedidoCampos, AppendIsConcat
<1>5. ToSet(u) = {b} /\ SinRepetir(u, tocados)
  <2>1. Len(u) = 1 /\ u[1] = b
    BY <1>3
  <2>2. SinRepetir(u, tocados)
    BY <2>1 DEF SinRepetir
  <2>3. \A x : x \in ToSet(u) <=> x = b
    BY <2>1, <1>4, ToSetElemento
  <2> QED
    BY <2>2, <2>3
<1>6. ToSet(fs'.nuevos) = ToSet(s) \cup {b}
  BY <1>4, <1>5, Juntos
<1>7. \A x : DeAlguien(x)' <=> DeAlguien(x) \/ x = b
  BY <1>1, <1>3, <1>6 DEF DeAlguien
<1>8. Marcados'
  BY <1>7 DEF BInv, Marcados, Bloques
<1>9. Comparten(s, u, tocados)
  BY <1>2, <1>3, <1>5 DEF DeAlguien, Comparten
<1>10. SinRepetir(fs'.nuevos, tocados)
  <2>1. SinRepetir(s, tocados)
    BY <1>3 DEF BInv, Aparte
  <2> QED
    BY <1>4, <1>5, <1>9, <2>1, Juntos
<1>11. \A c \in DOMAIN archivos : Comparten(ListaDe(c), fs'.nuevos, tocados)
  <2>1. \A c \in DOMAIN archivos : Comparten(ListaDe(c), s, tocados)
    BY <1>3 DEF BInv, Aparte
  <2>2. \A c \in DOMAIN archivos : b \in tocados \/ b \notin ToSet(ListaDe(c))
    BY <1>2 DEF DeAlguien
  <2> QED
    BY <1>6, <2>1, <2>2 DEF Comparten
<1>12. Aparte'
  BY <1>1, <1>10, <1>11 DEF BInv, Aparte
<1> QED
  BY <1>8, <1>12 DEF BInv

(* The new blocks become blocks of the file when its metadata is saved. *)
LEMMA BloquesGuardados ==
  ASSUME DInv, BInv, UNCHANGED <<bitmap, tocados>>, NEW a \in DOMAIN archivos,
         DOMAIN archivos' = DOMAIN archivos, archivos'[a].bloques = ListaDe(a) \o fs.nuevos,
         \A c \in DOMAIN archivos \ {a} : archivos'[c] = archivos[c],
         fs'.nuevos = <<>>, fs.pc # "quitar", fs'.pc # "quitar"
  PROVE  BInv'
<1>1. PICK q, s : q = ListaDe(a) /\ s = fs.nuevos
  OBVIOUS
<1>2. q \in Seq(Bloques) /\ s \in Seq(Bloques)
  BY <1>1, PedidoCampos, ListaTipo
<1>3. /\ ListaDe(a)' = q \o s
      /\ \A c \in DOMAIN archivos \ {a} : ListaDe(c)' = ListaDe(c)
  BY <1>1 DEF ListaDe
<1>4. ToSet(q \o s) = ToSet(q) \cup ToSet(s) /\ ToSet(fs'.nuevos) = {}
  BY <1>2, Juntos, ToSetVacio
<1>5. SinRepetir(q \o s, tocados)
  <2>1. SinRepetir(q, tocados) /\ SinRepetir(s, tocados) /\ Comparten(q, s, tocados)
    BY <1>1 DEF BInv, Aparte
  <2> QED
    BY <1>2, <2>1, Juntos
<1>6. /\ ToSet(ListaDe(a)') = ToSet(ListaDe(a)) \cup ToSet(fs.nuevos)
      /\ SinRepetir(ListaDe(a)', tocados)
  BY <1>1, <1>3, <1>4, <1>5
<1>7. \A x : DeAlguien(x)' <=> DeAlguien(x)
  <2> TAKE x
  <2>1. DeAlguien(x)' <=> \E c \in DOMAIN archivos : x \in ToSet(ListaDe(c)')
    BY <1>4 DEF DeAlguien
  <2>2. DeAlguien(x) <=> x \in ToSet(fs.nuevos) \/ \E c \in DOMAIN archivos : x \in ToSet(ListaDe(c))
    BY DEF DeAlguien
  <2> QED
    BY <1>3, <1>6, <2>1, <2>2
<1>8. Marcados'
  BY <1>7 DEF BInv, Marcados, Bloques
<1>9. \A c \in DOMAIN archivos : /\ SinRepetir(ListaDe(c)', tocados)
                                 /\ Comparten(ListaDe(c)', fs'.nuevos, tocados)
  BY <1>3, <1>4, <1>6 DEF BInv, Aparte, Comparten
<1>10. \A c, d \in DOMAIN archivos : c # d => Comparten(ListaDe(c)', ListaDe(d)', tocados)
  <2>1. /\ \A c, d \in DOMAIN archivos : c # d => Comparten(ListaDe(c), ListaDe(d), tocados)
        /\ \A c \in DOMAIN archivos : Comparten(ListaDe(c), fs.nuevos, tocados)
    BY DEF BInv, Aparte
  <2> QED
    BY <1>3, <1>6, <2>1 DEF Comparten
<1>11. SinRepetir(fs'.nuevos, tocados)
  BY VacioSinRepetir
<1>12. Aparte'
  BY <1>9, <1>10, <1>11 DEF Aparte
<1> QED
  BY <1>8, <1>12 DEF BInv

(* The bits of a file that is being removed, all of them and no other. *)
LEMMA BloquesBorrados ==
  ASSUME BInv, bitmap' = bitmap \ ToSet(ListaDe(fs.c)), UNCHANGED <<tocados, archivos>>,
         fs.c \in DOMAIN archivos, fs'.pc = "quitar", fs'.c = fs.c, fs'.nuevos = <<>>,
         fs.pc # "quitar", fs.nuevos = <<>>
  PROVE  BInv'
<1>1. \A c \in DOMAIN archivos : ListaDe(c)' = ListaDe(c)
  BY DEF ListaDe
<1>2. ToSet(fs.nuevos) = {} /\ ToSet(fs'.nuevos) = {}
  BY ToSetVacio
<1>3. Marcados'
  <2> SUFFICES ASSUME NEW b \in Bloques \ tocados
               PROVE  b \in bitmap' <=> DeAlguien(b)'
    BY DEF Marcados, Bloques
  <2>1. DeAlguien(b)' <=> \E c \in DOMAIN archivos : b \in ToSet(ListaDe(c)) /\ c # fs.c
    BY <1>1, <1>2 DEF DeAlguien
  <2>2. b \in bitmap <=> \E c \in DOMAIN archivos : b \in ToSet(ListaDe(c))
    BY <1>2 DEF BInv, Marcados, DeAlguien
  <2>3. \A c \in DOMAIN archivos \ {fs.c} : b \in ToSet(ListaDe(c)) => b \notin ToSet(ListaDe(fs.c))
    BY DEF BInv, Aparte, Comparten
  <2> QED
    BY <2>1, <2>2, <2>3
<1>4. Aparte'
  BY <1>1, <1>2 DEF BInv, Aparte, Comparten
<1> QED
  BY <1>3, <1>4 DEF BInv

LEMMA BloquesQuitados ==
  ASSUME BInv, fs.pc = "quitar", fs.nuevos = <<>>, fs' = Ocioso, UNCHANGED <<bitmap, tocados>>,
         DOMAIN archivos' = DOMAIN archivos \ {fs.c},
         \A c \in DOMAIN archivos \ {fs.c} : archivos'[c] = archivos[c]
  PROVE  BInv'
<1>1. \A c \in DOMAIN archivos \ {fs.c} : ListaDe(c)' = ListaDe(c)
  BY DEF ListaDe
<1>2. fs'.pc # "quitar" /\ fs'.nuevos = fs.nuevos
  BY OciosoTipo
<1>3. \A x : DeAlguien(x)' <=> DeAlguien(x)
  BY <1>1, <1>2 DEF DeAlguien
<1>4. Marcados'
  BY <1>3 DEF BInv, Marcados, Bloques
<1>5. Aparte'
  BY <1>1, <1>2 DEF BInv, Aparte, Comparten
<1> QED
  BY <1>4, <1>5 DEF BInv

(* A stop: what was changing hands is excepted from now on. *)
LEMMA BloquesParar ==
  ASSUME BInv, Parar, UNCHANGED <<archivos, bitmap>>
  PROVE  BInv'
<1>1. /\ tocados' = tocados \cup ToSet(fs.nuevos)
                    \cup (IF fs.pc = "quitar" THEN ToSet(ListaDe(fs.c)) ELSE {})
      /\ fs'.pc # "quitar" /\ fs'.nuevos = <<>>
  BY OciosoTipo DEF Parar
<1>2. \A c \in DOMAIN archivos : ListaDe(c)' = ListaDe(c)
  BY DEF ListaDe
<1>3. ToSet(fs'.nuevos) = {} /\ SinRepetir(fs'.nuevos, tocados')
  BY <1>1, ToSetVacio, VacioSinRepetir
<1>4. Marcados'
  <2> SUFFICES ASSUME NEW b \in Bloques \ tocados'
               PROVE  b \in bitmap' <=> DeAlguien(b)'
    BY DEF Marcados, Bloques
  <2>1. /\ b \notin tocados /\ b \notin ToSet(fs.nuevos)
        /\ fs.pc = "quitar" => b \notin ToSet(ListaDe(fs.c))
    BY <1>1
  <2>2. DeAlguien(b)' <=> DeAlguien(b)
    BY <1>1, <1>2, <1>3, <2>1 DEF DeAlguien
  <2> QED
    BY <2>1, <2>2 DEF BInv, Marcados
<1>5. tocados \subseteq tocados'
  BY <1>1
<1>6. Aparte'
  <2>1. \A c \in DOMAIN archivos : /\ SinRepetir(ListaDe(c), tocados')
                                   /\ Comparten(ListaDe(c), fs'.nuevos, tocados')
    BY <1>3, <1>5 DEF BInv, Aparte, SinRepetir, Comparten
  <2>2. \A c, d \in DOMAIN archivos : c # d => Comparten(ListaDe(c), ListaDe(d), tocados')
    BY <1>5 DEF BInv, Aparte, Comparten
  <2> QED
    BY <1>2, <1>3, <2>1, <2>2 DEF Aparte
<1> QED
  BY <1>4, <1>6 DEF BInv

(* A request that starts, or one that writes no metadata and takes no block. *)
LEMMA BloquesSinCambio ==
  ASSUME BInv, UNCHANGED <<bitmap, tocados, archivos>>, fs'.nuevos = fs.nuevos,
         fs.pc # "quitar", fs'.pc # "quitar"
  PROVE  BInv'
BY BloquesIgual

LEMMA BloquesDelKernel ==
  ASSUME DInv, BInv, DelKernel
  PROVE  BInv'
<1>1. UNCHANGED <<bitmap, archivos, tocados>>
  BY DEF DelKernel, disco, historia
<1>2. CASE UNCHANGED fs
  <2>1. \A x : DeAlguien(x)' <=> DeAlguien(x)
    BY <1>1, <1>2 DEF DeAlguien, ListaDe
  <2>2. Marcados'
    BY <1>1, <2>1 DEF BInv, Marcados, Bloques
  <2>3. Aparte'
    BY <1>1, <1>2 DEF BInv, Aparte, ListaDe
  <2> QED
    BY <2>2, <2>3 DEF BInv
<1>3. CASE Envia
  <2>1. fs.pc = "espera" /\ fs.nuevos = <<>> /\ fs'.nuevos = <<>> /\ fs'.pc # "quitar"
    BY <1>3, OciosoTipo DEF Envia
  <2> QED
    BY <1>1, <2>1, BloquesSinCambio
<1> QED
  BY <1>2, <1>3 DEF DelKernel

LEMMA BloquesServir ==
  ASSUME DInv, BInv, Servir
  PROVE  BInv'
<1>1. CASE ValidarArchivo \/ ObtenerDatos \/ SinArchivo
  <2>1. /\ UNCHANGED <<bitmap, tocados, archivos>> /\ fs.pc \in {"validar", "leer", "borrar", "guardar"}
        /\ fs' = Ocioso \/ fs' = fs
    BY <1>1 DEF ValidarArchivo, ObtenerDatos, SinArchivo, disco, historia
  <2>2. fs.nuevos = <<>>
    BY <2>1 DEF DInv, EnCurso
  <2>3. fs'.nuevos = fs.nuevos /\ fs'.pc # "quitar"
    BY <2>1, <2>2, OciosoTipo
  <2> QED
    BY <2>1, <2>3, BloquesSinCambio
<1>2. CASE CrearArchivo
  <2>1. fs.pc = "crear" /\ fs.nuevos = <<>> /\ UNCHANGED <<bitmap, tocados>>
    BY <1>2 DEF CrearArchivo, historia, DInv, EnCurso
  <2>2. /\ fs'.nuevos = <<>> /\ fs'.pc # "quitar" /\ DOMAIN archivos \subseteq DOMAIN archivos'
        /\ \A c \in DOMAIN archivos : archivos'[c] = archivos[c]
        /\ \A c \in DOMAIN archivos' \ DOMAIN archivos : archivos'[c] = SinMetadata
    BY <1>2, FsCrear, OciosoTipo
  <2> QED
    BY <2>1, <2>2, BloquesIgual
<1>3. CASE ArmarArchivo
  <2>1. fs.pc = "armar" /\ fs.nuevos = <<>> /\ UNCHANGED <<archivos, tocados>>
    BY <1>3 DEF ArmarArchivo, historia, DInv, EnCurso
  <2>2. CASE fs' = Ocioso /\ UNCHANGED bitmap
    <3>1. fs'.nuevos = fs.nuevos /\ fs'.pc # "quitar"
      BY <2>1, <2>2, OciosoTipo
    <3> QED
      BY <2>1, <2>2, <3>1, BloquesSinCambio
  <2>3. ASSUME NEW b \in Bloques \ bitmap, bitmap' = bitmap \cup {b}, fs'.pc = "cerrar",
               fs'.nuevos = <<b>>
        PROVE  BInv'
    <3>1. fs'.nuevos = Append(fs.nuevos, b)
      BY <2>1, <2>3
    <3> QED
      BY <2>1, <2>3, <3>1, BloqueTomado
  <2> QED
    BY <1>3, <2>2, <2>3, FsArmar
<1>4. CASE CerrarArchivo
  <2>1. /\ fs.pc = "cerrar" /\ archivos[fs.c] = SinMetadata /\ fs' = Ocioso
        /\ UNCHANGED <<bitmap, tocados>>
    BY <1>4 DEF CerrarArchivo, historia, DInv, EnCurso
  <2>2. fs'.nuevos = <<>> /\ fs'.pc # "quitar"
    BY <2>1, OciosoTipo
  <2>3. ListaDe(fs.c) \o fs.nuevos = fs.nuevos
    <3>1. ListaDe(fs.c) = <<>>
      BY <2>1 DEF ListaDe, SinMetadata
    <3> QED
      BY <3>1, PedidoCampos, ConcatEmptySeq
  <2> QED
    BY <1>4, <2>1, <2>2, <2>3, FsCerrar, BloquesGuardados
<1>5. CASE BorrarArchivo
  <2>1. fs.pc = "borrar" /\ fs.nuevos = <<>> /\ UNCHANGED tocados
    BY <1>5 DEF BorrarArchivo, historia, DInv, EnCurso
  <2> QED
    BY <1>5, <2>1, FsBorrar, BloquesBorrados
<1>6. CASE QuitarArchivo
  <2>1. fs.pc = "quitar" /\ fs.nuevos = <<>> /\ UNCHANGED <<bitmap, tocados>> /\ fs' = Ocioso
    BY <1>6 DEF QuitarArchivo, DInv, EnCurso
  <2> QED
    BY <1>6, <2>1, FsQuitar, BloquesQuitados
<1>7. CASE EscribirResto
  <2>1. fs.pc = "escribir" /\ UNCHANGED tocados
    BY <1>7 DEF EscribirResto, historia
  <2> QED
    BY <1>7, <2>1, FsResto, BloquesSinCambio
<1>8. ASSUME UNCHANGED <<archivos, tocados>>, fs.pc \in {"guardar", "escribir"},
             \/ SinLugarEn
             \/ \E i, rem, lleva : DelArchivo(i, rem, lleva)
             \/ UNCHANGED <<bitmap, fs>>
      PROVE  BInv'
  <2>1. fs'.nuevos = fs.nuevos /\ UNCHANGED bitmap /\ fs'.pc # "quitar" /\ fs.pc # "quitar"
    BY <1>8 DEF SinLugarEn, DelArchivo
  <2> QED
    BY <1>8, <2>1, BloquesSinCambio
<1>9. ASSUME UNCHANGED <<archivos, tocados>>, fs.pc \in {"guardar", "escribir"},
             NEW lleva, BloqueNuevo(lleva)
      PROVE  BInv'
  <2>1. PICK b \in Bloques \ bitmap : /\ bitmap' = bitmap \cup {b} /\ fs'.pc = "escribir"
                                      /\ fs'.nuevos = Append(fs.nuevos, b)
    BY <1>9 DEF BloqueNuevo
  <2> QED
    BY <1>9, <2>1, BloqueTomado
<1>10. CASE GuardarDatos
  <2>1. fs.pc \in {"guardar", "escribir"} /\ UNCHANGED tocados
    BY <1>10 DEF GuardarDatos
  <2> QED
    BY <1>8, <1>9, <1>10, <2>1, FsGuardar
<1>11. CASE EscribirBloque
  <2>1. fs.pc \in {"guardar", "escribir"} /\ UNCHANGED tocados
    BY <1>11 DEF EscribirBloque
  <2> QED
    BY <1>8, <1>9, <1>11, <2>1, FsBloque
<1>12. CASE Salvar
  <2>1. fs.pc = "salvar" /\ fs' = Ocioso /\ UNCHANGED <<bitmap, tocados>>
    BY <1>12 DEF Salvar
  <2>2. fs'.nuevos = <<>> /\ fs'.pc # "quitar"
    BY <2>1, OciosoTipo
  <2> QED
    BY <1>12, <2>1, <2>2, FsSalvar, BloquesGuardados
<1> QED
  BY <1>1, <1>2, <1>3, <1>4, <1>5, <1>6, <1>7, <1>10, <1>11, <1>12 DEF Servir

LEMMA BloquesSiempre == Spec => [](TInv /\ DInv /\ LInv /\ BInv)
<1>1. Init => BInv
  <2> SUFFICES ASSUME Init PROVE BInv
    OBVIOUS
  <2>1. bitmap = {} /\ DOMAIN archivos = {} /\ fs.nuevos = <<>>
    <3>1. bitmap = {} /\ archivos = [c \in {} |-> SinMetadata] /\ fs = Ocioso
      BY DEF Init, FsInit
    <3> QED
      BY <3>1, OciosoTipo
  <2>2. \A x : ~DeAlguien(x)
    BY <2>1, ToSetVacio DEF DeAlguien
  <2>3. Aparte
    BY <2>1, VacioSinRepetir DEF Aparte
  <2> QED
    BY <2>1, <2>2, <2>3 DEF BInv, Marcados
<1>2. TInv /\ TInv' /\ DInv /\ LInv /\ BInv /\ [Next]_vars => BInv'
  <2>1. ASSUME TInv, TInv', DInv, LInv, BInv, Next PROVE BInv'
    BY <2>1, EnlacePaso, BloquesDelKernel, BloquesServir, BloquesParar
  <2>2. ASSUME DInv, BInv, UNCHANGED vars PROVE BInv'
    <3>1. DelKernel
      BY <2>2 DEF vars, fsVars, DelKernel
    <3> QED
      BY <2>2, <3>1, BloquesDelKernel
  <2> QED
    BY <2>1, <2>2
<1> QED
  BY <1>1, <1>2, EnlaceSiempre, PTL DEF Spec

(* BloqueDeUno for any disk: agregar_bloque and borrar_archivo, that change *)
(* the bitmap far from the metadata, never give a block to two files, nor   *)
(* twice to one, except one that a stop left in between.                    *)
THEOREM UnDuenoPorBloque == Spec => []BloqueDeUno
<1>1. DInv /\ BInv => BloqueDeUno
  <2> SUFFICES ASSUME DInv, BInv, NEW c1 \in DOMAIN archivos, NEW c2 \in DOMAIN archivos,
                      NEW k1 \in DOMAIN ListaDe(c1), NEW k2 \in DOMAIN ListaDe(c2),
                      ListaDe(c1)[k1] = ListaDe(c2)[k2]
               PROVE  (c1 = c2 /\ k1 = k2) \/ ListaDe(c1)[k1] \in tocados
    BY DEF BloqueDeUno
  <2>1. /\ \A c \in DOMAIN archivos : DOMAIN ListaDe(c) = 1 .. Len(ListaDe(c))
        /\ ListaDe(c1)[k1] \in ToSet(ListaDe(c1)) /\ ListaDe(c2)[k2] \in ToSet(ListaDe(c2))
    BY ListaTipo, LenProperties DEF ToSet
  <2> QED
    BY <2>1 DEF BInv, Aparte, SinRepetir, Comparten
<1> QED
  BY <1>1, BloquesSiempre, PTL

(* BitmapExacto for any disk: no block is lost, and none is given out while *)
(* a file has it, whatever write fails half way.                            *)
THEOREM BitmapDeLosArchivos == Spec => []BitmapExacto
<1>1. DInv /\ BInv => BitmapExacto
  <2> SUFFICES ASSUME DInv, BInv, fs.pc = "espera", NEW b \in Bloques \ tocados
               PROVE  b \in bitmap <=> \E c \in DOMAIN archivos : b \in ToSet(ListaDe(c))
    BY DEF BitmapExacto
  <2>1. ToSet(fs.nuevos) = {}
    BY ToSetVacio DEF DInv, EnCurso
  <2> QED
    BY <2>1 DEF BInv, Marcados, DeAlguien
<1> QED
  BY <1>1, BloquesSiempre, PTL

-----------------------------------------------------------------------------
(* The data: what guardar_datos writes, piece by piece and block by block,  *)
(* is where obtener_datos looks for it.                                     *)

(* Blocks and offsets *)

LEMMA Division ==
  ASSUME NEW o \in Nat
  PROVE  /\ o \div TBloques \in Nat /\ o % TBloques \in 0 .. TBloques - 1
         /\ o = (o \div TBloques) * TBloques + (o % TBloques)
<1>1. TBloques \in Nat \ {0}
  BY BloquesTipo
<1> QED
  BY <1>1

LEMMA Cociente ==
  ASSUME NEW i \in Nat, NEW k \in 0 .. TBloques - 1, NEW o, o = i * TBloques + k
  PROVE  o \in Nat /\ o \div TBloques = i /\ o % TBloques = k
<1>1. TBloques \in Nat \ {0}
  BY BloquesTipo
<1> QED
  BY <1>1

LEMMA Producto ==
  ASSUME NEW i \in Nat
  PROVE  /\ i * TBloques \in Nat
         /\ (i + 1) * TBloques = i * TBloques + TBloques
         /\ \A j \in Nat : i < j => i * TBloques + TBloques <= j * TBloques
         /\ i = 0 => i * TBloques = 0
<1>1. TBloques \in Nat \ {0}
  BY BloquesTipo
<1> QED
  BY <1>1

LEMMA AlBorde ==
  ASSUME NEW i \in Nat, NEW n \in Nat, NEW r \in 0 .. TBloques - 1, NEW o \in Nat,
         o = i * TBloques + r, i >= n, o <= n * TBloques
  PROVE  o = n * TBloques
<1>1. /\ TBloques \in Nat \ {0} /\ i * TBloques \in Nat /\ n * TBloques \in Nat
      /\ n < i => n * TBloques + TBloques <= i * TBloques
  BY BloquesTipo, Producto
<1>2. CASE i = n
  BY <1>1, <1>2
<1>3. CASE n < i
  BY <1>1, <1>3
<1> QED
  BY <1>2, <1>3

-----------------------------------------------------------------------------
(* What is where it is looked for *)

(* The offset o of the file c, in its blocks q, or the block was lost in a  *)
(* stop.                                                                    *)
Escrito(ce, ts, c, q, o) ==
  /\ o \div TBloques < Len(q)
  /\ \/ ce[q[o \div TBloques + 1]][o % TBloques] = [c |-> c, off |-> o]
     \/ q[o \div TBloques + 1] \in ts

(* n cells of the block f have been written, from rem on, with what goes    *)
(* from base on.                                                            *)
Volcado(ce, ce2, f, rem, n, c, base) ==
  /\ \A b \in Bloques \ {f} : ce2[b] = ce[b]
  /\ \A k \in 0 .. TBloques - 1 :
       ce2[f][k] = IF k \in rem .. rem + n - 1 THEN [c |-> c, off |-> base + k - rem] ELSE ce[f][k]

LEMMA EscritoSigue ==
  ASSUME NEW ce, NEW ts, NEW ts2, ts \subseteq ts2, NEW c, NEW q \in Seq(Bloques),
         NEW r \in Seq(Bloques), NEW o \in Nat, Escrito(ce, ts, c, q, o)
  PROVE  Escrito(ce, ts2, c, q \o r, o)
<1>1. o \div TBloques \in Nat
  BY Division
<1>2. PICK j \in Nat : j = o \div TBloques
  BY <1>1
<1>3. /\ Len(q \o r) = Len(q) + Len(r) /\ Len(q) \in Nat /\ Len(r) \in Nat
      /\ \A i \in 1 .. Len(q) + Len(r) : (q \o r)[i] = IF i <= Len(q) THEN q[i] ELSE r[i - Len(q)]
  BY ConcatProperties, LenProperties
<1>4. j < Len(q)
  BY <1>2 DEF Escrito
<1>5. j < Len(q \o r) /\ (q \o r)[j + 1] = q[j + 1]
  BY <1>3, <1>4
<1> QED
  BY <1>2, <1>5 DEF Escrito

(* The file that is being written: what was right stays so, because its     *)
(* block i is in no other place of it.                                      *)
LEMMA EscritoEnElMismo ==
  ASSUME NEW ce, NEW ce2, NEW ts, NEW c, NEW q \in Seq(Bloques), NEW o \in Nat,
         NEW i \in 0 .. Len(q) - 1, NEW rem \in 0 .. TBloques - 1, NEW n \in Nat,
         Volcado(ce, ce2, q[i + 1], rem, n, c, i * TBloques + rem),
         SinRepetir(q, ts), Escrito(ce, ts, c, q, o)
  PROVE  Escrito(ce2, ts, c, q, o)
<1>1. PICK j \in Nat, k \in 0 .. TBloques - 1 :
         j = o \div TBloques /\ k = o % TBloques /\ o = j * TBloques + k
  BY Division
<1>2. /\ Len(q) \in Nat /\ i \in Nat /\ j < Len(q) /\ j + 1 \in 1 .. Len(q) /\ i + 1 \in 1 .. Len(q)
      /\ \A x \in 1 .. Len(q) : q[x] \in Bloques
      /\ ce[q[j + 1]][k] = [c |-> c, off |-> o] \/ q[j + 1] \in ts
  BY <1>1, LenProperties, ElementOfSeq DEF Escrito
<1>3. CASE q[j + 1] \in ts
  BY <1>1, <1>2, <1>3 DEF Escrito
<1>4. CASE q[j + 1] \notin ts
  <2>1. CASE q[j + 1] = q[i + 1]
    <3>1. j = i
      BY <1>2, <1>4, <2>1 DEF SinRepetir
    <3>2. \/ ce2[q[j + 1]][k] = [c |-> c, off |-> i * TBloques + rem + k - rem]
          \/ ce2[q[j + 1]][k] = ce[q[j + 1]][k]
      BY <2>1 DEF Volcado
    <3>3. i * TBloques + rem + k - rem = o
      <4>1. i * TBloques \in Nat
        BY <1>2, Producto
      <4>2. TBloques \in Nat
        BY BloquesTipo
      <4> QED
        BY <1>1, <3>1, <4>1, <4>2
    <3>4. ce2[q[j + 1]][k] = [c |-> c, off |-> o]
      BY <1>2, <1>4, <3>2, <3>3
    <3> QED
      BY <1>1, <1>2, <3>4 DEF Escrito
  <2>2. CASE q[j + 1] # q[i + 1]
    <3>1. ce2[q[j + 1]] = ce[q[j + 1]]
      BY <1>2, <2>2 DEF Volcado
    <3> QED
      BY <1>1, <1>2, <1>4, <3>1 DEF Escrito
  <2> QED
    BY <2>1, <2>2
<1> QED
  BY <1>3, <1>4

(* What has just been written. *)
LEMMA EscritoAhora ==
  ASSUME NEW ce, NEW ce2, NEW ts, NEW c, NEW q \in Seq(Bloques),
         NEW i \in 0 .. Len(q) - 1, NEW rem \in 0 .. TBloques - 1, NEW n \in Nat,
         rem + n <= TBloques,
         Volcado(ce, ce2, q[i + 1], rem, n, c, i * TBloques + rem),
         NEW o \in i * TBloques + rem .. i * TBloques + rem + n - 1
  PROVE  Escrito(ce2, ts, c, q, o)
<1>1. i \in Nat /\ Len(q) \in Nat /\ i < Len(q) /\ TBloques \in Nat /\ i * TBloques \in Nat
  <2>1. Len(q) \in Nat
    BY LenProperties
  <2>2. i \in Nat /\ i < Len(q)
    BY <2>1
  <2> QED
    BY <2>1, <2>2, Producto, BloquesTipo
<1>2. PICK p \in Nat : p = i * TBloques
  BY <1>1
<1>3. PICK k \in 0 .. TBloques - 1 : o = p + k /\ k \in rem .. rem + n - 1
  <2>1. o - p \in 0 .. TBloques - 1 /\ o = p + (o - p) /\ o - p \in rem .. rem + n - 1
    BY <1>1, <1>2
  <2> QED
    BY <2>1
<1>4. o \div TBloques = i /\ o % TBloques = k
  BY <1>1, <1>2, <1>3, Cociente
<1>5. p + rem + k - rem = o
  BY <1>1, <1>2, <1>3
<1>6. ce2[q[i + 1]][k] = [c |-> c, off |-> o]
  BY <1>2, <1>3, <1>5 DEF Volcado
<1> QED
  BY <1>1, <1>4, <1>6 DEF Escrito

(* Any other file: it has not that block. *)
LEMMA EscritoEnOtro ==
  ASSUME NEW ce, NEW ce2, NEW ts, NEW c, NEW c2, NEW q \in Seq(Bloques), NEW o \in Nat,
         NEW f, NEW rem, NEW n, NEW base, Volcado(ce, ce2, f, rem, n, c2, base),
         f \notin ToSet(q) \/ f \in ts, Escrito(ce, ts, c, q, o)
  PROVE  Escrito(ce2, ts, c, q, o)
<1>1. PICK j \in Nat, k \in 0 .. TBloques - 1 : j = o \div TBloques /\ k = o % TBloques
  BY Division
<1>2. /\ Len(q) \in Nat /\ j < Len(q) /\ j + 1 \in 1 .. Len(q) /\ q[j + 1] \in Bloques
      /\ q[j + 1] \in ToSet(q)
      /\ ce[q[j + 1]][k] = [c |-> c, off |-> o] \/ q[j + 1] \in ts
  <2>1. Len(q) \in Nat /\ j < Len(q) /\ (ce[q[j + 1]][k] = [c |-> c, off |-> o] \/ q[j + 1] \in ts)
    BY <1>1, LenProperties DEF Escrito
  <2>2. j + 1 \in 1 .. Len(q)
    BY <2>1
  <2>3. q[j + 1] \in Bloques /\ q[j + 1] \in ToSet(q)
    BY <2>2, ElementOfSeq, ToSetElemento
  <2> QED
    BY <2>1, <2>2, <2>3
<1>3. CASE q[j + 1] = f
  BY <1>1, <1>2, <1>3 DEF Escrito
<1>4. CASE q[j + 1] # f
  <2>1. ce2[q[j + 1]] = ce[q[j + 1]]
    BY <1>2, <1>4 DEF Volcado
  <2> QED
    BY <1>1, <1>2, <2>1 DEF Escrito
<1> QED
  BY <1>3, <1>4

-----------------------------------------------------------------------------
(* The inductive invariant of the data *)

Todos == ListaDe(fs.c) \o fs.nuevos

CeldasTipo ==
  /\ DOMAIN celdas = Bloques
  /\ creido \in [Caminos -> SUBSET Nat]

Leible ==
  \A c \in DOMAIN archivos \ raros : \A o \in creido[c] : Escrito(celdas, tocados, c, ListaDe(c), o)

(* The size says which block is the last one. *)
Llena(c) ==
  /\ Len(ListaDe(c)) > 0
  /\ c \notin raros => /\ \A o \in creido[c] : o < archivos[c].tam
                       /\ (Len(ListaDe(c)) - 1) * TBloques <= archivos[c].tam
                       /\ archivos[c].tam <= Len(ListaDe(c)) * TBloques
Tamano ==
  /\ \A c \in Caminos \ DOMAIN archivos : creido[c] = {}
  /\ \A c \in DOMAIN archivos : (archivos[c] = SinMetadata /\ creido[c] = {}) \/ Llena(c)

Datos == CeldasTipo /\ Leible /\ Tamano

(* The block that is open is the one of the next offset. *)
EnElLugar(i) ==
  /\ fs.fis = Todos[i + 1] /\ fs.off + fs.guardado = i * TBloques + fs.rem
  /\ IF fs.nuevos = <<>> THEN fs.sig = i ELSE i = Len(Todos) - 1

Escribiendo ==
  /\ fs.guardado <= fs.size /\ fs.fis \in ToSet(Todos) /\ Len(ListaDe(fs.c)) > 0
  /\ fs.c \notin raros =>
       /\ fs.off <= archivos[fs.c].tam
       /\ \E i \in 0 .. Len(Todos) - 1 : EnElLugar(i)
       /\ \A o \in fs.off .. fs.off + fs.guardado - 1 : Escrito(celdas, tocados, fs.c, Todos, o)

Salvando ==
  /\ Len(ListaDe(fs.c)) > 0
  /\ fs.c \notin raros /\ fs.guardado = fs.size =>
       /\ fs.off <= archivos[fs.c].tam /\ fs.flag = IF Dentro THEN 2 ELSE 1
       /\ fs.off + fs.size <= Len(Todos) * TBloques
       /\ fs.nuevos # <<>> => (Len(Todos) - 1) * TBloques <= fs.off + fs.size
       /\ \A o \in fs.off .. fs.off + fs.size - 1 : Escrito(celdas, tocados, fs.c, Todos, o)

Fase ==
  /\ fs.pc = "cerrar" => Len(fs.nuevos) = 1
  /\ fs.pc = "guardar" => fs.guardado = 0
  /\ fs.pc = "escribir" => Escribiendo
  /\ fs.pc = "salvar" => Salvando

EInv == Datos /\ Fase

-----------------------------------------------------------------------------
(* Steps that write nothing *)

LEMMA DatosIgual ==
  ASSUME Datos, UNCHANGED <<celdas, archivos, creido>>, tocados \subseteq tocados',
         raros \subseteq raros'
  PROVE  Datos'
<1>1. CeldasTipo'
  BY DEF Datos, CeldasTipo, Bloques
<1>2. Leible'
  BY DEF Datos, Leible, ListaDe, Escrito
<1>3. Tamano'
  BY DEF Datos, Tamano, Llena, ListaDe
<1> QED
  BY <1>1, <1>2, <1>3 DEF Datos

LEMMA FaseIgual ==
  ASSUME Fase, UNCHANGED <<celdas, archivos, tocados, raros, fs>>
  PROVE  Fase'
BY DEF Fase, Escribiendo, Salvando, Todos, EnElLugar, ListaDe, Dentro

LEMMA FaseQuieta ==
  ASSUME fs'.pc \notin {"cerrar", "guardar", "escribir", "salvar"}
  PROVE  Fase'
BY DEF Fase

LEMMA EscrituraDelKernel ==
  ASSUME EInv, DelKernel
  PROVE  EInv'
<1>1. UNCHANGED <<celdas, archivos, creido, tocados, raros>>
  BY DEF DelKernel, disco, historia
<1>2. Datos'
  BY <1>1, DatosIgual DEF EInv
<1>3. CASE UNCHANGED fs
  BY <1>1, <1>2, <1>3, FaseIgual DEF EInv
<1>4. CASE Envia
  <2>1. Fase'
    BY <1>4 DEF Envia, Fase
  <2> QED
    BY <1>2, <2>1 DEF EInv
<1> QED
  BY <1>3, <1>4 DEF DelKernel

LEMMA EscrituraParar ==
  ASSUME EInv, Parar
  PROVE  EInv'
<1>1. UNCHANGED <<celdas, archivos, creido, raros>> /\ tocados \subseteq tocados' /\ fs' = Ocioso
  BY DEF Parar, disco
<1>2. Datos'
  BY <1>1, DatosIgual DEF EInv
<1>3. Fase'
  BY <1>1, OciosoTipo, FaseQuieta
<1> QED
  BY <1>2, <1>3 DEF EInv

(* What neither writes data nor metadata. *)
LEMMA EscrituraSinCambio ==
  ASSUME DInv, EInv, ValidarArchivo \/ ObtenerDatos \/ SinArchivo \/ ArmarArchivo \/ BorrarArchivo
  PROVE  EInv'
<1>1. UNCHANGED <<celdas, archivos, creido, tocados, raros>>
  BY DEF ValidarArchivo, ObtenerDatos, SinArchivo, ArmarArchivo, BorrarArchivo, disco, historia
<1>2. Datos'
  BY <1>1, DatosIgual DEF EInv
<1>3. CASE ArmarArchivo
  <2>1. CASE fs' = Ocioso
    BY <1>2, <2>1, OciosoTipo, FaseQuieta DEF EInv
  <2>2. ASSUME NEW b \in Bloques, fs'.pc = "cerrar", fs'.nuevos = <<b>> PROVE EInv'
    <3>1. Len(fs'.nuevos) = 1
      BY <2>2
    <3>2. Fase'
      BY <2>2, <3>1 DEF Fase
    <3> QED
      BY <1>2, <3>2 DEF EInv
  <2> QED
    BY <1>3, <2>1, <2>2, FsArmar
<1>4. CASE BorrarArchivo
  BY <1>2, <1>4, FsBorrar, FaseQuieta DEF EInv
<1>5. CASE ValidarArchivo \/ ObtenerDatos \/ SinArchivo
  <2>1. fs' = Ocioso \/ fs' = fs
    BY <1>5 DEF ValidarArchivo, ObtenerDatos, SinArchivo
  <2> QED
    BY <1>1, <1>2, <2>1, OciosoTipo, FaseQuieta, FaseIgual DEF EInv
<1> QED
  BY <1>3, <1>4, <1>5

-----------------------------------------------------------------------------
(* Files that come and go *)

LEMMA EscrituraCrear ==
  ASSUME DInv, EInv, CrearArchivo
  PROVE  EInv'
<1>1. UNCHANGED <<celdas, creido, tocados, raros>> /\ fs.c \in Caminos /\ fs.c \notin DOMAIN archivos
  BY DEF CrearArchivo, historia, DInv, EnCurso
<1>2. CASE UNCHANGED archivos /\ fs' = Ocioso
  BY <1>1, <1>2, DatosIgual, OciosoTipo, FaseQuieta DEF EInv
<1>3. CASE /\ DOMAIN archivos' = DOMAIN archivos \cup {fs.c} /\ archivos'[fs.c] = SinMetadata
           /\ \A c \in DOMAIN archivos : archivos'[c] = archivos[c]
           /\ fs'.pc = "armar"
  <2>1. creido[fs.c] = {}
    BY <1>1 DEF EInv, Datos, Tamano
  <2>2. CeldasTipo'
    BY <1>1 DEF EInv, Datos, CeldasTipo, Bloques
  <2>3. Leible'
    BY <1>1, <1>3, <2>1 DEF EInv, Datos, Leible, ListaDe
  <2>4. Tamano'
    BY <1>1, <1>3, <2>1 DEF EInv, Datos, Tamano, Llena, ListaDe
  <2> QED
    BY <1>3, <2>2, <2>3, <2>4, FaseQuieta DEF EInv, Datos
<1> QED
  BY <1>2, <1>3, FsCrear

LEMMA EscrituraCerrar ==
  ASSUME DInv, EInv, CerrarArchivo
  PROVE  EInv'
<1>1. /\ fs.pc = "cerrar" /\ archivos[fs.c] = SinMetadata /\ fs' = Ocioso
      /\ UNCHANGED <<celdas, creido, tocados, raros>> /\ fs.c \in DOMAIN archivos
      /\ archivos' = [archivos EXCEPT ![fs.c] = [tam |-> 0, bloques |-> fs.nuevos]]
  BY DEF CerrarArchivo, historia, DInv, EnCurso
<1>2. /\ DOMAIN archivos' = DOMAIN archivos
      /\ archivos'[fs.c].bloques = fs.nuevos /\ archivos'[fs.c].tam = 0
      /\ \A c \in DOMAIN archivos \ {fs.c} : archivos'[c] = archivos[c]
  BY <1>1
<1>3. creido[fs.c] = {}
  <2>1. ListaDe(fs.c) = <<>>
    BY <1>1 DEF ListaDe, SinMetadata
  <2>2. Len(ListaDe(fs.c)) = 0
    BY <2>1
  <2> QED
    BY <1>1, <2>2 DEF EInv, Datos, Tamano, Llena
<1>4. CeldasTipo'
  BY <1>1 DEF EInv, Datos, CeldasTipo, Bloques
<1>5. Leible'
  BY <1>1, <1>2, <1>3 DEF EInv, Datos, Leible, ListaDe
<1>6. ASSUME NEW c, c = fs.c PROVE Llena(c)'
  <2>1. Len(fs.nuevos) = 1
    BY <1>1 DEF EInv, Fase
  <2>2. TBloques \in Nat
    BY BloquesTipo
  <2>3. Len(ListaDe(c)') = 1 /\ archivos'[c].tam = 0 /\ creido'[c] = {}
    BY <1>1, <1>2, <1>3, <1>6, <2>1 DEF ListaDe
  <2>4. (1 - 1) * TBloques <= 0 /\ 0 <= 1 * TBloques
    BY <2>2
  <2> QED
    BY <2>3, <2>4 DEF Llena
<1>7. Tamano'
  <2>1. \A c \in DOMAIN archivos \ {fs.c} : Llena(c) => Llena(c)'
    BY <1>1, <1>2 DEF Llena, ListaDe
  <2> QED
    BY <1>1, <1>2, <1>6, <2>1 DEF EInv, Datos, Tamano
<1> QED
  BY <1>1, <1>4, <1>5, <1>7, OciosoTipo, FaseQuieta DEF EInv, Datos

LEMMA EscrituraQuitar ==
  ASSUME DInv, EInv, QuitarArchivo
  PROVE  EInv'
<1>1. /\ UNCHANGED <<celdas, tocados>> /\ fs' = Ocioso /\ raros' = raros \ {fs.c}
      /\ creido' = [creido EXCEPT ![fs.c] = {}]
      /\ fs.c \in Caminos
  BY DEF QuitarArchivo, DInv, EnCurso
<1>2. /\ DOMAIN archivos' = DOMAIN archivos \ {fs.c}
      /\ \A c \in DOMAIN archivos \ {fs.c} : archivos'[c] = archivos[c]
  BY FsQuitar
<1>3. /\ creido' \in [Caminos -> SUBSET Nat] /\ creido'[fs.c] = {}
      /\ \A c \in Caminos \ {fs.c} : creido'[c] = creido[c]
  BY <1>1 DEF EInv, Datos, CeldasTipo
<1>4. DOMAIN archivos \subseteq Caminos
  BY DEF DInv, DiscoTipo
<1>5. CeldasTipo'
  BY <1>1, <1>3 DEF EInv, Datos, CeldasTipo, Bloques
<1>6. Leible'
  BY <1>1, <1>2, <1>3, <1>4 DEF EInv, Datos, Leible, ListaDe
<1>7. Tamano'
  <2>1. \A c \in DOMAIN archivos \ {fs.c} : Llena(c) => Llena(c)'
    BY <1>1, <1>2, <1>3, <1>4 DEF Llena, ListaDe
  <2> QED
    BY <1>2, <1>3, <1>4, <2>1 DEF EInv, Datos, Tamano
<1> QED
  BY <1>1, <1>5, <1>6, <1>7, OciosoTipo, FaseQuieta DEF EInv, Datos

-----------------------------------------------------------------------------
(* Writing *)

LEMMA TodosTipo ==
  ASSUME DInv, BInv, fs.c \in DOMAIN archivos
  PROVE  /\ ListaDe(fs.c) \in Seq(Bloques) /\ Todos \in Seq(Bloques)
         /\ Len(Todos) \in Nat /\ Len(ListaDe(fs.c)) \in Nat /\ Len(ListaDe(fs.c)) <= Len(Todos)
         /\ fs.nuevos = <<>> => Todos = ListaDe(fs.c)
         /\ SinRepetir(Todos, tocados)
         /\ \A c \in DOMAIN archivos \ {fs.c} : Comparten(ListaDe(c), Todos, tocados)
<1>1. PICK q, s : q = ListaDe(fs.c) /\ s = fs.nuevos
  OBVIOUS
<1>2. q \in Seq(Bloques) /\ s \in Seq(Bloques)
  BY <1>1, PedidoCampos, ListaTipo
<1>3. /\ q \o s \in Seq(Bloques) /\ Len(q \o s) = Len(q) + Len(s)
      /\ Len(q) \in Nat /\ Len(s) \in Nat
  BY <1>2, ConcatProperties, LenProperties
<1>4. ToSet(q \o s) = ToSet(q) \cup ToSet(s)
  BY <1>2, Juntos
<1>5. s = <<>> => q \o s = q
  BY <1>2, ConcatEmptySeq
<1>6. SinRepetir(q \o s, tocados)
  <2>1. SinRepetir(q, tocados) /\ SinRepetir(s, tocados) /\ Comparten(q, s, tocados)
    BY <1>1 DEF BInv, Aparte
  <2> QED
    BY <1>2, <2>1, Juntos
<1>7. \A c \in DOMAIN archivos \ {fs.c} : Comparten(ListaDe(c), q \o s, tocados)
  <2>1. \A c \in DOMAIN archivos \ {fs.c} :
          Comparten(ListaDe(c), q, tocados) /\ Comparten(ListaDe(c), s, tocados)
    BY <1>1 DEF BInv, Aparte
  <2> QED
    BY <1>4, <2>1 DEF Comparten
<1>8. Len(q) <= Len(q \o s) /\ Len(q \o s) \in Nat
  BY <1>3
<1>9. PICK t : t = q \o s
  OBVIOUS
<1>10. Todos = t
  BY <1>1, <1>9 DEF Todos
<1>11. /\ t \in Seq(Bloques) /\ Len(t) \in Nat /\ Len(q) <= Len(t) /\ SinRepetir(t, tocados)
       /\ s = <<>> => t = q
       /\ \A c \in DOMAIN archivos \ {fs.c} : Comparten(ListaDe(c), t, tocados)
  BY <1>3, <1>6, <1>7, <1>8, <1>5, <1>9
<1> QED
  BY <1>1, <1>2, <1>3, <1>10, <1>11

(* Volcar touches nothing that was right, and writes what it says. *)
LEMMA AlVolcar ==
  ASSUME DInv, BInv, EInv, fs.pc = "escribir", NEW n \in Nat, fs.rem + n <= TBloques, Volcar(n),
         UNCHANGED <<archivos, creido, tocados>>, raros \subseteq raros'
  PROVE  /\ Datos'
         /\ \A i \in 0 .. Len(Todos) - 1 : EnElLugar(i) /\ fs.c \notin raros =>
              \A o \in fs.off .. fs.off + fs.guardado + n - 1 :
                Escrito(celdas', tocados, fs.c, Todos, o)
<1>1. /\ fs.c \in DOMAIN archivos /\ DOMAIN archivos \subseteq Caminos
      /\ fs.fis \in Bloques /\ fs.off \in Nat /\ fs.guardado \in Nat /\ fs.rem \in 0 .. TBloques - 1
  BY PedidoCampos DEF DInv, DiscoTipo, EnCurso
<1>2. PICK base \in Nat : base = fs.off + fs.guardado
  BY <1>1
<1>3. DOMAIN celdas' = Bloques /\ Volcado(celdas, celdas', fs.fis, fs.rem, n, fs.c, base)
  <2>1. DOMAIN celdas = Bloques
    BY DEF EInv, Datos, CeldasTipo
  <2>2. celdas' = [celdas EXCEPT ![fs.fis] =
          [k \in 0 .. TBloques - 1 |->
             IF k \in fs.rem .. fs.rem + n - 1
             THEN [c |-> fs.c, off |-> base + k - fs.rem] ELSE celdas[fs.fis][k]]]
    BY <1>2 DEF Volcar
  <2> QED
    BY <1>1, <2>1, <2>2 DEF Volcado
<1>4. PICK q : q = Todos
  OBVIOUS
<1>5. /\ q \in Seq(Bloques) /\ Len(q) \in Nat /\ SinRepetir(q, tocados)
      /\ \A c \in DOMAIN archivos \ {fs.c} : Comparten(ListaDe(c), q, tocados)
      /\ fs.fis \in ToSet(q)
  BY <1>1, <1>4, TodosTipo DEF EInv, Fase, Escribiendo
<1>6. ASSUME NEW i \in 0 .. Len(q) - 1, EnElLugar(i), NEW o \in Nat,
             Escrito(celdas, tocados, fs.c, q, o)
      PROVE  Escrito(celdas', tocados, fs.c, q, o)
  <2>1. Volcado(celdas, celdas', q[i + 1], fs.rem, n, fs.c, i * TBloques + fs.rem)
    BY <1>2, <1>3, <1>4, <1>6 DEF EnElLugar
  <2> QED
    BY <1>1, <1>5, <1>6, <2>1, EscritoEnElMismo
<1>7. ASSUME NEW i \in 0 .. Len(q) - 1, EnElLugar(i),
             NEW o \in base .. base + n - 1
      PROVE  Escrito(celdas', tocados, fs.c, q, o)
  <2>1. Volcado(celdas, celdas', q[i + 1], fs.rem, n, fs.c, i * TBloques + fs.rem)
        /\ base = i * TBloques + fs.rem
    BY <1>2, <1>3, <1>4, <1>7 DEF EnElLugar
  <2> QED
    BY <1>1, <1>5, <1>7, <2>1, EscritoAhora
<1>8. CeldasTipo'
  BY <1>3 DEF EInv, Datos, CeldasTipo, Bloques
<1>9. Tamano'
  BY DEF EInv, Datos, Tamano, Llena, ListaDe
<1>10. Leible'
  <2> SUFFICES ASSUME NEW c \in DOMAIN archivos \ raros, NEW o \in creido[c]
               PROVE  Escrito(celdas', tocados, c, ListaDe(c), o)
    BY DEF Leible, ListaDe
  <2>1. o \in Nat /\ Escrito(celdas, tocados, c, ListaDe(c), o) /\ ListaDe(c) \in Seq(Bloques)
    BY <1>1, ListaTipo DEF EInv, Datos, CeldasTipo, Leible
  <2>2. CASE c # fs.c
    <3>1. fs.fis \notin ToSet(ListaDe(c)) \/ fs.fis \in tocados
      BY <1>5, <2>2 DEF Comparten
    <3> QED
      BY <1>3, <2>1, <3>1, EscritoEnOtro
  <2>3. CASE c = fs.c
    <3>1. PICK i \in 0 .. Len(q) - 1 : EnElLugar(i)
      BY <1>4, <2>3 DEF EInv, Fase, Escribiendo
    <3>2. PICK l : l = ListaDe(fs.c)
      OBVIOUS
    <3>3. l \in Seq(Bloques) /\ Len(l) \in Nat /\ Len(l) <= Len(q) /\ q = l \o fs.nuevos
      BY <1>1, <1>4, <3>2, TodosTipo DEF Todos
    <3>4. \A j \in 1 .. Len(l) : q[j] = l[j]
      BY <3>3, ConcatProperties, PedidoCampos, LenProperties
    <3>5. o \div TBloques \in Nat /\ o \div TBloques < Len(l)
      BY <2>1, <2>3, <3>2, Division DEF Escrito
    <3>6. o \div TBloques < Len(q) /\ q[o \div TBloques + 1] = l[o \div TBloques + 1]
      BY <3>3, <3>4, <3>5
    <3>7. Escrito(celdas, tocados, fs.c, q, o)
      BY <2>1, <2>3, <3>2, <3>6 DEF Escrito
    <3>8. Escrito(celdas', tocados, fs.c, q, o)
      BY <1>6, <2>1, <3>1, <3>7
    <3> QED
      BY <2>3, <3>2, <3>5, <3>6, <3>8 DEF Escrito
  <2> QED
    BY <2>2, <2>3
<1>11. ASSUME NEW i \in 0 .. Len(q) - 1, EnElLugar(i), fs.c \notin raros,
              NEW o \in fs.off .. base + n - 1
       PROVE  Escrito(celdas', tocados, fs.c, q, o)
  <2>1. CASE o \in base .. base + n - 1
    BY <1>7, <1>11, <2>1
  <2>2. CASE o \in fs.off .. fs.off + fs.guardado - 1
    <3>1. o \in Nat
      BY <1>1, <2>2
    <3>2. Escrito(celdas, tocados, fs.c, q, o)
      BY <1>4, <1>11, <2>2 DEF EInv, Fase, Escribiendo
    <3> QED
      BY <1>6, <1>11, <3>1, <3>2
  <2> QED
    BY <1>1, <1>2, <2>1, <2>2
<1> QED
  BY <1>2, <1>4, <1>8, <1>9, <1>10, <1>11 DEF Datos

LEMMA TodosNuevo ==
  ASSUME DInv, BInv, fs.c \in DOMAIN archivos, NEW b \in Bloques,
         UNCHANGED archivos, fs'.c = fs.c, fs'.nuevos = Append(fs.nuevos, b)
  PROVE  /\ Todos' = Todos \o <<b>> /\ Len(Todos') = Len(Todos) + 1 /\ Todos'[Len(Todos) + 1] = b
         /\ b \in ToSet(Todos') /\ fs'.nuevos # <<>> /\ <<b>> \in Seq(Bloques)
<1>1. PICK l, s, u, q : l = ListaDe(fs.c) /\ s = fs.nuevos /\ u = <<b>> /\ q = Todos
  OBVIOUS
<1>2. l \in Seq(Bloques) /\ s \in Seq(Bloques) /\ u \in Seq(Bloques) /\ q \in Seq(Bloques)
      /\ q = l \o s
  BY <1>1, PedidoCampos, TodosTipo DEF Todos
<1>3. Append(s, b) = s \o u
  BY <1>1, <1>2, AppendIsConcat
<1>4. Todos' = l \o (s \o u)
  BY <1>1, <1>3 DEF Todos, ListaDe
<1>5. Todos' = q \o u
  BY <1>2, <1>4, ConcatAssociative
<1>6. q \o u = Append(q, b)
  BY <1>1, <1>2, AppendIsConcat
<1>7. PICK t : t = Append(q, b)
  OBVIOUS
<1>8. t \in Seq(Bloques) /\ Len(t) = Len(q) + 1 /\ t[Len(q) + 1] = b /\ Len(q) \in Nat
  BY <1>2, <1>7, AppendProperties, LenProperties
<1>9. b \in ToSet(t)
  <2>1. Len(q) + 1 \in 1 .. Len(t)
    BY <1>8
  <2> QED
    BY <1>8, <2>1, ToSetElemento
<1>10. Append(s, b) # <<>>
  BY <1>2, AppendProperties
<1> QED
  BY <1>1, <1>2, <1>5, <1>6, <1>7, <1>8, <1>9, <1>10

LEMMA Arranca ==
  ASSUME DInv, EInv, fs.c \in DOMAIN archivos, archivos[fs.c] # SinMetadata
  PROVE  /\ Len(ListaDe(fs.c)) > 0 /\ Len(ListaDe(fs.c)) \in Nat /\ archivos[fs.c].tam \in Nat
         /\ fs.c \notin raros => /\ (Len(ListaDe(fs.c)) - 1) * TBloques <= archivos[fs.c].tam
                                 /\ archivos[fs.c].tam <= Len(ListaDe(fs.c)) * TBloques
<1>1. Llena(fs.c)
  BY DEF EInv, Datos, Tamano
<1>2. Len(ListaDe(fs.c)) \in Nat /\ archivos[fs.c].tam \in Nat
  BY ListaTipo
<1> QED
  BY <1>1, <1>2 DEF Llena

(* The first block of a write: up to the end of the file, offset and blocks *)
(* agree on it.                                                             *)
LEMMA EscrituraGuardar ==
  ASSUME DInv, BInv, EInv, GuardarDatos
  PROVE  EInv'
<1>1. /\ fs.pc = "guardar" /\ fs.guardado = 0 /\ fs.nuevos = <<>>
      /\ UNCHANGED <<celdas, archivos, creido, tocados>>
      /\ raros' = raros \cup (IF fs.off > archivos[fs.c].tam THEN {fs.c} ELSE {})
      /\ fs.c \in DOMAIN archivos /\ archivos[fs.c] # SinMetadata
  BY DEF GuardarDatos, Legible, EInv, Fase, DInv, EnCurso
<1>2. Datos'
  BY <1>1, DatosIgual DEF EInv
<1>3. PICK l, c, t : l = ListaDe(fs.c) /\ c = fs.c /\ t = archivos[fs.c].tam
  OBVIOUS
<1>4. /\ l \in Seq(Bloques) /\ Len(l) \in Nat /\ Len(l) > 0 /\ t \in Nat /\ Todos = l
      /\ c \notin raros => t <= Len(l) * TBloques
  BY <1>1, <1>3, TodosTipo, Arranca
<1>5. fs.off \in Nat /\ fs.size \in Nat
  BY PedidoCampos
<1>6. c \notin raros' => c \notin raros /\ fs.off <= t
  <2>1. ~(fs.off > t) => fs.off <= t
    BY <1>4, <1>5
  <2> QED
    BY <1>1, <1>3, <2>1
<1>7. fs'.c = fs.c => ListaDe(fs.c)' = l /\ archivos'[fs'.c].tam = t
  BY <1>1, <1>3 DEF ListaDe
<1>8. CASE SinLugarEn
  <2>1. fs'.pc = "salvar" /\ fs'.c = fs.c /\ fs'.guardado # fs'.size
    BY <1>5, <1>8 DEF SinLugarEn
  <2>2. Salvando'
    BY <1>4, <1>7, <2>1 DEF Salvando
  <2> QED
    BY <1>2, <2>1, <2>2 DEF EInv, Fase
<1>9. PICK i \in Nat, r \in 0 .. TBloques - 1 :
        i = fs.off \div TBloques /\ r = fs.off % TBloques /\ fs.off = i * TBloques + r
  BY <1>5, Division
<1>10. CASE i >= Len(l) /\ BloqueNuevo(fs.guardado)
  <2>1. PICK b \in Bloques : /\ fs'.pc = "escribir" /\ fs'.c = fs.c /\ fs'.nuevos = Append(fs.nuevos, b)
                             /\ fs'.off = fs.off /\ fs'.size = fs.size /\ fs'.fis = b /\ fs'.rem = 0
                             /\ fs'.guardado = 0
    BY <1>1, <1>10 DEF BloqueNuevo
  <2>2. /\ Len(Todos') = Len(l) + 1 /\ Todos'[Len(l) + 1] = b /\ b \in ToSet(Todos')
        /\ fs'.nuevos # <<>>
    BY <1>1, <1>4, <2>1, TodosNuevo
  <2>3. c \notin raros' => fs.off = Len(l) * TBloques
    <3> SUFFICES ASSUME c \notin raros' PROVE fs.off = Len(l) * TBloques
      OBVIOUS
    <3>1. PICK n \in Nat, o \in Nat : n = Len(l) /\ o = fs.off
      BY <1>4, <1>5
    <3>2. n * TBloques \in Nat
      BY Producto
    <3>3. o <= n * TBloques
      BY <1>4, <1>6, <3>1, <3>2
    <3> QED
      BY <1>9, <1>10, <3>1, <3>3, AlBorde
  <2>4. Len(l) \in 0 .. Len(Todos') - 1
    BY <1>4, <2>2
  <2>5. c \notin raros' => EnElLugar(Len(l))'
    <3>1. PICK k : k = Len(l)
      OBVIOUS
    <3>2. c \notin raros' => fs'.off + fs'.guardado = k * TBloques + fs'.rem
      <4>1. k * TBloques \in Nat
        BY <1>4, <3>1, Producto
      <4> QED
        BY <1>5, <2>1, <2>3, <3>1, <4>1
    <3>3. k = Len(Todos') - 1
      BY <1>4, <2>2, <3>1
    <3>4. c \notin raros' => EnElLugar(k)'
      BY <2>1, <2>2, <3>1, <3>2, <3>3 DEF EnElLugar
    <3> QED
      BY <3>1, <3>4
  <2>6. \A o : o \notin fs'.off .. fs'.off + fs'.guardado - 1
    BY <1>5, <2>1
  <2>7. Escribiendo'
    <3>1. fs'.guardado <= fs'.size /\ fs'.fis \in ToSet(Todos') /\ Len(ListaDe(fs.c)') > 0
      BY <1>4, <1>5, <1>7, <2>1, <2>2
    <3>2. fs'.c \notin raros' =>
             /\ fs'.off <= archivos'[fs'.c].tam
             /\ \E k \in 0 .. Len(Todos') - 1 : EnElLugar(k)'
      BY <1>3, <1>6, <1>7, <2>1, <2>4, <2>5
    <3> QED
      BY <2>6, <3>1, <3>2 DEF Escribiendo
  <2> QED
    BY <1>2, <2>1, <2>7 DEF EInv, Fase
<1>11. CASE DelArchivo(i, r, fs.guardado)
  <2>1. /\ i < Len(l) /\ fs'.pc = "escribir" /\ fs'.c = fs.c /\ fs'.nuevos = <<>>
        /\ fs'.off = fs.off /\ fs'.size = fs.size /\ fs'.sig = i /\ fs'.fis = l[i + 1]
        /\ fs'.rem = r /\ fs'.guardado = 0
    BY <1>1, <1>3, <1>11 DEF DelArchivo
  <2>2. Todos' = l
    <3>1. l \o <<>> = l
      BY <1>4, ConcatEmptySeq
    <3> QED
      BY <1>7, <2>1, <3>1 DEF Todos
  <2>3. i \in 0 .. Len(l) - 1 /\ i + 1 \in 1 .. Len(l)
    BY <1>4, <2>1
  <2>4. fs'.fis \in ToSet(Todos')
    BY <1>4, <2>1, <2>2, <2>3, ToSetElemento
  <2>5. EnElLugar(i)'
    <3>1. fs'.off + fs'.guardado = i * TBloques + fs'.rem
      <4>1. fs'.off + fs'.guardado = fs.off
        BY <1>5, <2>1
      <4>2. i * TBloques + fs'.rem = fs.off
        BY <1>9, <2>1
      <4> QED
        BY <4>1, <4>2
    <3> QED
      BY <2>1, <2>2, <3>1 DEF EnElLugar
  <2>6. \A o : o \notin fs'.off .. fs'.off + fs'.guardado - 1
    BY <1>5, <2>1
  <2>7. Escribiendo'
    <3>1. fs'.guardado <= fs'.size /\ Len(ListaDe(fs.c)') > 0
      BY <1>4, <1>5, <1>7, <2>1
    <3>2. fs'.c \notin raros' =>
             /\ fs'.off <= archivos'[fs'.c].tam
             /\ \E k \in 0 .. Len(Todos') - 1 : EnElLugar(k)'
      BY <1>3, <1>6, <1>7, <2>1, <2>2, <2>3, <2>5
    <3> QED
      BY <2>4, <2>6, <3>1, <3>2 DEF Escribiendo
  <2> QED
    BY <1>2, <2>1, <2>7 DEF EInv, Fase
<1> QED
  BY <1>3, <1>8, <1>9, <1>10, <1>11, FsGuardar

LEMMA EscrituraResto ==
  ASSUME DInv, BInv, EInv, EscribirResto
  PROVE  EInv'
<1>1. /\ fs.pc = "escribir" /\ Cabe /\ Volcar(fs.size - fs.guardado)
      /\ UNCHANGED <<archivos, creido, tocados, raros>> /\ fs.c \in DOMAIN archivos
      /\ fs'.pc = "salvar" /\ fs'.c = fs.c /\ fs'.nuevos = fs.nuevos
      /\ fs'.off = fs.off /\ fs'.size = fs.size /\ fs'.guardado = fs.size
      /\ fs'.flag = IF Dentro THEN 2 ELSE 1
  BY FsResto DEF EscribirResto, historia
<1>2. /\ fs.off \in Nat /\ fs.size \in Nat /\ fs.guardado \in Nat /\ fs.rem \in 0 .. TBloques - 1
      /\ fs.guardado <= fs.size /\ Len(ListaDe(fs.c)) > 0 /\ TBloques \in Nat
  BY <1>1, PedidoCampos, BloquesTipo DEF EInv, Fase, Escribiendo
<1>3. PICK n \in Nat : n = fs.size - fs.guardado
  BY <1>2
<1>4. fs.rem + n <= TBloques /\ fs.off + fs.guardado + n = fs.off + fs.size
  BY <1>1, <1>2, <1>3 DEF Cabe
<1>5. /\ Datos'
      /\ \A i \in 0 .. Len(Todos) - 1 : EnElLugar(i) /\ fs.c \notin raros =>
           \A o \in fs.off .. fs.off + fs.guardado + n - 1 :
             Escrito(celdas', tocados, fs.c, Todos, o)
  BY <1>1, <1>3, <1>4, AlVolcar
<1>6. PICK q, c, t : q = Todos /\ c = fs.c /\ t = archivos[fs.c].tam
  OBVIOUS
<1>7. Len(q) \in Nat
  BY <1>1, <1>6, TodosTipo
<1>8. /\ Todos' = q /\ ListaDe(fs.c)' = ListaDe(fs.c) /\ archivos'[fs'.c].tam = t
      /\ Dentro' <=> Dentro
  BY <1>1, <1>6 DEF Todos, ListaDe, Dentro
<1>9. ASSUME c \notin raros
      PROVE  /\ fs.off <= t
             /\ fs.off + fs.size <= Len(q) * TBloques
             /\ fs.nuevos # <<>> => (Len(q) - 1) * TBloques <= fs.off + fs.size
             /\ \A o \in fs.off .. fs.off + fs.size - 1 : Escrito(celdas', tocados, c, q, o)
  <2>1. /\ fs.off <= t
        /\ \E i \in 0 .. Len(q) - 1 : EnElLugar(i)
    BY <1>1, <1>6, <1>9 DEF EInv, Fase, Escribiendo
  <2>2. PICK i \in 0 .. Len(q) - 1 : EnElLugar(i)
    BY <2>1
  <2>3. i \in Nat /\ i < Len(q)
    BY <1>7
  <2>4. PICK p \in Nat : /\ p = i * TBloques /\ p + TBloques <= Len(q) * TBloques
                         /\ Len(q) * TBloques \in Nat
    BY <1>7, <2>3, Producto
  <2>5. fs.off + fs.guardado = p + fs.rem
    BY <2>2, <2>4 DEF EnElLugar
  <2>6. fs.off + fs.size <= Len(q) * TBloques
    BY <1>2, <1>3, <1>4, <2>4, <2>5
  <2>7. fs.nuevos # <<>> => (Len(q) - 1) * TBloques <= fs.off + fs.size
    <3> SUFFICES ASSUME fs.nuevos # <<>> PROVE (Len(q) - 1) * TBloques <= fs.off + fs.size
      OBVIOUS
    <3>1. i = Len(q) - 1
      BY <1>6, <2>2 DEF EnElLugar
    <3>2. p <= fs.off + fs.size
      BY <1>2, <2>5
    <3> QED
      BY <2>4, <3>1, <3>2
  <2>8. \A o \in fs.off .. fs.off + fs.size - 1 : Escrito(celdas', tocados, c, q, o)
    <3> TAKE o \in fs.off .. fs.off + fs.size - 1
    <3>1. \A a, g, z, m \in Int : m = z - g => a + g + m - 1 = a + z - 1
      OBVIOUS
    <3>2. fs.off + fs.guardado + n - 1 = fs.off + fs.size - 1
      <4>1. fs.off \in Int /\ fs.guardado \in Int /\ fs.size \in Int /\ n \in Int
        BY <1>2, <1>3
      <4>2. n = fs.size - fs.guardado
        BY <1>3
      <4> QED
        BY <3>1, <4>1, <4>2
    <3>3. o \in fs.off .. fs.off + fs.guardado + n - 1
      BY <3>2
    <3> QED
      BY <1>5, <1>6, <1>9, <2>2, <3>3
  <2> QED
    BY <2>1, <2>6, <2>7, <2>8
<1>10. Salvando'
  BY <1>1, <1>2, <1>6, <1>8, <1>9 DEF Salvando
<1> QED
  BY <1>1, <1>5, <1>10 DEF EInv, Fase

(* Where the next piece goes, when the open block is full: one block later. *)
LEMMA Avanza ==
  ASSUME DInv, BInv, EInv, fs.pc = "escribir", fs.c \in DOMAIN archivos, ~Cabe, fs.c \notin raros,
         Dentro => fs.nuevos = <<>>
  PROVE  \E i \in 0 .. Len(Todos) - 1 :
           /\ EnElLugar(i) /\ Lleva \in Nat /\ Lleva <= fs.size
           /\ fs.off + Lleva = (i + 1) * TBloques
           /\ fs.nuevos = <<>> => fs.sig = i
           /\ ~Dentro => i + 1 = Len(Todos)
<1>1. /\ fs.off \in Nat /\ fs.size \in Nat /\ fs.guardado \in Nat /\ fs.rem \in 0 .. TBloques - 1
      /\ TBloques \in Nat \ {0} /\ Len(Todos) \in Nat
      /\ Len(ListaDe(fs.c)) \in Nat /\ Len(ListaDe(fs.c)) > 0 /\ archivos[fs.c].tam \in Nat
  BY PedidoCampos, BloquesTipo, TodosTipo, ListaTipo DEF EInv, Fase, Escribiendo
<1>2. fs.off <= archivos[fs.c].tam /\ \E i \in 0 .. Len(Todos) - 1 : EnElLugar(i)
  BY DEF EInv, Fase, Escribiendo
<1>3. PICK i \in 0 .. Len(Todos) - 1 : EnElLugar(i)
  BY <1>2
<1>4. i \in Nat /\ i < Len(Todos)
  BY <1>1
<1>5. PICK p \in Nat : p = i * TBloques /\ (i + 1) * TBloques = p + TBloques
  BY <1>4, Producto
<1>6. fs.off + fs.guardado = p + fs.rem /\ (fs.nuevos = <<>> => fs.sig = i)
  BY <1>3, <1>5 DEF EnElLugar
<1>7. Lleva = fs.guardado + TBloques - fs.rem
  BY DEF Lleva
<1>8. Lleva \in Nat /\ fs.off + Lleva = (i + 1) * TBloques
  <2>1. Lleva \in Nat
    BY <1>1, <1>7
  <2>2. fs.off + Lleva = p + TBloques
    <3>1. PICK o, g, r, t \in Int : o = fs.off /\ g = fs.guardado /\ r = fs.rem /\ t = TBloques
      BY <1>1
    <3>2. o + g = p + r
      BY <1>6, <3>1
    <3>3. o + (g + t - r) = p + t
      BY <3>2
    <3> QED
      BY <1>7, <3>1, <3>3
  <2> QED
    BY <1>5, <2>1, <2>2
<1>9. Lleva <= fs.size
  BY <1>1, <1>7 DEF Cabe
<1>10. ASSUME ~Dentro PROVE i + 1 = Len(Todos)
  <2>1. CASE fs.nuevos # <<>>
    <3>1. i = Len(Todos) - 1
      BY <1>3, <2>1 DEF EnElLugar
    <3> QED
      BY <1>1, <1>4, <3>1
  <2>2. CASE fs.nuevos = <<>>
    <3>1. PICK m \in Nat : m = Len(ListaDe(fs.c)) - 1
      BY <1>1
    <3>2. Len(Todos) = m + 1
      BY <1>1, <2>2, <3>1, TodosTipo
    <3>3. m * TBloques <= archivos[fs.c].tam
      <4>1. archivos[fs.c] # SinMetadata
        <5>1. archivos[fs.c] = SinMetadata => ListaDe(fs.c) = <<>>
          BY DEF ListaDe, SinMetadata
        <5>2. ListaDe(fs.c) = <<>> => Len(ListaDe(fs.c)) = 0
          OBVIOUS
        <5> QED
          BY <1>1, <5>1, <5>2
      <4> QED
        BY <3>1, <4>1, Arranca
    <3>4. ~(fs.off < archivos[fs.c].tam)
      BY <1>10 DEF Dentro
    <3>5. m * TBloques \in Nat /\ (i < m => p + TBloques <= m * TBloques)
      BY <1>4, <1>5, Producto
    <3>6. ~(i < m)
      BY <1>1, <1>6, <3>3, <3>4, <3>5
    <3> QED
      BY <1>4, <3>2, <3>6
  <2> QED
    BY <2>1, <2>2
<1> QED
  BY <1>3, <1>6, <1>8, <1>9, <1>10

LEMMA EscrituraBloque ==
  ASSUME DInv, BInv, EInv, EscribirBloque
  PROVE  EInv'
<1>1. /\ fs.pc = "escribir" /\ ~Cabe /\ Volcar(TBloques - fs.rem)
      /\ UNCHANGED <<archivos, creido, tocados>> /\ fs.c \in DOMAIN archivos
      /\ raros' = raros \cup (IF Dentro /\ fs.nuevos # <<>> THEN {fs.c} ELSE {})
  BY FsBloque DEF EscribirBloque
<1>2. /\ fs.off \in Nat /\ fs.size \in Nat /\ fs.guardado \in Nat /\ fs.rem \in 0 .. TBloques - 1
      /\ fs.guardado <= fs.size /\ Len(ListaDe(fs.c)) > 0 /\ TBloques \in Nat
      /\ fs.fis \in ToSet(Todos)
  BY <1>1, PedidoCampos, BloquesTipo DEF EInv, Fase, Escribiendo
<1>3. PICK n \in Nat : n = TBloques - fs.rem
  BY <1>2
<1>4. fs.rem + n <= TBloques /\ fs.guardado + n = Lleva
  BY <1>2, <1>3 DEF Lleva
<1>5. /\ Datos'
      /\ \A i \in 0 .. Len(Todos) - 1 : EnElLugar(i) /\ fs.c \notin raros =>
           \A o \in fs.off .. fs.off + fs.guardado + n - 1 :
             Escrito(celdas', tocados, fs.c, Todos, o)
  BY <1>1, <1>3, <1>4, AlVolcar
<1>6. PICK q, c, t, l : q = Todos /\ c = fs.c /\ t = archivos[fs.c].tam /\ l = ListaDe(fs.c)
  OBVIOUS
<1>7. /\ q \in Seq(Bloques) /\ Len(q) \in Nat /\ l \in Seq(Bloques) /\ Len(l) \in Nat
      /\ Len(l) <= Len(q) /\ Len(l) > 0 /\ (fs.nuevos = <<>> => q = l)
  BY <1>1, <1>2, <1>6, TodosTipo
<1>8. fs'.c = fs.c => ListaDe(fs.c)' = l /\ archivos'[fs'.c].tam = t
  BY <1>1, <1>6 DEF ListaDe
<1>9. ASSUME c \notin raros'
      PROVE  /\ fs.off <= t /\ c \notin raros /\ (Dentro => fs.nuevos = <<>>)
             /\ \E i \in 0 .. Len(q) - 1 :
                  /\ EnElLugar(i) /\ Lleva \in Nat /\ Lleva <= fs.size
                  /\ fs.off + Lleva = (i + 1) * TBloques
                  /\ fs.nuevos = <<>> => fs.sig = i
                  /\ ~Dentro => i + 1 = Len(q)
             /\ \A o \in fs.off .. fs.off + Lleva - 1 : Escrito(celdas', tocados, c, q, o)
  <2>1. c \notin raros /\ (Dentro => fs.nuevos = <<>>)
    BY <1>1, <1>6, <1>9
  <2>2. fs.off <= t
    BY <1>1, <1>6, <2>1 DEF EInv, Fase, Escribiendo
  <2>3. PICK i \in 0 .. Len(q) - 1 :
          /\ EnElLugar(i) /\ Lleva \in Nat /\ Lleva <= fs.size
          /\ fs.off + Lleva = (i + 1) * TBloques
          /\ fs.nuevos = <<>> => fs.sig = i
          /\ ~Dentro => i + 1 = Len(q)
    BY <1>1, <1>6, <2>1, Avanza
  <2>4. ASSUME NEW o \in fs.off .. fs.off + Lleva - 1
        PROVE  Escrito(celdas', tocados, c, q, o)
    <3>1. \A x, y, z \in Nat : x + y + z - 1 = x + (y + z) - 1
      OBVIOUS
    <3>2. fs.off + fs.guardado + n - 1 = fs.off + (fs.guardado + n) - 1
      <4>1. fs.off \in Nat /\ fs.guardado \in Nat
        BY <1>2
      <4>2. n \in Nat
        BY <1>3
      <4> QED
        BY <3>1, <4>1, <4>2
    <3>3. fs.off + fs.guardado + n - 1 = fs.off + Lleva - 1
      BY <1>4, <3>2
    <3>4. o \in fs.off .. fs.off + fs.guardado + n - 1
      BY <3>3
    <3> QED
      BY <1>5, <1>6, <2>1, <2>3, <3>4
  <2> QED
    BY <2>1, <2>2, <2>3, <2>4
<1>10. CASE UNCHANGED fs
  <2>1. c \notin raros' => \A o \in fs.off .. fs.off + fs.guardado - 1 : Escrito(celdas', tocados, c, q, o)
    <3> SUFFICES ASSUME c \notin raros', NEW o \in fs.off .. fs.off + fs.guardado - 1
                 PROVE  Escrito(celdas', tocados, c, q, o)
      OBVIOUS
    <3>1. Lleva \in Nat /\ fs.guardado <= Lleva
      BY <1>2, <1>3, <1>4
    <3>2. o \in fs.off .. fs.off + Lleva - 1
      BY <1>2, <3>1
    <3> QED
      BY <1>9, <3>2
  <2>2. Todos' = q /\ \A i : EnElLugar(i)' <=> EnElLugar(i)
    BY <1>1, <1>6, <1>10 DEF Todos, ListaDe, EnElLugar
  <2>3. Escribiendo'
    BY <1>1, <1>2, <1>6, <1>8, <1>9, <1>10, <2>1, <2>2 DEF Escribiendo
  <2> QED
    BY <1>1, <1>5, <1>10, <2>3 DEF EInv, Fase
<1>11. CASE SinLugarEn
  <2>1. fs'.pc = "salvar" /\ fs'.c = fs.c /\ fs'.guardado # fs'.size
    BY <1>2, <1>11 DEF SinLugarEn
  <2>2. Salvando'
    BY <1>7, <1>8, <2>1 DEF Salvando
  <2> QED
    BY <1>5, <2>1, <2>2 DEF EInv, Fase
<1>12. CASE (Dentro => fs.sig + 1 = Len(l)) /\ BloqueNuevo(Lleva)
  <2>1. PICK b \in Bloques : /\ fs'.pc = "escribir" /\ fs'.c = fs.c /\ fs'.nuevos = Append(fs.nuevos, b)
                             /\ fs'.off = fs.off /\ fs'.size = fs.size /\ fs'.fis = b /\ fs'.rem = 0
                             /\ fs'.guardado = Lleva
    BY <1>12 DEF BloqueNuevo
  <2>2. /\ Todos' = q \o <<b>> /\ <<b>> \in Seq(Bloques)
        /\ Len(Todos') = Len(q) + 1 /\ Todos'[Len(q) + 1] = b /\ b \in ToSet(Todos')
        /\ fs'.nuevos # <<>>
    BY <1>1, <1>6, <2>1, TodosNuevo
  <2>3. ASSUME c \notin raros'
        PROVE  /\ \E k \in 0 .. Len(Todos') - 1 : EnElLugar(k)'
               /\ \A o \in fs'.off .. fs'.off + fs'.guardado - 1 :
                    Escrito(celdas', tocados', c, Todos', o)
    <3>1. PICK i \in 0 .. Len(q) - 1 :
            /\ fs.off + Lleva = (i + 1) * TBloques
            /\ fs.nuevos = <<>> => fs.sig = i
            /\ ~Dentro => i + 1 = Len(q)
      BY <1>9, <2>3
    <3>2. i + 1 = Len(q) /\ i \in Nat
      BY <1>7, <1>9, <1>12, <2>3, <3>1
    <3>3. PICK k \in Nat : k = i + 1 /\ k = Len(q)
      BY <3>2
    <3>4. fs'.off + fs'.guardado = k * TBloques + fs'.rem
      <4>1. k * TBloques \in Nat /\ fs'.off + fs'.guardado = k * TBloques
        BY <2>1, <3>1, <3>3, Producto
      <4> QED
        BY <2>1, <4>1
    <3>5. k \in 0 .. Len(Todos') - 1 /\ k = Len(Todos') - 1
      BY <2>2, <3>3
    <3>6. EnElLugar(k)'
      BY <2>1, <2>2, <3>3, <3>4, <3>5 DEF EnElLugar
    <3>7. ASSUME NEW o \in fs'.off .. fs'.off + fs'.guardado - 1
          PROVE  Escrito(celdas', tocados', c, Todos', o)
      <4>1. o \in fs.off .. fs.off + Lleva - 1 /\ Lleva \in Nat
        BY <1>9, <2>1, <2>3
      <4>2. o \in Nat
        BY <1>2, <4>1
      <4>3. Escrito(celdas', tocados, c, q, o)
        BY <1>9, <2>3, <4>1
      <4>4. tocados \subseteq tocados' /\ tocados' = tocados
        BY <1>1
      <4>5. Escrito(celdas', tocados', c, q \o <<b>>, o)
        BY <1>7, <2>2, <4>2, <4>3, <4>4, EscritoSigue
      <4> QED
        BY <2>2, <4>5
    <3> QED
      BY <3>5, <3>6, <3>7
  <2>4. fs'.guardado <= fs'.size /\ fs'.fis \in ToSet(Todos') /\ Len(ListaDe(fs.c)') > 0
    <3>1. Lleva <= fs.size
      BY <1>2, <1>1 DEF Lleva, Cabe
    <3> QED
      BY <1>7, <1>8, <2>1, <2>2, <3>1
  <2>5. Escribiendo'
    BY <1>6, <1>8, <1>9, <2>1, <2>3, <2>4 DEF Escribiendo
  <2> QED
    BY <1>5, <2>1, <2>5 DEF EInv, Fase
<1>13. CASE Dentro /\ DelArchivo(fs.sig + 1, 0, Lleva)
  <2>1. /\ fs.sig + 1 < Len(l) /\ fs'.pc = "escribir" /\ fs'.c = fs.c /\ fs'.nuevos = fs.nuevos
        /\ fs'.off = fs.off /\ fs'.size = fs.size /\ fs'.sig = fs.sig + 1
        /\ fs'.fis = l[fs.sig + 2] /\ fs'.rem = 0 /\ fs'.guardado = Lleva
        /\ fs.sig \in Nat
    <3>1. fs.sig \in Nat
      BY PedidoCampos
    <3>2. fs.sig + 1 + 1 = fs.sig + 2
      BY <3>1
    <3> QED
      BY <1>6, <1>13, <3>1, <3>2 DEF DelArchivo
  <2>2. Todos' = q /\ q = l \o fs.nuevos
    BY <1>1, <1>6, <2>1 DEF Todos, ListaDe
  <2>3. fs.sig + 2 \in 1 .. Len(l)
    BY <1>7, <2>1
  <2>4. fs'.fis \in ToSet(q)
    <3>1. l[fs.sig + 2] \in ToSet(l)
      BY <1>7, <2>3, ToSetElemento
    <3>2. PICK s \in Seq(Bloques) : s = fs.nuevos
      BY PedidoCampos
    <3>3. ToSet(l \o s) = ToSet(l) \cup ToSet(s)
      BY <1>7, Juntos
    <3>4. q = l \o s
      BY <2>2, <3>2
    <3> QED
      BY <2>1, <3>1, <3>3, <3>4
  <2>5. ASSUME c \notin raros'
        PROVE  \E k \in 0 .. Len(Todos') - 1 : EnElLugar(k)'
    <3>1. PICK i \in 0 .. Len(q) - 1 :
            /\ fs.off + Lleva = (i + 1) * TBloques
            /\ fs.nuevos = <<>> => fs.sig = i
      BY <1>9, <2>5
    <3>2. fs.nuevos = <<>> /\ fs.sig = i /\ q = l /\ i \in Nat
      BY <1>7, <1>9, <1>13, <2>5, <3>1
    <3>3. PICK k \in Nat : k = i + 1
      BY <3>2
    <3>4. fs'.off + fs'.guardado = k * TBloques + fs'.rem
      <4>1. k * TBloques \in Nat /\ fs'.off + fs'.guardado = k * TBloques
        BY <2>1, <3>1, <3>3, Producto
      <4> QED
        BY <2>1, <4>1
    <3>5. k \in 0 .. Len(q) - 1 /\ fs'.sig = k /\ k + 1 = fs.sig + 2
      BY <1>7, <2>1, <3>2, <3>3
    <3>6. fs'.fis = Todos'[k + 1]
      BY <2>1, <2>2, <3>2, <3>5
    <3>7. EnElLugar(k)'
      BY <2>1, <3>2, <3>4, <3>5, <3>6 DEF EnElLugar
    <3> QED
      BY <2>2, <3>5, <3>7
  <2>6. fs'.guardado <= fs'.size /\ fs'.fis \in ToSet(Todos') /\ Len(ListaDe(fs.c)') > 0
    <3>1. Lleva <= fs.size
      BY <1>2, <1>1 DEF Lleva, Cabe
    <3> QED
      BY <1>7, <1>8, <2>1, <2>2, <2>4, <3>1
  <2>7. Escribiendo'
    BY <1>1, <1>6, <1>8, <1>9, <2>1, <2>2, <2>5, <2>6 DEF Escribiendo
  <2> QED
    BY <1>5, <2>1, <2>7 DEF EInv, Fase
<1> QED
  BY <1>6, <1>10, <1>11, <1>12, <1>13, FsBloque

(* The metadata: what a write adds to the size is what it wrote. *)
LEMMA EscrituraSalvar ==
  ASSUME DInv, BInv, EInv, Salvar
  PROVE  EInv'
<1>1. /\ fs.pc = "salvar" /\ UNCHANGED <<celdas, tocados>> /\ fs' = Ocioso
      /\ creido' = [creido EXCEPT ![fs.c] = @ \cup fs.off .. fs.off + fs.size - 1]
      /\ raros \subseteq raros'
      /\ fs.c \notin raros' =>
           fs.c \notin raros /\ fs.guardado = fs.size /\ ~(TamNuevo < archivos[fs.c].tam)
      /\ \A d : d # fs.c => (d \in raros' <=> d \in raros)
      /\ Salvando
  BY DEF Salvar, TamNuevo, EInv, Fase
<1>2. /\ fs.c \in DOMAIN archivos /\ DOMAIN archivos' = DOMAIN archivos
      /\ archivos'[fs.c].bloques = Todos /\ archivos'[fs.c].tam = TamNuevo
      /\ \A d \in DOMAIN archivos \ {fs.c} : archivos'[d] = archivos[d]
      /\ DOMAIN archivos \subseteq Caminos
  BY FsSalvar DEF Todos, DInv, DiscoTipo
<1>3. PICK c, q, l, t, u, v : /\ c = fs.c /\ q = Todos /\ l = ListaDe(fs.c)
                              /\ t = archivos[fs.c].tam /\ u = TamNuevo
                              /\ v = fs.off .. fs.off + fs.size - 1
  OBVIOUS
<1>4. fs.off \in Nat /\ fs.size \in Nat /\ v \subseteq Nat /\ fs.nuevos \in Seq(Bloques)
  BY <1>3, PedidoCampos
<1>5. /\ c \in Caminos /\ creido' \in [Caminos -> SUBSET Nat] /\ creido'[c] = creido[c] \cup v
      /\ creido[c] \subseteq Nat
      /\ \A d \in Caminos \ {c} : creido'[d] = creido[d]
  BY <1>1, <1>2, <1>3, <1>4 DEF EInv, Datos, CeldasTipo
<1>6. /\ q \in Seq(Bloques) /\ l \in Seq(Bloques) /\ q = l \o fs.nuevos
      /\ Len(q) \in Nat /\ Len(l) \in Nat /\ Len(l) <= Len(q) /\ Len(l) > 0
      /\ fs.nuevos = <<>> => q = l
  BY <1>1, <1>2, <1>3, TodosTipo DEF Salvando, Todos
<1>7. /\ t \in Nat
      /\ c \notin raros => /\ (Len(l) - 1) * TBloques <= t
                           /\ \A o \in creido[c] : o < t
  <2>1. archivos[fs.c] # SinMetadata
    <3>1. archivos[fs.c] = SinMetadata => l = <<>>
      BY <1>3 DEF ListaDe, SinMetadata
    <3>2. l = <<>> => Len(l) = 0
      OBVIOUS
    <3> QED
      BY <1>6, <3>1, <3>2
  <2>2. Llena(fs.c)
    BY <1>2, <2>1 DEF EInv, Datos, Tamano
  <2>3. archivos[fs.c].tam \in Nat
    BY <1>2, ListaTipo
  <2> QED
    BY <1>3, <2>2, <2>3 DEF Llena
<1>8. ASSUME c \notin raros'
      PROVE  /\ u = fs.off + fs.size /\ t <= u
             /\ u <= Len(q) * TBloques /\ (Len(q) - 1) * TBloques <= u
             /\ \A o \in v : Escrito(celdas, tocados, c, q, o)
  <2>1. c \notin raros /\ fs.guardado = fs.size /\ ~(u < t)
    BY <1>1, <1>3, <1>8
  <2>2. /\ fs.off <= t /\ fs.flag = IF Dentro THEN 2 ELSE 1
        /\ fs.off + fs.size <= Len(q) * TBloques
        /\ fs.nuevos # <<>> => (Len(q) - 1) * TBloques <= fs.off + fs.size
        /\ \A o \in v : Escrito(celdas, tocados, c, q, o)
    BY <1>1, <1>3, <2>1 DEF Salvando
  <2>3. u = fs.off + fs.size
    <3>1. CASE Dentro
      BY <1>3, <2>2, <3>1 DEF TamNuevo
    <3>2. CASE ~Dentro
      <4>1. fs.off = t
        BY <1>3, <1>4, <1>7, <2>2, <3>2 DEF Dentro
      <4> QED
        BY <1>3, <2>2, <3>2, <4>1 DEF TamNuevo
    <3> QED
      BY <3>1, <3>2
  <2>4. t <= u
    BY <1>4, <1>7, <2>1, <2>3
  <2>5. (Len(q) - 1) * TBloques <= u
    <3>1. CASE fs.nuevos # <<>>
      BY <2>2, <2>3, <3>1
    <3>2. CASE fs.nuevos = <<>>
      <4>1. PICK m \in Nat : m = Len(l) - 1
        <5>1. Len(l) - 1 \in Nat
          BY <1>6
        <5> QED
          BY <5>1
      <4>2. m * TBloques \in Nat /\ m * TBloques <= t
        BY <1>7, <2>1, <4>1, Producto
      <4>3. m * TBloques <= u
        BY <1>4, <1>7, <2>3, <2>4, <4>2
      <4>4. m = Len(q) - 1
        BY <1>6, <3>2, <4>1
      <4> QED
        BY <4>3, <4>4
    <3> QED
      BY <3>1, <3>2
  <2> QED
    BY <2>2, <2>3, <2>4, <2>5
<1>9. CeldasTipo'
  BY <1>1, <1>5 DEF EInv, Datos, CeldasTipo, Bloques
<1>10. Leible'
  <2> SUFFICES ASSUME NEW d \in DOMAIN archivos \ raros', NEW o \in creido'[d]
               PROVE  Escrito(celdas, tocados, d, archivos'[d].bloques, o)
    BY <1>1, <1>2 DEF Leible, ListaDe
  <2>1. CASE d # c
    BY <1>1, <1>2, <1>3, <1>5, <2>1 DEF EInv, Datos, Leible, ListaDe
  <2>2. CASE d = c
    <3>1. CASE o \in v
      BY <1>2, <1>3, <1>8, <2>2, <3>1
    <3>2. CASE o \in creido[c]
      <4>1. Escrito(celdas, tocados, c, l, o) /\ o \in Nat
        BY <1>1, <1>2, <1>3, <1>5, <2>2, <3>2 DEF EInv, Datos, Leible
      <4>2. tocados \subseteq tocados
        OBVIOUS
      <4>3. Escrito(celdas, tocados, c, l \o fs.nuevos, o)
        BY <1>4, <1>6, <4>1, <4>2, EscritoSigue
      <4> QED
        BY <1>2, <1>3, <1>6, <2>2, <4>3
    <3> QED
      BY <1>5, <2>2, <3>1, <3>2
  <2> QED
    BY <2>1, <2>2
<1>11. Tamano'
  <2>1. \A d \in DOMAIN archivos \ {c} : Llena(d) => Llena(d)'
    BY <1>1, <1>2, <1>3, <1>5 DEF Llena, ListaDe
  <2>2. Llena(c)'
    <3>1. ListaDe(c)' = q /\ archivos'[c].tam = u
      BY <1>2, <1>3 DEF ListaDe
    <3>2. c \notin raros' => \A o \in creido'[c] : o < u
      <4> SUFFICES ASSUME c \notin raros', NEW o \in creido'[c] PROVE o < u
        OBVIOUS
      <4>1. u = fs.off + fs.size /\ t <= u /\ c \notin raros
        BY <1>1, <1>3, <1>8
      <4>2. CASE o \in v
        BY <1>3, <1>4, <4>1, <4>2
      <4>3. CASE o \in creido[c]
        <5>1. o < t /\ o \in Nat
          BY <1>5, <1>7, <4>1, <4>3
        <5> QED
          BY <1>4, <1>7, <4>1, <5>1
      <4> QED
        BY <1>5, <4>2, <4>3
    <3>3. Len(q) > 0
      BY <1>6
    <3> QED
      BY <1>8, <3>1, <3>2, <3>3 DEF Llena
  <2> QED
    BY <1>2, <1>3, <1>5, <2>1, <2>2 DEF EInv, Datos, Tamano
<1> QED
  BY <1>1, <1>9, <1>10, <1>11, OciosoTipo, FaseQuieta DEF EInv, Datos

-----------------------------------------------------------------------------
LEMMA EscrituraServir ==
  ASSUME DInv, BInv, EInv, Servir
  PROVE  EInv'
BY EscrituraSinCambio, EscrituraCrear, EscrituraCerrar, EscrituraQuitar, EscrituraGuardar,
   EscrituraResto, EscrituraBloque, EscrituraSalvar DEF Servir

LEMMA EscrituraInit == Init => EInv
<1> SUFFICES ASSUME Init PROVE EInv
  OBVIOUS
<1>1. /\ archivos = [c \in {} |-> SinMetadata] /\ fs = Ocioso
      /\ celdas = [b \in Bloques |-> [k \in 0 .. TBloques - 1 |-> Vacia]]
      /\ creido = [c \in Caminos |-> {}]
  BY DEF Init, FsInit
<1>2. DOMAIN archivos = {} /\ fs.pc = "espera"
  BY <1>1, OciosoTipo
<1>3. CeldasTipo
  BY <1>1 DEF CeldasTipo
<1>4. Leible /\ Tamano
  BY <1>1, <1>2 DEF Leible, Tamano
<1>5. Fase
  BY <1>2 DEF Fase
<1> QED
  BY <1>3, <1>4, <1>5 DEF EInv, Datos

LEMMA EscrituraSiempre == Spec => [](DInv /\ BInv /\ EInv)
<1>1. TInv /\ TInv' /\ DInv /\ LInv /\ BInv /\ EInv /\ [Next]_vars => EInv'
  <2>1. ASSUME TInv, TInv', DInv, LInv, BInv, EInv, Next PROVE EInv'
    BY <2>1, EnlacePaso, EscrituraDelKernel, EscrituraServir, EscrituraParar
  <2>2. ASSUME EInv, UNCHANGED vars PROVE EInv'
    <3>1. DelKernel
      BY <2>2 DEF vars, fsVars, DelKernel
    <3> QED
      BY <2>2, <3>1, EscrituraDelKernel
  <2> QED
    BY <2>1, <2>2
<1> QED
  BY <1>1, EscrituraInit, BloquesSiempre, PTL DEF Spec

(* EscritoSeLee for any size of the blocks, any files and any writes:       *)
(* obtener_datos finds each offset where guardar_datos put it, in the files *)
(* that were never written in one of the ways the property excepts.  The    *)
(* invariant says which block is open in the middle of a write, and that    *)
(* TAMANIO tells which block of a file is the last one.                     *)
THEOREM LoEscritoSeLee == Spec => []EscritoSeLee
<1>1. DInv /\ EInv => EscritoSeLee
  <2> SUFFICES ASSUME DInv, EInv, NEW c \in DOMAIN archivos \ raros, NEW o \in creido[c]
               PROVE  /\ Alcanza(c, o)
                      /\ \/ CeldaDe(c, o) = [c |-> c, off |-> o]
                         \/ ListaDe(c)[o \div TBloques + 1] \in tocados
    BY DEF EscritoSeLee
  <2>1. Escrito(celdas, tocados, c, ListaDe(c), o)
    BY DEF EInv, Datos, Leible
  <2> QED
    BY <2>1 DEF Escrito, Alcanza, CeldaDe
<1> QED
  BY <1>1, EscrituraSiempre, PTL
=============================================================================
