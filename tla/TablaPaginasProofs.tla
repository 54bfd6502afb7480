------------------------- MODULE TablaPaginasProofs -------------------------
(***************************************************************************)
(* Proofs about the page table: placement never runs out of frames and the *)
(* lookup is right at every moment, for any number of frames, processes    *)
(* and pages in which no two pages have the same digits.                   *)
(***************************************************************************)
EXTENDS TablaPaginas, Lemas

(* The digits of pid and page, joined, tell the page: what MCClaves lacks.  *)
ClavesDistintas ==
  \A p, q \in Pids : \A g, h \in Pags : Clave(p, g) = Clave(q, h) => p = q /\ g = h

-----------------------------------------------------------------------------
(* Keys *)

LEMMA ClaveTipo ==
  ASSUME NEW p \in Nat, NEW g \in Nat
  PROVE  Clave(p, g) \in Nat
BY DEF Clave

LEMMA HashTipo ==
  ASSUME NEW p \in Pids, NEW g \in Pags
  PROVE  Hash(p, g) \in Frames
<1>1. p \in Nat /\ g \in Nat
  BY ConstantesOK DEF Pags
<1>2. Clave(p, g) \in Nat
  BY <1>1, ClaveTipo
<1>3. Marcos \in Nat \ {0}
  BY ConstantesOK
<1> QED
  BY <1>2, <1>3 DEF Hash, Frames

(* Page numbers of one digit are enough, whatever the pids. *)
LEMMA ClavesPaginasCortas ==
  ASSUME MaxPag <= 8
  PROVE  ClavesDistintas
BY ConstantesOK DEF ClavesDistintas, Clave, Pags

-----------------------------------------------------------------------------
(* The inductive invariant *)

EsPagina(m) == tabla[m].pid \in Pids

ClaveDe(m) == Clave(tabla[m].pid, tabla[m].pag)

HashDe(m) == Hash(tabla[m].pid, tabla[m].pag)

(* An entry is the table's own, free, or a page's. *)
EntradasOK ==
  \A m \in Frames :
    \/ m < MarcosTabla /\ tabla[m].estado = 1 /\ tabla[m].pid = -1
    \/ m >= MarcosTabla /\ tabla[m] = Libre
    \/ m >= MarcosTabla /\ tabla[m].estado = 1 /\ EsPagina(m) /\ tabla[m].pag \in 0 .. MaxPag

(* A page is in its hash frame or in the dictionary of that frame. *)
Ubicadas == \A m \in Frames : EsPagina(m) =>
              HashDe(m) = m \/ colisiones[HashDe(m)][ClaveDe(m)] = m

(* A dictionary holds only pages that exist and are elsewhere. *)
Vivas == \A h, m \in Frames, k \in Claves : colisiones[h][k] = m =>
           m # h /\ EsPagina(m) /\ ClaveDe(m) = k /\ HashDe(m) = h

UnMarcoPorPagina ==
  \A m, n \in Frames :
    EsPagina(m) /\ tabla[m].pid = tabla[n].pid /\ tabla[m].pag = tabla[n].pag => m = n

Colocando == pedido.op \in {"codigo", "stack", "heap"}

(* The next page of a request is above every page of its process. *)
Tope == Colocando =>
          \A m \in Frames : tabla[m].pid = pedido.pid => tabla[m].pag <= pedido.pag

(* How far a request can still go. *)
Progreso ==
  /\ pedido.op # "nada" => pedido.pid \in Pids /\ fijas[pedido.pid] # -1
  /\ pedido.op = "codigo" =>
       /\ pedido.pag + pedido.cant <= pedido.total - 1
       /\ pedido.total + StackSize - 1 <= MaxPag
  /\ pedido.op \in {"stack", "heap"} =>
       /\ cantPaginas[pedido.pid] # -1
       /\ pedido.pag + pedido.cant <= ultimaPagAsig[pedido.pid] + pedido.total
       /\ ultimaPagAsig[pedido.pid] + pedido.total <= MaxPag
  /\ pedido.op = "liberar" => pedido.pag >= 0 /\ cantPaginas[pedido.pid] # -1

(* Pages of processes not being served are within what the list says. *)
BajoUltima ==
  \A m \in Frames : EsPagina(m) =>
    LET p == tabla[m].pid
    IN  /\ fijas[p] # -1
        /\ cantPaginas[p] # -1 /\ ~(Colocando /\ pedido.pid = p) =>
             tabla[m].pag <= ultimaPagAsig[p]

ListadosUsados == \A p \in Pids : cantPaginas[p] # -1 => fijas[p] # -1

Estructura == EntradasOK /\ Ubicadas /\ Vivas /\ UnMarcoPorPagina

TiposTabla ==
  /\ tabla \in [Frames -> [estado : {0, 1}, pid : Pids \cup {-1},
                           pag : -1 .. MaxPag \cup Frames]]
  /\ colisiones \in [Frames -> [Claves -> Frames \cup {-1}]]

TiposResto ==
  /\ ultimo \in 0 .. Marcos
  /\ cantPaginas \in [Pids -> Nat \cup {-1}]
  /\ ultimaPagAsig \in [Pids -> -1 .. MaxPag]
  /\ pedido \in [op : Operaciones, pid : Pids \cup {-1}, cant : Nat, total : Nat,
                 pag : -1 .. MaxPag + 1]
  /\ fijas \in [Pids -> Nat \cup {-1}]

IInv ==
  /\ TiposTabla /\ TiposResto /\ Estructura
  /\ Tope /\ Progreso /\ BajoUltima /\ ListadosUsados /\ MarcosAlcanzan

-----------------------------------------------------------------------------
(* Lemmas on the helpers *)

LEMMA ClaveEnClaves ==
  ASSUME NEW p \in Pids, NEW g \in Pags
  PROVE  Clave(p, g) \in Claves
BY DEF Claves

LEMMA PagEnPags ==
  ASSUME NEW g \in 0 .. MaxPag
  PROVE  g \in Pags /\ g + 1 \in Pags
BY ConstantesOK DEF Pags

(* In the table the pages are page numbers, and -1 is no process. *)
LEMMA PaginaTipo ==
  ASSUME EntradasOK, NEW m \in Frames
  PROVE  /\ -1 \notin Pids
         /\ EsPagina(m) => /\ tabla[m].estado = 1 /\ m >= MarcosTabla
                          /\ tabla[m].pag \in 0 .. MaxPag /\ tabla[m].pag \in Pags
                          /\ HashDe(m) \in Frames /\ ClaveDe(m) \in Claves
         /\ tabla[m].estado = 0 => tabla[m] = Libre /\ m >= MarcosTabla /\ ~EsPagina(m)
<1>1. -1 \notin Pids
  BY ConstantesOK
<1>2. tabla[m].estado = 0 => tabla[m] = Libre /\ m >= MarcosTabla /\ ~EsPagina(m)
  BY <1>1 DEF EntradasOK, Libre, EsPagina
<1>3. EsPagina(m) => tabla[m].estado = 1 /\ m >= MarcosTabla
                     /\ tabla[m].pag \in 0 .. MaxPag
  BY <1>1 DEF EntradasOK, Libre, EsPagina
<1>4. EsPagina(m) => tabla[m].pag \in Pags
  BY <1>3, ConstantesOK DEF Pags
<1> QED
  BY <1>1, <1>2, <1>3, <1>4, HashTipo, ClaveEnClaves DEF EsPagina, HashDe, ClaveDe

(* maxPaginaPid bounds the pages of the process and is one of them or -1. *)
LEMMA MaxPaginaCota ==
  ASSUME EntradasOK, NEW p \in Pids
  PROVE  /\ MaxPaginaPid(p) \in -1 .. MaxPag
         /\ \A m \in Frames : tabla[m].pid = p => tabla[m].pag <= MaxPaginaPid(p)
         /\ MaxPaginaPid(p) # -1 =>
              \E m \in Frames : tabla[m].pid = p /\ tabla[m].pag = MaxPaginaPid(p)
<1> DEFINE marcos == MarcosDe(p) \cap (MarcosTabla .. (Marcos - 1))
           pags == {tabla[m].pag : m \in marcos}
<1>1. \A m \in Frames : tabla[m].pid = p => m \in marcos
  BY PaginaTipo DEF MarcosDe, Frames, EsPagina
<1>2. \A m \in marcos : m \in Frames /\ tabla[m].pid = p /\ tabla[m].pag \in 0 .. MaxPag
  BY PaginaTipo DEF MarcosDe, EsPagina
<1>3. pags \in SUBSET (0 .. MaxPag)
  BY <1>2
<1>4. MaxPaginaPid(p) = IF pags = {} THEN -1 ELSE Max(pags)
  BY DEF MaxPaginaPid
<1>5. CASE pags = {}
  <2>1. marcos = {}
    BY <1>5
  <2>2. MaxPaginaPid(p) = -1
    BY <1>4, <1>5
  <2>3. -1 \in -1 .. MaxPag
    BY ConstantesOK
  <2>4. \A m \in Frames : tabla[m].pid # p
    BY <1>1, <2>1
  <2> QED
    BY <2>2, <2>3, <2>4
<1>6. CASE pags # {}
  <2> HIDE DEF pags
  <2>1. Max(pags) \in pags /\ \A y \in pags : y <= Max(pags)
    <3>1. MaxPag \in Nat
      BY ConstantesOK
    <3> QED
      BY <3>1, <1>3, <1>6, MaxEsMaximo
  <2>2. MaxPaginaPid(p) = Max(pags)
    BY <1>4, <1>6
  <2>3. \A m \in marcos : tabla[m].pag \in pags
    BY DEF pags
  <2>4. PICK m \in marcos : tabla[m].pag = Max(pags)
    BY <2>1 DEF pags
  <2> QED
    BY <1>1, <1>2, <1>3, <2>1, <2>2, <2>3, <2>4
<1> QED
  BY <1>5, <1>6

(* reasignar_colision finds a free frame when there is one to be found. *)
LEMMA ReasignarEncuentra ==
  ASSUME NEW f \in Frames, ~MarcoOcupado(f)
  PROVE  ReasignarColision \in Frames /\ ~MarcoOcupado(ReasignarColision)
<1> DEFINE libres == {m \in Frames : ~MarcoOcupado(m)}
           adelante == {m \in libres : m > ultimo}
<1>1. libres \in SUBSET Nat /\ adelante \in SUBSET Nat /\ libres # {}
  BY DEF Frames
<1>2. adelante # {} => Min(adelante) \in adelante
  BY <1>1, MinEsMinimo
<1>3. Min(libres) \in libres
  BY <1>1, MinEsMinimo
<1>4. ReasignarColision \in libres
  BY <1>1, <1>2, <1>3 DEF ReasignarColision
<1> QED
  BY <1>4

LibresDeProcesos == {m \in MarcosTabla .. (Marcos - 1) : ~MarcoOcupado(m)}

LEMMA LibresFinito ==
  IsFiniteSet(LibresDeProcesos) /\ CantMarcosLibre \in Nat
  /\ CantMarcosLibre = Cardinality(LibresDeProcesos)
<1>1. IsFiniteSet(MarcosTabla .. (Marcos - 1))
  BY FS_Interval, ConstantesOK
<1>2. IsFiniteSet(LibresDeProcesos)
  BY <1>1, FS_Subset DEF LibresDeProcesos
<1> QED
  BY <1>2, FS_CardinalityType DEF CantMarcosLibre, LibresDeProcesos

-----------------------------------------------------------------------------
(* The two ways the table changes, whoever asks for it *)

(* Placing a page fills one free frame: its hash frame, or another one that *)
(* the dictionary of the hash frame then names.                             *)
LEMMA UbicarEfecto ==
  ASSUME TiposTabla, Estructura, NEW p \in Pids, NEW g \in Pags,
         CantMarcosLibre > 0, Ubicar(p, g), ultimo \in 0 .. Marcos
  PROVE  \E x \in Frames :
           /\ tabla[x] = Libre /\ x >= MarcosTabla
           /\ tabla' = [tabla EXCEPT ![x] = [estado |-> 1, pid |-> p, pag |-> g]]
           /\ \/ x = Hash(p, g) /\ colisiones' = colisiones
              \/ /\ x # Hash(p, g)
                 /\ colisiones' = [colisiones EXCEPT ![Hash(p, g)][Clave(p, g)] = x]
           /\ ultimo' \in 0 .. Marcos
<1>1. Hash(p, g) \in Frames
  BY HashTipo
<1>2. CASE ~MarcoOcupado(Hash(p, g))
  <2>1. tabla[Hash(p, g)].estado = 0
    BY <1>1, <1>2 DEF MarcoOcupado, TiposTabla
  <2>2. tabla[Hash(p, g)] = Libre /\ Hash(p, g) >= MarcosTabla
    BY <1>1, <2>1, PaginaTipo DEF Estructura
  <2> QED
    BY <1>1, <1>2, <2>2 DEF Ubicar
<1>3. CASE MarcoOcupado(Hash(p, g))
  <2>1. PICK f \in LibresDeProcesos : TRUE
    BY LibresFinito, FS_EmptySet
  <2>2. f \in Frames /\ ~MarcoOcupado(f)
    BY ConstantesOK DEF LibresDeProcesos, Frames
  <2>3. ReasignarColision \in Frames /\ ~MarcoOcupado(ReasignarColision)
    BY <2>2, ReasignarEncuentra
  <2>4. tabla[ReasignarColision].estado = 0
    BY <2>3 DEF MarcoOcupado, TiposTabla
  <2>5. tabla[ReasignarColision] = Libre /\ ReasignarColision >= MarcosTabla
    BY <2>3, <2>4, PaginaTipo DEF Estructura
  <2>6. ReasignarColision # Hash(p, g) /\ ReasignarColision \in 0 .. Marcos
    BY <1>3, <2>3, ConstantesOK DEF Frames
  <2> QED
    BY <1>3, <2>3, <2>5, <2>6 DEF Ubicar
<1> QED
  BY <1>2, <1>3

(* It keeps the structure when the page was not in the table already. *)
LEMMA UbicarEstructura ==
  ASSUME ClavesDistintas, TiposTabla, Estructura,
         NEW p \in Pids, NEW g \in 0 .. MaxPag, NEW x \in Frames,
         \A m \in Frames : ~(tabla[m].pid = p /\ tabla[m].pag = g),
         tabla[x] = Libre, x >= MarcosTabla,
         tabla' = [tabla EXCEPT ![x] = [estado |-> 1, pid |-> p, pag |-> g]],
         \/ x = Hash(p, g) /\ colisiones' = colisiones
         \/ /\ x # Hash(p, g)
            /\ colisiones' = [colisiones EXCEPT ![Hash(p, g)][Clave(p, g)] = x]
  PROVE  TiposTabla' /\ Estructura'
<1> DEFINE h == Hash(p, g)
           k == Clave(p, g)
<1>1. g \in Pags /\ h \in Frames /\ k \in Claves
  <2>1. g \in Pags
    BY PagEnPags
  <2> QED
    BY <2>1, HashTipo, ClaveEnClaves
<1>2. /\ tabla'[x] = [estado |-> 1, pid |-> p, pag |-> g]
      /\ \A m \in Frames \ {x} : tabla'[m] = tabla[m]
  BY DEF TiposTabla
<1>3. TiposTabla'
  <2>1. [estado |-> 1, pid |-> p, pag |-> g]
          \in [estado : {0, 1}, pid : Pids \cup {-1}, pag : -1 .. MaxPag \cup Frames]
    BY ConstantesOK
  <2>2. tabla' \in [Frames -> [estado : {0, 1}, pid : Pids \cup {-1},
                              pag : -1 .. MaxPag \cup Frames]]
    BY <2>1 DEF TiposTabla
  <2>3. ASSUME NEW f \in [Claves -> Frames \cup {-1}]
        PROVE  [f EXCEPT ![k] = x] \in [Claves -> Frames \cup {-1}]
    OBVIOUS
  <2>4. colisiones[h] \in [Claves -> Frames \cup {-1}]
    BY <1>1 DEF TiposTabla
  <2>5. [colisiones[h] EXCEPT ![k] = x] \in [Claves -> Frames \cup {-1}]
    BY <2>3, <2>4
  <2>6. colisiones' = colisiones \/ colisiones' = [colisiones EXCEPT ![h] = [colisiones[h] EXCEPT ![k] = x]]
    OBVIOUS
  <2>7. colisiones' \in [Frames -> [Claves -> Frames \cup {-1}]]
    BY <2>5, <2>6 DEF TiposTabla
  <2> QED
    BY <2>2, <2>7 DEF TiposTabla
<1>4. ~EsPagina(x)
  BY PaginaTipo DEF Estructura, Libre
<1>5. EntradasOK'
  BY <1>2 DEF Estructura, EntradasOK, EsPagina, Libre
<1>6. \A h2 \in Frames, k2 \in Claves :
        colisiones'[h2][k2] = colisiones[h2][k2] \/ (h2 = h /\ k2 = k)
  BY <1>1 DEF TiposTabla
<1>7. \A m \in Frames \ {x} :
        /\ EsPagina(m)' <=> EsPagina(m)
        /\ ClaveDe(m)' = ClaveDe(m) /\ HashDe(m)' = HashDe(m)
  BY <1>2 DEF EsPagina, ClaveDe, HashDe
<1>8. EsPagina(x)' /\ ClaveDe(x)' = k /\ HashDe(x)' = h
  BY <1>2 DEF EsPagina, ClaveDe, HashDe
<1>9. \A m \in Frames \ {x} : EsPagina(m) => ClaveDe(m) # k
  BY <1>1, PaginaTipo DEF ClavesDistintas, ClaveDe, Estructura, EsPagina
<1>10. Ubicadas'
  <2> SUFFICES ASSUME NEW m \in Frames, EsPagina(m)'
               PROVE  HashDe(m)' = m \/ colisiones'[HashDe(m)'][ClaveDe(m)'] = m
    BY DEF Ubicadas
  <2>1. CASE m = x
    BY <2>1, <1>1, <1>8 DEF TiposTabla
  <2>2. CASE m # x
    <3>1. EsPagina(m) /\ (HashDe(m) = m \/ colisiones[HashDe(m)][ClaveDe(m)] = m)
      BY <2>2, <1>7 DEF Estructura, Ubicadas
    <3>2. HashDe(m) \in Frames /\ ClaveDe(m) \in Claves /\ ClaveDe(m) # k
      BY <3>1, <2>2, <1>9, PaginaTipo DEF Estructura
    <3>3. colisiones'[HashDe(m)][ClaveDe(m)] = colisiones[HashDe(m)][ClaveDe(m)]
      BY <3>2, <1>6
    <3> QED
      BY <3>1, <3>3, <2>2, <1>7
  <2> QED
    BY <2>1, <2>2
<1>11. Vivas'
  <2> SUFFICES ASSUME NEW h2 \in Frames, NEW m \in Frames, NEW k2 \in Claves,
                      colisiones'[h2][k2] = m
               PROVE  m # h2 /\ EsPagina(m)' /\ ClaveDe(m)' = k2 /\ HashDe(m)' = h2
    BY DEF Vivas
  <2>1. CASE colisiones[h2][k2] = m
    <3>1. m # h2 /\ EsPagina(m) /\ ClaveDe(m) = k2 /\ HashDe(m) = h2
      BY <2>1 DEF Estructura, Vivas
    <3>2. m # x
      BY <3>1, <1>4
    <3> QED
      BY <3>1, <3>2, <1>7
  <2>2. CASE h2 = h /\ k2 = k /\ colisiones[h2][k2] # m
    <3>1. m = x /\ x # h
      BY <2>2, <1>1 DEF TiposTabla
    <3> QED
      BY <2>2, <3>1, <1>8
  <2> QED
    BY <2>1, <2>2, <1>6
<1>12. UnMarcoPorPagina'
  BY <1>2, <1>4 DEF Estructura, UnMarcoPorPagina, EsPagina
<1> QED
  BY <1>3, <1>5, <1>10, <1>11, <1>12 DEF Estructura

(* What the lookup answers: the frame of the page, or -1 if it has none. *)
LEMMA BusquedaExacta ==
  ASSUME ClavesDistintas, TiposTabla, Estructura, NEW p \in Pids, NEW g \in Pags
  PROVE  /\ PosPaginaSolicitada(p, g) \in Frames \cup {-1}
         /\ PosPaginaSolicitada(p, g) # -1 =>
              /\ tabla[PosPaginaSolicitada(p, g)].pid = p
              /\ tabla[PosPaginaSolicitada(p, g)].pag = g
         /\ \A m \in Frames : tabla[m].pid = p /\ tabla[m].pag = g =>
              PosPaginaSolicitada(p, g) = m
<1> DEFINE h == Hash(p, g)
           k == Clave(p, g)
           r == colisiones[h][k]
<1>1. h \in Frames /\ k \in Claves /\ r \in Frames \cup {-1} /\ -1 \notin Frames
  BY HashTipo, ClaveEnClaves DEF TiposTabla, Frames
<1>2. r # -1 => tabla[r].pid = p /\ tabla[r].pag = g
  <2> SUFFICES ASSUME r # -1 PROVE tabla[r].pid = p /\ tabla[r].pag = g
    OBVIOUS
  <2>1. r \in Frames /\ EsPagina(r) /\ ClaveDe(r) = k
    BY <1>1 DEF Estructura, Vivas
  <2>2. tabla[r].pid \in Pids /\ tabla[r].pag \in Pags
    BY <2>1, PaginaTipo DEF Estructura, EsPagina
  <2> QED
    BY <2>1, <2>2 DEF ClavesDistintas, ClaveDe
<1>3. PosPaginaSolicitada(p, g) = IF EsMarcoCorrecto(p, g, h) THEN h ELSE r
  BY DEF PosPaginaSolicitada, BuscarMarcoColision
<1>4. ASSUME NEW m \in Frames, tabla[m].pid = p, tabla[m].pag = g
      PROVE  PosPaginaSolicitada(p, g) = m
  <2>1. EsPagina(m) /\ HashDe(m) = h /\ ClaveDe(m) = k
    BY <1>4 DEF EsPagina, HashDe, ClaveDe
  <2>2. h = m \/ r = m
    BY <2>1 DEF Estructura, Ubicadas
  <2>3. EsMarcoCorrecto(p, g, h) => h = m
    BY <1>1, <1>4, <2>1 DEF EsMarcoCorrecto, Estructura, UnMarcoPorPagina
  <2>4. h = m => EsMarcoCorrecto(p, g, h)
    BY <1>4 DEF EsMarcoCorrecto
  <2> QED
    BY <1>3, <2>2, <2>3, <2>4
<1> QED
  BY <1>1, <1>2, <1>3, <1>4 DEF EsMarcoCorrecto

(* Releasing a page empties its frame and, if it was there because of a     *)
(* collision, the dictionary entry that named it.                           *)
LEMMA LiberarEstructura ==
  ASSUME ClavesDistintas, TiposTabla, Estructura, NEW p \in Pids, NEW g \in Pags,
         PosPaginaSolicitada(p, g) # -1, LiberarUnaPagina(p, g)
  PROVE  TiposTabla' /\ Estructura'
<1> DEFINE h == Hash(p, g)
           k == Clave(p, g)
<1>0. PICK x \in Frames : x = PosPaginaSolicitada(p, g)
  BY BusquedaExacta
<1>1. /\ x \in Frames /\ tabla[x].pid = p /\ tabla[x].pag = g
      /\ EsPagina(x) /\ HashDe(x) = h /\ ClaveDe(x) = k
  BY <1>0, BusquedaExacta DEF EsPagina, HashDe, ClaveDe
<1>2. h \in Frames /\ k \in Claves /\ x >= MarcosTabla /\ -1 \notin Pids
  BY <1>1, HashTipo, ClaveEnClaves, PaginaTipo DEF Estructura
<1>3. tabla' = [tabla EXCEPT ![x] = Libre]
  BY <1>0 DEF LiberarUnaPagina
<1>4. colisiones' = IF x = h THEN colisiones ELSE [colisiones EXCEPT ![h][k] = -1]
  <2>1. EsMarcoCorrecto(p, g, h) <=> x = h
    BY <1>0, <1>1, <1>2, BusquedaExacta DEF EsMarcoCorrecto
  <2> QED
    BY <2>1 DEF LiberarUnaPagina
<1> HIDE DEF h, k
<1>5. tabla'[x] = Libre /\ \A m \in Frames \ {x} : tabla'[m] = tabla[m]
  BY <1>1, <1>3 DEF TiposTabla
<1>6. TiposTabla'
  <2>1. Libre \in [estado : {0, 1}, pid : Pids \cup {-1}, pag : -1 .. MaxPag \cup Frames]
    BY ConstantesOK DEF Libre
  <2>2. tabla' \in [Frames -> [estado : {0, 1}, pid : Pids \cup {-1},
                              pag : -1 .. MaxPag \cup Frames]]
    BY <1>3, <2>1 DEF TiposTabla
  <2>3. colisiones[h] \in [Claves -> Frames \cup {-1}]
    BY <1>2 DEF TiposTabla
  <2>4. [colisiones[h] EXCEPT ![k] = -1] \in [Claves -> Frames \cup {-1}]
    BY <2>3
  <2>5. \/ colisiones' = colisiones
        \/ colisiones' = [colisiones EXCEPT ![h] = [colisiones[h] EXCEPT ![k] = -1]]
    BY <1>4
  <2>6. colisiones' \in [Frames -> [Claves -> Frames \cup {-1}]]
    BY <2>4, <2>5 DEF TiposTabla
  <2> QED
    BY <2>2, <2>6 DEF TiposTabla
<1>7. ~EsPagina(x)'
  BY <1>2, <1>5 DEF EsPagina, Libre
<1>8. \A m \in Frames \ {x} :
        /\ EsPagina(m)' <=> EsPagina(m)
        /\ ClaveDe(m)' = ClaveDe(m) /\ HashDe(m)' = HashDe(m)
  BY <1>5 DEF EsPagina, ClaveDe, HashDe
<1>9. \A h2 \in Frames, k2 \in Claves :
        \/ colisiones'[h2][k2] = colisiones[h2][k2]
        \/ h2 = h /\ k2 = k /\ colisiones'[h2][k2] = -1
  BY <1>2, <1>4 DEF TiposTabla
<1>10. EntradasOK'
  BY <1>2, <1>5, <1>1 DEF Estructura, EntradasOK, EsPagina, Libre
<1>11. Ubicadas'
  <2> SUFFICES ASSUME NEW m \in Frames, EsPagina(m)'
               PROVE  HashDe(m)' = m \/ colisiones'[HashDe(m)'][ClaveDe(m)'] = m
    BY DEF Ubicadas
  <2>1. m # x /\ EsPagina(m)
    BY <1>7, <1>8
  <2>2. HashDe(m) = m \/ colisiones[HashDe(m)][ClaveDe(m)] = m
    BY <2>1 DEF Estructura, Ubicadas
  <2>3. HashDe(m) \in Frames /\ ClaveDe(m) \in Claves /\ ClaveDe(m) # k
    <3>1. HashDe(m) \in Frames /\ ClaveDe(m) \in Claves /\ tabla[m].pag \in Pags
      BY <2>1, PaginaTipo DEF Estructura
    <3>2. ClaveDe(m) = k => tabla[m].pid = p /\ tabla[m].pag = g
      BY <2>1, <3>1 DEF ClavesDistintas, ClaveDe, EsPagina, k
    <3>3. ~ (tabla[m].pid = p /\ tabla[m].pag = g)
      BY <2>1, <1>1 DEF Estructura, UnMarcoPorPagina
    <3> QED
      BY <3>1, <3>2, <3>3
  <2>4. colisiones'[HashDe(m)][ClaveDe(m)] = colisiones[HashDe(m)][ClaveDe(m)]
    BY <2>3, <1>9
  <2> QED
    BY <2>1, <2>2, <2>4, <1>8
<1>12. Vivas'
  <2> SUFFICES ASSUME NEW h2 \in Frames, NEW m \in Frames, NEW k2 \in Claves,
                      colisiones'[h2][k2] = m
               PROVE  m # h2 /\ EsPagina(m)' /\ ClaveDe(m)' = k2 /\ HashDe(m)' = h2
    BY DEF Vivas
  <2>1. m # -1
    BY DEF Frames
  <2>2. colisiones[h2][k2] = m
    BY <2>1, <1>9
  <2>3. m # h2 /\ EsPagina(m) /\ ClaveDe(m) = k2 /\ HashDe(m) = h2
    BY <2>2 DEF Estructura, Vivas
  <2>4. m # x
    <3> SUFFICES ASSUME m = x PROVE FALSE
      OBVIOUS
    <3>1. h2 = h /\ k2 = k /\ x # h
      BY <2>3, <1>1
    <3>2. colisiones'[h][k] = -1
      BY <3>1, <1>2, <1>4 DEF TiposTabla
    <3> QED
      BY <3>1, <3>2, <2>1
  <2> QED
    BY <2>3, <2>4, <1>8
<1>13. UnMarcoPorPagina'
  BY <1>2, <1>5, <1>7 DEF Estructura, UnMarcoPorPagina, EsPagina, Libre
<1> QED
  BY <1>6, <1>10, <1>11, <1>12, <1>13 DEF Estructura

(* ... and it does nothing to any other frame. *)
LEMMA LiberarSoloQuita ==
  ASSUME TiposTabla, EntradasOK, NEW p \in Pids, NEW g \in Pags, LiberarUnaPagina(p, g)
  PROVE  \A m \in Frames : tabla'[m].pid \in Pids => tabla'[m] = tabla[m]
<1>1. -1 \notin Pids
  BY ConstantesOK
<1>2. tabla' = [tabla EXCEPT ![PosPaginaSolicitada(p, g)] = Libre]
  BY DEF LiberarUnaPagina
<1> HIDE DEF PosPaginaSolicitada
<1> QED
  BY <1>1, <1>2 DEF TiposTabla, Libre

LEMMA EstructuraIgual ==
  ASSUME TiposTabla, Estructura, UNCHANGED <<tabla, colisiones>>
  PROVE  /\ TiposTabla' /\ Estructura'
         /\ CantMarcosLibre' = CantMarcosLibre
<1>1. TiposTabla' /\ EntradasOK' /\ UnMarcoPorPagina'
  BY DEF TiposTabla, Estructura, EntradasOK, UnMarcoPorPagina, EsPagina
<1>2. Ubicadas'
  BY DEF Estructura, Ubicadas, EsPagina, HashDe, ClaveDe
<1>3. Vivas'
  BY DEF Estructura, Vivas, EsPagina, HashDe, ClaveDe
<1>4. CantMarcosLibre' = CantMarcosLibre
  BY DEF CantMarcosLibre, MarcoOcupado
<1> QED
  BY <1>1, <1>2, <1>3, <1>4 DEF Estructura

(* A frame taken is one free frame less. *)
LEMMA UnLibreMenos ==
  ASSUME TiposTabla, Estructura, NEW x \in Frames, tabla[x] = Libre, x >= MarcosTabla,
         NEW e, e.estado = 1, tabla' = [tabla EXCEPT ![x] = e]
  PROVE  CantMarcosLibre' = CantMarcosLibre - 1
<1>1. x \in LibresDeProcesos
  BY ConstantesOK DEF LibresDeProcesos, MarcoOcupado, Libre, Frames
<1>2. LibresDeProcesos' = LibresDeProcesos \ {x}
  <2>1. MarcosTabla .. (Marcos - 1) \subseteq Frames
    BY ConstantesOK DEF Frames
  <2>2. \A m \in Frames : MarcoOcupado(m)' <=> m = x \/ MarcoOcupado(m)
    BY DEF MarcoOcupado, TiposTabla
  <2> HIDE DEF MarcoOcupado
  <2> QED
    BY <2>1, <2>2 DEF LibresDeProcesos
<1>3. CantMarcosLibre' = Cardinality(LibresDeProcesos \ {x})
  BY <1>2 DEF CantMarcosLibre, LibresDeProcesos
<1> QED
  BY <1>1, <1>3, LibresFinito, FS_RemoveElement

-----------------------------------------------------------------------------
(* Every action keeps the invariant *)

(* What the invariant says of the request being served, field by field. *)
LEMMA SinPedidoTipo == SinPedido \in [op : Operaciones, pid : Pids \cup {-1}, cant : Nat, total : Nat,
                                      pag : -1 .. MaxPag + 1]
<1>1. MaxPag \in Nat
  BY ConstantesOK
<1>2. 0 \in Nat /\ -1 \in -1 .. MaxPag + 1 /\ 0 \in -1 .. MaxPag + 1
  BY <1>1
<1> QED
  BY <1>2 DEF SinPedido, Operaciones

LEMMA PedidoTipo ==
  ASSUME TiposResto
  PROVE  /\ pedido.op \in Operaciones /\ pedido.pid \in Pids \cup {-1}
         /\ pedido.cant \in Nat /\ pedido.total \in Nat
         /\ pedido.pag \in -1 .. MaxPag + 1
         /\ \A p \in Pids : /\ cantPaginas[p] \in Nat \cup {-1}
                            /\ ultimaPagAsig[p] \in -1 .. MaxPag
BY DEF TiposResto

LEMMA Inicio == Init => IInv
<1> SUFFICES ASSUME Init PROVE IInv
  OBVIOUS
<1>1. \A m \in Frames : tabla[m].pid = -1
  BY DEF Init, Libre
<1>2. TiposTabla
  BY ConstantesOK DEF Init, TiposTabla, Libre, Frames
<1>3. TiposResto
  BY ConstantesOK DEF Init, TiposResto, SinPedido, Operaciones
<1>4. -1 \notin Pids /\ -1 \notin Frames
  BY ConstantesOK DEF Frames
<1>5. EntradasOK
  BY ConstantesOK DEF Init, EntradasOK, Libre, Frames
<1>6. Ubicadas /\ UnMarcoPorPagina
  BY <1>1, <1>4 DEF Ubicadas, UnMarcoPorPagina, EsPagina
<1>7. Vivas
  BY <1>4 DEF Init, Vivas
<1>8. Tope /\ Progreso /\ MarcosAlcanzan /\ ListadosUsados
  BY DEF Init, SinPedido, Tope, Colocando, Progreso, MarcosAlcanzan, ListadosUsados
<1>9. BajoUltima
  BY <1>1, <1>4 DEF BajoUltima, EsPagina
<1> QED
  BY <1>2, <1>3, <1>5, <1>6, <1>7, <1>8, <1>9 DEF IInv, Estructura

LEMMA PasoK06 ==
  ASSUME IInv, NEW p \in Pids, NEW cod \in PagsCodigo, K06(p, cod)
  PROVE  IInv'
<1>1. TiposTabla' /\ Estructura' /\ CantMarcosLibre' = CantMarcosLibre
  BY EstructuraIgual DEF IInv, K06
<1>2. cod \in Nat /\ StackSize \in Nat /\ MaxPag \in Nat /\ p \in Nat
  BY ConstantesOK
<1>3. fijas[p] = -1
  BY <1>2 DEF K06
<1>4. \A m \in Frames : tabla[m].pid # p
  BY <1>3 DEF IInv, BajoUltima, EsPagina
<1>5. MaxPaginaPid(p) = -1
  BY <1>4, MaxPaginaCota DEF IInv, Estructura
<1>6. /\ tabla' = tabla /\ cantPaginas' = cantPaginas /\ ultimaPagAsig' = ultimaPagAsig
      /\ fijas' = [fijas EXCEPT ![p] = cod + StackSize]
      /\ pedido.op = "nada" /\ cod + StackSize - 1 <= MaxPag
      /\ \/ pedido' = pedido
         \/ /\ CantMarcosLibre >= cod + StackSize
            /\ pedido' = [op |-> "codigo", pid |-> p, cant |-> cod, total |-> cod, pag |-> -1]
  BY <1>5 DEF K06
<1>7. TiposResto'
  BY <1>2, <1>6 DEF IInv, TiposResto, K06, Operaciones
<1>8. Tope'
  BY <1>4, <1>6 DEF Tope, Colocando
<1>9. \A q \in Pids : fijas[q] # -1 => fijas'[q] # -1
  BY <1>2, <1>6 DEF IInv, TiposResto
<1>10. Progreso'
  <2>1. fijas'[p] # -1
    BY <1>2, <1>6 DEF IInv, TiposResto
  <2> QED
    BY <1>2, <1>6, <2>1 DEF Progreso
<1>11. BajoUltima'
  BY <1>4, <1>6, <1>9 DEF IInv, BajoUltima, EsPagina, Colocando
<1>12. ListadosUsados'
  BY <1>6, <1>9 DEF IInv, ListadosUsados
<1>13. MarcosAlcanzan'
  BY <1>1, <1>2, <1>6 DEF MarcosAlcanzan
<1> QED
  BY <1>1, <1>7, <1>8, <1>10, <1>11, <1>12, <1>13 DEF IInv

LEMMA PasoK19 ==
  ASSUME IInv, NEW p \in Pids, NEW n \in PagsHeap, K19(p, n)
  PROVE  IInv'
<1>1. TiposTabla' /\ Estructura' /\ CantMarcosLibre' = CantMarcosLibre
  BY EstructuraIgual DEF IInv, K19
<1>2. n \in Nat /\ MaxPag \in Nat
  BY ConstantesOK
<1>3. /\ MaxPaginaPid(p) \in -1 .. MaxPag
      /\ \A m \in Frames : tabla[m].pid = p => tabla[m].pag <= MaxPaginaPid(p)
      /\ MaxPaginaPid(p) # -1 =>
           \E m \in Frames : tabla[m].pid = p /\ tabla[m].pag = MaxPaginaPid(p)
  BY MaxPaginaCota DEF IInv, Estructura
<1>4. /\ UNCHANGED <<tabla, cantPaginas, ultimaPagAsig, fijas, ultimo>>
      /\ pedido.op = "nada" /\ cantPaginas[p] # -1 /\ ultimaPagAsig[p] + n <= MaxPag
      /\ CantMarcosLibre >= n
      /\ pedido' = [op |-> "heap", pid |-> p, cant |-> n, total |-> n, pag |-> MaxPaginaPid(p)]
  BY DEF K19
<1> HIDE DEF K19
<1>5. ultimaPagAsig[p] \in -1 .. MaxPag
  BY DEF IInv, TiposResto
<1>6. MaxPaginaPid(p) <= ultimaPagAsig[p]
  BY <1>3, <1>4, <1>5 DEF IInv, BajoUltima, EsPagina, Colocando
<1> DEFINE mp == MaxPaginaPid(p)
<1> HIDE DEF mp
<1>7. TiposResto'
  BY <1>2, <1>3, <1>4 DEF IInv, TiposResto, Operaciones
<1>8. Tope'
  BY <1>3, <1>4 DEF Tope
<1>9. Progreso'
  BY <1>2, <1>3, <1>4, <1>5, <1>6 DEF IInv, Progreso, ListadosUsados
<1>10. BajoUltima'
  BY <1>4 DEF IInv, BajoUltima, EsPagina, Colocando
<1>11. ListadosUsados' /\ MarcosAlcanzan'
  BY <1>1, <1>2, <1>4 DEF IInv, ListadosUsados, MarcosAlcanzan
<1> QED
  BY <1>1, <1>7, <1>8, <1>9, <1>10, <1>11 DEF IInv

LEMMA PasoUbicarPagina ==
  ASSUME ClavesDistintas, IInv, UbicarPagina
  PROVE  IInv'
<1> DEFINE p == pedido.pid
           g == pedido.pag + 1
<1>1. /\ Colocando /\ pedido.cant > 0 /\ Ubicar(p, g)
      /\ pedido' = [pedido EXCEPT !.cant = @ - 1, !.pag = @ + 1]
      /\ UNCHANGED <<cantPaginas, ultimaPagAsig, fijas>>
  BY DEF UbicarPagina, Colocando
<1>2. /\ p \in Pids /\ fijas[p] # -1 /\ pedido.cant \in Nat /\ pedido.pag \in -1 .. MaxPag + 1
      /\ pedido.total \in Nat /\ ultimaPagAsig[p] \in -1 .. MaxPag
      /\ StackSize \in Nat /\ MaxPag \in Nat
  <2>1. p \in Pids /\ fijas[p] # -1
    BY <1>1 DEF IInv, Progreso, Colocando
  <2>2. StackSize \in Nat /\ MaxPag \in Nat
    BY ConstantesOK
  <2> QED
    BY <2>1, <2>2, PedidoTipo DEF IInv
<1>3. g \in 0 .. MaxPag
  BY <1>1, <1>2 DEF IInv, Progreso, Colocando
<1>4. CantMarcosLibre > 0 /\ CantMarcosLibre \in Nat
  BY <1>1, <1>2, LibresFinito DEF IInv, MarcosAlcanzan, Colocando
<1>5. \A m \in Frames : ~(tabla[m].pid = p /\ tabla[m].pag = g)
  BY <1>1, <1>2 DEF IInv, Tope
<1>6. PICK x \in Frames :
        /\ tabla[x] = Libre /\ x >= MarcosTabla
        /\ tabla' = [tabla EXCEPT ![x] = [estado |-> 1, pid |-> p, pag |-> g]]
        /\ \/ x = Hash(p, g) /\ colisiones' = colisiones
           \/ /\ x # Hash(p, g)
              /\ colisiones' = [colisiones EXCEPT ![Hash(p, g)][Clave(p, g)] = x]
        /\ ultimo' \in 0 .. Marcos
  <2>1. g \in Pags
    BY <1>3, PagEnPags
  <2>2. TiposTabla /\ Estructura /\ ultimo \in 0 .. Marcos
    BY DEF IInv, TiposResto
  <2> HIDE DEF p, g
  <2> QED
    BY <1>1, <1>2, <1>4, <2>1, <2>2, UbicarEfecto
<1>7. TiposTabla' /\ Estructura'
  <2>1. TiposTabla /\ Estructura
    BY DEF IInv
  <2>2. p \in Pids
    BY <1>2
  <2> HIDE DEF p, g
  <2>3. /\ tabla[x] = Libre /\ x >= MarcosTabla
        /\ tabla' = [tabla EXCEPT ![x] = [estado |-> 1, pid |-> p, pag |-> g]]
        /\ \/ x = Hash(p, g) /\ colisiones' = colisiones
           \/ /\ x # Hash(p, g)
              /\ colisiones' = [colisiones EXCEPT ![Hash(p, g)][Clave(p, g)] = x]
    BY <1>6
  <2> QED
    BY <1>3, <1>5, <2>1, <2>2, <2>3, UbicarEstructura
<1>8. CantMarcosLibre' = CantMarcosLibre - 1
  BY <1>6, UnLibreMenos DEF IInv
<1>9. /\ tabla'[x] = [estado |-> 1, pid |-> p, pag |-> g]
      /\ \A m \in Frames \ {x} : tabla'[m] = tabla[m]
  BY <1>6 DEF IInv, TiposTabla
<1>10. /\ pedido'.op = pedido.op /\ pedido'.pid = p /\ pedido'.total = pedido.total
       /\ pedido'.cant = pedido.cant - 1 /\ pedido'.pag = g
  BY <1>1 DEF IInv, TiposResto
<1>11. TiposResto'
  <2>1. pedido'.cant \in Nat /\ pedido'.pag \in -1 .. MaxPag + 1
    BY <1>1, <1>2, <1>3, <1>10
  <2>2. pedido' \in [op : Operaciones, pid : Pids \cup {-1}, cant : Nat, total : Nat,
                     pag : -1 .. MaxPag + 1]
    BY <1>1, <2>1 DEF IInv, TiposResto
  <2> QED
    BY <1>1, <1>6, <2>2 DEF IInv, TiposResto
<1>12. Tope'
  <2> SUFFICES ASSUME NEW m \in Frames, tabla'[m].pid = p PROVE tabla'[m].pag <= g
    BY <1>10 DEF Tope
  <2>1. CASE m = x
    BY <2>1, <1>2, <1>9
  <2>2. CASE m # x
    <3>1. tabla[m].pid = p /\ tabla'[m].pag = tabla[m].pag
      BY <2>2, <1>9
    <3>2. tabla[m].pag <= pedido.pag
      BY <1>1, <3>1 DEF IInv, Tope
    <3>3. tabla[m].pag \in 0 .. MaxPag
      BY <1>2, <3>1, PaginaTipo DEF IInv, Estructura, EsPagina
    <3> QED
      BY <1>2, <3>1, <3>2, <3>3
  <2> QED
    BY <2>1, <2>2
<1>13. Progreso'
  BY <1>1, <1>2, <1>10 DEF IInv, Progreso, Colocando
<1>14. BajoUltima'
  <2> SUFFICES ASSUME NEW m \in Frames, tabla'[m].pid \in Pids
               PROVE  LET q == tabla'[m].pid
                      IN  /\ fijas[q] # -1
                          /\ cantPaginas[q] # -1 /\ q # p => tabla'[m].pag <= ultimaPagAsig[q]
    BY <1>1, <1>10 DEF BajoUltima, EsPagina, Colocando
  <2>1. CASE m = x
    BY <2>1, <1>2, <1>9
  <2>2. CASE m # x
    BY <2>2, <1>1, <1>9 DEF IInv, BajoUltima, EsPagina
  <2> QED
    BY <2>1, <2>2
<1>15. ListadosUsados'
  BY <1>1 DEF IInv, ListadosUsados
<1>16. MarcosAlcanzan'
  BY <1>1, <1>2, <1>4, <1>8, <1>10 DEF IInv, MarcosAlcanzan, Colocando
<1> QED
  BY <1>7, <1>11, <1>12, <1>13, <1>14, <1>15, <1>16 DEF IInv

LEMMA PasoCrearProceso ==
  ASSUME IInv, CrearProceso
  PROVE  IInv'
<1> DEFINE p == pedido.pid
<1>1. TiposTabla' /\ Estructura' /\ CantMarcosLibre' = CantMarcosLibre
  BY EstructuraIgual DEF IInv, CrearProceso
<1>2. /\ pedido.op = "codigo" /\ pedido.cant = 0 /\ p \in Pids /\ fijas[p] # -1
      /\ pedido.total \in Nat /\ pedido.pag \in -1 .. MaxPag + 1
      /\ pedido.pag <= pedido.total - 1 /\ pedido.total + StackSize - 1 <= MaxPag
      /\ StackSize \in Nat /\ MaxPag \in Nat
  <2>1. pedido.op = "codigo" /\ pedido.cant = 0
    BY DEF CrearProceso
  <2>2. StackSize \in Nat /\ MaxPag \in Nat
    BY ConstantesOK
  <2>3. /\ p \in Pids /\ fijas[p] # -1 /\ pedido.pag + pedido.cant <= pedido.total - 1
        /\ pedido.total + StackSize - 1 <= MaxPag
    BY <2>1 DEF IInv, Progreso
  <2>4. pedido.total \in Nat /\ pedido.pag \in -1 .. MaxPag + 1
    BY PedidoTipo DEF IInv
  <2> QED
    BY <2>1, <2>2, <2>3, <2>4
<1>3. /\ MaxPaginaPid(p) \in -1 .. MaxPag
      /\ \A m \in Frames : tabla[m].pid = p => tabla[m].pag <= MaxPaginaPid(p)
      /\ MaxPaginaPid(p) # -1 =>
           \E m \in Frames : tabla[m].pid = p /\ tabla[m].pag = MaxPaginaPid(p)
  BY <1>2, MaxPaginaCota DEF IInv, Estructura
<1>4. MaxPaginaPid(p) <= pedido.total - 1
  BY <1>2, <1>3 DEF IInv, Tope, Colocando
<1>5. /\ UNCHANGED <<tabla, fijas, ultimo>>
      /\ cantPaginas' = [cantPaginas EXCEPT ![p] = pedido.total]
      /\ ultimaPagAsig' = [ultimaPagAsig EXCEPT ![p] = pedido.total - 1]
      /\ pedido'.op = "stack" /\ pedido'.pid = p /\ pedido'.cant = StackSize
      /\ pedido'.total = StackSize /\ pedido'.pag = MaxPaginaPid(p)
  BY DEF CrearProceso, IInv, TiposResto
<1>6. TiposResto'
  <2>1. pedido' \in [op : Operaciones, pid : Pids \cup {-1}, cant : Nat, total : Nat,
                     pag : -1 .. MaxPag + 1]
    <3>1. MaxPaginaPid(p) \in -1 .. MaxPag + 1
      BY <1>2, <1>3
    <3>2. pedido \in [op : Operaciones, pid : Pids \cup {-1}, cant : Nat, total : Nat,
                      pag : -1 .. MaxPag + 1]
      BY DEF IInv, TiposResto
    <3>3. pedido' = [pedido EXCEPT !.op = "stack", !.cant = StackSize,
                                   !.total = StackSize, !.pag = MaxPaginaPid(p)]
      BY DEF CrearProceso
    <3> QED
      BY <1>2, <3>1, <3>2, <3>3 DEF Operaciones
  <2>2. pedido.total - 1 \in -1 .. MaxPag
    BY <1>2
  <2> QED
    BY <1>2, <1>5, <2>1, <2>2 DEF IInv, TiposResto
<1>7. Tope'
  BY <1>3, <1>5 DEF Tope
<1>8. Progreso'
  BY <1>2, <1>3, <1>4, <1>5 DEF IInv, TiposResto, Progreso
<1>9. BajoUltima'
  BY <1>2, <1>5 DEF IInv, TiposResto, BajoUltima, EsPagina, Colocando
<1>10. ListadosUsados'
  BY <1>2, <1>5 DEF IInv, TiposResto, ListadosUsados
<1>11. MarcosAlcanzan'
  BY <1>1, <1>2, <1>5 DEF IInv, MarcosAlcanzan
<1> QED
  BY <1>1, <1>6, <1>7, <1>8, <1>9, <1>10, <1>11 DEF IInv

LEMMA PasoActualizarPaginas ==
  ASSUME IInv, ActualizarPaginas
  PROVE  IInv'
<1> DEFINE p == pedido.pid
<1>1. TiposTabla' /\ Estructura'
  BY EstructuraIgual DEF IInv, ActualizarPaginas
<1>2. /\ pedido.op \in {"stack", "heap"} /\ pedido.cant = 0 /\ p \in Pids /\ Colocando
      /\ fijas[p] # -1 /\ cantPaginas[p] \in Nat
      /\ pedido.total \in Nat /\ pedido.pag \in -1 .. MaxPag + 1
      /\ ultimaPagAsig[p] \in -1 .. MaxPag
      /\ pedido.pag <= ultimaPagAsig[p] + pedido.total
      /\ ultimaPagAsig[p] + pedido.total <= MaxPag
  <2>1. pedido.op \in {"stack", "heap"} /\ pedido.cant = 0 /\ Colocando
    BY DEF ActualizarPaginas, Colocando
  <2>2. /\ p \in Pids /\ fijas[p] # -1 /\ cantPaginas[p] # -1
        /\ pedido.pag + pedido.cant <= ultimaPagAsig[p] + pedido.total
        /\ ultimaPagAsig[p] + pedido.total <= MaxPag
    BY <2>1 DEF IInv, Progreso
  <2>3. pedido.total \in Nat /\ pedido.pag \in -1 .. MaxPag + 1
    BY PedidoTipo DEF IInv
  <2>4. cantPaginas[p] \in Nat /\ ultimaPagAsig[p] \in -1 .. MaxPag
    BY <2>2, PedidoTipo DEF IInv
  <2>5. MaxPag \in Nat
    BY ConstantesOK
  <2> QED
    BY <2>1, <2>2, <2>3, <2>4, <2>5
<1>3. /\ UNCHANGED <<tabla, fijas, ultimo>> /\ pedido' = SinPedido
      /\ cantPaginas' = [cantPaginas EXCEPT ![p] = @ + pedido.total]
      /\ ultimaPagAsig' = [ultimaPagAsig EXCEPT ![p] = @ + pedido.total]
  BY DEF ActualizarPaginas
<1>4. TiposResto'
  <2>1. pedido' \in [op : Operaciones, pid : Pids \cup {-1}, cant : Nat, total : Nat,
                     pag : -1 .. MaxPag + 1]
    <3>1. SinPedido \in [op : Operaciones, pid : Pids \cup {-1}, cant : Nat, total : Nat,
                         pag : -1 .. MaxPag + 1]
      BY SinPedidoTipo
    <3> QED
      BY <1>3, <3>1
  <2>2. /\ ultimaPagAsig[p] + pedido.total \in -1 .. MaxPag
        /\ cantPaginas[p] + pedido.total \in Nat
    BY <1>2
  <2> QED
    BY <1>2, <1>3, <2>1, <2>2 DEF IInv, TiposResto
<1>5. \A m \in Frames : tabla[m].pid = p => tabla[m].pag <= ultimaPagAsig'[p]
  <2> SUFFICES ASSUME NEW m \in Frames, tabla[m].pid = p
               PROVE  tabla[m].pag <= ultimaPagAsig'[p]
    OBVIOUS
  <2>1. tabla[m].pag \in 0 .. MaxPag /\ tabla[m].pag <= pedido.pag
    BY <1>2, PaginaTipo DEF IInv, Estructura, EsPagina, Tope
  <2>2. ultimaPagAsig'[p] = ultimaPagAsig[p] + pedido.total
    BY <1>2, <1>3 DEF IInv, TiposResto
  <2> QED
    BY <1>2, <2>1, <2>2
<1>6. \A q \in Pids : q # p => /\ ultimaPagAsig'[q] = ultimaPagAsig[q]
                              /\ cantPaginas'[q] = cantPaginas[q]
  BY <1>3 DEF IInv, TiposResto
<1>7. BajoUltima'
  BY <1>2, <1>3, <1>5, <1>6 DEF IInv, BajoUltima, EsPagina
<1>8. ListadosUsados'
  BY <1>2, <1>3, <1>6 DEF IInv, ListadosUsados
<1>9. Tope' /\ Progreso' /\ MarcosAlcanzan'
  BY <1>3 DEF SinPedido, Tope, Colocando, Progreso, MarcosAlcanzan
<1> QED
  BY <1>1, <1>4, <1>7, <1>8, <1>9 DEF IInv

LEMMA PasoK24 ==
  ASSUME ClavesDistintas, IInv, NEW p \in Pids, NEW g \in 0 .. MaxPag, K24(p, g)
  PROVE  IInv'
<1>1. /\ pedido.op = "nada" /\ cantPaginas[p] # -1
      /\ \E m \in MarcosDe(p) : tabla[m].pag = g
      /\ cantPaginas' = [cantPaginas EXCEPT ![p] = @ - 1]
      /\ UNCHANGED <<ultimo, ultimaPagAsig, pedido, fijas>>
  BY DEF K24
<1>2. PosPaginaSolicitada(p, g) # -1
  <2>1. g \in Pags /\ -1 \notin Frames
    BY PagEnPags DEF Frames
  <2> QED
    BY <1>1, <2>1, BusquedaExacta DEF IInv, MarcosDe
<1>3. LiberarUnaPagina(p, g)
  BY <1>2 DEF K24
<1>4. TiposTabla' /\ Estructura'
  BY <1>2, <1>3, PagEnPags, LiberarEstructura DEF IInv
<1>5. BajoUltima' /\ ListadosUsados'
  <2>1. \A m \in Frames : EsPagina(m)' => tabla'[m] = tabla[m] /\ EsPagina(m)
    BY <1>3, PagEnPags, LiberarSoloQuita DEF IInv, Estructura, EsPagina
  <2>2. \A q \in Pids : cantPaginas'[q] # -1 => cantPaginas[q] # -1
    BY <1>1 DEF IInv, TiposResto
  <2>3. BajoUltima'
    BY <1>1, <2>1, <2>2 DEF IInv, BajoUltima, EsPagina, Colocando
  <2> QED
    BY <1>1, <2>2, <2>3 DEF IInv, ListadosUsados
<1>6. TiposResto'
  <2>1. cantPaginas[p] \in Nat
    BY <1>1, PedidoTipo DEF IInv
  <2>2. cantPaginas' \in [Pids -> Nat \cup {-1}]
    BY <1>1, <2>1 DEF IInv, TiposResto
  <2> QED
    BY <1>1, <2>2 DEF IInv, TiposResto
<1>7. Tope' /\ Progreso' /\ MarcosAlcanzan'
  BY <1>1 DEF Tope, Colocando, Progreso, MarcosAlcanzan
<1> QED
  BY <1>4, <1>5, <1>6, <1>7 DEF IInv

LEMMA PasoK25 ==
  ASSUME IInv, NEW p \in Pids, K25(p)
  PROVE  IInv'
<1>1. TiposTabla' /\ Estructura'
  BY EstructuraIgual DEF IInv, K25
<1>2. cantPaginas[p] \in Nat /\ cantPaginas[p] # -1 /\ fijas[p] # -1
  BY PedidoTipo DEF IInv, K25, ListadosUsados
<1>3. /\ UNCHANGED <<tabla, ultimo, cantPaginas, ultimaPagAsig, fijas>>
      /\ pedido.op = "nada"
      /\ pedido' = [op |-> "liberar", pid |-> p, cant |-> cantPaginas[p],
                    total |-> cantPaginas[p], pag |-> 0]
  BY DEF K25
<1>4. TiposResto'
  BY <1>2, <1>3, ConstantesOK DEF IInv, TiposResto, Operaciones
<1>5. Tope' /\ MarcosAlcanzan'
  BY <1>3 DEF Tope, Colocando, MarcosAlcanzan
<1>6. Progreso' /\ ListadosUsados'
  BY <1>2, <1>3 DEF IInv, Progreso, ListadosUsados
<1>7. BajoUltima'
  BY <1>3 DEF IInv, BajoUltima, EsPagina, Colocando
<1> QED
  BY <1>1, <1>4, <1>5, <1>6, <1>7 DEF IInv

LEMMA PasoLiberarPagina ==
  ASSUME ClavesDistintas, IInv, LiberarPagina
  PROVE  IInv'
<1> DEFINE p == pedido.pid
           g == pedido.pag
           hallada == PosPaginaSolicitada(p, g) # -1
<1>1. /\ pedido.op = "liberar" /\ pedido.cant > 0
      /\ IF hallada THEN LiberarUnaPagina(p, g) ELSE UNCHANGED <<tabla, colisiones>>
      /\ pedido' = [pedido EXCEPT !.cant = IF hallada THEN @ - 1 ELSE @,
                                  !.pag  = IF @ <= MaxPag THEN @ + 1 ELSE @]
      /\ UNCHANGED <<ultimo, cantPaginas, ultimaPagAsig, fijas>>
  BY DEF LiberarPagina
<1>2. MaxPag \in Nat
  BY ConstantesOK
<1>3. /\ p \in Pids /\ g \in Pags /\ g >= 0 /\ pedido.cant \in Nat
      /\ cantPaginas[p] # -1 /\ fijas[p] # -1
  BY <1>1, <1>2, PedidoTipo DEF IInv, Progreso, Pags
<1>4. /\ TiposTabla' /\ Estructura'
      /\ \A m \in Frames : EsPagina(m)' => tabla'[m] = tabla[m] /\ EsPagina(m)
  <2> HIDE DEF p, g
  <2>1. CASE hallada
    <3>1. TiposTabla' /\ Estructura'
      BY <1>1, <1>3, <2>1, LiberarEstructura DEF IInv
    <3> QED
      BY <1>1, <1>3, <2>1, <3>1, LiberarSoloQuita DEF IInv, Estructura, EsPagina
  <2>2. CASE ~hallada
    <3>1. TiposTabla' /\ Estructura'
      BY <1>1, <2>2, EstructuraIgual DEF IInv
    <3> QED
      BY <1>1, <2>2, <3>1 DEF EsPagina
  <2> QED
    BY <2>1, <2>2
<1> HIDE DEF hallada
<1>5. /\ pedido'.op = "liberar" /\ pedido'.pid = p /\ pedido'.cant \in Nat
      /\ pedido'.total = pedido.total /\ pedido'.pag \in 0 .. MaxPag + 1
  <2>1. (IF g <= MaxPag THEN g + 1 ELSE g) \in 0 .. MaxPag + 1
    BY <1>2, <1>3 DEF Pags
  <2>2. (IF hallada THEN pedido.cant - 1 ELSE pedido.cant) \in Nat
    BY <1>1, <1>3
  <2> QED
    BY <1>1, <2>1, <2>2 DEF IInv, TiposResto
<1>6. TiposResto'
  <2>1. pedido' \in [op : Operaciones, pid : Pids \cup {-1}, cant : Nat, total : Nat,
                     pag : -1 .. MaxPag + 1]
    <3>1. (IF hallada THEN pedido.cant - 1 ELSE pedido.cant) \in Nat
      BY <1>1, <1>3
    <3>2. (IF g <= MaxPag THEN g + 1 ELSE g) \in -1 .. MaxPag + 1
      BY <1>2, <1>3 DEF Pags
    <3> QED
      BY <1>1, <3>1, <3>2 DEF IInv, TiposResto
  <2> QED
    BY <1>1, <2>1 DEF IInv, TiposResto
<1>7. Tope' /\ MarcosAlcanzan'
  BY <1>5 DEF Tope, Colocando, MarcosAlcanzan
<1>8. Progreso' /\ ListadosUsados'
  BY <1>1, <1>3, <1>5 DEF IInv, Progreso, ListadosUsados
<1>9. BajoUltima'
  BY <1>1, <1>4, <1>5 DEF IInv, BajoUltima, EsPagina, Colocando
<1> QED
  BY <1>4, <1>6, <1>7, <1>8, <1>9 DEF IInv

LEMMA PasoEliminarProceso ==
  ASSUME IInv, EliminarProceso
  PROVE  IInv'
<1> DEFINE p == pedido.pid
<1>1. TiposTabla' /\ Estructura'
  BY EstructuraIgual DEF IInv, EliminarProceso
<1>2. p \in Pids /\ pedido.op = "liberar"
  BY DEF IInv, Progreso, EliminarProceso
<1>3. /\ UNCHANGED <<tabla, ultimo, fijas>> /\ pedido' = SinPedido
      /\ cantPaginas' = [cantPaginas EXCEPT ![p] = -1]
      /\ ultimaPagAsig' = [ultimaPagAsig EXCEPT ![p] = -1]
  BY DEF EliminarProceso
<1>4. TiposResto'
  <2>1. pedido' \in [op : Operaciones, pid : Pids \cup {-1}, cant : Nat, total : Nat,
                     pag : -1 .. MaxPag + 1]
    BY <1>3, ConstantesOK DEF SinPedido, Operaciones
  <2>2. -1 \in -1 .. MaxPag
    BY ConstantesOK
  <2> QED
    BY <1>3, <2>1, <2>2 DEF IInv, TiposResto
<1>5. \A q \in Pids : cantPaginas'[q] # -1 =>
        cantPaginas[q] # -1 /\ ultimaPagAsig'[q] = ultimaPagAsig[q]
  BY <1>2, <1>3 DEF IInv, TiposResto
<1>6. BajoUltima'
  BY <1>2, <1>3, <1>5 DEF IInv, BajoUltima, EsPagina, Colocando
<1>7. ListadosUsados'
  BY <1>3, <1>5 DEF IInv, ListadosUsados
<1>8. Tope' /\ Progreso' /\ MarcosAlcanzan'
  BY <1>3 DEF SinPedido, Tope, Colocando, Progreso, MarcosAlcanzan
<1> QED
  BY <1>1, <1>4, <1>6, <1>7, <1>8 DEF IInv

LEMMA Paso ==
  ASSUME ClavesDistintas, IInv, [Next]_vars
  PROVE  IInv'
<1>1. CASE UNCHANGED vars
  <2>1. TiposTabla' /\ Estructura' /\ CantMarcosLibre' = CantMarcosLibre
    BY <1>1, EstructuraIgual DEF IInv, vars
  <2>2. TiposResto' /\ Tope' /\ Progreso' /\ ListadosUsados'
    BY <1>1 DEF vars, IInv, TiposResto, Tope, Colocando, Progreso, ListadosUsados
  <2>3. BajoUltima' /\ MarcosAlcanzan'
    BY <1>1, <2>1 DEF vars, IInv, BajoUltima, EsPagina, Colocando, MarcosAlcanzan
  <2> QED
    BY <2>1, <2>2, <2>3 DEF IInv
<1>2. CASE Next
  BY <1>2, PasoK06, PasoK19, PasoK24, PasoK25, PasoUbicarPagina, PasoCrearProceso,
     PasoActualizarPaginas, PasoLiberarPagina, PasoEliminarProceso DEF Next, Atender
<1> QED
  BY <1>1, <1>2

-----------------------------------------------------------------------------
(* Theorems *)

(* The table is well formed at every moment of every request: each page in  *)
(* its hash frame or in the dictionary of that frame, no stale collisions,  *)
(* one frame per page, and requests within what was admitted.               *)
THEOREM Invariante ==
  ASSUME ClavesDistintas
  PROVE  Spec => []IInv
<1>1. IInv /\ [Next]_vars => IInv'
  BY Paso
<1> QED
  BY Inicio, <1>1, PTL DEF Spec

(* Every number the code of Memoria computes for the table stays in range.  *)
THEOREM TypeCorrect ==
  ASSUME ClavesDistintas
  PROVE  Spec => []TypeOK
<1>1. IInv => TypeOK
  BY DEF IInv, TiposTabla, TiposResto, TypeOK
<1> QED
  BY Invariante, <1>1, PTL

(* The thread of a CPU that looks a page up at any moment, half way through *)
(* a Kernel request included, gets its frame, or -1 if the page has none.   *)
THEOREM BusquedaSegura ==
  ASSUME ClavesDistintas
  PROVE  Spec => []BusquedaCorrecta
<1>1. IInv => BusquedaCorrecta
  <2> SUFFICES ASSUME IInv PROVE BusquedaCorrecta
    OBVIOUS
  <2>1. CadaPaginaEnSuMarco
    <3> SUFFICES ASSUME NEW p \in Pids, NEW m \in MarcosDe(p)
                 PROVE  PosPaginaSolicitada(p, tabla[m].pag) = m
      BY DEF CadaPaginaEnSuMarco
    <3>1. m \in Frames /\ tabla[m].pid = p /\ tabla[m].pag \in Pags
      BY PaginaTipo DEF MarcosDe, IInv, Estructura, EsPagina
    <3> QED
      BY <3>1, BusquedaExacta DEF IInv
  <2>2. ASSUME NEW p \in Pids, NEW g \in Pags, PosPaginaSolicitada(p, g) # -1
        PROVE  /\ PosPaginaSolicitada(p, g) \in MarcosDe(p)
               /\ tabla[PosPaginaSolicitada(p, g)].pag = g
    <3>1. PICK m \in Frames : m = PosPaginaSolicitada(p, g)
      BY <2>2, BusquedaExacta DEF IInv
    <3>2. tabla[m].pid = p /\ tabla[m].pag = g
      BY <2>2, <3>1, BusquedaExacta DEF IInv
    <3>3. tabla[m].estado = 1
      BY <3>2, PaginaTipo DEF IInv, Estructura, EsPagina
    <3> QED
      BY <3>1, <3>2, <3>3 DEF MarcosDe
  <2> QED
    BY <2>1, <2>2 DEF BusquedaCorrecta
<1> QED
  BY Invariante, <1>1, PTL

(* A request that Memoria admits always finds a frame for its next page:    *)
(* reasignar_colision never answers -1.                                     *)
THEOREM MarcosSuficientes ==
  ASSUME ClavesDistintas
  PROVE  Spec => []MarcosAlcanzan
<1>1. IInv => MarcosAlcanzan
  BY DEF IInv
<1> QED
  BY Invariante, <1>1, PTL

(* With page numbers of one digit the hypothesis of the theorems holds for  *)
(* any pids: the limit under which hash.c is right.                         *)
COROLLARY BusquedaSeguraPaginasCortas ==
  ASSUME MaxPag <= 8
  PROVE  Spec => []BusquedaCorrecta
BY ClavesPaginasCortas, BusquedaSegura

-----------------------------------------------------------------------------
(* The count of pages *)

Cuantas(p) == Cardinality(MarcosDe(p))

(* A process that is starting is not listed yet; what K25 has read is still *)
(* what the list says.                                                      *)
Recuento ==
  /\ pedido.op = "codigo" => cantPaginas[pedido.pid] = -1
  /\ pedido.op = "liberar" => pedido.total = cantPaginas[pedido.pid]

LEMMA CuantasTipo ==
  ASSUME NEW p
  PROVE  IsFiniteSet(MarcosDe(p)) /\ Cuantas(p) \in Nat
<1>1. IsFiniteSet(Frames)
  BY FS_Interval, ConstantesOK DEF Frames
<1>2. IsFiniteSet(MarcosDe(p))
  BY <1>1, FS_Subset DEF MarcosDe
<1> QED
  BY <1>2, FS_CardinalityType DEF Cuantas

LEMMA CuantasIgual ==
  ASSUME tabla' = tabla, NEW p
  PROVE  Cuantas(p)' = Cuantas(p)
BY DEF Cuantas, MarcosDe

(* Placing a page adds one to its process and none to the others. *)
LEMMA CuantasUbicar ==
  ASSUME TiposTabla, NEW p \in Pids, NEW g, NEW x \in Frames, tabla[x] = Libre,
         tabla' = [tabla EXCEPT ![x] = [estado |-> 1, pid |-> p, pag |-> g]]
  PROVE  /\ Cuantas(p)' = Cuantas(p) + 1
         /\ \A q \in Pids \ {p} : Cuantas(q)' = Cuantas(q)
<1>1. /\ tabla'[x] = [estado |-> 1, pid |-> p, pag |-> g]
      /\ \A m \in Frames \ {x} : tabla'[m] = tabla[m]
  BY DEF TiposTabla
<1>2. x \notin MarcosDe(p) /\ MarcosDe(p)' = MarcosDe(p) \cup {x}
  BY <1>1 DEF MarcosDe, Libre
<1>3. \A q \in Pids \ {p} : MarcosDe(q)' = MarcosDe(q)
  BY <1>1 DEF MarcosDe, Libre
<1>4. Cuantas(p)' = Cardinality(MarcosDe(p) \cup {x})
  BY <1>2 DEF Cuantas
<1>5. Cardinality(MarcosDe(p) \cup {x}) = Cardinality(MarcosDe(p)) + 1
  BY <1>2, CuantasTipo, FS_AddElement
<1> QED
  BY <1>3, <1>4, <1>5 DEF Cuantas

(* Releasing one takes it from its process. *)
LEMMA CuantasLiberar ==
  ASSUME ClavesDistintas, TiposTabla, Estructura, NEW p \in Pids, NEW g \in Pags,
         PosPaginaSolicitada(p, g) # -1, LiberarUnaPagina(p, g)
  PROVE  /\ Cuantas(p) > 0 /\ Cuantas(p)' = Cuantas(p) - 1
         /\ \A q \in Pids \ {p} : Cuantas(q)' = Cuantas(q)
<1>0. PICK x \in Frames : x = PosPaginaSolicitada(p, g)
  BY BusquedaExacta
<1>1. tabla[x].pid = p /\ tabla[x].estado = 1
  BY <1>0, BusquedaExacta, PaginaTipo DEF EsPagina, Estructura
<1>2. tabla' = [tabla EXCEPT ![x] = Libre]
  BY <1>0 DEF LiberarUnaPagina
<1>3. tabla'[x] = Libre /\ \A m \in Frames \ {x} : tabla'[m] = tabla[m]
  BY <1>2 DEF TiposTabla
<1>4. x \in MarcosDe(p) /\ MarcosDe(p)' = MarcosDe(p) \ {x}
  BY <1>1, <1>3 DEF MarcosDe, Libre
<1>5. \A q \in Pids \ {p} : MarcosDe(q)' = MarcosDe(q)
  BY <1>1, <1>3 DEF MarcosDe, Libre
<1>6. Cuantas(p)' = Cardinality(MarcosDe(p) \ {x})
  BY <1>4 DEF Cuantas
<1>7. Cardinality(MarcosDe(p) \ {x}) = Cardinality(MarcosDe(p)) - 1
  BY <1>4, CuantasTipo, FS_RemoveElement
<1>8. Cuantas(p) # 0
  BY <1>4, CuantasTipo, FS_EmptySet DEF Cuantas
<1> QED
  BY <1>5, <1>6, <1>7, <1>8, CuantasTipo DEF Cuantas

(* What the list says of p, with -1 read as none. *)
Listadas(p) == IF cantPaginas[p] = -1 THEN 0 ELSE cantPaginas[p]

LEMMA CuentaEs ==
  CuentaPaginas <=> \A p \in Pids : Cuantas(p) = Listadas(p) + Hechas(p)
BY DEF CuentaPaginas, Cuantas, Listadas

LEMMA CuentaInicio == Init => Recuento /\ CuentaPaginas
<1> SUFFICES ASSUME Init PROVE Recuento /\ CuentaPaginas
  OBVIOUS
<1>1. \A p \in Pids : MarcosDe(p) = {}
  <2>1. \A m \in Frames : tabla[m].pid = -1
    BY DEF Init, Libre
  <2>2. -1 \notin Pids
    BY ConstantesOK
  <2> QED
    BY <2>1, <2>2 DEF MarcosDe
<1>2. \A p \in Pids : Cuantas(p) = 0
  BY <1>1, FS_EmptySet DEF Cuantas
<1>3. \A p \in Pids : Listadas(p) = 0 /\ Hechas(p) = 0
  BY DEF Init, Listadas, Hechas, SinPedido
<1> QED
  BY <1>2, <1>3, CuentaEs DEF Init, Recuento, SinPedido

LEMMA CuentaPaso ==
  ASSUME ClavesDistintas, IInv, Recuento, CuentaPaginas, [Next]_vars
  PROVE  Recuento' /\ CuentaPaginas'
<1> USE DEF IInv
<1>a. CuentaPaginas' <=> \A q \in Pids : Cuantas(q)' = Listadas(q)' + Hechas(q)'
  BY DEF CuentaPaginas, Cuantas, Listadas
<1>b. \A q \in Pids : /\ Cuantas(q) = Listadas(q) + Hechas(q) /\ Cuantas(q) \in Nat
                      /\ Listadas(q) \in Nat /\ cantPaginas[q] \in Nat \cup {-1}
  BY CuentaEs, CuantasTipo, PedidoTipo DEF Listadas
<1>c. /\ pedido.cant \in Nat /\ pedido.total \in Nat
      /\ pedido.op # "nada" => pedido.pid \in Pids
  BY PedidoTipo DEF Progreso
<1>1. ASSUME NEW p \in Pids, NEW cod \in PagsCodigo, K06(p, cod)
      PROVE  Recuento' /\ CuentaPaginas'
  <2>1. /\ UNCHANGED <<tabla, cantPaginas>> /\ pedido.op = "nada"
        /\ \/ pedido' = pedido
           \/ pedido'.op = "codigo" /\ pedido'.pid = p /\ pedido'.cant = pedido'.total
              /\ pedido'.cant = cod
    BY <1>1 DEF K06
  <2>2. fijas[p] = -1 /\ cod \in Nat
    BY <1>1, ConstantesOK DEF K06
  <2>3. cantPaginas[p] = -1
    BY <2>2 DEF ListadosUsados
  <2>4. \A q \in Pids : Hechas(q) = 0 /\ Hechas(q)' = 0
    BY <2>1, <2>2 DEF Hechas
  <2>5. \A q \in Pids : Cuantas(q)' = Cuantas(q) /\ Listadas(q)' = Listadas(q)
    BY <2>1, CuantasIgual DEF Listadas
  <2> QED
    BY <1>a, <1>b, <2>1, <2>3, <2>4, <2>5 DEF Recuento
<1>2. ASSUME NEW p \in Pids, NEW n \in PagsHeap, K19(p, n)
      PROVE  Recuento' /\ CuentaPaginas'
  <2>1. /\ UNCHANGED <<tabla, cantPaginas>> /\ pedido.op = "nada"
        /\ pedido'.op = "heap" /\ pedido'.total = pedido'.cant /\ pedido'.cant = n /\ n \in Nat
    BY <1>2, ConstantesOK DEF K19
  <2>2. \A q \in Pids : Hechas(q) = 0 /\ Hechas(q)' = 0
    BY <2>1 DEF Hechas
  <2>3. \A q \in Pids : Cuantas(q)' = Cuantas(q) /\ Listadas(q)' = Listadas(q)
    BY <2>1, CuantasIgual DEF Listadas
  <2> QED
    BY <1>a, <1>b, <2>1, <2>2, <2>3 DEF Recuento
<1>3. ASSUME NEW p \in Pids, NEW g \in 0 .. MaxPag, K24(p, g)
      PROVE  Recuento' /\ CuentaPaginas'
  <2>1. /\ pedido.op = "nada" /\ pedido' = pedido /\ cantPaginas[p] # -1
        /\ cantPaginas' = [cantPaginas EXCEPT ![p] = @ - 1]
    BY <1>3 DEF K24
  <2>2. PosPaginaSolicitada(p, g) # -1 /\ g \in Pags
    <3>1. g \in Pags /\ -1 \notin Frames
      BY PagEnPags DEF Frames
    <3> QED
      BY <1>3, <3>1, BusquedaExacta DEF K24, MarcosDe
  <2>3. /\ Cuantas(p) > 0 /\ Cuantas(p)' = Cuantas(p) - 1
        /\ \A q \in Pids \ {p} : Cuantas(q)' = Cuantas(q)
    <3>1. LiberarUnaPagina(p, g)
      BY <1>3, <2>2 DEF K24
    <3> QED
      BY <2>2, <3>1, CuantasLiberar
  <2>4. \A q \in Pids : Hechas(q) = 0 /\ Hechas(q)' = 0
    BY <2>1 DEF Hechas
  <2>5. /\ cantPaginas'[p] = cantPaginas[p] - 1
        /\ \A q \in Pids \ {p} : cantPaginas'[q] = cantPaginas[q]
    BY <2>1 DEF TiposResto
  <2>6. /\ Listadas(p)' = Listadas(p) - 1
        /\ \A q \in Pids \ {p} : Listadas(q)' = Listadas(q)
    <3>1. cantPaginas[p] = Cuantas(p)
      BY <1>b, <2>1, <2>4 DEF Listadas
    <3>2. cantPaginas[p] > 0 /\ cantPaginas[p] \in Nat
      BY <1>b, <2>3, <3>1
    <3> QED
      BY <2>5, <3>2 DEF Listadas
  <2> QED
    BY <1>a, <1>b, <2>1, <2>3, <2>4, <2>6 DEF Recuento
<1>4. ASSUME NEW p \in Pids, K25(p)
      PROVE  Recuento' /\ CuentaPaginas'
  <2>1. /\ UNCHANGED <<tabla, cantPaginas>> /\ pedido.op = "nada"
        /\ pedido'.op = "liberar" /\ pedido'.pid = p /\ pedido'.total = cantPaginas[p]
        /\ pedido'.cant = cantPaginas[p] /\ cantPaginas[p] # -1
    BY <1>4 DEF K25
  <2>2. \A q \in Pids : Hechas(q) = 0 /\ Hechas(q)' = 0
    BY <1>b, <2>1 DEF Hechas
  <2>3. \A q \in Pids : Cuantas(q)' = Cuantas(q) /\ Listadas(q)' = Listadas(q)
    BY <2>1, CuantasIgual DEF Listadas
  <2> QED
    BY <1>a, <1>b, <2>1, <2>2, <2>3 DEF Recuento
<1>5. CASE UbicarPagina
  <2> SUFFICES ASSUME NEW p, p = pedido.pid, NEW g, g = pedido.pag + 1
               PROVE  Recuento' /\ CuentaPaginas'
    OBVIOUS
  <2>1. /\ Colocando /\ pedido.cant > 0 /\ Ubicar(p, g) /\ cantPaginas' = cantPaginas
        /\ pedido' = [pedido EXCEPT !.cant = @ - 1, !.pag = @ + 1] /\ p \in Pids
    BY <1>5, <1>c DEF UbicarPagina, Colocando
  <2>2. /\ pedido'.op = pedido.op /\ pedido'.pid = p /\ pedido'.total = pedido.total
        /\ pedido'.cant = pedido.cant - 1
    BY <2>1 DEF TiposResto
  <2>3. g \in Pags
    <3>1. StackSize \in Nat /\ MaxPag \in Nat /\ pedido.pag \in -1 .. MaxPag + 1
      BY ConstantesOK, PedidoTipo
    <3>2. ultimaPagAsig[p] \in -1 .. MaxPag
      BY <2>1, PedidoTipo
    <3>3. g \in 0 .. MaxPag
      BY <1>c, <2>1, <3>1, <3>2 DEF Progreso, Colocando
    <3> QED
      BY <3>3, PagEnPags
  <2>4. CantMarcosLibre > 0
    BY <1>c, <2>1, LibresFinito, ConstantesOK DEF MarcosAlcanzan, Colocando
  <2>5. PICK x \in Frames :
          /\ tabla[x] = Libre
          /\ tabla' = [tabla EXCEPT ![x] = [estado |-> 1, pid |-> p, pag |-> g]]
    BY <2>1, <2>3, <2>4, UbicarEfecto DEF TiposResto
  <2>6. Cuantas(p)' = Cuantas(p) + 1 /\ \A q \in Pids \ {p} : Cuantas(q)' = Cuantas(q)
    BY <2>1, <2>5, CuantasUbicar
  <2>7. /\ Hechas(p)' = Hechas(p) + 1 /\ \A q \in Pids \ {p} : Hechas(q)' = Hechas(q)
        /\ \A q \in Pids : Hechas(q) \in Int
    BY <1>c, <2>1, <2>2 DEF Hechas, Colocando
  <2>8. \A q \in Pids : Listadas(q)' = Listadas(q)
    BY <2>1 DEF Listadas
  <2> QED
    BY <1>a, <1>b, <2>1, <2>2, <2>6, <2>7, <2>8 DEF Recuento, Colocando
<1>6. CASE CrearProceso
  <2> SUFFICES ASSUME NEW p, p = pedido.pid PROVE Recuento' /\ CuentaPaginas'
    OBVIOUS
  <2>1. /\ tabla' = tabla /\ pedido.op = "codigo" /\ pedido.cant = 0 /\ p \in Pids
        /\ cantPaginas' = [cantPaginas EXCEPT ![p] = pedido.total]
        /\ pedido'.op = "stack" /\ pedido'.pid = p /\ pedido'.cant = pedido'.total
        /\ pedido'.cant = StackSize
    BY <1>6, <1>c DEF CrearProceso, TiposResto
  <2>2. /\ cantPaginas[p] = -1 /\ cantPaginas'[p] = pedido.total
        /\ \A q \in Pids \ {p} : cantPaginas'[q] = cantPaginas[q]
    BY <2>1 DEF Recuento, TiposResto
  <2>3. \A q \in Pids : /\ Hechas(q) = IF q = p THEN pedido.total ELSE 0
                        /\ Hechas(q)' = 0
    BY <1>c, <2>1, ConstantesOK DEF Hechas
  <2>4. \A q \in Pids : /\ Cuantas(q)' = Cuantas(q)
                        /\ Listadas(q)' = IF q = p THEN pedido.total ELSE Listadas(q)
    BY <1>c, <2>1, <2>2, CuantasIgual DEF Listadas
  <2>5. Listadas(p) = 0
    BY <2>2 DEF Listadas
  <2> QED
    BY <1>a, <1>b, <1>c, <2>1, <2>3, <2>4, <2>5 DEF Recuento
<1>7. CASE ActualizarPaginas
  <2> SUFFICES ASSUME NEW p, p = pedido.pid PROVE Recuento' /\ CuentaPaginas'
    OBVIOUS
  <2>1. /\ tabla' = tabla /\ pedido.op \in {"stack", "heap"} /\ pedido.cant = 0 /\ p \in Pids
        /\ cantPaginas' = [cantPaginas EXCEPT ![p] = @ + pedido.total]
        /\ pedido' = SinPedido /\ pedido'.op = "nada"
    BY <1>7, <1>c DEF ActualizarPaginas, SinPedido
  <2>2. /\ cantPaginas[p] # -1 /\ cantPaginas'[p] = cantPaginas[p] + pedido.total
        /\ \A q \in Pids \ {p} : cantPaginas'[q] = cantPaginas[q]
    BY <2>1 DEF Progreso, TiposResto
  <2>3. \A q \in Pids : /\ Hechas(q) = IF q = p THEN pedido.total ELSE 0
                        /\ Hechas(q)' = 0
    BY <1>c, <2>1 DEF Hechas
  <2>4. \A q \in Pids : /\ Cuantas(q)' = Cuantas(q)
                        /\ Listadas(q)' = IF q = p THEN Listadas(q) + pedido.total
                                          ELSE Listadas(q)
    BY <1>b, <1>c, <2>1, <2>2, CuantasIgual DEF Listadas
  <2> QED
    BY <1>a, <1>b, <1>c, <2>1, <2>3, <2>4 DEF Recuento
<1>8. CASE LiberarPagina
  <2> SUFFICES ASSUME NEW p, p = pedido.pid, NEW g, g = pedido.pag
               PROVE  Recuento' /\ CuentaPaginas'
    OBVIOUS
  <2>1. /\ pedido.op = "liberar" /\ pedido.cant > 0 /\ p \in Pids
        /\ cantPaginas' = cantPaginas /\ pedido.total = cantPaginas[p]
    BY <1>8, <1>c DEF LiberarPagina, Recuento
  <2>2. g \in Pags
    BY <2>1, PedidoTipo, ConstantesOK DEF Progreso, Pags
  <2>3. /\ pedido'.op = pedido.op /\ pedido'.pid = p /\ pedido'.total = pedido.total
        /\ pedido'.cant = IF PosPaginaSolicitada(p, g) # -1 THEN pedido.cant - 1 ELSE pedido.cant
    <3>1. pedido' = [pedido EXCEPT
                       !.cant = IF PosPaginaSolicitada(p, g) # -1 THEN @ - 1 ELSE @,
                       !.pag  = IF @ <= MaxPag THEN @ + 1 ELSE @]
      BY <1>8 DEF LiberarPagina
    <3> QED
      BY <3>1 DEF TiposResto
  <2>4. \A q \in Pids : Listadas(q)' = Listadas(q)
    BY <2>1 DEF Listadas
  <2>5. /\ Hechas(p) = pedido.cant - pedido.total
        /\ Hechas(p)' = pedido'.cant - pedido'.total
        /\ \A q \in Pids \ {p} : Hechas(q) = 0 /\ Hechas(q)' = 0
    BY <2>1, <2>3 DEF Hechas
  <2>6. CASE PosPaginaSolicitada(p, g) # -1
    <3>1. LiberarUnaPagina(p, g)
      BY <1>8, <2>6 DEF LiberarPagina
    <3>2. Cuantas(p)' = Cuantas(p) - 1 /\ \A q \in Pids \ {p} : Cuantas(q)' = Cuantas(q)
      BY <2>1, <2>2, <2>6, <3>1, CuantasLiberar
    <3> QED
      BY <1>a, <1>b, <1>c, <2>1, <2>3, <2>4, <2>5, <2>6, <3>2 DEF Recuento
  <2>7. CASE PosPaginaSolicitada(p, g) = -1
    <3>1. tabla' = tabla
      BY <1>8, <2>7 DEF LiberarPagina
    <3>2. \A q \in Pids : Cuantas(q)' = Cuantas(q)
      BY <3>1, CuantasIgual
    <3> QED
      BY <1>a, <1>b, <1>c, <2>1, <2>3, <2>4, <2>5, <2>7, <3>2 DEF Recuento
  <2> QED
    BY <2>6, <2>7
<1>9. CASE EliminarProceso
  <2> SUFFICES ASSUME NEW p, p = pedido.pid PROVE Recuento' /\ CuentaPaginas'
    OBVIOUS
  <2>1. /\ tabla' = tabla /\ pedido.op = "liberar" /\ pedido.cant = 0 /\ p \in Pids
        /\ cantPaginas' = [cantPaginas EXCEPT ![p] = -1]
        /\ pedido' = SinPedido /\ pedido'.op = "nada"
        /\ pedido.total = cantPaginas[p] /\ cantPaginas[p] # -1
    BY <1>9, <1>c DEF EliminarProceso, SinPedido, Recuento, Progreso
  <2>2. /\ cantPaginas'[p] = -1
        /\ \A q \in Pids \ {p} : cantPaginas'[q] = cantPaginas[q]
    BY <2>1 DEF TiposResto
  <2>3. \A q \in Pids : /\ Hechas(q) = IF q = p THEN -pedido.total ELSE 0
                        /\ Hechas(q)' = 0
    BY <1>c, <2>1 DEF Hechas
  <2>4. \A q \in Pids : /\ Cuantas(q)' = Cuantas(q)
                        /\ Listadas(q)' = IF q = p THEN 0 ELSE Listadas(q)
    BY <2>2, <2>1, CuantasIgual DEF Listadas
  <2>5. Listadas(p) = pedido.total
    BY <2>1 DEF Listadas
  <2> QED
    BY <1>a, <1>b, <1>c, <2>1, <2>3, <2>4, <2>5 DEF Recuento
<1>10. CASE UNCHANGED vars
  <2>1. UNCHANGED <<tabla, cantPaginas, pedido>>
    BY <1>10 DEF vars
  <2>2. \A q \in Pids : /\ Cuantas(q)' = Cuantas(q) /\ Listadas(q)' = Listadas(q)
                        /\ Hechas(q)' = Hechas(q)
    BY <2>1, CuantasIgual DEF Listadas, Hechas
  <2> QED
    BY <1>a, <1>b, <2>1, <2>2 DEF Recuento
<1> QED
  BY <1>1, <1>2, <1>3, <1>4, <1>5, <1>6, <1>7, <1>8, <1>9, <1>10 DEF Next, Atender

(* cantPaginas is the number of frames of the process at every moment, the  *)
(* pages a request has done so far included: there are as many pages as K25 *)
(* goes on looking for, and when it stops the process has none left.        *)
THEOREM CuentaExacta ==
  ASSUME ClavesDistintas
  PROVE  Spec => []CuentaPaginas
<1>1. IInv /\ Recuento /\ CuentaPaginas /\ [Next]_vars => Recuento' /\ CuentaPaginas'
  BY CuentaPaso
<1> QED
  BY CuentaInicio, Invariante, <1>1, PTL DEF Spec

-----------------------------------------------------------------------------
(* The table implements the map of MapaPaginas *)

(* What every thread sees through the lookup: marcoDe of the map.           *)
Mirada == [par \in Pids \X Pags |-> PosPaginaSolicitada(par[1], par[2])]

(* The lookup answers exactly what the table says. *)
Exacta ==
  \A p \in Pids, g \in Pags :
    /\ PosPaginaSolicitada(p, g) \in Frames \cup {-1}
    /\ PosPaginaSolicitada(p, g) # -1 =>
         /\ tabla[PosPaginaSolicitada(p, g)].pid = p
         /\ tabla[PosPaginaSolicitada(p, g)].pag = g
    /\ \A m \in Frames : tabla[m].pid = p /\ tabla[m].pag = g =>
         PosPaginaSolicitada(p, g) = m

LEMMA SiempreExacta ==
  ASSUME ClavesDistintas, IInv
  PROVE  Exacta
BY BusquedaExacta DEF IInv, Exacta

LEMMA MiradaEs ==
  ASSUME NEW p \in Pids, NEW g \in Pags
  PROVE  /\ Mirada[<<p, g>>] = PosPaginaSolicitada(p, g)
         /\ Mirada'[<<p, g>>] = PosPaginaSolicitada(p, g)'
<1>1. <<p, g>> \in Pids \X Pags /\ <<p, g>>[1] = p /\ <<p, g>>[2] = g
  OBVIOUS
<1> QED
  BY <1>1 DEF Mirada

(* A page keeps its frame when no frame starts or stops holding it. *)
LEMMA NoCambia ==
  ASSUME Exacta, Exacta', NEW p \in Pids, NEW g \in Pags,
         \A m \in Frames : tabla'[m].pid = p /\ tabla'[m].pag = g
                           <=> tabla[m].pid = p /\ tabla[m].pag = g
  PROVE  PosPaginaSolicitada(p, g)' = PosPaginaSolicitada(p, g)
<1>1. CASE PosPaginaSolicitada(p, g) # -1
  <2>1. PICK m \in Frames : PosPaginaSolicitada(p, g) = m
    BY <1>1 DEF Exacta
  <2>2. tabla[m].pid = p /\ tabla[m].pag = g
    BY <1>1, <2>1 DEF Exacta
  <2>3. tabla'[m].pid = p /\ tabla'[m].pag = g
    BY <2>2
  <2>4. PosPaginaSolicitada(p, g)' = m
    BY <2>3 DEF Exacta
  <2> QED
    BY <2>1, <2>4
<1>2. CASE PosPaginaSolicitada(p, g)' # -1
  <2> SUFFICES ASSUME NEW m, m = PosPaginaSolicitada(p, g)'
               PROVE  PosPaginaSolicitada(p, g) = m
    OBVIOUS
  <2>1. m \in Frames /\ tabla'[m].pid = p /\ tabla'[m].pag = g
    BY <1>2 DEF Exacta
  <2> QED
    BY <2>1 DEF Exacta
<1> QED
  BY <1>1, <1>2

(* Placing a page is a step of the map: the page had no frame, the frame no *)
(* page, and no other page is disturbed.                                    *)
LEMMA UbicarRefina ==
  ASSUME TiposTabla, EntradasOK, Exacta, Exacta', NEW p \in Pids, NEW g \in 0 .. MaxPag,
         NEW x \in Frames, tabla[x] = Libre, x >= MarcosTabla,
         tabla' = [tabla EXCEPT ![x] = [estado |-> 1, pid |-> p, pag |-> g]],
         \A m \in Frames : ~(tabla[m].pid = p /\ tabla[m].pag = g)
  PROVE  Mapa!Ubicar(p, g)
<1>1. /\ tabla'[x] = [estado |-> 1, pid |-> p, pag |-> g]
      /\ \A m \in Frames \ {x} : tabla'[m] = tabla[m]
  BY DEF TiposTabla
<1>2. g \in Pags /\ -1 \notin Pids /\ x \in MarcosTabla .. (Marcos - 1)
  BY PagEnPags, ConstantesOK DEF Frames
<1>3. PosPaginaSolicitada(p, g) = -1
  BY <1>2 DEF Exacta
<1>4. PosPaginaSolicitada(p, g)' = x
  BY <1>1, <1>2 DEF Exacta
<1>5. ASSUME NEW q \in Pids, NEW h \in Pags
      PROVE  PosPaginaSolicitada(q, h) # x
  <2>1. tabla[x].pid # q /\ x # -1
    BY <1>2 DEF Libre, Frames
  <2> QED
    BY <2>1 DEF Exacta
<1>6. ASSUME NEW q \in Pids, NEW h \in Pags, <<q, h>> # <<p, g>>
      PROVE  PosPaginaSolicitada(q, h)' = PosPaginaSolicitada(q, h)
  <2>1. q # p \/ h # g
    BY <1>6
  <2>2. ASSUME NEW m \in Frames
        PROVE  tabla'[m].pid = q /\ tabla'[m].pag = h <=> tabla[m].pid = q /\ tabla[m].pag = h
    <3>1. CASE m = x
      BY <1>1, <1>2, <2>1, <3>1 DEF Libre
    <3>2. CASE m # x
      BY <1>1, <3>2
    <3> QED
      BY <3>1, <3>2
  <2> QED
    BY <2>2, NoCambia
<1>7. Mirada[<<p, g>>] = -1 /\ \A par \in Pids \X Pags : Mirada[par] # x
  BY <1>2, <1>3, <1>5, MiradaEs DEF Mirada
<1>8. Mirada' = [Mirada EXCEPT ![<<p, g>>] = x]
  <2>1. ASSUME NEW par \in Pids \X Pags
        PROVE  Mirada'[par] = IF par = <<p, g>> THEN x ELSE Mirada[par]
    <3>1. PICK q \in Pids, h \in Pags : par = <<q, h>>
      OBVIOUS
    <3>2. /\ Mirada[<<q, h>>] = PosPaginaSolicitada(q, h)
          /\ Mirada'[<<q, h>>] = PosPaginaSolicitada(q, h)'
      BY MiradaEs
    <3>3. CASE par = <<p, g>>
      <4>1. q = p /\ h = g
        BY <3>1, <3>3
      <4> QED
        BY <1>4, <3>1, <3>2, <3>3, <4>1
    <3>4. CASE par # <<p, g>>
      BY <1>6, <3>1, <3>2, <3>4
    <3> QED
      BY <3>3, <3>4
  <2>2. /\ Mirada = [par \in Pids \X Pags |-> Mirada[par]]
        /\ Mirada' = [par \in Pids \X Pags |-> Mirada'[par]]
    BY DEF Mirada
  <2> QED
    BY <2>1, <2>2
<1> QED
  BY <1>2, <1>7, <1>8 DEF Mapa!Ubicar, Mapa!SinMarco, Mirada

LEMMA ExactaEs ==
  ASSUME Exacta, NEW p \in Pids, NEW g \in Pags, PosPaginaSolicitada(p, g) # -1
  PROVE  /\ PosPaginaSolicitada(p, g) \in Frames
         /\ tabla[PosPaginaSolicitada(p, g)].pid = p
         /\ tabla[PosPaginaSolicitada(p, g)].pag = g
BY DEF Exacta

(* Releasing one is the other: it loses its frame and no other page does.   *)
LEMMA LiberarRefina ==
  ASSUME TiposTabla, Exacta, Exacta', NEW p \in Pids, NEW g \in Pags,
         PosPaginaSolicitada(p, g) # -1, LiberarUnaPagina(p, g)
  PROVE  Mapa!Soltar(p, g)
<1>1. PICK x \in Frames : x = PosPaginaSolicitada(p, g)
  BY ExactaEs
<1>2. tabla[x].pid = p /\ tabla[x].pag = g /\ -1 \notin Pids
  BY <1>1, ExactaEs, ConstantesOK
<1>3. tabla' = [tabla EXCEPT ![x] = Libre]
  BY <1>1 DEF LiberarUnaPagina
<1>4. tabla'[x] = Libre /\ \A m \in Frames \ {x} : tabla'[m] = tabla[m]
  BY <1>3 DEF TiposTabla
<1>5. PosPaginaSolicitada(p, g)' = -1
  <2> SUFFICES ASSUME NEW m, m = PosPaginaSolicitada(p, g)', m # -1 PROVE FALSE
    OBVIOUS
  <2>1. m \in Frames /\ tabla'[m].pid = p /\ tabla'[m].pag = g
    BY DEF Exacta
  <2>2. m # x
    BY <1>2, <1>4, <2>1 DEF Libre
  <2>3. PosPaginaSolicitada(p, g) = m
    BY <1>4, <2>1, <2>2 DEF Exacta
  <2> QED
    BY <1>1, <2>2, <2>3
<1>6. ASSUME NEW q \in Pids, NEW h \in Pags, <<q, h>> # <<p, g>>
      PROVE  PosPaginaSolicitada(q, h)' = PosPaginaSolicitada(q, h)
  <2>1. q # p \/ h # g
    BY <1>6
  <2>2. ASSUME NEW m \in Frames
        PROVE  tabla'[m].pid = q /\ tabla'[m].pag = h <=> tabla[m].pid = q /\ tabla[m].pag = h
    <3>1. CASE m = x
      BY <1>2, <1>4, <2>1, <3>1 DEF Libre
    <3>2. CASE m # x
      BY <1>4, <3>2
    <3> QED
      BY <3>1, <3>2
  <2> QED
    BY <2>2, NoCambia
<1>7. Mirada[<<p, g>>] # -1
  BY MiradaEs
<1>8. Mirada' = [Mirada EXCEPT ![<<p, g>>] = -1]
  <2>1. ASSUME NEW par \in Pids \X Pags
        PROVE  Mirada'[par] = IF par = <<p, g>> THEN -1 ELSE Mirada[par]
    <3>1. PICK q \in Pids, h \in Pags : par = <<q, h>>
      OBVIOUS
    <3>2. /\ Mirada[<<q, h>>] = PosPaginaSolicitada(q, h)
          /\ Mirada'[<<q, h>>] = PosPaginaSolicitada(q, h)'
      BY MiradaEs
    <3>3. CASE par = <<p, g>>
      <4>1. q = p /\ h = g
        BY <3>1, <3>3
      <4> QED
        BY <1>5, <3>1, <3>2, <3>3, <4>1
    <3>4. CASE par # <<p, g>>
      BY <1>6, <3>1, <3>2, <3>4
    <3> QED
      BY <3>3, <3>4
  <2>2. /\ Mirada = [par \in Pids \X Pags |-> Mirada[par]]
        /\ Mirada' = [par \in Pids \X Pags |-> Mirada'[par]]
    BY DEF Mirada
  <2> QED
    BY <2>1, <2>2
<1> QED
  BY <1>7, <1>8 DEF Mapa!Soltar, Mapa!SinMarco, Mirada

LEMMA MiradaIgual ==
  ASSUME UNCHANGED <<tabla, colisiones>>
  PROVE  UNCHANGED Mirada
<1>1. ASSUME NEW q \in Pids, NEW h \in Pags
      PROVE  PosPaginaSolicitada(q, h)' = PosPaginaSolicitada(q, h)
  BY DEF PosPaginaSolicitada, EsMarcoCorrecto, BuscarMarcoColision
<1>2. ASSUME NEW par \in Pids \X Pags
      PROVE  PosPaginaSolicitada(par[1], par[2])' = PosPaginaSolicitada(par[1], par[2])
  BY <1>1
<1> QED
  BY <1>2 DEF Mirada

LEMMA MapaInicio == ClavesDistintas /\ Init => Mapa!Init
<1> SUFFICES ASSUME ClavesDistintas, Init PROVE Mapa!Init
  OBVIOUS
<1>1. Exacta
  BY Inicio, SiempreExacta
<1>2. \A m \in Frames : tabla[m].pid = -1
  BY DEF Init, Libre
<1>3. -1 \notin Pids
  BY ConstantesOK
<1>4. ASSUME NEW q \in Pids, NEW h \in Pags PROVE PosPaginaSolicitada(q, h) = -1
  BY <1>1, <1>2, <1>3 DEF Exacta
<1>5. Mirada = [par \in Pids \X Pags |-> -1]
  BY <1>4 DEF Mirada
<1> QED
  BY <1>5 DEF Mapa!Init, Mapa!SinMarco, Mirada

LEMMA MapaPaso ==
  ASSUME IInv, Exacta, Exacta', [Next]_vars
  PROVE  Mapa!Next \/ UNCHANGED Mirada
<1> USE DEF IInv, Estructura
<1>1. CASE UbicarPagina
  <2> SUFFICES ASSUME NEW p, p = pedido.pid, NEW g, g = pedido.pag + 1 PROVE Mapa!Next
    OBVIOUS
  <2>1. Colocando /\ pedido.cant > 0 /\ Ubicar(p, g) /\ pedido.cant \in Nat
    BY <1>1, PedidoTipo DEF UbicarPagina, Colocando
  <2>2. /\ p \in Pids /\ pedido.pag \in -1 .. MaxPag + 1
        /\ ultimaPagAsig[p] \in -1 .. MaxPag /\ StackSize \in Nat /\ MaxPag \in Nat
    <3>1. p \in Pids
      BY <2>1 DEF Progreso, Colocando
    <3> QED
      BY <3>1, PedidoTipo, ConstantesOK
  <2>3. g \in 0 .. MaxPag /\ g \in Pags
    <3>1. pedido.total \in Nat
      BY PedidoTipo
    <3>2. g \in 0 .. MaxPag
      BY <2>1, <2>2, <3>1 DEF Progreso, Colocando
    <3> QED
      BY <3>2, PagEnPags
  <2>4. \A m \in Frames : ~(tabla[m].pid = p /\ tabla[m].pag = g)
    BY <2>1, <2>2 DEF Tope
  <2>5. CantMarcosLibre > 0
    BY <2>1, <2>2, LibresFinito DEF MarcosAlcanzan, Colocando
  <2>6. PICK x \in Frames :
          /\ tabla[x] = Libre /\ x >= MarcosTabla
          /\ tabla' = [tabla EXCEPT ![x] = [estado |-> 1, pid |-> p, pag |-> g]]
    BY <2>1, <2>2, <2>3, <2>5, UbicarEfecto DEF TiposResto
  <2>7. Mapa!Ubicar(p, g)
    BY <2>2, <2>3, <2>4, <2>6, UbicarRefina
  <2> QED
    BY <2>2, <2>3, <2>7 DEF Mapa!Next
<1>2. ASSUME NEW p \in Pids, NEW g \in 0 .. MaxPag, K24(p, g) PROVE Mapa!Next
  <2>1. g \in Pags /\ -1 \notin Frames
    BY PagEnPags DEF Frames
  <2>2. PosPaginaSolicitada(p, g) # -1
    BY <1>2, <2>1 DEF K24, MarcosDe, Exacta
  <2>3. Mapa!Soltar(p, g)
    BY <1>2, <2>1, <2>2, LiberarRefina DEF K24
  <2> QED
    BY <2>1, <2>3 DEF Mapa!Next
<1>3. CASE LiberarPagina
  <2> SUFFICES ASSUME NEW p, p = pedido.pid, NEW g, g = pedido.pag
               PROVE  Mapa!Next \/ UNCHANGED Mirada
    OBVIOUS
  <2>1. p \in Pids /\ g \in Pags
    BY <1>3, PedidoTipo, ConstantesOK DEF LiberarPagina, Progreso, Pags
  <2>2. CASE PosPaginaSolicitada(p, g) # -1
    <3>1. LiberarUnaPagina(p, g)
      BY <1>3, <2>2 DEF LiberarPagina
    <3>2. Mapa!Soltar(p, g)
      BY <2>1, <2>2, <3>1, LiberarRefina
    <3> QED
      BY <2>1, <3>2 DEF Mapa!Next
  <2>3. CASE PosPaginaSolicitada(p, g) = -1
    <3>1. UNCHANGED <<tabla, colisiones>>
      BY <1>3, <2>3 DEF LiberarPagina
    <3> QED
      BY <3>1, MiradaIgual
  <2> QED
    BY <2>2, <2>3
<1>4. ASSUME UNCHANGED <<tabla, colisiones>> PROVE UNCHANGED Mirada
  BY <1>4, MiradaIgual
<1>5. ASSUME NEW p \in Pids, NEW n, K06(p, n) \/ K19(p, n) \/ K25(p) PROVE UNCHANGED Mirada
  BY <1>4, <1>5 DEF K06, K19, K25
<1>6. CASE CrearProceso \/ ActualizarPaginas \/ EliminarProceso \/ UNCHANGED vars
  BY <1>4, <1>6 DEF CrearProceso, ActualizarPaginas, EliminarProceso, vars
<1> QED
  BY <1>1, <1>2, <1>3, <1>5, <1>6 DEF Next, Atender

(* The inverted table with its hash and its dictionaries is a map from      *)
(* pages to frames, for every thread that looks at it between two steps of  *)
(* a request: pages come one at a time to frames that served none, keep     *)
(* them, and leave one at a time.                                           *)
THEOREM Refinamiento ==
  ASSUME ClavesDistintas
  PROVE  Spec => ImplementaMapa
<1>1. Init => Mapa!Init
  BY MapaInicio
<1>2. IInv => Exacta
  BY SiempreExacta
<1>3. IInv /\ Exacta /\ Exacta' /\ [Next]_vars => [Mapa!Next]_Mirada
  BY MapaPaso
<1>4. Spec => Mapa!Init /\ [][Mapa!Next]_Mirada
  BY <1>1, <1>2, <1>3, Invariante, PTL DEF Spec
<1> QED
  BY <1>4, PTL DEF ImplementaMapa, Mapa!Spec, Mirada
=============================================================================
