----------------------------- MODULE HeapProofs -----------------------------
(***************************************************************************)
(* Theorems about the dynamic memory of the programs (Heap), for every     *)
(* number of programs, size of page, number of frames and set of sizes.    *)
(*                                                                         *)
(* First what the code does to the row of blocks of one page: join two     *)
(* neighbours, split one, free one.  Then the sum that the CPU and the     *)
(* Kernel keep of the reservations.  Then the invariant, and what follows  *)
(* from it.                                                                *)
(***************************************************************************)
EXTENDS Heap, Lemas

-----------------------------------------------------------------------------
(* Rows of blocks *)

Bloques == [tam : Nat, libre : BOOLEAN]

(* The bytes each block takes of the page, and those it adds to esp_libre.  *)
Ancho(b) == b.tam + Cabecera
AnchoLibre(b) == IF b.libre THEN b.tam + Cabecera ELSE 0
Anchos(bs) == [i \in DOMAIN bs |-> Ancho(bs[i])]
AnchosLibres(bs) == [i \in DOMAIN bs |-> AnchoLibre(bs[i])]

Total(bs) == Inicio(bs, Len(bs) + 1)
LibreDe(bs) == Bytes(AnchosLibres(bs))

(* The used blocks: where the header of each is, and its size.              *)
Usados(bs) == {<<Inicio(bs, i), bs[i].tam>> : i \in {j \in DOMAIN bs : ~bs[j].libre}}

LEMMA FilaTipos ==
  ASSUME NEW bs \in Seq(Bloques)
  PROVE  /\ Len(bs) \in Nat /\ DOMAIN bs = 1 .. Len(bs)
         /\ \A i \in 1 .. Len(bs) : /\ bs[i] \in Bloques /\ bs[i].tam \in Nat /\ bs[i].libre \in BOOLEAN
                                    /\ Anchos(bs)[i] = bs[i].tam + Cabecera
                                    /\ AnchosLibres(bs)[i] = IF bs[i].libre THEN bs[i].tam + Cabecera ELSE 0
         /\ Anchos(bs) \in [1 .. Len(bs) -> Nat]
         /\ AnchosLibres(bs) \in [1 .. Len(bs) -> Nat]
         /\ Len(AnchosLibres(bs)) = Len(bs)
<1>1. Len(bs) \in Nat /\ DOMAIN bs = 1 .. Len(bs) /\ \A i \in 1 .. Len(bs) : bs[i] \in Bloques
  BY LenProperties, ElementOfSeq
<1>2. \A i \in 1 .. Len(bs) : bs[i].tam \in Nat /\ bs[i].libre \in BOOLEAN
  BY <1>1 DEF Bloques
<1>3. \A b \in Bloques : Ancho(b) \in Nat /\ AnchoLibre(b) \in Nat
  BY DEF Ancho, AnchoLibre, Bloques, Cabecera
<1>4. /\ Anchos(bs) \in [1 .. Len(bs) -> Nat]
      /\ AnchosLibres(bs) \in [1 .. Len(bs) -> Nat]
  BY <1>1, <1>3 DEF Anchos, AnchosLibres
<1>5. \A i \in 1 .. Len(bs) : /\ Anchos(bs)[i] = bs[i].tam + Cabecera
                              /\ AnchosLibres(bs)[i] = IF bs[i].libre THEN bs[i].tam + Cabecera ELSE 0
  BY <1>1 DEF Anchos, AnchosLibres, Ancho, AnchoLibre
<1>6. Len(AnchosLibres(bs)) = Len(bs)
  <2>1. AnchosLibres(bs) \in Seq(Nat) /\ DOMAIN AnchosLibres(bs) = 1 .. Len(bs)
    BY <1>1, <1>4
  <2> QED
    BY <1>1, <2>1, LenProperties
<1> QED
  BY <1>1, <1>2, <1>4, <1>5, <1>6

(* What the recursion of Inicio and of Bytes computes.                      *)
LEMMA InicioSuma ==
  ASSUME NEW bs \in Seq(Bloques), NEW f, Acumula(f, Len(bs), Anchos(bs))
  PROVE  \A k \in 1 .. Len(bs) + 1 : Inicio(bs, k) = f[k - 1]
<1> DEFINE n == Len(bs)
           Es(u) == u = [k \in 1 .. Len(bs) + 1 |-> IF k = 1 THEN 0 ELSE u[k - 1] + bs[k - 1].tam + Cabecera]
           h == [k \in 1 .. n + 1 |-> f[k - 1]]
           u == CHOOSE v : Es(v)
<1>1. n \in Nat /\ \A k \in 1 .. n : Anchos(bs)[k] = bs[k].tam + Cabecera /\ bs[k].tam \in Nat
  BY FilaTipos
<1>2. Es(h)
  <2>1. ASSUME NEW k \in 1 .. n + 1
        PROVE  f[k - 1] = IF k = 1 THEN 0 ELSE h[k - 1] + bs[k - 1].tam + Cabecera
    <3>1. CASE k = 1
      <4>1. k - 1 = 0
        BY <3>1
      <4> QED
        BY <3>1, <4>1 DEF Acumula
    <3>2. CASE k # 1
      <4>1. k - 1 \in 1 .. n /\ k - 1 \in 1 .. n + 1 /\ k - 2 \in 0 .. n /\ k - 1 - 1 = k - 2
        BY <1>1, <3>2
      <4>2. f[k - 1] = f[k - 2] + Anchos(bs)[k - 1]
        BY <4>1 DEF Acumula
      <4>3. h[k - 1] = f[k - 2]
        BY <4>1
      <4>4. f[k - 2] \in Nat
        BY <4>1 DEF Acumula
      <4>5. Anchos(bs)[k - 1] = bs[k - 1].tam + Cabecera /\ bs[k - 1].tam \in Nat
        BY <1>1, <4>1
      <4>6. f[k - 1] = h[k - 1] + bs[k - 1].tam + Cabecera
        <5> HIDE DEF h
        <5> QED
          BY <4>2, <4>3, <4>4, <4>5 DEF Cabecera
      <4> HIDE DEF h
      <4> QED
        BY <3>2, <4>6
    <3> QED
      BY <3>1, <3>2
  <2> QED
    BY <2>1
<1>3. \A k : Inicio(bs, k) = u[k]
  BY DEF Inicio
<1> HIDE DEF h, Es
<1>4. Es(u)
  BY <1>2
<1> HIDE DEF u
<1>5. /\ u[1] = 0
      /\ \A k \in 1 .. n : u[k + 1] = u[k] + bs[k].tam + Cabecera
  <2>1. 1 \in 1 .. n + 1
    BY <1>1
  <2>2. u[1] = 0
    BY <1>4, <2>1 DEF Es
  <2>3. ASSUME NEW k \in 1 .. n PROVE u[k + 1] = u[k] + bs[k].tam + Cabecera
    <3>1. k + 1 \in 1 .. n + 1 /\ k + 1 # 1 /\ k + 1 - 1 = k
      BY <1>1
    <3>2. u[k + 1] = u[k + 1 - 1] + bs[k + 1 - 1].tam + Cabecera
      BY <1>4, <3>1 DEF Es
    <3> QED
      BY <3>1, <3>2
  <2> QED
    BY <2>2, <2>3
<1> DEFINE S == {k \in Nat : k <= n => u[k + 1] = f[k]}
<1>6. 0 \in S
  BY <1>5 DEF Acumula
<1>7. ASSUME NEW k \in Nat, k \in S PROVE k + 1 \in S
  <2> SUFFICES ASSUME k + 1 <= n PROVE u[k + 1 + 1] = f[k + 1]
    OBVIOUS
  <2>1. k + 1 \in 1 .. n /\ k \in 0 .. n /\ k + 1 - 1 = k
    BY <1>1
  <2>2. u[k + 1 + 1] = u[k + 1] + bs[k + 1].tam + Cabecera
    BY <1>5, <2>1
  <2>3. u[k + 1] = f[k]
    BY <1>1, <1>7
  <2>4. f[k + 1] = f[k] + Anchos(bs)[k + 1] /\ f[k] \in Nat
    BY <2>1 DEF Acumula
  <2>5. Anchos(bs)[k + 1] = bs[k + 1].tam + Cabecera /\ bs[k + 1].tam \in Nat
    BY <1>1, <2>1
  <2> QED
    BY <2>2, <2>3, <2>4, <2>5 DEF Cabecera
<1> HIDE DEF S
<1>8. \A k \in Nat : k \in S
  BY <1>6, <1>7, Induccion
<1>9. ASSUME NEW k \in 1 .. n + 1 PROVE u[k] = f[k - 1]
  <2>1. k - 1 \in Nat /\ k - 1 <= n /\ k - 1 + 1 = k
    BY <1>1
  <2>2. k - 1 \in S
    BY <1>8, <2>1
  <2> QED
    BY <2>1, <2>2 DEF S
<1> QED
  BY <1>3, <1>9

LEMMA BytesSuma ==
  ASSUME NEW n \in Nat, NEW ns \in [1 .. n -> Nat], Len(ns) = n, NEW f, Acumula(f, n, ns)
  PROVE  Bytes(ns) = f[n]
<1> DEFINE Es(u) == u = [k \in 0 .. Len(ns) |-> IF k = 0 THEN 0 ELSE u[k - 1] + ns[k]]
           u == CHOOSE v : Es(v)
<1>1. Es(f)
  BY DEF Acumula
<1>2. Bytes(ns) = u[n]
  BY DEF Bytes
<1> HIDE DEF Es
<1>3. Es(u)
  BY <1>1
<1> HIDE DEF u
<1>4. u[0] = 0 /\ \A k \in 1 .. n : u[k] = u[k - 1] + ns[k]
  BY <1>3 DEF Es
<1> DEFINE S == {k \in Nat : k <= n => u[k] = f[k]}
<1>5. 0 \in S
  BY <1>4 DEF Acumula
<1>6. ASSUME NEW k \in Nat, k \in S PROVE k + 1 \in S
  <2> SUFFICES ASSUME k + 1 <= n PROVE u[k + 1] = f[k + 1]
    OBVIOUS
  <2>1. u[k] = f[k] /\ k + 1 \in 1 .. n /\ k + 1 - 1 = k
    BY <1>6
  <2> QED
    BY <1>4, <2>1 DEF Acumula
<1> HIDE DEF S
<1>7. \A k \in Nat : k \in S
  BY <1>5, <1>6, Induccion
<1> QED
  BY <1>2, <1>7 DEF S

(* Both sums of a row at once, as the lemmas below use them.                *)
Sumas(bs, f, g) == /\ Acumula(f, Len(bs), Anchos(bs))
                   /\ Acumula(g, Len(bs), AnchosLibres(bs))

LEMMA FilaSumas ==
  ASSUME NEW bs \in Seq(Bloques)
  PROVE  \E f, g : /\ Sumas(bs, f, g)
                   /\ \A k \in 1 .. Len(bs) + 1 : Inicio(bs, k) = f[k - 1]
                   /\ \A k \in 0 .. Len(bs) : f[k] \in Nat /\ g[k] \in Nat
                   /\ Total(bs) = f[Len(bs)]
                   /\ LibreDe(bs) = g[Len(bs)]
<1>1. /\ Len(bs) \in Nat /\ Len(AnchosLibres(bs)) = Len(bs)
      /\ Anchos(bs) \in [1 .. Len(bs) -> Nat] /\ AnchosLibres(bs) \in [1 .. Len(bs) -> Nat]
  BY FilaTipos
<1>2. PICK f : Acumula(f, Len(bs), Anchos(bs))
  BY <1>1, AcumulaExiste
<1>3. PICK g : Acumula(g, Len(bs), AnchosLibres(bs))
  BY <1>1, AcumulaExiste
<1>4. \A k \in 1 .. Len(bs) + 1 : Inicio(bs, k) = f[k - 1]
  BY <1>2, InicioSuma
<1>5. LibreDe(bs) = g[Len(bs)]
  BY <1>1, <1>3, BytesSuma DEF LibreDe
<1>6. Total(bs) = f[Len(bs)]
  <2>1. Len(bs) + 1 \in 1 .. Len(bs) + 1 /\ Len(bs) + 1 - 1 = Len(bs)
    BY <1>1
  <2> QED
    BY <1>4, <2>1 DEF Total
<1>7. \A k \in 0 .. Len(bs) : f[k] \in Nat /\ g[k] \in Nat
  BY <1>2, <1>3 DEF Acumula
<1> QED
  BY <1>2, <1>3, <1>4, <1>5, <1>6, <1>7 DEF Sumas

(* The headers follow one another: where each block starts, that no two     *)
(* meet, and that the free bytes are at most those of the page.             *)
LEMMA InicioPasos ==
  ASSUME NEW bs \in Seq(Bloques)
  PROVE  /\ Inicio(bs, 1) = 0
         /\ Total(bs) \in Nat
         /\ \A k \in 1 .. Len(bs) : /\ Inicio(bs, k) \in Nat /\ bs[k].tam \in Nat
                                    /\ Inicio(bs, k) + bs[k].tam + Cabecera <= Total(bs)
         /\ \A i, j \in 1 .. Len(bs) : i < j => Inicio(bs, i) + bs[i].tam + Cabecera <= Inicio(bs, j)
         /\ \A i, j \in 1 .. Len(bs) : Inicio(bs, i) = Inicio(bs, j) => i = j
<1> DEFINE n == Len(bs)
<1>1. PICK f, g : /\ Sumas(bs, f, g)
                  /\ \A k \in 1 .. Len(bs) + 1 : Inicio(bs, k) = f[k - 1]
                  /\ \A k \in 0 .. Len(bs) : f[k] \in Nat /\ g[k] \in Nat
                  /\ Total(bs) = f[Len(bs)]
  BY FilaSumas
<1>2. /\ n \in Nat /\ Anchos(bs) \in [1 .. n -> Nat]
      /\ \A k \in 1 .. n : Anchos(bs)[k] = bs[k].tam + Cabecera /\ bs[k].tam \in Nat
  BY FilaTipos
<1>3. Acumula(f, n, Anchos(bs))
  BY <1>1 DEF Sumas
<1>4. Inicio(bs, 1) = 0
  <2>1. 1 \in 1 .. n + 1 /\ 1 - 1 = 0
    BY <1>2
  <2> QED
    BY <1>1, <1>3, <2>1 DEF Acumula
<1>5. ASSUME NEW k \in 1 .. n
      PROVE  Inicio(bs, k) = f[k - 1] /\ f[k] = f[k - 1] + bs[k].tam + Cabecera /\ f[k - 1] \in Nat /\ f[k] \in Nat
  <2>1. k \in 1 .. n + 1 /\ k - 1 \in 0 .. n /\ k \in 0 .. n
    BY <1>2
  <2>2. f[k] = f[k - 1] + Anchos(bs)[k] /\ Anchos(bs)[k] = bs[k].tam + Cabecera
    BY <1>2, <1>3 DEF Acumula
  <2>3. f[k - 1] \in Nat /\ f[k] \in Nat /\ bs[k].tam \in Nat
    BY <1>1, <1>2, <2>1
  <2>4. Inicio(bs, k) = f[k - 1]
    BY <1>1, <2>1
  <2>5. PICK x \in Nat, y \in Nat : x = f[k - 1] /\ y = bs[k].tam
    BY <2>3
  <2>6. f[k] = x + (y + 5)
    BY <2>2, <2>5 DEF Cabecera
  <2>7. f[k] = x + y + 5
    BY <2>6
  <2> QED
    BY <2>3, <2>4, <2>5, <2>7 DEF Cabecera
<1>6. ASSUME NEW i \in 1 .. n, NEW j \in 1 .. n, i < j
      PROVE  Inicio(bs, i) + bs[i].tam + Cabecera <= Inicio(bs, j)
  <2>1. i \in 0 .. n /\ j - 1 \in 0 .. n /\ i <= j - 1
    BY <1>2, <1>6
  <2>2. f[i] <= f[j - 1]
    BY <1>2, <1>3, <2>1, AcumulaCrece
  <2>3. Inicio(bs, i) + bs[i].tam + Cabecera = f[i] /\ Inicio(bs, j) = f[j - 1]
    BY <1>5
  <2> QED
    BY <2>2, <2>3
<1>7. ASSUME NEW k \in 1 .. n PROVE Inicio(bs, k) + bs[k].tam + Cabecera <= Total(bs)
  <2>1. k \in 0 .. n /\ n \in 0 .. n /\ k <= n
    BY <1>2
  <2>2. f[k] <= f[n]
    BY <1>2, <1>3, <2>1, AcumulaCrece
  <2> QED
    BY <1>1, <1>5, <2>2
<1>8. ASSUME NEW i \in 1 .. n, NEW j \in 1 .. n, i < j PROVE Inicio(bs, i) # Inicio(bs, j)
  <2>1. PICK a \in Nat, b \in Nat, t \in Nat : a = Inicio(bs, i) /\ b = Inicio(bs, j) /\ t = bs[i].tam
    BY <1>2, <1>5
  <2>2. a + t + Cabecera <= b
    BY <1>6, <1>8, <2>1
  <2>3. a # b
    BY <2>2 DEF Cabecera
  <2> QED
    BY <2>1, <2>3
<1>9. Total(bs) \in Nat
  <2>1. n \in 0 .. n
    BY <1>2
  <2> QED
    BY <1>1, <2>1
<1>10. ASSUME NEW i \in 1 .. n, NEW j \in 1 .. n, Inicio(bs, i) = Inicio(bs, j) PROVE i = j
  <2>1. ~(i < j) /\ ~(j < i)
    BY <1>8, <1>10
  <2> QED
    BY <1>2, <2>1
<1>11. \A k \in 1 .. n : Inicio(bs, k) \in Nat /\ bs[k].tam \in Nat
  BY <1>2, <1>5
<1> QED
  BY <1>4, <1>6, <1>7, <1>9, <1>10, <1>11

LEMMA LibreAcotado ==
  ASSUME NEW bs \in Seq(Bloques)
  PROVE  /\ LibreDe(bs) \in Nat /\ LibreDe(bs) <= Total(bs)
         /\ LibreDe(bs) = Total(bs) => \A i \in 1 .. Len(bs) : bs[i].libre
<1> DEFINE n == Len(bs)
<1>1. PICK f, g : /\ Sumas(bs, f, g)
                  /\ \A k \in 0 .. Len(bs) : f[k] \in Nat /\ g[k] \in Nat
                  /\ Total(bs) = f[Len(bs)]
                  /\ LibreDe(bs) = g[Len(bs)]
  BY FilaSumas
<1>2. /\ n \in Nat /\ Anchos(bs) \in [1 .. n -> Nat] /\ AnchosLibres(bs) \in [1 .. n -> Nat]
      /\ \A k \in 1 .. n : /\ Anchos(bs)[k] = bs[k].tam + Cabecera /\ bs[k].tam \in Nat
                           /\ AnchosLibres(bs)[k] = IF bs[k].libre THEN bs[k].tam + Cabecera ELSE 0
  BY FilaTipos
<1>3. \A k \in 1 .. n : AnchosLibres(bs)[k] <= Anchos(bs)[k]
  BY <1>2 DEF Cabecera
<1>4. /\ g[n] <= f[n]
      /\ g[n] = f[n] => \A k \in 1 .. n : AnchosLibres(bs)[k] = Anchos(bs)[k]
  <2>1. Acumula(f, n, Anchos(bs)) /\ Acumula(g, n, AnchosLibres(bs))
    BY <1>1 DEF Sumas
  <2> DEFINE a == Anchos(bs)
             b == AnchosLibres(bs)
  <2>2. /\ n \in Nat /\ a \in [1 .. n -> Nat] /\ b \in [1 .. n -> Nat]
        /\ \A k \in 1 .. n : b[k] <= a[k]
        /\ Acumula(f, n, a) /\ Acumula(g, n, b)
    BY <1>2, <1>3, <2>1
  <2> HIDE DEF a, b, n
  <2>3. g[n] <= f[n] /\ (g[n] = f[n] => b = a)
    BY <2>2, AcumulaMenor
  <2> QED
    BY <2>3 DEF a, b
<1>5. ASSUME NEW k \in 1 .. n, AnchosLibres(bs)[k] = Anchos(bs)[k] PROVE bs[k].libre
  <2>1. bs[k].tam + Cabecera # 0
    BY <1>2 DEF Cabecera
  <2> QED
    BY <1>2, <1>5, <2>1
<1>6. n \in 0 .. n
  BY <1>2
<1> QED
  BY <1>1, <1>4, <1>5, <1>6

(* A block more at the end.                                                 *)
LEMMA FilaAgrega ==
  ASSUME NEW bs \in Seq(Bloques), NEW b \in Bloques
  PROVE  LET r == Append(bs, b)
         IN  /\ r \in Seq(Bloques) /\ Len(r) = Len(bs) + 1
             /\ Total(r) = Total(bs) + b.tam + Cabecera
             /\ LibreDe(r) = LibreDe(bs) + (IF b.libre THEN b.tam + Cabecera ELSE 0)
             /\ Usados(r) = Usados(bs) \cup (IF b.libre THEN {} ELSE {<<Total(bs), b.tam>>})
<1> DEFINE r == Append(bs, b)
           n == Len(bs)
<1>1. /\ r \in Seq(Bloques) /\ Len(r) = n + 1
      /\ \A i \in 1 .. n : r[i] = bs[i]
      /\ r[n + 1] = b
  BY AppendProperties
<1> HIDE DEF r
<1>2. PICK f, g : /\ Sumas(bs, f, g)
                  /\ \A k \in 1 .. Len(bs) + 1 : Inicio(bs, k) = f[k - 1]
                  /\ \A k \in 0 .. Len(bs) : f[k] \in Nat /\ g[k] \in Nat
                  /\ Total(bs) = f[Len(bs)]
                  /\ LibreDe(bs) = g[Len(bs)]
  BY FilaSumas
<1>3. PICK f2, g2 : /\ Sumas(r, f2, g2)
                    /\ \A k \in 1 .. Len(r) + 1 : Inicio(r, k) = f2[k - 1]
                    /\ Total(r) = f2[Len(r)]
                    /\ LibreDe(r) = g2[Len(r)]
  BY <1>1, FilaSumas
<1>4. /\ n \in Nat /\ DOMAIN bs = 1 .. n
      /\ Anchos(bs) \in [1 .. n -> Nat] /\ AnchosLibres(bs) \in [1 .. n -> Nat]
      /\ \A k \in 1 .. n : /\ Anchos(bs)[k] = bs[k].tam + Cabecera
                           /\ AnchosLibres(bs)[k] = IF bs[k].libre THEN bs[k].tam + Cabecera ELSE 0
  BY FilaTipos
<1>5. /\ DOMAIN r = 1 .. n + 1
      /\ Anchos(r) \in [1 .. n + 1 -> Nat] /\ AnchosLibres(r) \in [1 .. n + 1 -> Nat]
      /\ \A k \in 1 .. n + 1 : /\ Anchos(r)[k] = r[k].tam + Cabecera
                               /\ AnchosLibres(r)[k] = IF r[k].libre THEN r[k].tam + Cabecera ELSE 0
                               /\ r[k].tam \in Nat
  BY <1>1, FilaTipos
<1>6. \A k \in 1 .. n : k \in 1 .. n + 1 /\ Anchos(r)[k] = Anchos(bs)[k] /\ AnchosLibres(r)[k] = AnchosLibres(bs)[k]
  <2> SUFFICES ASSUME NEW k \in 1 .. n
               PROVE  k \in 1 .. n + 1 /\ Anchos(r)[k] = Anchos(bs)[k] /\ AnchosLibres(r)[k] = AnchosLibres(bs)[k]
    OBVIOUS
  <2>1. k \in 1 .. n + 1
    BY <1>4
  <2>2. r[k] = bs[k]
    BY <1>1
  <2> QED
    BY <1>4, <1>5, <2>1, <2>2
<1>7. n + 1 \in 1 .. n + 1
  BY <1>4
<1>8. /\ Acumula(f, n, Anchos(bs)) /\ Acumula(g, n, AnchosLibres(bs))
       /\ Acumula(f2, n + 1, Anchos(r)) /\ Acumula(g2, n + 1, AnchosLibres(r))
  BY <1>1, <1>2, <1>3 DEF Sumas
<1>9. /\ \A k \in 0 .. n : f2[k] = f[k]
      /\ f2[n + 1] = f[n] + Anchos(r)[n + 1]
  <2> DEFINE a == Anchos(bs)
             b2 == Anchos(r)
  <2>1. /\ n \in Nat /\ a \in [1 .. n -> Nat] /\ b2 \in [1 .. n + 1 -> Nat]
        /\ \A k \in 1 .. n : b2[k] = a[k]
        /\ Acumula(f, n, a) /\ Acumula(f2, n + 1, b2)
    BY <1>4, <1>5, <1>6, <1>8
  <2> HIDE DEF a, b2, n
  <2>2. (\A k \in 0 .. n : f2[k] = f[k]) /\ f2[n + 1] = f[n] + b2[n + 1]
    BY <2>1, AcumulaMas
  <2> QED
    BY <2>2 DEF b2
<1>10. g2[n + 1] = g[n] + AnchosLibres(r)[n + 1]
  <2> DEFINE a == AnchosLibres(bs)
             b2 == AnchosLibres(r)
  <2>1. /\ n \in Nat /\ a \in [1 .. n -> Nat] /\ b2 \in [1 .. n + 1 -> Nat]
        /\ \A k \in 1 .. n : b2[k] = a[k]
        /\ Acumula(g, n, a) /\ Acumula(g2, n + 1, b2)
    BY <1>4, <1>5, <1>6, <1>8
  <2> HIDE DEF a, b2, n
  <2>2. (\A k \in 0 .. n : g2[k] = g[k]) /\ g2[n + 1] = g[n] + b2[n + 1]
    BY <2>1, AcumulaMas
  <2> QED
    BY <2>2 DEF b2
<1>11. Total(r) = Total(bs) + b.tam + Cabecera
  <2>1. n \in 0 .. n /\ b.tam \in Nat
    BY <1>1, <1>4, <1>5, <1>7
  <2>2. f[n] \in Nat
    BY <1>2, <2>1
  <2>3. Anchos(r)[n + 1] = b.tam + Cabecera
    BY <1>1, <1>5, <1>7
  <2>4. Total(r) = Total(bs) + (b.tam + Cabecera) /\ Total(bs) \in Nat
    BY <1>1, <1>2, <1>3, <1>9, <2>2, <2>3
  <2> QED
    BY <2>1, <2>4 DEF Cabecera
<1>12. LibreDe(r) = LibreDe(bs) + (IF b.libre THEN b.tam + Cabecera ELSE 0)
  BY <1>1, <1>2, <1>3, <1>5, <1>7, <1>10
<1>13. /\ \A k \in 1 .. n : Inicio(r, k) = Inicio(bs, k)
       /\ Inicio(r, n + 1) = Total(bs)
  <2>1. ASSUME NEW k \in 1 .. n + 1 PROVE Inicio(r, k) = f[k - 1]
    <3>1. k \in 1 .. Len(r) + 1 /\ k - 1 \in 0 .. n
      BY <1>1, <1>4
    <3> QED
      BY <1>3, <1>9, <3>1
  <2>2. n + 1 - 1 = n /\ \A k \in 1 .. n : k \in 1 .. n + 1
    BY <1>4
  <2> QED
    BY <1>2, <1>7, <2>1, <2>2
<1>14. Usados(r) = Usados(bs) \cup (IF b.libre THEN {} ELSE {<<Total(bs), b.tam>>})
  <2>1. ASSUME NEW u \in Usados(r)
        PROVE  u \in Usados(bs) \cup (IF b.libre THEN {} ELSE {<<Total(bs), b.tam>>})
    <3>1. PICK i \in 1 .. n + 1 : ~r[i].libre /\ u = <<Inicio(r, i), r[i].tam>>
      BY <1>5, <2>1 DEF Usados
    <3>2. CASE i = n + 1
      BY <1>1, <1>13, <3>1, <3>2
    <3>3. CASE i # n + 1
      <4>1. i \in 1 .. n
        BY <1>4, <3>3
      <4>2. ~bs[i].libre /\ u = <<Inicio(bs, i), bs[i].tam>>
        BY <1>1, <1>13, <3>1, <4>1
      <4>3. u \in Usados(bs)
        BY <1>4, <4>1, <4>2 DEF Usados
      <4> QED
        BY <4>3
    <3> QED
      BY <3>2, <3>3
  <2>2. ASSUME NEW u \in Usados(bs) PROVE u \in Usados(r)
    <3>1. PICK i \in 1 .. n : ~bs[i].libre /\ u = <<Inicio(bs, i), bs[i].tam>>
      BY <1>4, <2>2 DEF Usados
    <3>2. i \in 1 .. n + 1 /\ ~r[i].libre /\ u = <<Inicio(r, i), r[i].tam>>
      BY <1>1, <1>6, <1>13, <3>1
    <3> QED
      BY <1>5, <3>2 DEF Usados
  <2>3. ASSUME ~b.libre PROVE <<Total(bs), b.tam>> \in Usados(r)
    <3>1. n + 1 \in DOMAIN r /\ ~r[n + 1].libre /\ <<Total(bs), b.tam>> = <<Inicio(r, n + 1), r[n + 1].tam>>
      BY <1>1, <1>5, <1>7, <1>13, <2>3
    <3> QED
      BY <3>1 DEF Usados
  <2> QED
    BY <2>1, <2>2, <2>3
<1> QED
  BY <1>1, <1>11, <1>12, <1>14 DEF r

(* One block written over.                                                  *)
LEMMA FilaCambia ==
  ASSUME NEW bs \in Seq(Bloques), NEW r \in Seq(Bloques), Len(r) = Len(bs), NEW i \in 1 .. Len(bs),
         \A k \in 1 .. Len(bs) : k # i => r[k] = bs[k]
  PROVE  /\ \A k \in 1 .. i : Inicio(r, k) = Inicio(bs, k)
         /\ \A k \in i + 1 .. Len(bs) : Inicio(r, k) = Inicio(bs, k) - bs[i].tam + r[i].tam
         /\ Total(r) = Total(bs) - bs[i].tam + r[i].tam
         /\ LibreDe(r) = LibreDe(bs) - AnchoLibre(bs[i]) + AnchoLibre(r[i])
<1> DEFINE n == Len(bs)
<1>1. PICK f, g : /\ Sumas(bs, f, g)
                  /\ \A k \in 1 .. Len(bs) + 1 : Inicio(bs, k) = f[k - 1]
                  /\ \A k \in 0 .. Len(bs) : f[k] \in Nat /\ g[k] \in Nat
                  /\ Total(bs) = f[Len(bs)]
                  /\ LibreDe(bs) = g[Len(bs)]
  BY FilaSumas
<1>2. PICK f2, g2 : /\ Sumas(r, f2, g2)
                    /\ \A k \in 1 .. Len(r) + 1 : Inicio(r, k) = f2[k - 1]
                    /\ Total(r) = f2[Len(r)]
                    /\ LibreDe(r) = g2[Len(r)]
  BY FilaSumas
<1>3. /\ n \in Nat
      /\ Anchos(bs) \in [1 .. n -> Nat] /\ AnchosLibres(bs) \in [1 .. n -> Nat]
      /\ \A k \in 1 .. n : /\ Anchos(bs)[k] = bs[k].tam + Cabecera
                           /\ AnchosLibres(bs)[k] = AnchoLibre(bs[k])
                           /\ bs[k].tam \in Nat
  BY FilaTipos DEF AnchoLibre
<1>4. /\ Anchos(r) \in [1 .. n -> Nat] /\ AnchosLibres(r) \in [1 .. n -> Nat]
      /\ \A k \in 1 .. n : /\ Anchos(r)[k] = r[k].tam + Cabecera
                           /\ AnchosLibres(r)[k] = AnchoLibre(r[k])
                           /\ r[k].tam \in Nat
  BY FilaTipos DEF AnchoLibre
<1>5. /\ Acumula(f, n, Anchos(bs)) /\ Acumula(g, n, AnchosLibres(bs))
      /\ Acumula(f2, n, Anchos(r)) /\ Acumula(g2, n, AnchosLibres(r))
  BY <1>1, <1>2 DEF Sumas
<1>6. /\ \A k \in 0 .. i - 1 : f2[k] = f[k]
      /\ \A k \in i .. n : f2[k] = f[k] - Anchos(bs)[i] + Anchos(r)[i]
  <2> DEFINE a == Anchos(bs)
             b == Anchos(r)
  <2>1. /\ n \in Nat /\ a \in [1 .. n -> Nat] /\ b \in [1 .. n -> Nat] /\ i \in 1 .. n
        /\ SoloCambia(a, b, n, i)
        /\ Acumula(f, n, a) /\ Acumula(f2, n, b)
    BY <1>3, <1>4, <1>5 DEF SoloCambia
  <2> HIDE DEF a, b, n
  <2>2. Corre(f, f2, a, b, n, i)
    BY <2>1, AcumulaCambia
  <2> QED
    BY <2>2 DEF a, b, Corre
<1>7. \A k \in i .. n : g2[k] = g[k] - AnchosLibres(bs)[i] + AnchosLibres(r)[i]
  <2> DEFINE a == AnchosLibres(bs)
             b == AnchosLibres(r)
  <2>1. /\ n \in Nat /\ a \in [1 .. n -> Nat] /\ b \in [1 .. n -> Nat] /\ i \in 1 .. n
        /\ SoloCambia(a, b, n, i)
        /\ Acumula(g, n, a) /\ Acumula(g2, n, b)
    BY <1>3, <1>4, <1>5 DEF SoloCambia
  <2> HIDE DEF a, b, n
  <2>2. Corre(g, g2, a, b, n, i)
    BY <2>1, AcumulaCambia
  <2> QED
    BY <2>2 DEF a, b, Corre
<1>8. ASSUME NEW k \in i .. n PROVE f2[k] = f[k] - bs[i].tam + r[i].tam
  <2>1. f2[k] = f[k] - Anchos(bs)[i] + Anchos(r)[i]
    BY <1>6
  <2>2. k \in 0 .. n
    BY <1>3
  <2>3. PICK x \in Nat, s \in Nat, t \in Nat : x = f[k] /\ s = bs[i].tam /\ t = r[i].tam
    BY <1>1, <1>3, <1>4, <2>2
  <2>4. f2[k] = x - (s + Cabecera) + (t + Cabecera)
    BY <1>3, <1>4, <2>1, <2>3
  <2>5. f2[k] = x - s + t
    BY <2>4 DEF Cabecera
  <2> QED
    BY <2>3, <2>5
<1>9. ASSUME NEW k \in 1 .. i PROVE Inicio(r, k) = Inicio(bs, k)
  <2>1. k \in 1 .. n + 1 /\ k - 1 \in 0 .. i - 1
    BY <1>3
  <2> QED
    BY <1>1, <1>2, <1>6, <2>1
<1>10. ASSUME NEW k \in i + 1 .. n PROVE Inicio(r, k) = Inicio(bs, k) - bs[i].tam + r[i].tam
  <2>1. k \in 1 .. n + 1 /\ k - 1 \in i .. n
    BY <1>3
  <2> QED
    BY <1>1, <1>2, <1>8, <2>1
<1>11. n \in i .. n
  BY <1>3
<1>12. Total(r) = Total(bs) - bs[i].tam + r[i].tam
  BY <1>1, <1>2, <1>8, <1>11
<1>13. LibreDe(r) = LibreDe(bs) - AnchoLibre(bs[i]) + AnchoLibre(r[i])
  BY <1>1, <1>2, <1>3, <1>4, <1>7, <1>11
<1> QED
  BY <1>9, <1>10, <1>12, <1>13

(* One block whose flag is written over: it is given whole, or freed.       *)
LEMMA FilaMarca ==
  ASSUME NEW bs \in Seq(Bloques), NEW i \in 1 .. Len(bs), NEW l \in BOOLEAN, bs[i].libre = ~l
  PROVE  LET r == [bs EXCEPT ![i].libre = l]
             u == <<Inicio(bs, i), bs[i].tam>>
         IN  /\ r \in Seq(Bloques)
             /\ Total(r) = Total(bs)
             /\ LibreDe(r) = IF l THEN LibreDe(bs) + bs[i].tam + Cabecera
                                  ELSE LibreDe(bs) - (bs[i].tam + Cabecera)
             /\ Usados(r) = IF l THEN Usados(bs) \ {u} ELSE Usados(bs) \cup {u}
<1> DEFINE n == Len(bs)
           r == [bs EXCEPT ![i].libre = l]
           u == <<Inicio(bs, i), bs[i].tam>>
<1>1. /\ n \in Nat /\ DOMAIN bs = 1 .. n
      /\ \A k \in 1 .. n : bs[k] \in Bloques /\ bs[k].tam \in Nat /\ bs[k].libre \in BOOLEAN
  BY FilaTipos
<1>2. r \in Seq(Bloques) /\ Len(r) = n /\ DOMAIN r = 1 .. n
  <2>1. [bs[i] EXCEPT !.libre = l] \in Bloques
    BY <1>1 DEF Bloques
  <2>2. r = [bs EXCEPT ![i] = [bs[i] EXCEPT !.libre = l]]
    BY <1>1
  <2> QED
    BY <1>1, <2>1, <2>2, ExceptSeq, LenProperties
<1>3. /\ r[i] = [bs[i] EXCEPT !.libre = l]
      /\ \A k \in 1 .. n : k # i => r[k] = bs[k]
  BY <1>1
<1>4. r[i].tam = bs[i].tam /\ r[i].libre = l
  BY <1>1, <1>3 DEF Bloques
<1> HIDE DEF r
<1>5. /\ \A k \in 1 .. i : Inicio(r, k) = Inicio(bs, k)
      /\ \A k \in i + 1 .. n : Inicio(r, k) = Inicio(bs, k) - bs[i].tam + r[i].tam
      /\ Total(r) = Total(bs) - bs[i].tam + r[i].tam
      /\ LibreDe(r) = LibreDe(bs) - AnchoLibre(bs[i]) + AnchoLibre(r[i])
  BY <1>2, <1>3, FilaCambia
<1>6. \A x, s \in Nat : x - s + s = x
  OBVIOUS
<1>7. /\ Total(bs) \in Nat /\ \A k \in 1 .. n : Inicio(bs, k) \in Nat
      /\ \A k, j \in 1 .. n : Inicio(bs, k) = Inicio(bs, j) => k = j
  BY InicioPasos
<1>8. Total(r) = Total(bs)
  BY <1>1, <1>4, <1>5, <1>6, <1>7
<1>9. ASSUME NEW k \in 1 .. n PROVE Inicio(r, k) = Inicio(bs, k)
  <2>1. CASE k <= i
    <3>1. k \in 1 .. i
      BY <2>1
    <3> QED
      BY <1>5, <3>1
  <2>2. CASE k > i
    <3>1. k \in i + 1 .. n
      BY <1>1, <2>2
    <3>2. Inicio(r, k) = Inicio(bs, k) - bs[i].tam + bs[i].tam
      BY <1>4, <1>5, <3>1
    <3> QED
      BY <1>1, <1>6, <1>7, <3>2
  <2> QED
    BY <2>1, <2>2
<1>10. LibreDe(r) = IF l THEN LibreDe(bs) + bs[i].tam + Cabecera ELSE LibreDe(bs) - (bs[i].tam + Cabecera)
  <2>1. PICK x \in Nat, t \in Nat : x = LibreDe(bs) /\ t = bs[i].tam
    BY <1>1, LibreAcotado
  <2>2. CASE l
    <3>1. AnchoLibre(bs[i]) = 0 /\ AnchoLibre(r[i]) = t + Cabecera
      BY <1>4, <2>1, <2>2 DEF AnchoLibre
    <3>2. LibreDe(r) = x - 0 + (t + Cabecera)
      BY <1>5, <2>1, <3>1
    <3>3. LibreDe(r) = x + t + Cabecera
      BY <3>2 DEF Cabecera
    <3> QED
      BY <2>1, <2>2, <3>3
  <2>3. CASE ~l
    <3>1. AnchoLibre(bs[i]) = t + Cabecera /\ AnchoLibre(r[i]) = 0
      BY <1>4, <2>1, <2>3 DEF AnchoLibre
    <3>2. LibreDe(r) = x - (t + Cabecera) + 0
      BY <1>5, <2>1, <3>1
    <3>3. LibreDe(r) = x - (t + Cabecera)
      BY <3>2 DEF Cabecera
    <3> QED
      BY <2>1, <2>3, <3>3
  <2> QED
    BY <2>2, <2>3
<1>11. \A w : w \in Usados(bs) <=> \E k \in 1 .. n : ~bs[k].libre /\ w = <<Inicio(bs, k), bs[k].tam>>
  BY <1>1 DEF Usados
<1>12. \A w : w \in Usados(r) <=> \E k \in 1 .. n : ~r[k].libre /\ w = <<Inicio(bs, k), r[k].tam>>
  BY <1>2, <1>9 DEF Usados
<1>13. Usados(r) = IF l THEN Usados(bs) \ {u} ELSE Usados(bs) \cup {u}
  <2>1. CASE l
    <3>1. ASSUME NEW w \in Usados(r) PROVE w \in Usados(bs) \ {u}
      <4>1. PICK k \in 1 .. n : ~r[k].libre /\ w = <<Inicio(bs, k), r[k].tam>>
        BY <1>12
      <4>2. k # i
        BY <1>4, <2>1, <4>1
      <4>3. r[k] = bs[k]
        BY <1>3, <4>2
      <4>4. Inicio(bs, k) # Inicio(bs, i)
        BY <1>7, <4>2
      <4> QED
        BY <1>11, <4>1, <4>3, <4>4
    <3>2. ASSUME NEW w \in Usados(bs), w # u PROVE w \in Usados(r)
      <4>1. PICK k \in 1 .. n : ~bs[k].libre /\ w = <<Inicio(bs, k), bs[k].tam>>
        BY <1>11
      <4>2. k # i
        BY <3>2, <4>1
      <4> QED
        BY <1>3, <1>12, <4>1, <4>2
    <3> QED
      BY <2>1, <3>1, <3>2
  <2>2. CASE ~l
    <3>1. ASSUME NEW w \in Usados(r) PROVE w \in Usados(bs) \cup {u}
      <4>1. PICK k \in 1 .. n : ~r[k].libre /\ w = <<Inicio(bs, k), r[k].tam>>
        BY <1>12
      <4>2. CASE k = i
        BY <1>4, <4>1, <4>2
      <4>3. CASE k # i
        <5>1. r[k] = bs[k]
          BY <1>3, <4>3
        <5> QED
          BY <1>11, <4>1, <5>1
      <4> QED
        BY <4>2, <4>3
    <3>2. ASSUME NEW w \in Usados(bs) PROVE w \in Usados(r)
      <4>1. PICK k \in 1 .. n : ~bs[k].libre /\ w = <<Inicio(bs, k), bs[k].tam>>
        BY <1>11
      <4>2. k # i
        BY <2>2, <4>1
      <4> QED
        BY <1>3, <1>12, <4>1, <4>2
    <3>3. u \in Usados(r)
      BY <1>4, <1>12, <2>2
    <3> QED
      BY <2>2, <3>1, <3>2, <3>3
  <2> QED
    BY <2>1, <2>2
<1> QED
  BY <1>2, <1>8, <1>10, <1>13 DEF r

(* ubicar_bloque: a free block becomes a used one of the size asked for     *)
(* and, unless it fits exactly, a free one of what is left.                 *)
Ubicado(r, bs, i, tam) ==
  /\ r \in Seq(Bloques)
  /\ Total(r) = Total(bs)
  /\ LibreDe(r) = LibreDe(bs) - (tam + Cabecera)
  /\ Usados(r) = Usados(bs) \cup {<<Inicio(bs, i), tam>>}

LEMMA QuitaYPone ==
  ASSUME NEW x \in Nat, NEW s \in Nat, NEW t \in Nat
  PROVE  x - (s + t + 10) + (s + 5) + (t + 5) = x
OBVIOUS

LEMMA FilaParte ==
  ASSUME NEW bs \in Seq(Bloques), NEW i \in 1 .. Len(bs), NEW tam \in Nat, NEW resto \in Nat,
         bs[i].libre, bs[i].tam = tam + resto + Cabecera
  PROVE  Ubicado(DosPorUno(bs, i, Bloque(tam, FALSE), Bloque(resto, TRUE)), bs, i, tam)
<1> DEFINE n == Len(bs)
           r == DosPorUno(bs, i, Bloque(tam, FALSE), Bloque(resto, TRUE))
<1>1. Bloque(tam, FALSE) \in Bloques /\ Bloque(resto, TRUE) \in Bloques
  BY DEF Bloque, Bloques
<1>2. /\ r \in Seq(Bloques) /\ Len(r) = n + 1
      /\ \A k \in 1 .. i - 1 : r[k] = bs[k]
      /\ r[i] = Bloque(tam, FALSE) /\ r[i + 1] = Bloque(resto, TRUE)
      /\ \A k \in i + 1 .. n : r[k + 1] = bs[k]
  <2>1. EsDosPorUno(r, Bloques, bs, i, Bloque(tam, FALSE), Bloque(resto, TRUE))
    BY <1>1, EnDos
  <2> HIDE DEF r
  <2> QED
    BY <2>1 DEF EsDosPorUno
<1> HIDE DEF r
<1>3. /\ r[i].tam = tam /\ ~r[i].libre
      /\ r[i + 1].tam = resto /\ r[i + 1].libre
  BY <1>2 DEF Bloque
<1>4. PICK f, g : /\ Sumas(bs, f, g)
                  /\ \A k \in 1 .. Len(bs) + 1 : Inicio(bs, k) = f[k - 1]
                  /\ \A k \in 0 .. Len(bs) : f[k] \in Nat /\ g[k] \in Nat
                  /\ Total(bs) = f[Len(bs)]
                  /\ LibreDe(bs) = g[Len(bs)]
  BY FilaSumas
<1>5. PICK f2, g2 : /\ Sumas(r, f2, g2)
                    /\ \A k \in 1 .. Len(r) + 1 : Inicio(r, k) = f2[k - 1]
                    /\ Total(r) = f2[Len(r)]
                    /\ LibreDe(r) = g2[Len(r)]
  <2>1. r \in Seq(Bloques)
    BY <1>2
  <2> QED
    BY <2>1, FilaSumas
<1>6. /\ n \in Nat /\ DOMAIN bs = 1 .. n
      /\ Anchos(bs) \in [1 .. n -> Nat] /\ AnchosLibres(bs) \in [1 .. n -> Nat]
      /\ \A k \in 1 .. n : /\ Anchos(bs)[k] = bs[k].tam + Cabecera
                           /\ AnchosLibres(bs)[k] = IF bs[k].libre THEN bs[k].tam + Cabecera ELSE 0
                           /\ bs[k].tam \in Nat
  BY FilaTipos
<1>7. /\ DOMAIN r = 1 .. n + 1
      /\ Anchos(r) \in [1 .. n + 1 -> Nat] /\ AnchosLibres(r) \in [1 .. n + 1 -> Nat]
      /\ \A k \in 1 .. n + 1 : /\ Anchos(r)[k] = r[k].tam + Cabecera
                               /\ AnchosLibres(r)[k] = IF r[k].libre THEN r[k].tam + Cabecera ELSE 0
  BY <1>2, FilaTipos
<1>8. /\ Acumula(f, n, Anchos(bs)) /\ Acumula(g, n, AnchosLibres(bs))
      /\ Acumula(f2, n + 1, Anchos(r)) /\ Acumula(g2, n + 1, AnchosLibres(r))
  BY <1>2, <1>4, <1>5 DEF Sumas
<1>9. /\ i \in 1 .. n /\ i \in 1 .. n + 1 /\ i + 1 \in 1 .. n + 1 /\ i - 1 \in 0 .. n /\ n \in i .. n /\ n \in 0 .. n
      /\ \A k \in 1 .. i - 1 : k \in 1 .. n /\ k \in 1 .. n + 1
      /\ \A k \in i + 1 .. n : k \in 1 .. n /\ k + 1 \in 1 .. n + 1
  BY <1>6
<1>10. SoloParte(Anchos(bs), Anchos(r), n, i) /\ SoloParte(AnchosLibres(bs), AnchosLibres(r), n, i)
  <2>1. ASSUME NEW k \in 1 .. i - 1
        PROVE  Anchos(r)[k] = Anchos(bs)[k] /\ AnchosLibres(r)[k] = AnchosLibres(bs)[k]
    <3>1. k \in 1 .. n /\ k \in 1 .. n + 1 /\ r[k] = bs[k]
      BY <1>2, <1>9
    <3> QED
      BY <1>6, <1>7, <3>1
  <2>2. ASSUME NEW k \in i + 1 .. n
        PROVE  Anchos(r)[k + 1] = Anchos(bs)[k] /\ AnchosLibres(r)[k + 1] = AnchosLibres(bs)[k]
    <3>1. k \in 1 .. n /\ k + 1 \in 1 .. n + 1 /\ r[k + 1] = bs[k]
      BY <1>2, <1>9
    <3> QED
      BY <1>6, <1>7, <3>1
  <2> QED
    BY <1>9, <2>1, <2>2 DEF SoloParte
<1>11. CorreDos(f, f2, Anchos(bs), Anchos(r), n, i)
  BY <1>6, <1>7, <1>8, <1>10, AcumulaParte
<1>12. CorreDos(g, g2, AnchosLibres(bs), AnchosLibres(r), n, i)
  BY <1>6, <1>7, <1>8, <1>10, AcumulaParte
<1>13. /\ Anchos(bs)[i] = tam + resto + 10 /\ Anchos(r)[i] = tam + 5 /\ Anchos(r)[i + 1] = resto + 5
       /\ AnchosLibres(bs)[i] = tam + resto + 10 /\ AnchosLibres(r)[i] = 0 /\ AnchosLibres(r)[i + 1] = resto + 5
  <2>1. Anchos(bs)[i] = bs[i].tam + Cabecera /\ AnchosLibres(bs)[i] = bs[i].tam + Cabecera
    BY <1>6, <1>9
  <2>2. /\ Anchos(r)[i] = tam + Cabecera /\ Anchos(r)[i + 1] = resto + Cabecera
        /\ AnchosLibres(r)[i] = 0 /\ AnchosLibres(r)[i + 1] = resto + Cabecera
    BY <1>3, <1>7, <1>9
  <2>3. bs[i].tam + Cabecera = tam + resto + 10
    BY DEF Cabecera
  <2> QED
    BY <2>1, <2>2, <2>3 DEF Cabecera
<1>14. \A k \in i .. n : f2[k + 1] = f[k]
  <2> SUFFICES ASSUME NEW k \in i .. n PROVE f2[k + 1] = f[k]
    OBVIOUS
  <2>1. k \in 0 .. n
    BY <1>6
  <2>2. PICK x \in Nat : x = f[k]
    BY <1>4, <2>1
  <2>3. f2[k + 1] = x - (tam + resto + 10) + (tam + 5) + (resto + 5)
    BY <1>11, <1>13, <2>2 DEF CorreDos
  <2>4. x - (tam + resto + 10) + (tam + 5) + (resto + 5) = x
    BY QuitaYPone
  <2> QED
    BY <2>2, <2>3, <2>4
<1>15. Total(r) = Total(bs)
  BY <1>2, <1>4, <1>5, <1>9, <1>14
<1>16. LibreDe(r) = LibreDe(bs) - (tam + Cabecera)
  <2>1. PICK x \in Nat : x = g[n]
    BY <1>4, <1>9
  <2>2. g2[n + 1] = x - (tam + resto + 10) + 0 + (resto + 5)
    BY <1>9, <1>12, <1>13, <2>1 DEF CorreDos
  <2>3. g2[n + 1] = x - (tam + 5)
    BY <2>2
  <2> QED
    BY <1>2, <1>4, <1>5, <2>1, <2>3 DEF Cabecera
<1>17. \A k \in 1 .. i : Inicio(r, k) = Inicio(bs, k)
  <2> SUFFICES ASSUME NEW k \in 1 .. i PROVE Inicio(r, k) = Inicio(bs, k)
    OBVIOUS
  <2>1. k \in 1 .. n + 1 /\ k \in 1 .. n + 1 + 1 /\ k - 1 \in 0 .. i - 1
    BY <1>6
  <2>2. Inicio(bs, k) = f[k - 1]
    BY <1>4, <2>1
  <2>3. Inicio(r, k) = f2[k - 1]
    BY <1>2, <1>5, <2>1
  <2>4. f2[k - 1] = f[k - 1]
    BY <1>11, <2>1 DEF CorreDos
  <2> QED
    BY <2>2, <2>3, <2>4
<1>18. \A k \in i + 1 .. n : Inicio(r, k + 1) = Inicio(bs, k)
  <2> SUFFICES ASSUME NEW k \in i + 1 .. n PROVE Inicio(r, k + 1) = Inicio(bs, k)
    OBVIOUS
  <2>1. k \in 1 .. n + 1 /\ k + 1 \in 1 .. n + 1 + 1 /\ k - 1 \in i .. n /\ k - 1 + 1 = k /\ k + 1 - 1 = k
    BY <1>6
  <2>2. Inicio(bs, k) = f[k - 1]
    BY <1>4, <2>1
  <2>3. Inicio(r, k + 1) = f2[k]
    BY <1>2, <1>5, <2>1
  <2>4. f2[k] = f[k - 1]
    BY <1>14, <2>1
  <2> QED
    BY <2>2, <2>3, <2>4
<1>19. ASSUME NEW u \in Usados(r) PROVE u \in Usados(bs) \cup {<<Inicio(bs, i), tam>>}
  <2>1. PICK k \in 1 .. n + 1 : ~r[k].libre /\ u = <<Inicio(r, k), r[k].tam>>
    BY <1>7 DEF Usados
  <2>2. CASE k < i
    <3>1. k \in 1 .. i - 1 /\ k \in 1 .. i
      BY <2>2
    <3>2. k \in 1 .. n /\ ~bs[k].libre /\ u = <<Inicio(bs, k), bs[k].tam>>
      BY <1>2, <1>9, <1>17, <2>1, <3>1
    <3>3. u \in Usados(bs)
      BY <1>6, <3>2 DEF Usados
    <3> QED
      BY <3>3
  <2>3. CASE k = i
    <3>1. i \in 1 .. i
      OBVIOUS
    <3> QED
      BY <1>3, <1>17, <2>1, <2>3, <3>1
  <2>4. CASE k > i
    <3>1. k # i + 1
      BY <1>3, <2>1
    <3>2. PICK j \in i + 1 .. n : k = j + 1
      <4>1. k - 1 \in i + 1 .. n /\ k = k - 1 + 1
        BY <1>6, <2>4, <3>1
      <4> QED
        BY <4>1
    <3>3. j \in 1 .. n /\ ~bs[j].libre /\ u = <<Inicio(bs, j), bs[j].tam>>
      BY <1>2, <1>9, <1>18, <2>1, <3>2
    <3>4. u \in Usados(bs)
      BY <1>6, <3>3 DEF Usados
    <3> QED
      BY <3>4
  <2> QED
    BY <2>2, <2>3, <2>4
<1>20. ASSUME NEW u \in Usados(bs) PROVE u \in Usados(r)
  <2>1. PICK k \in 1 .. n : ~bs[k].libre /\ u = <<Inicio(bs, k), bs[k].tam>>
    BY <1>6 DEF Usados
  <2>2. k # i
    BY <2>1
  <2>3. CASE k < i
    <3>1. k \in 1 .. i - 1 /\ k \in 1 .. i
      BY <2>3
    <3>2. k \in 1 .. n + 1 /\ ~r[k].libre /\ u = <<Inicio(r, k), r[k].tam>>
      BY <1>2, <1>9, <1>17, <2>1, <3>1
    <3> QED
      BY <1>7, <3>2 DEF Usados
  <2>4. CASE k > i
    <3>1. k \in i + 1 .. n
      BY <1>6, <2>4
    <3>2. k + 1 \in 1 .. n + 1 /\ ~r[k + 1].libre /\ u = <<Inicio(r, k + 1), r[k + 1].tam>>
      BY <1>2, <1>9, <1>18, <2>1, <3>1
    <3> QED
      BY <1>7, <3>2 DEF Usados
  <2> QED
    BY <2>2, <2>3, <2>4
<1>21. <<Inicio(bs, i), tam>> \in Usados(r)
  <2>1. i \in 1 .. i
    OBVIOUS
  <2>2. i \in DOMAIN r /\ ~r[i].libre /\ <<Inicio(bs, i), tam>> = <<Inicio(r, i), r[i].tam>>
    BY <1>3, <1>7, <1>9, <1>17, <2>1
  <2> QED
    BY <2>2 DEF Usados
<1>22. Usados(r) = Usados(bs) \cup {<<Inicio(bs, i), tam>>}
  BY <1>19, <1>20, <1>21
<1>23. Ubicado(r, bs, i, tam)
  BY <1>2, <1>15, <1>16, <1>22 DEF Ubicado
<1> QED
  BY <1>23 DEF r

LEMMA PartirHace ==
  ASSUME NEW bs \in Seq(Bloques), NEW i \in 1 .. Len(bs), NEW tam \in Nat,
         bs[i].libre, bs[i].tam >= tam, bs[i].tam - tam \notin 1 .. Cabecera - 1
  PROVE  Ubicado(Partir(bs, i, tam), bs, i, tam)
<1> DEFINE sobra == bs[i].tam - tam
<1>1. bs[i].tam \in Nat
  BY FilaTipos
<1>2. ASSUME sobra = 0 PROVE Ubicado(Partir(bs, i, tam), bs, i, tam)
  <2>1. bs[i].tam = tam
    BY <1>1, <1>2
  <2>2. Partir(bs, i, tam) = [bs EXCEPT ![i].libre = FALSE]
    BY <1>2 DEF Partir
  <2> DEFINE r == [bs EXCEPT ![i].libre = FALSE]
  <2>3. FALSE \in BOOLEAN /\ bs[i].libre = ~FALSE
    OBVIOUS
  <2>4. /\ r \in Seq(Bloques)
        /\ Total(r) = Total(bs)
        /\ LibreDe(r) = IF FALSE THEN LibreDe(bs) + bs[i].tam + Cabecera
                                 ELSE LibreDe(bs) - (bs[i].tam + Cabecera)
        /\ Usados(r) = IF FALSE THEN Usados(bs) \ {<<Inicio(bs, i), bs[i].tam>>}
                                ELSE Usados(bs) \cup {<<Inicio(bs, i), bs[i].tam>>}
    BY <2>3, FilaMarca
  <2> HIDE DEF r
  <2>5. Ubicado(r, bs, i, tam)
    BY <2>1, <2>4 DEF Ubicado
  <2> QED
    BY <2>2, <2>5 DEF r
<1>3. ASSUME sobra # 0 PROVE Ubicado(Partir(bs, i, tam), bs, i, tam)
  <2>1. sobra - Cabecera \in Nat /\ bs[i].tam = tam + (sobra - Cabecera) + Cabecera
    <3>1. PICK y \in Nat : y = bs[i].tam
      BY <1>1
    <3>2. y - tam # 0 /\ y - tam \notin 1 .. 4 /\ y >= tam
      BY <1>3, <3>1 DEF Cabecera
    <3>3. (y - tam) - 5 \in Nat /\ y = tam + ((y - tam) - 5) + 5
      BY <3>2
    <3> QED
      BY <3>1, <3>3 DEF Cabecera
  <2>2. Partir(bs, i, tam) = DosPorUno(bs, i, Bloque(tam, FALSE), Bloque(sobra - Cabecera, TRUE))
    BY <1>3 DEF Partir, DosPorUno
  <2> DEFINE resto == sobra - Cabecera
             r == DosPorUno(bs, i, Bloque(tam, FALSE), Bloque(resto, TRUE))
  <2>3. resto \in Nat /\ bs[i].tam = tam + resto + Cabecera
    BY <2>1
  <2> HIDE DEF sobra, resto
  <2>4. Ubicado(r, bs, i, tam)
    BY <2>3, FilaParte
  <2> QED
    BY <2>2, <2>4 DEF resto
<1> QED
  BY <1>2, <1>3

(* compactar_contiguos: what a row has in it does not change.               *)
Compactado(r, bs) ==
  /\ r \in Seq(Bloques)
  /\ Total(r) = Total(bs)
  /\ LibreDe(r) = LibreDe(bs)
  /\ Usados(r) = Usados(bs)

Junto(r, bs, b) ==
  /\ r \in Seq(Bloques)
  /\ Total(r) = Total(bs) + b.tam + Cabecera
  /\ LibreDe(r) = LibreDe(bs) + AnchoLibre(b)
  /\ Usados(r) = Usados(bs) \cup (IF b.libre THEN {} ELSE {<<Total(bs), b.tam>>})

LEMMA JuntarHace ==
  ASSUME NEW bs \in Seq(Bloques), NEW b \in Bloques
  PROVE  Junto(Juntar(bs, b), bs, b)
<1> DEFINE n == Len(bs)
<1>1. /\ n \in Nat /\ DOMAIN bs = 1 .. n
      /\ \A k \in 1 .. n : bs[k] \in Bloques /\ bs[k].tam \in Nat /\ bs[k].libre \in BOOLEAN
  BY FilaTipos
<1>2. b.tam \in Nat /\ b.libre \in BOOLEAN
  BY DEF Bloques
<1>3. ASSUME ~(bs # <<>> /\ b.libre /\ bs[n].libre) PROVE Junto(Juntar(bs, b), bs, b)
  <2>1. Juntar(bs, b) = Append(bs, b)
    BY <1>3 DEF Juntar
  <2> DEFINE r == Append(bs, b)
  <2>2. /\ r \in Seq(Bloques)
        /\ Total(r) = Total(bs) + b.tam + Cabecera
        /\ LibreDe(r) = LibreDe(bs) + (IF b.libre THEN b.tam + Cabecera ELSE 0)
        /\ Usados(r) = Usados(bs) \cup (IF b.libre THEN {} ELSE {<<Total(bs), b.tam>>})
    BY FilaAgrega
  <2> HIDE DEF r
  <2>3. Junto(r, bs, b)
    BY <2>2 DEF Junto, AnchoLibre
  <2> QED
    BY <2>1, <2>3 DEF r
<1>4. ASSUME bs # <<>>, b.libre, bs[n].libre PROVE Junto(Juntar(bs, b), bs, b)
  <2> DEFINE t == bs[n].tam + Cabecera + b.tam
             r == [bs EXCEPT ![n].tam = t]
  <2>1. n \in 1 .. n
    <3>1. n # 0
      BY <1>4, EmptySeq
    <3> QED
      BY <1>1, <3>1
  <2>2. Juntar(bs, b) = r
    BY <1>4 DEF Juntar
  <2>3. t \in Nat
    BY <1>1, <1>2, <2>1 DEF Cabecera
  <2> HIDE DEF t
  <2>4. [bs[n] EXCEPT !.tam = t] \in Bloques
    BY <1>1, <2>1, <2>3 DEF Bloques
  <2>5. r = [bs EXCEPT ![n] = [bs[n] EXCEPT !.tam = t]]
    BY <1>1, <2>1
  <2>6. r \in Seq(Bloques) /\ Len(r) = n /\ DOMAIN r = 1 .. n
    BY <1>1, <2>1, <2>4, <2>5, ExceptSeq, LenProperties
  <2>7. r[n] = [bs[n] EXCEPT !.tam = t] /\ \A k \in 1 .. n : k # n => r[k] = bs[k]
    BY <1>1, <2>1
  <2>8. r[n].tam = t /\ r[n].libre
    BY <1>1, <1>4, <2>1, <2>7 DEF Bloques
  <2> HIDE DEF r
  <2>9. /\ \A k \in 1 .. n : Inicio(r, k) = Inicio(bs, k)
        /\ Total(r) = Total(bs) - bs[n].tam + r[n].tam
        /\ LibreDe(r) = LibreDe(bs) - AnchoLibre(bs[n]) + AnchoLibre(r[n])
    BY <2>1, <2>6, <2>7, FilaCambia
  <2>10. PICK x \in Nat, y \in Nat, s \in Nat, d \in Nat :
           x = Total(bs) /\ y = LibreDe(bs) /\ s = bs[n].tam /\ d = b.tam
    BY <1>1, <1>2, <2>1, InicioPasos, LibreAcotado
  <2>11. t = s + 5 + d
    BY <2>10 DEF t, Cabecera
  <2>12. Total(r) = Total(bs) + b.tam + Cabecera
    <3>1. Total(r) = x - s + (s + 5 + d)
      BY <2>8, <2>9, <2>10, <2>11
    <3>2. Total(r) = x + d + 5
      BY <3>1
    <3> QED
      BY <2>10, <3>2 DEF Cabecera
  <2>13. LibreDe(r) = LibreDe(bs) + AnchoLibre(b)
    <3>1. AnchoLibre(bs[n]) = s + 5 /\ AnchoLibre(r[n]) = s + 5 + d + 5 /\ AnchoLibre(b) = d + 5
      BY <1>4, <2>8, <2>10, <2>11 DEF AnchoLibre, Cabecera
    <3>2. LibreDe(r) = y - (s + 5) + (s + 5 + d + 5)
      BY <2>9, <2>10, <3>1
    <3>3. LibreDe(r) = y + (d + 5)
      BY <3>2
    <3> QED
      BY <2>10, <3>1, <3>3
  <2>14. Usados(r) = Usados(bs)
    <3>1. \A w : w \in Usados(bs) <=> \E k \in 1 .. n : ~bs[k].libre /\ w = <<Inicio(bs, k), bs[k].tam>>
      BY <1>1 DEF Usados
    <3>2. \A w : w \in Usados(r) <=> \E k \in 1 .. n : ~r[k].libre /\ w = <<Inicio(bs, k), r[k].tam>>
      BY <2>6, <2>9 DEF Usados
    <3>3. \A k \in 1 .. n : ~bs[k].libre => k # n /\ r[k] = bs[k]
      BY <1>4, <2>7
    <3>4. \A k \in 1 .. n : ~r[k].libre => k # n /\ r[k] = bs[k]
      BY <2>7, <2>8
    <3>5. ASSUME NEW w \in Usados(r) PROVE w \in Usados(bs)
      BY <3>1, <3>2, <3>4
    <3>6. ASSUME NEW w \in Usados(bs) PROVE w \in Usados(r)
      BY <3>1, <3>2, <3>3
    <3> QED
      BY <3>5, <3>6
  <2>15. Junto(r, bs, b)
    BY <1>4, <2>6, <2>12, <2>13, <2>14 DEF Junto
  <2> QED
    BY <2>2, <2>15
<1> QED
  BY <1>3, <1>4

LEMMA FilaVacia ==
  /\ <<>> \in Seq(Bloques) /\ Total(<<>>) = 0 /\ LibreDe(<<>>) = 0 /\ Usados(<<>>) = {}
<1> DEFINE bs == <<>>
<1>1. bs \in Seq(Bloques) /\ Len(bs) = 0 /\ DOMAIN bs = {}
  BY EmptySeq
<1> HIDE DEF bs
<1>2. PICK f, g : /\ Sumas(bs, f, g)
                  /\ Total(bs) = f[Len(bs)]
                  /\ LibreDe(bs) = g[Len(bs)]
  BY <1>1, FilaSumas
<1>3. f[0] = 0 /\ g[0] = 0
  BY <1>2 DEF Sumas, Acumula
<1>4. Usados(bs) = {}
  BY <1>1 DEF Usados
<1>5. bs \in Seq(Bloques) /\ Total(bs) = 0 /\ LibreDe(bs) = 0 /\ Usados(bs) = {}
  BY <1>1, <1>2, <1>3, <1>4
<1> QED
  BY <1>5 DEF bs

LEMMA CompactarHace ==
  ASSUME NEW bs \in Seq(Bloques)
  PROVE  Compactado(Compactar(bs), bs)
<1> DEFINE n == Len(bs)
           Es(u) == u = [k \in 0 .. Len(bs) |-> IF k = 0 THEN <<>> ELSE Juntar(u[k - 1], bs[k])]
           u == CHOOSE v : Es(v)
           paso == [z \in Nat \X Seq(Bloques) |-> IF z[1] \in 1 .. n THEN Juntar(z[2], bs[z[1]]) ELSE <<>>]
<1>1. /\ n \in Nat /\ DOMAIN bs = 1 .. n
      /\ \A k \in 1 .. n : bs[k] \in Bloques
  BY FilaTipos
<1>2. \A q \in Seq(Bloques) : \A b \in Bloques : Juntar(q, b) \in Seq(Bloques)
  BY JuntarHace DEF Junto
<1>3. paso \in [Nat \X Seq(Bloques) -> Seq(Bloques)]
  <2> SUFFICES ASSUME NEW z \in Nat \X Seq(Bloques)
               PROVE  (IF z[1] \in 1 .. n THEN Juntar(z[2], bs[z[1]]) ELSE <<>>) \in Seq(Bloques)
    OBVIOUS
  <2>1. z[1] \in Nat /\ z[2] \in Seq(Bloques)
    OBVIOUS
  <2>2. CASE z[1] \in 1 .. n
    BY <1>1, <1>2, <2>1, <2>2
  <2>3. CASE z[1] \notin 1 .. n
    BY <2>3, FilaVacia
  <2> QED
    BY <2>2, <2>3
<1>4. \A k \in 1 .. n : \A q \in Seq(Bloques) : paso[<<k, q>>] = Juntar(q, bs[k])
  <2> SUFFICES ASSUME NEW k \in 1 .. n, NEW q \in Seq(Bloques) PROVE paso[<<k, q>>] = Juntar(q, bs[k])
    OBVIOUS
  <2>1. <<k, q>> \in Nat \X Seq(Bloques)
    OBVIOUS
  <2> QED
    BY <2>1
<1> HIDE DEF paso
<1>5. \E v : Es(v)
  <2> DEFINE T == Seq(Bloques)
             vacia == <<>>
  <2>1. vacia \in T /\ paso \in [Nat \X T -> T]
    BY <1>3, FilaVacia
  <2> HIDE DEF T, vacia
  <2>2. PICK c : Recorre(c, n, T, vacia, paso)
    BY <1>1, <2>1, RecursionExiste
  <2>3. c \in [0 .. n -> T] /\ c[0] = vacia /\ \A k \in 1 .. n : c[k] = paso[<<k, c[k - 1]>>]
    BY <2>2 DEF Recorre
  <2>4. ASSUME NEW k \in 1 .. n PROVE c[k] = Juntar(c[k - 1], bs[k])
    <3>1. k - 1 \in 0 .. n
      BY <1>1
    <3>2. c[k - 1] \in Seq(Bloques)
      BY <2>3, <3>1 DEF T
    <3> QED
      BY <1>4, <2>3, <3>2
  <2>5. \A k \in 0 .. n : c[k] = IF k = 0 THEN <<>> ELSE Juntar(c[k - 1], bs[k])
    <3> SUFFICES ASSUME NEW k \in 0 .. n
                 PROVE  c[k] = IF k = 0 THEN <<>> ELSE Juntar(c[k - 1], bs[k])
      OBVIOUS
    <3>1. CASE k = 0
      BY <2>3, <3>1 DEF vacia
    <3>2. CASE k # 0
      <4>1. k \in 1 .. n
        BY <3>2
      <4> QED
        BY <2>4, <3>2, <4>1
    <3> QED
      BY <3>1, <3>2
  <2>6. c = [k \in 0 .. n |-> c[k]]
    BY <2>3
  <2>7. Es(c)
    BY <2>5, <2>6
  <2> QED
    BY <2>7
<1>6. Compactar(bs) = u[n]
  BY DEF Compactar
<1> HIDE DEF Es
<1>7. Es(u)
  BY <1>5
<1> HIDE DEF u
<1>8. u[0] = <<>> /\ \A k \in 1 .. n : u[k] = Juntar(u[k - 1], bs[k])
  <2>1. 0 \in 0 .. n /\ \A k \in 1 .. n : k \in 0 .. n /\ k # 0
    BY <1>1
  <2> QED
    BY <1>7, <2>1 DEF Es
<1>9. PICK f, g : /\ Sumas(bs, f, g)
                  /\ \A k \in 1 .. Len(bs) + 1 : Inicio(bs, k) = f[k - 1]
                  /\ \A k \in 0 .. Len(bs) : f[k] \in Nat /\ g[k] \in Nat
                  /\ Total(bs) = f[Len(bs)]
                  /\ LibreDe(bs) = g[Len(bs)]
  BY FilaSumas
<1>10. /\ f[0] = 0 /\ g[0] = 0
       /\ \A k \in 1 .. n : f[k] = f[k - 1] + bs[k].tam + Cabecera /\ g[k] = g[k - 1] + AnchoLibre(bs[k])
  <2>1. \A k \in 1 .. n : /\ Anchos(bs)[k] = bs[k].tam + Cabecera /\ AnchosLibres(bs)[k] = AnchoLibre(bs[k])
                          /\ bs[k].tam \in Nat
    BY FilaTipos DEF AnchoLibre
  <2>2. ASSUME NEW k \in 1 .. n PROVE f[k] = f[k - 1] + bs[k].tam + Cabecera
    <3>1. k - 1 \in 0 .. n
      BY <1>1
    <3>2. f[k] = f[k - 1] + Anchos(bs)[k] /\ f[k - 1] \in Nat
      BY <1>9, <3>1 DEF Sumas, Acumula
    <3> QED
      BY <2>1, <3>2 DEF Cabecera
  <2> QED
    BY <1>9, <2>1, <2>2 DEF Sumas, Acumula
<1> DEFINE U(k) == {<<f[i - 1], bs[i].tam>> : i \in {j \in 1 .. k : ~bs[j].libre}}
           Va(k) == /\ u[k] \in Seq(Bloques) /\ Total(u[k]) = f[k]
                    /\ LibreDe(u[k]) = g[k] /\ Usados(u[k]) = U(k)
           S == {k \in Nat : k <= n => Va(k)}
<1>11. 0 \in S
  <2>1. U(0) = {}
    OBVIOUS
  <2>2. Va(0)
    BY <1>8, <1>10, <2>1, FilaVacia
  <2> QED
    BY <2>2
<1>12. \A k \in Nat : U(k + 1) = U(k) \cup (IF bs[k + 1].libre THEN {} ELSE {<<f[k], bs[k + 1].tam>>})
  <2> SUFFICES ASSUME NEW k \in Nat
               PROVE  U(k + 1) = U(k) \cup (IF bs[k + 1].libre THEN {} ELSE {<<f[k], bs[k + 1].tam>>})
    OBVIOUS
  <2>1. /\ \A j : j \in 1 .. k + 1 <=> (j \in 1 .. k \/ j = k + 1)
        /\ k + 1 - 1 = k
    OBVIOUS
  <2> QED
    BY <2>1
<1> HIDE DEF U
<1>13. ASSUME NEW k \in Nat, k \in S PROVE k + 1 \in S
  <2> SUFFICES ASSUME k + 1 <= n PROVE Va(k + 1)
    OBVIOUS
  <2>1. k + 1 \in 1 .. n /\ k + 1 - 1 = k /\ bs[k + 1] \in Bloques
    BY <1>1
  <2>2. Va(k)
    BY <1>1, <1>13
  <2>3. u[k + 1] = Juntar(u[k], bs[k + 1])
    BY <1>8, <2>1
  <2>4. Junto(u[k + 1], u[k], bs[k + 1])
    BY <2>1, <2>2, <2>3, JuntarHace
  <2>5. f[k + 1] = f[k] + bs[k + 1].tam + Cabecera /\ g[k + 1] = g[k] + AnchoLibre(bs[k + 1])
    BY <1>10, <2>1
  <2>6. U(k + 1) = U(k) \cup (IF bs[k + 1].libre THEN {} ELSE {<<f[k], bs[k + 1].tam>>})
    BY <1>12
  <2> QED
    BY <2>2, <2>4, <2>5, <2>6 DEF Junto
<1> HIDE DEF S
<1>14. \A k \in Nat : k \in S
  BY <1>11, <1>13, Induccion
<1>15. Va(n)
  <2>1. n \in S
    BY <1>1, <1>14
  <2> QED
    BY <1>1, <2>1 DEF S
<1>16. U(n) = Usados(bs)
  <2>1. \A k \in 1 .. n : f[k - 1] = Inicio(bs, k)
    BY <1>1, <1>9
  <2> DEFINE J == {j \in 1 .. n : ~bs[j].libre}
  <2>2. Usados(bs) = {<<Inicio(bs, j), bs[j].tam>> : j \in J}
    BY <1>1 DEF Usados
  <2>3. U(n) = {<<f[j - 1], bs[j].tam>> : j \in J}
    BY DEF U
  <2>4. \A j \in J : f[j - 1] = Inicio(bs, j)
    BY <2>1
  <2> HIDE DEF J, U
  <2> QED
    BY <2>2, <2>3, <2>4
<1> QED
  BY <1>6, <1>9, <1>15, <1>16 DEF Compactado

-----------------------------------------------------------------------------
(* The sum of the sizes a program holds *)

SumaDe(S) == MapThenSumSet(LAMBDA v : v.tam, S)
Elegido(s) == CHOOSE x \in s : TRUE

(* f is the recursion of that sum over the parts of S.                      *)
EsSuma(f, S) ==
  /\ f \in [SUBSET S -> Nat]
  /\ \A s \in SUBSET S : f[s] = IF s = {} THEN 0 ELSE Elegido(s).tam + f[s \ {Elegido(s)}]

LEMMA SumaExiste ==
  ASSUME NEW S, IsFiniteSet(S), \A v \in S : v.tam \in Nat
  PROVE  \E f : EsSuma(f, S)
<1> DEFINE Paso(f, s) == IF s = {} THEN 0 ELSE Elegido(s).tam + f[s \ {Elegido(s)}]
           Hasta(f, n) == \A s \in SUBSET S : Cardinality(s) <= n => f[s] = Paso(f, s)
           N == {n \in Nat : \E f \in [SUBSET S -> Nat] : Hasta(f, n)}
<1>1. \A s \in SUBSET S : IsFiniteSet(s) /\ Cardinality(s) \in Nat
  BY FS_Subset, FS_CardinalityType
<1>2. \A s \in SUBSET S : s # {} => Elegido(s) \in s /\ Elegido(s).tam \in Nat
  BY DEF Elegido
<1>3. \A f \in [SUBSET S -> Nat] : \A s \in SUBSET S : Paso(f, s) \in Nat
  <2> SUFFICES ASSUME NEW f \in [SUBSET S -> Nat], NEW s \in SUBSET S PROVE Paso(f, s) \in Nat
    OBVIOUS
  <2>1. s \ {Elegido(s)} \in SUBSET S
    OBVIOUS
  <2>2. f[s \ {Elegido(s)}] \in Nat
    BY <2>1
  <2> QED
    BY <1>2, <2>2
<1>4. \A s \in SUBSET S : s # {} => Cardinality(s \ {Elegido(s)}) = Cardinality(s) - 1
  BY <1>1, <1>2, FS_RemoveElement
<1>5. 0 \in N
  <2> DEFINE f == [s \in SUBSET S |-> 0]
  <2>1. f \in [SUBSET S -> Nat]
    OBVIOUS
  <2>2. ASSUME NEW s \in SUBSET S, Cardinality(s) <= 0 PROVE f[s] = Paso(f, s)
    <3>1. s = {}
      <4>1. Cardinality(s) = 0
        BY <1>1, <2>2
      <4> QED
        BY <1>1, <4>1, FS_EmptySet
    <3> QED
      BY <3>1
  <2> HIDE DEF f, Paso
  <2> QED
    BY <2>1, <2>2
<1>6. ASSUME NEW n \in Nat, n \in N PROVE n + 1 \in N
  <2>1. PICK f \in [SUBSET S -> Nat] : Hasta(f, n)
    BY <1>6
  <2> DEFINE g == [s \in SUBSET S |-> Paso(f, s)]
  <2>2. g \in [SUBSET S -> Nat]
    <3> HIDE DEF Paso
    <3> QED
      BY <1>3
  <2>3. ASSUME NEW s \in SUBSET S, Cardinality(s) <= n + 1 PROVE g[s] = Paso(g, s)
    <3>1. CASE s = {}
      BY <3>1
    <3>2. CASE s # {}
      <4> DEFINE t == s \ {Elegido(s)}
      <4>1. t \in SUBSET S
        OBVIOUS
      <4>2. Cardinality(t) <= n
        <5>1. PICK c \in Nat : c = Cardinality(s)
          BY <1>1
        <5>2. Cardinality(t) = c - 1 /\ c <= n + 1
          BY <1>4, <2>3, <3>2, <5>1
        <5> QED
          BY <5>2
      <4>3. f[t] = Paso(f, t) /\ g[t] = Paso(f, t)
        <5> HIDE DEF Paso, t
        <5> QED
          BY <2>1, <4>1, <4>2
      <4>4. g[s] = Paso(f, s)
        <5> HIDE DEF Paso
        <5> QED
          OBVIOUS
      <4>5. Paso(f, s) = Elegido(s).tam + f[t] /\ Paso(g, s) = Elegido(s).tam + g[t]
        <5> HIDE DEF g
        <5> QED
          BY <3>2
      <4> HIDE DEF Paso, g, t
      <4> QED
        BY <4>3, <4>4, <4>5
    <3> QED
      BY <3>1, <3>2
  <2> HIDE DEF g, Paso
  <2> QED
    BY <2>2, <2>3
<1> HIDE DEF N
<1>7. Cardinality(S) \in N
  <2>1. Cardinality(S) \in Nat
    BY FS_CardinalityType
  <2> QED
    BY <1>5, <1>6, <2>1, Induccion
<1>8. PICK f \in [SUBSET S -> Nat] : Hasta(f, Cardinality(S))
  BY <1>7 DEF N
<1>9. \A s \in SUBSET S : Cardinality(s) <= Cardinality(S)
  BY FS_Subset
<1> QED
  BY <1>8, <1>9 DEF EsSuma

(* It does not matter in which order the members are taken.                 *)
LEMMA SumaSinUno ==
  ASSUME NEW S, IsFiniteSet(S), \A v \in S : v.tam \in Nat, NEW f, EsSuma(f, S)
  PROVE  \A s \in SUBSET S : \A y \in s : f[s] = y.tam + f[s \ {y}]
<1> DEFINE N == {n \in Nat : \A s \in SUBSET S : Cardinality(s) = n => \A y \in s : f[s] = y.tam + f[s \ {y}]}
<1>1. \A s \in SUBSET S : IsFiniteSet(s) /\ Cardinality(s) \in Nat
  BY FS_Subset, FS_CardinalityType
<1>2. 0 \in N
  BY <1>1, FS_EmptySet
<1>3. ASSUME NEW n \in Nat, n \in N PROVE n + 1 \in N
  <2> SUFFICES ASSUME NEW s \in SUBSET S, Cardinality(s) = n + 1, NEW y \in s
               PROVE  f[s] = y.tam + f[s \ {y}]
    OBVIOUS
  <2> DEFINE x == Elegido(s)
  <2>1. x \in s
    BY DEF Elegido
  <2>2. f[s] = x.tam + f[s \ {x}]
    BY <2>1 DEF EsSuma
  <2> HIDE DEF x
  <2>3. CASE x = y
    BY <2>2, <2>3
  <2>4. CASE x # y
    <3>1. Cardinality(s \ {x}) = n /\ Cardinality(s \ {y}) = n
      <4>1. ASSUME NEW z \in s PROVE Cardinality(s \ {z}) = n + 1 - 1
        <5>1. IsFiniteSet(s)
          BY <1>1
        <5>2. Cardinality(s \ {z}) = Cardinality(s) - 1
          BY <5>1, FS_RemoveElement
        <5> QED
          BY <5>2
      <4> QED
        BY <2>1, <4>1
    <3>2. /\ s \ {x} \in SUBSET S /\ s \ {y} \in SUBSET S /\ y \in s \ {x} /\ x \in s \ {y}
          /\ (s \ {x}) \ {y} = (s \ {y}) \ {x} /\ (s \ {x}) \ {y} \in SUBSET S
      BY <2>1, <2>4
    <3>3. f[s \ {x}] = y.tam + f[(s \ {x}) \ {y}]
      BY <1>3, <3>1, <3>2
    <3>4. f[s \ {y}] = x.tam + f[(s \ {y}) \ {x}]
      BY <1>3, <3>1, <3>2
    <3>5. PICK a \in Nat, b \in Nat, c \in Nat : a = x.tam /\ b = y.tam /\ c = f[(s \ {x}) \ {y}]
      BY <2>1, <3>2 DEF EsSuma
    <3>6. f[s] = a + (b + c) /\ f[s \ {y}] = a + c
      BY <2>2, <3>2, <3>3, <3>4, <3>5
    <3> QED
      BY <3>5, <3>6
  <2> QED
    BY <2>3, <2>4
<1> HIDE DEF N
<1>4. \A n \in Nat : n \in N
  BY <1>2, <1>3, Induccion
<1> QED
  BY <1>1, <1>4 DEF N

(* The operator of the community modules computes that function.            *)
LEMMA SumaDeEs ==
  ASSUME NEW S, IsFiniteSet(S), NEW f, EsSuma(f, S), NEW T \in SUBSET S
  PROVE  SumaDe(T) = f[T]
<1> DEFINE Es(u) == u = [s \in SUBSET T |-> IF s = {} THEN 0
                                             ELSE (CHOOSE x \in s : TRUE).tam + u[s \ {CHOOSE x \in s : TRUE}]]
           u == CHOOSE v : Es(v)
           h == [s \in SUBSET T |-> f[s]]
<1>1. SumaDe(T) = u[T]
  BY DEF SumaDe, MapThenSumSet, MapThenFoldSet
<1>2. Es(h)
  <2>1. ASSUME NEW s \in SUBSET T
        PROVE  f[s] = IF s = {} THEN 0 ELSE (CHOOSE x \in s : TRUE).tam + h[s \ {CHOOSE x \in s : TRUE}]
    <3>1. s \in SUBSET S /\ s \ {Elegido(s)} \in SUBSET T
      OBVIOUS
    <3>2. h[s \ {Elegido(s)}] = f[s \ {Elegido(s)}]
      BY <3>1
    <3> HIDE DEF h
    <3> QED
      BY <3>1, <3>2 DEF EsSuma, Elegido
  <2> QED
    BY <2>1
<1> HIDE DEF h, Es
<1>3. Es(u)
  BY <1>2
<1> HIDE DEF u
<1>4. \A s \in SUBSET T : u[s] = IF s = {} THEN 0 ELSE Elegido(s).tam + u[s \ {Elegido(s)}]
  BY <1>3 DEF Es, Elegido
<1> DEFINE N == {n \in Nat : \A s \in SUBSET T : Cardinality(s) = n => u[s] = f[s]}
<1>5. \A s \in SUBSET T : s \in SUBSET S /\ IsFiniteSet(s) /\ Cardinality(s) \in Nat
  BY FS_Subset, FS_CardinalityType
<1>6. 0 \in N
  <2> SUFFICES ASSUME NEW s \in SUBSET T, Cardinality(s) = 0 PROVE u[s] = f[s]
    OBVIOUS
  <2>1. s = {}
    BY <1>5, FS_EmptySet
  <2> QED
    BY <1>4, <1>5, <2>1 DEF EsSuma
<1>7. ASSUME NEW n \in Nat, n \in N PROVE n + 1 \in N
  <2> SUFFICES ASSUME NEW s \in SUBSET T, Cardinality(s) = n + 1 PROVE u[s] = f[s]
    OBVIOUS
  <2>1. s # {}
    BY FS_EmptySet
  <2> DEFINE t == s \ {Elegido(s)}
  <2>2. Elegido(s) \in s
    BY <2>1 DEF Elegido
  <2>3. t \in SUBSET T /\ Cardinality(t) = n + 1 - 1
    BY <1>5, <2>2, FS_RemoveElement
  <2>4. u[t] = f[t]
    BY <1>7, <2>3
  <2>5. u[s] = Elegido(s).tam + u[t]
    BY <1>4, <2>1
  <2>6. f[s] = Elegido(s).tam + f[t]
    BY <1>5, <2>1 DEF EsSuma
  <2> QED
    BY <2>4, <2>5, <2>6
<1> HIDE DEF N
<1>8. \A n \in Nat : n \in N
  BY <1>6, <1>7, Induccion
<1>9. T \in SUBSET T /\ Cardinality(T) \in Nat
  BY <1>5
<1> QED
  BY <1>1, <1>8, <1>9 DEF N

LEMMA SumaPasos ==
  ASSUME NEW S, IsFiniteSet(S), \A v \in S : v.tam \in Nat
  PROVE  /\ SumaDe({}) = 0 /\ SumaDe(S) \in Nat
         /\ \A y \in S : SumaDe(S) = y.tam + SumaDe(S \ {y})
<1>1. PICK f : EsSuma(f, S)
  BY SumaExiste
<1>2. {} \in SUBSET S /\ S \in SUBSET S /\ \A y \in S : S \ {y} \in SUBSET S
  OBVIOUS
<1>3. \A s \in SUBSET S : SumaDe(s) = f[s]
  BY <1>1, SumaDeEs
<1>4. f[{}] = 0 /\ f[S] \in Nat
  BY <1>1, <1>2 DEF EsSuma
<1>5. \A y \in S : f[S] = y.tam + f[S \ {y}]
  BY <1>1, <1>2, SumaSinUno
<1> QED
  BY <1>2, <1>3, <1>4, <1>5

-----------------------------------------------------------------------------
(* Addresses: a page and a place in it *)

LEMMA PorTam ==
  ASSUME HeapOK
  PROVE  /\ Tam \in Nat /\ Tam > 15
         /\ \A a \in Nat : a * Tam \in Nat
         /\ \A a, b \in Nat : a < b => a * Tam + Tam <= b * Tam
<1>1. Tam \in Nat /\ Tam > 15
  BY DEF HeapOK
<1>2. \A a \in Nat : a * Tam \in Nat
  BY <1>1
<1>3. ASSUME NEW a \in Nat, NEW b \in Nat, a < b PROVE a * Tam + Tam <= b * Tam
  <2>1. PICK k \in Nat : b = a + 1 + k
    <3>1. b - a - 1 \in Nat /\ b = a + 1 + (b - a - 1)
      BY <1>3
    <3> QED
      BY <3>1
  <2>2. b * Tam = a * Tam + Tam + k * Tam
    BY <1>1, <2>1
  <2> QED
    BY <1>1, <1>2, <2>2
<1> QED
  BY <1>1, <1>2, <1>3

LEMMA Partes ==
  ASSUME HeapOK, NEW d \in Nat
  PROVE  /\ d \div Tam \in Nat /\ d % Tam \in Nat /\ d % Tam < Tam
         /\ d = (d \div Tam) * Tam + (d % Tam)
BY PorTam

LEMMA PartesUnicas ==
  ASSUME HeapOK, NEW n \in Nat, NEW o \in Nat, o < Tam
  PROVE  (n * Tam + o) \div Tam = n /\ (n * Tam + o) % Tam = o
<1> DEFINE d == n * Tam + o
           q == d \div Tam
           r == d % Tam
<1>1. Tam \in Nat /\ n * Tam \in Nat /\ d \in Nat
  BY PorTam
<1>2. q \in Nat /\ r \in Nat /\ r < Tam /\ d = q * Tam + r
  BY <1>1, Partes
<1> DEFINE nT == n * Tam
           qT == q * Tam
<1>3. d = nT + o /\ d = qT + r /\ nT \in Nat /\ qT \in Nat
  BY <1>1, <1>2, PorTam
<1>4. (q < n => qT + Tam <= nT) /\ (n < q => nT + Tam <= qT)
  BY <1>2, PorTam
<1> HIDE DEF d, q, r, nT, qT
<1>5. q = n
  BY <1>1, <1>2, <1>3, <1>4
<1>6. qT = nT
  BY <1>5 DEF nT, qT
<1>7. r = o
  BY <1>2, <1>3, <1>6
<1> QED
  BY <1>5, <1>7 DEF d, q, r

Reservas == [ptr : Nat, tam : Nat]

LEMMA DirPartes ==
  ASSUME HeapOK, NEW v \in Reservas
  PROVE  /\ v.ptr \in Nat /\ v.tam \in Nat /\ Direccion(v) \in Nat
         /\ NumDe(v) \in Nat /\ Pos(v) \in Nat /\ Pos(v) < Tam
         /\ Direccion(v) = NumDe(v) * Tam + Pos(v)
         /\ v.ptr = NumDe(v) * Tam + Pos(v) - CantPag * Tam
         /\ Pos(v) >= Cabecera => (Direccion(v) - Cabecera) % Tam = Pos(v) - Cabecera
<1> DEFINE cT == CantPag * Tam
           d == Direccion(v)
           nT == NumDe(v) * Tam
<1>1. v.ptr \in Nat /\ v.tam \in Nat
  BY DEF Reservas
<1>2. CantPag \in Nat /\ Tam \in Nat /\ cT \in Nat
  BY PorTam DEF HeapOK
<1>3. d = v.ptr + cT
  BY DEF Direccion
<1> HIDE DEF cT
<1>4. d \in Nat
  BY <1>1, <1>2, <1>3
<1> HIDE DEF d
<1>5. /\ d \div Tam \in Nat /\ d % Tam \in Nat /\ d % Tam < Tam
      /\ d = (d \div Tam) * Tam + (d % Tam)
  BY <1>4, Partes
<1>6. NumDe(v) = d \div Tam /\ Pos(v) = d % Tam
  BY DEF NumDe, Pos, d
<1>7. /\ NumDe(v) \in Nat /\ Pos(v) \in Nat /\ Pos(v) < Tam
      /\ d = nT + Pos(v) /\ nT \in Nat
  BY <1>5, <1>6, PorTam
<1>8. v.ptr = nT + Pos(v) - cT
  <2> HIDE DEF nT
  <2> QED
    BY <1>1, <1>2, <1>3, <1>7
<1>9. ASSUME Pos(v) >= Cabecera PROVE (d - Cabecera) % Tam = Pos(v) - Cabecera
  <2> DEFINE o == Pos(v) - Cabecera
  <2>1. o \in Nat /\ o < Tam
    BY <1>2, <1>7, <1>9 DEF Cabecera
  <2>2. (nT + o) % Tam = o
    BY <1>7, <2>1, PartesUnicas
  <2>3. d - Cabecera = nT + o
    <3> HIDE DEF nT
    <3> QED
      BY <1>7, <1>9 DEF Cabecera
  <2> QED
    BY <2>2, <2>3
<1> QED
  BY <1>1, <1>4, <1>7, <1>8, <1>9 DEF d, cT

(* The address that ubicar_bloque answers.                                  *)
LEMMA DirNueva ==
  ASSUME HeapOK, NEW num \in Nat, num >= CantPag, NEW o \in Nat, o < Tam, NEW t \in Nat,
         NEW v, v = [ptr |-> (num * Tam + o) - CantPag * Tam, tam |-> t]
  PROVE  v \in Reservas /\ NumDe(v) = num /\ Pos(v) = o /\ v.tam = t
<1> DEFINE cT == CantPag * Tam
           nT == num * Tam
<1>1. cT \in Nat /\ nT \in Nat /\ Tam \in Nat /\ CantPag \in Nat
  BY PorTam DEF HeapOK
<1>2. cT <= nT
  <2>1. CASE num = CantPag
    BY <1>1, <2>1
  <2>2. CASE CantPag < num
    <3>1. cT + Tam <= nT
      BY <1>1, <2>2, PorTam
    <3> QED
      BY <1>1, <3>1
  <2> QED
    BY <1>1, <2>1, <2>2
<1>3. v.ptr = (nT + o) - cT /\ v.tam = t
  OBVIOUS
<1> HIDE DEF cT
<1>4. v.ptr \in Nat /\ v.ptr + cT = nT + o
  <2> HIDE DEF nT
  <2> QED
    BY <1>1, <1>2, <1>3
<1>5. v \in Reservas
  BY <1>3, <1>4 DEF Reservas
<1>6. Direccion(v) = num * Tam + o
  BY <1>4 DEF Direccion, cT
<1>7. (num * Tam + o) \div Tam = num /\ (num * Tam + o) % Tam = o
  BY PartesUnicas
<1>8. NumDe(v) = num /\ Pos(v) = o
  BY <1>6, <1>7 DEF NumDe, Pos
<1> QED
  BY <1>3, <1>5, <1>8

(* Ranges in different pages, or apart in one, do not meet.                 *)
Separadas(v, w) == v.ptr + v.tam <= w.ptr \/ w.ptr + w.tam <= v.ptr

LEMMA RangosAparte ==
  ASSUME HeapOK, NEW v \in Reservas, NEW w \in Reservas,
         Pos(v) + v.tam <= Tam, Pos(w) + w.tam <= Tam,
         \/ NumDe(v) # NumDe(w)
         \/ Pos(v) + v.tam <= Pos(w)
         \/ Pos(w) + w.tam <= Pos(v)
  PROVE  Separadas(v, w)
<1> DEFINE cT == CantPag * Tam
           vT == NumDe(v) * Tam
           wT == NumDe(w) * Tam
<1>1. /\ v.ptr \in Nat /\ v.tam \in Nat /\ Pos(v) \in Nat /\ v.ptr = vT + Pos(v) - cT /\ NumDe(v) \in Nat
      /\ w.ptr \in Nat /\ w.tam \in Nat /\ Pos(w) \in Nat /\ w.ptr = wT + Pos(w) - cT /\ NumDe(w) \in Nat
  BY DirPartes
<1>2. /\ cT \in Nat /\ vT \in Nat /\ wT \in Nat /\ Tam \in Nat
      /\ NumDe(v) < NumDe(w) => vT + Tam <= wT
      /\ NumDe(w) < NumDe(v) => wT + Tam <= vT
      /\ NumDe(v) = NumDe(w) => vT = wT
  BY <1>1, PorTam DEF HeapOK
<1>3. PICK a \in Nat, b \in Nat, c \in Nat, t \in Nat, s \in Nat, i \in Nat, j \in Nat :
        a = vT /\ b = wT /\ c = cT /\ t = v.tam /\ s = w.tam /\ i = Pos(v) /\ j = Pos(w)
  BY <1>1, <1>2
<1>4. v.ptr = a + i - c /\ w.ptr = b + j - c /\ i + t <= Tam /\ j + s <= Tam
  BY <1>1, <1>3
<1>5. \/ a + Tam <= b \/ b + Tam <= a
      \/ a = b /\ i + t <= j
      \/ a = b /\ j + s <= i
  <2>1. NumDe(v) = NumDe(w) \/ NumDe(v) < NumDe(w) \/ NumDe(w) < NumDe(v)
    BY <1>1
  <2> HIDE DEF vT, wT, cT
  <2> QED
    BY <1>2, <1>3, <2>1
<1>6. v.ptr + t <= w.ptr \/ w.ptr + s <= v.ptr
  BY <1>2, <1>4, <1>5
<1> QED
  BY <1>3, <1>6 DEF Separadas

-----------------------------------------------------------------------------
(* Looking for a block *)

LEMMA BloqueLibreHace ==
  ASSUME NEW bs \in Seq(Bloques), NEW tam \in Nat, NEW i, i = BloqueLibre(bs, tam)
  PROVE  /\ i # 0 => i \in 1 .. Len(bs) /\ bs[i].libre /\ bs[i].tam >= tam
         /\ i = 0 => \A j \in 1 .. Len(bs) : ~(bs[j].libre /\ bs[j].tam >= tam)
<1> DEFINE I == {j \in DOMAIN bs : bs[j].libre /\ bs[j].tam >= tam}
<1>1. Len(bs) \in Nat /\ DOMAIN bs = 1 .. Len(bs)
  BY FilaTipos
<1>2. I \in SUBSET (1 .. Len(bs))
  BY <1>1
<1>3. i = IF I # {} THEN Min(I) ELSE 0
  BY DEF BloqueLibre
<1> HIDE DEF I
<1>4. i \in 0 .. Len(bs) /\ (i # 0 => i \in I) /\ (i = 0 => I = {})
  BY <1>1, <1>2, <1>3, PrimeroDe
<1> QED
  BY <1>1, <1>4 DEF I

LEMMA UsadosAparte ==
  ASSUME NEW bs \in Seq(Bloques)
  PROVE  /\ \A u \in Usados(bs) : \E k \in 1 .. Len(bs) :
                 ~bs[k].libre /\ u = <<Inicio(bs, k), bs[k].tam>> /\ BloqueEn(bs, u[1]) = k
         /\ \A u \in Usados(bs) : u[1] \in Nat /\ u[2] \in Nat /\ u[1] + Cabecera + u[2] <= Total(bs)
         /\ \A u \in Usados(bs) : \A i \in 1 .. Len(bs) : bs[i].libre =>
                 \/ u[1] + Cabecera + u[2] <= Inicio(bs, i)
                 \/ Inicio(bs, i) + Cabecera + bs[i].tam <= u[1]
<1> DEFINE n == Len(bs)
<1>1. n \in Nat /\ DOMAIN bs = 1 .. n
  BY FilaTipos
<1>2. /\ \A k \in 1 .. n : /\ Inicio(bs, k) \in Nat /\ bs[k].tam \in Nat
                           /\ Inicio(bs, k) + bs[k].tam + Cabecera <= Total(bs)
      /\ \A i, j \in 1 .. n : i < j => Inicio(bs, i) + bs[i].tam + Cabecera <= Inicio(bs, j)
      /\ \A i, j \in 1 .. n : Inicio(bs, i) = Inicio(bs, j) => i = j
      /\ Total(bs) \in Nat
  BY InicioPasos
<1>3. \A u \in Usados(bs) : \E k \in 1 .. n : ~bs[k].libre /\ u = <<Inicio(bs, k), bs[k].tam>>
  BY <1>1 DEF Usados
<1>4. ASSUME NEW k \in 1 .. n PROVE BloqueEn(bs, Inicio(bs, k)) = k
  <2> DEFINE P(i) == i \in DOMAIN bs /\ Inicio(bs, i) = Inicio(bs, k)
  <2>1. P(k)
    BY <1>1
  <2>2. \A i : P(i) => i = k
    BY <1>1, <1>2
  <2>3. BloqueEn(bs, Inicio(bs, k)) = CHOOSE i \in DOMAIN bs : Inicio(bs, i) = Inicio(bs, k)
    BY DEF BloqueEn
  <2> QED
    BY <2>1, <2>2, <2>3
<1>5. ASSUME NEW u \in Usados(bs)
      PROVE  \E k \in 1 .. n : ~bs[k].libre /\ u = <<Inicio(bs, k), bs[k].tam>> /\ BloqueEn(bs, u[1]) = k
  <2>1. PICK k \in 1 .. n : ~bs[k].libre /\ u = <<Inicio(bs, k), bs[k].tam>>
    BY <1>3
  <2>2. u[1] = Inicio(bs, k)
    BY <2>1
  <2> QED
    BY <1>4, <2>1, <2>2
<1>6. ASSUME NEW u \in Usados(bs)
      PROVE  u[1] \in Nat /\ u[2] \in Nat /\ u[1] + Cabecera + u[2] <= Total(bs)
  <2>1. PICK k \in 1 .. n : ~bs[k].libre /\ u = <<Inicio(bs, k), bs[k].tam>>
    BY <1>3
  <2>2. PICK a \in Nat, t \in Nat : a = Inicio(bs, k) /\ t = bs[k].tam
    BY <1>2
  <2>3. u[1] = a /\ u[2] = t /\ a + t + Cabecera <= Total(bs)
    BY <1>2, <2>1, <2>2
  <2> QED
    BY <1>2, <2>3 DEF Cabecera
<1>7. ASSUME NEW u \in Usados(bs), NEW i \in 1 .. n, bs[i].libre
      PROVE  \/ u[1] + Cabecera + u[2] <= Inicio(bs, i)
             \/ Inicio(bs, i) + Cabecera + bs[i].tam <= u[1]
  <2>1. PICK k \in 1 .. n : ~bs[k].libre /\ u = <<Inicio(bs, k), bs[k].tam>>
    BY <1>3
  <2>2. k < i \/ i < k
    <3>1. k # i
      BY <1>7, <2>1
    <3> QED
      BY <3>1
  <2>3. PICK a \in Nat, t \in Nat, b \in Nat, s \in Nat :
          a = Inicio(bs, k) /\ t = bs[k].tam /\ b = Inicio(bs, i) /\ s = bs[i].tam
    BY <1>2
  <2>4. u[1] = a /\ u[2] = t /\ (a + t + Cabecera <= b \/ b + s + Cabecera <= a)
    BY <1>2, <2>1, <2>2, <2>3
  <2>5. a + Cabecera + t <= b \/ b + Cabecera + s <= a
    <3>1. Cabecera \in Nat
      BY DEF Cabecera
    <3> QED
      BY <2>4, <3>1
  <2> QED
    BY <2>3, <2>4, <2>5
<1> QED
  BY <1>5, <1>6, <1>7

-----------------------------------------------------------------------------
(* The invariant *)

Vivas == [ptr : Nat, tam : Tamanos]
Atenciones == [pc : {"busca", "pide"}, pid : Pids, tam : Tamanos, n : Nat \ {0}]
Numero(k) == CantPag + PagStack + k - 1
Listada(p, n) == \E k \in DOMAIN paginas[p] : paginas[p][k].num = n

Tipos ==
  /\ paginas \in [Pids -> Seq([num : Nat, esp : Nat])]
  /\ debe \in [Pids -> Int]
  /\ prog \in [Pids -> {"corre", "espera", "error", "fin"}]
  /\ vivos \in [Pids -> SUBSET Vivas]
  /\ \A p \in Pids : IsFiniteSet(vivos[p])
  /\ roto \in BOOLEAN

Atiende == hiloM = EnSelect \/ (hiloM \in Atenciones /\ prog[hiloM.pid] = "espera")

(* The frames of Memoria, in use or free.                                   *)
Cuadros ==
  /\ DOMAIN mem \subseteq Pids \X Nat /\ IsFiniteSet(DOMAIN mem)
  /\ libres \in Nat /\ libres + Cardinality(DOMAIN mem) = Marcos

(* The Kernel numbers the pages of a program as Memoria does, and Memoria   *)
(* holds no other.                                                          *)
Numeradas ==
  /\ \A p \in Pids : \A k \in DOMAIN paginas[p] : paginas[p][k].num = Numero(k)
  /\ \A x \in DOMAIN mem : Listada(x[1], x[2])

Filas == \A x \in DOMAIN mem : mem[x] \in Seq(Bloques) /\ Total(mem[x]) = Tam

Cuadra(esp, libre, justa) ==
  /\ esp >= libre - Cabecera
  /\ ~justa => esp = libre - Cabecera
Cuenta ==
  \A p \in Pids : \A k \in DOMAIN paginas[p] : LET x == <<p, Numero(k)>> IN
    x \in DOMAIN mem => Cuadra(paginas[p][k].esp, LibreDe(mem[x]), x \in justas)

(* Where what a program holds is.                                           *)
Sujeto(p, v) ==
  IF <<p, NumDe(v)>> \in DOMAIN mem
  THEN <<Pos(v) - Cabecera, v.tam>> \in Usados(mem[<<p, NumDe(v)>>])
  ELSE <<p, NumDe(v)>> \in justas
Sujetos == \A p \in Pids : \A v \in vivos[p] : Sujeto(p, v)

Dentro ==
  \A p \in Pids : \A v \in vivos[p] :
    Listada(p, NumDe(v)) /\ Cabecera <= Pos(v) /\ Pos(v) + v.tam <= Tam

Aparte == \A p \in Pids : \A v, w \in vivos[p] : v # w => Separadas(v, w)

Cuentas == \A p \in Pids : prog[p] \in {"corre", "espera"} => debe[p] = SumaDe(vivos[p])

(* The inductive invariant.  When a header falls on another, the row of     *)
(* that page means nothing any more.                                        *)
Sano == Filas /\ Cuenta /\ Sujetos /\ Dentro /\ Aparte
IInv == Tipos /\ Atiende /\ Cuadros /\ Numeradas /\ Cuentas /\ (~roto => Sano)

LEMMA VivaEs ==
  ASSUME HeapOK, NEW v \in Vivas
  PROVE  v \in Reservas /\ v.tam \in Nat \ {0} /\ v.tam \in Tamanos /\ v.ptr \in Nat
BY DEF HeapOK, Vivas, Reservas

(* What a request is, and the page it is at.                                *)
LEMMA AtencionEs ==
  ASSUME HeapOK, Tipos, Atiende, hiloM # EnSelect
  PROVE  /\ hiloM \in Atenciones /\ hiloM.pid \in Pids /\ hiloM.tam \in Tamanos
         /\ hiloM.tam \in Nat \ {0} /\ hiloM.n \in Nat \ {0} /\ prog[hiloM.pid] = "espera"
         /\ hiloM.pc \in {"busca", "pide"}
BY DEF HeapOK, Atiende, Atenciones

(* The pages of a program by their numbers.                                 *)
LEMMA PaginasPorNumero ==
  ASSUME HeapOK, Tipos, Numeradas, NEW p \in Pids
  PROVE  /\ paginas[p] \in Seq([num : Nat, esp : Nat]) /\ Len(paginas[p]) \in Nat
         /\ DOMAIN paginas[p] = 1 .. Len(paginas[p])
         /\ \A k \in DOMAIN paginas[p] :
              /\ k \in Nat /\ Numero(k) \in Nat /\ Numero(k) >= CantPag
              /\ paginas[p][k] = [num |-> Numero(k), esp |-> paginas[p][k].esp]
              /\ paginas[p][k].num = Numero(k) /\ paginas[p][k].esp \in Nat
         /\ \A j, k \in Nat : Numero(j) = Numero(k) => j = k
         /\ \A n \in Nat : Listada(p, n) =>
              BuscarPagina(p, n) \in DOMAIN paginas[p] /\ Numero(BuscarPagina(p, n)) = n
<1> DEFINE ps == paginas[p]
<1>1. ps \in Seq([num : Nat, esp : Nat])
  BY DEF Tipos
<1>2. /\ Len(ps) \in Nat /\ DOMAIN ps = 1 .. Len(ps)
      /\ \A k \in 1 .. Len(ps) : ps[k] \in [num : Nat, esp : Nat]
  BY <1>1, LenProperties, ElementOfSeq
<1>3. ASSUME NEW k \in DOMAIN ps
      PROVE  /\ k \in Nat /\ Numero(k) \in Nat /\ Numero(k) >= CantPag
             /\ ps[k] = [num |-> Numero(k), esp |-> ps[k].esp]
             /\ ps[k].num = Numero(k) /\ ps[k].esp \in Nat
  <2>1. ps[k].num = Numero(k) /\ ps[k] \in [num : Nat, esp : Nat]
    BY <1>2 DEF Numeradas
  <2>2. k \in Nat /\ k >= 1
    BY <1>2
  <2>3. Numero(k) \in Nat /\ Numero(k) >= CantPag
    BY <2>2 DEF Numero, HeapOK
  <2> QED
    BY <2>1, <2>2, <2>3
<1>4. \A j, k \in Nat : Numero(j) = Numero(k) => j = k
  BY DEF Numero, HeapOK
<1>5. ASSUME NEW n \in Nat, Listada(p, n)
      PROVE  BuscarPagina(p, n) \in DOMAIN ps /\ Numero(BuscarPagina(p, n)) = n
  <2>1. \E k \in DOMAIN ps : ps[k].num = n
    BY <1>5 DEF Listada
  <2>2. BuscarPagina(p, n) \in DOMAIN ps /\ ps[BuscarPagina(p, n)].num = n
    BY <2>1 DEF BuscarPagina
  <2> QED
    BY <1>3, <2>2
<1> QED
  BY <1>1, <1>2, <1>3, <1>4, <1>5

(* The program of a page Memoria holds, and the row in it.                  *)
LEMMA FilaDePagina ==
  ASSUME HeapOK, Filas, NEW p, NEW n
  PROVE  /\ Cabeceras(p, n) \in Seq(Bloques)
         /\ <<p, n>> \in DOMAIN mem <=> Cabeceras(p, n) # <<>>
         /\ <<p, n>> \in DOMAIN mem => Total(mem[<<p, n>>]) = Tam /\ Cabeceras(p, n) = mem[<<p, n>>]
<1>1. CASE <<p, n>> \in DOMAIN mem
  <2>1. Total(mem[<<p, n>>]) = Tam /\ Cabeceras(p, n) = mem[<<p, n>>] /\ mem[<<p, n>>] \in Seq(Bloques)
    BY <1>1 DEF Filas, Cabeceras
  <2>2. Total(<<>>) # Tam
    BY FilaVacia DEF HeapOK
  <2> QED
    BY <1>1, <2>1, <2>2
<1>2. CASE <<p, n>> \notin DOMAIN mem
  BY <1>2, FilaVacia DEF Cabeceras
<1> QED
  BY <1>1, <1>2

LEMMA InvInit ==
  ASSUME HeapOK, Init
  PROVE  IInv
<1>1. SumaDe({}) = 0
  BY FS_EmptySet, SumaPasos
<1>2. Tipos
  <2>1. paginas \in [Pids -> Seq([num : Nat, esp : Nat])]
    <3>1. <<>> \in Seq([num : Nat, esp : Nat])
      OBVIOUS
    <3> QED
      BY <3>1 DEF Init
  <2>2. debe \in [Pids -> Int] /\ prog \in [Pids -> {"corre", "espera", "error", "fin"}] /\ roto \in BOOLEAN
    <3>1. debe \in [Pids -> Int]
      BY DEF Init
    <3>2. prog \in [Pids -> {"corre", "espera", "error", "fin"}]
      BY DEF Init
    <3>3. roto = FALSE
      BY DEF Init
    <3> QED
      BY <3>1, <3>2, <3>3
  <2>3. vivos \in [Pids -> SUBSET Vivas] /\ \A p \in Pids : vivos[p] = {}
    BY DEF Init
  <2>4. \A p \in Pids : IsFiniteSet(vivos[p])
    BY <2>3, FS_EmptySet
  <2> QED
    BY <2>1, <2>2, <2>3, <2>4 DEF Tipos
<1>3. Atiende /\ Cuadros
  BY FS_EmptySet DEF Init, Atiende, Cuadros, HeapOK
<1>4. Numeradas /\ Cuentas
  <2>1. \A p \in Pids : paginas[p] = <<>> /\ vivos[p] = {} /\ debe[p] = 0
    BY DEF Init
  <2>2. DOMAIN mem = {} /\ DOMAIN <<>> = {}
    BY DEF Init
  <2> QED
    BY <1>1, <2>1, <2>2 DEF Numeradas, Cuentas
<1>5. Sano
  <2>1. \A p \in Pids : paginas[p] = <<>> /\ vivos[p] = {}
    BY DEF Init
  <2>2. DOMAIN mem = {} /\ DOMAIN <<>> = {}
    BY DEF Init
  <2> QED
    BY <2>1, <2>2 DEF Sano, Filas, Cuenta, Sujetos, Dentro, Aparte
<1> QED
  BY <1>2, <1>3, <1>4, <1>5 DEF IInv

-----------------------------------------------------------------------------
(* Steps that move no block: a request comes, its search goes on to another *)
(* page, or a header is read out of the page.                               *)

LEMMA Quieta ==
  ASSUME IInv, UNCHANGED <<paginas, debe, mem, libres, vivos, justas>>,
         prog' \in [Pids -> {"corre", "espera", "error", "fin"}], roto' \in BOOLEAN, ~roto, Atiende',
         \A p \in Pids : prog'[p] \in {"corre", "espera"} => prog[p] \in {"corre", "espera"}
  PROVE  IInv'
<1>1. Tipos'
  BY DEF IInv, Tipos
<1>2. Cuadros'
  BY DEF IInv, Cuadros
<1>3. Numeradas'
  BY DEF IInv, Numeradas, Listada
<1>4. Cuentas'
  BY DEF IInv, Cuentas
<1>5. Sano'
  <2>1. Sano
    BY DEF IInv
  <2>2. Filas' /\ Aparte'
    BY <2>1 DEF Sano, Filas, Aparte
  <2>3. Cuenta'
    BY <2>1 DEF Sano, Cuenta, Cuadra
  <2>4. Sujetos'
    BY <2>1 DEF Sano, Sujetos, Sujeto
  <2>5. Dentro'
    BY <2>1 DEF Sano, Dentro, Listada
  <2> QED
    BY <2>2, <2>3, <2>4, <2>5 DEF Sano
<1> QED
  BY <1>1, <1>2, <1>3, <1>4, <1>5 DEF IInv

LEMMA InvP17 ==
  ASSUME HeapOK, IInv, NEW p \in Pids, NEW tam \in Tamanos, P17(p, tam)
  PROVE  IInv'
<1>1. /\ ~roto /\ hiloM = EnSelect /\ prog[p] = "corre"
      /\ UNCHANGED <<paginas, debe, mem, libres, vivos, justas, roto>>
  BY DEF P17, kernel
<1>2. prog \in [Pids -> {"corre", "espera", "error", "fin"}] /\ roto \in BOOLEAN
  BY DEF IInv, Tipos
<1>3. roto' \in BOOLEAN
  BY <1>1, <1>2
<1>4. CASE tam < Tam - 10
  <2>1. /\ hiloM' = [pc |-> "busca", pid |-> p, tam |-> tam, n |-> 1]
        /\ prog' = [prog EXCEPT ![p] = "espera"]
    BY <1>4 DEF P17
  <2>2. hiloM' \in Atenciones /\ hiloM'.pid = p
    BY <2>1 DEF Atenciones
  <2>3. Atiende'
    BY <1>2, <2>1, <2>2 DEF Atiende
  <2>4. /\ prog' \in [Pids -> {"corre", "espera", "error", "fin"}]
        /\ \A q \in Pids : prog'[q] \in {"corre", "espera"} => prog[q] \in {"corre", "espera"}
    BY <1>1, <1>2, <2>1
  <2> QED
    BY <1>1, <1>3, <2>3, <2>4, Quieta
<1>5. CASE ~(tam < Tam - 10)
  <2>1. prog' = [prog EXCEPT ![p] = "error"] /\ hiloM' = EnSelect
    BY <1>1, <1>5 DEF P17, Forzar
  <2>2. Atiende'
    BY <2>1 DEF Atiende
  <2>3. /\ prog' \in [Pids -> {"corre", "espera", "error", "fin"}]
        /\ \A q \in Pids : prog'[q] \in {"corre", "espera"} => prog[q] \in {"corre", "espera"}
    BY <1>1, <1>2, <2>1
  <2> QED
    BY <1>1, <1>3, <2>2, <2>3, Quieta
<1> QED
  BY <1>4, <1>5

LEMMA InvSiguientePagina ==
  ASSUME HeapOK, IInv, SiguientePagina
  PROVE  IInv'
<1>1. ~roto /\ hiloM.pc = "busca" /\ UNCHANGED <<paginas, debe, mem, libres, prog, vivos, justas, roto>>
  BY DEF SiguientePagina, kernel
<1>2. hiloM # EnSelect
  BY <1>1 DEF EnSelect
<1>3. /\ hiloM \in Atenciones /\ hiloM.n \in Nat \ {0} /\ prog[hiloM.pid] = "espera"
  BY <1>2, AtencionEs DEF IInv
<1>4. hiloM' \in Atenciones /\ hiloM'.pid = hiloM.pid
  BY <1>1, <1>3 DEF SiguientePagina, Atenciones
<1>5. Atiende'
  BY <1>1, <1>3, <1>4 DEF Atiende
<1>6. prog' \in [Pids -> {"corre", "espera", "error", "fin"}] /\ roto' \in BOOLEAN
  BY <1>1 DEF IInv, Tipos
<1> QED
  BY <1>1, <1>5, <1>6, Quieta

LEMMA InvLeerFuera ==
  ASSUME IInv, LeerFueraDePagina
  PROVE  IInv'
<1>1. ~roto /\ roto' = TRUE /\ UNCHANGED <<paginas, debe, mem, libres, hiloM, prog, vivos, justas>>
  BY DEF LeerFueraDePagina, kernel
<1>2. Atiende'
  BY <1>1 DEF IInv, Atiende
<1> QED
  BY <1>1, <1>2, Quieta DEF IInv, Tipos

LEMMA InvStutter ==
  ASSUME IInv, UNCHANGED vars
  PROVE  IInv'
<1>1. UNCHANGED <<paginas, debe, mem, libres, hiloM, prog, vivos, justas, roto>>
  BY DEF vars
<1>2. Tipos' /\ Atiende' /\ Cuadros'
  BY <1>1 DEF IInv, Tipos, Atiende, Cuadros
<1>3. Numeradas' /\ Cuentas'
  BY <1>1 DEF IInv, Numeradas, Listada, Cuentas
<1>4. (~roto => Sano)'
  BY <1>1 DEF IInv, Sano, Filas, Aparte, Cuenta, Cuadra, Sujetos, Sujeto, Dentro, Listada
<1> QED
  BY <1>2, <1>3, <1>4 DEF IInv

-----------------------------------------------------------------------------
(* A turn of the search on a page with bytes enough *)

(* The request and its page.                                                *)
LEMMA BuscaEs ==
  ASSUME HeapOK, IInv, ~roto, hiloM.pc = "busca", hiloM.n \in DOMAIN paginas[hiloM.pid]
  PROVE  /\ hiloM \in Atenciones /\ hiloM.pid \in Pids /\ hiloM.tam \in Tamanos /\ hiloM.tam \in Nat \ {0}
         /\ prog[hiloM.pid] = "espera"
         /\ Actual.num = Numero(hiloM.n) /\ Actual.num \in Nat /\ Actual.num >= CantPag
         /\ Actual.esp \in Nat /\ Listada(hiloM.pid, Actual.num)
         /\ Fila \in Seq(Bloques)
         /\ <<hiloM.pid, Actual.num>> \in DOMAIN mem <=> Fila # <<>>
         /\ <<hiloM.pid, Actual.num>> \in DOMAIN mem =>
              Fila = mem[<<hiloM.pid, Actual.num>>] /\ Total(Fila) = Tam
<1>1. hiloM # EnSelect
  BY DEF EnSelect
<1>2. /\ hiloM \in Atenciones /\ hiloM.pid \in Pids /\ hiloM.tam \in Tamanos
      /\ hiloM.tam \in Nat \ {0} /\ prog[hiloM.pid] = "espera"
  BY <1>1, AtencionEs DEF IInv
<1>3. /\ Actual.num = Numero(hiloM.n) /\ Numero(hiloM.n) \in Nat /\ Numero(hiloM.n) >= CantPag
      /\ Actual.esp \in Nat
  BY <1>2, PaginasPorNumero DEF IInv, Actual
<1>4. Listada(hiloM.pid, Actual.num)
  BY DEF Listada, Actual
<1>5. /\ Fila \in Seq(Bloques)
      /\ <<hiloM.pid, Actual.num>> \in DOMAIN mem <=> Fila # <<>>
      /\ <<hiloM.pid, Actual.num>> \in DOMAIN mem =>
           Fila = mem[<<hiloM.pid, Actual.num>>] /\ Total(Fila) = Tam
  <2>1. Filas
    BY DEF IInv, Sano
  <2> QED
    BY <2>1, FilaDePagina DEF Fila
<1> QED
  BY <1>2, <1>3, <1>4, <1>5

(* Nothing fits in the page and it stays compacted.                         *)
LEMMA InvCompacta ==
  ASSUME HeapOK, IInv, ~roto, NEW p, NEW n, NEW bs, Compactado(bs, Cabeceras(p, n)),
         mem' = AlmacenarBytes(p, n, bs),
         UNCHANGED <<paginas, debe, libres, hiloM, prog, vivos, justas, roto>>
  PROVE  IInv'
<1>1. Filas /\ Cuenta /\ Sujetos /\ Dentro /\ Aparte
  BY DEF IInv, Sano
<1>2. DOMAIN mem' = DOMAIN mem
  BY DEF AlmacenarBytes
<1>3. ASSUME NEW x \in DOMAIN mem PROVE Compactado(mem'[x], mem[x])
  <2>1. CASE x = <<p, n>>
    <3>1. Cabeceras(p, n) = mem[x] /\ mem'[x] = bs
      BY <2>1 DEF Cabeceras, AlmacenarBytes
    <3> QED
      BY <3>1
  <2>2. CASE x # <<p, n>>
    <3>1. mem'[x] = mem[x]
      BY <2>2 DEF AlmacenarBytes
    <3> QED
      BY <1>1, <3>1 DEF Filas, Compactado
  <2> QED
    BY <2>1, <2>2
<1>4. Tipos' /\ Atiende' /\ Cuadros'
  BY <1>2 DEF IInv, Tipos, Atiende, Cuadros
<1>5. Numeradas' /\ Cuentas'
  BY <1>2 DEF IInv, Numeradas, Listada, Cuentas
<1>6. Filas'
  BY <1>1, <1>2, <1>3 DEF Filas, Compactado
<1>7. Cuenta'
  <2> SUFFICES ASSUME NEW q \in Pids, NEW k \in DOMAIN paginas[q], NEW y, y = <<q, Numero(k)>>,
                      y \in DOMAIN mem
               PROVE  Cuadra(paginas[q][k].esp, LibreDe(mem'[y]), y \in justas)
    BY <1>2 DEF Cuenta
  <2>1. Cuadra(paginas[q][k].esp, LibreDe(mem[y]), y \in justas)
    BY <1>1 DEF Cuenta
  <2>2. LibreDe(mem'[y]) = LibreDe(mem[y])
    BY <1>3 DEF Compactado
  <2> QED
    BY <2>1, <2>2
<1>8. Sujetos'
  <2> SUFFICES ASSUME NEW q \in Pids, NEW v \in vivos[q]
               PROVE  Sujeto(q, v)'
    BY DEF Sujetos
  <2>1. Sujeto(q, v)
    BY <1>1 DEF Sujetos
  <2>2. <<q, NumDe(v)>> \in DOMAIN mem =>
          Usados(mem'[<<q, NumDe(v)>>]) = Usados(mem[<<q, NumDe(v)>>])
    BY <1>3 DEF Compactado
  <2> QED
    BY <1>2, <2>1, <2>2 DEF Sujeto
<1>9. Dentro' /\ Aparte'
  BY <1>1 DEF Dentro, Aparte, Listada
<1> QED
  BY <1>4, <1>5, <1>6, <1>7, <1>8, <1>9 DEF IInv, Sano

(* The block that is given: nobody holds a byte of it.                      *)
LEMMA UbicarHace ==
  ASSUME HeapOK, IInv, ~roto, hiloM.pc = "busca", hiloM.n \in DOMAIN paginas[hiloM.pid],
         NEW bs, Compactado(bs, Fila),
         NEW i \in 1 .. Len(bs), bs[i].libre, bs[i].tam >= hiloM.tam,
         NEW v, v = [ptr |-> (Actual.num * Tam + Inicio(bs, i) + Cabecera) - CantPag * Tam, tam |-> hiloM.tam]
  PROVE  /\ <<hiloM.pid, Actual.num>> \in DOMAIN mem
         /\ v \in Vivas /\ NumDe(v) = Actual.num
         /\ Inicio(bs, i) \in Nat /\ Pos(v) = Inicio(bs, i) + Cabecera /\ Pos(v) + v.tam <= Tam
         /\ \A w \in vivos[hiloM.pid] : w # v /\ Separadas(v, w)
<1> DEFINE p == hiloM.pid
           n == Actual.num
           x == <<p, n>>
<1>1. /\ p \in Pids /\ hiloM.tam \in Tamanos /\ hiloM.tam \in Nat \ {0}
      /\ n \in Nat /\ n >= CantPag /\ Fila \in Seq(Bloques)
      /\ x \in DOMAIN mem <=> Fila # <<>>
      /\ x \in DOMAIN mem => Fila = mem[x] /\ Total(Fila) = Tam
  BY BuscaEs
<1>2. bs \in Seq(Bloques) /\ Total(bs) = Total(Fila) /\ Usados(bs) = Usados(Fila)
  BY DEF Compactado
<1>3. PICK o \in Nat, t \in Nat : o = Inicio(bs, i) /\ t = bs[i].tam /\ o + t + Cabecera <= Total(bs)
  BY <1>2, InicioPasos
<1>4. x \in DOMAIN mem
  <2>1. Total(Fila) # 0
    BY <1>2, <1>3, InicioPasos DEF Cabecera
  <2> QED
    BY <1>1, <2>1, FilaVacia
<1>5. Tam \in Nat /\ o + t + Cabecera <= Tam
  BY <1>1, <1>2, <1>3, <1>4 DEF HeapOK
<1>6. PICK b \in Nat : b = o + Cabecera
  BY DEF Cabecera
<1>7. /\ b < Tam /\ b + hiloM.tam <= Tam /\ b = o + 5
      /\ b + hiloM.tam <= b + t
  <2>1. PICK m \in Nat \ {0} : m = hiloM.tam
    BY <1>1
  <2>2. m <= t
    BY <1>3, <2>1
  <2>3. b = o + 5 /\ o + t + 5 <= Tam
    BY <1>5, <1>6 DEF Cabecera
  <2>4. b < Tam /\ b + m <= Tam /\ b + m <= b + t
    BY <1>5, <2>2, <2>3
  <2> QED
    BY <2>1, <2>3, <2>4
<1>8. v = [ptr |-> (n * Tam + b) - CantPag * Tam, tam |-> hiloM.tam]
  <2>1. n * Tam \in Nat
    BY <1>1, PorTam
  <2>2. \A z \in Nat : z + o + Cabecera = z + b
    <3>1. b = o + 5
      BY <1>7
    <3> QED
      BY <3>1 DEF Cabecera
  <2>3. PICK nT \in Nat : nT = n * Tam
    BY <2>1
  <2> HIDE DEF n
  <2> DEFINE cT == CantPag * Tam
  <2>4. v = [ptr |-> (nT + o + Cabecera) - cT, tam |-> hiloM.tam]
    BY <1>3, <2>3 DEF n
  <2>5. nT + o + Cabecera = nT + b
    BY <2>2
  <2> HIDE DEF cT
  <2>6. v = [ptr |-> (nT + b) - cT, tam |-> hiloM.tam]
    BY <2>4, <2>5
  <2> QED
    BY <2>3, <2>6 DEF cT
<1>9. v \in Reservas /\ NumDe(v) = n /\ Pos(v) = b /\ v.tam = hiloM.tam
  <2>1. PICK m \in Nat : m = hiloM.tam
    BY <1>1
  <2>2. v = [ptr |-> (n * Tam + b) - CantPag * Tam, tam |-> m]
    BY <1>8, <2>1
  <2>3. PICK num \in Nat : num = n /\ num >= CantPag
    BY <1>1
  <2>4. b < Tam
    BY <1>7
  <2>5. v = [ptr |-> (num * Tam + b) - CantPag * Tam, tam |-> m]
    BY <2>2, <2>3
  <2>6. v \in Reservas /\ NumDe(v) = num /\ Pos(v) = b /\ v.tam = m
    BY <2>3, <2>4, <2>5, DirNueva
  <2> QED
    BY <2>1, <2>3, <2>6
<1>10. v \in Vivas
  <2>1. v.ptr \in Nat
    BY <1>9 DEF Reservas
  <2> QED
    BY <1>1, <1>8, <2>1 DEF Vivas
<1>11. ASSUME NEW w \in vivos[p] PROVE w # v /\ Separadas(v, w)
  <2>1. w \in Vivas
    BY <1>1 DEF IInv, Tipos
  <2>2. w \in Reservas /\ w.tam \in Nat
    BY <2>1, VivaEs
  <2>3. Sujeto(p, w) /\ Cabecera <= Pos(w) /\ Pos(w) + w.tam <= Tam
    BY <1>1 DEF IInv, Sano, Sujetos, Dentro
  <2>4. CASE NumDe(w) # n
    BY <1>7, <1>9, <2>2, <2>3, <2>4, RangosAparte
  <2>5. CASE NumDe(w) = n
    <3> DEFINE u == <<Pos(w) - Cabecera, w.tam>>
    <3>1. u \in Usados(bs)
      BY <1>1, <1>2, <1>4, <2>3, <2>5 DEF Sujeto
    <3>2. \/ u[1] + Cabecera + u[2] <= o
          \/ o + Cabecera + t <= u[1]
      BY <1>2, <1>3, <3>1, UsadosAparte
    <3>3. Pos(w) \in Nat
      BY <2>2, DirPartes
    <3>4. Pos(w) + w.tam <= o \/ b + t <= Pos(w) - Cabecera
      <4>1. u[1] = Pos(w) - Cabecera /\ u[2] = w.tam
        OBVIOUS
      <4> HIDE DEF u
      <4>2. PICK c \in Nat, s \in Nat : c = Pos(w) /\ s = w.tam
        BY <2>2, <3>3
      <4>3. u[1] = c - 5 /\ u[2] = s
        BY <4>1, <4>2 DEF Cabecera
      <4>4. c + s <= o \/ o + 5 + t <= c - 5
        BY <3>2, <4>2, <4>3 DEF Cabecera
      <4> QED
        BY <1>7, <4>2, <4>4 DEF Cabecera
    <3>5. (Pos(w) + w.tam <= b \/ b + hiloM.tam <= Pos(w)) /\ Pos(w) # b
      <4>1. PICK c \in Nat, s \in Nat, m \in Nat \ {0} : c = Pos(w) /\ s = w.tam /\ m = hiloM.tam
        BY <1>1, <2>2, <3>3
      <4>2. b = o + 5 /\ b + m <= b + t /\ (c + s <= o \/ b + t <= c - 5)
        BY <1>7, <3>4, <4>1 DEF Cabecera
      <4>3. (c + s <= b \/ b + m <= c) /\ c # b
        <5>1. PICK oo \in Nat, tt \in Nat : oo = o /\ tt = t
          BY <1>2, <1>3
        <5>2. b = oo + 5 /\ b + m <= b + tt /\ (c + s <= oo \/ b + tt <= c - 5)
          BY <4>2, <5>1
        <5> QED
          BY <5>2
      <4> QED
        BY <4>1, <4>3
    <3>7. Separadas(v, w)
      BY <1>7, <1>9, <2>2, <2>3, <3>5, RangosAparte
    <3> QED
      BY <1>9, <3>5, <3>7
  <2> QED
    BY <2>4, <2>5
<1> QED
  BY <1>3, <1>4, <1>6, <1>7, <1>9, <1>10, <1>11

(* esp_libre of one page is written over.                                   *)
LEMMA EspCambia ==
  ASSUME HeapOK, Tipos, Numeradas, NEW p \in Pids, NEW k \in DOMAIN paginas[p], NEW e \in Nat,
         paginas' = [paginas EXCEPT ![p][k].esp = e]
  PROVE  /\ paginas' \in [Pids -> Seq([num : Nat, esp : Nat])]
         /\ \A q \in Pids : DOMAIN paginas'[q] = DOMAIN paginas[q]
         /\ \A q \in Pids : \A j \in DOMAIN paginas[q] :
              /\ paginas'[q][j].num = Numero(j)
              /\ paginas'[q][j].esp = IF q = p /\ j = k THEN e ELSE paginas[q][j].esp
         /\ \A q \in Pids : \A n : Listada(q, n)' <=> Listada(q, n)
<1> DEFINE Pag == [num : Nat, esp : Nat]
           pg == [num |-> Numero(k), esp |-> e]
           ps == [paginas[p] EXCEPT ![k] = pg]
<1>1. /\ paginas[p] \in Seq(Pag) /\ DOMAIN paginas[p] = 1 .. Len(paginas[p])
      /\ paginas[p][k] = [num |-> Numero(k), esp |-> paginas[p][k].esp] /\ Numero(k) \in Nat
  BY PaginasPorNumero
<1>2. [paginas[p][k] EXCEPT !.esp = e] = pg
  <2> DEFINE a == paginas[p][k]
             b == paginas[p][k].esp
  <2>1. a = [num |-> Numero(k), esp |-> b]
    BY <1>1
  <2> HIDE DEF a, b
  <2>2. [a EXCEPT !.esp = e] = pg
    BY <2>1
  <2> QED
    BY <2>2 DEF a
<1>3. paginas \in [Pids -> Seq(Pag)]
  BY DEF Tipos
<1>4. paginas' = [paginas EXCEPT ![p] = ps]
  BY <1>2
<1>5. /\ ps \in Seq(Pag) /\ DOMAIN ps = DOMAIN paginas[p]
      /\ \A j \in DOMAIN paginas[p] : ps[j] = IF j = k THEN pg ELSE paginas[p][j]
  <2>1. pg \in Pag
    BY <1>1
  <2> HIDE DEF pg, Pag
  <2>2. /\ ps \in Seq(Pag) /\ Len(ps) = Len(paginas[p])
        /\ \A j \in 1 .. Len(paginas[p]) : ps[j] = IF j = k THEN pg ELSE paginas[p][j]
    BY <1>1, <2>1, ExceptSeq
  <2> QED
    BY <1>1, <2>2, LenProperties
<1>6. pg.num = Numero(k) /\ pg.esp = e
  OBVIOUS
<1> HIDE DEF ps, pg, Pag
<1>7. paginas' \in [Pids -> Seq(Pag)]
  BY <1>3, <1>4, <1>5
<1>8. \A q \in Pids : paginas'[q] = IF q = p THEN ps ELSE paginas[q]
  BY <1>3, <1>4
<1>9. \A q \in Pids : DOMAIN paginas'[q] = DOMAIN paginas[q]
  BY <1>5, <1>8
<1>10. \A q \in Pids : \A j \in DOMAIN paginas[q] : paginas[q][j].num = Numero(j)
  BY DEF Numeradas
<1>11. \A q \in Pids : \A j \in DOMAIN paginas[q] :
         /\ paginas'[q][j].num = Numero(j)
         /\ paginas'[q][j].esp = IF q = p /\ j = k THEN e ELSE paginas[q][j].esp
  BY <1>5, <1>6, <1>8, <1>10
<1>12. \A q \in Pids : \A n : Listada(q, n)' <=> Listada(q, n)
  BY <1>9, <1>10, <1>11 DEF Listada
<1> QED
  BY <1>7, <1>9, <1>11, <1>12 DEF Pag

LEMMA InvUbicar ==
  ASSUME HeapOK, IInv, ~roto, hiloM.pc = "busca", hiloM.n \in DOMAIN paginas[hiloM.pid], HayEspacio,
         NEW bs, Compactado(bs, Fila),
         NEW i \in 1 .. Len(bs), bs[i].libre, bs[i].tam >= hiloM.tam,
         Ubicar(bs, i), UNCHANGED libres
  PROVE  IInv'
<1> DEFINE p == hiloM.pid
           n == Actual.num
           x == <<p, n>>
           tam == hiloM.tam
           sobra == bs[i].tam - tam
           quita == IF sobra = 0 THEN 0 ELSE tam + Cabecera
           e == Actual.esp - quita
           v == [ptr |-> (n * Tam + Inicio(bs, i) + Cabecera) - CantPag * Tam, tam |-> tam]
           r == Partir(bs, i, tam)
<1>1. /\ hiloM \in Atenciones /\ p \in Pids /\ tam \in Tamanos /\ tam \in Nat \ {0} /\ prog[p] = "espera"
      /\ n = Numero(hiloM.n) /\ n \in Nat /\ n >= CantPag
      /\ Actual.esp \in Nat /\ Listada(p, n) /\ Fila \in Seq(Bloques)
      /\ x \in DOMAIN mem => Fila = mem[x] /\ Total(Fila) = Tam
  BY BuscaEs
<1>2. /\ x \in DOMAIN mem
      /\ v \in Vivas /\ NumDe(v) = n
      /\ Inicio(bs, i) \in Nat /\ Pos(v) = Inicio(bs, i) + Cabecera /\ Pos(v) + v.tam <= Tam
      /\ \A w \in vivos[p] : w # v /\ Separadas(v, w)
  BY UbicarHace
<1>3. /\ Tipos /\ Atiende /\ Cuadros /\ Numeradas /\ Cuentas
      /\ Filas /\ Cuenta /\ Sujetos /\ Dentro /\ Aparte
  BY DEF IInv, Sano
<1>4. /\ debe' = [debe EXCEPT ![p] = @ + tam]
      /\ vivos' = [vivos EXCEPT ![p] = @ \cup {v}]
      /\ prog' = [prog EXCEPT ![p] = "corre"]
      /\ hiloM' = EnSelect
      /\ mem' = AlmacenarBytes(p, n, r)
      /\ paginas' = [paginas EXCEPT ![p][hiloM.n].esp = e]
      /\ justas' = justas \cup (IF sobra = 0 THEN {x} ELSE {})
      /\ roto' = (sobra \in 1 .. Cabecera - 1)
      /\ libres' = libres
  BY DEF Ubicar, Responder, Actual
<1>5. e \in Nat /\ bs \in Seq(Bloques) /\ bs[i].tam \in Nat
  <2>1. Actual.esp - Cabecera >= tam
    BY DEF HayEspacio
  <2>2. e \in Nat
    <3>1. PICK y \in Nat, z \in Nat : y = Actual.esp /\ z = tam
      BY <1>1
    <3>2. y - 5 >= z
      BY <2>1, <3>1 DEF Cabecera
    <3>3. quita \in {0, z + 5}
      BY <3>1 DEF Cabecera
    <3>4. y - 0 \in Nat /\ y - (z + 5) \in Nat
      BY <3>2
    <3> QED
      BY <3>1, <3>3, <3>4
  <2> QED
    BY <2>2, FilaTipos DEF Compactado
<1> HIDE DEF v, e, r, n
<1>6. /\ paginas' \in [Pids -> Seq([num : Nat, esp : Nat])]
      /\ \A q \in Pids : DOMAIN paginas'[q] = DOMAIN paginas[q]
      /\ \A q \in Pids : \A j \in DOMAIN paginas[q] :
           /\ paginas'[q][j].num = Numero(j)
           /\ paginas'[q][j].esp = IF q = p /\ j = hiloM.n THEN e ELSE paginas[q][j].esp
      /\ \A q \in Pids : \A m : Listada(q, m)' <=> Listada(q, m)
  BY <1>1, <1>3, <1>4, <1>5, EspCambia
<1>7. /\ DOMAIN mem' = DOMAIN mem /\ mem'[x] = r
      /\ \A y \in DOMAIN mem : y # x => mem'[y] = mem[y]
  BY <1>2, <1>4 DEF AlmacenarBytes
<1>8. \A q \in Pids : vivos'[q] = IF q = p THEN vivos[p] \cup {v} ELSE vivos[q]
  BY <1>3, <1>4 DEF Tipos
<1>9. Tipos'
  <2>1. debe' \in [Pids -> Int]
    <3>1. debe \in [Pids -> Int] /\ debe[p] \in Int
      BY <1>1, <1>3 DEF Tipos
    <3>2. debe[p] + tam \in Int
      BY <1>1, <3>1
    <3> QED
      BY <1>4, <3>1, <3>2
  <2>2. prog' \in [Pids -> {"corre", "espera", "error", "fin"}] /\ roto' \in BOOLEAN
    <3>1. prog \in [Pids -> {"corre", "espera", "error", "fin"}]
      BY <1>3 DEF Tipos
    <3>2. prog' \in [Pids -> {"corre", "espera", "error", "fin"}]
      BY <1>4, <3>1
    <3>3. roto' \in BOOLEAN
      BY <1>4
    <3> QED
      BY <3>2, <3>3
  <2>3. vivos' \in [Pids -> SUBSET Vivas]
    BY <1>2, <1>3, <1>4 DEF Tipos
  <2>4. ASSUME NEW q \in Pids PROVE IsFiniteSet(vivos'[q])
    <3>1. IsFiniteSet(vivos[q]) /\ IsFiniteSet(vivos[p])
      BY <1>1, <1>3 DEF Tipos
    <3>2. IsFiniteSet(vivos[p] \cup {v})
      BY <3>1, FS_AddElement
    <3> QED
      BY <1>8, <3>1, <3>2
  <2> QED
    BY <1>6, <2>1, <2>2, <2>3, <2>4 DEF Tipos
<1>10. Atiende' /\ Cuadros'
  BY <1>3, <1>4, <1>7 DEF Atiende, Cuadros
<1>11. Numeradas'
  <2>1. \A y \in DOMAIN mem : y[1] \in Pids /\ Listada(y[1], y[2])
    BY <1>3 DEF Numeradas, Cuadros
  <2> QED
    BY <1>6, <1>7, <2>1 DEF Numeradas
<1>12. Cuentas'
  <2> SUFFICES ASSUME NEW q \in Pids, prog'[q] \in {"corre", "espera"}
               PROVE  debe'[q] = SumaDe(vivos'[q])
    BY DEF Cuentas
  <2>1. CASE q = p
    <3>1. debe[p] = SumaDe(vivos[p]) /\ debe'[p] = debe[p] + tam
      BY <1>1, <1>3, <1>4 DEF Cuentas, Tipos
    <3> DEFINE S == vivos[p] \cup {v}
    <3>2. IsFiniteSet(S) /\ \A w \in S : w.tam \in Nat
      <4>1. vivos[p] \subseteq Vivas /\ IsFiniteSet(vivos[p])
        BY <1>1, <1>3 DEF Tipos
      <4>2. IsFiniteSet(S)
        BY <4>1, FS_AddElement
      <4> QED
        BY <1>2, <4>1, <4>2, VivaEs
    <3>3. S \ {v} = vivos[p]
      BY <1>2
    <3>4. SumaDe(S) = v.tam + SumaDe(S \ {v})
      <4>1. v \in S
        OBVIOUS
      <4> HIDE DEF S
      <4> QED
        BY <3>2, <4>1, SumaPasos
    <3>5. v.tam = tam /\ debe[p] \in Int
      BY <1>1, <1>3 DEF v, Tipos
    <3>6. SumaDe(S) = tam + debe[p]
      BY <3>1, <3>3, <3>4, <3>5
    <3>7. vivos'[q] = S /\ debe'[q] = debe[p] + tam
      BY <1>8, <2>1, <3>1
    <3> HIDE DEF S
    <3> QED
      BY <1>1, <3>5, <3>6, <3>7
  <2>2. CASE q # p
    <3>1. debe'[q] = debe[q] /\ prog'[q] = prog[q] /\ vivos'[q] = vivos[q]
      BY <1>3, <1>4, <1>8, <2>2 DEF Tipos
    <3> QED
      BY <1>3, <3>1 DEF Cuentas
  <2> QED
    BY <2>1, <2>2
<1>13. ASSUME ~roto' PROVE Sano'
  <2>1. Ubicado(r, bs, i, tam)
    <3>1. sobra \notin 1 .. Cabecera - 1
      BY <1>4, <1>13
    <3> QED
      BY <1>1, <1>5, <3>1, PartirHace DEF r
  <2>2. /\ r \in Seq(Bloques) /\ Total(r) = Tam
        /\ LibreDe(r) = LibreDe(mem[x]) - (tam + Cabecera)
        /\ Usados(r) = Usados(mem[x]) \cup {<<Inicio(bs, i), tam>>}
    BY <1>1, <1>2, <2>1 DEF Ubicado, Compactado
  <2>3. Filas'
    BY <1>3, <1>7, <2>2 DEF Filas
  <2>4. Cuenta'
    <3> SUFFICES ASSUME NEW q \in Pids, NEW k \in DOMAIN paginas[q], NEW y, y = <<q, Numero(k)>>,
                        y \in DOMAIN mem
                 PROVE  Cuadra(paginas'[q][k].esp, LibreDe(mem'[y]), y \in justas')
      BY <1>6, <1>7 DEF Cuenta
    <3>1. Cuadra(paginas[q][k].esp, LibreDe(mem[y]), y \in justas)
      BY <1>3 DEF Cuenta
    <3>2. CASE q = p /\ k = hiloM.n
      <4>1. y = x /\ paginas[q][k].esp = Actual.esp /\ paginas'[q][k].esp = e
        BY <1>1, <1>6, <3>2 DEF Actual
      <4>2. PICK l \in Nat, a \in Nat, t \in Nat : l = LibreDe(mem[x]) /\ a = Actual.esp /\ t = tam
        BY <1>1, <1>2, <1>3, LibreAcotado DEF Filas
      <4>3. a >= l - 5 /\ (x \notin justas => a = l - 5)
        BY <3>1, <4>1, <4>2 DEF Cuadra, Cabecera
      <4>4. LibreDe(mem'[x]) = l - (t + 5)
        BY <1>7, <2>2, <4>2 DEF Cabecera
      <4>5. CASE sobra = 0
        <5>1. x \in justas' /\ e = a
          <6>1. e = Actual.esp - 0
            BY <4>5 DEF e
          <6> QED
            BY <1>4, <4>2, <4>5, <6>1
        <5>2. a >= l - (t + 5) - 5
          BY <4>3
        <5> QED
          BY <4>1, <4>4, <5>1, <5>2 DEF Cuadra, Cabecera
      <4>6. CASE sobra # 0
        <5>1. justas' = justas /\ e = a - (t + 5)
          <6>1. e = Actual.esp - (tam + Cabecera)
            BY <4>6 DEF e
          <6> QED
            BY <1>4, <4>2, <4>6, <6>1 DEF Cabecera
        <5>2. e >= l - (t + 5) - 5 /\ (x \notin justas => e = l - (t + 5) - 5)
          BY <4>3, <5>1
        <5> QED
          BY <4>1, <4>4, <5>1, <5>2 DEF Cuadra, Cabecera
      <4> QED
        BY <4>5, <4>6
    <3>3. CASE ~(q = p /\ k = hiloM.n)
      <4>1. y # x
        <5>1. CASE q # p
          BY <5>1
        <5>2. CASE q = p /\ k # hiloM.n
          <6>1. k \in Nat /\ hiloM.n \in Nat
            BY <1>1, <1>3, PaginasPorNumero
          <6>2. Numero(k) # Numero(hiloM.n)
            BY <1>1, <1>3, <5>2, <6>1, PaginasPorNumero
          <6> QED
            BY <1>1, <6>2
        <5> QED
          BY <3>3, <5>1, <5>2
      <4>2. mem'[y] = mem[y] /\ paginas'[q][k].esp = paginas[q][k].esp
        BY <1>6, <1>7, <3>3, <4>1
      <4>3. y \in justas' <=> y \in justas
        BY <1>4, <4>1
      <4> QED
        BY <3>1, <4>2, <4>3 DEF Cuadra
    <3> QED
      BY <3>2, <3>3
  <2>5. Sujetos'
    <3> SUFFICES ASSUME NEW q \in Pids, NEW w \in vivos'[q]
                 PROVE  Sujeto(q, w)'
      BY DEF Sujetos
    <3>1. CASE q = p /\ w = v
      <4>1. <<Pos(v) - Cabecera, v.tam>> = <<Inicio(bs, i), tam>>
        <5>1. Pos(v) - Cabecera = Inicio(bs, i)
          BY <1>2 DEF Cabecera
        <5> QED
          BY <5>1 DEF v
      <4>2. <<Pos(v) - Cabecera, v.tam>> \in Usados(mem'[x])
        BY <1>7, <2>2, <4>1
      <4> QED
        BY <1>2, <1>7, <3>1, <4>2 DEF Sujeto
    <3>2. CASE ~(q = p /\ w = v)
      <4>1. Sujeto(q, w)
        BY <1>3, <1>8, <3>2 DEF Sujetos
      <4>2. <<q, NumDe(w)>> \in DOMAIN mem =>
              Usados(mem[<<q, NumDe(w)>>]) \subseteq Usados(mem'[<<q, NumDe(w)>>])
        BY <1>7, <2>2
      <4> QED
        BY <1>4, <1>7, <4>1, <4>2 DEF Sujeto
    <3> QED
      BY <3>1, <3>2
  <2>6. Dentro'
    <3> SUFFICES ASSUME NEW q \in Pids, NEW w \in vivos'[q]
                 PROVE  Listada(q, NumDe(w)) /\ Cabecera <= Pos(w) /\ Pos(w) + w.tam <= Tam
      BY <1>6 DEF Dentro
    <3>1. CASE q = p /\ w = v
      <4>1. Cabecera <= Pos(v)
        BY <1>2 DEF Cabecera
      <4> QED
        BY <1>1, <1>2, <3>1, <4>1
    <3>2. CASE ~(q = p /\ w = v)
      BY <1>3, <1>8, <3>2 DEF Dentro
    <3> QED
      BY <3>1, <3>2
  <2>7. Aparte'
    <3> SUFFICES ASSUME NEW q \in Pids, NEW w \in vivos'[q], NEW z \in vivos'[q], w # z
                 PROVE  Separadas(w, z)
      BY DEF Aparte
    <3>1. CASE q = p
      <4>1. w \in vivos[p] /\ z \in vivos[p] => Separadas(w, z)
        BY <1>1, <1>3 DEF Aparte
      <4>2. \A a, b : Separadas(a, b) => Separadas(b, a)
        BY DEF Separadas
      <4> QED
        BY <1>2, <1>8, <3>1, <4>1, <4>2
    <3>2. CASE q # p
      BY <1>3, <1>8, <3>2 DEF Aparte
    <3> QED
      BY <3>1, <3>2
  <2> QED
    BY <2>3, <2>4, <2>5, <2>6, <2>7 DEF Sano
<1> QED
  BY <1>9, <1>10, <1>11, <1>12, <1>13 DEF IInv

(* What a turn of the search does: it leaves the page compacted, or gives a *)
(* free block of the page, compacted or not.                                *)
Elige(bs, i) ==
  /\ Compactado(bs, Fila)
  /\ i \in 1 .. Len(bs) /\ bs[i].libre /\ bs[i].tam >= hiloM.tam

LEMMA BuscarHace ==
  ASSUME HeapOK, IInv, BuscarBloque
  PROVE  /\ ~roto /\ hiloM.pc = "busca" /\ hiloM.n \in DOMAIN paginas[hiloM.pid] /\ HayEspacio
         /\ libres' = libres
         /\ \/ \E bs, i : Elige(bs, i) /\ Ubicar(bs, i)
            \/ \E bs : /\ Compactado(bs, Fila)
                       /\ mem' = AlmacenarBytes(hiloM.pid, Actual.num, bs)
                       /\ UNCHANGED <<paginas, debe, hiloM, prog, vivos, justas, roto>>
<1>1. /\ ~roto /\ hiloM.pc = "busca" /\ hiloM.n \in DOMAIN paginas[hiloM.pid] /\ HayEspacio
      /\ libres' = libres
  BY DEF BuscarBloque
<1>2. Fila \in Seq(Bloques) /\ hiloM.tam \in Nat
  BY <1>1, BuscaEs
<1>3. PICK bs, i :
        /\ bs = IF BloqueLibre(Fila, hiloM.tam) # 0 THEN Fila ELSE Compactar(Fila)
        /\ i = BloqueLibre(bs, hiloM.tam)
        /\ \/ i # 0 /\ Ubicar(bs, i)
           \/ /\ i = 0
              /\ mem' = AlmacenarBytes(hiloM.pid, Actual.num, bs)
              /\ UNCHANGED <<kernel, hiloM, prog, vivos, justas, roto>>
  BY DEF BuscarBloque
<1>4. Compactado(bs, Fila)
  <2>1. Compactado(Fila, Fila)
    BY <1>2 DEF Compactado
  <2>2. Compactado(Compactar(Fila), Fila)
    BY <1>2, CompactarHace
  <2> QED
    BY <1>3, <2>1, <2>2
<1>5. i # 0 => Elige(bs, i)
  <2>1. bs \in Seq(Bloques)
    BY <1>4 DEF Compactado
  <2>2. i = BloqueLibre(bs, hiloM.tam)
    BY <1>3
  <2>3. i # 0 => i \in 1 .. Len(bs) /\ bs[i].libre /\ bs[i].tam >= hiloM.tam
    BY <1>2, <2>1, <2>2, BloqueLibreHace
  <2> QED
    BY <1>4, <2>3 DEF Elige
<1>6. CASE i # 0
  <2>1. Ubicar(bs, i)
    BY <1>3, <1>6
  <2> QED
    BY <1>1, <1>5, <1>6, <2>1
<1>7. CASE i = 0
  <2>1. /\ mem' = AlmacenarBytes(hiloM.pid, Actual.num, bs)
        /\ UNCHANGED <<paginas, debe, hiloM, prog, vivos, justas, roto>>
    BY <1>3, <1>7 DEF kernel
  <2> QED
    BY <1>1, <1>4, <2>1
<1> QED
  BY <1>6, <1>7

LEMMA InvBuscarBloque ==
  ASSUME HeapOK, IInv, BuscarBloque
  PROVE  IInv'
<1>1. /\ ~roto /\ hiloM.pc = "busca" /\ hiloM.n \in DOMAIN paginas[hiloM.pid] /\ HayEspacio
      /\ libres' = libres
      /\ \/ \E bs, i : Elige(bs, i) /\ Ubicar(bs, i)
         \/ \E bs : /\ Compactado(bs, Fila)
                    /\ mem' = AlmacenarBytes(hiloM.pid, Actual.num, bs)
                    /\ UNCHANGED <<paginas, debe, hiloM, prog, vivos, justas, roto>>
  BY BuscarHace
<1>2. CASE \E bs, i : Elige(bs, i) /\ Ubicar(bs, i)
  <2>1. PICK bs, i : Elige(bs, i) /\ Ubicar(bs, i)
    BY <1>2
  <2>2. /\ Compactado(bs, Fila)
        /\ i \in 1 .. Len(bs) /\ bs[i].libre /\ bs[i].tam >= hiloM.tam
    BY <2>1 DEF Elige
  <2> QED
    BY <1>1, <2>1, <2>2, InvUbicar
<1>3. CASE \E bs : /\ Compactado(bs, Fila)
                   /\ mem' = AlmacenarBytes(hiloM.pid, Actual.num, bs)
                   /\ UNCHANGED <<paginas, debe, hiloM, prog, vivos, justas, roto>>
  <2>1. PICK bs : /\ Compactado(bs, Cabeceras(hiloM.pid, Actual.num))
                  /\ mem' = AlmacenarBytes(hiloM.pid, Actual.num, bs)
                  /\ UNCHANGED <<paginas, debe, hiloM, prog, vivos, justas, roto>>
    BY <1>3 DEF Fila
  <2> QED
    BY <1>1, <2>1, InvCompacta
<1> QED
  BY <1>1, <1>2, <1>3

-----------------------------------------------------------------------------
(* A new page                                                               *)

LEMMA InvSinCuadro ==
  ASSUME HeapOK, IInv, PedirPagina, ~(libres > 0)
  PROVE  IInv'
<1>1. /\ ~roto /\ hiloM.pc = "pide" /\ hiloM' = EnSelect
      /\ prog' = [prog EXCEPT ![hiloM.pid] = "error"]
      /\ UNCHANGED <<paginas, debe, mem, libres, vivos, justas, roto>>
  BY DEF PedirPagina, Forzar
<1>2. Atiende'
  BY <1>1 DEF Atiende
<1>3. prog \in [Pids -> {"corre", "espera", "error", "fin"}] /\ roto \in BOOLEAN
  BY DEF IInv, Tipos
<1>4. /\ prog' \in [Pids -> {"corre", "espera", "error", "fin"}] /\ roto' \in BOOLEAN
      /\ \A q \in Pids : prog'[q] \in {"corre", "espera"} => prog[q] \in {"corre", "espera"}
  BY <1>1, <1>3
<1> QED
  BY <1>1, <1>2, <1>4, Quieta

(* The row of a page that has just been asked for.                          *)
LEMMA FilaNueva ==
  ASSUME HeapOK, NEW r, r = <<Bloque(Tam - Cabecera, TRUE)>>
  PROVE  r \in Seq(Bloques) /\ Total(r) = Tam /\ LibreDe(r) = Tam /\ Usados(r) = {}
<1> DEFINE b == Bloque(Tam - Cabecera, TRUE)
<1>1. Tam \in Nat /\ Tam - Cabecera \in Nat /\ Tam - Cabecera + Cabecera = Tam
  BY DEF HeapOK, Cabecera
<1>2. b \in Bloques /\ b.tam + Cabecera = Tam /\ b.libre
  BY <1>1 DEF Bloque, Bloques
<1> HIDE DEF b
<1>3. r = Append(<<>>, b)
  BY DEF b
<1>4. /\ r \in Seq(Bloques)
      /\ Total(r) = Total(<<>>) + b.tam + Cabecera
      /\ LibreDe(r) = LibreDe(<<>>) + (IF b.libre THEN b.tam + Cabecera ELSE 0)
      /\ Usados(r) = Usados(<<>>) \cup (IF b.libre THEN {} ELSE {<<Total(<<>>), b.tam>>})
  BY <1>2, <1>3, FilaVacia, FilaAgrega
<1>5. PICK t \in Nat : t = b.tam
  BY <1>2 DEF Bloques
<1>6. t + Cabecera = Tam
  BY <1>2, <1>5
<1>7. Total(r) = 0 + t + Cabecera /\ LibreDe(r) = 0 + (t + Cabecera) /\ Usados(r) = {}
  BY <1>2, <1>4, <1>5, FilaVacia
<1>8. 0 + t + Cabecera = t + Cabecera /\ 0 + (t + Cabecera) = t + Cabecera
  BY <1>5 DEF Cabecera
<1> QED
  BY <1>4, <1>6, <1>7, <1>8

LEMMA InvConCuadro ==
  ASSUME HeapOK, IInv, PedirPagina, libres > 0
  PROVE  IInv'
<1> DEFINE p == hiloM.pid
           L == Len(paginas[p])
           n == Numero(L + 1)
           x == <<p, n>>
           pg == PaginaNueva(p)
           r == <<Bloque(Tam - Cabecera, TRUE)>>
           Pag == [num : Nat, esp : Nat]
<1>1. /\ ~roto /\ hiloM.pc = "pide"
      /\ libres' = libres - 1
      /\ mem' = [y \in DOMAIN mem \cup {<<p, pg.num>>} |-> IF y \in DOMAIN mem THEN mem[y] ELSE r]
      /\ paginas' = [paginas EXCEPT ![p] = Append(@, pg)]
      /\ hiloM' = [hiloM EXCEPT !.pc = "busca", !.n = 1]
      /\ UNCHANGED <<prog, debe, vivos, justas, roto>>
  BY DEF PedirPagina
<1>2. /\ Tipos /\ Atiende /\ Cuadros /\ Numeradas /\ Cuentas
      /\ Filas /\ Cuenta /\ Sujetos /\ Dentro /\ Aparte
  BY <1>1 DEF IInv, Sano
<1>3. hiloM \in Atenciones /\ p \in Pids /\ prog[p] = "espera"
  <2>1. hiloM # EnSelect
    BY <1>1 DEF EnSelect
  <2> QED
    BY <1>2, <2>1, AtencionEs
<1>4. /\ paginas[p] \in Seq(Pag) /\ L \in Nat /\ DOMAIN paginas[p] = 1 .. L
      /\ \A k \in DOMAIN paginas[p] : k \in Nat
      /\ \A j, k \in Nat : Numero(j) = Numero(k) => j = k
  BY <1>2, <1>3, PaginasPorNumero
<1>5. pg \in Pag /\ pg.num = n /\ pg.esp = Tam - Cabecera /\ n \in Nat
  <2>1. CantPag + PagStack + L = n /\ n \in Nat
    <3>1. \A k \in Nat : CantPag + PagStack + k = Numero(k + 1) /\ Numero(k + 1) \in Nat
      BY DEF Numero, HeapOK
    <3> HIDE DEF L
    <3> QED
      BY <1>4, <3>1
  <2>2. Tam - Cabecera \in Nat
    BY DEF HeapOK, Cabecera
  <2>3. pg = [num |-> n, esp |-> Tam - Cabecera]
    BY <2>1 DEF PaginaNueva
  <2> HIDE DEF n, pg
  <2> QED
    BY <2>1, <2>2, <2>3
<1> HIDE DEF pg, n, r, Pag
<1>6. /\ Append(paginas[p], pg) \in Seq(Pag)
      /\ DOMAIN Append(paginas[p], pg) = 1 .. L + 1
      /\ \A k \in 1 .. L : Append(paginas[p], pg)[k] = paginas[p][k]
      /\ Append(paginas[p], pg)[L + 1] = pg
  BY <1>4, <1>5, AppendProperties, LenProperties
<1> DEFINE ps == Append(paginas[p], pg)
<1>7. /\ paginas \in [Pids -> Seq(Pag)]
      /\ \A q \in Pids : paginas'[q] = IF q = p THEN ps ELSE paginas[q]
  BY <1>1, <1>2, <1>3 DEF Tipos, Pag
<1> HIDE DEF ps
<1>8. \A q \in Pids : \A k \in DOMAIN paginas[q] : paginas[q][k].num = Numero(k)
  BY <1>2 DEF Numeradas
<1>9. ASSUME NEW q \in Pids, NEW k \in DOMAIN paginas'[q], ~(q = p /\ k = L + 1)
      PROVE  k \in DOMAIN paginas[q] /\ paginas'[q][k] = paginas[q][k]
  <2>1. CASE q = p
    <3>1. k \in 1 .. L + 1 /\ k # L + 1
      BY <1>6, <1>7, <1>9, <2>1 DEF ps
    <3>2. k \in 1 .. L
      BY <1>4, <3>1
    <3> QED
      BY <1>4, <1>6, <1>7, <2>1, <3>2 DEF ps
  <2>2. CASE q # p
    BY <1>7, <2>2
  <2> QED
    BY <2>1, <2>2
<1>10. ASSUME NEW q \in Pids, NEW k \in DOMAIN paginas[q]
       PROVE  k \in DOMAIN paginas'[q] /\ paginas'[q][k] = paginas[q][k]
  <2>1. CASE q = p
    <3>1. k \in 1 .. L /\ k \in 1 .. L + 1
      BY <1>4, <2>1
    <3>2. k \in DOMAIN ps /\ ps[k] = paginas[p][k] /\ paginas'[q] = ps
      BY <1>6, <1>7, <2>1, <3>1 DEF ps
    <3> QED
      BY <2>1, <3>2
  <2>2. CASE q # p
    BY <1>7, <2>2
  <2> QED
    BY <2>1, <2>2
<1>11. L + 1 \in DOMAIN paginas'[p] /\ paginas'[p][L + 1] = pg
  <2>1. L + 1 \in 1 .. L + 1
    BY <1>4
  <2> QED
    BY <1>3, <1>6, <1>7, <2>1 DEF ps
<1>12. ~Listada(p, n)
  <2> SUFFICES ASSUME NEW k \in DOMAIN paginas[p], paginas[p][k].num = n PROVE FALSE
    BY DEF Listada
  <2>1. k \in Nat /\ L + 1 \in Nat /\ Numero(k) = Numero(L + 1)
    BY <1>3, <1>4, <1>8 DEF n
  <2>2. k = L + 1
    BY <1>4, <2>1
  <2> QED
    BY <1>4, <2>2
<1>13. x \notin DOMAIN mem
  BY <1>2, <1>12 DEF Numeradas
<1>14. \A q \in Pids : \A m : Listada(q, m) => Listada(q, m)'
  BY <1>10 DEF Listada
<1>15. /\ DOMAIN mem' = DOMAIN mem \cup {x}
       /\ mem'[x] = r
       /\ \A y \in DOMAIN mem : mem'[y] = mem[y]
  BY <1>1, <1>5, <1>13
<1>16. Tipos'
  <2>1. paginas' \in [Pids -> Seq([num : Nat, esp : Nat])]
    BY <1>1, <1>6, <1>7 DEF Pag, ps
  <2> QED
    BY <1>1, <1>2, <2>1 DEF Tipos
<1>17. Atiende'
  <2>1. hiloM' \in Atenciones /\ hiloM'.pid = p
    <3>1. PICK a \in Pids, t \in Tamanos, m \in Nat \ {0} :
            hiloM = [pc |-> "pide", pid |-> a, tam |-> t, n |-> m]
      BY <1>1, <1>3 DEF Atenciones
    <3>2. hiloM' = [pc |-> "busca", pid |-> a, tam |-> t, n |-> 1]
      BY <1>1, <3>1
    <3> QED
      BY <3>1, <3>2 DEF Atenciones
  <2> QED
    BY <1>1, <1>3, <2>1 DEF Atiende
<1>18. Cuadros'
  <2>1. IsFiniteSet(DOMAIN mem)
    BY <1>2 DEF Cuadros
  <2>2. IsFiniteSet(DOMAIN mem') /\ Cardinality(DOMAIN mem') = Cardinality(DOMAIN mem) + 1
    BY <1>13, <1>15, <2>1, FS_AddElement
  <2>3. Cardinality(DOMAIN mem) \in Nat
    BY <2>1, FS_CardinalityType
  <2>4. libres \in Nat /\ libres + Cardinality(DOMAIN mem) = Marcos
    BY <1>2 DEF Cuadros
  <2>5. libres' \in Nat /\ libres' + Cardinality(DOMAIN mem') = Marcos
    BY <1>1, <2>2, <2>3, <2>4
  <2>6. DOMAIN mem' \subseteq Pids \X Nat
    BY <1>2, <1>3, <1>5, <1>15 DEF Cuadros
  <2> QED
    BY <2>2, <2>5, <2>6 DEF Cuadros
<1>19. Numeradas'
  <2>1. ASSUME NEW q \in Pids, NEW k \in DOMAIN paginas'[q] PROVE paginas'[q][k].num = Numero(k)
    <3>1. CASE q = p /\ k = L + 1
      BY <1>5, <1>11, <3>1 DEF n
    <3>2. CASE ~(q = p /\ k = L + 1)
      BY <1>8, <1>9, <3>2
    <3> QED
      BY <3>1, <3>2
  <2>2. ASSUME NEW y \in DOMAIN mem' PROVE Listada(y[1], y[2])'
    <3>1. CASE y = x
      <4>1. y[1] = p /\ y[2] = n
        BY <3>1
      <4>2. paginas'[y[1]][L + 1].num = y[2] /\ L + 1 \in DOMAIN paginas'[y[1]]
        BY <1>5, <1>11, <4>1
      <4>3. \E k \in DOMAIN paginas'[y[1]] : paginas'[y[1]][k].num = y[2]
        BY <4>2
      <4> QED
        BY <4>3 DEF Listada
    <3>2. CASE y # x
      <4>1. y \in DOMAIN mem /\ y[1] \in Pids /\ Listada(y[1], y[2])
        BY <1>2, <1>15, <3>2 DEF Cuadros, Numeradas
      <4> QED
        BY <1>14, <4>1
    <3> QED
      BY <3>1, <3>2
  <2> QED
    BY <2>1, <2>2 DEF Numeradas
<1>20. Cuentas'
  BY <1>1, <1>2 DEF Cuentas
<1>21. r \in Seq(Bloques) /\ Total(r) = Tam /\ LibreDe(r) = Tam
  BY FilaNueva DEF r
<1>22. Filas'
  BY <1>2, <1>15, <1>21 DEF Filas
<1>23. Cuenta'
  <2> SUFFICES ASSUME NEW q \in Pids, NEW k \in DOMAIN paginas'[q], NEW y, y = <<q, Numero(k)>>,
                      y \in DOMAIN mem'
               PROVE  Cuadra(paginas'[q][k].esp, LibreDe(mem'[y]), y \in justas')
    BY DEF Cuenta
  <2>1. CASE q = p /\ k = L + 1
    <3>1. y = x /\ paginas'[q][k].esp = Tam - Cabecera
      BY <1>5, <1>11, <2>1 DEF n
    <3>2. LibreDe(mem'[y]) = Tam
      BY <1>15, <1>21, <3>1
    <3>3. Tam - Cabecera \in Nat
      BY DEF HeapOK, Cabecera
    <3> QED
      BY <3>1, <3>2, <3>3 DEF Cuadra
  <2>2. CASE ~(q = p /\ k = L + 1)
    <3>1. k \in DOMAIN paginas[q] /\ paginas'[q][k] = paginas[q][k]
      BY <1>9, <2>2
    <3>2. y # x
      <4>1. CASE q # p
        BY <4>1
      <4>2. CASE q = p
        BY <1>8, <1>12, <3>1, <4>2 DEF Listada
      <4> QED
        BY <4>1, <4>2
    <3>3. y \in DOMAIN mem /\ mem'[y] = mem[y]
      BY <1>15, <3>2
    <3> QED
      BY <1>1, <1>2, <3>1, <3>3 DEF Cuenta
  <2> QED
    BY <2>1, <2>2
<1>24. Sujetos'
  <2> SUFFICES ASSUME NEW q \in Pids, NEW v \in vivos[q]
               PROVE  Sujeto(q, v)'
    BY <1>1 DEF Sujetos
  <2>1. Sujeto(q, v) /\ Listada(q, NumDe(v))
    BY <1>2 DEF Sujetos, Dentro
  <2>2. <<q, NumDe(v)>> # x
    BY <1>12, <2>1
  <2>3. <<q, NumDe(v)>> \in DOMAIN mem' <=> <<q, NumDe(v)>> \in DOMAIN mem
    BY <1>15, <2>2
  <2> QED
    BY <1>1, <1>15, <2>1, <2>3 DEF Sujeto
<1>25. Dentro' /\ Aparte'
  BY <1>1, <1>2, <1>14 DEF Dentro, Aparte
<1> QED
  BY <1>16, <1>17, <1>18, <1>19, <1>20, <1>22, <1>23, <1>24, <1>25 DEF IInv, Sano

-----------------------------------------------------------------------------
(* A reservation is freed                                                   *)

(* The row of the page once the block of v is free.                         *)
Borrado(r, bs, v) ==
  /\ r \in Seq(Bloques)
  /\ Total(r) = Total(bs)
  /\ LibreDe(r) = LibreDe(bs) + v.tam + Cabecera
  /\ Usados(r) = Usados(bs) \ {<<Pos(v) - Cabecera, v.tam>>}

LEMMA BorrarHace ==
  ASSUME HeapOK, NEW bs \in Seq(Bloques), NEW v \in Reservas, Cabecera <= Pos(v),
         <<Pos(v) - Cabecera, v.tam>> \in Usados(bs),
         NEW i, i = BloqueEn(bs, (Direccion(v) - Cabecera) % Tam)
  PROVE  bs[i].tam = v.tam /\ Borrado([bs EXCEPT ![i].libre = TRUE], bs, v)
<1> DEFINE u == <<Pos(v) - Cabecera, v.tam>>
           r == [bs EXCEPT ![i].libre = TRUE]
<1>1. Pos(v) \in Nat /\ v.tam \in Nat /\ (Direccion(v) - Cabecera) % Tam = Pos(v) - Cabecera
  <2>1. Pos(v) >= Cabecera
    BY DirPartes DEF Cabecera
  <2> QED
    BY <2>1, DirPartes
<1>2. u[1] = Pos(v) - Cabecera /\ u[2] = v.tam
  OBVIOUS
<1> HIDE DEF u
<1>3. PICK k \in 1 .. Len(bs) : ~bs[k].libre /\ u = <<Inicio(bs, k), bs[k].tam>> /\ BloqueEn(bs, u[1]) = k
  BY UsadosAparte DEF u
<1>4. k = i
  BY <1>1, <1>2, <1>3
<1>5. i \in 1 .. Len(bs) /\ ~bs[i].libre /\ u = <<Inicio(bs, i), bs[i].tam>> /\ bs[i].tam = v.tam
  BY <1>2, <1>3, <1>4
<1>6. bs[i].libre = ~TRUE
  BY <1>5, FilaTipos
<1>7. /\ r \in Seq(Bloques)
      /\ Total(r) = Total(bs)
      /\ LibreDe(r) = IF TRUE THEN LibreDe(bs) + bs[i].tam + Cabecera
                              ELSE LibreDe(bs) - (bs[i].tam + Cabecera)
      /\ Usados(r) = IF TRUE THEN Usados(bs) \ {<<Inicio(bs, i), bs[i].tam>>}
                             ELSE Usados(bs) \cup {<<Inicio(bs, i), bs[i].tam>>}
  BY <1>5, <1>6, FilaMarca
<1> HIDE DEF r
<1>8. Borrado(r, bs, v)
  BY <1>5, <1>7 DEF Borrado, u
<1> QED
  BY <1>5, <1>8 DEF r

(* What is left when the bytes of v are accounted for in its page, x,       *)
(* whether Memoria still holds that page (mem' says) or not.                *)
CuentasDe(p, v, k, e) ==
  /\ e \in Nat /\ paginas' = [paginas EXCEPT ![p][k].esp = e]
  /\ debe' \in [Pids -> Int] /\ prog' \in [Pids -> {"corre", "espera", "error", "fin"}]
  /\ \A q \in Pids : q # p => debe'[q] = debe[q] /\ prog'[q] = prog[q]
  /\ prog'[p] \in {"corre", "espera"} => debe'[p] = debe[p] - v.tam
MemoriaDe(p, v, x, e) ==
  /\ Cuadros'
  /\ DOMAIN mem' \subseteq DOMAIN mem /\ DOMAIN mem \subseteq DOMAIN mem' \cup {x}
  /\ \A y \in DOMAIN mem' : y # x => mem'[y] = mem[y]
  /\ x \in DOMAIN mem' => /\ mem'[x] \in Seq(Bloques) /\ Total(mem'[x]) = Tam
                          /\ Cuadra(e, LibreDe(mem'[x]), x \in justas)
  /\ \A w \in vivos[p] : w # v /\ NumDe(w) = NumDe(v) => Sujeto(p, w)'

LEMMA InvLibera ==
  ASSUME HeapOK, IInv, ~roto, hiloM = EnSelect,
         NEW p \in Pids, prog[p] = "corre", NEW v \in vivos[p],
         NEW k \in DOMAIN paginas[p], NEW x, x = <<p, NumDe(v)>>, Numero(k) = NumDe(v),
         vivos' = [vivos EXCEPT ![p] = @ \ {v}],
         UNCHANGED <<hiloM, justas, roto>>,
         NEW e, CuentasDe(p, v, k, e), MemoriaDe(p, v, x, e)
  PROVE  IInv'
<1> USE DEF CuentasDe, MemoriaDe
<1>1. /\ Tipos /\ Atiende /\ Cuadros /\ Numeradas /\ Cuentas
      /\ Filas /\ Cuenta /\ Sujetos /\ Dentro /\ Aparte
  BY DEF IInv, Sano
<1>2. /\ paginas' \in [Pids -> Seq([num : Nat, esp : Nat])]
      /\ \A q \in Pids : DOMAIN paginas'[q] = DOMAIN paginas[q]
      /\ \A q \in Pids : \A j \in DOMAIN paginas[q] :
           /\ paginas'[q][j].num = Numero(j)
           /\ paginas'[q][j].esp = IF q = p /\ j = k THEN e ELSE paginas[q][j].esp
      /\ \A q \in Pids : \A m : Listada(q, m)' <=> Listada(q, m)
  BY <1>1, EspCambia
<1>3. \A q \in Pids : vivos'[q] = IF q = p THEN vivos[p] \ {v} ELSE vivos[q]
  BY <1>1 DEF Tipos
<1>4. Tipos'
  <2>1. vivos' \in [Pids -> SUBSET Vivas]
    BY <1>1 DEF Tipos
  <2>2. ASSUME NEW q \in Pids PROVE IsFiniteSet(vivos'[q])
    <3>1. IsFiniteSet(vivos[q]) /\ IsFiniteSet(vivos[p])
      BY <1>1 DEF Tipos
    <3>2. IsFiniteSet(vivos[p] \ {v})
      BY <3>1, FS_RemoveElement
    <3> QED
      BY <1>3, <3>1, <3>2
  <2> QED
    BY <1>1, <1>2, <2>1, <2>2 DEF Tipos
<1>5. Atiende' /\ Cuadros'
  BY DEF Atiende
<1>6. Numeradas'
  <2>1. \A y \in DOMAIN mem : y[1] \in Pids /\ Listada(y[1], y[2])
    BY <1>1 DEF Numeradas, Cuadros
  <2> QED
    BY <1>2, <2>1 DEF Numeradas
<1>7. Cuentas'
  <2> SUFFICES ASSUME NEW q \in Pids, prog'[q] \in {"corre", "espera"}
               PROVE  debe'[q] = SumaDe(vivos'[q])
    BY DEF Cuentas
  <2>1. CASE q = p
    <3>1. debe[p] = SumaDe(vivos[p]) /\ debe'[p] = debe[p] - v.tam
      BY <1>1, <2>1 DEF Cuentas
    <3>2. IsFiniteSet(vivos[p]) /\ \A w \in vivos[p] : w.tam \in Nat
      <4>1. vivos[p] \subseteq Vivas /\ IsFiniteSet(vivos[p])
        BY <1>1 DEF Tipos
      <4> QED
        BY <4>1, VivaEs
    <3>3. SumaDe(vivos[p]) = v.tam + SumaDe(vivos[p] \ {v})
      BY <3>2, SumaPasos
    <3>4. SumaDe(vivos[p] \ {v}) \in Nat
      <4>1. IsFiniteSet(vivos[p] \ {v})
        BY <3>2, FS_RemoveElement
      <4>2. \A w \in vivos[p] \ {v} : w.tam \in Nat
        BY <3>2
      <4> HIDE DEF SumaDe
      <4> QED
        BY <4>1, <4>2, SumaPasos
    <3>5. PICK a \in Nat, t \in Nat : a = SumaDe(vivos[p] \ {v}) /\ t = v.tam
      BY <3>2, <3>4
    <3>6. debe'[p] = a
      BY <3>1, <3>3, <3>5
    <3> QED
      BY <1>3, <2>1, <3>5, <3>6
  <2>2. CASE q # p
    BY <1>1, <1>3, <2>2 DEF Cuentas
  <2> QED
    BY <2>1, <2>2
<1>8. Filas'
  BY <1>1 DEF Filas
<1>9. Cuenta'
  <2> SUFFICES ASSUME NEW q \in Pids, NEW j \in DOMAIN paginas[q], NEW y, y = <<q, Numero(j)>>,
                      y \in DOMAIN mem'
               PROVE  Cuadra(paginas'[q][j].esp, LibreDe(mem'[y]), y \in justas')
    BY <1>2 DEF Cuenta
  <2>1. CASE q = p /\ j = k
    BY <1>2, <2>1
  <2>2. CASE ~(q = p /\ j = k)
    <3>1. y # x
      <4>1. CASE q # p
        BY <4>1
      <4>2. CASE q = p /\ j # k
        <5>1. j \in Nat /\ k \in Nat
          BY <1>1, <4>2, PaginasPorNumero
        <5>2. Numero(j) # Numero(k)
          BY <1>1, <4>2, <5>1, PaginasPorNumero
        <5> QED
          BY <5>2
      <4> QED
        BY <2>2, <4>1, <4>2
    <3>2. y \in DOMAIN mem /\ mem'[y] = mem[y] /\ paginas'[q][j].esp = paginas[q][j].esp
      BY <1>2, <2>2, <3>1
    <3> QED
      BY <1>1, <3>2 DEF Cuenta
  <2> QED
    BY <2>1, <2>2
<1>10. Sujetos'
  <2> SUFFICES ASSUME NEW q \in Pids, NEW w \in vivos'[q]
               PROVE  Sujeto(q, w)'
    BY DEF Sujetos
  <2>1. Sujeto(q, w) /\ w \in vivos[q] /\ (q = p => w # v)
    BY <1>1, <1>3 DEF Sujetos
  <2>2. CASE <<q, NumDe(w)>> = x
    BY <2>1, <2>2
  <2>3. CASE <<q, NumDe(w)>> # x
    <3>1. <<q, NumDe(w)>> \in DOMAIN mem' <=> <<q, NumDe(w)>> \in DOMAIN mem
      BY <2>3
    <3> QED
      BY <2>1, <2>3, <3>1 DEF Sujeto
  <2> QED
    BY <2>2, <2>3
<1>11. Dentro'
  <2> SUFFICES ASSUME NEW q \in Pids, NEW w \in vivos'[q]
               PROVE  Listada(q, NumDe(w)) /\ Cabecera <= Pos(w) /\ Pos(w) + w.tam <= Tam
    BY <1>2 DEF Dentro
  <2>1. w \in vivos[q]
    BY <1>3
  <2> QED
    BY <1>1, <2>1 DEF Dentro
<1>12. Aparte'
  BY <1>1, <1>3 DEF Aparte
<1> QED
  BY <1>4, <1>5, <1>6, <1>7, <1>8, <1>9, <1>10, <1>11, <1>12 DEF IInv, Sano

(* What P18 does, by what it finds: no such page in Memoria, or the block,  *)
(* and then a page that is given back or one that stays.                    *)
LiberarSinPagina(p, v, k, x) ==
  /\ x \notin DOMAIN mem
  /\ paginas' = [paginas EXCEPT ![p][k].esp = @ + 0 + Cabecera]
  /\ prog' = [prog EXCEPT ![p] = "error"]
  /\ debe' = [debe EXCEPT ![p] = @ - 0]
  /\ DOMAIN mem' = DOMAIN mem /\ \A y \in DOMAIN mem : mem'[y] = mem[y]
  /\ libres' = libres

LiberarDe(p, v, k, x, e) ==
  /\ x \in DOMAIN mem
  /\ e = paginas[p][k].esp + v.tam + Cabecera
  /\ paginas' = [paginas EXCEPT ![p][k].esp = e]
  /\ prog' = prog
  /\ debe' = [debe EXCEPT ![p] = @ - v.tam]

LiberarDevuelve(x, e) ==
  /\ e = Tam - Cabecera
  /\ DOMAIN mem' = DOMAIN mem \ {x} /\ \A y \in DOMAIN mem' : mem'[y] = mem[y]
  /\ libres' = libres + 1

LiberarQueda(x, e, r) ==
  /\ e # Tam - Cabecera
  /\ DOMAIN mem' = DOMAIN mem /\ mem'[x] = r /\ \A y \in DOMAIN mem : y # x => mem'[y] = mem[y]
  /\ libres' = libres

LEMMA LiberarHace ==
  ASSUME HeapOK, IInv, NEW p \in Pids, NEW v \in vivos[p], P18(p, v),
         NEW x, x = <<p, NumDe(v)>>, NEW k, k = BuscarPagina(p, NumDe(v))
  PROVE  /\ ~roto /\ hiloM = EnSelect /\ prog[p] = "corre" /\ v \in Reservas
         /\ k \in DOMAIN paginas[p] /\ Numero(k) = NumDe(v)
         /\ vivos' = [vivos EXCEPT ![p] = @ \ {v}]
         /\ UNCHANGED <<hiloM, justas, roto>>
         /\ \/ LiberarSinPagina(p, v, k, x)
            \/ \E r, e : /\ LiberarDe(p, v, k, x, e) /\ Borrado(r, mem[x], v)
                         /\ LiberarDevuelve(x, e) \/ LiberarQueda(x, e, r)
<1> DEFINE n == NumDe(v)
           off == (Direccion(v) - Cabecera) % Tam
           bs == Cabeceras(p, n)
           t == TamLeido(p, n, off)
           e == paginas[p][k].esp + t + Cabecera
           i == BloqueEn(bs, off)
           r == [bs EXCEPT ![i].libre = TRUE]
           queda == IF bs = <<>> THEN bs ELSE r
<1>1. /\ ~roto /\ hiloM = EnSelect /\ prog[p] = "corre"
      /\ vivos' = [vivos EXCEPT ![p] = @ \ {v}]
      /\ UNCHANGED <<hiloM, justas, roto>>
      /\ debe' = [debe EXCEPT ![p] = @ - t]
      /\ paginas' = [paginas EXCEPT ![p][k].esp = e]
      /\ IF bs = <<>> THEN prog' = [prog EXCEPT ![p] = "error"] ELSE prog' = prog
      /\ IF bs # <<>> /\ DevolverPagina(e)
         THEN /\ mem' = Restrict(mem, DOMAIN mem \ {x})
              /\ libres' = libres + 1
         ELSE /\ mem' = AlmacenarBytes(p, n, queda)
              /\ UNCHANGED libres
  BY DEF P18, NumDe, Forzar
<1>2. /\ Tipos /\ Numeradas /\ Filas /\ Sujeto(p, v) /\ Listada(p, n) /\ Cabecera <= Pos(v)
  BY <1>1 DEF IInv, Sano, Sujetos, Dentro
<1>3. v \in Reservas /\ n \in Nat
  <2>1. v \in Vivas
    BY <1>2 DEF Tipos
  <2>2. v \in Reservas
    BY <2>1, VivaEs
  <2> QED
    BY <2>2, DirPartes
<1>4. k \in DOMAIN paginas[p] /\ Numero(k) = NumDe(v)
  BY <1>2, <1>3, PaginasPorNumero
<1>5. bs \in Seq(Bloques) /\ (x \in DOMAIN mem <=> bs # <<>>) /\ (x \in DOMAIN mem => bs = mem[x])
  BY <1>2, FilaDePagina
<1>6. t = IF bs = <<>> THEN 0 ELSE bs[i].tam
  BY DEF TamLeido
<1> HIDE DEF bs, off, n, t, i
<1>7. CASE x \notin DOMAIN mem
  <2>1. bs = <<>> /\ t = 0
    BY <1>5, <1>6, <1>7
  <2>2. DOMAIN mem' = DOMAIN mem /\ \A y \in DOMAIN mem : mem'[y] = mem[y]
    BY <1>1, <1>7, <2>1 DEF AlmacenarBytes, n
  <2>3. LiberarSinPagina(p, v, k, x)
    BY <1>1, <1>7, <2>1, <2>2 DEF LiberarSinPagina
  <2> QED
    BY <1>1, <1>3, <1>4, <2>3
<1>8. CASE x \in DOMAIN mem
  <2>1. bs = mem[x] /\ bs # <<>> /\ t = bs[i].tam
    BY <1>5, <1>6, <1>8
  <2>2. <<Pos(v) - Cabecera, v.tam>> \in Usados(bs)
    BY <1>2, <1>8, <2>1 DEF Sujeto
  <2>3. i = BloqueEn(bs, (Direccion(v) - Cabecera) % Tam)
    BY DEF i, off
  <2>4. bs[i].tam = v.tam /\ Borrado(r, bs, v)
    BY <1>2, <1>3, <1>5, <2>2, <2>3, BorrarHace
  <2> HIDE DEF r, e
  <2>5. Borrado(r, mem[x], v)
    BY <2>1, <2>4
  <2>6. LiberarDe(p, v, k, x, e)
    BY <1>1, <1>8, <2>1, <2>4 DEF LiberarDe, e
  <2>7. CASE DevolverPagina(e)
    <3>1. e = Tam - Cabecera
      BY <2>7 DEF DevolverPagina
    <3>2. mem' = Restrict(mem, DOMAIN mem \ {x}) /\ libres' = libres + 1
      BY <1>1, <2>1, <2>7
    <3>3. LiberarDevuelve(x, e)
      BY <3>1, <3>2 DEF LiberarDevuelve, Restrict
    <3> QED
      BY <1>1, <1>3, <1>4, <2>5, <2>6, <3>3
  <2>8. CASE ~DevolverPagina(e)
    <3>1. e # Tam - Cabecera
      BY <2>8 DEF DevolverPagina
    <3>2. mem' = AlmacenarBytes(p, n, r) /\ libres' = libres
      BY <1>1, <2>1, <2>8
    <3>3. x = <<p, n>>
      BY DEF n
    <3>4. LiberarQueda(x, e, r)
      BY <1>8, <3>1, <3>2, <3>3 DEF LiberarQueda, AlmacenarBytes
    <3> QED
      BY <1>1, <1>3, <1>4, <2>5, <2>6, <3>4
  <2> QED
    BY <2>7, <2>8
<1> QED
  BY <1>7, <1>8

(* Two reservations of one page that begin at the same place are one.       *)
LEMMA MismaReserva ==
  ASSUME HeapOK, IInv, ~roto, NEW p \in Pids, NEW v \in vivos[p], NEW w \in vivos[p],
         NumDe(v) = NumDe(w),
         <<Pos(w) - Cabecera, w.tam>> = <<Pos(v) - Cabecera, v.tam>>
  PROVE  v = w
<1>1. v \in Vivas /\ w \in Vivas
  BY DEF IInv, Tipos
<1>2. v \in Reservas /\ w \in Reservas
  BY <1>1, VivaEs
<1>3. Pos(v) \in Nat /\ Pos(w) \in Nat
  BY <1>2, DirPartes
<1>4. w.tam = v.tam /\ Pos(w) = Pos(v)
  BY <1>3 DEF Cabecera
<1>5. v.ptr = w.ptr
  <2>1. v.ptr = NumDe(v) * Tam + Pos(v) - CantPag * Tam
    BY <1>2, DirPartes
  <2>2. w.ptr = NumDe(w) * Tam + Pos(w) - CantPag * Tam
    BY <1>2, DirPartes
  <2> QED
    BY <1>4, <2>1, <2>2
<1> QED
  BY <1>1, <1>4, <1>5 DEF Vivas

LEMMA InvSinPagina ==
  ASSUME HeapOK, IInv, ~roto, hiloM = EnSelect,
         NEW p \in Pids, prog[p] = "corre", NEW v \in vivos[p],
         NEW k \in DOMAIN paginas[p], NEW x, x = <<p, NumDe(v)>>, Numero(k) = NumDe(v),
         vivos' = [vivos EXCEPT ![p] = @ \ {v}],
         UNCHANGED <<hiloM, justas, roto>>,
         LiberarSinPagina(p, v, k, x)
  PROVE  IInv'
<1>1. /\ Tipos /\ Numeradas /\ Sujetos /\ Cuadros
  BY DEF IInv, Sano
<1>2. /\ x \notin DOMAIN mem
      /\ prog' = [prog EXCEPT ![p] = "error"]
      /\ DOMAIN mem' = DOMAIN mem /\ \A y \in DOMAIN mem : mem'[y] = mem[y]
      /\ libres' = libres
  BY DEF LiberarSinPagina
<1>3. paginas' = [paginas EXCEPT ![p][k].esp = paginas[p][k].esp + Cabecera]
      /\ paginas[p][k].esp + Cabecera \in Nat
  <2>1. PICK a \in Nat : a = paginas[p][k].esp
    BY <1>1, PaginasPorNumero
  <2>2. a + 0 + Cabecera = a + Cabecera /\ a + Cabecera \in Nat
    BY DEF Cabecera
  <2>3. paginas[p][k].esp + 0 + Cabecera = paginas[p][k].esp + Cabecera
    BY <2>1, <2>2
  <2>4. paginas' = [paginas EXCEPT ![p][k].esp = paginas[p][k].esp + 0 + Cabecera]
    BY DEF LiberarSinPagina
  <2> QED
    BY <2>1, <2>2, <2>3, <2>4
<1>4. debe' = debe
  <2>1. debe \in [Pids -> Int] /\ debe[p] - 0 = debe[p]
    BY <1>1 DEF Tipos
  <2> QED
    BY <2>1 DEF LiberarSinPagina
<1>5. prog \in [Pids -> {"corre", "espera", "error", "fin"}]
  BY <1>1 DEF Tipos
<1>6. /\ prog' \in [Pids -> {"corre", "espera", "error", "fin"}] /\ prog'[p] = "error"
      /\ \A q \in Pids : q # p => debe'[q] = debe[q] /\ prog'[q] = prog[q]
  BY <1>2, <1>4, <1>5
<1>7. debe' \in [Pids -> Int]
  BY <1>1, <1>4 DEF Tipos
<1>8. Cuadros'
  BY <1>1, <1>2 DEF Cuadros
<1>9. ASSUME NEW w \in vivos[p], w # v, NumDe(w) = NumDe(v) PROVE Sujeto(p, w)'
  <2>1. Sujeto(p, w)
    BY <1>1 DEF Sujetos
  <2> QED
    BY <1>2, <1>9, <2>1 DEF Sujeto
<1>10. prog'[p] \notin {"corre", "espera"}
  BY <1>6
<1>11. PICK e \in Nat : e = paginas[p][k].esp + Cabecera
  BY <1>3
<1>12. CuentasDe(p, v, k, e)
  BY <1>3, <1>6, <1>7, <1>10, <1>11 DEF CuentasDe
<1>13. MemoriaDe(p, v, x, e)
  BY <1>2, <1>8, <1>9 DEF MemoriaDe
<1> QED
  BY <1>12, <1>13, InvLibera

LEMMA InvLiberarDe ==
  ASSUME HeapOK, IInv, ~roto, hiloM = EnSelect,
         NEW p \in Pids, prog[p] = "corre", NEW v \in vivos[p],
         NEW k \in DOMAIN paginas[p], NEW x, x = <<p, NumDe(v)>>, Numero(k) = NumDe(v),
         vivos' = [vivos EXCEPT ![p] = @ \ {v}],
         UNCHANGED <<hiloM, justas, roto>>,
         NEW r, NEW e, LiberarDe(p, v, k, x, e), Borrado(r, mem[x], v),
         LiberarDevuelve(x, e) \/ LiberarQueda(x, e, r)
  PROVE  IInv'
<1> DEFINE u == <<Pos(v) - Cabecera, v.tam>>
<1>1. /\ Tipos /\ Numeradas /\ Sujetos /\ Cuadros /\ Filas /\ Cuenta
  BY DEF IInv, Sano
<1>2. /\ x \in DOMAIN mem
      /\ e = paginas[p][k].esp + v.tam + Cabecera
      /\ paginas' = [paginas EXCEPT ![p][k].esp = e]
      /\ prog' = prog
      /\ debe' = [debe EXCEPT ![p] = @ - v.tam]
  BY DEF LiberarDe
<1>3. v.tam \in Nat
  BY <1>1, VivaEs DEF Tipos
<1>4. PICK a \in Nat, t \in Nat, l \in Nat : a = paginas[p][k].esp /\ t = v.tam /\ l = LibreDe(mem[x])
  <2>1. paginas[p][k].esp \in Nat
    BY <1>1, PaginasPorNumero
  <2>2. LibreDe(mem[x]) \in Nat
    BY <1>1, <1>2, LibreAcotado DEF Filas
  <2> QED
    BY <1>3, <2>1, <2>2
<1>5. e \in Nat /\ e = a + t + 5
  BY <1>2, <1>4 DEF Cabecera
<1>6. /\ r \in Seq(Bloques) /\ Total(r) = Tam
      /\ LibreDe(r) = l + t + 5
      /\ Usados(r) = Usados(mem[x]) \ {u}
  BY <1>1, <1>2, <1>4 DEF Borrado, Filas, Cabecera
<1>7. Cuadra(e, LibreDe(r), x \in justas)
  <2>1. Cuadra(a, l, x \in justas)
    BY <1>1, <1>2, <1>4 DEF Cuenta
  <2>2. a >= l - 5 /\ (x \notin justas => a = l - 5)
    BY <2>1 DEF Cuadra, Cabecera
  <2>3. e >= l + t + 5 - 5 /\ (x \notin justas => e = l + t + 5 - 5)
    BY <1>5, <2>2
  <2> QED
    BY <1>6, <2>3 DEF Cuadra, Cabecera
<1>8. debe \in [Pids -> Int] /\ prog \in [Pids -> {"corre", "espera", "error", "fin"}]
  BY <1>1 DEF Tipos
<1>9. /\ debe' \in [Pids -> Int] /\ prog' \in [Pids -> {"corre", "espera", "error", "fin"}]
      /\ \A q \in Pids : q # p => debe'[q] = debe[q] /\ prog'[q] = prog[q]
      /\ debe'[p] = debe[p] - v.tam
  <2>1. debe[p] - v.tam \in Int
    BY <1>3, <1>8
  <2> QED
    BY <1>2, <1>8, <2>1
<1>10. ASSUME NEW w \in vivos[p], w # v, NumDe(w) = NumDe(v)
       PROVE  <<Pos(w) - Cabecera, w.tam>> \in Usados(r)
  <2>1. Sujeto(p, w)
    BY <1>1 DEF Sujetos
  <2>2. <<Pos(w) - Cabecera, w.tam>> \in Usados(mem[x])
    BY <1>2, <1>10, <2>1 DEF Sujeto
  <2>3. <<Pos(w) - Cabecera, w.tam>> # u
    BY <1>10, MismaReserva
  <2> QED
    BY <1>6, <2>2, <2>3
<1>11. CuentasDe(p, v, k, e)
  BY <1>2, <1>5, <1>9 DEF CuentasDe
<1>12. CASE LiberarQueda(x, e, r)
  <2>1. /\ DOMAIN mem' = DOMAIN mem /\ mem'[x] = r /\ \A y \in DOMAIN mem : y # x => mem'[y] = mem[y]
        /\ libres' = libres
    BY <1>12 DEF LiberarQueda
  <2>2. Cuadros'
    BY <1>1, <2>1 DEF Cuadros
  <2>3. \A w \in vivos[p] : w # v /\ NumDe(w) = NumDe(v) => Sujeto(p, w)'
    BY <1>2, <1>10, <2>1 DEF Sujeto
  <2>4. MemoriaDe(p, v, x, e)
    BY <1>6, <1>7, <2>1, <2>2, <2>3 DEF MemoriaDe
  <2> QED
    BY <1>11, <2>4, InvLibera
<1>13. CASE LiberarDevuelve(x, e)
  <2>1. /\ e = Tam - Cabecera
        /\ DOMAIN mem' = DOMAIN mem \ {x} /\ \A y \in DOMAIN mem' : mem'[y] = mem[y]
        /\ libres' = libres + 1
    BY <1>13 DEF LiberarDevuelve
  <2>2. Cuadros'
    <3>1. /\ IsFiniteSet(DOMAIN mem) /\ DOMAIN mem \subseteq Pids \X Nat
          /\ libres \in Nat /\ libres + Cardinality(DOMAIN mem) = Marcos
      BY <1>1 DEF Cuadros
    <3>2. IsFiniteSet(DOMAIN mem') /\ Cardinality(DOMAIN mem') = Cardinality(DOMAIN mem) - 1
      BY <1>2, <2>1, <3>1, FS_RemoveElement
    <3>3. Cardinality(DOMAIN mem) \in Nat
      BY <3>1, FS_CardinalityType
    <3>4. libres' \in Nat /\ libres' + Cardinality(DOMAIN mem') = Marcos
      BY <2>1, <3>1, <3>2, <3>3
    <3> QED
      BY <2>1, <3>1, <3>2, <3>4 DEF Cuadros
  <2>3. ASSUME NEW w \in vivos[p], w # v, NumDe(w) = NumDe(v) PROVE Sujeto(p, w)'
    <3>1. x \in justas
      <4> SUFFICES ASSUME x \notin justas PROVE FALSE
        OBVIOUS
      <4>1. LibreDe(r) = Total(r)
        <5>1. e = LibreDe(r) - Cabecera
          BY <1>7 DEF Cuadra
        <5>2. Tam \in Nat
          BY DEF HeapOK
        <5> QED
          BY <1>4, <1>6, <2>1, <5>1, <5>2 DEF Cabecera
      <4>2. \A i \in 1 .. Len(r) : r[i].libre
        BY <1>6, <4>1, LibreAcotado
      <4>3. <<Pos(w) - Cabecera, w.tam>> \in Usados(r)
        BY <1>10, <2>3
      <4>4. DOMAIN r = 1 .. Len(r)
        BY <1>6, FilaTipos
      <4> QED
        BY <4>2, <4>3, <4>4 DEF Usados
    <3>2. x \notin DOMAIN mem'
      BY <2>1
    <3> QED
      BY <2>3, <3>1, <3>2 DEF Sujeto
  <2>4. x \notin DOMAIN mem'
    BY <2>1
  <2>5. MemoriaDe(p, v, x, e)
    BY <2>1, <2>2, <2>3, <2>4 DEF MemoriaDe
  <2> QED
    BY <1>11, <2>5, InvLibera
<1> QED
  BY <1>12, <1>13

LEMMA InvP18 ==
  ASSUME HeapOK, IInv, NEW p \in Pids, NEW v \in vivos[p], P18(p, v)
  PROVE  IInv'
<1> DEFINE x == <<p, NumDe(v)>>
           k == BuscarPagina(p, NumDe(v))
<1>1. /\ ~roto /\ hiloM = EnSelect /\ prog[p] = "corre"
      /\ k \in DOMAIN paginas[p] /\ Numero(k) = NumDe(v)
      /\ vivos' = [vivos EXCEPT ![p] = @ \ {v}]
      /\ UNCHANGED <<hiloM, justas, roto>>
      /\ \/ LiberarSinPagina(p, v, k, x)
         \/ \E r, e : /\ LiberarDe(p, v, k, x, e) /\ Borrado(r, mem[x], v)
                      /\ LiberarDevuelve(x, e) \/ LiberarQueda(x, e, r)
  BY LiberarHace
<1> HIDE DEF x, k
<1>2. x = <<p, NumDe(v)>>
  BY DEF x
<1>3. CASE LiberarSinPagina(p, v, k, x)
  BY <1>1, <1>2, <1>3, InvSinPagina
<1>4. CASE \E r, e : /\ LiberarDe(p, v, k, x, e) /\ Borrado(r, mem[x], v)
                     /\ LiberarDevuelve(x, e) \/ LiberarQueda(x, e, r)
  <2>1. PICK r, e : /\ LiberarDe(p, v, k, x, e) /\ Borrado(r, mem[x], v)
                    /\ LiberarDevuelve(x, e) \/ LiberarQueda(x, e, r)
    BY <1>4
  <2> QED
    BY <1>1, <1>2, <2>1, InvLiberarDe
<1> QED
  BY <1>1, <1>3, <1>4

-----------------------------------------------------------------------------
(* A program ends                                                           *)

LEMMA InvTerminar ==
  ASSUME HeapOK, IInv, NEW p \in Pids, Terminar(p)
  PROVE  IInv'
<1> DEFINE Suyas == {x \in DOMAIN mem : x[1] = p}
           Otras == {x \in DOMAIN mem : x[1] # p}
<1>1. /\ ~roto /\ hiloM = EnSelect
      /\ prog' = [prog EXCEPT ![p] = "fin"]
      /\ mem' = Restrict(mem, Otras)
      /\ libres' = libres + Cardinality(Suyas)
      /\ vivos' = [vivos EXCEPT ![p] = {}]
      /\ paginas' = [paginas EXCEPT ![p] = <<>>]
      /\ debe' = [debe EXCEPT ![p] = 0]
      /\ justas' = {x \in justas : x[1] # p}
      /\ hiloM' = hiloM /\ roto' = roto
  BY DEF Terminar
<1>2. /\ Tipos /\ Atiende /\ Cuadros /\ Numeradas /\ Cuentas
      /\ Filas /\ Cuenta /\ Sujetos /\ Dentro /\ Aparte
  BY <1>1 DEF IInv, Sano
<1>3. DOMAIN mem' = Otras /\ \A x \in Otras : mem'[x] = mem[x]
  BY <1>1 DEF Restrict
<1>4. \A q \in Pids : /\ paginas'[q] = IF q = p THEN <<>> ELSE paginas[q]
                      /\ vivos'[q] = IF q = p THEN {} ELSE vivos[q]
                      /\ prog'[q] = IF q = p THEN "fin" ELSE prog[q]
                      /\ debe'[q] = IF q = p THEN 0 ELSE debe[q]
  BY <1>1, <1>2 DEF Tipos
<1>5. DOMAIN <<>> = {}
  OBVIOUS
<1>6. Tipos'
  <2> DEFINE P == Seq([num : Nat, esp : Nat])
  <2>1. <<>> \in P
    OBVIOUS
  <2>2. paginas \in [Pids -> P]
    BY <1>2 DEF Tipos
  <2> HIDE DEF P
  <2>3. paginas' \in [Pids -> P]
    BY <1>1, <2>1, <2>2
  <2>4. debe' \in [Pids -> Int]
    BY <1>1, <1>2 DEF Tipos
  <2>5. prog' \in [Pids -> {"corre", "espera", "error", "fin"}]
    BY <1>1, <1>2 DEF Tipos
  <2>6. vivos' \in [Pids -> SUBSET Vivas]
    BY <1>1, <1>2 DEF Tipos
  <2>7. \A q \in Pids : IsFiniteSet(vivos'[q])
    BY <1>2, <1>4, FS_EmptySet DEF Tipos
  <2>8. roto' \in BOOLEAN
    BY <1>1, <1>2 DEF Tipos
  <2> QED
    BY <2>3, <2>4, <2>5, <2>6, <2>7, <2>8 DEF Tipos, P
<1>7. Atiende'
  BY <1>1 DEF Atiende
<1>8. Cuadros'
  <2>1. /\ IsFiniteSet(DOMAIN mem) /\ DOMAIN mem \subseteq Pids \X Nat
        /\ libres \in Nat /\ libres + Cardinality(DOMAIN mem) = Marcos
    BY <1>2 DEF Cuadros
  <2>2. /\ DOMAIN mem \ Suyas = Otras /\ DOMAIN mem \cap Suyas = Suyas
        /\ Suyas \in SUBSET DOMAIN mem
    OBVIOUS
  <2>3. IsFiniteSet(Otras) /\ Cardinality(Otras) = Cardinality(DOMAIN mem) - Cardinality(Suyas)
    BY <2>1, <2>2, FS_Difference
  <2>4. IsFiniteSet(Suyas)
    BY <2>1, <2>2, FS_Subset
  <2>5. Cardinality(DOMAIN mem) \in Nat /\ Cardinality(Suyas) \in Nat
    BY <2>1, <2>4, FS_CardinalityType
  <2> HIDE DEF Suyas
  <2>6. libres' \in Nat /\ libres' + Cardinality(Otras) = Marcos
    BY <1>1, <2>1, <2>3, <2>5
  <2> QED
    BY <1>3, <2>1, <2>3, <2>6 DEF Cuadros
<1>9. Numeradas'
  <2>1. \A q \in Pids : \A k \in DOMAIN paginas'[q] : paginas'[q][k].num = Numero(k)
    BY <1>2, <1>4, <1>5 DEF Numeradas
  <2>2. ASSUME NEW x \in Otras PROVE Listada(x[1], x[2])'
    <3>1. x[1] \in Pids /\ x[1] # p /\ Listada(x[1], x[2])
      BY <1>2 DEF Numeradas, Cuadros
    <3>2. paginas'[x[1]] = paginas[x[1]]
      BY <1>4, <3>1
    <3> QED
      BY <3>1, <3>2 DEF Listada
  <2> QED
    BY <1>3, <2>1, <2>2 DEF Numeradas
<1>10. Cuentas'
  BY <1>2, <1>4 DEF Cuentas
<1>11. Filas'
  BY <1>2, <1>3 DEF Filas
<1>12. Cuenta'
  <2> SUFFICES ASSUME NEW q \in Pids, NEW k \in DOMAIN paginas'[q], NEW y, y = <<q, Numero(k)>>,
                      y \in DOMAIN mem'
               PROVE  Cuadra(paginas'[q][k].esp, LibreDe(mem'[y]), y \in justas')
    BY DEF Cuenta
  <2>1. q # p
    BY <1>4, <1>5
  <2>2. /\ k \in DOMAIN paginas[q] /\ paginas'[q] = paginas[q]
        /\ y \in DOMAIN mem /\ mem'[y] = mem[y] /\ (y \in justas' <=> y \in justas)
    BY <1>1, <1>3, <1>4, <2>1
  <2> QED
    BY <1>2, <2>2 DEF Cuenta
<1>13. ASSUME NEW q \in Pids, NEW v \in vivos'[q] PROVE q # p /\ v \in vivos[q]
  BY <1>4, <1>13
<1>14. Sujetos'
  <2> SUFFICES ASSUME NEW q \in Pids, NEW v \in vivos'[q]
               PROVE  Sujeto(q, v)'
    BY DEF Sujetos
  <2>1. q # p /\ Sujeto(q, v)
    BY <1>2, <1>13 DEF Sujetos
  <2> DEFINE y == <<q, NumDe(v)>>
  <2>2. y[1] = q
    OBVIOUS
  <2>3. (y \in DOMAIN mem' <=> y \in DOMAIN mem) /\ (y \in justas' <=> y \in justas)
    BY <1>1, <1>3, <2>1, <2>2
  <2>4. y \in DOMAIN mem => mem'[y] = mem[y]
    BY <1>3, <2>3
  <2> QED
    BY <2>1, <2>3, <2>4 DEF Sujeto
<1>15. Dentro'
  <2> SUFFICES ASSUME NEW q \in Pids, NEW v \in vivos'[q]
               PROVE  Listada(q, NumDe(v))' /\ Cabecera <= Pos(v) /\ Pos(v) + v.tam <= Tam
    BY DEF Dentro
  <2>1. q # p /\ Listada(q, NumDe(v)) /\ Cabecera <= Pos(v) /\ Pos(v) + v.tam <= Tam
    BY <1>2, <1>13 DEF Dentro
  <2>2. paginas'[q] = paginas[q]
    BY <1>4, <2>1
  <2> QED
    BY <2>1, <2>2 DEF Listada
<1>16. Aparte'
  BY <1>2, <1>13 DEF Aparte
<1> QED
  BY <1>6, <1>7, <1>8, <1>9, <1>10, <1>11, <1>12, <1>14, <1>15, <1>16 DEF IInv, Sano

-----------------------------------------------------------------------------
(* The invariant holds of every behaviour                                   *)

LEMMA InvNext ==
  ASSUME HeapOK, IInv, [Next]_vars
  PROVE  IInv'
<1>1. ASSUME NEW p \in Pids, NEW tam \in Tamanos, P17(p, tam) PROVE IInv'
  BY <1>1, InvP17
<1>2. ASSUME NEW p \in Pids, NEW v \in vivos[p], P18(p, v) PROVE IInv'
  BY <1>2, InvP18
<1>3. ASSUME NEW p \in Pids, Terminar(p) PROVE IInv'
  BY <1>3, InvTerminar
<1>4. CASE HiloM
  <2>1. CASE SiguientePagina
    BY <2>1, InvSiguientePagina
  <2>2. CASE BuscarBloque
    BY <2>2, InvBuscarBloque
  <2>3. CASE PedirPagina
    BY <2>3, InvConCuadro, InvSinCuadro
  <2> QED
    BY <1>4, <2>1, <2>2, <2>3 DEF HiloM
<1>5. CASE LeerFueraDePagina
  BY <1>5, InvLeerFuera
<1>6. CASE UNCHANGED vars
  BY <1>6, InvStutter
<1> QED
  BY <1>1, <1>2, <1>3, <1>4, <1>5, <1>6 DEF Next

(* Whatever the programs ask for and free, and in whatever order hiloM and  *)
(* Memoria go from page to page, the rows of blocks, the counts of the      *)
(* Kernel and the addresses of the programs agree.                          *)
THEOREM Invariante == Spec => []IInv
<1> USE HeapOK
<1>1. Init => IInv
  BY InvInit
<1>2. IInv /\ [Next]_vars => IInv'
  BY InvNext
<1> QED
  BY <1>1, <1>2, PTL DEF Spec

-----------------------------------------------------------------------------
(* What follows from it                                                     *)

LEMMA IInvTypeOK ==
  ASSUME HeapOK, IInv
  PROVE  TypeOK
<1>1. /\ Tipos /\ Atiende /\ Cuadros /\ Numeradas
  BY DEF IInv
<1>2. ASSUME NEW p \in Pids
      PROVE  /\ paginas[p] \in Seq([num : Nat, esp : Nat])
             /\ prog[p] \in {"corre", "espera", "error", "fin"}
             /\ vivos[p] \subseteq [ptr : Nat, tam : Tamanos]
  BY <1>1 DEF Tipos, Vivas
<1>3. hiloM # EnSelect => hiloM.pc \in {"busca", "pide"} /\ prog[hiloM.pid] = "espera"
  BY <1>1, AtencionEs
<1>4. \A x \in DOMAIN mem : \E k \in DOMAIN paginas[x[1]] : paginas[x[1]][k].num = x[2]
  BY <1>1 DEF Numeradas, Listada
<1>5. libres \in Nat /\ libres + Cardinality(DOMAIN mem) = Marcos /\ roto \in BOOLEAN
  BY <1>1 DEF Tipos, Cuadros
<1> QED
  BY <1>2, <1>3, <1>4, <1>5 DEF TypeOK

LEMMA IInvMosaico ==
  ASSUME IInv
  PROVE  Mosaico
BY DEF IInv, Sano, Filas, Mosaico, Total

LEMMA IInvEspLibre ==
  ASSUME HeapOK, IInv
  PROVE  EspLibreExacto
<1> SUFFICES ASSUME ~roto, NEW p \in Pids, NEW k \in DOMAIN paginas[p], EnMem(p, k)
             PROVE  LET bs == mem[<<p, paginas[p][k].num>>]
                        libre == Bytes([i \in DOMAIN bs |-> IF bs[i].libre THEN bs[i].tam + Cabecera ELSE 0])
                                 - Cabecera
                    IN  /\ paginas[p][k].esp >= libre
                        /\ <<p, paginas[p][k].num>> \notin justas => paginas[p][k].esp = libre
  BY DEF EspLibreExacto
<1> DEFINE x == <<p, Numero(k)>>
<1>1. Numeradas /\ Cuenta
  BY DEF IInv, Sano
<1>2. paginas[p][k].num = Numero(k)
  BY <1>1 DEF Numeradas
<1>3. x \in DOMAIN mem
  BY <1>2 DEF EnMem
<1>4. Cuadra(paginas[p][k].esp, LibreDe(mem[x]), x \in justas)
  BY <1>1, <1>3 DEF Cuenta
<1>5. \A bs : LibreDe(bs) = Bytes([i \in DOMAIN bs |-> IF bs[i].libre THEN bs[i].tam + Cabecera ELSE 0])
  BY DEF LibreDe, AnchosLibres, AnchoLibre
<1> QED
  BY <1>2, <1>4, <1>5 DEF Cuadra

LEMMA IInvPunteros ==
  ASSUME HeapOK, IInv
  PROVE  PunterosEnUso
<1> SUFFICES ASSUME ~roto, NEW p \in Pids, NEW v \in vivos[p]
             PROVE  IF <<p, NumDe(v)>> \in DOMAIN mem
                    THEN LET bs == mem[<<p, NumDe(v)>>]
                         IN  \E i \in DOMAIN bs : /\ Inicio(bs, i) + Cabecera = Pos(v)
                                                  /\ ~bs[i].libre /\ bs[i].tam = v.tam
                    ELSE <<p, NumDe(v)>> \in justas
  BY DEF PunterosEnUso
<1> DEFINE x == <<p, NumDe(v)>>
           bs == mem[x]
<1>1. Tipos /\ Filas /\ Sujeto(p, v)
  BY DEF IInv, Sano, Sujetos
<1>2. CASE x \in DOMAIN mem
  <2>1. bs \in Seq(Bloques)
    BY <1>1, <1>2 DEF Filas
  <2>2. <<Pos(v) - Cabecera, v.tam>> \in Usados(bs)
    BY <1>1, <1>2 DEF Sujeto
  <2> HIDE DEF bs
  <2>3. PICK i \in DOMAIN bs : ~bs[i].libre /\ <<Pos(v) - Cabecera, v.tam>> = <<Inicio(bs, i), bs[i].tam>>
    BY <2>2 DEF Usados
  <2>4. Pos(v) \in Nat
    BY <1>1, VivaEs, DirPartes DEF Tipos
  <2>5. Pos(v) - Cabecera = Inicio(bs, i) /\ bs[i].tam = v.tam
    BY <2>3
  <2>6. Inicio(bs, i) + Cabecera = Pos(v)
    BY <2>4, <2>5 DEF Cabecera
  <2> QED
    BY <1>2, <2>3, <2>5, <2>6 DEF bs
<1>3. CASE x \notin DOMAIN mem
  BY <1>1, <1>3 DEF Sujeto
<1> QED
  BY <1>2, <1>3

LEMMA IInvFugas ==
  ASSUME IInv
  PROVE  CuentaFugas
BY DEF IInv, Cuentas, CuentaFugas, SumaDe

(* A row with no free block, and one with no more than one.                 *)
LEMMA SinLibres ==
  ASSUME NEW bs \in Seq(Bloques), \A i \in 1 .. Len(bs) : ~bs[i].libre
  PROVE  LibreDe(bs) = 0
<1> DEFINE n == Len(bs)
           z == [k \in 0 .. n |-> 0]
<1>1. PICK f, g : /\ Sumas(bs, f, g) /\ LibreDe(bs) = g[n]
  BY FilaSumas
<1>2. n \in Nat /\ \A k \in 1 .. n : AnchosLibres(bs)[k] = 0
  BY FilaTipos
<1>3. Acumula(g, n, AnchosLibres(bs))
  BY <1>1 DEF Sumas
<1> HIDE DEF n
<1>4. Acumula(z, n, AnchosLibres(bs))
  BY <1>2 DEF Acumula
<1>5. g = z
  BY <1>2, <1>3, <1>4, AcumulaUnica
<1> QED
  BY <1>1, <1>2, <1>5 DEF n

LEMMA UnLibre ==
  ASSUME NEW bs \in Seq(Bloques), NEW i \in 1 .. Len(bs), bs[i].libre,
         \A j \in 1 .. Len(bs) : bs[j].libre => j = i
  PROVE  LibreDe(bs) = bs[i].tam + Cabecera
<1> DEFINE r == [bs EXCEPT ![i].libre = FALSE]
<1>1. bs[i].libre = ~FALSE
  BY FilaTipos
<1>2. /\ r \in Seq(Bloques)
      /\ LibreDe(r) = IF FALSE THEN LibreDe(bs) + bs[i].tam + Cabecera
                               ELSE LibreDe(bs) - (bs[i].tam + Cabecera)
  BY <1>1, FilaMarca
<1>3. DOMAIN r = 1 .. Len(bs) /\ Len(r) = Len(bs) /\ \A j \in 1 .. Len(r) : ~r[j].libre
  <2>1. DOMAIN bs = 1 .. Len(bs) /\ Len(bs) \in Nat
    BY FilaTipos
  <2>2. DOMAIN r = 1 .. Len(bs)
    BY <2>1
  <2>3. Len(r) = Len(bs)
    BY <1>2, <2>1, <2>2, LenProperties
  <2>4. ASSUME NEW j \in 1 .. Len(bs) PROVE ~r[j].libre
    <3>1. CASE j = i
      <4>1. r[j] = [bs[i] EXCEPT !.libre = FALSE] /\ bs[i] \in Bloques
        BY <2>1, <3>1, FilaTipos
      <4> QED
        BY <4>1 DEF Bloques
    <3>2. CASE j # i
      <4>1. r[j] = bs[j]
        BY <2>1, <3>2
      <4> QED
        BY <3>2, <4>1
    <3> QED
      BY <3>1, <3>2
  <2> QED
    BY <2>2, <2>3, <2>4
<1> HIDE DEF r
<1>4. LibreDe(r) = 0
  BY <1>2, <1>3, SinLibres
<1>5. LibreDe(bs) \in Nat /\ bs[i].tam \in Nat
  BY LibreAcotado, FilaTipos
<1> QED
  BY <1>2, <1>4, <1>5 DEF Cabecera

LEMMA IInvGira ==
  ASSUME HeapOK, IInv
  PROVE  GiraPorque
<1> SUFFICES ASSUME ~roto, Gira, Fila # <<>>, <<hiloM.pid, Actual.num>> \notin justas,
                    ~(Cardinality(LibresDe(Compactar(Fila))) >= 2)
             PROVE  FALSE
  BY DEF GiraPorque
<1> DEFINE x == <<hiloM.pid, Actual.num>>
           c == Compactar(Fila)
<1>1. /\ hiloM.pc = "busca" /\ hiloM.n \in DOMAIN paginas[hiloM.pid]
      /\ HayEspacio /\ BloqueLibre(c, hiloM.tam) = 0
  BY DEF Gira
<1>2. /\ hiloM.pid \in Pids /\ hiloM.tam \in Nat \ {0} /\ Actual.num = Numero(hiloM.n)
      /\ Actual.esp \in Nat /\ Fila \in Seq(Bloques) /\ x \in DOMAIN mem /\ Fila = mem[x]
  BY <1>1, BuscaEs
<1>3. Cuadra(Actual.esp, LibreDe(mem[x]), x \in justas)
  <2>1. Cuenta
    BY DEF IInv, Sano
  <2>2. Cuadra(paginas[hiloM.pid][hiloM.n].esp, LibreDe(mem[<<hiloM.pid, Numero(hiloM.n)>>]),
               <<hiloM.pid, Numero(hiloM.n)>> \in justas)
    BY <1>1, <1>2, <2>1 DEF Cuenta
  <2> QED
    BY <1>2, <2>2 DEF Actual
<1>4. c \in Seq(Bloques) /\ LibreDe(c) = LibreDe(Fila)
  BY <1>2, CompactarHace DEF Compactado
<1>5. PICK l \in Nat, t \in Nat : l = LibreDe(c) /\ t = hiloM.tam /\ l >= t + 10
  <2>1. LibreDe(c) \in Nat
    BY <1>4, LibreAcotado
  <2>2. PICK l \in Nat, t \in Nat, e \in Nat : l = LibreDe(c) /\ t = hiloM.tam /\ e = Actual.esp
    BY <1>2, <2>1
  <2>3. e = l - 5
    BY <1>2, <1>3, <1>4, <2>2 DEF Cuadra, Cabecera
  <2>4. e - 5 >= t
    BY <1>1, <2>2 DEF HayEspacio, Cabecera
  <2>5. l >= t + 10
    BY <2>3, <2>4
  <2> QED
    BY <2>2, <2>5
<1>6. \A j \in 1 .. Len(c) : ~(c[j].libre /\ c[j].tam >= hiloM.tam)
  <2>1. hiloM.tam \in Nat
    BY <1>2
  <2> HIDE DEF c
  <2> QED
    BY <1>1, <1>4, <2>1, BloqueLibreHace
<1>7. LibresDe(c) \in SUBSET (1 .. Len(c)) /\ \A j \in 1 .. Len(c) : j \in LibresDe(c) <=> c[j].libre
  BY <1>4, FilaTipos DEF LibresDe
<1> HIDE DEF c
<1>8. IsFiniteSet(LibresDe(c))
  <2>1. Len(c) \in Nat
    BY <1>4, FilaTipos
  <2>2. IsFiniteSet(1 .. Len(c))
    BY <2>1, FS_Interval
  <2> QED
    BY <1>7, <2>2, FS_Subset
<1>9. PICK i \in 1 .. Len(c) : c[i].libre
  <2> SUFFICES ASSUME \A j \in 1 .. Len(c) : ~c[j].libre PROVE FALSE
    OBVIOUS
  <2>1. LibreDe(c) = 0
    BY <1>4, SinLibres
  <2> QED
    BY <1>5, <2>1
<1>10. ASSUME NEW j \in 1 .. Len(c), c[j].libre, j # i PROVE FALSE
  <2>1. {i, j} \in SUBSET LibresDe(c)
    BY <1>7, <1>9, <1>10
  <2>2. Cardinality({i, j}) = 2
    <3>1. IsFiniteSet({i}) /\ Cardinality({i}) = 1
      BY FS_Singleton
    <3> DEFINE T == {i} \cup {j}
    <3>2. Cardinality(T) = Cardinality({i}) + 1
      BY <1>10, <3>1, FS_AddElement
    <3>3. T = {i, j}
      OBVIOUS
    <3> HIDE DEF T
    <3>4. Cardinality(T) = 2
      BY <3>1, <3>2
    <3> QED
      BY <3>3, <3>4
  <2>3. 2 <= Cardinality(LibresDe(c))
    BY <1>8, <2>1, <2>2, FS_Subset
  <2>4. Cardinality(LibresDe(c)) \in Nat
    BY <1>8, FS_CardinalityType
  <2> QED
    BY <2>3, <2>4 DEF c
<1>11. LibreDe(c) = c[i].tam + Cabecera
  BY <1>4, <1>9, <1>10, UnLibre
<1>12. PICK s \in Nat : s = c[i].tam
  BY <1>4, FilaTipos
<1>13. l = s + 5 /\ ~(s >= t)
  BY <1>5, <1>6, <1>9, <1>11, <1>12 DEF Cabecera
<1> QED
  BY <1>5, <1>13

(* TypeOK of Heap, for every size of page and number of frames: every page  *)
(* of heap that Memoria holds is one memoria_dinamica lists, and the frames *)
(* in use and the free ones are always all there are, whatever pages K24    *)
(* and K25 give back.                                                       *)
THEOREM TypeCorrect == Spec => []TypeOK
<1>1. IInv => TypeOK
  BY HeapOK, IInvTypeOK
<1> QED
  BY <1>1, Invariante, PTL

(* Mosaico: however ubicar_bloque and compactar_contiguos rewrite headers   *)
(* in place, the blocks of a page fill it exactly, for as long as no split  *)
(* leaves less than a header.                                               *)
THEOREM PaginasLlenas == Spec => []Mosaico
<1>1. IInv => Mosaico
  BY IInvMosaico
<1> QED
  BY <1>1, Invariante, PTL

(* EspLibreExacto: the count of the Kernel is that of the headers, all but  *)
(* one, except where a block was given whole; there it is never too low.    *)
THEOREM EspLibreCuadra == Spec => []EspLibreExacto
<1>1. IInv => EspLibreExacto
  BY HeapOK, IInvEspLibre
<1> QED
  BY <1>1, Invariante, PTL

(* PunterosEnUso: what a program holds is a used block of its size, or its  *)
(* page was given back after esp_libre went wrong.                          *)
THEOREM PunterosValidos == Spec => []PunterosEnUso
<1>1. IInv => PunterosEnUso
  BY HeapOK, IInvPunteros
<1> QED
  BY <1>1, Invariante, PTL

(* CuentaFugas: the bytes the Kernel says a program did not free are those  *)
(* of what it held, also through the requests that rob or ruin a page.      *)
THEOREM FugasExactas == Spec => []CuentaFugas
<1>1. IInv => CuentaFugas
  BY IInvFugas
<1> QED
  BY <1>1, Invariante, PTL

(* GiraPorque: a search stays on a page only because Memoria does not hold  *)
(* it, or a block of it was given whole, or its free bytes are in two       *)
(* pieces that compactar_contiguos cannot join.                             *)
THEOREM GiraSoloPorEso == Spec => []GiraPorque
<1>1. IInv => GiraPorque
  BY HeapOK, IInvGira
<1> QED
  BY <1>1, Invariante, PTL

-----------------------------------------------------------------------------
(* What a program is promised                                               *)

Tomados == [p \in Pids |-> {Rango(v) : v \in vivos[p]}]

LEMMA RangosDe ==
  ASSUME HeapOK, NEW v \in Vivas, NEW w \in Vivas
  PROVE  /\ Rango(v) \in Abstracta!Rangos
         /\ Rango(v) = Rango(w) => v = w
         /\ Separadas(v, w) => Abstracta!Disjuntos(Rango(v), Rango(w))
<1>1. v.ptr \in Nat /\ v.tam \in Nat \ {0} /\ w.ptr \in Nat /\ w.tam \in Nat \ {0}
  BY VivaEs
<1>2. Rango(v) = [desde |-> v.ptr, tam |-> v.tam] /\ Rango(w) = [desde |-> w.ptr, tam |-> w.tam]
  BY DEF Rango
<1>3. Rango(v) \in Abstracta!Rangos
  BY <1>1, <1>2 DEF Abstracta!Rangos
<1>4. ASSUME Rango(v) = Rango(w) PROVE v = w
  <2>1. v.ptr = w.ptr /\ v.tam = w.tam
    BY <1>2, <1>4
  <2> QED
    BY <2>1 DEF Vivas
<1>5. Separadas(v, w) => Abstracta!Disjuntos(Rango(v), Rango(w))
  BY <1>2 DEF Separadas, Abstracta!Disjuntos
<1> QED
  BY <1>3, <1>4, <1>5

(* Every change of what the programs hold is one the abstract specification *)
(* allows.                                                                  *)
LEMMA TomadosDe ==
  ASSUME HeapOK, Tipos, NEW p \in Pids, NEW S, vivos' = [vivos EXCEPT ![p] = S],
         NEW R, R = {Rango(v) : v \in S}
  PROVE  Tomados' = [Tomados EXCEPT ![p] = R]
BY DEF Tomados, Tipos

LEMMA PasoUbicar ==
  ASSUME HeapOK, IInv, BuscarBloque
  PROVE  [Abstracta!Next]_Tomados
<1>1. /\ ~roto /\ hiloM.pc = "busca" /\ hiloM.n \in DOMAIN paginas[hiloM.pid] /\ HayEspacio
      /\ \/ \E bs, i : Elige(bs, i) /\ Ubicar(bs, i)
         \/ vivos' = vivos
  BY BuscarHace
<1>2. CASE vivos' = vivos
  BY <1>2 DEF Tomados
<1>3. CASE \E bs, i : Elige(bs, i) /\ Ubicar(bs, i)
  <2>1. PICK bs, i : Elige(bs, i) /\ Ubicar(bs, i)
    BY <1>3
  <2>2. PICK p \in Pids : p = hiloM.pid
    BY <1>1, BuscaEs
  <2> DEFINE v == [ptr |-> (Actual.num * Tam + Inicio(bs, i) + Cabecera) - CantPag * Tam, tam |-> hiloM.tam]
  <2>3. v \in Vivas /\ \A w \in vivos[p] : w # v /\ Separadas(v, w)
    BY <1>1, <2>1, <2>2, UbicarHace DEF Elige
  <2>4. vivos' = [vivos EXCEPT ![p] = @ \cup {v}]
    BY <2>1, <2>2 DEF Ubicar, Responder
  <2> HIDE DEF v
  <2> DEFINE r == Rango(v)
             R == {Rango(w) : w \in vivos[p] \cup {v}}
  <2>5. Tipos /\ vivos[p] \subseteq Vivas
    BY DEF IInv, Tipos
  <2>6. Tomados' = [Tomados EXCEPT ![p] = R]
    BY <2>4, <2>5, TomadosDe
  <2>7. Tomados[p] = {Rango(w) : w \in vivos[p]} /\ Tomados \in [Pids -> {Tomados[q] : q \in Pids}]
    BY DEF Tomados
  <2>8. R = Tomados[p] \cup {r} /\ Tomados'[p] = R
    BY <2>6, <2>7
  <2>9. r \in Abstracta!Rangos /\ r \notin Tomados[p]
    BY <2>3, <2>5, <2>7, RangosDe
  <2>10. \A otro \in Tomados[p] : Abstracta!Disjuntos(r, otro)
    BY <2>3, <2>5, <2>7, RangosDe
  <2> HIDE DEF r, R, Tomados
  <2>11. Abstracta!Reservar(p)
    BY <2>6, <2>8, <2>9, <2>10 DEF Abstracta!Reservar, Tomados
  <2> QED
    BY <2>11 DEF Abstracta!Next
<1> QED
  BY <1>1, <1>2, <1>3

LEMMA PasoLiberar ==
  ASSUME HeapOK, IInv, NEW p \in Pids, NEW v \in vivos[p], P18(p, v)
  PROVE  Abstracta!Liberar(p)
<1> DEFINE r == Rango(v)
           R == {Rango(w) : w \in vivos[p] \ {v}}
<1>1. Tipos /\ vivos[p] \subseteq Vivas
  BY DEF IInv, Tipos
<1>2. vivos' = [vivos EXCEPT ![p] = @ \ {v}]
  BY DEF P18
<1>3. Tomados' = [Tomados EXCEPT ![p] = R]
  BY <1>1, <1>2, TomadosDe
<1>4. Tomados[p] = {Rango(w) : w \in vivos[p]}
  BY DEF Tomados
<1>5. R = Tomados[p] \ {r} /\ r \in Tomados[p]
  BY <1>1, <1>4, RangosDe
<1> HIDE DEF r, R, Tomados
<1>6. Tomados' = [Tomados EXCEPT ![p] = @ \ {r}]
  BY <1>3, <1>5
<1> QED
  BY <1>5, <1>6 DEF Abstracta!Liberar, Tomados

LEMMA PasoTerminar ==
  ASSUME HeapOK, IInv, NEW p \in Pids, Terminar(p)
  PROVE  Abstracta!Terminar(p)
<1>1. Tipos
  BY DEF IInv
<1>2. vivos' = [vivos EXCEPT ![p] = {}]
  BY DEF Terminar
<1>3. {} = {Rango(v) : v \in {}}
  OBVIOUS
<1>4. Tomados' = [Tomados EXCEPT ![p] = {}]
  BY <1>1, <1>2, <1>3, TomadosDe
<1> QED
  BY <1>4 DEF Abstracta!Terminar, Tomados

LEMMA PasoAbstracto ==
  ASSUME HeapOK, IInv, [Next]_vars
  PROVE  [Abstracta!Next]_Tomados
<1>1. ASSUME vivos' = vivos PROVE Tomados' = Tomados
  BY <1>1 DEF Tomados
<1>2. ASSUME NEW p \in Pids, NEW tam \in Tamanos, P17(p, tam) PROVE vivos' = vivos
  BY <1>2 DEF P17
<1>3. ASSUME NEW p \in Pids, NEW v \in vivos[p], P18(p, v) PROVE Abstracta!Next
  BY <1>3, PasoLiberar DEF Abstracta!Next
<1>4. ASSUME NEW p \in Pids, Terminar(p) PROVE Abstracta!Next
  BY <1>4, PasoTerminar DEF Abstracta!Next
<1>5. CASE SiguientePagina \/ PedirPagina \/ LeerFueraDePagina \/ UNCHANGED vars
  BY <1>1, <1>5 DEF SiguientePagina, PedirPagina, LeerFueraDePagina, vars
<1>6. CASE BuscarBloque
  BY <1>6, PasoUbicar
<1> QED
  BY <1>1, <1>2, <1>3, <1>4, <1>5, <1>6 DEF Next, HiloM

(* ImplementaReserva for any heap: whatever the order of requests, splits,  *)
(* frees, compactions and pages given back, also of a page whose count is   *)
(* wrong, no reservation of a program touches or moves another, up to and   *)
(* including the one whose header falls on another block.                   *)
THEOREM ImplementaLaReserva == Spec => ImplementaReserva
<1>1. Init => Abstracta!Init
  BY DEF Init, Abstracta!Init
<1>2. IInv /\ [Next]_vars => [Abstracta!Next]_Tomados
  BY HeapOK, PasoAbstracto
<1>3. IInv /\ [Next]_vars => [Abstracta!Next]_[p \in Pids |-> {Rango(v) : v \in vivos[p]}]
  BY <1>2 DEF Tomados
<1> QED
  BY <1>1, <1>3, Invariante, PTL DEF Spec, ImplementaReserva, Abstracta!Spec
=============================================================================
