----------------------------- MODULE PilaProofs -----------------------------
(***************************************************************************)
(* Proofs about the programs on their CPUs, for any programs, size of page *)
(* and of cache, number of programs and order of their steps: a PCB        *)
(* survives both journeys, the variables of a program are apart, the cache *)
(* of Memoria is well formed and has its shares, and what a program reads  *)
(* is what it stored.                                                      *)
(***************************************************************************)
EXTENDS Pila, Lemas

-----------------------------------------------------------------------------
(* What a message has at a position *)

Esta(s, d, x) == \A k \in 1 .. Len(x) : s[d + k - 1] = x[k]

LEMMA EstaPartes ==
  ASSUME NEW S, NEW a \in Seq(S), NEW b \in Seq(S), NEW s, NEW d \in Int, Esta(s, d, a \o b)
  PROVE  Esta(s, d, a) /\ Esta(s, d + Len(a), b)
<1>1. /\ Len(a) \in Nat /\ Len(b) \in Nat /\ Len(a \o b) = Len(a) + Len(b)
      /\ \A i \in 1 .. Len(a) + Len(b) :
           (a \o b)[i] = IF i <= Len(a) THEN a[i] ELSE b[i - Len(a)]
  BY ConcatProperties, LenProperties
<1>2. \A i \in 1 .. Len(a) + Len(b) : s[d + i - 1] = (a \o b)[i]
  BY <1>1 DEF Esta
<1>3. Esta(s, d, a)
  <2> SUFFICES ASSUME NEW k \in 1 .. Len(a) PROVE s[d + k - 1] = a[k]
    BY DEF Esta
  <2>1. k \in 1 .. Len(a) + Len(b) /\ k <= Len(a)
    BY <1>1
  <2> QED
    BY <1>1, <1>2, <2>1
<1>4. Esta(s, d + Len(a), b)
  <2> SUFFICES ASSUME NEW k \in 1 .. Len(b) PROVE s[d + Len(a) + k - 1] = b[k]
    BY DEF Esta
  <2> DEFINE i == Len(a) + k
  <2>1. i \in 1 .. Len(a) + Len(b) /\ ~(i <= Len(a)) /\ i - Len(a) = k
        /\ d + i - 1 = d + Len(a) + k - 1
    BY <1>1
  <2>2. s[d + i - 1] = b[i - Len(a)]
    BY <1>1, <1>2, <2>1
  <2> QED
    BY <2>1, <2>2
<1> QED
  BY <1>3, <1>4

LEMMA EstaUno ==
  ASSUME NEW s, NEW d \in Int, NEW x, Esta(s, d, <<x>>)
  PROVE  s[d] = x
<1>1. Len(<<x>>) = 1 /\ <<x>>[1] = x /\ d + 1 - 1 = d
  OBVIOUS
<1> QED
  BY <1>1 DEF Esta

(* The pieces of a sequence of sequences put one after another *)
Cortes(g, xs) ==
  /\ g \in [0 .. Len(xs) -> Nat] /\ g[0] = 0
  /\ \A k \in 1 .. Len(xs) : g[k] = g[k - 1] + Len(xs[k])

LEMMA AplanarEs ==
  ASSUME NEW S, NEW xs \in Seq(Seq(S))
  PROVE  \E f \in [0 .. Len(xs) -> Seq(S)] :
           /\ f[0] = <<>> /\ \A k \in 1 .. Len(xs) : f[k] = f[k - 1] \o xs[k]
           /\ FlattenSeq(xs) = f[Len(xs)]
<1> DEFINE n == Len(xs)
           T == Seq(S)
           vacia == <<>>
           Junta(r, x) == r \o x
           paso == [z \in Nat \X Seq(S) |-> IF z[1] \in 1 .. n THEN Junta(z[2], xs[z[1]]) ELSE z[2]]
<1>1. n \in Nat /\ \A k \in 1 .. n : xs[k] \in Seq(S)
  BY LenProperties
<1>2. paso \in [Nat \X Seq(S) -> Seq(S)]
  <2> SUFFICES ASSUME NEW z \in Nat \X Seq(S)
               PROVE  (IF z[1] \in 1 .. n THEN Junta(z[2], xs[z[1]]) ELSE z[2]) \in Seq(S)
    OBVIOUS
  <2>1. z[1] \in Nat /\ z[2] \in Seq(S)
    OBVIOUS
  <2>2. CASE z[1] \in 1 .. n
    <3>1. xs[z[1]] \in Seq(S)
      BY <1>1, <2>2
    <3> QED
      BY <2>1, <2>2, <3>1, ConcatProperties
  <2>3. CASE z[1] \notin 1 .. n
    BY <2>1, <2>3
  <2> QED
    BY <2>2, <2>3
<1>3. \A k \in 1 .. n : \A r \in Seq(S) : paso[<<k, r>>] = r \o xs[k]
  <2> SUFFICES ASSUME NEW k \in 1 .. n, NEW r \in Seq(S) PROVE paso[<<k, r>>] = r \o xs[k]
    OBVIOUS
  <2>1. <<k, r>> \in Nat \X Seq(S)
    OBVIOUS
  <2> QED
    BY <2>1
<1>4. vacia \in T /\ paso \in [Nat \X T -> T]
  BY <1>2, EmptySeq
<1> HIDE DEF paso, T, vacia
<1>5. PICK f : Recorre(f, n, T, vacia, paso)
  BY <1>1, <1>4, RecursionExiste
<1>6. f \in [0 .. n -> Seq(S)] /\ f[0] = <<>>
  BY <1>5 DEF Recorre, T, vacia
<1>7. \A k \in 1 .. n : f[k] = f[k - 1] \o xs[k]
  <2> SUFFICES ASSUME NEW k \in 1 .. n PROVE f[k] = f[k - 1] \o xs[k]
    OBVIOUS
  <2> HIDE DEF n
  <2>1. k - 1 \in 0 .. n
    BY <1>1
  <2>3. f[k - 1] \in Seq(S)
    BY <1>6, <2>1
  <2>2. f[k] = paso[<<k, f[k - 1]>>]
    BY <1>5 DEF Recorre
  <2> QED
    BY <1>3, <2>2, <2>3
<1>8. FlattenSeq(xs) = f[n]
  <2>1. CASE n = 0
    <3>1. xs = <<>>
      BY <2>1, EmptySeq
    <3> QED
      BY <1>6, <2>1, <3>1 DEF FlattenSeq
  <2>2. CASE n # 0
    <3> DEFINE Es(v) == v = [i \in 1 .. Len(xs) |-> IF i = 1 THEN xs[i] ELSE v[i - 1] \o xs[i]]
               u == CHOOSE v : Es(v)
               w == [i \in 1 .. n |-> f[i]]
    <3>1. \A i \in 1 .. n : w[i] = IF i = 1 THEN xs[i] ELSE w[i - 1] \o xs[i]
      <4> SUFFICES ASSUME NEW i \in 1 .. n PROVE w[i] = IF i = 1 THEN xs[i] ELSE w[i - 1] \o xs[i]
        OBVIOUS
      <4>1. f[i] = f[i - 1] \o xs[i] /\ xs[i] \in Seq(S)
        BY <1>1, <1>7
      <4>2. CASE i = 1
        <5>1. f[i] = <<>> \o xs[i]
          <6>1. i - 1 = 0
            BY <4>2
          <6>2. f[i - 1] = <<>>
            BY <1>6, <6>1
          <6> HIDE DEF w
          <6> QED
            BY <4>1, <6>2
        <5>2. f[i] = xs[i] /\ w[i] = f[i]
          BY <4>1, <5>1, ConcatEmptySeq
        <5> QED
          BY <4>2, <5>2
      <4>3. CASE i # 1
        <5>1. i - 1 \in 1 .. n
          BY <1>1, <4>3
        <5> QED
          BY <4>1, <4>3, <5>1
      <4> QED
        BY <4>2, <4>3
    <3>2. Es(w)
      BY <3>1
    <3> HIDE DEF w
    <3>3. Es(u)
      BY <3>2
    <3>4. FlattenSeq(xs) = u[n]
      BY <1>1, <2>2 DEF FlattenSeq
    <3> HIDE DEF u
    <3> DEFINE Iguales == {k \in Nat : k \in 1 .. n => u[k] = f[k]}
    <3>5. 0 \in Iguales
      OBVIOUS
    <3>6. ASSUME NEW k \in Nat, k \in Iguales PROVE k + 1 \in Iguales
      <4> SUFFICES ASSUME NEW j \in 1 .. n, j = k + 1 PROVE u[j] = f[j]
        OBVIOUS
      <4>1. u[j] = IF j = 1 THEN xs[j] ELSE u[j - 1] \o xs[j]
        BY <3>3
      <4>2. f[j] = f[j - 1] \o xs[j] /\ xs[j] \in Seq(S)
        BY <1>1, <1>7
      <4>3. CASE k = 0
        <5>1. j = 1 /\ j - 1 = 0
          BY <4>3
        <5>2. f[j] = <<>> \o xs[j]
          BY <1>6, <4>2, <5>1
        <5> QED
          BY <4>1, <4>2, <5>1, <5>2, ConcatEmptySeq
      <4>4. CASE k # 0
        <5>1. k \in 1 .. n /\ j # 1 /\ j - 1 = k
          BY <4>4, <1>1
        <5>2. u[k] = f[k]
          BY <3>6, <5>1
        <5> QED
          BY <4>1, <4>2, <5>1, <5>2
      <4> QED
        BY <4>3, <4>4
    <3> HIDE DEF Iguales
    <3>7. n \in Iguales
      BY <1>1, <3>5, <3>6, Induccion
    <3> QED
      BY <1>1, <2>2, <3>4, <3>7 DEF Iguales
  <2> QED
    BY <2>1, <2>2
<1> QED
  BY <1>6, <1>7, <1>8

LEMMA AplanarEsta ==
  ASSUME NEW S, NEW xs \in Seq(Seq(S))
  PROVE  /\ FlattenSeq(xs) \in Seq(S)
         /\ \E g : /\ Cortes(g, xs) /\ Len(FlattenSeq(xs)) = g[Len(xs)]
                   /\ \A s : \A d \in Int : Esta(s, d, FlattenSeq(xs)) =>
                        \A k \in 1 .. Len(xs) : Esta(s, d + g[k - 1], xs[k])
<1> DEFINE n == Len(xs)
<1>1. n \in Nat /\ \A k \in 1 .. n : xs[k] \in Seq(S)
  BY LenProperties
<1>2. PICK f \in [0 .. n -> Seq(S)] :
           /\ f[0] = <<>> /\ \A k \in 1 .. n : f[k] = f[k - 1] \o xs[k]
           /\ FlattenSeq(xs) = f[n]
  BY AplanarEs
<1> DEFINE g == [k \in 0 .. n |-> Len(f[k])]
<1>3. ASSUME NEW k \in 1 .. n
      PROVE  /\ k - 1 \in 0 .. n /\ f[k - 1] \in Seq(S) /\ xs[k] \in Seq(S)
             /\ f[k] = f[k - 1] \o xs[k] /\ g[k - 1] = Len(f[k - 1]) /\ g[k] = Len(f[k])
             /\ Len(f[k]) = Len(f[k - 1]) + Len(xs[k])
  <2>1. k - 1 \in 0 .. n /\ k \in 0 .. n
    BY <1>1
  <2>2. f[k - 1] \in Seq(S) /\ xs[k] \in Seq(S) /\ f[k] = f[k - 1] \o xs[k]
    BY <1>1, <1>2, <2>1
  <2>3. Len(f[k - 1] \o xs[k]) = Len(f[k - 1]) + Len(xs[k])
    BY <2>2, ConcatProperties
  <2>4. g[k - 1] = Len(f[k - 1]) /\ g[k] = Len(f[k])
    BY <2>1
  <2> HIDE DEF g
  <2> QED
    BY <2>1, <2>2, <2>3, <2>4
<1>4. \A k \in 0 .. n : Len(f[k]) \in Nat
  BY <1>2, LenProperties
<1>5. Cortes(g, xs)
  <2>1. g \in [0 .. n -> Nat]
    BY <1>4
  <2>2. g[0] = 0
    BY <1>1, <1>2, EmptySeq
  <2>3. \A k \in 1 .. n : g[k] = g[k - 1] + Len(xs[k])
    BY <1>3
  <2> HIDE DEF g
  <2> QED
    BY <2>1, <2>2, <2>3 DEF Cortes
<1>6. Len(FlattenSeq(xs)) = g[n]
  BY <1>1, <1>2
<1> HIDE DEF g
<1>7. ASSUME NEW s, NEW d \in Int, Esta(s, d, FlattenSeq(xs))
      PROVE  \A k \in 1 .. n : Esta(s, d + g[k - 1], xs[k])
  <2> DEFINE Hasta == {m \in Nat : m <= n =>
                         Esta(s, d, f[n - m]) /\ \A k \in 1 .. n : n - m < k => Esta(s, d + g[k - 1], xs[k])}
  <2>1. 0 \in Hasta
    <3>1. n - 0 = n /\ Esta(s, d, f[n]) /\ \A k \in 1 .. n : ~(n < k)
      BY <1>1, <1>2, <1>7
    <3> QED
      BY <3>1
  <2>2. ASSUME NEW m \in Nat, m \in Hasta PROVE m + 1 \in Hasta
    <3> SUFFICES ASSUME m + 1 <= n
                 PROVE  /\ Esta(s, d, f[n - (m + 1)])
                        /\ \A k \in 1 .. n : n - (m + 1) < k => Esta(s, d + g[k - 1], xs[k])
      OBVIOUS
    <3> DEFINE j == n - m
    <3>1. j \in 1 .. n /\ n - (m + 1) = j - 1 /\ m <= n
      BY <1>1
    <3>2. Esta(s, d, f[j]) /\ \A k \in 1 .. n : j < k => Esta(s, d + g[k - 1], xs[k])
      BY <2>2, <3>1
    <3> HIDE DEF j
    <3>3. f[j - 1] \in Seq(S) /\ xs[j] \in Seq(S) /\ f[j] = f[j - 1] \o xs[j] /\ g[j - 1] = Len(f[j - 1])
      BY <1>3, <3>1
    <3>4. Esta(s, d, f[j - 1]) /\ Esta(s, d + g[j - 1], xs[j])
      <4>1. Esta(s, d, f[j - 1] \o xs[j])
        BY <3>2, <3>3
      <4>2. Esta(s, d, f[j - 1]) /\ Esta(s, d + Len(f[j - 1]), xs[j])
        BY <1>7, <3>3, <4>1, EstaPartes
      <4> QED
        BY <3>3, <4>2
    <3>5. ASSUME NEW k \in 1 .. n, j - 1 < k PROVE Esta(s, d + g[k - 1], xs[k])
      <4>1. k = j \/ j < k
        BY <3>1, <3>5
      <4> QED
        BY <3>2, <3>4, <4>1
    <3> QED
      BY <3>1, <3>4, <3>5
  <2> HIDE DEF Hasta
  <2>3. n \in Hasta
    BY <1>1, <2>1, <2>2, Induccion
  <2>4. \A k \in 1 .. n : n - n < k
    BY <1>1
  <2> QED
    BY <1>1, <2>3, <2>4 DEF Hasta
<1>8. FlattenSeq(xs) \in Seq(S)
  BY <1>1, <1>2
<1> QED
  BY <1>5, <1>6, <1>7, <1>8
-----------------------------------------------------------------------------
(* Any PCB is read as it was written *)

(* Names, and the strings of the model itself *)
Nombres == STRING \cup {SinNombre, "?", "RR"}
Palabras == Int \cup Nombres
Memorias == [ID : Nombres, offset : Int, pag : Int, size : Int]
Marcos == [pos : Int, retPos : Int, retVar : Memorias, args : Seq(Memorias), vars : Seq(Memorias)]
Sentencias == [inicio : Int, fin : Int]

(* The sentences end where a -1 says so, and the labels say their length. *)
CodigoBien(cod) ==
  /\ cod \in Seq(Sentencias) /\ cod # <<>> /\ cod[Len(cod)] = FinDeCodigo
  /\ \A k \in 1 .. Len(cod) - 1 : cod[k].inicio # -1 /\ cod[k].fin # -1
EtiquetasBien(et) == et \in Seq(Palabras) /\ et # <<>> /\ et[1] = Len(et)

Pcbs == [PID : Int, PC : Int, cant_pag : Int, SP : Int, exit_code : Int,
         in_cod : Seq(Sentencias), in_et : Seq(Palabras), in_stack : Seq(Marcos)]
PcbBien(b) == b \in Pcbs /\ CodigoBien(b.in_cod) /\ EtiquetasBien(b.in_et)

LEMMA MemoriaLeida ==
  ASSUME NEW m \in Memorias, NEW s, NEW d \in Int, Esta(s, d, CamposMemoria(m))
  PROVE  MemoriaEn(s, d) = m
<1> DEFINE x == <<m.ID, m.offset, m.pag, m.size>>
<1>1. Len(x) = 4 /\ x[1] = m.ID /\ x[2] = m.offset /\ x[3] = m.pag /\ x[4] = m.size
  OBVIOUS
<1>2. \A k \in 1 .. 4 : s[d + k - 1] = x[k]
  BY <1>1 DEF Esta, CamposMemoria
<1> HIDE DEF x
<1>3. s[d] = m.ID /\ s[d + 1] = m.offset /\ s[d + 2] = m.pag /\ s[d + 3] = m.size
  <2>1. d + 1 - 1 = d /\ d + 2 - 1 = d + 1 /\ d + 3 - 1 = d + 2 /\ d + 4 - 1 = d + 3
    OBVIOUS
  <2> QED
    BY <1>1, <1>2, <2>1
<1>4. m = [ID |-> m.ID, offset |-> m.offset, pag |-> m.pag, size |-> m.size]
  BY DEF Memorias
<1> QED
  BY <1>3, <1>4 DEF MemoriaEn

LEMMA CamposMemoriaTipo ==
  ASSUME NEW m \in Memorias
  PROVE  CamposMemoria(m) \in Seq(Palabras) /\ Len(CamposMemoria(m)) = 4
BY DEF CamposMemoria, Memorias, Palabras

LEMMA CamposListaTipo ==
  ASSUME NEW ms \in Seq(Memorias)
  PROVE  /\ CamposLista(ms) \in Seq(Palabras) /\ Len(CamposLista(ms)) = 1 + 4 * Len(ms)
         /\ \A s : \A d \in Int : Esta(s, d, CamposLista(ms)) =>
              /\ s[d] = Len(ms)
              /\ \A k \in 1 .. Len(ms) : Esta(s, d + 1 + 4 * (k - 1), CamposMemoria(ms[k]))
<1> DEFINE n == Len(ms)
           xs == [k \in DOMAIN ms |-> CamposMemoria(ms[k])]
<1>1. n \in Nat /\ DOMAIN ms = 1 .. n /\ \A k \in 1 .. n : ms[k] \in Memorias
  BY LenProperties
<1>2. ASSUME NEW k \in 1 .. n
      PROVE  xs[k] = CamposMemoria(ms[k]) /\ xs[k] \in Seq(Palabras) /\ Len(xs[k]) = 4
  BY <1>1, CamposMemoriaTipo
<1>3. xs \in Seq(Seq(Palabras)) /\ Len(xs) = n
  <2>1. xs \in [1 .. n -> Seq(Palabras)]
    BY <1>1, <1>2
  <2> HIDE DEF xs
  <2> QED
    BY <1>1, <2>1
<1> HIDE DEF xs
<1>4. FlattenSeq(xs) \in Seq(Palabras)
  BY <1>3, AplanarEsta
<1>5. PICK g : /\ Cortes(g, xs) /\ Len(FlattenSeq(xs)) = g[n]
               /\ \A s : \A d \in Int : Esta(s, d, FlattenSeq(xs)) =>
                    \A k \in 1 .. n : Esta(s, d + g[k - 1], xs[k])
  BY <1>3, AplanarEsta
<1>6. \A k \in 0 .. n : g[k] = 4 * k
  <2> DEFINE Cuatro == {k \in Nat : k <= n => g[k] = 4 * k}
  <2>1. 0 \in Cuatro
    BY <1>5 DEF Cortes
  <2>2. ASSUME NEW k \in Nat, k \in Cuatro PROVE k + 1 \in Cuatro
    <3> SUFFICES ASSUME k + 1 <= n PROVE g[k + 1] = 4 * (k + 1)
      OBVIOUS
    <3>1. k + 1 \in 1 .. n /\ k + 1 - 1 = k /\ g[k] = 4 * k
      BY <1>1, <2>2
    <3>2. g[k + 1] = g[k + 1 - 1] + Len(xs[k + 1])
      BY <1>3, <1>5, <3>1 DEF Cortes
    <3>3. Len(xs[k + 1]) = 4
      BY <1>2, <3>1
    <3>4. g[k + 1] = g[k] + 4
      BY <3>1, <3>2, <3>3
    <3> QED
      BY <3>1, <3>4
  <2> HIDE DEF Cuatro
  <2>3. \A k \in Nat : k \in Cuatro
    BY <2>1, <2>2, Induccion
  <2> QED
    BY <1>1, <2>3 DEF Cuatro
<1>7. CamposLista(ms) = <<n>> \o FlattenSeq(xs)
  BY DEF CamposLista, xs
<1>8. <<n>> \in Seq(Palabras) /\ Len(<<n>>) = 1
  BY <1>1 DEF Palabras
<1>9. CamposLista(ms) \in Seq(Palabras) /\ Len(CamposLista(ms)) = 1 + 4 * n
  <2>1. Len(FlattenSeq(xs)) = 4 * n
    BY <1>1, <1>5, <1>6
  <2>2. /\ <<n>> \o FlattenSeq(xs) \in Seq(Palabras)
        /\ Len(<<n>> \o FlattenSeq(xs)) = Len(<<n>>) + Len(FlattenSeq(xs))
    BY <1>4, <1>8, ConcatProperties
  <2> QED
    BY <1>7, <1>8, <2>1, <2>2
<1>10. ASSUME NEW s, NEW d \in Int, Esta(s, d, CamposLista(ms))
       PROVE  /\ s[d] = n
              /\ \A k \in 1 .. n : Esta(s, d + 1 + 4 * (k - 1), CamposMemoria(ms[k]))
  <2>1. Esta(s, d, <<n>>) /\ Esta(s, d + 1, FlattenSeq(xs))
    BY <1>4, <1>7, <1>8, <1>10, EstaPartes
  <2>2. s[d] = n
    BY <2>1, EstaUno
  <2>3. ASSUME NEW k \in 1 .. n PROVE Esta(s, d + 1 + 4 * (k - 1), CamposMemoria(ms[k]))
    <3>1. k - 1 \in 0 .. n /\ d + 1 \in Int
      BY <1>1
    <3>2. Esta(s, d + 1 + g[k - 1], xs[k]) /\ g[k - 1] = 4 * (k - 1)
      BY <1>5, <1>6, <2>1, <3>1
    <3> QED
      BY <1>2, <3>2
  <2> QED
    BY <2>2, <2>3
<1> QED
  BY <1>9, <1>10

LEMMA ListaLeida ==
  ASSUME NEW ms \in Seq(Memorias), NEW s, NEW d \in Int, Esta(s, d, CamposLista(ms))
  PROVE  /\ ListaEn(s, d).lista = ms
         /\ ListaEn(s, d).sigue = d + Len(CamposLista(ms))
<1>1. Len(ms) \in Nat /\ DOMAIN ms = 1 .. Len(ms) /\ \A k \in 1 .. Len(ms) : ms[k] \in Memorias
  BY LenProperties
<1>2. s[d] = Len(ms) /\ Len(CamposLista(ms)) = 1 + 4 * Len(ms)
  BY CamposListaTipo
<1>3. ASSUME NEW k \in 1 .. Len(ms) PROVE MemoriaEn(s, d + 1 + 4 * (k - 1)) = ms[k]
  <2>1. Esta(s, d + 1 + 4 * (k - 1), CamposMemoria(ms[k]))
    BY CamposListaTipo
  <2>2. d + 1 + 4 * (k - 1) \in Int /\ ms[k] \in Memorias
    BY <1>1
  <2> QED
    BY <2>1, <2>2, MemoriaLeida
<1>4. [k \in 1 .. s[d] |-> MemoriaEn(s, d + 1 + 4 * (k - 1))] = ms
  <2>1. ms = [k \in 1 .. Len(ms) |-> ms[k]]
    BY <1>1
  <2>2. [k \in 1 .. Len(ms) |-> MemoriaEn(s, d + 1 + 4 * (k - 1))] = [k \in 1 .. Len(ms) |-> ms[k]]
    BY <1>3
  <2> QED
    BY <1>2, <2>1, <2>2
<1>5. ListaEn(s, d).sigue = d + 1 + 4 * s[d]
  BY DEF ListaEn
<1> QED
  BY <1>1, <1>2, <1>4, <1>5 DEF ListaEn
LEMMA CamposElementoTipo ==
  ASSUME NEW e \in Marcos
  PROVE  /\ CamposElemento(e) \in Seq(Palabras)
         /\ Len(CamposElemento(e)) = 6 + Len(CamposLista(e.args)) + Len(CamposLista(e.vars))
         /\ \A s : \A d \in Int : Esta(s, d, CamposElemento(e)) =>
              /\ s[d] = e.pos /\ s[d + 1] = e.retPos
              /\ Esta(s, d + 2, CamposMemoria(e.retVar))
              /\ Esta(s, d + 6, CamposLista(e.args))
              /\ Esta(s, d + 6 + Len(CamposLista(e.args)), CamposLista(e.vars))
<1> DEFINE a == <<e.pos, e.retPos>>
           r == CamposMemoria(e.retVar)
           l == CamposLista(e.args)
           v == CamposLista(e.vars)
<1>1. /\ e.retVar \in Memorias /\ e.args \in Seq(Memorias) /\ e.vars \in Seq(Memorias)
      /\ e.pos \in Int /\ e.retPos \in Int
  BY DEF Marcos
<1>2. /\ a \in Seq(Palabras) /\ Len(a) = 2 /\ a[1] = e.pos /\ a[2] = e.retPos
      /\ r \in Seq(Palabras) /\ Len(r) = 4
      /\ l \in Seq(Palabras) /\ v \in Seq(Palabras)
      /\ Len(l) \in Nat /\ Len(v) \in Nat
  <2>1. r \in Seq(Palabras) /\ Len(r) = 4
    BY <1>1, CamposMemoriaTipo
  <2>2. l \in Seq(Palabras) /\ v \in Seq(Palabras)
    BY <1>1, CamposListaTipo
  <2>3. a \in Seq(Palabras) /\ Len(a) = 2 /\ a[1] = e.pos /\ a[2] = e.retPos
    BY <1>1 DEF Palabras
  <2> HIDE DEF a, r, l, v
  <2> QED
    BY <2>1, <2>2, <2>3, LenProperties
<1>3. CamposElemento(e) = ((a \o r) \o l) \o v
  BY DEF CamposElemento
<1> HIDE DEF a, r, l, v
<1>4. a \o r \in Seq(Palabras) /\ Len(a \o r) = 6
  <2>1. a \o r \in Seq(Palabras) /\ Len(a \o r) = Len(a) + Len(r)
    BY <1>2, ConcatProperties
  <2> QED
    BY <1>2, <2>1
<1>5. (a \o r) \o l \in Seq(Palabras) /\ Len((a \o r) \o l) = 6 + Len(l)
  <2> DEFINE z == a \o r
  <2>1. z \in Seq(Palabras) /\ Len(z) = 6
    BY <1>4
  <2> HIDE DEF z
  <2>2. z \o l \in Seq(Palabras) /\ Len(z \o l) = Len(z) + Len(l)
    BY <1>2, <2>1, ConcatProperties
  <2> QED
    BY <2>1, <2>2 DEF z
<1>6. /\ ((a \o r) \o l) \o v \in Seq(Palabras)
      /\ Len(((a \o r) \o l) \o v) = 6 + Len(l) + Len(v)
  <2> DEFINE z == (a \o r) \o l
  <2>1. z \in Seq(Palabras) /\ Len(z) = 6 + Len(l)
    BY <1>5
  <2> HIDE DEF z
  <2>2. z \o v \in Seq(Palabras) /\ Len(z \o v) = Len(z) + Len(v)
    BY <1>2, <2>1, ConcatProperties
  <2> QED
    BY <2>1, <2>2 DEF z
<1>7. ASSUME NEW s, NEW d \in Int, Esta(s, d, ((a \o r) \o l) \o v)
      PROVE  /\ s[d] = e.pos /\ s[d + 1] = e.retPos
             /\ Esta(s, d + 2, r) /\ Esta(s, d + 6, l) /\ Esta(s, d + 6 + Len(l), v)
  <2>1. Esta(s, d, (a \o r) \o l) /\ Esta(s, d + (6 + Len(l)), v)
    BY <1>2, <1>5, <1>7, EstaPartes
  <2>2. Esta(s, d, a \o r) /\ Esta(s, d + 6, l)
    BY <1>2, <1>4, <2>1, EstaPartes
  <2>3. Esta(s, d, a) /\ Esta(s, d + 2, r)
    BY <1>2, <2>2, EstaPartes
  <2>4. s[d + 1 - 1] = a[1] /\ s[d + 2 - 1] = a[2]
    BY <1>2, <2>3 DEF Esta
  <2>5. d + 1 - 1 = d /\ d + 2 - 1 = d + 1 /\ d + (6 + Len(l)) = d + 6 + Len(l)
    BY <1>2
  <2> QED
    BY <1>2, <2>1, <2>2, <2>3, <2>4, <2>5
<1> QED
  BY <1>3, <1>6, <1>7 DEF r, l, v

LEMMA ElementoLeido ==
  ASSUME NEW e \in Marcos, NEW s, NEW d \in Int, Esta(s, d, CamposElemento(e))
  PROVE  /\ ElementoEn(s, d).elemento = e
         /\ ElementoEn(s, d).sigue = d + Len(CamposElemento(e))
<1>1. /\ e.retVar \in Memorias /\ e.args \in Seq(Memorias) /\ e.vars \in Seq(Memorias)
      /\ e = [pos |-> e.pos, retPos |-> e.retPos, retVar |-> e.retVar, args |-> e.args, vars |-> e.vars]
  BY DEF Marcos
<1>2. Len(CamposLista(e.args)) \in Nat /\ Len(CamposLista(e.vars)) \in Nat
  BY <1>1, CamposListaTipo, LenProperties
<1>3. /\ s[d] = e.pos /\ s[d + 1] = e.retPos
      /\ Esta(s, d + 2, CamposMemoria(e.retVar))
      /\ Esta(s, d + 6, CamposLista(e.args))
      /\ Esta(s, d + 6 + Len(CamposLista(e.args)), CamposLista(e.vars))
      /\ Len(CamposElemento(e)) = 6 + Len(CamposLista(e.args)) + Len(CamposLista(e.vars))
  BY CamposElementoTipo
<1>4. MemoriaEn(s, d + 2) = e.retVar
  BY <1>1, <1>3, MemoriaLeida
<1>5. /\ ListaEn(s, d + 6).lista = e.args
      /\ ListaEn(s, d + 6).sigue = d + 6 + Len(CamposLista(e.args))
  BY <1>1, <1>3, ListaLeida
<1> DEFINE m == d + 6 + Len(CamposLista(e.args))
<1>6. m \in Int
  BY <1>2
<1> HIDE DEF m
<1>7. ListaEn(s, m).lista = e.vars /\ ListaEn(s, m).sigue = m + Len(CamposLista(e.vars))
  BY <1>1, <1>3, <1>6, ListaLeida DEF m
<1>8. ListaEn(s, d + 6).sigue = m
  BY <1>5 DEF m
<1>9. /\ ElementoEn(s, d).elemento = [pos |-> e.pos, retPos |-> e.retPos, retVar |-> e.retVar,
                                      args |-> e.args, vars |-> e.vars]
      /\ ElementoEn(s, d).sigue = m + Len(CamposLista(e.vars))
  BY <1>3, <1>4, <1>5, <1>7, <1>8 DEF ElementoEn
<1>10. m + Len(CamposLista(e.vars)) = d + Len(CamposElemento(e))
  BY <1>2, <1>3 DEF m
<1> QED
  BY <1>1, <1>9, <1>10

Aplanado(stack) == FlattenSeq([k \in DOMAIN stack |-> CamposElemento(stack[k])])

LEMMA StackLeido ==
  ASSUME NEW stack \in Seq(Marcos), NEW s, NEW d \in Int, s[d] = Len(stack),
         Esta(s, d + 1, Aplanado(stack))
  PROVE  StackEn(s, d) = stack
<1> DEFINE n == Len(stack)
           xs == [k \in DOMAIN stack |-> CamposElemento(stack[k])]
<1>1. n \in Nat /\ DOMAIN stack = 1 .. n /\ \A k \in 1 .. n : stack[k] \in Marcos
  BY LenProperties
<1>2. ASSUME NEW k \in 1 .. n PROVE xs[k] = CamposElemento(stack[k]) /\ xs[k] \in Seq(Palabras)
  BY <1>1, CamposElementoTipo
<1>3. xs \in Seq(Seq(Palabras)) /\ Len(xs) = n
  <2>1. xs \in [1 .. n -> Seq(Palabras)]
    BY <1>1, <1>2
  <2> HIDE DEF xs
  <2> QED
    BY <1>1, <2>1
<1>4. Esta(s, d + 1, FlattenSeq(xs))
  BY DEF Aplanado
<1> HIDE DEF xs
<1>5. PICK g : /\ Cortes(g, xs)
               /\ \A k \in 1 .. n : Esta(s, d + 1 + g[k - 1], xs[k])
  <2>1. d + 1 \in Int
    OBVIOUS
  <2> QED
    BY <1>3, <1>4, <2>1, AplanarEsta
<1>6. ASSUME NEW k \in 1 .. n
      PROVE  /\ ElementoEn(s, d + 1 + g[k - 1]).elemento = stack[k]
             /\ ElementoEn(s, d + 1 + g[k - 1]).sigue = d + 1 + g[k]
  <2>1. /\ k - 1 \in 0 .. n /\ g[k - 1] \in Nat /\ g[k] \in Nat
        /\ g[k] = g[k - 1] + Len(xs[k])
    <3>1. k - 1 \in 0 .. n /\ k \in 0 .. n
      BY <1>1
    <3>2. g \in [0 .. n -> Nat] /\ \A j \in 1 .. n : g[j] = g[j - 1] + Len(xs[j])
      BY <1>3, <1>5 DEF Cortes
    <3> HIDE DEF n
    <3> QED
      BY <3>1, <3>2
  <2>2. d + 1 + g[k - 1] \in Int /\ stack[k] \in Marcos
    BY <1>1, <2>1
  <2>3. Esta(s, d + 1 + g[k - 1], CamposElemento(stack[k])) /\ xs[k] = CamposElemento(stack[k])
    BY <1>2, <1>5
  <2>4. /\ ElementoEn(s, d + 1 + g[k - 1]).elemento = stack[k]
        /\ ElementoEn(s, d + 1 + g[k - 1]).sigue = d + 1 + g[k - 1] + Len(CamposElemento(stack[k]))
    BY <2>2, <2>3, ElementoLeido
  <2>5. Len(CamposElemento(stack[k])) \in Nat
    BY <1>2, <2>3, LenProperties
  <2> QED
    BY <2>1, <2>3, <2>4, <2>5
<1>7. ASSUME NEW k \in 0 .. n
      PROVE  /\ SubSeq(stack, 1, k) \in Seq(Marcos) /\ Len(SubSeq(stack, 1, k)) = k
             /\ \A i \in 1 .. k : SubSeq(stack, 1, k)[i] = stack[i]
  BY <1>1
<1>8. ASSUME NEW k \in 1 .. n
      PROVE  SubSeq(stack, 1, k) = Append(SubSeq(stack, 1, k - 1), stack[k])
  <2>1. k - 1 \in 0 .. n /\ k \in 0 .. n
    BY <1>1
  <2> DEFINE q == SubSeq(stack, 1, k)
             r == Append(SubSeq(stack, 1, k - 1), stack[k])
  <2>2. q \in Seq(Marcos) /\ Len(q) = k /\ \A i \in 1 .. k : q[i] = stack[i]
    BY <1>7, <2>1
  <2>3. r \in Seq(Marcos) /\ Len(r) = k /\ \A i \in 1 .. k : r[i] = stack[i]
    <3> DEFINE t == SubSeq(stack, 1, k - 1)
    <3>1. t \in Seq(Marcos) /\ Len(t) = k - 1 /\ \A i \in 1 .. k - 1 : t[i] = stack[i]
      BY <1>7, <2>1
    <3> HIDE DEF t
    <3>2. /\ Append(t, stack[k]) \in Seq(Marcos) /\ Len(Append(t, stack[k])) = k - 1 + 1
          /\ \A i \in 1 .. k - 1 : Append(t, stack[k])[i] = t[i]
          /\ Append(t, stack[k])[k - 1 + 1] = stack[k]
      BY <1>1, <3>1, AppendProperties
    <3>3. \A i \in 1 .. k : i \in 1 .. k - 1 \/ i = k - 1 + 1
      OBVIOUS
    <3> QED
      BY <3>1, <3>2, <3>3 DEF t
  <2> HIDE DEF q, r
  <2>4. q = r
    BY <2>2, <2>3, SeqEqual
  <2> QED
    BY <2>4 DEF q, r
<1> DEFINE Es(u) == u = [k \in 0 .. s[d] |->
                 IF k = 0 THEN [stack |-> <<>>, sigue |-> d + 1]
                 ELSE [stack |-> Append(u[k - 1].stack, ElementoEn(s, u[k - 1].sigue).elemento),
                       sigue |-> ElementoEn(s, u[k - 1].sigue).sigue]]
           w == [k \in 0 .. n |-> [stack |-> SubSeq(stack, 1, k), sigue |-> d + 1 + g[k]]]
           u == CHOOSE v : Es(v)
<1>9. \A k \in 0 .. n :
        w[k] = IF k = 0 THEN [stack |-> <<>>, sigue |-> d + 1]
               ELSE [stack |-> Append(w[k - 1].stack, ElementoEn(s, w[k - 1].sigue).elemento),
                     sigue |-> ElementoEn(s, w[k - 1].sigue).sigue]
  <2> SUFFICES ASSUME NEW k \in 0 .. n
               PROVE  w[k] = IF k = 0 THEN [stack |-> <<>>, sigue |-> d + 1]
               ELSE [stack |-> Append(w[k - 1].stack, ElementoEn(s, w[k - 1].sigue).elemento),
                     sigue |-> ElementoEn(s, w[k - 1].sigue).sigue]
    OBVIOUS
  <2>1. w[k] = [stack |-> SubSeq(stack, 1, k), sigue |-> d + 1 + g[k]]
    OBVIOUS
  <2>2. CASE k = 0
    <3>1. SubSeq(stack, 1, 0) = <<>> /\ g[0] = 0 /\ d + 1 + 0 = d + 1
      BY <1>5 DEF Cortes
    <3> HIDE DEF w
    <3> QED
      BY <2>1, <2>2, <3>1
  <2>3. CASE k # 0
    <3>1. k \in 1 .. n /\ k - 1 \in 0 .. n
      BY <1>1, <2>3
    <3>2. w[k - 1].stack = SubSeq(stack, 1, k - 1) /\ w[k - 1].sigue = d + 1 + g[k - 1]
      BY <3>1
    <3> HIDE DEF w
    <3> QED
      BY <1>6, <1>8, <2>1, <2>3, <3>1, <3>2
  <2> QED
    BY <2>2, <2>3
<1>10. Es(w)
  <2>1. w = [k \in 0 .. n |-> w[k]]
    OBVIOUS
  <2> HIDE DEF w
  <2> QED
    BY <1>9, <2>1
<1> HIDE DEF w
<1>11. Es(u)
  BY <1>10
<1>12. StackEn(s, d) = u[n].stack
  BY DEF StackEn
<1> HIDE DEF u
<1> DEFINE Igual == {k \in Nat : k <= n => u[k] = w[k]}
<1>13. 0 \in Igual
  <2>1. 0 \in 0 .. n /\ 0 \in 0 .. s[d]
    BY <1>1
  <2>2. u[0] = [stack |-> <<>>, sigue |-> d + 1]
    BY <1>11, <2>1
  <2>3. w[0] = [stack |-> <<>>, sigue |-> d + 1]
    BY <1>9, <2>1
  <2> QED
    BY <2>2, <2>3
<1>14. ASSUME NEW k \in Nat, k \in Igual PROVE k + 1 \in Igual
  <2> SUFFICES ASSUME NEW j \in 1 .. n, j = k + 1 PROVE u[j] = w[j]
    BY <1>1
  <2>1. j \in 0 .. n /\ j # 0 /\ j - 1 = k /\ k <= n /\ k \in 0 .. n
    BY <1>1
  <2>2. u[k] = w[k]
    BY <1>14, <2>1
  <2>3. u[j] = [stack |-> Append(u[k].stack, ElementoEn(s, u[k].sigue).elemento),
                sigue |-> ElementoEn(s, u[k].sigue).sigue]
    BY <1>11, <2>1
  <2>4. w[j] = [stack |-> Append(w[k].stack, ElementoEn(s, w[k].sigue).elemento),
                sigue |-> ElementoEn(s, w[k].sigue).sigue]
    BY <1>9, <2>1
  <2> QED
    BY <2>2, <2>3, <2>4
<1> HIDE DEF Igual
<1>15. n \in Igual
  BY <1>1, <1>13, <1>14, Induccion
<1>16. u[n] = w[n] /\ n \in 0 .. n
  BY <1>1, <1>15 DEF Igual
<1>17. w[n].stack = SubSeq(stack, 1, n)
  BY <1>16 DEF w
<1> QED
  BY <1>12, <1>16, <1>17, SubSeqFull
(* the sentences a reader finds at d *)
CodigoEn(s, d) == [k \in 1 .. s[d] |-> [inicio |-> s[d + 2 * k - 1], fin |-> s[d + 2 * k]]]

LEMMA CodigoLeido ==
  ASSUME NEW cod, CodigoBien(cod)
  PROVE  /\ CamposCodigo(cod) \in Seq(Palabras) /\ Len(CamposCodigo(cod)) = 1 + 2 * Len(cod)
         /\ \A s : \A d \in Int : Esta(s, d, CamposCodigo(cod)) =>
              /\ s[d] = Len(cod)
              /\ CodigoEn(s, d) = cod
<1> DEFINE n == Len(cod)
           Hasta(m) == /\ cod[m].inicio = -1 \/ cod[m].fin = -1
                       /\ \A k \in 1 .. m - 1 : cod[k].inicio # -1 /\ cod[k].fin # -1
           xs == [k \in 1 .. n - 1 |-> <<cod[k].inicio, cod[k].fin>>]
           z == <<cod[n].fin, cod[n].fin>>
<1>1. /\ n \in Nat \ {0} /\ DOMAIN cod = 1 .. n /\ \A k \in 1 .. n : cod[k] \in Sentencias
      /\ cod[n] = FinDeCodigo /\ \A k \in 1 .. n - 1 : cod[k].inicio # -1 /\ cod[k].fin # -1
  BY LenProperties, EmptySeq DEF CodigoBien
<1> HIDE DEF n
<1>2. (CHOOSE m \in 1 .. n : Hasta(m)) = n
  <2>1. n \in 1 .. n /\ Hasta(n)
    BY <1>1 DEF FinDeCodigo
  <2>2. ASSUME NEW m \in 1 .. n, Hasta(m) PROVE m = n
    <3>1. m \in 1 .. n - 1 \/ m = n
      BY <1>1
    <3> QED
      BY <1>1, <2>2, <3>1
  <2> HIDE DEF Hasta
  <2> QED
    BY <2>1, <2>2
<1>3. CamposCodigo(cod) = (<<n>> \o FlattenSeq(xs)) \o z
  BY <1>2 DEF CamposCodigo, n
<1>4. ASSUME NEW k \in 1 .. n - 1
      PROVE  /\ xs[k] = <<cod[k].inicio, cod[k].fin>>
             /\ xs[k] \in Seq(Palabras) /\ Len(xs[k]) = 2
             /\ xs[k][1] = cod[k].inicio /\ xs[k][2] = cod[k].fin
  <2>1. cod[k].inicio \in Int /\ cod[k].fin \in Int
    BY <1>1 DEF Sentencias
  <2> QED
    BY <2>1 DEF Palabras
<1>5. xs \in Seq(Seq(Palabras)) /\ Len(xs) = n - 1
  <2>1. n - 1 \in Nat
    BY <1>1
  <2>3. \A k \in 1 .. n - 1 : <<cod[k].inicio, cod[k].fin>> \in Seq(Palabras)
    BY <1>4
  <2>2. xs \in [1 .. n - 1 -> Seq(Palabras)]
    BY <2>3
  <2> HIDE DEF xs
  <2> QED
    BY <2>1, <2>2
<1>6. z \in Seq(Palabras) /\ Len(z) = 2 /\ z[1] = -1 /\ z[2] = -1
  <2>1. cod[n].fin = -1
    BY <1>1 DEF FinDeCodigo
  <2> QED
    BY <2>1 DEF Palabras
<1> HIDE DEF xs, z
<1>7. FlattenSeq(xs) \in Seq(Palabras)
  BY <1>5, AplanarEsta
<1>8. PICK g : /\ Cortes(g, xs) /\ Len(FlattenSeq(xs)) = g[n - 1]
               /\ \A s : \A d \in Int : Esta(s, d, FlattenSeq(xs)) =>
                    \A k \in 1 .. n - 1 : Esta(s, d + g[k - 1], xs[k])
  BY <1>5, AplanarEsta
<1>9. \A k \in 0 .. n - 1 : g[k] = 2 * k
  <2> DEFINE Dos == {k \in Nat : k <= n - 1 => g[k] = 2 * k}
  <2>1. 0 \in Dos
    BY <1>8 DEF Cortes
  <2>2. ASSUME NEW k \in Nat, k \in Dos PROVE k + 1 \in Dos
    <3> SUFFICES ASSUME k + 1 <= n - 1 PROVE g[k + 1] = 2 * (k + 1)
      OBVIOUS
    <3>1. k + 1 \in 1 .. n - 1 /\ k + 1 - 1 = k /\ g[k] = 2 * k
      BY <1>1, <2>2
    <3>2. g[k + 1] = g[k + 1 - 1] + Len(xs[k + 1])
      BY <1>5, <1>8, <3>1 DEF Cortes
    <3>3. Len(xs[k + 1]) = 2
      BY <1>4, <3>1
    <3>4. g[k + 1] = g[k] + 2
      BY <3>1, <3>2, <3>3
    <3> QED
      BY <3>1, <3>4
  <2> HIDE DEF Dos
  <2>3. \A k \in Nat : k \in Dos
    BY <2>1, <2>2, Induccion
  <2> QED
    BY <1>1, <2>3 DEF Dos
<1>10. /\ <<n>> \in Seq(Palabras) /\ Len(<<n>>) = 1
       /\ <<n>> \o FlattenSeq(xs) \in Seq(Palabras)
       /\ Len(<<n>> \o FlattenSeq(xs)) = 2 * n - 1
  <2>1. Len(FlattenSeq(xs)) = 2 * (n - 1)
    BY <1>1, <1>8, <1>9
  <2>2. <<n>> \in Seq(Palabras) /\ Len(<<n>>) = 1
    BY <1>1 DEF Palabras
  <2>3. /\ <<n>> \o FlattenSeq(xs) \in Seq(Palabras)
        /\ Len(<<n>> \o FlattenSeq(xs)) = Len(<<n>>) + Len(FlattenSeq(xs))
    BY <1>7, <2>2, ConcatProperties
  <2> QED
    BY <1>1, <2>1, <2>2, <2>3
<1>11. CamposCodigo(cod) \in Seq(Palabras) /\ Len(CamposCodigo(cod)) = 1 + 2 * n
  <2> DEFINE y == <<n>> \o FlattenSeq(xs)
  <2>1. y \in Seq(Palabras) /\ Len(y) = 2 * n - 1
    BY <1>10
  <2> HIDE DEF y
  <2>2. y \o z \in Seq(Palabras) /\ Len(y \o z) = Len(y) + Len(z)
    BY <1>6, <2>1, ConcatProperties
  <2>3. CamposCodigo(cod) = y \o z
    BY <1>3 DEF y
  <2>4. 2 * n - 1 + 2 = 1 + 2 * n
    BY <1>1
  <2> QED
    BY <1>6, <2>1, <2>2, <2>3, <2>4
<1>12. ASSUME NEW s, NEW d \in Int, Esta(s, d, CamposCodigo(cod))
       PROVE  /\ s[d] = n
              /\ CodigoEn(s, d) = cod
  <2>1. Esta(s, d, <<n>> \o FlattenSeq(xs)) /\ Esta(s, d + (2 * n - 1), z)
    BY <1>3, <1>6, <1>10, <1>12, EstaPartes
  <2>2. Esta(s, d, <<n>>) /\ Esta(s, d + 1, FlattenSeq(xs))
    BY <1>7, <1>10, <2>1, EstaPartes
  <2>3. s[d] = n
    BY <2>2, EstaUno
  <2>4. s[d + (2 * n - 1) + 1 - 1] = z[1] /\ s[d + (2 * n - 1) + 2 - 1] = z[2]
    BY <1>6, <2>1 DEF Esta
  <2>5. ASSUME NEW k \in 1 .. n
        PROVE  [inicio |-> s[d + 2 * k - 1], fin |-> s[d + 2 * k]] = cod[k]
    <3>1. CASE k = n
      <4>1. d + (2 * n - 1) + 1 - 1 = d + 2 * n - 1 /\ d + (2 * n - 1) + 2 - 1 = d + 2 * n
        BY <1>1
      <4>2. s[d + 2 * n - 1] = -1 /\ s[d + 2 * n] = -1
        BY <1>6, <2>4, <4>1
      <4> QED
        BY <1>1, <3>1, <4>2 DEF FinDeCodigo
    <3>2. CASE k # n
      <4>1. k \in 1 .. n - 1 /\ k - 1 \in 0 .. n - 1 /\ d + 1 \in Int
        BY <1>1, <3>2
      <4>2. Esta(s, d + 1 + g[k - 1], xs[k]) /\ g[k - 1] = 2 * (k - 1)
        BY <1>8, <1>9, <2>2, <4>1
      <4>3. s[d + 1 + 2 * (k - 1) + 1 - 1] = cod[k].inicio /\ s[d + 1 + 2 * (k - 1) + 2 - 1] = cod[k].fin
        <5>1. Esta(s, d + 1 + 2 * (k - 1), xs[k])
          BY <4>2
        <5>2. Len(xs[k]) = 2 /\ xs[k][1] = cod[k].inicio /\ xs[k][2] = cod[k].fin
          BY <1>4, <4>1
        <5> QED
          BY <5>1, <5>2 DEF Esta
      <4>4. d + 1 + 2 * (k - 1) + 1 - 1 = d + 2 * k - 1 /\ d + 1 + 2 * (k - 1) + 2 - 1 = d + 2 * k
        OBVIOUS
      <4>5. cod[k] = [inicio |-> cod[k].inicio, fin |-> cod[k].fin]
        BY <1>1 DEF Sentencias
      <4> QED
        BY <4>3, <4>4, <4>5
    <3> QED
      BY <3>1, <3>2
  <2>6. cod = [k \in 1 .. n |-> cod[k]]
    BY <1>1 DEF CodigoBien, n
  <2>7. [k \in 1 .. n |-> [inicio |-> s[d + 2 * k - 1], fin |-> s[d + 2 * k]]] = [k \in 1 .. n |-> cod[k]]
    BY <2>5
  <2>8. CodigoEn(s, d) = [k \in 1 .. n |-> [inicio |-> s[d + 2 * k - 1], fin |-> s[d + 2 * k]]]
    BY <2>3 DEF CodigoEn
  <2> QED
    BY <2>3, <2>6, <2>7, <2>8
<1> QED
  BY <1>11, <1>12 DEF n

LEMMA CodigoTipo ==
  ASSUME NEW cod, CodigoBien(cod)
  PROVE  CamposCodigo(cod) \in Seq(Palabras) /\ Len(CamposCodigo(cod)) = 1 + 2 * Len(cod)
BY CodigoLeido, Zenon

LEMMA CodigoDe ==
  ASSUME NEW cod, CodigoBien(cod), NEW s, NEW d \in Int, Esta(s, d, CamposCodigo(cod))
  PROVE  /\ s[d] = Len(cod)
         /\ CodigoEn(s, d) = cod
BY CodigoLeido

LEMMA AplanadoTipo ==
  ASSUME NEW stack \in Seq(Marcos)
  PROVE  Aplanado(stack) \in Seq(Palabras)
<1> DEFINE xs == [k \in DOMAIN stack |-> CamposElemento(stack[k])]
<1>1. Len(stack) \in Nat /\ DOMAIN stack = 1 .. Len(stack)
      /\ \A k \in 1 .. Len(stack) : stack[k] \in Marcos
  BY LenProperties
<1>2. xs \in [1 .. Len(stack) -> Seq(Palabras)]
  BY <1>1, CamposElementoTipo
<1> HIDE DEF xs
<1>3. xs \in Seq(Seq(Palabras))
  BY <1>1, <1>2
<1>4. FlattenSeq(xs) \in Seq(Palabras)
  BY <1>3, AplanarEsta
<1> QED
  BY <1>4 DEF Aplanado, xs

LEMMA CuerpoEs ==
  ASSUME NEW b, PcbBien(b)
  PROVE  /\ Cuerpo(b) = ((CamposCodigo(b.in_cod) \o b.in_et) \o <<Len(b.in_stack)>>) \o Aplanado(b.in_stack)
         /\ CamposCodigo(b.in_cod) \o b.in_et \in Seq(Palabras)
         /\ Len(CamposCodigo(b.in_cod) \o b.in_et) = 1 + 2 * Len(b.in_cod) + Len(b.in_et)
         /\ (CamposCodigo(b.in_cod) \o b.in_et) \o <<Len(b.in_stack)>> \in Seq(Palabras)
         /\ Len((CamposCodigo(b.in_cod) \o b.in_et) \o <<Len(b.in_stack)>>)
            = 2 + 2 * Len(b.in_cod) + Len(b.in_et)
         /\ Cuerpo(b) \in Seq(Palabras)
<1> DEFINE c == CamposCodigo(b.in_cod)
           e == b.in_et
           u == <<Len(b.in_stack)>>
           a == Aplanado(b.in_stack)
<1>1. /\ CodigoBien(b.in_cod) /\ e \in Seq(Palabras) /\ b.in_stack \in Seq(Marcos)
      /\ b.in_cod \in Seq(Sentencias)
  BY DEF PcbBien, Pcbs, EtiquetasBien
<1>2. Len(b.in_cod) \in Nat /\ Len(e) \in Nat /\ Len(b.in_stack) \in Nat
  BY <1>1, LenProperties
<1>3. c \in Seq(Palabras) /\ Len(c) = 1 + 2 * Len(b.in_cod)
  BY <1>1, CodigoTipo
<1>4. u \in Seq(Palabras) /\ Len(u) = 1
  BY <1>2 DEF Palabras
<1>5. a \in Seq(Palabras)
  BY <1>1, AplanadoTipo
<1>6. Cuerpo(b) = ((c \o e) \o u) \o a
  BY DEF Cuerpo, Aplanado
<1> HIDE DEF c, u, a
<1>7. c \o e \in Seq(Palabras) /\ Len(c \o e) = Len(c) + Len(e)
  BY <1>1, <1>3, ConcatProperties
<1>8. (c \o e) \o u \in Seq(Palabras) /\ Len((c \o e) \o u) = Len(c \o e) + Len(u)
  BY <1>4, <1>7, ConcatProperties
<1>9. ((c \o e) \o u) \o a \in Seq(Palabras)
  BY <1>5, <1>8, ConcatProperties
<1> HIDE DEF e
<1>10. /\ Len(c \o e) = 1 + 2 * Len(b.in_cod) + Len(e)
       /\ Len((c \o e) \o u) = 2 + 2 * Len(b.in_cod) + Len(e)
  BY <1>2, <1>3, <1>4, <1>7, <1>8
<1> QED
  BY <1>6, <1>7, <1>8, <1>9, <1>10 DEF c, e, u, a

LEMMA CuerpoLeido ==
  ASSUME NEW b, PcbBien(b), NEW s, NEW d \in Int, Esta(s, d, Cuerpo(b)),
         s[1] = b.PID, s[2] = b.PC, s[3] = b.cant_pag, s[4] = b.SP, s[5] = b.exit_code
  PROVE  Deserializar(s, d) = b
<1> DEFINE n == Len(b.in_cod)
           e == b.in_et
           h == Len(e)
           et == d + 1 + 2 * n
           st == et + h
<1>1. /\ b \in Pcbs /\ CodigoBien(b.in_cod) /\ e \in Seq(Palabras) /\ e # <<>> /\ e[1] = h
      /\ b.in_stack \in Seq(Marcos) /\ b.in_cod \in Seq(Sentencias)
  BY DEF PcbBien, Pcbs, EtiquetasBien
<1>2. n \in Nat /\ h \in Nat \ {0} /\ Len(b.in_stack) \in Nat
  BY <1>1, LenProperties, EmptySeq
<1>3. /\ CamposCodigo(b.in_cod) \in Seq(Palabras) /\ Len(CamposCodigo(b.in_cod)) = 1 + 2 * n
      /\ <<Len(b.in_stack)>> \in Seq(Palabras) /\ Aplanado(b.in_stack) \in Seq(Palabras)
  <2>1. CamposCodigo(b.in_cod) \in Seq(Palabras) /\ Len(CamposCodigo(b.in_cod)) = 1 + 2 * n
    BY <1>1, CodigoTipo
  <2>2. <<Len(b.in_stack)>> \in Seq(Palabras)
    BY <1>2 DEF Palabras
  <2> QED
    BY <1>1, <2>1, <2>2, AplanadoTipo
<1>20. /\ Len(CamposCodigo(b.in_cod) \o e) = 1 + 2 * n + h
       /\ Len((CamposCodigo(b.in_cod) \o e) \o <<Len(b.in_stack)>>) = 2 + 2 * n + h
  BY CuerpoEs
<1> HIDE DEF n, h
<1>4. /\ Esta(s, d, (CamposCodigo(b.in_cod) \o e) \o <<Len(b.in_stack)>>)
      /\ Esta(s, d + (2 + 2 * n + h), Aplanado(b.in_stack))
  <2> DEFINE u == (CamposCodigo(b.in_cod) \o e) \o <<Len(b.in_stack)>>
             a == Aplanado(b.in_stack)
  <2>1. u \in Seq(Palabras) /\ Cuerpo(b) = u \o a
    BY CuerpoEs
  <2>2. a \in Seq(Palabras) /\ Len(u) = 2 + 2 * n + h
    BY <1>3, <1>20
  <2> HIDE DEF u, a
  <2>3. Esta(s, d, u) /\ Esta(s, d + Len(u), a)
    BY <2>1, <2>2, EstaPartes
  <2> QED
    BY <2>2, <2>3 DEF u, a
<1>5. /\ Esta(s, d, CamposCodigo(b.in_cod) \o e)
      /\ Esta(s, d + (1 + 2 * n + h), <<Len(b.in_stack)>>)
  BY <1>3, <1>4, <1>20, CuerpoEs, EstaPartes
<1>6. Esta(s, d, CamposCodigo(b.in_cod)) /\ Esta(s, d + (1 + 2 * n), e)
  BY <1>1, <1>3, <1>5, EstaPartes
<1>7. /\ et \in Int /\ st \in Int /\ d + (1 + 2 * n) = et /\ d + (1 + 2 * n + h) = st
      /\ d + (2 + 2 * n + h) = st + 1
  BY <1>2
<1> HIDE DEF et, st
<1>8. /\ s[d] = n
      /\ CodigoEn(s, d) = b.in_cod
  <2>1. CodigoBien(b.in_cod) /\ Esta(s, d, CamposCodigo(b.in_cod))
    BY <1>1, <1>6
  <2> QED
    BY <2>1, CodigoDe DEF n
<1>9. \A k \in 1 .. h : s[et + k - 1] = e[k]
  BY <1>6, <1>7 DEF Esta, h
<1>10. s[et] = h
  <2>1. 1 \in 1 .. h /\ et + 1 - 1 = et
    BY <1>2, <1>7
  <2> QED
    BY <1>1, <1>9, <2>1
<1>11. SubSeq(s, et, st - 1) = e
  <2>1. st - 1 = et + h - 1 /\ et <= st - 1
    BY <1>2, <1>7 DEF st
  <2>2. ASSUME NEW i \in et .. st - 1 PROVE s[i] \in Palabras
    <3> DEFINE k == i - et + 1
    <3>1. k \in 1 .. h /\ et + k - 1 = i
      BY <1>2, <1>7, <2>1
    <3>2. s[i] = e[k]
      BY <1>9, <3>1
    <3> QED
      BY <1>1, <3>1, <3>2, ElementOfSeq DEF h
  <2>3. /\ SubSeq(s, et, st - 1) \in Seq(Palabras)
        /\ Len(SubSeq(s, et, st - 1)) = st - 1 - et + 1
        /\ \A i \in 1 .. st - 1 - et + 1 : SubSeq(s, et, st - 1)[i] = s[et + i - 1]
    <3> DEFINE m == st - 1
    <3>1. m \in Int /\ et \in Int /\ et <= m /\ \A i \in et .. m : s[i] \in Palabras
      BY <1>7, <2>1, <2>2
    <3> HIDE DEF m
    <3> QED
      BY <3>1, SubSeqProperties DEF m
  <2>4. st - 1 - et + 1 = h
    BY <1>2, <1>7, <2>1
  <2> QED
    <3> DEFINE q == SubSeq(s, et, st - 1)
    <3>1. q \in Seq(Palabras) /\ Len(q) = h /\ \A i \in 1 .. h : q[i] = e[i]
      BY <1>9, <2>3, <2>4
    <3> HIDE DEF q
    <3>2. q \in Seq(Palabras) /\ e \in Seq(Palabras) /\ Len(q) = Len(e)
          /\ \A i \in 1 .. Len(q) : q[i] = e[i]
      BY <1>1, <3>1 DEF h
    <3> HIDE DEF e
    <3>3. q = e
      BY <3>2, SeqEqual
    <3> QED
      BY <3>3 DEF q
<1>12. StackEn(s, st) = b.in_stack
  <2>1. s[st] = Len(b.in_stack)
    BY <1>5, <1>7, EstaUno
  <2>2. Esta(s, st + 1, Aplanado(b.in_stack))
    BY <1>4, <1>7
  <2> QED
    BY <1>1, <1>7, <2>1, <2>2, StackLeido
<1>13. d + 1 + 2 * s[d] = et /\ et + s[et] = st
  BY <1>8, <1>10 DEF et, st
<1>14. Deserializar(s, d) =
         [PID |-> s[1], PC |-> s[2], cant_pag |-> s[3], SP |-> s[4], exit_code |-> s[5],
          in_cod |-> CodigoEn(s, d),
          in_et |-> SubSeq(s, et, st - 1), in_stack |-> StackEn(s, st)]
  BY <1>13 DEF Deserializar, CodigoEn
<1>15. b = [PID |-> b.PID, PC |-> b.PC, cant_pag |-> b.cant_pag, SP |-> b.SP,
            exit_code |-> b.exit_code, in_cod |-> b.in_cod, in_et |-> b.in_et, in_stack |-> b.in_stack]
  BY <1>1 DEF Pcbs
<1> QED
  BY <1>8, <1>11, <1>12, <1>14, <1>15

(* Whatever PCB is written by either side, the other reads that one: any    *)
(* program, number of labels, depth of the stack and variables.             *)
THEOREM ViajeDeCualquiera ==
  ASSUME NEW b, PcbBien(b), NEW planificacion \in Seq(Palabras), Len(planificacion) = 3
  PROVE  /\ DeserializarCPUKer(SerializarCPUKer(b)) = b
         /\ DeserializarKerCPU(SerializarKerCPU(b, planificacion)) = b
<1> DEFINE c == <<b.PID, b.PC, b.cant_pag, b.SP, b.exit_code>>
<1>1. /\ c \in Seq(Palabras) /\ Len(c) = 5
      /\ c[1] = b.PID /\ c[2] = b.PC /\ c[3] = b.cant_pag /\ c[4] = b.SP /\ c[5] = b.exit_code
  <2>1. /\ b.PID \in Palabras /\ b.PC \in Palabras /\ b.cant_pag \in Palabras /\ b.SP \in Palabras
        /\ b.exit_code \in Palabras
    BY DEF PcbBien, Pcbs, Palabras
  <2> QED
    BY <2>1
<1>2. Cuerpo(b) \in Seq(Palabras)
  BY CuerpoEs
<1>3. SerializarCPUKer(b) = c \o Cuerpo(b)
  BY DEF SerializarCPUKer
<1>4. SerializarKerCPU(b, planificacion) = (c \o planificacion) \o Cuerpo(b)
  BY DEF SerializarKerCPU
<1> HIDE DEF c
<1>5. ASSUME NEW s, s = SerializarCPUKer(b) \/ s = SerializarKerCPU(b, planificacion)
      PROVE  Esta(s, 1, s)
  BY DEF Esta
<1>6. DeserializarCPUKer(SerializarCPUKer(b)) = b
  <2> DEFINE s == SerializarCPUKer(b)
  <2>1. Esta(s, 1, c) /\ Esta(s, 6, Cuerpo(b))
    <3>1. Esta(s, 1, c \o Cuerpo(b))
      BY <1>3, <1>5
    <3> HIDE DEF s
    <3>2. Esta(s, 1, c) /\ Esta(s, 1 + Len(c), Cuerpo(b))
      BY <1>1, <1>2, <3>1, 1 \in Int, EstaPartes
    <3> QED
      BY <1>1, <3>2
  <2> HIDE DEF s
  <2>2. \A k \in 1 .. 5 : s[1 + k - 1] = c[k]
    BY <1>1, <2>1 DEF Esta
  <2>3. s[1] = c[1] /\ s[2] = c[2] /\ s[3] = c[3] /\ s[4] = c[4] /\ s[5] = c[5]
    BY <2>2
  <2>4. Deserializar(s, 6) = b
    BY <1>1, <2>1, <2>3, CuerpoLeido
  <2> QED
    BY <2>4 DEF s, DeserializarCPUKer
<1>7. DeserializarKerCPU(SerializarKerCPU(b, planificacion)) = b
  <2> DEFINE s == SerializarKerCPU(b, planificacion)
  <2>1. c \o planificacion \in Seq(Palabras) /\ Len(c \o planificacion) = 8
    <3>1. c \o planificacion \in Seq(Palabras) /\ Len(c \o planificacion) = Len(c) + Len(planificacion)
      BY <1>1, ConcatProperties
    <3> QED
      BY <1>1, <3>1
  <2>2. Esta(s, 1, c) /\ Esta(s, 9, Cuerpo(b))
    <3>1. Esta(s, 1, (c \o planificacion) \o Cuerpo(b))
      BY <1>4, <1>5
    <3> HIDE DEF s
    <3>2. Esta(s, 1, c \o planificacion) /\ Esta(s, 1 + Len(c \o planificacion), Cuerpo(b))
      BY <1>2, <2>1, <3>1, 1 \in Int, EstaPartes
    <3>3. Esta(s, 1, c)
      BY <1>1, <3>2, 1 \in Int, EstaPartes
    <3> QED
      BY <2>1, <3>2, <3>3
  <2> HIDE DEF s
  <2>3. \A k \in 1 .. 5 : s[1 + k - 1] = c[k]
    BY <1>1, <2>2 DEF Esta
  <2>4. s[1] = c[1] /\ s[2] = c[2] /\ s[3] = c[3] /\ s[4] = c[4] /\ s[5] = c[5]
    BY <2>3
  <2>5. Deserializar(s, 9) = b
    BY <1>1, <2>2, <2>4, CuerpoLeido
  <2> QED
    BY <2>5 DEF s, DeserializarKerCPU
<1> QED
  BY <1>6, <1>7
-----------------------------------------------------------------------------
(* The inductive invariant: the programs and their PCBs *)

Lee == {"linea", "leer", "k94"}
Escribe == {"asignar", "retornar", "k90"}
Tareas == Primitivas \cup ({"linea"} \X Nat)
Controles == [fase : {"nueva", "ejecuta"}, tarea : Seq(Tareas), destino : Int, valor : Int,
              salto : BOOLEAN, accion : {"continuar", "error", "fin"}]
Estados == {"cpu", "listo", "fin", "terminado", "caida", "perdido"}

(* The offsets of the variables grow, in each frame and from one to the next. *)
Antes(v, w) == v[1] < w[1] \/ (v[1] = w[1] /\ v[2] < w[2])
Variable(s, v) == v[1] \in DOMAIN s /\ v[2] \in DOMAIN s[v[1]].vars
Lugar(s, v) == s[v[1]].vars[v[2]].offset
Crece(s) ==
  /\ \A k \in DOMAIN s : s[k].args = <<>>
  /\ \A v \in Nat \X Nat : Variable(s, v) => Lugar(s, v) \in Nat
  /\ \A v, w \in Nat \X Nat :
       Variable(s, v) /\ Variable(s, w) /\ Antes(v, w) => Lugar(s, v) < Lugar(s, w)

(* What never changes of the PCB of a program with the text t, and where it points. *)
IndiceCodigo(t) ==
  [n \in DOMAIN Textos[t].lineas |-> [inicio |-> Largo * (n - 1), fin |-> Largo]] \o <<FinDeCodigo>>
Fijo(b, t) ==
  /\ b.in_cod = IndiceCodigo(t) /\ b.in_et = IndiceEtiquetas(Textos[t].etiquetas)
  /\ b.PC \in Nat /\ b.SP + 1 = Len(b.in_stack)
  /\ \A k \in DOMAIN b.in_stack : b.in_stack[k].retPos \in Nat

(* The request in Memoria is that of the primitive the CPU is at. *)
Encargo(a, e, c, b) ==
  a.pc # "nada" =>
    /\ e = "cpu" /\ c.fase = "ejecuta" /\ c.tarea # <<>>
    /\ \/ Head(c.tarea)[1] \in Lee /\ a.op = "leer"
       \/ Head(c.tarea)[1] \in Escribe /\ a.op = "escribir"
    /\ Head(c.tarea)[1] = "retornar" => b.SP # -1

ProgramaBien(p) ==
  /\ Fijo(pcb[p], texto[p]) /\ Crece(pcb[p].in_stack)
  /\ Encargo(acceso[p], estado[p], cpu[p], pcb[p])

PInv ==
  /\ texto \in [Pids -> DOMAIN Textos] /\ estado \in [Pids -> Estados]
  /\ cpu \in [Pids -> Controles] /\ pcb \in [Pids -> Pcbs]
  /\ \A p \in Pids : ProgramaBien(p)
  /\ libera # 0 => libera \in Pids /\ estado[libera] = "terminado"

-----------------------------------------------------------------------------
(* The inductive invariant: Memoria and its cache *)

Palabra == 0 .. Tam \div 4 - 1
Hoja == [1 .. Tam \div 4 -> Int]
Entrada == {Vacia} \cup [pid : Pids, pag : Int, datos : Hoja]
Accesos == [pc : {"nada", "pide", "trae", "copia", "baja", "listo"}, op : {"nada", "leer", "escribir"},
            kernel : BOOLEAN, dir : [pag : Int, k : Palabra], valor : Int,
            pos : Entradas \cup {-1}, res : {"nada", "M02", "M03", "M08"}, sucio : BOOLEAN]

MemoriaTipo ==
  /\ DOMAIN mem \subseteq Pids \X Int /\ mem \in [DOMAIN mem -> Hoja]
  /\ cache \in [Entradas -> Entrada] /\ orden \in Seq(Entradas)
  /\ acceso \in [Pids -> Accesos]
  /\ libera \in Pids \cup {0} /\ manchadas \subseteq Entradas

Lleva(i, x) == <<cache[i].pid, cache[i].pag>> = x

(* An entry has a page that exists, no other entry has it, and its use is noted. *)
EntradaBien(i) ==
  cache[i].pid # -1 =>
    /\ <<cache[i].pid, cache[i].pag>> \in DOMAIN mem
    /\ i \in ToSet(orden)
    /\ \A j \in Entradas \ {i} : ~Lleva(j, <<cache[i].pid, cache[i].pag>>)

(* What a thread has found out is still so: the page exists, and who is to  *)
(* bring it finds no entry with it, and who is to write it no other.        *)
Halla(p) ==
  LET a == acceso[p]
  IN  /\ a.pc \in {"trae", "copia", "baja"} => Pagina(p) \in DOMAIN mem
      /\ a.pc = "trae" =>
           a.op = "leer" /\ libera = 0 /\ \A i \in Entradas : ~Lleva(i, Pagina(p))
      /\ a.pc \in {"copia", "baja"} => a.op = "escribir"
      /\ a.pc = "copia" => a.pos \in Entradas /\ \A i \in Entradas : Lleva(i, Pagina(p)) => i = a.pos
      /\ a.pc = "listo" /\ a.res # "M03" =>
           /\ Pagina(p) \in DOMAIN mem
           /\ a.res = IF a.op = "leer" THEN "M08" ELSE "M02"
           /\ a.res = "M02" => ~a.sucio

(* An entry nobody wrote by mistake has what the page has, but for the word *)
(* that is on its way to memory.                                            *)
Bajando(p, g, k) == acceso[p].pc = "baja" /\ acceso[p].dir.pag = g /\ acceso[p].dir.k = k
Coherente(i) ==
  cache[i].pid # -1 /\ i \notin manchadas =>
    LET p == cache[i].pid
        g == cache[i].pag
    IN  \A k \in Palabra :
          cache[i].datos[k + 1] = IF Bajando(p, g, k) THEN acceso[p].valor ELSE mem[<<p, g>>][k + 1]

(* What was read or written is in memory until the answer is taken. *)
Contesta(p) ==
  acceso[p].pc = "listo" /\ acceso[p].res # "M03" /\ ~acceso[p].sucio =>
    mem[Pagina(p)][acceso[p].dir.k + 1] = acceso[p].valor

CInv ==
  /\ MemoriaTipo
  /\ \A i \in Entradas : EntradaBien(i) /\ Coherente(i)
  /\ \A p \in Pids : Halla(p) /\ Contesta(p) /\ CantPidEnCache(p) <= EntradasProceso

-----------------------------------------------------------------------------
(* The inductive invariant: what was stored *)

Guardado(p) ==
  /\ DOMAIN asignado[p] \subseteq Int \X Palabra
  /\ estado[p] # "terminado" => \A a \in DOMAIN asignado[p] : <<p, a[1]>> \in DOMAIN mem
  /\ \A a \in DOMAIN asignado[p] \ pisado[p] :
       <<p, a[1]>> \in DOMAIN mem /\ ~Escrita(p, a) => mem[<<p, a[1]>>][a[2] + 1] = asignado[p][a]

AInv ==
  /\ asignado = [p \in Pids |-> asignado[p]] /\ pisado = [p \in Pids |-> pisado[p]]
  /\ \A p \in Pids : Guardado(p)
-----------------------------------------------------------------------------
(* Positions *)

LEMMA PaginaEntera ==
  ASSUME NEW o \in Nat
  PROVE  /\ Tam \in Nat \ {0} /\ o \div Tam \in Nat /\ o % Tam \in 0 .. Tam - 1
         /\ (o % Tam) \div 4 \in Palabra /\ 0 \in Palabra
<1>1. Tam \in Nat \ {0} /\ Tam % 4 = 0
  BY CacheOK
<1>2. o \div Tam \in Nat /\ o % Tam \in 0 .. Tam - 1
  BY <1>1
<1>3. \A r \in 0 .. Tam - 1 : r \div 4 \in Palabra
  BY <1>1 DEF Palabra
<1> QED
  BY <1>1, <1>2, <1>3 DEF Palabra

LEMMA DireccionTipo ==
  ASSUME NEW o \in Int, NEW paginas \in Int
  PROVE  Direccion(o, paginas) \in [pag : Int, k : Palabra]
<1>1. CASE o < 0
  BY <1>1, PaginaEntera, 0 \in Nat DEF Direccion
<1>2. CASE ~(o < 0)
  <2>1. o \in Nat
    BY <1>2
  <2>2. o \div Tam + paginas \in Int /\ (o % Tam) \div 4 \in Palabra
    BY <2>1, PaginaEntera
  <2> QED
    BY <1>2, <2>2 DEF Direccion
<1> QED
  BY <1>1, <1>2

-----------------------------------------------------------------------------
(* The order of use *)

LEMMA EntradasTipo == Entradas \subseteq Nat /\ 0 \in Entradas /\ IsFiniteSet(Entradas)
<1>1. EntradasCache \in Nat \ {0}
  BY CacheOK
<1>2. Entradas \subseteq Nat /\ 0 \in Entradas
  BY <1>1 DEF Entradas
<1>3. IsFiniteSet(0 .. EntradasCache - 1)
  BY <1>1, FS_Interval
<1> QED
  BY <1>2, <1>3 DEF Entradas

LEMMA SinUno ==
  ASSUME NEW S, NEW q \in Seq(S), NEW e
  PROVE  RemoveFirst(q, e) \in Seq(S) /\ ToSet(q) \ {e} \subseteq ToSet(RemoveFirst(q, e))
<1> DEFINE I == {j \in 1 .. Len(q) : q[j] = e}
           i == IF I # {} THEN Min(I) ELSE 0
<1>1. Len(q) \in Nat /\ DOMAIN q = 1 .. Len(q) /\ \A j \in 1 .. Len(q) : q[j] \in S
  BY LenProperties
<1>2. CASE I = {}
  <2>1. RemoveFirst(q, e) = q
    BY <1>2 DEF RemoveFirst
  <2> QED
    BY <2>1
<1>3. CASE I # {}
  <2>1. i \in I
    BY <1>1, <1>3, PrimeroDe
  <2>2. RemoveFirst(q, e) = RemoveAt(q, i)
    BY <1>3 DEF RemoveFirst, SelectInSeq
  <2> DEFINE r == RemoveAt(q, i)
  <2>3. i \in 1 .. Len(q) /\ q[i] = e
    BY <2>1
  <2> HIDE DEF i, r
  <2>4. /\ r \in Seq(S) /\ Len(r) = Len(q) - 1
        /\ \A j \in 1 .. Len(q) - 1 : r[j] = q[IF j < i THEN j ELSE j + 1]
    BY <2>3, SinElemento DEF r
  <2>5. ASSUME NEW x \in ToSet(q), x # e PROVE x \in ToSet(r)
    <3>1. PICK j \in 1 .. Len(q) : q[j] = x
      BY ToSetElemento
    <3>2. j # i
      BY <2>3, <2>5, <3>1
    <3> DEFINE l == IF j < i THEN j ELSE j - 1
    <3>3. l \in 1 .. Len(r) /\ r[l] = x
      <4>1. CASE j < i
        BY <1>1, <2>3, <2>4, <3>1, <4>1
      <4>2. CASE ~(j < i)
        <5>1. j - 1 \in 1 .. Len(q) - 1 /\ ~(j - 1 < i) /\ j - 1 + 1 = j
          BY <1>1, <2>3, <3>1, <3>2, <4>2
        <5>2. r[j - 1] = q[j]
          BY <2>4, <5>1
        <5> QED
          BY <2>4, <3>1, <4>2, <5>1, <5>2
      <4> QED
        BY <4>1, <4>2
    <3> QED
      BY <2>4, <3>3, ToSetElemento
  <2> QED
    BY <2>2, <2>4, <2>5 DEF r
<1> QED
  BY <1>2, <1>3

LEMMA UsadaTipo ==
  ASSUME orden \in Seq(Entradas), NEW i \in Entradas
  PROVE  Usada(i) \in Seq(Entradas) /\ ToSet(orden) \cup {i} \subseteq ToSet(Usada(i))
<1> DEFINE q == RemoveFirst(orden, i)
           r == <<i>> \o q
<1>1. q \in Seq(Entradas) /\ ToSet(orden) \ {i} \subseteq ToSet(q)
  BY SinUno
<1> HIDE DEF q
<1>2. <<i>> \in Seq(Entradas) /\ Len(<<i>>) = 1 /\ <<i>>[1] = i
  OBVIOUS
<1>3. Len(q) \in Nat /\ r \in Seq(Entradas) /\ Len(r) = 1 + Len(q)
      /\ \A k \in 1 .. 1 + Len(q) : r[k] = IF k <= 1 THEN <<i>>[k] ELSE q[k - 1]
  BY <1>1, <1>2, ConcatProperties, LenProperties
<1> HIDE DEF r
<1>4. 1 \in 1 .. Len(r) /\ r[1] = i
  BY <1>2, <1>3
<1>5. ASSUME NEW x \in ToSet(q) PROVE x \in ToSet(r)
  <2>1. PICK j \in 1 .. Len(q) : q[j] = x
    BY <1>1, ToSetElemento
  <2>2. j + 1 \in 1 .. Len(r) /\ r[j + 1] = q[j]
    BY <1>3, <2>1
  <2> QED
    BY <1>3, <2>1, <2>2, ToSetElemento
<1>6. i \in ToSet(r)
  BY <1>3, <1>4, ToSetElemento
<1> QED
  BY <1>1, <1>3, <1>5, <1>6 DEF Usada, q, r

(* sustituirLRU always finds an entry. *)
LEMMA SustituirLRUTipo ==
  ASSUME orden \in Seq(Entradas)
  PROVE  SustituirLRU \in Entradas
<1> DEFINE sueltas == Entradas \ ToSet(orden)
<1>1. sueltas \in SUBSET Nat
  BY EntradasTipo
<1>2. CASE sueltas # {}
  <2>1. Min(sueltas) \in sueltas
    BY <1>1, <1>2, MinEsMinimo
  <2> HIDE DEF Min
  <2> QED
    BY <1>2, <2>1 DEF SustituirLRU
<1>3. CASE sueltas = {}
  <2>1. 0 \in ToSet(orden)
    BY <1>3, EntradasTipo
  <2>2. Len(orden) \in Nat /\ Len(orden) # 0
    BY <2>1, LenProperties, ToSetElemento
  <2>3. orden[Len(orden)] \in Entradas
    BY <2>2
  <2> QED
    BY <1>3, <2>3 DEF SustituirLRU, Last
<1> QED
  BY <1>2, <1>3

(* sustituirLRUproc finds an entry of the program when it has one in use. *)
LEMMA SustituirLRUProcTipo ==
  ASSUME orden \in Seq(Entradas), NEW p, NEW i \in ToSet(orden), cache[i].pid = p
  PROVE  SustituirLRUProc(p) \in Entradas /\ cache[SustituirLRUProc(p)].pid = p
<1> DEFINE n == Len(orden)
           K == {k \in DOMAIN orden : cache[orden[k]].pid = p}
<1>1. n \in Nat /\ DOMAIN orden = 1 .. n /\ \A k \in 1 .. n : orden[k] \in Entradas
  BY LenProperties
<1>2. PICK k \in 1 .. n : orden[k] = i
  BY ToSetElemento
<1>3. K \in SUBSET (0 .. n) /\ k \in K
  BY <1>1, <1>2
<1>4. Max(K) \in K
  BY <1>1, <1>3, MaxEsMaximo
<1> HIDE DEF Max
<1>5. Max(K) \in 1 .. n /\ cache[orden[Max(K)]].pid = p
  BY <1>1, <1>4
<1>6. SustituirLRUProc(p) = orden[Max(K)]
  BY DEF SustituirLRUProc
<1> QED
  BY <1>1, <1>5, <1>6

(* _buscarPosCache: an entry with the page, when there is one *)
LEMMA BuscarPosCacheEs ==
  ASSUME NEW x, NEW y
  PROVE  LET i == BuscarPosCache(<<x, y>>)
         IN  /\ i \in Entradas \cup {-1}
             /\ i # -1 => Lleva(i, <<x, y>>)
             /\ i = -1 => \A j \in Entradas : ~Lleva(j, <<x, y>>)
<1> DEFINE z == <<x, y>>
           C == {i \in Entradas : cache[i].pid = z[1] /\ cache[i].pag = z[2]}
<1>1. C \in SUBSET Nat /\ \A j \in Entradas : j # -1
  <2>1. \A j \in Nat : j # -1
    OBVIOUS
  <2>2. C \subseteq Entradas
    OBVIOUS
  <2> HIDE DEF C
  <2> QED
    BY <2>1, <2>2, EntradasTipo
<1>2. \A j \in Entradas : Lleva(j, z) <=> j \in C
  BY DEF Lleva
<1>3. C # {} => Min(C) \in C
  BY <1>1, MinEsMinimo
<1>4. BuscarPosCache(z) = IF C = {} THEN -1 ELSE Min(C)
  BY DEF BuscarPosCache
<1> HIDE DEF Min, C, z
<1>5. C \subseteq Entradas
  BY DEF C
<1>6. CASE C = {}
  BY <1>2, <1>4, <1>6 DEF z
<1>7. CASE C # {}
  BY <1>1, <1>2, <1>3, <1>4, <1>5, <1>7 DEF z
<1> QED
  BY <1>6, <1>7
-----------------------------------------------------------------------------
(* The threads of Memoria keep what they find *)

LEMMA Posiciones ==
  ASSUME MemoriaTipo
  PROVE  /\ \A p \in Pids : acceso[p] \in Accesos
         /\ \A i \in Entradas : cache[i] \in Entrada /\ (cache[i].pid # -1 => cache[i].pid \in Pids)
         /\ \A k \in Palabra : k + 1 \in 1 .. Tam \div 4
         /\ \A k \in 1 .. Tam \div 4 : k - 1 \in Palabra
         /\ \A p \in Pids : p # -1 /\ p # 0
<1>1. Tam \div 4 \in Nat
  BY CacheOK
<1>2. \A k \in Palabra : k + 1 \in 1 .. Tam \div 4
  BY <1>1 DEF Palabra
<1>3. \A k \in 1 .. Tam \div 4 : k - 1 \in Palabra
  BY <1>1 DEF Palabra
<1>4. \A p \in Pids : p # -1 /\ p # 0
  BY CacheOK
<1>5. \A p \in Pids : acceso[p] \in Accesos
  BY DEF MemoriaTipo
<1>6. \A i \in Entradas : cache[i] \in Entrada
  BY DEF MemoriaTipo
<1>7. \A i \in Entradas : cache[i].pid # -1 => cache[i].pid \in Pids
  BY <1>6 DEF Entrada, Vacia
<1> QED
  BY <1>2, <1>3, <1>4, <1>5, <1>6, <1>7

LEMMA HojaLlena ==
  ASSUME NEW h \in Hoja
  PROVE  h # <<>>
<1>1. 0 \in Palabra /\ Tam \div 4 \in Nat
  BY PaginaEntera, CacheOK, 0 \in Nat
<1>2. 1 \in 1 .. Tam \div 4
  BY <1>1 DEF Palabra
<1>3. DOMAIN h = 1 .. Tam \div 4
  BY DEF Hoja
<1>4. <<>> \in Seq({}) /\ Len(<<>>) = 0
  OBVIOUS
<1>5. DOMAIN <<>> = 1 .. 0
  BY <1>4, LenProperties
<1> SUFFICES ASSUME h = <<>> PROVE FALSE
  OBVIOUS
<1>6. 1 \in 1 .. 0
  BY <1>2, <1>3, <1>5
<1> QED
  BY <1>6

(* Only the request of one program changes, and no word is on its way. *)
LEMMA SoloAcceso ==
  ASSUME CInv, NEW p \in Pids, NEW a \in Accesos, acceso' = [acceso EXCEPT ![p] = a],
         UNCHANGED <<mem, cache, libera, manchadas>>,
         orden' \in Seq(Entradas), ToSet(orden) \subseteq ToSet(orden'),
         acceso[p].pc # "baja",
         a.pc = "baja" => \A i \in Entradas : ~Lleva(i, <<p, a.dir.pag>>),
         Halla(p)', Contesta(p)'
  PROVE  CInv'
<1>1. /\ acceso' \in [Pids -> Accesos] /\ acceso'[p] = a
      /\ \A q \in Pids \ {p} : acceso'[q] = acceso[q]
  BY DEF CInv, MemoriaTipo
<1>2. MemoriaTipo'
  BY <1>1 DEF CInv, MemoriaTipo
<1>3. ASSUME NEW i \in Entradas PROVE EntradaBien(i)'
  BY <1>3 DEF CInv, EntradaBien, Lleva
<1>4. ASSUME NEW i \in Entradas PROVE Coherente(i)'
  <2> SUFFICES ASSUME cache[i].pid # -1, i \notin manchadas, NEW k \in Palabra
               PROVE  cache[i].datos[k + 1] =
                        IF Bajando(cache[i].pid, cache[i].pag, k)' THEN acceso'[cache[i].pid].valor
                        ELSE mem[<<cache[i].pid, cache[i].pag>>][k + 1]
    BY DEF Coherente, Bajando
  <2>1. cache[i].pid \in Pids
    BY Posiciones DEF CInv
  <2>2. /\ cache[i].datos[k + 1] =
             IF Bajando(cache[i].pid, cache[i].pag, k) THEN acceso[cache[i].pid].valor
             ELSE mem[<<cache[i].pid, cache[i].pag>>][k + 1]
    BY DEF CInv, Coherente
  <2>3. CASE cache[i].pid = p
    <3>1. ~Bajando(cache[i].pid, cache[i].pag, k)
      BY <2>3 DEF Bajando
    <3>2. ~Bajando(cache[i].pid, cache[i].pag, k)'
      BY <1>1, <2>3 DEF Bajando, Lleva
    <3> QED
      BY <2>2, <3>1, <3>2
  <2>4. CASE cache[i].pid # p
    BY <1>1, <2>1, <2>2, <2>4 DEF Bajando
  <2> QED
    BY <2>3, <2>4
<1>5. ASSUME NEW q \in Pids PROVE Halla(q)' /\ Contesta(q)'
  <2>1. CASE q = p
    BY <2>1
  <2>2. CASE q # p
    <3>1. acceso'[q] = acceso[q] /\ Halla(q) /\ Contesta(q)
      BY <1>1, <2>2 DEF CInv
    <3>2. Halla(q)'
      BY <3>1 DEF Halla, Pagina, Lleva
    <3>3. Contesta(q)'
      BY <3>1 DEF Contesta, Pagina
    <3> QED
      BY <3>2, <3>3
  <2> QED
    BY <2>1, <2>2
<1>6. ASSUME NEW q \in Pids PROVE CantPidEnCache(q)' <= EntradasProceso
  BY DEF CInv, CantPidEnCache
<1> QED
  BY <1>2, <1>3, <1>4, <1>5, <1>6 DEF CInv

LEMMA SolicitarBytesC ==
  ASSUME CInv, NEW p \in Pids, SolicitarBytes(p)
  PROVE  CInv'
<1> DEFINE i == BuscarPosCache(Pagina(p))
           k == acceso[p].dir.k
<1>1. /\ acceso[p] \in Accesos /\ acceso[p].pc = "pide" /\ acceso[p].op = "leer" /\ libera = 0
      /\ UNCHANGED <<mem, cache, libera, manchadas>> /\ orden \in Seq(Entradas)
      /\ mem \in [DOMAIN mem -> Hoja] /\ k \in Palabra
  BY DEF CInv, MemoriaTipo, SolicitarBytes, CacheLibre, Accesos
<1>2. \/ /\ Pagina(p) \notin DOMAIN mem /\ Responder(p, "M03", FALSE) /\ orden' = orden
      \/ /\ Pagina(p) \in DOMAIN mem /\ i # -1
         /\ acceso' = [acceso EXCEPT ![p] = [@ EXCEPT
               !.pc = "listo", !.res = "M08", !.valor = cache[i].datos[k + 1],
               !.sucio = i \in manchadas]]
         /\ orden' = Usada(i)
      \/ /\ Pagina(p) \in DOMAIN mem /\ i = -1
         /\ acceso' = [acceso EXCEPT ![p].pc = "trae"] /\ orden' = orden
  BY DEF SolicitarBytes
<1>3. /\ i \in Entradas \cup {-1}
      /\ i # -1 => Lleva(i, Pagina(p))
      /\ i = -1 => \A j \in Entradas : ~Lleva(j, Pagina(p))
  BY BuscarPosCacheEs DEF Pagina
<1> HIDE DEF i
<1>4. CASE Pagina(p) \notin DOMAIN mem /\ Responder(p, "M03", FALSE) /\ orden' = orden
  <2> DEFINE a == [acceso[p] EXCEPT !.pc = "listo", !.res = "M03", !.sucio = FALSE]
  <2>1. a \in Accesos /\ a.pc = "listo" /\ a.res = "M03"
    BY <1>1 DEF Accesos
  <2>2. acceso' = [acceso EXCEPT ![p] = a]
    BY <1>4 DEF Responder
  <2> HIDE DEF a
  <2>3. acceso'[p] = a
    BY <2>2 DEF CInv, MemoriaTipo
  <2>4. Halla(p)' /\ Contesta(p)'
    BY <2>1, <2>3 DEF Halla, Contesta
  <2> QED
    BY <1>1, <1>4, <2>1, <2>2, <2>4, SoloAcceso
<1>5. CASE /\ Pagina(p) \in DOMAIN mem /\ i # -1
           /\ acceso' = [acceso EXCEPT ![p] = [@ EXCEPT
                 !.pc = "listo", !.res = "M08", !.valor = cache[i].datos[k + 1],
                 !.sucio = i \in manchadas]]
           /\ orden' = Usada(i)
  <2> DEFINE v == cache[i].datos[k + 1]
             m == i \in manchadas
             a == [acceso[p] EXCEPT !.pc = "listo", !.res = "M08", !.valor = v, !.sucio = m]
  <2>1. i \in Entradas /\ Lleva(i, Pagina(p)) /\ cache[i].pid = p /\ cache[i].pag = acceso[p].dir.pag
    BY <1>3, <1>5 DEF Lleva, Pagina
  <2>2. cache[i] \in [pid : Pids, pag : Int, datos : Hoja] /\ cache[i].pid # -1
    BY <2>1, Posiciones DEF CInv, Entrada, Vacia
  <2>3. v \in Int
    BY <1>1, <2>1, <2>2, Posiciones DEF CInv, Hoja
  <2>4. i \notin manchadas => v = mem[Pagina(p)][k + 1]
    <3>1. SUFFICES ASSUME i \notin manchadas PROVE v = mem[Pagina(p)][k + 1]
      OBVIOUS
    <3>2. ~Bajando(p, cache[i].pag, k)
      BY <1>1 DEF Bajando
    <3>3. v = mem[<<p, cache[i].pag>>][k + 1]
      BY <1>1, <2>1, <2>2, <3>1, <3>2 DEF CInv, Coherente
    <3> QED
      BY <2>1, <3>3 DEF Pagina
  <2>10. m \in BOOLEAN
    OBVIOUS
  <2> HIDE DEF v, k, m
  <2>5. /\ a \in Accesos /\ a.pc = "listo" /\ a.res = "M08" /\ a.op = "leer" /\ a.valor = v
        /\ a.sucio = m /\ a.dir = acceso[p].dir
    BY <1>1, <2>3, <2>10 DEF Accesos
  <2>6. acceso' = [acceso EXCEPT ![p] = a]
    BY <1>5 DEF v, k, m
  <2> HIDE DEF a
  <2>7. acceso'[p] = a /\ Pagina(p)' = Pagina(p)
    BY <2>5, <2>6 DEF CInv, MemoriaTipo, Pagina
  <2>8. Halla(p)' /\ Contesta(p)'
    BY <1>1, <1>5, <2>4, <2>5, <2>7 DEF Halla, Contesta, k, m
  <2>9. orden' \in Seq(Entradas) /\ ToSet(orden) \subseteq ToSet(orden')
    BY <1>1, <1>5, <2>1, UsadaTipo
  <2> QED
    BY <1>1, <2>5, <2>6, <2>8, <2>9, SoloAcceso
<1>6. CASE /\ Pagina(p) \in DOMAIN mem /\ i = -1
           /\ acceso' = [acceso EXCEPT ![p].pc = "trae"] /\ orden' = orden
  <2> DEFINE a == [acceso[p] EXCEPT !.pc = "trae"]
  <2>1. a \in Accesos /\ a.pc = "trae" /\ a.dir = acceso[p].dir /\ a.op = "leer"
    BY <1>1 DEF Accesos
  <2>2. acceso' = [acceso EXCEPT ![p] = a]
    BY <1>6
  <2> HIDE DEF a
  <2>3. acceso'[p] = a /\ Pagina(p)' = Pagina(p)
    BY <2>1, <2>2 DEF CInv, MemoriaTipo, Pagina
  <2>4. Halla(p)' /\ Contesta(p)'
    BY <1>1, <1>3, <1>6, <2>1, <2>3 DEF Halla, Contesta, Lleva
  <2> QED
    BY <1>1, <1>6, <2>1, <2>2, <2>4, SoloAcceso
<1> QED
  BY <1>2, <1>4, <1>5, <1>6

LEMMA AlmacenarBytesC ==
  ASSUME CInv, NEW p \in Pids, AlmacenarBytes(p)
  PROVE  CInv'
<1> DEFINE i == BuscarPosCache(Pagina(p))
<1>1. /\ acceso[p] \in Accesos /\ acceso[p].pc = "pide" /\ acceso[p].op = "escribir"
      /\ UNCHANGED <<mem, cache, orden, libera, manchadas>> /\ orden \in Seq(Entradas)
  BY DEF CInv, MemoriaTipo, AlmacenarBytes
<1>2. \/ Pagina(p) \notin DOMAIN mem /\ Responder(p, "M03", FALSE)
      \/ /\ Pagina(p) \in DOMAIN mem
         /\ acceso' = [acceso EXCEPT ![p].pc = IF i = -1 THEN "baja" ELSE "copia", ![p].pos = i]
  BY DEF AlmacenarBytes
<1>3. /\ i \in Entradas \cup {-1}
      /\ i # -1 => Lleva(i, Pagina(p))
      /\ i = -1 => \A j \in Entradas : ~Lleva(j, Pagina(p))
  BY BuscarPosCacheEs DEF Pagina
<1> HIDE DEF i
<1>4. CASE Pagina(p) \notin DOMAIN mem /\ Responder(p, "M03", FALSE)
  <2> DEFINE a == [acceso[p] EXCEPT !.pc = "listo", !.res = "M03", !.sucio = FALSE]
  <2>1. a \in Accesos /\ a.pc = "listo" /\ a.res = "M03"
    BY <1>1 DEF Accesos
  <2>2. acceso' = [acceso EXCEPT ![p] = a]
    BY <1>4 DEF Responder
  <2> HIDE DEF a
  <2>3. acceso'[p] = a
    BY <2>2 DEF CInv, MemoriaTipo
  <2>4. Halla(p)' /\ Contesta(p)'
    BY <2>1, <2>3 DEF Halla, Contesta
  <2> QED
    BY <1>1, <2>1, <2>2, <2>4, SoloAcceso
<1>5. CASE /\ Pagina(p) \in DOMAIN mem
           /\ acceso' = [acceso EXCEPT ![p].pc = IF i = -1 THEN "baja" ELSE "copia", ![p].pos = i]
  <2> DEFINE a == [acceso[p] EXCEPT !.pc = IF i = -1 THEN "baja" ELSE "copia", !.pos = i]
  <2>1. /\ a \in Accesos /\ a.pc = (IF i = -1 THEN "baja" ELSE "copia") /\ a.dir = acceso[p].dir
        /\ a.op = "escribir" /\ a.pos = i
    BY <1>1, <1>3 DEF Accesos
  <2>2. acceso' = [acceso EXCEPT ![p] = a]
    BY <1>5
  <2> HIDE DEF a
  <2>3. acceso'[p] = a /\ Pagina(p)' = Pagina(p)
    BY <2>1, <2>2 DEF CInv, MemoriaTipo, Pagina
  <2>4. a.pc = "copia" => \A j \in Entradas : Lleva(j, Pagina(p)) => j = i
    <3> SUFFICES ASSUME a.pc = "copia", NEW j \in Entradas, Lleva(j, Pagina(p)), j # i PROVE FALSE
      OBVIOUS
    <3>1. i \in Entradas /\ Lleva(i, Pagina(p))
      BY <1>3, <2>1
    <3>2. cache[i].pid # -1
      BY <3>1, Posiciones DEF Lleva, Pagina, CInv
    <3> QED
      BY <3>1, <3>2 DEF CInv, EntradaBien, Lleva
  <2>5. Halla(p)' /\ Contesta(p)'
    BY <1>1, <1>3, <1>5, <2>1, <2>3, <2>4 DEF Halla, Contesta, Lleva
  <2>6. a.pc = "baja" => \A j \in Entradas : ~Lleva(j, <<p, a.dir.pag>>)
    BY <1>3, <2>1 DEF Pagina
  <2> QED
    BY <1>1, <2>1, <2>2, <2>5, <2>6, SoloAcceso
<1> QED
  BY <1>2, <1>4, <1>5

(* What each program has in the cache, when one entry changes *)
LEMMA CuentaMenos ==
  ASSUME NEW q, \A j \in Entradas : cache'[j].pid = q => cache[j].pid = q
  PROVE  CantPidEnCache(q)' <= CantPidEnCache(q) /\ CantPidEnCache(q) \in Nat /\ CantPidEnCache(q)' \in Nat
<1> DEFINE S == {i \in Entradas : cache[i].pid = q}
           T == {i \in Entradas : cache'[i].pid = q}
<1>1. IsFiniteSet(Entradas) /\ S \subseteq Entradas /\ T \subseteq S
  BY EntradasTipo
<1>2. IsFiniteSet(S) /\ IsFiniteSet(T) /\ Cardinality(T) <= Cardinality(S)
  BY <1>1, FS_Subset
<1>3. Cardinality(S) \in Nat /\ Cardinality(T) \in Nat
  BY <1>2, FS_CardinalityType
<1> QED
  BY <1>2, <1>3 DEF CantPidEnCache

LEMMA CuentaUnaMas ==
  ASSUME NEW q, NEW i \in Entradas, \A j \in Entradas \ {i} : cache'[j].pid = q => cache[j].pid = q
  PROVE  CantPidEnCache(q)' <= CantPidEnCache(q) + 1 /\ CantPidEnCache(q) \in Nat /\ CantPidEnCache(q)' \in Nat
<1> DEFINE S == {j \in Entradas : cache[j].pid = q}
           T == {j \in Entradas : cache'[j].pid = q}
           U == S \cup {i}
<1>1. IsFiniteSet(Entradas) /\ S \subseteq Entradas /\ T \subseteq U
  BY EntradasTipo
<1>2. IsFiniteSet(S)
  BY <1>1, FS_Subset
<1>3. IsFiniteSet(U) /\ Cardinality(U) <= Cardinality(S) + 1 /\ Cardinality(S) \in Nat
  <2>1. IsFiniteSet(U) /\ Cardinality(U) = IF i \in S THEN Cardinality(S) ELSE Cardinality(S) + 1
    BY <1>2, FS_AddElement
  <2>2. Cardinality(S) \in Nat
    BY <1>2, FS_CardinalityType
  <2> QED
    BY <2>1, <2>2
<1>4. IsFiniteSet(T) /\ Cardinality(T) <= Cardinality(U)
  BY <1>1, <1>3, FS_Subset
<1>5. Cardinality(T) \in Nat /\ Cardinality(U) \in Nat
  BY <1>3, <1>4, FS_CardinalityType
<1> QED
  BY <1>3, <1>4, <1>5 DEF CantPidEnCache

(* There is room for the entry that TraerPagina takes. *)
LEMMA EntradaElegida ==
  ASSUME CInv, NEW p \in Pids,
         NEW i, i = IF CantPidEnCache(p) < EntradasProceso THEN SustituirLRU ELSE SustituirLRUProc(p)
  PROVE  /\ i \in Entradas
         /\ CantPidEnCache(p) < EntradasProceso \/ cache[i].pid = p
<1>1. orden \in Seq(Entradas) /\ p # -1
  BY Posiciones DEF CInv, MemoriaTipo
<1>2. CASE CantPidEnCache(p) < EntradasProceso
  BY <1>1, <1>2, SustituirLRUTipo
<1>3. CASE ~(CantPidEnCache(p) < EntradasProceso)
  <2> DEFINE S == {j \in Entradas : cache[j].pid = p}
  <2>1. S # {}
    <3>1. SUFFICES ASSUME S = {} PROVE FALSE
      OBVIOUS
    <3>2. Cardinality({}) = 0
      BY FS_EmptySet
    <3>3. CantPidEnCache(p) = 0
      BY <3>1, <3>2 DEF CantPidEnCache
    <3> QED
      BY <1>3, <3>3, CacheOK
  <2>2. PICK j \in Entradas : cache[j].pid = p
    BY <2>1
  <2>3. j \in ToSet(orden)
    BY <1>1, <2>2 DEF CInv, EntradaBien
  <2> QED
    BY <1>1, <1>3, <2>2, <2>3, SustituirLRUProcTipo
<1> QED
  BY <1>2, <1>3

LEMMA TraerPaginaC ==
  ASSUME CInv, NEW p \in Pids, TraerPagina(p)
  PROVE  CInv'
<1> DEFINE x == Pagina(p)
           k == acceso[p].dir.k
           e == [pid |-> p, pag |-> acceso[p].dir.pag, datos |-> mem[x]]
           v == mem[x][k + 1]
           a == [acceso[p] EXCEPT !.pc = "listo", !.res = "M08", !.valor = v]
<1>1. /\ acceso[p] \in Accesos /\ acceso[p].pc = "trae" /\ acceso[p].op = "leer" /\ libera = 0
      /\ x \in DOMAIN mem /\ mem[x] \in Hoja /\ k \in Palabra
      /\ \A i \in Entradas : ~Lleva(i, x)
      /\ UNCHANGED <<mem, libera>> /\ orden \in Seq(Entradas)
      /\ acceso \in [Pids -> Accesos] /\ cache \in [Entradas -> Entrada] /\ manchadas \subseteq Entradas
  BY DEF CInv, MemoriaTipo, TraerPagina, Accesos, Halla
<1>2. PICK i : /\ i = IF CantPidEnCache(p) < EntradasProceso THEN SustituirLRU ELSE SustituirLRUProc(p)
               /\ cache' = [cache EXCEPT ![i] = e]
               /\ orden' = Usada(i) /\ manchadas' = manchadas \ {i}
  BY DEF TraerPagina
<1>3. i \in Entradas /\ (CantPidEnCache(p) < EntradasProceso \/ cache[i].pid = p)
  BY <1>2, EntradaElegida
<1>4. v \in Int
  BY <1>1, Posiciones DEF Hoja, CInv
<1>5. e \in Entrada /\ e.pid = p /\ e.pag = acceso[p].dir.pag /\ e.datos = mem[x] /\ <<e.pid, e.pag>> = x
  BY <1>1 DEF Entrada, Accesos, Pagina
<1>6. acceso' = [acceso EXCEPT ![p] = a]
  BY DEF TraerPagina
<1> HIDE DEF e, v
<1>7. /\ a \in Accesos /\ a.pc = "listo" /\ a.res = "M08" /\ a.op = "leer" /\ a.valor = v
      /\ a.dir = acceso[p].dir
  BY <1>1, <1>4 DEF Accesos
<1> HIDE DEF a
<1>8. /\ acceso' \in [Pids -> Accesos] /\ acceso'[p] = a
      /\ \A q \in Pids \ {p} : acceso'[q] = acceso[q]
  BY <1>1, <1>6, <1>7
<1>9. /\ cache' \in [Entradas -> Entrada] /\ cache'[i] = e
      /\ \A j \in Entradas \ {i} : cache'[j] = cache[j]
  BY <1>1, <1>2, <1>3, <1>5
<1>10. orden' \in Seq(Entradas) /\ ToSet(orden) \cup {i} \subseteq ToSet(orden')
  BY <1>1, <1>2, <1>3, UsadaTipo
<1>11. MemoriaTipo'
  BY <1>1, <1>2, <1>8, <1>9, <1>10 DEF CInv, MemoriaTipo
<1>12. \A q \in Pids : q # p => Pagina(q)' = Pagina(q) /\ Pagina(q) # x
  BY <1>8 DEF Pagina
<1>13. Pagina(p)' = x
  BY <1>7, <1>8 DEF Pagina
<1>14. \A j \in Entradas :
         <<cache'[j].pid, cache'[j].pag>> = IF j = i THEN x ELSE <<cache[j].pid, cache[j].pag>>
  BY <1>5, <1>9
<1>15. \A j \in Entradas : EntradaBien(j) /\ Coherente(j)
  BY DEF CInv
<1>16. ASSUME NEW j \in Entradas PROVE EntradaBien(j)'
  <2>1. CASE j = i
    <3>1. <<cache'[j].pid, cache'[j].pag>> = x
      BY <1>5, <1>9, <2>1
    <3>2. \A l \in Entradas \ {j} : <<cache'[l].pid, cache'[l].pag>> # x
      BY <1>1, <1>14, <2>1 DEF Lleva
    <3> QED
      BY <1>1, <1>10, <2>1, <3>1, <3>2 DEF EntradaBien, Lleva
  <2>2. CASE j # i
    <3> SUFFICES ASSUME cache[j].pid # -1
                 PROVE  /\ <<cache[j].pid, cache[j].pag>> \in DOMAIN mem
                        /\ j \in ToSet(orden')
                        /\ \A l \in Entradas \ {j} :
                             <<cache'[l].pid, cache'[l].pag>> # <<cache[j].pid, cache[j].pag>>
      BY <1>1, <1>9, <2>2 DEF EntradaBien, Lleva
    <3>1. ~Lleva(j, x)
      BY <1>1
    <3>2. <<cache[j].pid, cache[j].pag>> # x
      BY <3>1 DEF Lleva
    <3> QED
      BY <1>10, <1>14, <1>15, <3>2 DEF EntradaBien, Lleva
  <2> QED
    BY <2>1, <2>2
<1>17. ASSUME NEW j \in Entradas PROVE Coherente(j)'
  <2>1. CASE j = i
    <3>1. acceso'[p].pc # "baja"
      BY <1>7, <1>8
    <3>2. cache'[j].pid = p /\ cache'[j].datos = mem[x] /\ <<p, cache'[j].pag>> = x
      BY <1>5, <1>9, <2>1
    <3>3. mem' = mem
      BY <1>1
    <3> QED
      BY <3>1, <3>2, <3>3 DEF Coherente, Bajando
  <2>2. CASE j # i
    <3>5. cache'[j] = cache[j] /\ mem' = mem
      BY <1>1, <1>9, <2>2
    <3> SUFFICES ASSUME cache[j].pid # -1, j \notin manchadas', NEW l \in Palabra
                 PROVE  cache[j].datos[l + 1] =
                          IF Bajando(cache[j].pid, cache[j].pag, l)' THEN acceso'[cache[j].pid].valor
                          ELSE mem[<<cache[j].pid, cache[j].pag>>][l + 1]
      BY <3>5 DEF Coherente, Bajando
    <3>1. cache[j].pid \in Pids /\ j \notin manchadas
      BY <1>2, <2>2, Posiciones DEF CInv
    <3>2. cache[j].datos[l + 1] =
             IF Bajando(cache[j].pid, cache[j].pag, l) THEN acceso[cache[j].pid].valor
             ELSE mem[<<cache[j].pid, cache[j].pag>>][l + 1]
      BY <1>15, <3>1 DEF Coherente
    <3>3. CASE cache[j].pid = p
      <4>1. ~Bajando(p, cache[j].pag, l) /\ ~Bajando(p, cache[j].pag, l)'
        BY <1>1, <1>7, <1>8, <1>9, <2>2 DEF Bajando
      <4> QED
        BY <1>9, <2>2, <3>2, <3>3, <4>1 DEF Bajando
    <3>4. CASE cache[j].pid # p
      BY <1>8, <1>9, <2>2, <3>1, <3>2, <3>4 DEF Bajando
    <3> QED
      BY <3>3, <3>4
  <2> QED
    BY <2>1, <2>2
<1>18. ASSUME NEW q \in Pids PROVE Halla(q)' /\ Contesta(q)'
  <2>1. CASE q = p
    BY <1>1, <1>7, <1>8, <1>13, <2>1 DEF Halla, Contesta, v, k
  <2>2. CASE q # p
    <3>1. acceso'[q] = acceso[q] /\ Halla(q) /\ Contesta(q) /\ Pagina(q)' = Pagina(q)
      BY <1>8, <1>12, <2>2 DEF CInv
    <3>2. \A j \in Entradas : <<cache'[j].pid, cache'[j].pag>> = Pagina(q) => Lleva(j, Pagina(q))
      BY <1>12, <1>14, <2>2 DEF Lleva
    <3>3. Halla(q)'
      BY <1>1, <3>1, <3>2 DEF Halla, Lleva
    <3>4. Contesta(q)'
      BY <1>1, <3>1 DEF Contesta
    <3> QED
      BY <3>3, <3>4
  <2> QED
    BY <2>1, <2>2
<1>19. ASSUME NEW q \in Pids PROVE CantPidEnCache(q)' <= EntradasProceso
  <2>1. CantPidEnCache(q) <= EntradasProceso /\ EntradasProceso \in Nat
    BY CacheOK DEF CInv
  <2>2. CASE q # p \/ cache[i].pid = p
    <3>1. \A j \in Entradas : cache'[j].pid = q => cache[j].pid = q
      BY <1>5, <1>9, <2>2
    <3> QED
      BY <2>1, <3>1, CuentaMenos
  <2>3. CASE q = p /\ cache[i].pid # p
    <3>1. \A j \in Entradas \ {i} : cache'[j].pid = q => cache[j].pid = q
      BY <1>9
    <3>2. CantPidEnCache(q) < EntradasProceso
      BY <1>3, <2>3
    <3> QED
      BY <1>3, <2>1, <3>1, <3>2, CuentaUnaMas
  <2> QED
    BY <2>2, <2>3
<1> QED
  BY <1>11, <1>16, <1>17, <1>18, <1>19 DEF CInv

LEMMA CopiarEnCacheC ==
  ASSUME CInv, NEW p \in Pids, CopiarEnCache(p)
  PROVE  CInv'
<1> DEFINE x == Pagina(p)
           k == acceso[p].dir.k
           v == acceso[p].valor
           i == acceso[p].pos
           a == [acceso[p] EXCEPT !.pc = "baja"]
<1>1. /\ acceso[p] \in Accesos /\ acceso[p].pc = "copia" /\ acceso[p].op = "escribir"
      /\ x \in DOMAIN mem /\ k \in Palabra /\ v \in Int /\ i \in Entradas
      /\ \A j \in Entradas : Lleva(j, x) => j = i
      /\ UNCHANGED <<mem, orden, libera>>
      /\ acceso \in [Pids -> Accesos] /\ cache \in [Entradas -> Entrada] /\ manchadas \subseteq Entradas
  BY DEF CInv, MemoriaTipo, CopiarEnCache, Accesos, Halla
<1>2. /\ manchadas' = IF Lleva(i, x) THEN manchadas ELSE manchadas \cup {i}
      /\ \/ cache[i].datos = <<>> /\ cache' = cache
         \/ cache[i].datos # <<>> /\ cache' = [cache EXCEPT ![i].datos[k + 1] = v]
  BY DEF CopiarEnCache, Lleva
<1>3. acceso' = [acceso EXCEPT ![p] = a]
  BY DEF CopiarEnCache
<1>4. a \in Accesos /\ a.pc = "baja" /\ a.op = "escribir" /\ a.dir = acceso[p].dir /\ a.valor = v
  BY <1>1 DEF Accesos
<1> HIDE DEF a
<1>5. /\ acceso' \in [Pids -> Accesos] /\ acceso'[p] = a
      /\ \A q \in Pids \ {p} : acceso'[q] = acceso[q]
  BY <1>1, <1>3, <1>4
<1>6. cache[i].datos = <<>> => cache[i].pid = -1
  <2>1. cache[i] \in Entrada
    BY <1>1
  <2> QED
    BY <2>1, HojaLlena DEF Entrada, Vacia
<1>7. cache[i].datos # <<>> => cache[i] \in [pid : Pids, pag : Int, datos : Hoja]
  <2>1. cache[i] \in Entrada
    BY <1>1
  <2> QED
    BY <2>1 DEF Entrada, Vacia
<1>8. \A j \in Entradas : /\ cache'[j].pid = cache[j].pid /\ cache'[j].pag = cache[j].pag
                          /\ j # i => cache'[j] = cache[j]
  <2>1. CASE cache' = cache
    BY <2>1
  <2>2. CASE cache[i].datos # <<>> /\ cache' = [cache EXCEPT ![i].datos[k + 1] = v]
    BY <1>1, <1>7, <2>2
  <2> QED
    BY <1>2, <2>1, <2>2
<1>9. cache[i].datos # <<>> =>
        /\ cache'[i] \in [pid : Pids, pag : Int, datos : Hoja]
        /\ \A l \in Palabra : cache'[i].datos[l + 1] = IF l = k THEN v ELSE cache[i].datos[l + 1]
  <2> SUFFICES ASSUME cache[i].datos # <<>>
               PROVE  /\ cache'[i] \in [pid : Pids, pag : Int, datos : Hoja]
                      /\ \A l \in Palabra :
                           cache'[i].datos[l + 1] = IF l = k THEN v ELSE cache[i].datos[l + 1]
    OBVIOUS
  <2> DEFINE d == [cache[i].datos EXCEPT ![k + 1] = v]
             e == [cache[i] EXCEPT !.datos = d]
  <2>1. cache[i].datos \in Hoja /\ cache[i] \in [pid : Pids, pag : Int, datos : Hoja]
    BY <1>7
  <2>2. d \in Hoja
    BY <1>1, <2>1 DEF Hoja
  <2>3. \A l \in Palabra : d[l + 1] = IF l = k THEN v ELSE cache[i].datos[l + 1]
    <3> SUFFICES ASSUME NEW l \in Palabra PROVE d[l + 1] = IF l = k THEN v ELSE cache[i].datos[l + 1]
      OBVIOUS
    <3>1. l + 1 \in 1 .. Tam \div 4 /\ DOMAIN cache[i].datos = 1 .. Tam \div 4
      BY <2>1, Posiciones DEF Hoja, CInv
    <3>2. l + 1 = k + 1 <=> l = k
      BY <1>1 DEF Palabra
    <3> QED
      BY <3>1, <3>2
  <2>4. cache' = [cache EXCEPT ![i] = e]
    BY <1>2
  <2> HIDE DEF d
  <2>5. e \in [pid : Pids, pag : Int, datos : Hoja] /\ e.datos = d
    BY <2>1, <2>2
  <2> HIDE DEF e
  <2>6. cache'[i] = e
    BY <1>1, <2>4
  <2> QED
    BY <2>3, <2>5, <2>6
<1>10. cache' \in [Entradas -> Entrada]
  <2>1. CASE cache' = cache
    BY <1>1, <2>1
  <2>2. CASE cache[i].datos # <<>> /\ cache' = [cache EXCEPT ![i].datos[k + 1] = v]
    <3>1. DOMAIN cache' = Entradas /\ cache' = [j \in Entradas |-> cache'[j]]
      BY <1>1, <2>2
    <3>2. cache'[i] \in Entrada
      BY <1>9, <2>2 DEF Entrada
    <3>3. \A j \in Entradas : cache'[j] \in Entrada
      BY <1>1, <1>8, <3>2
    <3> QED
      BY <3>1, <3>3
  <2> QED
    BY <1>2, <2>1, <2>2
<1>11. MemoriaTipo'
  BY <1>1, <1>2, <1>5, <1>10 DEF CInv, MemoriaTipo
<1>12. \A j \in Entradas : EntradaBien(j) /\ Coherente(j)
  BY DEF CInv
<1>13. ASSUME NEW j \in Entradas PROVE EntradaBien(j)'
  BY <1>1, <1>8, <1>12 DEF EntradaBien, Lleva
<1>14. ASSUME NEW j \in Entradas PROVE Coherente(j)'
  <2> DEFINE q == cache[j].pid
             g == cache[j].pag
  <2> SUFFICES ASSUME q # -1, j \notin manchadas', NEW l \in Palabra
               PROVE  cache'[j].datos[l + 1] =
                        IF acceso'[q].pc = "baja" /\ acceso'[q].dir.pag = g /\ acceso'[q].dir.k = l
                        THEN acceso'[q].valor ELSE mem[<<q, g>>][l + 1]
    BY <1>1, <1>8 DEF Coherente, Bajando
  <2>1. q \in Pids /\ j \notin manchadas
    BY <1>2, Posiciones DEF CInv
  <2>2. cache[j].datos[l + 1] =
           IF acceso[q].pc = "baja" /\ acceso[q].dir.pag = g /\ acceso[q].dir.k = l
           THEN acceso[q].valor ELSE mem[<<q, g>>][l + 1]
    BY <1>12, <2>1 DEF Coherente, Bajando
  <2>3. CASE j = i
    <3>1. Lleva(i, x) /\ q = p /\ g = acceso[p].dir.pag
      BY <1>2, <2>3 DEF Lleva, Pagina
    <3>2. cache[i].datos # <<>>
      BY <1>6, <2>3
    <3>3. cache'[i].datos[l + 1] = IF l = k THEN v ELSE cache[i].datos[l + 1]
      BY <1>9, <3>2
    <3> QED
      BY <1>1, <1>4, <1>5, <2>2, <2>3, <3>1, <3>3
  <2>4. CASE j # i /\ q = p
    <3>1. g # acceso[p].dir.pag
      BY <1>1, <2>4 DEF Lleva, Pagina
    <3>2. cache'[j] = cache[j]
      BY <1>8, <2>4
    <3> QED
      BY <1>1, <1>4, <1>5, <2>2, <2>4, <3>1, <3>2
  <2>5. CASE j # i /\ q # p
    <3>1. cache'[j] = cache[j] /\ acceso'[q] = acceso[q]
      BY <1>5, <1>8, <2>1, <2>5
    <3> QED
      BY <2>2, <3>1
  <2> QED
    BY <2>3, <2>4, <2>5
<1>15. ASSUME NEW q \in Pids PROVE Halla(q)' /\ Contesta(q)'
  <2>1. CASE q = p
    <3>1. Pagina(p)' = x
      BY <1>4, <1>5 DEF Pagina
    <3> QED
      BY <1>1, <1>4, <1>5, <2>1, <3>1 DEF Halla, Contesta
  <2>2. CASE q # p
    <3>1. acceso'[q] = acceso[q] /\ Halla(q) /\ Contesta(q) /\ Pagina(q)' = Pagina(q)
      BY <1>5, <2>2 DEF CInv, Pagina
    <3>2. \A j \in Entradas : <<cache'[j].pid, cache'[j].pag>> = Pagina(q) => Lleva(j, Pagina(q))
      BY <1>8 DEF Lleva
    <3>3. Halla(q)'
      BY <1>1, <3>1, <3>2 DEF Halla, Lleva
    <3>4. Contesta(q)'
      BY <1>1, <3>1 DEF Contesta
    <3> QED
      BY <3>3, <3>4
  <2> QED
    BY <2>1, <2>2
<1>16. ASSUME NEW q \in Pids PROVE CantPidEnCache(q)' <= EntradasProceso
  <2>1. CantPidEnCache(q) <= EntradasProceso /\ EntradasProceso \in Nat
    BY CacheOK DEF CInv
  <2>2. \A j \in Entradas : cache'[j].pid = q => cache[j].pid = q
    BY <1>8
  <2> QED
    BY <2>1, <2>2, CuentaMenos
<1> QED
  BY <1>11, <1>13, <1>14, <1>15, <1>16 DEF CInv

(* A word of memory changes, and no other. *)
Pone(x, k, v) == mem' = [mem EXCEPT ![x][k + 1] = v]

LEMMA CambiaPalabra ==
  ASSUME MemoriaTipo, NEW x \in DOMAIN mem, NEW k \in Palabra, NEW v \in Int, Pone(x, k, v)
  PROVE  /\ DOMAIN mem' = DOMAIN mem /\ mem' \in [DOMAIN mem -> Hoja]
         /\ \A y \in DOMAIN mem \ {x} : mem'[y] = mem[y]
         /\ \A l \in Palabra : mem'[x][l + 1] = IF l = k THEN v ELSE mem[x][l + 1]
<1> DEFINE d == [mem[x] EXCEPT ![k + 1] = v]
<1>1. mem \in [DOMAIN mem -> Hoja] /\ mem[x] \in Hoja
  BY DEF MemoriaTipo
<1>2. d \in Hoja
  BY <1>1 DEF Hoja
<1>3. \A l \in Palabra : d[l + 1] = IF l = k THEN v ELSE mem[x][l + 1]
  <2> SUFFICES ASSUME NEW l \in Palabra PROVE d[l + 1] = IF l = k THEN v ELSE mem[x][l + 1]
    OBVIOUS
  <2>1. l + 1 \in 1 .. Tam \div 4 /\ DOMAIN mem[x] = 1 .. Tam \div 4
    BY <1>1, Posiciones DEF Hoja
  <2>2. l + 1 = k + 1 <=> l = k
    BY DEF Palabra
  <2> QED
    BY <2>1, <2>2
<1>4. mem' = [mem EXCEPT ![x] = d]
  BY DEF Pone
<1> HIDE DEF d
<1> QED
  BY <1>1, <1>2, <1>3, <1>4

LEMMA BajarAMemoriaC ==
  ASSUME CInv, NEW p \in Pids, BajarAMemoria(p)
  PROVE  CInv'
<1> DEFINE x == Pagina(p)
           k == acceso[p].dir.k
           v == acceso[p].valor
           a == [acceso[p] EXCEPT !.pc = "listo", !.res = "M02", !.sucio = FALSE]
<1>1. /\ acceso[p] \in Accesos /\ acceso[p].pc = "baja" /\ acceso[p].op = "escribir"
      /\ x \in DOMAIN mem /\ k \in Palabra /\ v \in Int /\ acceso[p].pos \in Entradas \cup {-1}
      /\ UNCHANGED <<cache, libera, manchadas>> /\ orden \in Seq(Entradas)
      /\ acceso \in [Pids -> Accesos]
      /\ Pone(x, k, v)
      /\ orden' = IF acceso[p].pos = -1 THEN orden ELSE Usada(acceso[p].pos)
  BY DEF CInv, MemoriaTipo, BajarAMemoria, Accesos, Halla, Pone
<1>2. acceso' = [acceso EXCEPT ![p] = a]
  BY DEF BajarAMemoria, Responder
<1>3. /\ a \in Accesos /\ a.pc = "listo" /\ a.op = "escribir" /\ a.dir = acceso[p].dir
      /\ a.valor = v /\ a.res = "M02" /\ a.sucio = FALSE
  <2> DEFINE o == acceso[p]
  <2>1. o \in Accesos /\ o.op = "escribir" /\ a = [o EXCEPT !.pc = "listo", !.res = "M02", !.sucio = FALSE]
    BY <1>1
  <2> HIDE DEF o, a
  <2>2. /\ a \in Accesos /\ a.pc = "listo" /\ a.op = "escribir" /\ a.dir = o.dir
        /\ a.valor = o.valor /\ a.res = "M02" /\ a.sucio = FALSE
    BY <2>1 DEF Accesos
  <2> QED
    BY <2>2 DEF o
<1> HIDE DEF a
<1>4. /\ acceso' \in [Pids -> Accesos] /\ acceso'[p] = a
      /\ \A q \in Pids \ {p} : acceso'[q] = acceso[q]
  BY <1>1, <1>2, <1>3
<1>5. /\ DOMAIN mem' = DOMAIN mem /\ mem' \in [DOMAIN mem -> Hoja]
      /\ \A y \in DOMAIN mem \ {x} : mem'[y] = mem[y]
      /\ \A l \in Palabra : mem'[x][l + 1] = IF l = k THEN v ELSE mem[x][l + 1]
  BY <1>1, CambiaPalabra DEF CInv
<1>6. orden' \in Seq(Entradas) /\ ToSet(orden) \subseteq ToSet(orden')
  BY <1>1, UsadaTipo
<1>7. MemoriaTipo'
  BY <1>1, <1>4, <1>5, <1>6 DEF CInv, MemoriaTipo
<1>8. \A j \in Entradas : EntradaBien(j) /\ Coherente(j)
  BY DEF CInv
<1>9. ASSUME NEW j \in Entradas PROVE EntradaBien(j)'
  BY <1>1, <1>5, <1>6, <1>8 DEF EntradaBien, Lleva
<1>10. ASSUME NEW j \in Entradas PROVE Coherente(j)'
  <2> DEFINE q == cache[j].pid
             g == cache[j].pag
  <2> SUFFICES ASSUME q # -1, j \notin manchadas, NEW l \in Palabra
               PROVE  cache[j].datos[l + 1] =
                        IF acceso'[q].pc = "baja" /\ acceso'[q].dir.pag = g /\ acceso'[q].dir.k = l
                        THEN acceso'[q].valor ELSE mem'[<<q, g>>][l + 1]
    BY <1>1 DEF Coherente, Bajando
  <2>1. q \in Pids /\ <<q, g>> \in DOMAIN mem
    BY <1>8, Posiciones DEF CInv, EntradaBien
  <2>2. cache[j].datos[l + 1] =
           IF acceso[q].pc = "baja" /\ acceso[q].dir.pag = g /\ acceso[q].dir.k = l
           THEN acceso[q].valor ELSE mem[<<q, g>>][l + 1]
    BY <1>8, <2>1 DEF Coherente, Bajando
  <2>3. CASE q = p /\ g = acceso[p].dir.pag
    <3>1. <<q, g>> = x
      BY <2>3 DEF Pagina
    <3>2. cache[j].datos[l + 1] = IF l = k THEN v ELSE mem[x][l + 1]
      BY <1>1, <2>2, <2>3, <3>1
    <3>3. mem'[<<q, g>>][l + 1] = IF l = k THEN v ELSE mem[x][l + 1]
      BY <1>5, <3>1
    <3>4. acceso'[q].pc = "listo"
      BY <1>3, <1>4, <2>3
    <3> QED
      BY <3>2, <3>3, <3>4
  <2>4. CASE q = p /\ g # acceso[p].dir.pag
    <3>1. <<q, g>> # x
      BY <2>4 DEF Pagina
    <3>2. mem'[<<q, g>>] = mem[<<q, g>>]
      BY <1>5, <2>1, <3>1
    <3>3. acceso'[q].pc = "listo"
      BY <1>3, <1>4, <2>4
    <3> QED
      BY <2>2, <2>4, <3>2, <3>3
  <2>5. CASE q # p
    <3>1. <<q, g>> # x /\ acceso'[q] = acceso[q]
      BY <1>4, <2>1, <2>5 DEF Pagina
    <3> QED
      BY <1>5, <2>1, <2>2, <3>1
  <2> QED
    BY <2>3, <2>4, <2>5
<1>11. ASSUME NEW q \in Pids PROVE Halla(q)' /\ Contesta(q)'
  <2>1. CASE q = p
    <3>1. Pagina(p)' = x
      BY <1>3, <1>4 DEF Pagina
    <3> QED
      BY <1>1, <1>3, <1>4, <1>5, <2>1, <3>1 DEF Halla, Contesta
  <2>2. CASE q # p
    <3>1. acceso'[q] = acceso[q] /\ Halla(q) /\ Contesta(q) /\ Pagina(q)' = Pagina(q) /\ Pagina(q) # x
      BY <1>4, <2>2 DEF CInv, Pagina
    <3>2. Halla(q)'
      BY <1>1, <1>5, <3>1 DEF Halla, Lleva
    <3>3. Contesta(q)'
      <4> SUFFICES ASSUME acceso[q].pc = "listo", acceso[q].res # "M03", ~acceso[q].sucio
                   PROVE  mem'[Pagina(q)][acceso[q].dir.k + 1] = acceso[q].valor
        BY <3>1 DEF Contesta
      <4>1. Pagina(q) \in DOMAIN mem
        BY <3>1 DEF Halla
      <4> QED
        BY <1>5, <3>1, <4>1 DEF Contesta
    <3> QED
      BY <3>2, <3>3
  <2> QED
    BY <2>1, <2>2
<1>12. ASSUME NEW q \in Pids PROVE CantPidEnCache(q)' <= EntradasProceso
  BY <1>1 DEF CInv, CantPidEnCache
<1> QED
  BY <1>7, <1>9, <1>10, <1>11, <1>12 DEF CInv

LEMMA LiberarUnaPaginaC ==
  ASSUME CInv, LiberarUnaPagina, acceso[libera].pc = "nada"
  PROVE  CInv'
<1> DEFINE suyas == {y \in DOMAIN mem : y[1] = libera}
           x == <<libera, Min({y[2] : y \in suyas})>>
           i == BuscarPosCache(x)
<1>1. /\ libera \in Pids /\ acceso' = acceso /\ acceso \in [Pids -> Accesos]
      /\ cache \in [Entradas -> Entrada] /\ manchadas \subseteq Entradas /\ orden \in Seq(Entradas)
      /\ mem \in [DOMAIN mem -> Hoja] /\ DOMAIN mem \subseteq Pids \X Int
      /\ \A q \in Pids : acceso[q].pc # "trae" /\ Halla(q) /\ Contesta(q)
  BY DEF CInv, MemoriaTipo, LiberarUnaPagina, Halla
<1>2. \/ libera' = 0 /\ UNCHANGED <<mem, cache, orden, manchadas>>
      \/ /\ mem' = Restrict(mem, DOMAIN mem \ {x})
         /\ cache' = IF i = -1 THEN cache ELSE [cache EXCEPT ![i] = Vacia]
         /\ orden' = RemoveFirst(orden, i) /\ manchadas' = manchadas \ {i} /\ libera' = libera
  BY DEF LiberarUnaPagina
<1>3. /\ i \in Entradas \cup {-1}
      /\ i # -1 => Lleva(i, x)
      /\ i = -1 => \A j \in Entradas : ~Lleva(j, x)
  BY BuscarPosCacheEs
<1>4. x[1] = libera /\ \A z : x # <<z, x[2]>> <=> z # libera
  OBVIOUS
<1> HIDE DEF x, i, suyas
<1>5. CASE libera' = 0 /\ UNCHANGED <<mem, cache, orden, manchadas>>
  <2>1. MemoriaTipo'
    BY <1>1, <1>5 DEF CInv, MemoriaTipo
  <2>2. ASSUME NEW j \in Entradas PROVE EntradaBien(j)' /\ Coherente(j)'
    BY <1>1, <1>5 DEF CInv, EntradaBien, Coherente, Lleva, Bajando
  <2>3. ASSUME NEW q \in Pids PROVE Halla(q)' /\ Contesta(q)' /\ CantPidEnCache(q)' <= EntradasProceso
    <3>1. Pagina(q)' = Pagina(q)
      BY <1>1 DEF Pagina
    <3>2. Halla(q)' /\ Contesta(q)'
      BY <1>1, <1>5, <3>1 DEF Halla, Contesta, Lleva
    <3> QED
      BY <1>5, <3>2 DEF CInv, CantPidEnCache
  <2> QED
    BY <2>1, <2>2, <2>3 DEF CInv
<1>6. CASE /\ mem' = Restrict(mem, DOMAIN mem \ {x})
           /\ cache' = IF i = -1 THEN cache ELSE [cache EXCEPT ![i] = Vacia]
           /\ orden' = RemoveFirst(orden, i) /\ manchadas' = manchadas \ {i} /\ libera' = libera
  <2>1. /\ DOMAIN mem' = DOMAIN mem \ {x} /\ mem' \in [DOMAIN mem' -> Hoja]
        /\ \A y \in DOMAIN mem \ {x} : y \in DOMAIN mem' /\ mem'[y] = mem[y]
    BY <1>1, <1>6 DEF Restrict
  <2>2. orden' \in Seq(Entradas) /\ ToSet(orden) \ {i} \subseteq ToSet(orden')
    BY <1>1, <1>6, SinUno
  <2>3. /\ cache' \in [Entradas -> Entrada]
        /\ \A j \in Entradas : cache'[j] = IF j = i THEN Vacia ELSE cache[j]
    <3>1. Vacia \in Entrada
      BY DEF Entrada
    <3>2. CASE i = -1
      <4>1. \A j \in Entradas : j # i
        BY <3>2, EntradasTipo
      <4> QED
        BY <1>1, <1>6, <3>2, <4>1
    <3>3. CASE i # -1
      BY <1>1, <1>3, <1>6, <3>1, <3>3
    <3> QED
      BY <3>2, <3>3
  <2>4. Vacia.pid = -1
    BY DEF Vacia
  <2>5. MemoriaTipo'
    BY <1>1, <1>6, <2>1, <2>2, <2>3 DEF CInv, MemoriaTipo
  <2>6. \A j \in Entradas : EntradaBien(j) /\ Coherente(j)
    BY DEF CInv
  <2>7. ASSUME NEW j \in Entradas, j # i, cache[j].pid # -1
        PROVE  <<cache[j].pid, cache[j].pag>> # x
    <3>1. CASE i = -1
      BY <1>3, <2>7, <3>1 DEF Lleva
    <3>2. CASE i # -1
      <4>1. i \in Entradas /\ Lleva(i, x)
        BY <1>3, <3>2
      <4>2. cache[i].pid = libera
        BY <1>4, <4>1 DEF Lleva
      <4>3. cache[i].pid # -1
        BY <1>1, <4>2, Posiciones DEF CInv
      <4> QED
        BY <2>6, <2>7, <4>1, <4>3 DEF EntradaBien, Lleva
    <3> QED
      BY <3>1, <3>2
  <2>8. ASSUME NEW j \in Entradas PROVE EntradaBien(j)' /\ Coherente(j)'
    <3>1. CASE j = i
      <4>1. cache'[j].pid = -1
        BY <2>3, <2>4, <3>1
      <4> QED
        BY <4>1 DEF EntradaBien, Coherente
    <3>2. CASE j # i
      <4>1. cache'[j] = cache[j]
        BY <2>3, <3>2
      <4> SUFFICES ASSUME cache[j].pid # -1 PROVE EntradaBien(j)' /\ Coherente(j)'
        BY <4>1 DEF EntradaBien, Coherente
      <4> DEFINE y == <<cache[j].pid, cache[j].pag>>
      <4>2. y \in DOMAIN mem /\ j \in ToSet(orden) /\ \A l \in Entradas \ {j} : ~Lleva(l, y)
        BY <2>6 DEF EntradaBien
      <4>3. y \in DOMAIN mem' /\ mem'[y] = mem[y]
        BY <2>1, <2>7, <3>2, <4>2
      <4>4. j \in ToSet(orden')
        BY <2>2, <3>2, <4>2
      <4>5. ASSUME NEW l \in Entradas \ {j} PROVE <<cache'[l].pid, cache'[l].pag>> # y
        <5>1. CASE l = i
          BY <2>3, <2>4, <5>1
        <5>2. CASE l # i
          BY <2>3, <4>2, <5>2 DEF Lleva
        <5> QED
          BY <5>1, <5>2
      <4>6. EntradaBien(j)'
        BY <4>1, <4>3, <4>4, <4>5 DEF EntradaBien, Lleva
      <4>7. j \in manchadas' <=> j \in manchadas
        BY <1>6, <3>2
      <4>8. Coherente(j)'
        <5> SUFFICES ASSUME j \notin manchadas, NEW l \in Palabra
                     PROVE  cache[j].datos[l + 1] =
                              IF Bajando(cache[j].pid, cache[j].pag, l) THEN acceso[cache[j].pid].valor
                              ELSE mem'[y][l + 1]
          BY <1>1, <4>1, <4>7 DEF Coherente, Bajando
        <5>1. cache[j].datos[l + 1] =
                 IF Bajando(cache[j].pid, cache[j].pag, l) THEN acceso[cache[j].pid].valor
                 ELSE mem[y][l + 1]
          BY <2>6 DEF Coherente
        <5> QED
          BY <4>3, <5>1
      <4> QED
        BY <4>6, <4>8
    <3> QED
      BY <3>1, <3>2
  <2>9. ASSUME NEW q \in Pids PROVE Halla(q)' /\ Contesta(q)'
    <3>1. CASE acceso[q].pc = "nada"
      BY <1>1, <3>1 DEF Halla, Contesta
    <3>2. CASE acceso[q].pc # "nada"
      <4>1. q # libera /\ Pagina(q)' = Pagina(q) /\ Pagina(q)[1] = q
        BY <1>1, <3>2 DEF Pagina
      <4>2. Pagina(q) # x
        BY <1>4, <4>1
      <4>3. \A j \in Entradas : <<cache'[j].pid, cache'[j].pag>> = Pagina(q) => Lleva(j, Pagina(q))
        <5> SUFFICES ASSUME NEW j \in Entradas, <<cache'[j].pid, cache'[j].pag>> = Pagina(q)
                     PROVE  Lleva(j, Pagina(q))
          OBVIOUS
        <5>1. cache'[j].pid = q /\ q # -1
          BY Posiciones DEF Pagina, CInv
        <5>2. j # i
          BY <2>3, <2>4, <5>1
        <5> QED
          BY <2>3, <5>2 DEF Lleva
      <4>4. Pagina(q) \in DOMAIN mem => Pagina(q) \in DOMAIN mem' /\ mem'[Pagina(q)] = mem[Pagina(q)]
        BY <2>1, <4>2
      <4>5. Halla(q)'
        BY <1>1, <4>1, <4>3, <4>4 DEF Halla, Lleva
      <4>6. Contesta(q)'
        <5> SUFFICES ASSUME acceso[q].pc = "listo", acceso[q].res # "M03", ~acceso[q].sucio
                     PROVE  mem'[Pagina(q)][acceso[q].dir.k + 1] = acceso[q].valor
          BY <1>1, <4>1 DEF Contesta
        <5>1. Pagina(q) \in DOMAIN mem
          BY <1>1 DEF Halla
        <5> QED
          BY <1>1, <4>4, <5>1 DEF Contesta
      <4> QED
        BY <4>5, <4>6
    <3> QED
      BY <3>1, <3>2
  <2>10. ASSUME NEW q \in Pids PROVE CantPidEnCache(q)' <= EntradasProceso
    <3>1. CantPidEnCache(q) <= EntradasProceso /\ EntradasProceso \in Nat /\ q # -1
      BY CacheOK, Posiciones DEF CInv
    <3>2. \A j \in Entradas : cache'[j].pid = q => cache[j].pid = q
      BY <2>3, <2>4, <3>1
    <3> QED
      BY <3>1, <3>2, CuentaMenos
  <2> QED
    BY <2>5, <2>8, <2>9, <2>10 DEF CInv
<1> QED
  BY <1>2, <1>5, <1>6

(* Memory with more pages, and the others as they were *)
LEMMA MasPaginas ==
  ASSUME CInv, DOMAIN mem \subseteq DOMAIN mem', DOMAIN mem' \subseteq Pids \X Int,
         mem' \in [DOMAIN mem' -> Hoja], \A y \in DOMAIN mem : mem'[y] = mem[y],
         UNCHANGED <<cache, orden, acceso, libera, manchadas>>
  PROVE  CInv'
<1>1. MemoriaTipo'
  BY DEF CInv, MemoriaTipo
<1>2. ASSUME NEW j \in Entradas PROVE EntradaBien(j)' /\ Coherente(j)'
  <2>1. EntradaBien(j) /\ Coherente(j)
    BY DEF CInv
  <2>2. EntradaBien(j)'
    BY <2>1 DEF EntradaBien, Lleva
  <2>3. cache[j].pid # -1 => mem'[<<cache[j].pid, cache[j].pag>>] = mem[<<cache[j].pid, cache[j].pag>>]
    BY <2>1 DEF EntradaBien
  <2>4. Coherente(j)'
    BY <2>1, <2>3 DEF Coherente, Bajando
  <2> QED
    BY <2>2, <2>4
<1>3. ASSUME NEW q \in Pids PROVE Halla(q)' /\ Contesta(q)' /\ CantPidEnCache(q)' <= EntradasProceso
  <2>1. Halla(q) /\ Contesta(q) /\ Pagina(q)' = Pagina(q)
    BY DEF CInv, Pagina
  <2>2. Halla(q)'
    BY <2>1 DEF Halla, Lleva
  <2>3. Contesta(q)'
    <3> SUFFICES ASSUME acceso[q].pc = "listo", acceso[q].res # "M03", ~acceso[q].sucio
                 PROVE  mem'[Pagina(q)][acceso[q].dir.k + 1] = acceso[q].valor
      BY <2>1 DEF Contesta
    <3>1. Pagina(q) \in DOMAIN mem
      BY <2>1 DEF Halla
    <3> QED
      BY <2>1, <3>1 DEF Contesta
  <2> QED
    BY <2>2, <2>3 DEF CInv, CantPidEnCache
<1> QED
  BY <1>1, <1>2, <1>3 DEF CInv

LEMMA K25C ==
  ASSUME CInv, NEW p \in Pids, K25(p)
  PROVE  CInv'
<1>1. /\ UNCHANGED <<mem, cache, orden, acceso, manchadas>> /\ libera' = p
      /\ \A q \in Pids : acceso[q].pc # "trae"
  BY DEF K25, CacheLibre
<1>2. MemoriaTipo'
  BY <1>1 DEF CInv, MemoriaTipo
<1>3. ASSUME NEW j \in Entradas PROVE EntradaBien(j)' /\ Coherente(j)'
  BY <1>1 DEF CInv, EntradaBien, Coherente, Lleva, Bajando
<1>4. ASSUME NEW q \in Pids PROVE Halla(q)' /\ Contesta(q)' /\ CantPidEnCache(q)' <= EntradasProceso
  <2>1. Halla(q) /\ Contesta(q) /\ Pagina(q)' = Pagina(q) /\ acceso[q].pc # "trae"
    BY <1>1 DEF CInv, Pagina
  <2>2. Halla(q)' /\ Contesta(q)'
    BY <1>1, <2>1 DEF Halla, Contesta, Lleva
  <2> QED
    BY <1>1, <2>2 DEF CInv, CantPidEnCache
<1> QED
  BY <1>2, <1>3, <1>4 DEF CInv
-----------------------------------------------------------------------------
(* The threads, and the programs that wait for them *)

Hilo(p) == SolicitarBytes(p) \/ TraerPagina(p) \/ AlmacenarBytes(p) \/ CopiarEnCache(p) \/ BajarAMemoria(p)

LEMMA HiloC ==
  ASSUME CInv, NEW p \in Pids, Hilo(p)
  PROVE  CInv'
BY SolicitarBytesC, TraerPaginaC, AlmacenarBytesC, CopiarEnCacheC, BajarAMemoriaC DEF Hilo

(* A thread only touches the request it serves, which is under way. *)
LEMMA HiloSirve ==
  ASSUME MemoriaTipo, NEW p \in Pids, Hilo(p)
  PROVE  /\ acceso[p].pc \notin {"nada", "listo"} /\ libera' = libera
         /\ acceso'[p].op = acceso[p].op /\ acceso'[p].dir = acceso[p].dir
         /\ \A q \in Pids \ {p} : acceso'[q] = acceso[q]
<1>1. acceso \in [Pids -> Accesos] /\ acceso[p] \in Accesos
  BY DEF MemoriaTipo
<1>2. CASE SolicitarBytes(p)
  <2> DEFINE i == BuscarPosCache(Pagina(p))
  <2>1. /\ acceso[p].pc = "pide" /\ libera' = libera
        /\ \/ Responder(p, "M03", FALSE)
           \/ acceso' = [acceso EXCEPT ![p] = [@ EXCEPT
                !.pc = "listo", !.res = "M08", !.valor = cache[i].datos[acceso[p].dir.k + 1],
                !.sucio = i \in manchadas]]
           \/ acceso' = [acceso EXCEPT ![p].pc = "trae"]
    BY <1>2 DEF SolicitarBytes
  <2> HIDE DEF i
  <2>2. CASE Responder(p, "M03", FALSE)
    BY <1>1, <2>1, <2>2 DEF Responder, Accesos
  <2>3. CASE acceso' = [acceso EXCEPT ![p] = [@ EXCEPT
               !.pc = "listo", !.res = "M08", !.valor = cache[i].datos[acceso[p].dir.k + 1],
               !.sucio = i \in manchadas]]
    BY <1>1, <2>1, <2>3 DEF Accesos
  <2>4. CASE acceso' = [acceso EXCEPT ![p].pc = "trae"]
    BY <1>1, <2>1, <2>4 DEF Accesos
  <2> QED
    BY <2>1, <2>2, <2>3, <2>4
<1>3. CASE TraerPagina(p)
  BY <1>1, <1>3 DEF TraerPagina, Accesos
<1>4. CASE AlmacenarBytes(p)
  <2> DEFINE i == BuscarPosCache(Pagina(p))
  <2>1. /\ acceso[p].pc = "pide" /\ libera' = libera
        /\ \/ Responder(p, "M03", FALSE)
           \/ acceso' = [acceso EXCEPT ![p].pc = IF i = -1 THEN "baja" ELSE "copia", ![p].pos = i]
    BY <1>4 DEF AlmacenarBytes
  <2> HIDE DEF i
  <2>2. CASE Responder(p, "M03", FALSE)
    BY <1>1, <2>1, <2>2 DEF Responder, Accesos
  <2>3. CASE acceso' = [acceso EXCEPT ![p].pc = IF i = -1 THEN "baja" ELSE "copia", ![p].pos = i]
    BY <1>1, <2>1, <2>3 DEF Accesos
  <2> QED
    BY <2>1, <2>2, <2>3
<1>5. CASE CopiarEnCache(p)
  BY <1>1, <1>5 DEF CopiarEnCache, Accesos
<1>6. CASE BajarAMemoria(p)
  BY <1>1, <1>6 DEF BajarAMemoria, Responder, Accesos
<1> QED
  BY <1>2, <1>3, <1>4, <1>5, <1>6 DEF Hilo

(* What was stored stays, when the words it is in do. *)
LEMMA SigueGuardado ==
  ASSUME AInv, NEW q \in Pids, asignado'[q] = asignado[q], pisado'[q] = pisado[q],
         estado'[q] # "terminado" =>
           estado[q] # "terminado" /\ \A g : <<q, g>> \in DOMAIN mem => <<q, g>> \in DOMAIN mem',
         \A a \in DOMAIN asignado[q] : a \in Int \X Palabra /\ <<q, a[1]>> \in DOMAIN mem' /\ ~Escrita(q, a)' =>
           /\ <<q, a[1]>> \in DOMAIN mem /\ ~Escrita(q, a)
           /\ mem'[<<q, a[1]>>][a[2] + 1] = mem[<<q, a[1]>>][a[2] + 1]
  PROVE  Guardado(q)'
<1>1. Guardado(q) /\ DOMAIN asignado[q] \subseteq Int \X Palabra
  BY DEF AInv, Guardado
<1>2. estado'[q] # "terminado" => \A a \in DOMAIN asignado[q] : <<q, a[1]>> \in DOMAIN mem'
  BY <1>1 DEF Guardado
<1>3. ASSUME NEW a \in DOMAIN asignado[q] \ pisado[q], <<q, a[1]>> \in DOMAIN mem', ~Escrita(q, a)'
      PROVE  mem'[<<q, a[1]>>][a[2] + 1] = asignado[q][a]
  <2>1. /\ <<q, a[1]>> \in DOMAIN mem /\ ~Escrita(q, a)
        /\ mem'[<<q, a[1]>>][a[2] + 1] = mem[<<q, a[1]>>][a[2] + 1]
    BY <1>1, <1>3
  <2>2. mem[<<q, a[1]>>][a[2] + 1] = asignado[q][a]
    BY <1>1, <2>1 DEF Guardado
  <2> QED
    BY <2>1, <2>2
<1> QED
  BY <1>1, <1>2, <1>3 DEF Guardado

LEMMA HiloA ==
  ASSUME CInv, AInv, NEW p \in Pids, Hilo(p), UNCHANGED <<estado, asignado, pisado>>
  PROVE  AInv'
<1>1. /\ acceso[p].pc \notin {"nada", "listo"}
      /\ acceso'[p].op = acceso[p].op /\ acceso'[p].dir = acceso[p].dir
      /\ \A q \in Pids \ {p} : acceso'[q] = acceso[q]
  BY HiloSirve DEF CInv
<1>2. \A q \in Pids : \A a : Escrita(q, a) => Escrita(q, a)'
  <2> SUFFICES ASSUME NEW q \in Pids, NEW a, Escrita(q, a) PROVE Escrita(q, a)'
    OBVIOUS
  <2>1. q # p
    BY <1>1 DEF Escrita
  <2> QED
    BY <1>1, <2>1 DEF Escrita, Dir
<1>3. ASSUME NEW q \in Pids PROVE Guardado(q)'
  <2>1. CASE BajarAMemoria(p)
    <3> DEFINE x == Pagina(p)
               k == acceso[p].dir.k
    <3>1. /\ acceso[p].pc = "baja" /\ acceso[p].op = "escribir" /\ acceso[p] \in Accesos
          /\ x \in DOMAIN mem /\ k \in Palabra /\ acceso[p].valor \in Int
          /\ Pone(x, k, acceso[p].valor)
      <4>1. acceso[p] \in Accesos /\ Halla(p)
        BY DEF CInv, MemoriaTipo
      <4>2. acceso[p].pc = "baja" /\ Pone(x, k, acceso[p].valor)
        BY <2>1 DEF BajarAMemoria, Pone
      <4>3. acceso[p].op = "escribir" /\ x \in DOMAIN mem
        BY <4>1, <4>2 DEF Halla
      <4>4. k \in Palabra /\ acceso[p].valor \in Int
        BY <4>1 DEF Accesos
      <4> QED
        BY <4>1, <4>2, <4>3, <4>4
    <3>3. acceso'[p].pc = "listo" /\ acceso'[p].op = "escribir" /\ acceso'[p].res = "M02"
      <4> DEFINE o == acceso[p]
                 c == [o EXCEPT !.pc = "listo", !.res = "M02", !.sucio = FALSE]
      <4>1. acceso' = [acceso EXCEPT ![p] = c] /\ acceso \in [Pids -> Accesos]
        BY <2>1 DEF BajarAMemoria, Responder, CInv, MemoriaTipo
      <4>2. o \in Accesos /\ o.op = "escribir"
        BY <3>1
      <4> HIDE DEF o
      <4>3. c.pc = "listo" /\ c.op = "escribir" /\ c.res = "M02"
        BY <4>2 DEF Accesos
      <4> HIDE DEF c
      <4> QED
        BY <4>1, <4>3
    <3>4. /\ DOMAIN mem' = DOMAIN mem
          /\ \A y \in DOMAIN mem \ {x} : mem'[y] = mem[y]
          /\ \A l \in Palabra : mem'[x][l + 1] = IF l = k THEN acceso[p].valor ELSE mem[x][l + 1]
      BY <3>1, CambiaPalabra DEF CInv
    <3>5. ASSUME NEW a \in Int \X Palabra, <<q, a[1]>> \in DOMAIN mem, ~Escrita(q, a)'
          PROVE  mem'[<<q, a[1]>>][a[2] + 1] = mem[<<q, a[1]>>][a[2] + 1]
      <4>1. CASE <<q, a[1]>> # x
        BY <3>4, <3>5, <4>1
      <4>2. CASE <<q, a[1]>> = x
        <5>1. q = p /\ a[1] = acceso[p].dir.pag /\ a = <<a[1], a[2]>> /\ a[2] \in Palabra
          BY <4>2 DEF Pagina
        <5>2. a[2] # k
          BY <1>1, <3>3, <3>5, <5>1 DEF Escrita, Dir
        <5> QED
          BY <3>4, <4>2, <5>1, <5>2
      <4> QED
        BY <4>1, <4>2
    <3> QED
      BY <1>2, <3>4, <3>5, SigueGuardado
  <2>2. CASE ~BajarAMemoria(p)
    <3>1. mem' = mem
      BY <2>2 DEF Hilo, SolicitarBytes, TraerPagina, AlmacenarBytes, CopiarEnCache
    <3> QED
      BY <1>2, <3>1, SigueGuardado
  <2> QED
    BY <2>1, <2>2
<1> QED
  BY <1>3 DEF AInv

LEMMA LiberarUnaPaginaA ==
  ASSUME CInv, AInv, LiberarUnaPagina, estado[libera] = "terminado",
         UNCHANGED <<estado, asignado, pisado>>
  PROVE  AInv'
<1> DEFINE suyas == {y \in DOMAIN mem : y[1] = libera}
           x == <<libera, Min({y[2] : y \in suyas})>>
<1>1. acceso' = acceso /\ (mem' = mem \/ mem' = Restrict(mem, DOMAIN mem \ {x}))
  BY DEF LiberarUnaPagina
<1>2. \A q, g : q # libera => <<q, g>> # x
  OBVIOUS
<1> HIDE DEF x, suyas
<1>3. ASSUME NEW q \in Pids PROVE Guardado(q)'
  <2>1. \A y \in DOMAIN mem' : y \in DOMAIN mem /\ mem'[y] = mem[y]
    BY <1>1 DEF Restrict
  <2>2. estado[q] # "terminado" => \A g : <<q, g>> \in DOMAIN mem => <<q, g>> \in DOMAIN mem'
    BY <1>1, <1>2 DEF Restrict
  <2>3. \A a : Escrita(q, a)' <=> Escrita(q, a)
    BY <1>1 DEF Escrita, Dir
  <2> QED
    BY <2>1, <2>2, <2>3, SigueGuardado
<1> QED
  BY <1>3 DEF AInv

LEMMA HilosP ==
  ASSUME PInv, CInv, Hilos, UNCHANGED progVars
  PROVE  PInv'
<1>1. ASSUME NEW q \in Pids PROVE acceso'[q].pc # "nada" => acceso[q].pc # "nada" /\ acceso'[q].op = acceso[q].op
  <2>1. CASE LiberarUnaPagina
    BY <2>1 DEF LiberarUnaPagina
  <2>2. ASSUME NEW p \in Pids, Hilo(p)
        PROVE  acceso'[q].pc # "nada" => acceso[q].pc # "nada" /\ acceso'[q].op = acceso[q].op
    BY <2>2, HiloSirve DEF CInv
  <2> QED
    BY <2>1, <2>2 DEF Hilos, Hilo
<1>2. libera' = libera \/ libera' = 0
  <2>1. CASE LiberarUnaPagina
    BY <2>1 DEF LiberarUnaPagina
  <2>2. ASSUME NEW p \in Pids, Hilo(p) PROVE libera' = libera
    BY <2>2, HiloSirve DEF CInv
  <2> QED
    BY <2>1, <2>2 DEF Hilos, Hilo
<1>3. UNCHANGED <<texto, pcb, estado, cpu>>
  BY DEF progVars
<1>4. ASSUME NEW q \in Pids PROVE ProgramaBien(q)'
  <2>1. ProgramaBien(q)
    BY DEF PInv
  <2> QED
    BY <1>1, <1>3, <2>1 DEF ProgramaBien, Encargo
<1> QED
  BY <1>2, <1>3, <1>4 DEF PInv

LEMMA HilosInv ==
  ASSUME PInv, CInv, AInv, Hilos, UNCHANGED progVars
  PROVE  PInv' /\ CInv' /\ AInv'
<1>1. UNCHANGED <<estado, asignado, pisado>>
  BY DEF progVars
<1>2. CASE LiberarUnaPagina
  <2>1. libera \in Pids /\ estado[libera] = "terminado"
    BY <1>2 DEF PInv, LiberarUnaPagina
  <2>2. acceso[libera].pc = "nada"
    BY <2>1 DEF PInv, ProgramaBien, Encargo
  <2> QED
    BY <1>1, <1>2, <2>1, <2>2, HilosP, LiberarUnaPaginaC, LiberarUnaPaginaA
<1>3. ASSUME NEW p \in Pids, Hilo(p) PROVE CInv' /\ AInv'
  BY <1>1, <1>3, HiloC, HiloA
<1> QED
  BY <1>2, <1>3, HilosP DEF Hilos, Hilo
-----------------------------------------------------------------------------
(* The steps of a program, one shape at a time *)

Inv == PInv /\ CInv /\ AInv

(* The CPU alone, while Memoria has no request of its *)
LEMMA PasoSolo ==
  ASSUME Inv, NEW p \in Pids, acceso[p].pc = "nada", estado[p] # "terminado",
         UNCHANGED <<texto, asignado, pisado, cacheVars>>,
         NEW b \in Pcbs, pcb' = [pcb EXCEPT ![p] = b],
         NEW c \in Controles, cpu' = [cpu EXCEPT ![p] = c],
         NEW e \in Estados, estado' = [estado EXCEPT ![p] = e],
         Fijo(b, texto[p]), Crece(b.in_stack)
  PROVE  Inv'
<1>1. /\ pcb' \in [Pids -> Pcbs] /\ pcb'[p] = b /\ \A q \in Pids \ {p} : pcb'[q] = pcb[q]
      /\ cpu' \in [Pids -> Controles] /\ cpu'[p] = c /\ \A q \in Pids \ {p} : cpu'[q] = cpu[q]
      /\ estado' \in [Pids -> Estados] /\ \A q \in Pids \ {p} : estado'[q] = estado[q]
      /\ UNCHANGED <<mem, cache, orden, acceso, libera, roto, manchadas>>
  BY DEF Inv, PInv, cacheVars
<1>2. ASSUME NEW q \in Pids PROVE ProgramaBien(q)'
  <2>1. CASE q = p
    BY <1>1, <2>1 DEF ProgramaBien, Encargo
  <2>2. CASE q # p
    <3>1. ProgramaBien(q)
      BY DEF Inv, PInv
    <3> QED
      BY <1>1, <2>2, <3>1 DEF ProgramaBien
  <2> QED
    BY <2>1, <2>2
<1>3. PInv'
  BY <1>1, <1>2 DEF Inv, PInv
<1>4. CInv'
  <2> DEFINE a == acceso[p]
  <2>1. a \in Accesos /\ acceso' = [acceso EXCEPT ![p] = a] /\ orden \in Seq(Entradas)
    BY <1>1 DEF Inv, CInv, MemoriaTipo
  <2>2. Halla(p)' /\ Contesta(p)'
    BY <1>1 DEF Halla, Contesta
  <2> QED
    BY <1>1, <2>1, <2>2, SoloAcceso DEF Inv
<1>5. ASSUME NEW q \in Pids PROVE Guardado(q)'
  <2>1. \A a : Escrita(q, a)' <=> Escrita(q, a)
    BY <1>1 DEF Escrita, Dir
  <2>2. estado'[q] # "terminado" => estado[q] # "terminado"
    BY <1>1
  <2> QED
    BY <1>1, <2>1, <2>2, SigueGuardado DEF Inv
<1>6. AInv'
  BY <1>5 DEF Inv, AInv
<1> QED
  BY <1>3, <1>4, <1>6 DEF Inv

(* A request goes out. *)
LEMMA PasoPide ==
  ASSUME Inv, NEW p \in Pids, acceso[p].pc = "nada",
         estado[p] = "cpu", cpu[p].fase = "ejecuta", cpu[p].tarea # <<>>,
         NEW op \in {"leer", "escribir"}, NEW d \in [pag : Int, k : Palabra], NEW v \in Int,
         NEW kernel \in BOOLEAN, Pide(p, op, d, v, kernel),
         \/ Head(cpu[p].tarea)[1] \in Lee /\ op = "leer"
         \/ Head(cpu[p].tarea)[1] \in Escribe /\ op = "escribir",
         Head(cpu[p].tarea)[1] = "retornar" => pcb[p].SP # -1
  PROVE  Inv'
<1> DEFINE a == [Nada EXCEPT !.pc = "pide", !.op = op, !.dir = d, !.valor = v, !.kernel = kernel]
<1>1. /\ acceso' = [acceso EXCEPT ![p] = a]
      /\ UNCHANGED <<mem, cache, orden, libera, roto, manchadas, texto, pcb, estado, cpu, asignado, pisado>>
  BY DEF Pide, progVars
<1>2. a \in Accesos /\ a.pc = "pide" /\ a.op = op
  BY DEF Nada, Accesos
<1> HIDE DEF a
<1>3. /\ acceso'[p] = a /\ \A q \in Pids \ {p} : acceso'[q] = acceso[q]
  BY <1>1, <1>2 DEF Inv, CInv, MemoriaTipo
<1>4. ASSUME NEW q \in Pids PROVE ProgramaBien(q)'
  <2>1. ProgramaBien(q)
    BY DEF Inv, PInv
  <2>2. CASE q = p
    <3>1. Encargo(acceso[q], estado[q], cpu[q], pcb[q])'
      BY <1>1, <1>2, <1>3, <2>2 DEF Encargo
    <3> QED
      BY <1>1, <2>1, <3>1 DEF ProgramaBien
  <2>3. CASE q # p
    BY <1>1, <1>3, <2>1, <2>3 DEF ProgramaBien
  <2> QED
    BY <2>2, <2>3
<1>5. PInv'
  BY <1>1, <1>4 DEF Inv, PInv
<1>6. Halla(p)' /\ Contesta(p)'
  BY <1>2, <1>3 DEF Halla, Contesta
<1>7. CInv'
  BY <1>1, <1>2, <1>6, SoloAcceso DEF Inv, CInv, MemoriaTipo
<1>8. ASSUME NEW q \in Pids PROVE Guardado(q)'
  <2>1. \A w : Escrita(q, w)' <=> Escrita(q, w)
    BY <1>2, <1>3 DEF Escrita, Dir
  <2> QED
    BY <1>1, <2>1, SigueGuardado DEF Inv
<1>9. AInv'
  BY <1>1, <1>8 DEF Inv, AInv
<1> QED
  BY <1>5, <1>7, <1>9 DEF Inv

(* An answer is taken: the programs and Memoria *)
LEMMA PasoRecibe ==
  ASSUME Inv, NEW p \in Pids, acceso[p].pc = "listo", acceso' = [acceso EXCEPT ![p] = Nada],
         UNCHANGED <<mem, cache, orden, libera, roto, manchadas, texto, estado>>,
         NEW b \in Pcbs, pcb' = [pcb EXCEPT ![p] = b],
         NEW c \in Controles, cpu' = [cpu EXCEPT ![p] = c],
         Fijo(b, texto[p]), Crece(b.in_stack)
  PROVE  PInv' /\ CInv'
<1>1. /\ pcb' \in [Pids -> Pcbs] /\ pcb'[p] = b /\ \A q \in Pids \ {p} : pcb'[q] = pcb[q]
      /\ cpu' \in [Pids -> Controles] /\ cpu'[p] = c /\ \A q \in Pids \ {p} : cpu'[q] = cpu[q]
  BY DEF Inv, PInv
<1>2. Nada \in Accesos /\ Nada.pc = "nada"
  <2>1. 0 \in Palabra
    BY PaginaEntera, 0 \in Nat
  <2>2. [pag |-> 0, k |-> 0] \in [pag : Int, k : Palabra]
    BY <2>1
  <2> QED
    BY <2>2 DEF Nada, Accesos
<1>3. acceso'[p] = Nada /\ \A q \in Pids \ {p} : acceso'[q] = acceso[q]
  BY <1>2 DEF Inv, CInv, MemoriaTipo
<1>4. ASSUME NEW q \in Pids PROVE ProgramaBien(q)'
  <2>1. CASE q = p
    BY <1>1, <1>2, <1>3, <2>1 DEF ProgramaBien, Encargo
  <2>2. CASE q # p
    <3>1. ProgramaBien(q)
      BY DEF Inv, PInv
    <3> QED
      BY <1>1, <1>3, <2>2, <3>1 DEF ProgramaBien
  <2> QED
    BY <2>1, <2>2
<1>5. PInv'
  BY <1>1, <1>4 DEF Inv, PInv
<1>6. Halla(p)' /\ Contesta(p)'
  BY <1>2, <1>3 DEF Halla, Contesta
<1>7. CInv'
  BY <1>2, <1>6, SoloAcceso DEF Inv, CInv, MemoriaTipo
<1> QED
  BY <1>5, <1>7

(* An answer is taken: what was stored.  Nothing, unless it was a write. *)
LEMMA RecibeLeido ==
  ASSUME Inv, NEW p \in Pids, acceso[p].op # "escribir" \/ acceso[p].res # "M02",
         acceso' = [acceso EXCEPT ![p] = Nada], UNCHANGED <<mem, estado, asignado, pisado>>
  PROVE  AInv'
<1>1. Nada.pc = "nada"
  BY DEF Nada
<1>2. acceso'[p] = Nada /\ \A q \in Pids \ {p} : acceso'[q] = acceso[q]
  BY DEF Inv, CInv, MemoriaTipo
<1>3. ASSUME NEW q \in Pids PROVE Guardado(q)'
  <2>1. \A a : Escrita(q, a) => Escrita(q, a)'
    BY <1>2 DEF Escrita, Dir
  <2> QED
    BY <2>1, SigueGuardado DEF Inv
<1> QED
  BY <1>3 DEF Inv, AInv

Guarda(p) ==
  \/ /\ pisado' = [pisado EXCEPT ![p] = @ \cup {Dir(p)}]
     /\ asignado' = asignado
  \/ /\ asignado' = [asignado EXCEPT ![p] = Con(@, Dir(p), acceso[p].valor)]
     /\ pisado' = pisado

LEMMA RecibeEscrito ==
  ASSUME Inv, NEW p \in Pids, acceso[p].pc = "listo", acceso[p].op = "escribir", acceso[p].res = "M02",
         acceso' = [acceso EXCEPT ![p] = Nada], UNCHANGED <<mem, estado>>, Guarda(p)
  PROVE  AInv'
<1> DEFINE d == Dir(p)
           v == acceso[p].valor
           f == asignado[p]
<1>1. Nada.pc = "nada"
  BY DEF Nada
<1>2. acceso'[p] = Nada /\ \A q \in Pids \ {p} : acceso'[q] = acceso[q]
  BY DEF Inv, CInv, MemoriaTipo
<1>3. /\ d \in Int \X Palabra /\ Pagina(p) = <<p, d[1]>> /\ d[2] = acceso[p].dir.k
      /\ Pagina(p) \in DOMAIN mem /\ mem[<<p, d[1]>>][d[2] + 1] = v
  <2>1. acceso[p] \in Accesos /\ Halla(p) /\ Contesta(p)
    BY DEF Inv, CInv, MemoriaTipo
  <2>2. acceso[p].dir.pag \in Int /\ acceso[p].dir.k \in Palabra
    BY <2>1 DEF Accesos
  <2>3. d = <<acceso[p].dir.pag, acceso[p].dir.k>>
    BY DEF Dir
  <2>4. Pagina(p) \in DOMAIN mem /\ mem[Pagina(p)][acceso[p].dir.k + 1] = v
    BY <2>1 DEF Halla, Contesta
  <2> QED
    BY <2>2, <2>3, <2>4 DEF Pagina
<1>4. \A q \in Pids : Guardado(q)
  BY DEF Inv, AInv
<1>5. \A a : Escrita(p, a) <=> a = d
  BY DEF Escrita
<1>6. \A q \in Pids : \A a : Escrita(q, a)' => q # p
  BY <1>1, <1>2 DEF Escrita
<1> HIDE DEF d
<1>7. DOMAIN asignado = Pids /\ DOMAIN pisado = Pids
  BY DEF Inv, AInv
<1>8. ASSUME NEW q \in Pids, q # p PROVE Guardado(q)'
  <2>1. asignado'[q] = asignado[q] /\ pisado'[q] = pisado[q]
    BY <1>7, <1>8 DEF Guarda
  <2>2. \A a : Escrita(q, a)' <=> Escrita(q, a)
    BY <1>2, <1>8 DEF Escrita, Dir
  <2> QED
    BY <2>1, <2>2, SigueGuardado DEF Inv
<1>9. Guardado(p)'
  <2>1. CASE pisado' = [pisado EXCEPT ![p] = @ \cup {d}] /\ asignado' = asignado
    <3>1. pisado'[p] = pisado[p] \cup {d}
      BY <1>7, <2>1
    <3>2. ASSUME NEW a \in DOMAIN f \ pisado'[p], <<p, a[1]>> \in DOMAIN mem
          PROVE  mem[<<p, a[1]>>][a[2] + 1] = f[a]
      <4>1. a \in DOMAIN f \ pisado[p] /\ ~Escrita(p, a)
        BY <1>5, <3>1, <3>2
      <4> QED
        BY <1>4, <3>2, <4>1 DEF Guardado
    <3> QED
      BY <1>4, <2>1, <3>2 DEF Guardado
  <2>2. CASE asignado' = [asignado EXCEPT ![p] = Con(@, d, v)] /\ pisado' = pisado
    <3>1. asignado'[p] = Con(f, d, v)
      BY <1>7, <2>2
    <3>2. /\ DOMAIN asignado'[p] = DOMAIN f \cup {d}
          /\ \A a \in DOMAIN f \cup {d} : asignado'[p][a] = IF a = d THEN v ELSE f[a]
      BY <3>1 DEF Con
    <3>3. DOMAIN asignado'[p] \subseteq Int \X Palabra
      BY <1>3, <1>4, <3>2 DEF Guardado
    <3>4. estado[p] # "terminado" => \A a \in DOMAIN asignado'[p] : <<p, a[1]>> \in DOMAIN mem
      BY <1>3, <1>4, <3>2 DEF Guardado
    <3>5. ASSUME NEW a \in DOMAIN asignado'[p] \ pisado[p], <<p, a[1]>> \in DOMAIN mem
          PROVE  mem[<<p, a[1]>>][a[2] + 1] = asignado'[p][a]
      <4>1. CASE a = d
        BY <1>3, <3>2, <4>1
      <4>2. CASE a # d
        <5>1. a \in DOMAIN f \ pisado[p] /\ ~Escrita(p, a) /\ asignado'[p][a] = f[a]
          BY <1>5, <3>2, <3>5, <4>2
        <5> QED
          BY <1>4, <3>5, <5>1 DEF Guardado
      <4> QED
        BY <4>1, <4>2
    <3> QED
      BY <2>2, <3>3, <3>4, <3>5 DEF Guardado
  <2> QED
    BY <2>1, <2>2 DEF Guarda, d
<1>10. /\ asignado' = [q \in Pids |-> asignado'[q]] /\ pisado' = [q \in Pids |-> pisado'[q]]
  BY DEF Inv, AInv, Guarda
<1> QED
  BY <1>8, <1>9, <1>10 DEF AInv
-----------------------------------------------------------------------------
(* What the CPU is at *)

DeNombre == {"definir", "posicion", "leer", "asignar", "retornar", "finalizar", "k19", "k94"}
DeEtiqueta == {"ir", "llamar", "procedimiento"}

LEMMA TareaEs ==
  ASSUME PInv, NEW p \in Pids, Op(p) # "nada"
  PROVE  /\ cpu[p] \in Controles /\ pcb[p] \in Pcbs /\ cpu[p].tarea # <<>>
         /\ Op(p) = Head(cpu[p].tarea)[1]
         /\ Op(p) \in DeNombre => Arg(p) \in STRING
         /\ Op(p) \in DeEtiqueta => Arg(p) \in STRING \ {SinNombre}
         /\ Op(p) \in {"valor", "k90"} => Arg(p) \in Int
         /\ Op(p) = "linea" => Arg(p) \in Nat
<1>1. cpu[p] \in Controles /\ pcb[p] \in Pcbs /\ cpu[p].tarea # <<>> /\ Op(p) = Head(cpu[p].tarea)[1]
  BY DEF PInv, Op
<1>2. cpu[p].tarea \in Seq(Tareas)
  BY <1>1 DEF Controles
<1>3. Head(cpu[p].tarea) \in Tareas
  BY <1>1, <1>2, SinPrimero
<1> DEFINE h == Head(cpu[p].tarea)
<1>4. Arg(p) = h[2] /\ Op(p) = h[1]
  BY <1>1 DEF Arg
<1> HIDE DEF h
<1>5. \/ h \in DeNombre \X STRING
      \/ h \in DeEtiqueta \X (STRING \ {SinNombre})
      \/ h \in {"valor", "k90"} \X Int
      \/ h \in {"linea"} \X Nat
  BY <1>3 DEF h, Tareas, Primitivas, DeNombre, DeEtiqueta
<1>6. \/ h[1] \in DeNombre /\ h[2] \in STRING
      \/ h[1] \in DeEtiqueta /\ h[2] \in STRING \ {SinNombre}
      \/ h[1] \in {"valor", "k90"} /\ h[2] \in Int
      \/ h[1] = "linea" /\ h[2] \in Nat
  BY <1>5
<1> QED
  BY <1>1, <1>4, <1>6 DEF DeNombre, DeEtiqueta

LEMMA SigueTipo ==
  ASSUME NEW c \in Controles, c.tarea # <<>>
  PROVE  /\ Sigue(c) \in Controles /\ Error(c) \in Controles
         /\ \A o \in Int : /\ [Sigue(c) EXCEPT !.destino = o] \in Controles
                           /\ [Error(c) EXCEPT !.destino = o] \in Controles
                           /\ [Sigue(c) EXCEPT !.valor = o] \in Controles
                           /\ [Error(c) EXCEPT !.valor = o] \in Controles
         /\ [Sigue(c) EXCEPT !.salto = TRUE] \in Controles
         /\ [Sigue(c) EXCEPT !.accion = "fin"] \in Controles
<1>1. c.tarea \in Seq(Tareas)
  BY DEF Controles
<1>2. Tail(c.tarea) \in Seq(Tareas)
  BY <1>1, SinPrimero
<1> DEFINE t == Tail(c.tarea)
           s == [c EXCEPT !.tarea = t]
           r == [c EXCEPT !.tarea = t, !.accion = "error"]
<1>3. Sigue(c) = s /\ Error(c) = r
  BY DEF Sigue, Error
<1> HIDE DEF t
<1>4. s \in Controles /\ r \in Controles
  BY <1>2 DEF Controles, t
<1> HIDE DEF s, r
<1>5. \A o \in Int : /\ [s EXCEPT !.destino = o] \in Controles
                     /\ [r EXCEPT !.destino = o] \in Controles
                     /\ [s EXCEPT !.valor = o] \in Controles
                     /\ [r EXCEPT !.valor = o] \in Controles
  BY <1>4 DEF Controles
<1>6. [s EXCEPT !.salto = TRUE] \in Controles /\ [s EXCEPT !.accion = "fin"] \in Controles
  BY <1>4 DEF Controles
<1> QED
  BY <1>3, <1>4, <1>5, <1>6

(* The primitive a CPU is at, before it asks Memoria and after *)
LEMMA HaceEs ==
  ASSUME Inv, NEW p \in Pids, NEW op, op # "nada", Hace(p, op)
  PROVE  /\ acceso[p].pc = "nada" /\ estado[p] = "cpu" /\ estado[p] # "terminado"
         /\ cpu[p].fase = "ejecuta" /\ Op(p) = op
         /\ cpu[p] \in Controles /\ pcb[p] \in Pcbs /\ estado[p] \in Estados /\ cpu[p].tarea # <<>>
         /\ Head(cpu[p].tarea)[1] = op
         /\ Fijo(pcb[p], texto[p]) /\ Crece(pcb[p].in_stack)
<1>1. acceso[p].pc = "nada" /\ estado[p] = "cpu" /\ cpu[p].fase = "ejecuta" /\ Op(p) = op
  BY DEF Hace, EnCpu
<1>2. /\ cpu[p] \in Controles /\ pcb[p] \in Pcbs /\ estado[p] \in Estados /\ cpu[p].tarea # <<>>
      /\ Head(cpu[p].tarea)[1] = op
  BY <1>1, TareaEs DEF Inv, PInv
<1> QED
  BY <1>1, <1>2 DEF Inv, PInv, ProgramaBien

LEMMA RecibeEs ==
  ASSUME Inv, NEW p \in Pids, NEW ops, "nada" \notin ops, Recibe(p, ops)
  PROVE  /\ acceso[p].pc = "listo" /\ Op(p) \in ops
         /\ acceso' = [acceso EXCEPT ![p] = Nada]
         /\ UNCHANGED <<mem, cache, orden, libera, roto, manchadas>>
         /\ cpu[p] \in Controles /\ pcb[p] \in Pcbs /\ cpu[p].tarea # <<>>
         /\ acceso[p] \in Accesos
         /\ Op(p) \in Lee => acceso[p].op = "leer"
         /\ Op(p) \in Escribe => acceso[p].op = "escribir"
         /\ Op(p) = "retornar" => pcb[p].SP # -1
         /\ Fijo(pcb[p], texto[p]) /\ Crece(pcb[p].in_stack)
<1>1. /\ acceso[p].pc = "listo" /\ Op(p) \in ops /\ Op(p) # "nada"
      /\ acceso' = [acceso EXCEPT ![p] = Nada]
      /\ UNCHANGED <<mem, cache, orden, libera, roto, manchadas>>
  BY DEF Recibe, EnCpu
<1>2. cpu[p] \in Controles /\ pcb[p] \in Pcbs /\ cpu[p].tarea # <<>> /\ Head(cpu[p].tarea)[1] = Op(p)
  BY <1>1, TareaEs DEF Inv
<1>3. /\ Fijo(pcb[p], texto[p]) /\ Crece(pcb[p].in_stack)
      /\ Encargo(acceso[p], estado[p], cpu[p], pcb[p]) /\ acceso[p] \in Accesos
  BY DEF Inv, PInv, ProgramaBien, CInv, MemoriaTipo
<1>4. \/ Op(p) \in Lee /\ acceso[p].op = "leer"
      \/ Op(p) \in Escribe /\ acceso[p].op = "escribir"
  BY <1>1, <1>2, <1>3 DEF Encargo
<1>5. Lee \cap Escribe = {}
  BY DEF Lee, Escribe
<1> QED
  BY <1>1, <1>2, <1>3, <1>4, <1>5 DEF Encargo

-----------------------------------------------------------------------------
(* The code and the labels of a program *)

LEMMA TextoTipo ==
  ASSUME NEW t \in DOMAIN Textos
  PROVE  /\ Textos[t].lineas \in Seq(Seq(Primitivas))
         /\ Textos[t].etiquetas \in Seq([nombre : STRING, pc : Nat])
<1> DEFINE S == [lineas : Seq(Seq(Primitivas)), etiquetas : Seq([nombre : STRING, pc : Nat])]
<1>1. Textos \in Seq(S)
  BY PilaOK
<1> HIDE DEF S
<1>2. Textos[t] \in S
  BY <1>1, LenProperties
<1> QED
  BY <1>2 DEF S

LEMMA IndiceCodigoBien ==
  ASSUME NEW t \in DOMAIN Textos
  PROVE  /\ CodigoBien(IndiceCodigo(t)) /\ Len(IndiceCodigo(t)) = Len(Textos[t].lineas) + 1
         /\ \A n \in 1 .. Len(Textos[t].lineas) :
              /\ IndiceCodigo(t)[n].inicio \in Nat /\ IndiceCodigo(t)[n].fin \in Nat
<1> DEFINE n == Len(Textos[t].lineas)
           a == [k \in DOMAIN Textos[t].lineas |-> [inicio |-> Largo * (k - 1), fin |-> Largo]]
           b == <<FinDeCodigo>>
           c == a \o b
<1>1. n \in Nat /\ DOMAIN Textos[t].lineas = 1 .. n /\ Largo \in Nat \ {0}
  BY TextoTipo, LenProperties, PilaOK
<1> HIDE DEF n
<1>2. \A k \in 1 .. n : Largo * (k - 1) \in Nat
  BY <1>1
<1>3. a \in [1 .. n -> Sentencias]
  BY <1>1, <1>2 DEF Sentencias
<1>4. /\ a \in Seq(Sentencias) /\ Len(a) = n
      /\ \A k \in 1 .. n : a[k].inicio \in Nat /\ a[k].fin \in Nat
  <2>1. a \in Seq(Sentencias) /\ Len(a) = n
    <3> HIDE DEF a
    <3> QED
      BY <1>1, <1>3
  <2>2. \A k \in 1 .. n : a[k] = [inicio |-> Largo * (k - 1), fin |-> Largo]
    BY <1>1
  <2> QED
    BY <1>1, <1>2, <2>1, <2>2
<1>5. b \in Seq(Sentencias) /\ Len(b) = 1 /\ b[1] = FinDeCodigo
  BY DEF FinDeCodigo, Sentencias
<1> HIDE DEF a, b
<1>6. /\ c \in Seq(Sentencias) /\ Len(c) = n + 1
      /\ \A k \in 1 .. n + 1 : c[k] = IF k <= n THEN a[k] ELSE b[k - n]
  <2>1. /\ c \in Seq(Sentencias) /\ Len(c) = Len(a) + Len(b)
        /\ \A k \in 1 .. Len(a) + Len(b) : c[k] = IF k <= Len(a) THEN a[k] ELSE b[k - Len(a)]
    BY <1>4, <1>5, ConcatProperties
  <2>2. Len(a) = n /\ Len(b) = 1
    BY <1>4, <1>5
  <2> QED
    BY <2>1, <2>2
<1> HIDE DEF c
<1>7. \A k \in 1 .. n : c[k].inicio \in Nat /\ c[k].fin \in Nat
  BY <1>1, <1>4, <1>6
<1>8. c[n + 1] = FinDeCodigo
  <2>1. n + 1 \in 1 .. n + 1 /\ ~(n + 1 <= n) /\ n + 1 - n = 1
    BY <1>1
  <2>2. c[n + 1] = b[n + 1 - n]
    BY <1>1, <1>6, <2>1
  <2> QED
    BY <1>5, <2>1, <2>2
<1>9. c # <<>>
  BY <1>1, <1>6
<1>10. CodigoBien(c)
  <2>1. \A k \in 1 .. Len(c) - 1 : c[k].inicio # -1 /\ c[k].fin # -1
    BY <1>1, <1>6, <1>7
  <2> QED
    BY <1>6, <1>8, <1>9, <2>1 DEF CodigoBien
<1>11. c = IndiceCodigo(t)
  BY DEF a, b, c, IndiceCodigo
<1> QED
  BY <1>6, <1>7, <1>10, <1>11 DEF n

(* dictionary_get: what the CPU has for a name is where some label says, or *)
(* line 0; a name is not empty, and the Kernel leaves only the first two.   *)
LEMMA EtiquetasTipo ==
  ASSUME NEW t \in DOMAIN Textos, NEW s, s = IndiceEtiquetas(Textos[t].etiquetas)
  PROVE  /\ EtiquetasBien(s)
         /\ \A e \in STRING \ {SinNombre} :
              e \in DOMAIN DiccionarioEtiquetas(s) => DiccionarioEtiquetas(s)[e] \in Nat
<1> DEFINE ets == Textos[t].etiquetas
           m == Len(ets)
           clave(n) == IF n <= 2 THEN ets[n].nombre ELSE SinNombre
           pc(n) == IF n <= 2 THEN ets[n].pc ELSE -1
           xs == [n \in DOMAIN ets |-> <<clave(n), pc(n)>>]
           c == <<2 + 2 * m, m>>
<1>1. m \in Nat /\ DOMAIN ets = 1 .. m /\ \A n \in 1 .. m : ets[n] \in [nombre : STRING, pc : Nat]
  BY TextoTipo, LenProperties
<1> HIDE DEF m, ets
<1> DEFINE cl == [n \in 1 .. m |-> clave(n)]
           pn == [n \in 1 .. m |-> pc(n)]
<1>2. \A n \in 1 .. m : cl[n] \in Nombres /\ pn[n] \in Int /\ (cl[n] # SinNombre => pn[n] \in Nat)
  <2> SUFFICES ASSUME NEW n \in 1 .. m
               PROVE  cl[n] \in Nombres /\ pn[n] \in Int /\ (cl[n] # SinNombre => pn[n] \in Nat)
    OBVIOUS
  <2>1. ets[n].nombre \in STRING /\ ets[n].pc \in Nat
    BY <1>1
  <2>2. CASE n <= 2
    <3>1. cl[n] = ets[n].nombre
      BY <2>2, Zenon
    <3>2. pn[n] = ets[n].pc
      BY <2>2, Zenon
    <3> HIDE DEF cl, pn
    <3>3. cl[n] \in Nombres
      BY <2>1, <3>1 DEF Nombres
    <3>4. pn[n] \in Nat
      BY <2>1, <3>2, Zenon
    <3>5. pn[n] \in Int
      BY <3>4
    <3> QED
      BY <3>3, <3>4, <3>5, Zenon
  <2>3. CASE ~(n <= 2)
    <3>1. cl[n] = SinNombre
      BY <2>3, Zenon
    <3>2. pn[n] = -1
      BY <2>3, Zenon
    <3> HIDE DEF cl, pn
    <3>3. pn[n] \in Int
      BY <3>2
    <3>5. SinNombre \in Nombres
      BY DEF Nombres
    <3>4. cl[n] \in Nombres
      BY <3>1, <3>5, Zenon
    <3> QED
      BY <3>1, <3>3, <3>4, Zenon
  <2> HIDE DEF cl, pn
  <2> QED
    BY <2>2, <2>3
<1>16. \A n \in 1 .. m : xs[n] = <<cl[n], pn[n]>>
  BY <1>1, Zenon
<1>17. DOMAIN xs = 1 .. m /\ xs = [n \in 1 .. m |-> xs[n]]
  BY <1>1, Zenon
<1> HIDE DEF cl, pn, xs
<1>3. ASSUME NEW n \in 1 .. m
      PROVE  xs[n] = <<cl[n], pn[n]>> /\ xs[n] \in Seq(Palabras) /\ Len(xs[n]) = 2
  <2>1. cl[n] \in Palabras /\ pn[n] \in Palabras
    BY <1>2 DEF Palabras
  <2>2. xs[n] = <<cl[n], pn[n]>>
    BY <1>16
  <2> QED
    BY <2>1, <2>2
<1>4. xs \in Seq(Seq(Palabras)) /\ Len(xs) = m
  <2>1. xs \in [1 .. m -> Seq(Palabras)]
    BY <1>3, <1>17
  <2> QED
    BY <1>1, <2>1
<1>5. FlattenSeq(xs) \in Seq(Palabras)
  BY <1>4, AplanarEsta
<1>6. PICK g : /\ Cortes(g, xs) /\ Len(FlattenSeq(xs)) = g[m]
               /\ \A z : \A d \in Int : Esta(z, d, FlattenSeq(xs)) =>
                    \A k \in 1 .. m : Esta(z, d + g[k - 1], xs[k])
  BY <1>4, AplanarEsta
<1>7. \A k \in 0 .. m : g[k] = 2 * k
  <2> DEFINE Dos == {k \in Nat : k <= m => g[k] = 2 * k}
  <2>1. 0 \in Dos
    BY <1>6 DEF Cortes
  <2>2. ASSUME NEW k \in Nat, k \in Dos PROVE k + 1 \in Dos
    <3> SUFFICES ASSUME k + 1 <= m PROVE g[k + 1] = 2 * (k + 1)
      OBVIOUS
    <3>1. k + 1 \in 1 .. m /\ k + 1 - 1 = k /\ g[k] = 2 * k
      BY <1>1, <2>2
    <3>2. g[k + 1] = g[k + 1 - 1] + Len(xs[k + 1])
      BY <1>4, <1>6, <3>1 DEF Cortes
    <3>3. Len(xs[k + 1]) = 2
      BY <1>3, <3>1
    <3>4. g[k + 1] = g[k] + 2
      BY <3>1, <3>2, <3>3
    <3> QED
      BY <3>1, <3>4
  <2> HIDE DEF Dos
  <2>3. \A k \in Nat : k \in Dos
    BY <2>1, <2>2, Induccion
  <2> QED
    BY <1>1, <2>3 DEF Dos
<1>8. c \in Seq(Palabras) /\ Len(c) = 2 /\ c[1] = 2 + 2 * m /\ c[2] = m
  BY <1>1 DEF Palabras
<1>9. s = c \o FlattenSeq(xs)
  BY DEF IndiceEtiquetas, xs, c, m, ets
<1> HIDE DEF c
<1>10. /\ s \in Seq(Palabras) /\ Len(s) = 2 + 2 * m
       /\ \A i \in 1 .. 2 + 2 * m : i <= 2 => s[i] = c[i]
  <2>1. Len(FlattenSeq(xs)) = 2 * m
    BY <1>1, <1>6, <1>7
  <2>2. /\ c \o FlattenSeq(xs) \in Seq(Palabras)
        /\ Len(c \o FlattenSeq(xs)) = Len(c) + Len(FlattenSeq(xs))
        /\ \A i \in 1 .. Len(c) + Len(FlattenSeq(xs)) :
             (c \o FlattenSeq(xs))[i] = IF i <= Len(c) THEN c[i] ELSE FlattenSeq(xs)[i - Len(c)]
    BY <1>5, <1>8, ConcatProperties
  <2> QED
    BY <1>8, <1>9, <2>1, <2>2
<1>11. s[1] = 2 + 2 * m /\ s[2] = m
  <2>1. 1 \in 1 .. 2 + 2 * m /\ 2 \in 1 .. 2 + 2 * m
    BY <1>1
  <2> QED
    BY <1>8, <1>10, <2>1
<1>12. EtiquetasBien(s)
  BY <1>1, <1>10, <1>11 DEF EtiquetasBien
<1>13. Esta(s, 3, FlattenSeq(xs))
  <2>1. Esta(s, 1, s)
    BY DEF Esta
  <2>2. Esta(s, 1 + Len(c), FlattenSeq(xs))
    BY <1>5, <1>8, <1>9, <2>1, 1 \in Int, EstaPartes
  <2> QED
    BY <1>8, <2>2
<1>14. ASSUME NEW n \in 1 .. m PROVE s[2 * n + 1] = cl[n] /\ s[2 + 2 * n] = pn[n]
  <2>1. n - 1 \in 0 .. m /\ 3 + 2 * (n - 1) = 2 * n + 1 /\ 2 * n + 1 \in Int
    BY <1>1
  <2>2. g[n - 1] = 2 * (n - 1)
    BY <1>7, <2>1
  <2>3. Esta(s, 3 + g[n - 1], xs[n])
    BY <1>6, <1>13, 3 \in Int
  <2>4. Esta(s, 2 * n + 1, xs[n])
    BY <2>1, <2>2, <2>3
  <2>5. \A k \in 1 .. 2 : s[2 * n + 1 + k - 1] = xs[n][k]
    BY <1>3, <2>4 DEF Esta
  <2>6. s[2 * n + 1 + 1 - 1] = xs[n][1] /\ s[2 * n + 1 + 2 - 1] = xs[n][2]
    BY <2>5
  <2>7. 2 * n + 1 + 1 - 1 = 2 * n + 1 /\ 2 * n + 1 + 2 - 1 = 2 + 2 * n
    OBVIOUS
  <2>8. xs[n][1] = cl[n] /\ xs[n][2] = pn[n]
    BY <1>3
  <2> QED
    BY <2>6, <2>7, <2>8
<1>15. ASSUME NEW e \in STRING \ {SinNombre}, e \in DOMAIN DiccionarioEtiquetas(s)
       PROVE  DiccionarioEtiquetas(s)[e] \in Nat
  <2> DEFINE n == CHOOSE n \in 1 .. s[2] : s[2 * n + 1] = e
  <2>1. \E k \in 1 .. s[2] : s[2 * k + 1] = e
    BY <1>15 DEF DiccionarioEtiquetas
  <2>2. n \in 1 .. s[2] /\ s[2 * n + 1] = e
    BY <2>1
  <2>3. DiccionarioEtiquetas(s)[e] = s[2 + 2 * n]
    BY <1>15 DEF DiccionarioEtiquetas
  <2> HIDE DEF n
  <2>4. n \in 1 .. m /\ cl[n] = e /\ s[2 + 2 * n] = pn[n]
    BY <1>11, <1>14, <2>2
  <2> QED
    BY <1>2, <2>3, <2>4
<1> QED
  BY <1>12, <1>15
-----------------------------------------------------------------------------
(* The values a primitive reads *)

LEMMA PcbBienDe ==
  ASSUME NEW b \in Pcbs, NEW t \in DOMAIN Textos, Fijo(b, t)
  PROVE  PcbBien(b)
<1>1. CodigoBien(b.in_cod)
  BY IndiceCodigoBien DEF Fijo
<1>2. EtiquetasBien(b.in_et)
  BY EtiquetasTipo DEF Fijo
<1> QED
  BY <1>1, <1>2 DEF PcbBien

LEMMA PosicionEtiquetaTipo ==
  ASSUME NEW p, NEW t \in DOMAIN Textos, Fijo(pcb[p], t), NEW e \in STRING \ {SinNombre}
  PROVE  PosicionEtiqueta(p, e) \in Nat
<1> DEFINE s == pcb[p].in_et
<1>1. s = IndiceEtiquetas(Textos[t].etiquetas)
  BY DEF Fijo
<1> HIDE DEF s
<1>2. e \in DOMAIN DiccionarioEtiquetas(s) => DiccionarioEtiquetas(s)[e] \in Nat
  BY <1>1, EtiquetasTipo
<1> DEFINE d == DiccionarioEtiquetas(s)
<1>3. PosicionEtiqueta(p, e) = IF e \in DOMAIN d THEN d[e] ELSE 0
  BY DEF PosicionEtiqueta, s
<1> HIDE DEF d
<1>4. e \in DOMAIN d => d[e] \in Nat
  BY <1>2 DEF d
<1> QED
  BY <1>3, <1>4, 0 \in Nat, Zenon

LEMMA CortaTipo == ASSUME NEW n \in Int PROVE Corta(n) \in Int
  BY DEF Corta

LEMMA BuscarTipo ==
  ASSUME NEW vs \in Seq(Memorias), NEW id
  PROVE  BuscarOffsetVariable(vs, id) \in Int
<1> DEFINE cuales == {k \in DOMAIN vs : vs[k].ID = id}
<1>1. DOMAIN vs = 1 .. Len(vs) /\ Len(vs) \in Nat
  BY LenProperties
<1>2. cuales \in SUBSET (0 .. Len(vs)) /\ cuales \subseteq DOMAIN vs
  BY <1>1
<1>3. BuscarOffsetVariable(vs, id) = IF cuales = {} THEN -1 ELSE vs[Max(cuales)].offset
  BY DEF BuscarOffsetVariable
<1> HIDE DEF cuales
<1>4. CASE cuales = {}
  BY <1>3, <1>4
<1>5. CASE cuales # {}
  <2>1. Max(cuales) \in DOMAIN vs
    BY <1>1, <1>2, <1>5, MaxEsMaximo
  <2>2. vs[Max(cuales)] \in Memorias
    BY <1>1, <2>1
  <2> QED
    BY <1>3, <1>5, <2>2 DEF Memorias
<1> QED
  BY <1>4, <1>5

-----------------------------------------------------------------------------
(* The place of a new variable *)

Ultimos(s, n) == {Last(l).offset : l \in {s[n + 1].args, s[n + 1].vars} \ {<<>>}}

LEMMA CalcularOffsetEs ==
  ASSUME NEW s, NEW n
  PROVE  CalcularOffset(s, n) =
           IF Ultimos(s, n) # {} THEN Max(Ultimos(s, n)) + 4
           ELSE IF Len(s) = 1 THEN 0
           ELSE IF Ultimos(s, n - 1) # {} THEN Max(Ultimos(s, n - 1)) + 4 ELSE -1
  BY DEF CalcularOffset, Ultimos

LEMMA UltimosEs ==
  ASSUME NEW s \in Seq(Marcos), Crece(s), NEW n \in Int, n + 1 \in DOMAIN s
  PROVE  LET l == Len(s[n + 1].vars)
         IN  /\ l \in Nat /\ DOMAIN s[n + 1].vars = 1 .. l
             /\ l = 0 => Ultimos(s, n) = {}
             /\ l # 0 => /\ Ultimos(s, n) # {} /\ Variable(s, <<n + 1, l>>)
                         /\ Max(Ultimos(s, n)) = Lugar(s, <<n + 1, l>>)
                         /\ Lugar(s, <<n + 1, l>>) \in Nat
<1> DEFINE vs == s[n + 1].vars
           l == Len(vs)
           x == vs[l].offset
<1>1. s[n + 1] \in Marcos /\ s[n + 1].args = <<>> /\ n + 1 \in Nat
  BY LenProperties DEF Crece
<1>2. vs \in Seq(Memorias)
  BY <1>1 DEF Marcos
<1>3. l \in Nat /\ DOMAIN vs = 1 .. l /\ (l = 0 <=> vs = <<>>)
  BY <1>2, LenProperties
<1>4. Ultimos(s, n) = {Last(u).offset : u \in {vs} \ {<<>>}}
  BY <1>1 DEF Ultimos
<1>5. l = 0 => Ultimos(s, n) = {}
  BY <1>3, <1>4
<1>6. ASSUME l # 0
      PROVE  /\ Ultimos(s, n) # {} /\ Variable(s, <<n + 1, l>>)
             /\ Max(Ultimos(s, n)) = Lugar(s, <<n + 1, l>>) /\ Lugar(s, <<n + 1, l>>) \in Nat
  <2>1. Last(vs) = vs[l]
    BY DEF Last
  <2>2. Ultimos(s, n) = {x}
    BY <1>3, <1>4, <1>6, <2>1
  <2>3. Variable(s, <<n + 1, l>>) /\ Lugar(s, <<n + 1, l>>) = x
    BY <1>3, <1>6 DEF Variable, Lugar
  <2> HIDE DEF x, l, vs
  <2>4. x \in Nat
    BY <1>1, <1>3, <2>3 DEF Crece
  <2>5. Max({x}) = x
    <3>1. {x} \in SUBSET (0 .. x) /\ {x} # {}
      BY <2>4
    <3> QED
      BY <2>4, <3>1, MaxEsMaximo
  <2> QED
    BY <2>2, <2>3, <2>4, <2>5
<1> QED
  BY <1>3, <1>5, <1>6

(* calcular_offset answers a place after all the variables of the program, *)
(* or never answers.                                                       *)
LEMMA OffsetNuevo ==
  ASSUME NEW s \in Seq(Marcos), Crece(s), NEW n \in Int, n + 1 = Len(s), n # -1,
         CalcularOffset(s, n) # -1
  PROVE  /\ CalcularOffset(s, n) \in Nat
         /\ \A v \in Nat \X Nat : Variable(s, v) => Lugar(s, v) < CalcularOffset(s, n)
<1> DEFINE o == CalcularOffset(s, n)
           l == Len(s[n + 1].vars)
           m == Len(s[n - 1 + 1].vars)
<1>1. DOMAIN s = 1 .. n + 1 /\ n \in Nat /\ n + 1 \in DOMAIN s /\ n - 1 \in Int
  BY LenProperties
<1>2. /\ l \in Nat /\ DOMAIN s[n + 1].vars = 1 .. l
      /\ l = 0 => Ultimos(s, n) = {}
      /\ l # 0 => /\ Ultimos(s, n) # {} /\ Variable(s, <<n + 1, l>>)
                  /\ Max(Ultimos(s, n)) = Lugar(s, <<n + 1, l>>)
                  /\ Lugar(s, <<n + 1, l>>) \in Nat
  BY <1>1, UltimosEs
<1>3. ASSUME n > 0
      PROVE  /\ m \in Nat /\ DOMAIN s[n - 1 + 1].vars = 1 .. m
             /\ m = 0 => Ultimos(s, n - 1) = {}
             /\ m # 0 => /\ Ultimos(s, n - 1) # {} /\ Variable(s, <<n - 1 + 1, m>>)
                         /\ Max(Ultimos(s, n - 1)) = Lugar(s, <<n - 1 + 1, m>>)
                         /\ Lugar(s, <<n - 1 + 1, m>>) \in Nat
  <2>1. n - 1 + 1 \in DOMAIN s
    BY <1>1, <1>3
  <2> QED
    BY <1>1, <2>1, UltimosEs
<1>4. o = IF Ultimos(s, n) # {} THEN Max(Ultimos(s, n)) + 4
          ELSE IF Len(s) = 1 THEN 0
          ELSE IF Ultimos(s, n - 1) # {} THEN Max(Ultimos(s, n - 1)) + 4 ELSE -1
  BY CalcularOffsetEs
<1> HIDE DEF o, l, m
(* after the last variable of the last frame that has one *)
<1>5. ASSUME NEW w \in Nat \X Nat, Variable(s, w), Lugar(s, w) \in Nat, o = Lugar(s, w) + 4,
             \A v \in Nat \X Nat : Variable(s, v) => v = w \/ Antes(v, w)
      PROVE  o \in Nat /\ \A v \in Nat \X Nat : Variable(s, v) => Lugar(s, v) < o
  <2> SUFFICES ASSUME NEW v \in Nat \X Nat, Variable(s, v) PROVE Lugar(s, v) < o
    BY <1>5
  <2>1. v = w \/ Antes(v, w)
    BY <1>5
  <2>2. Lugar(s, v) \in Nat
    BY DEF Crece
  <2>3. v = w \/ Lugar(s, v) < Lugar(s, w)
    BY <1>5, <2>1 DEF Crece
  <2> QED
    BY <1>5, <2>2, <2>3
<1>6. CASE l # 0
  <2> DEFINE w == <<n + 1, l>>
  <2>1. w \in Nat \X Nat /\ Variable(s, w) /\ Lugar(s, w) \in Nat
    BY <1>1, <1>2, <1>6
  <2>2. o = Lugar(s, w) + 4
    BY <1>2, <1>4, <1>6
  <2>3. ASSUME NEW v \in Nat \X Nat, Variable(s, v) PROVE v = w \/ Antes(v, w)
    <3>1. v[1] \in 1 .. n + 1 /\ (v[1] = n + 1 => v[2] \in 1 .. l)
      BY <1>1, <1>2, <2>3 DEF Variable
    <3>2. v[1] = n + 1 /\ v[2] = l => v = w
      BY <2>3
    <3>3. w[1] = n + 1 /\ w[2] = l
      OBVIOUS
    <3> QED
      BY <1>1, <1>2, <3>1, <3>2, <3>3 DEF Antes
  <2> HIDE DEF w
  <2> QED
    BY <1>5, <2>1, <2>2, <2>3 DEF o
<1>7. CASE l = 0 /\ n = 0
  <2>1. o = 0
    BY <1>2, <1>4, <1>7
  <2>2. ASSUME NEW v \in Nat \X Nat, Variable(s, v) PROVE FALSE
    <3>1. v[1] = n + 1 /\ v[2] \in 1 .. l
      BY <1>1, <1>2, <1>7, <2>2 DEF Variable
    <3> QED
      BY <1>7, <3>1
  <2> QED
    BY <2>1, <2>2 DEF o
<1>8. CASE l = 0 /\ n > 0
  <2> DEFINE w == <<n, m>>
  <2>1. n - 1 + 1 = n /\ Len(s) # 1 /\ Ultimos(s, n) = {}
    BY <1>1, <1>2, <1>8
  <2>2. m # 0
    BY <1>3, <1>4, <1>8, <2>1 DEF o
  <2>3. w \in Nat \X Nat /\ Variable(s, w) /\ Lugar(s, w) \in Nat
    BY <1>1, <1>3, <1>8, <2>1, <2>2
  <2>4. o = Lugar(s, w) + 4
    BY <1>3, <1>4, <1>8, <2>1, <2>2
  <2>5. ASSUME NEW v \in Nat \X Nat, Variable(s, v) PROVE v = w \/ Antes(v, w)
    <3>1. v[1] \in 1 .. n + 1 /\ (v[1] = n + 1 => v[2] \in 1 .. l) /\ (v[1] = n => v[2] \in 1 .. m)
      BY <1>1, <1>2, <1>3, <1>8, <2>1, <2>5 DEF Variable
    <3>2. v[1] = n /\ v[2] = m => v = w
      BY <2>5
    <3>3. w[1] = n /\ w[2] = m
      OBVIOUS
    <3>4. m \in Nat
      BY <1>3, <1>8
    <3> QED
      BY <1>1, <1>8, <3>1, <3>2, <3>3, <3>4 DEF Antes
  <2> HIDE DEF w
  <2> QED
    BY <1>5, <2>3, <2>4, <2>5 DEF o
<1> QED
  BY <1>1, <1>2, <1>6, <1>7, <1>8
-----------------------------------------------------------------------------
(* The stack: a variable more, a frame more, a frame less *)

LEMMA CreceMas ==
  ASSUME NEW s \in Seq(Marcos), Crece(s), NEW n \in Int, n + 1 = Len(s), n # -1,
         NEW m \in Memorias, m.offset \in Nat,
         \A v \in Nat \X Nat : Variable(s, v) => Lugar(s, v) < m.offset,
         NEW z \in [DOMAIN s -> Marcos], \A k \in DOMAIN s : k # n + 1 => z[k] = s[k],
         z[n + 1].args = s[n + 1].args, z[n + 1].retPos = s[n + 1].retPos,
         z[n + 1].vars = Append(s[n + 1].vars, m)
  PROVE  /\ z \in Seq(Marcos) /\ Len(z) = Len(s) /\ DOMAIN z = DOMAIN s /\ Crece(z)
         /\ \A k \in DOMAIN s : z[k].retPos = s[k].retPos
<1> DEFINE vs == s[n + 1].vars
           l == Len(vs)
           r == Append(vs, m)
           w == <<n + 1, l + 1>>
<1>1. DOMAIN s = 1 .. n + 1 /\ n \in Nat /\ n + 1 \in DOMAIN s /\ \A k \in DOMAIN s : s[k] \in Marcos
  BY LenProperties
<1>2. vs \in Seq(Memorias)
  BY <1>1 DEF Marcos
<1>3. l \in Nat /\ DOMAIN vs = 1 .. l
  BY <1>2, LenProperties
<1>4. /\ r \in Seq(Memorias) /\ DOMAIN r = 1 .. l + 1 /\ r[l + 1] = m
      /\ \A i \in 1 .. l : r[i] = vs[i]
  <2>1. r \in Seq(Memorias) /\ Len(r) = l + 1
    BY <1>2
  <2>2. DOMAIN r = 1 .. l + 1
    BY <2>1, LenProperties
  <2>3. r[l + 1] = m /\ \A i \in 1 .. l : r[i] = vs[i]
    BY <1>2, <1>3
  <2> QED
    BY <2>1, <2>2, <2>3
<1>5. /\ DOMAIN z = DOMAIN s /\ z[n + 1].vars = r
      /\ \A k \in DOMAIN s : k # n + 1 => z[k] = s[k]
  BY <1>1
<1> HIDE DEF vs, l, r
<1>6. /\ z[n + 1] \in Marcos /\ z[n + 1].vars = r /\ z[n + 1].args = s[n + 1].args
      /\ z[n + 1].retPos = s[n + 1].retPos
  BY <1>1, <1>5
<1>7. \A k \in DOMAIN s : z[k] \in Marcos /\ z[k].retPos = s[k].retPos /\ z[k].args = <<>>
  <2> SUFFICES ASSUME NEW k \in DOMAIN s
               PROVE  z[k] \in Marcos /\ z[k].retPos = s[k].retPos /\ z[k].args = <<>>
    OBVIOUS
  <2>1. s[k].args = <<>> /\ s[n + 1].args = <<>>
    BY <1>1 DEF Crece
  <2>2. CASE k = n + 1
    BY <1>6, <2>1, <2>2
  <2>3. CASE k # n + 1
    BY <1>1, <1>5, <2>1, <2>3
  <2> QED
    BY <2>2, <2>3
<1>8. z \in Seq(Marcos) /\ Len(z) = Len(s)
  <2>1. z = [k \in DOMAIN s |-> z[k]]
    OBVIOUS
  <2>2. z = [k \in 1 .. n + 1 |-> z[k]]
    BY <1>1, <2>1, Zenon
  <2>3. z \in [1 .. n + 1 -> Marcos]
    BY <1>1, <1>7, <2>2
  <2> QED
    BY <1>1, <2>3
<1>9. w \in Nat \X Nat /\ w[1] = n + 1 /\ w[2] = l + 1
  BY <1>1, <1>3
<1> HIDE DEF w
<1>10. ASSUME NEW v \in Nat \X Nat, Variable(z, v)
       PROVE  \/ v = w
              \/ Variable(s, v) /\ Lugar(z, v) = Lugar(s, v) /\ ~Antes(w, v)
  <2>1. CASE v[1] = n + 1
    <3>1. v[2] \in 1 .. l + 1
      BY <1>4, <1>6, <1>10, <2>1 DEF Variable
    <3>2. CASE v[2] = l + 1
      BY <1>9, <2>1, <3>2
    <3>3. CASE v[2] # l + 1
      <4>1. v[2] \in 1 .. l
        BY <1>3, <3>1, <3>3
      <4>2. z[v[1]].vars[v[2]] = s[v[1]].vars[v[2]]
        <5>1. z[v[1]].vars = r /\ s[v[1]].vars = vs
          BY <1>6, <2>1 DEF vs
        <5>2. r[v[2]] = vs[v[2]]
          BY <1>4, <4>1
        <5> QED
          BY <5>1, <5>2
      <4>3. Variable(s, v)
        BY <1>1, <1>3, <2>1, <4>1 DEF Variable, vs
      <4>4. ~Antes(w, v)
        BY <1>1, <1>3, <1>9, <2>1, <4>1 DEF Antes
      <4> QED
        BY <4>2, <4>3, <4>4 DEF Lugar
    <3> QED
      BY <3>2, <3>3
  <2>2. CASE v[1] # n + 1
    <3>1. v[1] \in DOMAIN s
      BY <1>5, <1>10 DEF Variable
    <3>2. z[v[1]] = s[v[1]]
      BY <1>5, <2>2, <3>1
    <3>3. Variable(s, v) /\ Lugar(z, v) = Lugar(s, v)
      BY <1>10, <3>1, <3>2 DEF Variable, Lugar
    <3>4. ~Antes(w, v)
      BY <1>1, <1>9, <2>2, <3>1 DEF Antes
    <3> QED
      BY <3>3, <3>4
  <2> QED
    BY <2>1, <2>2
<1>11. Lugar(z, w) = m.offset
  BY <1>4, <1>6, <1>9 DEF Lugar
<1>12. ~Antes(w, w)
  BY <1>1, <1>3, <1>9 DEF Antes
<1>13. ASSUME NEW v \in Nat \X Nat, Variable(z, v) PROVE Lugar(z, v) \in Nat
  BY <1>10, <1>11, <1>13 DEF Crece
<1>14. ASSUME NEW v \in Nat \X Nat, NEW u \in Nat \X Nat, Variable(z, v), Variable(z, u), Antes(v, u)
       PROVE  Lugar(z, v) < Lugar(z, u)
  <2>1. v # w
    BY <1>10, <1>12, <1>14
  <2>2. Variable(s, v) /\ Lugar(z, v) = Lugar(s, v)
    BY <1>10, <1>14, <2>1
  <2>3. CASE u = w
    BY <1>11, <2>2, <2>3
  <2>4. CASE u # w
    <3>1. Variable(s, u) /\ Lugar(z, u) = Lugar(s, u)
      BY <1>10, <1>14, <2>4
    <3> QED
      BY <1>14, <2>2, <3>1 DEF Crece
  <2> QED
    BY <2>3, <2>4
<1>15. Crece(z)
  BY <1>5, <1>7, <1>13, <1>14 DEF Crece
<1> QED
  BY <1>5, <1>7, <1>8, <1>15

LEMMA CreceMismas ==
  ASSUME NEW s, Crece(s), NEW z, \A k \in DOMAIN z : z[k].args = <<>>,
         \A v \in Nat \X Nat : Variable(z, v) => Variable(s, v) /\ Lugar(z, v) = Lugar(s, v)
  PROVE  Crece(z)
  BY DEF Crece

(* Each frame of z is one of s, or f. *)
MarcosDe(z, s, f) == \A k \in DOMAIN z : (k \in DOMAIN s /\ z[k] = s[k]) \/ z[k] = f

LEMMA CreceLlamada ==
  ASSUME NEW s \in Seq(Marcos), Crece(s), NEW f \in Marcos, f.args = <<>>, f.vars = <<>>,
         NEW z, z = Append(s, f)
  PROVE  z \in Seq(Marcos) /\ Len(z) = Len(s) + 1 /\ Crece(z) /\ MarcosDe(z, s, f)
<1>1. DOMAIN s = 1 .. Len(s) /\ Len(s) \in Nat
  BY LenProperties
<1>2. z \in Seq(Marcos) /\ Len(z) = Len(s) + 1
  OBVIOUS
<1>3. DOMAIN z = 1 .. Len(s) + 1
  BY <1>2, LenProperties
<1>4. \A k \in 1 .. Len(s) : z[k] = s[k]
  OBVIOUS
<1>5. z[Len(s) + 1] = f
  OBVIOUS
<1>6. \A k \in DOMAIN z : (k \in DOMAIN s /\ z[k] = s[k]) \/ z[k] = f
  BY <1>1, <1>3, <1>4, <1>5
<1>7. \A k \in DOMAIN z : z[k].args = <<>>
  BY <1>6 DEF Crece
<1>8. ASSUME NEW v \in Nat \X Nat, Variable(z, v)
      PROVE  Variable(s, v) /\ Lugar(z, v) = Lugar(s, v)
  <2>1. v[1] \in DOMAIN z /\ v[2] \in DOMAIN z[v[1]].vars
    BY <1>8 DEF Variable
  <2>2. z[v[1]] # f
    BY <2>1
  <2> QED
    BY <1>6, <2>1, <2>2 DEF Variable, Lugar
<1>9. Crece(z)
  BY <1>7, <1>8, CreceMismas
<1> QED
  BY <1>2, <1>6, <1>9 DEF MarcosDe

LEMMA CreceRetorno ==
  ASSUME NEW s \in Seq(Marcos), Crece(s), Len(s) # 0, NEW z, z = Front(s)
  PROVE  /\ z \in Seq(Marcos) /\ Len(z) = Len(s) - 1 /\ Crece(z)
         /\ \A k \in DOMAIN z : k \in DOMAIN s /\ z[k] = s[k]
<1> DEFINE n == Len(s)
<1>1. DOMAIN s = 1 .. n /\ n \in Nat \ {0}
  BY LenProperties
<1>2. z = SubSeq(s, 1, n - 1)
  BY DEF Front
<1>3. z \in Seq(Marcos) /\ Len(z) = n - 1 /\ \A k \in 1 .. n - 1 : z[k] = s[k]
  <2> HIDE DEF n
  <2>1. \A k \in 1 .. n - 1 : s[k] \in Marcos
    BY <1>1
  <2>2. z = [k \in 1 .. n - 1 |-> s[k]]
    BY <1>1, <1>2
  <2>3. z \in [1 .. n - 1 -> Marcos]
    BY <2>1, <2>2
  <2> QED
    BY <1>1, <2>2, <2>3
<1>4. DOMAIN z = 1 .. n - 1
  BY <1>3, LenProperties
<1>5. \A k \in DOMAIN z : k \in DOMAIN s /\ z[k] = s[k]
  BY <1>1, <1>3, <1>4
<1>6. \A k \in DOMAIN z : z[k].args = <<>>
  BY <1>5 DEF Crece
<1>7. ASSUME NEW v \in Nat \X Nat, Variable(z, v)
      PROVE  Variable(s, v) /\ Lugar(z, v) = Lugar(s, v)
  BY <1>5, <1>7 DEF Variable, Lugar
<1>8. Crece(z)
  BY <1>6, <1>7, CreceMismas
<1> QED
  BY <1>3, <1>5, <1>8
-----------------------------------------------------------------------------
(* The steps, one by one *)

PcbFijo(b, t) == b \in Pcbs /\ Fijo(b, t) /\ Crece(b.in_stack)

LEMMA PcbDe ==
  ASSUME Inv, NEW p \in Pids
  PROVE  /\ PcbFijo(pcb[p], texto[p]) /\ texto[p] \in DOMAIN Textos
         /\ cpu[p] \in Controles /\ estado[p] \in Estados /\ acceso[p] \in Accesos
         /\ pcb = [pcb EXCEPT ![p] = pcb[p]] /\ cpu = [cpu EXCEPT ![p] = cpu[p]]
         /\ estado = [estado EXCEPT ![p] = estado[p]]
  BY DEF Inv, PInv, ProgramaBien, PcbFijo, CInv, MemoriaTipo

LEMMA FijoCampos ==
  ASSUME NEW b, NEW t, PcbFijo(b, t)
  PROVE  /\ \A n \in Nat : PcbFijo([b EXCEPT !.PC = n], t)
         /\ \A n \in Int : PcbFijo([b EXCEPT !.exit_code = n], t)
<1>1. b \in Pcbs /\ Fijo(b, t) /\ Crece(b.in_stack)
  BY DEF PcbFijo
<1>2. ASSUME NEW n \in Nat PROVE PcbFijo([b EXCEPT !.PC = n], t)
  <2> DEFINE z == [b EXCEPT !.PC = n]
  <2>1. /\ z \in Pcbs /\ z.PC = n /\ z.in_cod = b.in_cod /\ z.in_et = b.in_et /\ z.SP = b.SP
        /\ z.in_stack = b.in_stack
    BY <1>1 DEF Pcbs
  <2> HIDE DEF z
  <2>2. Fijo(z, t)
    BY <1>1, <2>1 DEF Fijo
  <2> QED
    BY <1>1, <2>1, <2>2 DEF PcbFijo, z
<1>3. ASSUME NEW n \in Int PROVE PcbFijo([b EXCEPT !.exit_code = n], t)
  <2> DEFINE z == [b EXCEPT !.exit_code = n]
  <2>1. /\ z \in Pcbs /\ z.PC = b.PC /\ z.in_cod = b.in_cod /\ z.in_et = b.in_et /\ z.SP = b.SP
        /\ z.in_stack = b.in_stack
    BY <1>1 DEF Pcbs
  <2> HIDE DEF z
  <2>2. Fijo(z, t)
    BY <1>1, <2>1 DEF Fijo
  <2> QED
    BY <1>1, <2>1, <2>2 DEF PcbFijo, z
<1> QED
  BY <1>2, <1>3

LEMMA MarcoTipo ==
  ASSUME NEW b, NEW t, PcbFijo(b, t), b.SP # -1
  PROVE  /\ b.SP \in Nat /\ b.SP + 1 \in DOMAIN b.in_stack /\ b.in_stack[b.SP + 1] \in Marcos
         /\ b.in_stack[b.SP + 1].vars \in Seq(Memorias)
         /\ b.in_stack[b.SP + 1].retVar.offset \in Int
         /\ b.in_stack[b.SP + 1].retPos \in Nat
<1>1. b.SP \in Int /\ b.in_stack \in Seq(Marcos) /\ b.SP + 1 = Len(b.in_stack)
  BY DEF PcbFijo, Pcbs, Fijo
<1>2. Len(b.in_stack) \in Nat /\ DOMAIN b.in_stack = 1 .. Len(b.in_stack)
  BY <1>1, LenProperties
<1>3. b.SP \in Nat /\ b.SP + 1 \in DOMAIN b.in_stack
  BY <1>1, <1>2
<1> DEFINE m == b.in_stack[b.SP + 1]
<1>4. m \in Marcos
  BY <1>1, <1>3, LenProperties
<1>5. m.retPos \in Nat
  BY <1>3 DEF PcbFijo, Fijo
<1> HIDE DEF m
<1>6. m.vars \in Seq(Memorias) /\ m.retVar.offset \in Int
  BY <1>4 DEF Marcos, Memorias
<1> QED
  BY <1>3, <1>4, <1>5, <1>6 DEF m

LEMMA PosicionTipo ==
  ASSUME Inv, NEW p \in Pids, ~SinMarco(p), NEW id
  PROVE  PosicionVariable(p, id) \in Int
<1>1. pcb[p].in_stack[pcb[p].SP + 1].vars \in Seq(Memorias)
  BY PcbDe, MarcoTipo DEF SinMarco
<1> QED
  BY <1>1, BuscarTipo DEF PosicionVariable

LEMMA CaeInv ==
  ASSUME Inv, NEW p \in Pids, NEW op, op # "nada", Hace(p, op), Cae(p),
         UNCHANGED <<texto, asignado, pisado, cacheVars>>
  PROVE  Inv'
<1>1. acceso[p].pc = "nada" /\ estado[p] # "terminado"
  BY HaceEs
<1>2. PcbFijo(pcb[p], texto[p]) /\ cpu[p] \in Controles
  BY PcbDe
<1>3. /\ pcb' = [pcb EXCEPT ![p] = pcb[p]] /\ cpu' = [cpu EXCEPT ![p] = cpu[p]]
      /\ estado' = [estado EXCEPT ![p] = "caida"]
  BY PcbDe DEF Cae
<1>4. "caida" \in Estados
  BY DEF Estados
<1> QED
  BY <1>1, <1>2, <1>3, <1>4, PasoSolo DEF PcbFijo

LEMMA DefinirVariableInv ==
  ASSUME Inv, NEW p \in Pids, DefinirVariable(p)
  PROVE  Inv'
<1> DEFINE b == pcb[p]
           s == b.in_stack
           n == b.SP
           o == CalcularOffset(s, n)
<1>1. Hace(p, "definir") /\ UNCHANGED <<texto, asignado, pisado, cacheVars>>
  BY DEF DefinirVariable
<1>2. /\ PcbFijo(b, texto[p]) /\ cpu[p] \in Controles /\ estado[p] \in Estados
      /\ estado = [estado EXCEPT ![p] = estado[p]]
  BY PcbDe
<1>3. acceso[p].pc = "nada" /\ estado[p] # "terminado" /\ cpu[p].tarea # <<>> /\ Op(p) = "definir"
  BY <1>1, HaceEs
<1>4. CASE Cae(p)
  BY <1>1, <1>4, CaeInv
<1>5. CASE ~Cae(p)
  <2> DEFINE m == [ID |-> Arg(p), offset |-> o, pag |-> o \div Tam, size |-> 4]
             z == [s EXCEPT ![n + 1].vars = Append(@, m)]
             y == [b EXCEPT !.in_stack = z]
             c == [Sigue(cpu[p]) EXCEPT !.destino = o]
  <2>1. /\ n # -1 /\ o # -1 /\ UNCHANGED estado
        /\ cpu' = [cpu EXCEPT ![p] = c]
        /\ pcb' = [pcb EXCEPT ![p].in_stack[n + 1].vars = Append(@, m)]
    BY <1>5 DEF DefinirVariable, SinMarco
  <2>2. s \in Seq(Marcos) /\ Crece(s) /\ n \in Int /\ n + 1 = Len(s) /\ b \in Pcbs /\ Fijo(b, texto[p])
    BY <1>2 DEF PcbFijo, Pcbs, Fijo
  <2>3. o \in Nat /\ \A v \in Nat \X Nat : Variable(s, v) => Lugar(s, v) < o
    <3> HIDE DEF s, n
    <3> QED
      BY <2>1, <2>2, OffsetNuevo
  <2>4. m \in Memorias /\ m.offset = o
    <3>1. Arg(p) \in STRING
      BY <1>3, TareaEs DEF DeNombre, Inv
    <3>2. o \div Tam \in Int
      BY <2>3, CacheOK
    <3> HIDE DEF o
    <3> QED
      BY <2>3, <3>1, <3>2 DEF Memorias, Nombres
  <2>5. pcb' = [pcb EXCEPT ![p] = y]
    BY <2>1
  <2> HIDE DEF o, m
  <2>6. /\ z \in Seq(Marcos) /\ Len(z) = Len(s) /\ DOMAIN z = DOMAIN s /\ Crece(z)
        /\ \A k \in DOMAIN s : z[k].retPos = s[k].retPos
    <3> DEFINE f == s[n + 1]
               g == Append(f.vars, m)
               x == [f EXCEPT !.vars = g]
    <3>5. z = [s EXCEPT ![n + 1] = x]
      OBVIOUS
    <3>6. n + 1 \in DOMAIN s /\ f \in Marcos /\ \A k \in DOMAIN s : s[k] \in Marcos
      BY <1>2, <2>1, <2>2, MarcoTipo, LenProperties
    <3>7. g \in Seq(Memorias)
      BY <2>4, <3>6 DEF Marcos
    <3>8. x \in Marcos /\ x.vars = g /\ x.args = f.args /\ x.retPos = f.retPos
      <4> HIDE DEF f, g
      <4> QED
        BY <3>6, <3>7 DEF Marcos
    <3> HIDE DEF x
    <3>1. /\ z \in [DOMAIN s -> Marcos] /\ \A k \in DOMAIN s : k # n + 1 => z[k] = s[k]
          /\ z[n + 1] = x
      <4> HIDE DEF s, n, z, f, g
      <4> QED
        BY <3>5, <3>6, <3>8
    <3>9. z[n + 1].args = s[n + 1].args /\ z[n + 1].retPos = s[n + 1].retPos /\ z[n + 1].vars = g
      BY <3>1, <3>8, Zenon
    <3>2. n # -1
      BY <2>1
    <3>3. m \in Memorias /\ m.offset \in Nat /\ \A v \in Nat \X Nat : Variable(s, v) => Lugar(s, v) < m.offset
      BY <2>3, <2>4, Zenon
    <3>4. s \in Seq(Marcos) /\ Crece(s) /\ n \in Int /\ n + 1 = Len(s)
      BY <2>2
    <3> HIDE DEF s, n, z
    <3> QED
      BY <3>1, <3>2, <3>3, <3>4, <3>9, CreceMas
  <2> HIDE DEF z
  <2>7. /\ y \in Pcbs /\ y.in_stack = z /\ y.PC = b.PC /\ y.in_cod = b.in_cod /\ y.in_et = b.in_et
        /\ y.SP = b.SP
    <3> HIDE DEF b
    <3> QED
      BY <2>2, <2>6 DEF Pcbs
  <2> HIDE DEF y
  <2>8. Fijo(y, texto[p])
    BY <2>2, <2>6, <2>7 DEF Fijo
  <2>9. c \in Controles
    <3>1. o \in Int
      BY <2>3
    <3> QED
      BY <1>2, <1>3, <3>1, SigueTipo, Zenon
  <2> HIDE DEF c
  <2>10. estado' = [estado EXCEPT ![p] = estado[p]]
    BY <1>2, <2>1
  <2> QED
    BY <1>1, <1>2, <1>3, <2>1, <2>5, <2>6, <2>7, <2>8, <2>9, <2>10, PasoSolo
<1> QED
  BY <1>4, <1>5

(* A primitive of the CPU alone that does not kill it *)
LEMMA PasoHace ==
  ASSUME Inv, NEW p \in Pids, NEW op, op # "nada", Hace(p, op),
         UNCHANGED <<texto, estado, asignado, pisado, cacheVars>>,
         NEW b, PcbFijo(b, texto[p]), pcb' = [pcb EXCEPT ![p] = b],
         NEW c \in Controles, cpu' = [cpu EXCEPT ![p] = c]
  PROVE  Inv'
<1>1. acceso[p].pc = "nada" /\ estado[p] # "terminado"
  BY HaceEs
<1>2. estado' = [estado EXCEPT ![p] = estado[p]] /\ estado[p] \in Estados
  BY PcbDe
<1>3. b \in Pcbs /\ Fijo(b, texto[p]) /\ Crece(b.in_stack)
  BY DEF PcbFijo
<1> QED
  BY <1>1, <1>2, <1>3, PasoSolo

LEMMA LecturasTipo ==
  ASSUME NEW s, s.inicio \in Nat
  PROVE  Lecturas(s) \in Seq(Tareas)
<1> DEFINE resto == Tam - (s.inicio % Tam)
           x == <<"linea", s.inicio>>
           y == <<"linea", s.inicio + resto>>
<1>1. resto \in Nat
  <2>1. Tam \in Nat /\ s.inicio % Tam \in 0 .. Tam - 1
    BY PaginaEntera
  <2> QED
    BY <2>1
<1>2. s.inicio \in Nat /\ s.inicio + resto \in Nat
  BY <1>1
<1>3. x \in Tareas /\ y \in Tareas
  <2> HIDE DEF resto
  <2> QED
    BY <1>2 DEF Tareas
<1>4. Lecturas(s) = <<x, y>> \/ Lecturas(s) = <<x>>
  BY DEF Lecturas
<1> HIDE DEF x, y
<1>5. <<x, y>> \in Seq(Tareas) /\ <<x>> \in Seq(Tareas)
  BY <1>3
<1> QED
  BY <1>4, <1>5, Zenon

LEMMA PedirLineaMemoriaInv ==
  ASSUME Inv, NEW p \in Pids, PedirLineaMemoria(p)
  PROVE  Inv'
<1>1. estado[p] = "cpu" /\ cpu[p].fase = "nueva" /\ UNCHANGED <<texto, pcb, asignado, pisado, cacheVars>>
  BY DEF PedirLineaMemoria
<1>2. /\ PcbFijo(pcb[p], texto[p]) /\ texto[p] \in DOMAIN Textos /\ cpu[p] \in Controles
      /\ estado[p] \in Estados
      /\ pcb' = [pcb EXCEPT ![p] = pcb[p]] /\ cpu = [cpu EXCEPT ![p] = cpu[p]]
      /\ estado = [estado EXCEPT ![p] = estado[p]]
  BY <1>1, PcbDe
<1>3. pcb[p] \in Pcbs /\ Fijo(pcb[p], texto[p]) /\ Crece(pcb[p].in_stack)
  BY <1>2 DEF PcbFijo
<1>4. acceso[p].pc = "nada" /\ estado[p] # "terminado"
  BY <1>1 DEF Inv, PInv, ProgramaBien, Encargo
<1>5. CASE estado' = [estado EXCEPT ![p] = "perdido"] /\ UNCHANGED cpu
  <2>1. "perdido" \in Estados
    BY DEF Estados
  <2> QED
    BY <1>1, <1>2, <1>3, <1>4, <1>5, <2>1, PasoSolo
<1>6. CASE ~(estado' = [estado EXCEPT ![p] = "perdido"] /\ UNCHANGED cpu)
  <2> DEFINE n == pcb[p].PC + 1
             l == Textos[texto[p]].lineas
             s == pcb[p].in_cod[n]
             t == Lecturas(s) \o l[n]
             c == [cpu[p] EXCEPT !.fase = "ejecuta", !.tarea = t]
  <2>1. /\ pcb[p].PC < Len(pcb[p].in_cod) - 1 /\ UNCHANGED estado
        /\ cpu' = [cpu EXCEPT ![p] = c]
    BY <1>6 DEF PedirLineaMemoria
  <2>2. pcb[p].PC \in Nat /\ pcb[p].in_cod = IndiceCodigo(texto[p])
    BY <1>3 DEF Fijo
  <2>3. Len(IndiceCodigo(texto[p])) = Len(l) + 1
    BY <1>2, IndiceCodigoBien
  <2>4. l \in Seq(Seq(Primitivas))
    BY <1>2, TextoTipo
  <2>5. Len(l) \in Nat /\ DOMAIN l = 1 .. Len(l)
    BY <2>4, LenProperties
  <2>6. n \in 1 .. Len(l)
    BY <2>1, <2>2, <2>3, <2>5
  <2>7. s.inicio \in Nat
    BY <1>2, <2>2, <2>6, IndiceCodigoBien
  <2>8. Lecturas(s) \in Seq(Tareas)
    BY <2>7, LecturasTipo
  <2>9. l[n] \in Seq(Tareas)
    <3>1. l[n] \in Seq(Primitivas)
      BY <2>4, <2>5, <2>6
    <3>2. Primitivas \subseteq Tareas
      BY DEF Tareas
    <3> HIDE DEF l, n
    <3> QED
      BY <3>1, <3>2
  <2> HIDE DEF s, l, n
  <2>10. t \in Seq(Tareas)
    BY <2>8, <2>9
  <2> HIDE DEF t
  <2>11. c \in Controles
    BY <1>2, <2>10 DEF Controles
  <2> HIDE DEF c
  <2>12. estado' = [estado EXCEPT ![p] = estado[p]]
    BY <1>2, <2>1
  <2> QED
    BY <1>1, <1>2, <1>3, <1>4, <2>1, <2>11, <2>12, PasoSolo
<1> QED
  BY <1>5, <1>6

LEMMA ObtenerPosicionVariableInv ==
  ASSUME Inv, NEW p \in Pids, ObtenerPosicionVariable(p)
  PROVE  Inv'
<1>1. Hace(p, "posicion") /\ UNCHANGED <<texto, asignado, pisado, cacheVars>>
  BY DEF ObtenerPosicionVariable
<1>2. CASE Cae(p)
  BY <1>1, <1>2, CaeInv
<1>3. CASE ~Cae(p)
  <2> DEFINE o == PosicionVariable(p, Arg(p))
             c1 == [Sigue(cpu[p]) EXCEPT !.destino = o]
             c2 == [Error(cpu[p]) EXCEPT !.destino = o]
             c == IF o = -1 THEN c2 ELSE c1
  <2>1. ~Mata(p, Arg(p)) /\ UNCHANGED <<pcb, estado>> /\ cpu' = [cpu EXCEPT ![p] = c]
    BY <1>3 DEF ObtenerPosicionVariable
  <2>2. o \in Int
    BY <2>1, PosicionTipo DEF Mata
  <2>3. cpu[p] \in Controles /\ cpu[p].tarea # <<>>
    BY <1>1, HaceEs
  <2> HIDE DEF o
  <2>4. c1 \in Controles /\ c2 \in Controles
    BY <2>2, <2>3, SigueTipo, Zenon
  <2> HIDE DEF c1, c2
  <2>5. c \in Controles
    BY <2>4
  <2> HIDE DEF c
  <2>6. PcbFijo(pcb[p], texto[p]) /\ pcb' = [pcb EXCEPT ![p] = pcb[p]]
    BY <2>1, PcbDe
  <2> QED
    BY <1>1, <2>1, <2>5, <2>6, PasoHace
<1> QED
  BY <1>2, <1>3

LEMMA ValorInv ==
  ASSUME Inv, NEW p \in Pids, Valor(p)
  PROVE  Inv'
<1> DEFINE c == [Sigue(cpu[p]) EXCEPT !.valor = Arg(p)]
<1>1. /\ Hace(p, "valor") /\ UNCHANGED <<texto, pcb, estado, asignado, pisado, cacheVars>>
      /\ cpu' = [cpu EXCEPT ![p] = c]
  BY DEF Valor
<1>2. cpu[p] \in Controles /\ cpu[p].tarea # <<>> /\ Op(p) = "valor"
  BY <1>1, HaceEs
<1>3. Arg(p) \in Int
  BY <1>2, TareaEs DEF Inv
<1>4. c \in Controles
  BY <1>2, <1>3, SigueTipo, Zenon
<1> HIDE DEF c
<1>5. PcbFijo(pcb[p], texto[p]) /\ pcb' = [pcb EXCEPT ![p] = pcb[p]]
  BY <1>1, PcbDe
<1> QED
  BY <1>1, <1>4, <1>5, PasoHace

LEMMA FinalizarInv ==
  ASSUME Inv, NEW p \in Pids, Finalizar(p)
  PROVE  Inv'
<1> DEFINE f == [Sigue(cpu[p]) EXCEPT !.accion = "fin"]
           c == IF pcb[p].SP > 0 THEN Sigue(cpu[p]) ELSE f
<1>1. /\ Hace(p, "finalizar") /\ UNCHANGED <<texto, pcb, estado, asignado, pisado, cacheVars>>
      /\ cpu' = [cpu EXCEPT ![p] = c]
  BY DEF Finalizar
<1>2. cpu[p] \in Controles /\ cpu[p].tarea # <<>>
  BY <1>1, HaceEs
<1>3. Sigue(cpu[p]) \in Controles /\ f \in Controles
  BY <1>2, SigueTipo, Zenon
<1> HIDE DEF f
<1>4. c \in Controles
  BY <1>3
<1> HIDE DEF c
<1>5. PcbFijo(pcb[p], texto[p]) /\ pcb' = [pcb EXCEPT ![p] = pcb[p]]
  BY <1>1, PcbDe
<1> QED
  BY <1>1, <1>4, <1>5, PasoHace

LEMMA IrAlLabelInv ==
  ASSUME Inv, NEW p \in Pids, IrAlLabel(p)
  PROVE  Inv'
<1> DEFINE n == PosicionEtiqueta(p, Arg(p))
           b == [pcb[p] EXCEPT !.PC = n]
           c == [Sigue(cpu[p]) EXCEPT !.salto = TRUE]
<1>1. /\ Hace(p, "ir") /\ UNCHANGED <<texto, estado, asignado, pisado, cacheVars>>
      /\ cpu' = [cpu EXCEPT ![p] = c] /\ pcb' = [pcb EXCEPT ![p] = b]
  BY DEF IrAlLabel, Saltar
<1>2. cpu[p] \in Controles /\ cpu[p].tarea # <<>> /\ Op(p) = "ir" /\ Fijo(pcb[p], texto[p])
  BY <1>1, HaceEs
<1>3. Arg(p) \in STRING \ {SinNombre}
  BY <1>2, TareaEs DEF Inv, DeEtiqueta
<1>4. PcbFijo(pcb[p], texto[p]) /\ texto[p] \in DOMAIN Textos
  BY PcbDe
<1>5. n \in Nat
  BY <1>2, <1>3, <1>4, PosicionEtiquetaTipo
<1> HIDE DEF n
<1>6. PcbFijo(b, texto[p])
  BY <1>4, <1>5, FijoCampos, Zenon
<1>7. c \in Controles
  BY <1>2, SigueTipo, Zenon
<1> HIDE DEF b, c
<1> QED
  BY <1>1, <1>6, <1>7, PasoHace

LEMMA LlamarInv ==
  ASSUME Inv, NEW p \in Pids, NEW op \in DeEtiqueta, Hace(p, op), NEW r \in Memorias, Llamar(p, r)
  PROVE  Inv'
<1> DEFINE b == pcb[p]
           n == PosicionEtiqueta(p, Arg(p))
           f == Marco(b, r)
           z == Append(b.in_stack, f)
           y == [b EXCEPT !.SP = b.SP + 1, !.PC = n, !.in_stack = z]
           c == [Sigue(cpu[p]) EXCEPT !.salto = TRUE]
<1>1. /\ UNCHANGED <<texto, estado, asignado, pisado, cacheVars>>
      /\ cpu' = [cpu EXCEPT ![p] = c] /\ pcb' = [pcb EXCEPT ![p] = y]
  BY DEF Llamar, Saltar
<1>2. op # "nada"
  BY DEF DeEtiqueta
<1>3. cpu[p] \in Controles /\ cpu[p].tarea # <<>> /\ Op(p) = op /\ Fijo(b, texto[p])
  BY <1>2, HaceEs
<1>4. Arg(p) \in STRING \ {SinNombre}
  BY <1>2, <1>3, TareaEs DEF Inv
<1>5. PcbFijo(b, texto[p]) /\ texto[p] \in DOMAIN Textos
  BY PcbDe
<1>6. n \in Nat
  BY <1>3, <1>4, <1>5, PosicionEtiquetaTipo
<1>7. c \in Controles
  BY <1>3, SigueTipo, Zenon
<1> HIDE DEF n, c, b
<1>8. b \in Pcbs /\ b.SP \in Int /\ b.PC \in Nat /\ b.in_stack \in Seq(Marcos) /\ Crece(b.in_stack)
  BY <1>5 DEF PcbFijo, Pcbs, Fijo
<1>9. f \in Marcos /\ f.args = <<>> /\ f.vars = <<>> /\ f.retPos = b.PC
  BY <1>8 DEF Marco, Marcos
<1> HIDE DEF f
<1>10. /\ z \in Seq(Marcos) /\ Len(z) = Len(b.in_stack) + 1 /\ Crece(z)
       /\ \A k \in DOMAIN z : (k \in DOMAIN b.in_stack /\ z[k] = b.in_stack[k]) \/ z[k] = f
  <2> DEFINE s == b.in_stack
  <2>1. s \in Seq(Marcos) /\ Crece(s) /\ z = Append(s, f)
    BY <1>8
  <2> HIDE DEF s, z
  <2>2. z \in Seq(Marcos) /\ Len(z) = Len(s) + 1 /\ Crece(z) /\ MarcosDe(z, s, f)
    <3>1. f \in Marcos /\ f.args = <<>> /\ f.vars = <<>>
      BY <1>9
    <3> QED
      BY <2>1, <3>1, CreceLlamada
  <2> QED
    BY <2>2 DEF MarcosDe, s
<1> HIDE DEF z
<1>11. /\ y \in Pcbs /\ y.in_stack = z /\ y.PC = n /\ y.in_cod = b.in_cod /\ y.in_et = b.in_et
       /\ y.SP = b.SP + 1
  <2> DEFINE sp == b.SP + 1
  <2>1. sp \in Int /\ n \in Int /\ b \in Pcbs /\ z \in Seq(Marcos)
    BY <1>6, <1>8, <1>10
  <2>2. y = [b EXCEPT !.SP = sp, !.PC = n, !.in_stack = z]
    OBVIOUS
  <2> HIDE DEF sp, y
  <2>3. /\ y \in Pcbs /\ y.in_stack = z /\ y.PC = n /\ y.in_cod = b.in_cod /\ y.in_et = b.in_et
        /\ y.SP = sp
    BY <2>1, <2>2 DEF Pcbs
  <2> QED
    BY <2>3 DEF sp
<1> HIDE DEF y
<1>12. Fijo(y, texto[p])
  <2>1. Fijo(b, texto[p])
    BY <1>5 DEF PcbFijo
  <2>2. \A k \in DOMAIN z : z[k].retPos \in Nat
    BY <1>8, <1>9, <1>10, <2>1 DEF Fijo
  <2>3. Len(b.in_stack) \in Nat /\ b.SP + 1 = Len(b.in_stack)
    BY <1>8, <2>1, LenProperties DEF Fijo
  <2>4. y.SP + 1 = Len(y.in_stack)
    BY <1>8, <1>10, <1>11, <2>3
  <2> QED
    BY <1>6, <1>11, <2>1, <2>2, <2>4 DEF Fijo
<1>13. PcbFijo(y, texto[p])
  BY <1>10, <1>11, <1>12 DEF PcbFijo
<1> QED
  BY <1>1, <1>2, <1>7, <1>13, PasoHace DEF b

LEMMA LlamadasInv ==
  ASSUME Inv, NEW p \in Pids, LlamarConRetorno(p) \/ LlamarSinRetorno(p)
  PROVE  Inv'
<1>1. CASE LlamarConRetorno(p)
  <2> DEFINE d == cpu[p].destino
             g == Direccion(d, 0).pag
             r == [ID |-> SinNombre, offset |-> d, pag |-> g, size |-> 4]
  <2>1. Hace(p, "llamar") /\ Llamar(p, r)
    BY <1>1 DEF LlamarConRetorno
  <2>2. d \in Int
    BY PcbDe DEF Controles
  <2> HIDE DEF d
  <2>3. g \in Int
    <3>1. Direccion(d, 0) \in [pag : Int, k : Palabra]
      BY <2>2, 0 \in Int, DireccionTipo
    <3> QED
      BY <3>1
  <2> HIDE DEF g
  <2>4. r \in Memorias
    BY <2>2, <2>3 DEF Memorias, Nombres
  <2> HIDE DEF r
  <2> QED
    BY <2>1, <2>4, LlamarInv DEF DeEtiqueta
<1>2. CASE LlamarSinRetorno(p)
  <2> DEFINE r == [ID |-> "?", offset |-> 0, pag |-> 0, size |-> 0]
  <2>1. Hace(p, "procedimiento") /\ Llamar(p, r)
    BY <1>2 DEF LlamarSinRetorno
  <2>2. r \in Memorias
    BY DEF Memorias, Nombres
  <2> HIDE DEF r
  <2> QED
    BY <2>1, <2>2, LlamarInv DEF DeEtiqueta
<1> QED
  BY <1>1, <1>2

(* A PCB that goes and comes back is the same. *)
LEMMA VuelveIgual ==
  ASSUME NEW b, NEW t \in DOMAIN Textos, PcbFijo(b, t)
  PROVE  /\ DeserializarCPUKer(SerializarCPUKer(b)) = b
         /\ DeserializarKerCPU(SerializarKerCPU(b, <<2, 0, "RR">>)) = b
<1>1. PcbBien(b)
  BY PcbBienDe DEF PcbFijo
<1> DEFINE q == <<2, 0, "RR">>
<1>2. q \in Seq(Palabras) /\ Len(q) = 3
  BY DEF Palabras, Nombres
<1> HIDE DEF q
<1>3. DeserializarCPUKer(SerializarCPUKer(b)) = b /\ DeserializarKerCPU(SerializarKerCPU(b, q)) = b
  BY <1>1, <1>2, ViajeDeCualquiera
<1> QED
  BY <1>3 DEF q

LEMMA FinDeLineaInv ==
  ASSUME Inv, NEW p \in Pids, FinDeLinea(p)
  PROVE  Inv'
<1> DEFINE pc == IF cpu[p].salto THEN pcb[p].PC ELSE pcb[p].PC + 1
           a == [pcb[p] EXCEPT !.PC = pc]
           f == [a EXCEPT !.exit_code = 0]
<1>1. /\ EnCpu(p) /\ cpu[p].tarea = <<>> /\ UNCHANGED <<texto, asignado, pisado, cacheVars>>
      /\ cpu' = [cpu EXCEPT ![p] = Nueva]
  BY DEF FinDeLinea
<1>2. PcbFijo(pcb[p], texto[p]) /\ texto[p] \in DOMAIN Textos /\ estado[p] \in Estados
      /\ estado = [estado EXCEPT ![p] = estado[p]]
  BY PcbDe
<1>3. estado[p] # "terminado" /\ acceso[p].pc = "nada"
  <2>1. Encargo(acceso[p], estado[p], cpu[p], pcb[p])
    BY DEF Inv, PInv, ProgramaBien
  <2> QED
    BY <1>1, <2>1 DEF EnCpu, Encargo
<1>4. pc \in Nat
  BY <1>2 DEF PcbFijo, Fijo
<1> HIDE DEF pc
<1>5. PcbFijo(a, texto[p])
  BY <1>2, <1>4, FijoCampos, Zenon
<1> HIDE DEF a
<1>6. PcbFijo(f, texto[p])
  BY <1>5, 0 \in Int, FijoCampos, Zenon
<1> HIDE DEF f
<1>7. DeserializarCPUKer(SerializarCPUKer(a)) = a /\ DeserializarCPUKer(SerializarCPUKer(f)) = f
  BY <1>2, <1>5, <1>6, VuelveIgual
<1>8. Nueva \in Controles
  <2>1. <<>> \in Seq(Tareas)
    OBVIOUS
  <2> QED
    BY <2>1 DEF Nueva, Controles
<1>9. \/ pcb' = [pcb EXCEPT ![p] = DeserializarCPUKer(SerializarCPUKer(a))]
      \/ pcb' = [pcb EXCEPT ![p] = a]
      \/ pcb' = [pcb EXCEPT ![p] = DeserializarCPUKer(SerializarCPUKer(f))]
  BY DEF FinDeLinea, a, f, pc
<1>10. PICK b \in {a, f} : pcb' = [pcb EXCEPT ![p] = b]
  BY <1>7, <1>9
<1>11. PICK e \in Estados : estado' = [estado EXCEPT ![p] = e]
  <2>1. "listo" \in Estados /\ "fin" \in Estados
    BY DEF Estados
  <2>2. \/ estado' = estado
        \/ estado' = [estado EXCEPT ![p] = "listo"]
        \/ estado' = [estado EXCEPT ![p] = "fin"]
    BY DEF FinDeLinea
  <2> QED
    BY <1>2, <2>1, <2>2
<1>12. b \in Pcbs /\ Fijo(b, texto[p]) /\ Crece(b.in_stack)
  BY <1>5, <1>6 DEF PcbFijo
<1> QED
  BY <1>1, <1>3, <1>8, <1>10, <1>11, <1>12, PasoSolo

LEMMA K07Inv ==
  ASSUME Inv, NEW p \in Pids, K07(p)
  PROVE  Inv'
<1> DEFINE b == pcb[p]
<1>1. /\ estado[p] = "listo" /\ estado' = [estado EXCEPT ![p] = "cpu"]
      /\ pcb' = [pcb EXCEPT ![p] = DeserializarKerCPU(SerializarKerCPU(b, <<2, 0, "RR">>))]
      /\ UNCHANGED <<texto, cpu, asignado, pisado, cacheVars>>
  BY DEF K07
<1>2. /\ PcbFijo(b, texto[p]) /\ texto[p] \in DOMAIN Textos
      /\ cpu[p] \in Controles /\ cpu' = [cpu EXCEPT ![p] = cpu[p]]
  BY <1>1, PcbDe
<1>3. pcb' = [pcb EXCEPT ![p] = b]
  BY <1>1, <1>2, VuelveIgual
<1>4. acceso[p].pc = "nada" /\ estado[p] # "terminado" /\ "cpu" \in Estados
  BY <1>1 DEF Inv, PInv, ProgramaBien, Encargo, Estados
<1>5. b \in Pcbs /\ Fijo(b, texto[p]) /\ Crece(b.in_stack)
  BY <1>2 DEF PcbFijo
<1> QED
  BY <1>1, <1>2, <1>3, <1>4, <1>5, PasoSolo

(* An answer is taken, and what was stored is noted. *)
LEMMA RecibeInv ==
  ASSUME Inv, NEW p \in Pids, NEW ops, "nada" \notin ops, Recibe(p, ops), UNCHANGED <<texto, estado>>,
         NEW b, PcbFijo(b, texto[p]), pcb' = [pcb EXCEPT ![p] = b],
         NEW c \in Controles, cpu' = [cpu EXCEPT ![p] = c],
         \/ (acceso[p].op # "escribir" \/ acceso[p].res # "M02") /\ UNCHANGED <<asignado, pisado>>
         \/ acceso[p].op = "escribir" /\ acceso[p].res = "M02" /\ Guarda(p)
  PROVE  Inv'
<1>1. /\ acceso[p].pc = "listo" /\ acceso' = [acceso EXCEPT ![p] = Nada]
      /\ UNCHANGED <<mem, cache, orden, libera, roto, manchadas>>
  BY RecibeEs
<1>2. b \in Pcbs /\ Fijo(b, texto[p]) /\ Crece(b.in_stack)
  BY DEF PcbFijo
<1>3. PInv' /\ CInv'
  BY <1>1, <1>2, PasoRecibe
<1>4. AInv'
  BY <1>1, RecibeLeido, RecibeEscrito
<1> QED
  BY <1>3, <1>4 DEF Inv

(* A request, from a primitive that makes it *)
LEMMA PideLee ==
  ASSUME Inv, NEW p \in Pids, NEW op \in Lee, Hace(p, op),
         NEW d \in [pag : Int, k : Palabra], NEW v \in Int, NEW kernel \in BOOLEAN,
         Pide(p, "leer", d, v, kernel)
  PROVE  Inv'
<1>1. op # "nada" /\ op # "retornar"
  BY DEF Lee
<1>2. /\ acceso[p].pc = "nada" /\ estado[p] = "cpu" /\ cpu[p].fase = "ejecuta" /\ cpu[p].tarea # <<>>
      /\ Head(cpu[p].tarea)[1] = op
  BY <1>1, HaceEs
<1>3. "leer" \in {"leer", "escribir"}
  OBVIOUS
<1> QED
  BY <1>1, <1>2, <1>3, PasoPide

LEMMA PideEscribe ==
  ASSUME Inv, NEW p \in Pids, NEW op \in Escribe, Hace(p, op), op = "retornar" => ~SinMarco(p),
         NEW d \in [pag : Int, k : Palabra], NEW v \in Int, NEW kernel \in BOOLEAN,
         Pide(p, "escribir", d, v, kernel)
  PROVE  Inv'
<1>1. op # "nada"
  BY DEF Escribe
<1>2. /\ acceso[p].pc = "nada" /\ estado[p] = "cpu" /\ cpu[p].fase = "ejecuta" /\ cpu[p].tarea # <<>>
      /\ Head(cpu[p].tarea)[1] = op
  BY <1>1, HaceEs
<1>3. op = "retornar" => pcb[p].SP # -1
  BY DEF SinMarco
<1>4. "escribir" \in {"leer", "escribir"}
  OBVIOUS
<1> QED
  BY <1>2, <1>3, <1>4, PasoPide

LEMMA LeerLineaInv ==
  ASSUME Inv, NEW p \in Pids, LeerLinea(p)
  PROVE  Inv'
<1>1. CASE Hace(p, "linea") /\ Pide(p, "leer", Direccion(Arg(p), 0), 0, FALSE)
  <2> DEFINE d == Direccion(Arg(p), 0)
  <2>1. Op(p) = "linea"
    BY <1>1, HaceEs
  <2>2. Arg(p) \in Nat
    BY <2>1, TareaEs DEF Inv
  <2>3. d \in [pag : Int, k : Palabra]
    BY <2>2, 0 \in Int, DireccionTipo
  <2> HIDE DEF d
  <2> QED
    <3>1. Hace(p, "linea") /\ Pide(p, "leer", d, 0, FALSE)
      BY <1>1 DEF d
    <3>2. "linea" \in Lee
      BY DEF Lee
    <3> QED
      BY <2>3, <3>1, <3>2, 0 \in Int, PideLee
<1>2. CASE Recibe(p, {"linea"}) /\ UNCHANGED <<texto, pcb, estado, asignado, pisado>>
           /\ cpu' = [cpu EXCEPT ![p] = Sigue(@)]
  <2>1. /\ acceso[p].op = "leer" /\ cpu[p] \in Controles /\ cpu[p].tarea # <<>>
    BY <1>2, RecibeEs DEF Lee
  <2>2. Sigue(cpu[p]) \in Controles
    BY <2>1, SigueTipo
  <2>3. PcbFijo(pcb[p], texto[p]) /\ pcb' = [pcb EXCEPT ![p] = pcb[p]]
    BY <1>2, PcbDe
  <2> QED
    BY <1>2, <2>1, <2>2, <2>3, RecibeInv
<1> QED
  BY <1>1, <1>2 DEF LeerLinea

LEMMA DereferenciarInv ==
  ASSUME Inv, NEW p \in Pids, Dereferenciar(p)
  PROVE  Inv'
<1> DEFINE o == PosicionVariable(p, Arg(p))
<1>1. CASE Hace(p, "leer") /\ Cae(p) /\ UNCHANGED <<texto, vueltas, asignado, pisado, cacheVars>>
  BY <1>1, CaeInv
<1>2. CASE Hace(p, "leer") /\ ~Mata(p, Arg(p)) /\ Pide(p, "leer", Direccion(o, pcb[p].cant_pag), 0, FALSE)
  <2> DEFINE g == pcb[p].cant_pag
             d == Direccion(o, g)
  <2>1. o \in Int
    BY <1>2, PosicionTipo DEF Mata
  <2>2. g \in Int
    BY PcbDe DEF PcbFijo, Pcbs
  <2> HIDE DEF o, g
  <2>3. d \in [pag : Int, k : Palabra]
    BY <2>1, <2>2, DireccionTipo
  <2> HIDE DEF d
  <2> QED
    <3>1. Hace(p, "leer") /\ Pide(p, "leer", d, 0, FALSE)
      BY <1>2 DEF d, g
    <3>2. "leer" \in Lee
      BY DEF Lee
    <3> QED
      BY <2>3, <3>1, <3>2, 0 \in Int, PideLee
<1>3. CASE Recibe(p, {"leer"}) /\ ~(Hace(p, "leer"))
  <2> DEFINE a == acceso[p]
             mal == a.res = "M03" \/ EmpiezaConM03(a.valor)
             error == mal \/ o = -1
             e == IF error THEN Error(cpu[p]) ELSE Sigue(cpu[p])
             v == IF mal THEN 0 ELSE a.valor
             c == [e EXCEPT !.valor = v]
             f == [pcb[p] EXCEPT !.exit_code = -5]
             b == IF mal THEN f ELSE pcb[p]
  <2>1. /\ cpu' = [cpu EXCEPT ![p] = c]
        /\ pcb' = IF mal THEN [pcb EXCEPT ![p] = f] ELSE pcb
        /\ UNCHANGED <<texto, estado, asignado, pisado>>
    BY <1>3 DEF Dereferenciar
  <2>2. a.op = "leer" /\ cpu[p] \in Controles /\ cpu[p].tarea # <<>> /\ a.valor \in Int
    BY <1>3, RecibeEs DEF Lee, Accesos
  <2>3. PcbFijo(pcb[p], texto[p]) /\ pcb = [pcb EXCEPT ![p] = pcb[p]]
    BY PcbDe
  <2>4. PcbFijo(f, texto[p])
    BY <2>3, -5 \in Int, FijoCampos, Zenon
  <2> HIDE DEF f
  <2>5. mal \in BOOLEAN /\ error \in BOOLEAN
    OBVIOUS
  <2> HIDE DEF mal, error
  <2>6. PcbFijo(b, texto[p]) /\ pcb' = [pcb EXCEPT ![p] = b]
    BY <2>1, <2>3, <2>4, <2>5
  <2>7. v \in Int
    BY <2>2, <2>5
  <2>8. e = Error(cpu[p]) \/ e = Sigue(cpu[p])
    BY <2>5
  <2> HIDE DEF v, e, b
  <2>9. c \in Controles
    <3>1. [Sigue(cpu[p]) EXCEPT !.valor = v] \in Controles /\ [Error(cpu[p]) EXCEPT !.valor = v] \in Controles
      BY <2>2, <2>7, SigueTipo, Zenon
    <3> QED
      BY <2>8, <3>1, Zenon
  <2> HIDE DEF c
  <2> QED
    BY <1>3, <2>1, <2>2, <2>6, <2>9, RecibeInv
<1> QED
  BY <1>1, <1>2, <1>3 DEF Dereferenciar, Hace, Recibe

LEMMA FallaInv ==
  ASSUME Inv, NEW p \in Pids, NEW ops, "nada" \notin ops, Recibe(p, ops), UNCHANGED <<texto, estado>>,
         acceso[p].res = "M03", Falla(p)
  PROVE  Inv'
<1> DEFINE f == [pcb[p] EXCEPT !.exit_code = -5]
<1>1. PcbFijo(pcb[p], texto[p])
  BY PcbDe
<1>2. PcbFijo(f, texto[p])
  BY <1>1, -5 \in Int, FijoCampos, Zenon
<1>3. /\ cpu' = [cpu EXCEPT ![p] = Error(cpu[p])] /\ pcb' = [pcb EXCEPT ![p] = f]
      /\ UNCHANGED <<asignado, pisado>>
  BY DEF Falla
<1> HIDE DEF f
<1>4. cpu[p] \in Controles /\ cpu[p].tarea # <<>>
  BY RecibeEs
<1>5. Error(cpu[p]) \in Controles
  BY <1>4, SigueTipo
<1> QED
  BY <1>2, <1>3, <1>5, RecibeInv

LEMMA AsignarInv ==
  ASSUME Inv, NEW p \in Pids, Asignar(p)
  PROVE  Inv'
<1>1. cpu[p] \in Controles /\ PcbFijo(pcb[p], texto[p])
  BY PcbDe
<1>2. CASE Hace(p, "asignar") /\ Pide(p, "escribir", Direccion(cpu[p].destino, pcb[p].cant_pag),
                                      Corta(cpu[p].valor), FALSE)
  <2> DEFINE o == cpu[p].destino
             g == pcb[p].cant_pag
             d == Direccion(o, g)
             v == Corta(cpu[p].valor)
  <2>1. o \in Int /\ g \in Int /\ cpu[p].valor \in Int
    BY <1>1 DEF PcbFijo, Pcbs, Controles
  <2>2. v \in Int
    BY <2>1, CortaTipo
  <2> HIDE DEF o, g, v
  <2>3. d \in [pag : Int, k : Palabra]
    BY <2>1, DireccionTipo
  <2> HIDE DEF d
  <2> QED
    <3>1. Hace(p, "asignar") /\ Pide(p, "escribir", d, v, FALSE)
      BY <1>2 DEF d, o, g, v
    <3>2. "asignar" \in Escribe
      BY DEF Escribe
    <3> QED
      BY <2>2, <2>3, <3>1, <3>2, PideEscribe
<1>3. CASE /\ Recibe(p, {"asignar"}) /\ UNCHANGED <<texto, estado>>
           /\ acceso[p].res = "M03" /\ Falla(p)
  BY <1>3, FallaInv
<1>4. CASE /\ Recibe(p, {"asignar"}) /\ UNCHANGED <<texto, estado>>
           /\ acceso[p].res = "M02" /\ Anota(p, cpu[p].destino)
           /\ cpu' = [cpu EXCEPT ![p] = Sigue(@)] /\ UNCHANGED pcb
  <2>1. acceso[p].op = "escribir" /\ cpu[p].tarea # <<>>
    BY <1>4, RecibeEs DEF Escribe
  <2>2. Guarda(p)
    BY <1>4 DEF Anota, Guarda
  <2>3. Sigue(cpu[p]) \in Controles
    BY <1>1, <2>1, SigueTipo
  <2>4. pcb' = [pcb EXCEPT ![p] = pcb[p]]
    BY <1>4, PcbDe
  <2> QED
    BY <1>1, <1>4, <2>1, <2>2, <2>3, <2>4, RecibeInv
<1> QED
  BY <1>2, <1>3, <1>4 DEF Asignar

LEMMA RetornarInv ==
  ASSUME Inv, NEW p \in Pids, Retornar(p)
  PROVE  Inv'
<1> DEFINE b == pcb[p]
           s == b.in_stack
           marco == s[b.SP + 1]
           o == marco.retVar.offset
<1>1. cpu[p] \in Controles /\ PcbFijo(b, texto[p])
  BY PcbDe
<1>2. CASE Hace(p, "retornar") /\ Cae(p) /\ UNCHANGED <<texto, vueltas, asignado, pisado, cacheVars>>
  BY <1>2, CaeInv
<1>3. CASE Hace(p, "retornar") /\ ~SinMarco(p)
           /\ Pide(p, "escribir", Direccion(o, b.cant_pag), Corta(cpu[p].valor), FALSE)
  <2> DEFINE g == b.cant_pag
             d == Direccion(o, g)
             v == Corta(cpu[p].valor)
  <2>1. g \in Int /\ cpu[p].valor \in Int
    BY <1>1 DEF PcbFijo, Pcbs, Controles
  <2>2. v \in Int
    BY <2>1, CortaTipo
  <2>3. o \in Int
    BY <1>1, <1>3, MarcoTipo DEF SinMarco
  <2> HIDE DEF o, g, v
  <2>4. d \in [pag : Int, k : Palabra]
    BY <2>1, <2>3, DireccionTipo
  <2> HIDE DEF d
  <2>5. Hace(p, "retornar") /\ ~SinMarco(p) /\ Pide(p, "escribir", d, v, FALSE)
    BY <1>3 DEF d, g, v
  <2>6. "retornar" \in Escribe
    BY DEF Escribe
  <2> QED
    BY <2>2, <2>4, <2>5, <2>6, PideEscribe
<1>4. CASE /\ Recibe(p, {"retornar"}) /\ UNCHANGED <<texto, estado>>
           /\ acceso[p].res = "M03" /\ Falla(p)
  BY <1>4, FallaInv
<1>5. CASE /\ Recibe(p, {"retornar"}) /\ UNCHANGED <<texto, estado>>
           /\ acceso[p].res = "M02" /\ Anota(p, o)
           /\ cpu' = [cpu EXCEPT ![p] = Sigue(@)]
           /\ pcb' = [pcb EXCEPT ![p] = [b EXCEPT !.SP = @ - 1, !.PC = marco.retPos, !.in_stack = Front(@)]]
  <2> DEFINE sp == b.SP - 1
             n == marco.retPos
             z == Front(s)
             y == [b EXCEPT !.SP = sp, !.PC = n, !.in_stack = z]
  <2>1. acceso[p].op = "escribir" /\ cpu[p].tarea # <<>> /\ b.SP # -1
    BY <1>5, RecibeEs DEF Escribe
  <2>2. Guarda(p)
    <3> HIDE DEF o
    <3> QED
      BY <1>5 DEF Anota, Guarda
  <2>3. Sigue(cpu[p]) \in Controles
    BY <1>1, <2>1, SigueTipo
  <2>4. pcb' = [pcb EXCEPT ![p] = y]
    BY <1>5
  <2>5. b \in Pcbs /\ Fijo(b, texto[p]) /\ Crece(s) /\ s \in Seq(Marcos) /\ b.SP \in Int /\ b.SP + 1 = Len(s)
    BY <1>1 DEF PcbFijo, Pcbs, Fijo
  <2>6. n \in Nat /\ b.SP \in Nat
    BY <1>1, <2>1, MarcoTipo
  <2> HIDE DEF s, n
  <2>7. Len(s) # 0
    BY <2>5, <2>6
  <2>8. /\ z \in Seq(Marcos) /\ Len(z) = Len(s) - 1 /\ Crece(z)
        /\ \A k \in DOMAIN z : k \in DOMAIN s /\ z[k] = s[k]
    BY <2>5, <2>7, CreceRetorno
  <2>9. sp \in Int /\ sp + 1 = Len(s) - 1
    BY <2>5
  <2> HIDE DEF z, sp, b
  <2>10. /\ y \in Pcbs /\ y.in_stack = z /\ y.PC = n /\ y.in_cod = b.in_cod /\ y.in_et = b.in_et
         /\ y.SP = sp
    <3>1. n \in Int /\ z \in Seq(Marcos) /\ sp \in Int /\ b \in Pcbs
      BY <2>5, <2>6, <2>8, <2>9
    <3> QED
      BY <3>1 DEF Pcbs
  <2> HIDE DEF y
  <2>11. Fijo(y, texto[p])
    <3>1. \A k \in DOMAIN z : z[k].retPos \in Nat
      BY <2>5, <2>8 DEF Fijo, s
    <3> QED
      BY <2>5, <2>6, <2>8, <2>9, <2>10, <3>1 DEF Fijo
  <2>12. PcbFijo(y, texto[p])
    BY <2>8, <2>10, <2>11 DEF PcbFijo
  <2> QED
    BY <1>5, <2>1, <2>2, <2>3, <2>4, <2>12, RecibeInv
<1> QED
  BY <1>2, <1>3, <1>4, <1>5 DEF Retornar

LEMMA PaginaHeapTipo ==
  ASSUME Inv, NEW p \in Pids
  PROVE  PaginaHeap(p) \in Int
<1>1. pcb[p].cant_pag \in Int
  BY PcbDe DEF PcbFijo, Pcbs
<1> QED
  BY <1>1, PilaOK DEF PaginaHeap

LEMMA K90K94Inv ==
  ASSUME Inv, NEW p \in Pids, K90K94(p)
  PROVE  Inv'
<1> DEFINE d == [pag |-> PaginaHeap(p), k |-> 0]
<1>1. d \in [pag : Int, k : Palabra]
  BY PaginaHeapTipo, PaginaEntera, 0 \in Nat
<1>2. CASE Hace(p, "k90") /\ Pide(p, "escribir", d, Arg(p), TRUE)
  <2>1. Op(p) = "k90"
    BY <1>2, HaceEs
  <2>2. Arg(p) \in Int
    BY <2>1, TareaEs DEF Inv
  <2>3. "k90" \in Escribe /\ ~("k90" = "retornar")
    BY DEF Escribe
  <2> HIDE DEF d
  <2> QED
    BY <1>1, <1>2, <2>2, <2>3, PideEscribe
<1>3. CASE Hace(p, "k94") /\ Pide(p, "leer", d, 0, TRUE)
  <2>1. "k94" \in Lee
    BY DEF Lee
  <2> HIDE DEF d
  <2> QED
    BY <1>1, <1>3, <2>1, 0 \in Int, PideLee
<1>4. CASE /\ Recibe(p, {"k90", "k94"})
           /\ cpu' = [cpu EXCEPT ![p] = Sigue(@)]
           /\ asignado' = IF Op(p) = "k94" \/ acceso[p].res = "M03" THEN asignado
                          ELSE [asignado EXCEPT ![p] = Con(@, Dir(p), acceso[p].valor)]
           /\ UNCHANGED <<texto, vueltas, pcb, estado, pisado>>
  <2>1. /\ acceso[p].pc = "listo" /\ Op(p) \in {"k90", "k94"} /\ cpu[p] \in Controles /\ cpu[p].tarea # <<>>
        /\ Op(p) = "k94" => acceso[p].op = "leer"
        /\ Op(p) = "k90" => acceso[p].op = "escribir"
    BY <1>4, RecibeEs DEF Lee, Escribe
  <2>2. Sigue(cpu[p]) \in Controles
    BY <2>1, SigueTipo
  <2>3. PcbFijo(pcb[p], texto[p]) /\ pcb' = [pcb EXCEPT ![p] = pcb[p]]
    BY <1>4, PcbDe
  <2>4. CASE Op(p) = "k94" \/ acceso[p].res = "M03"
    <3>1. acceso[p].op # "escribir" \/ acceso[p].res # "M02"
      BY <2>1, <2>4
    <3>2. UNCHANGED <<asignado, pisado>>
      BY <1>4, <2>4
    <3> QED
      BY <1>4, <2>2, <2>3, <3>1, <3>2, RecibeInv
  <2>5. CASE ~(Op(p) = "k94" \/ acceso[p].res = "M03")
    <3>1. acceso[p].op = "escribir"
      BY <2>1, <2>5
    <3>2. acceso[p].res = "M02"
      BY <2>1, <2>5, <3>1 DEF Inv, CInv, Halla
    <3>3. Guarda(p)
      BY <1>4, <2>5 DEF Guarda
    <3> QED
      BY <1>4, <2>2, <2>3, <3>1, <3>2, <3>3, RecibeInv
  <2> QED
    BY <2>4, <2>5
<1> QED
  BY <1>2, <1>3, <1>4 DEF K90K94

LEMMA K19Inv ==
  ASSUME Inv, NEW p \in Pids, K19(p)
  PROVE  Inv'
<1> DEFINE g == PaginaHeap(p)
           x == <<p, g>>
           h == Blanca(0)
<1>1. /\ Hace(p, "k19") /\ mem' = IF x \in DOMAIN mem THEN mem ELSE Con(mem, x, h)
      /\ cpu' = [cpu EXCEPT ![p] = Sigue(cpu[p])]
      /\ UNCHANGED <<texto, pcb, estado, asignado, pisado, cache, orden, acceso, libera, roto, manchadas>>
  BY DEF K19
<1>2. /\ acceso[p].pc = "nada" /\ estado[p] = "cpu" /\ cpu[p] \in Controles /\ cpu[p].tarea # <<>>
  BY <1>1, HaceEs
<1>3. Sigue(cpu[p]) \in Controles
  BY <1>2, SigueTipo
<1>4. g \in Int
  BY PaginaHeapTipo
<1>5. h \in Hoja
  BY 0 \in Int DEF Blanca, Hoja
<1>6. /\ DOMAIN mem \subseteq Pids \X Int /\ mem \in [DOMAIN mem -> Hoja]
      /\ cpu \in [Pids -> Controles]
  BY DEF Inv, CInv, MemoriaTipo, PInv
<1> HIDE DEF g, h
<1>7. /\ DOMAIN mem \subseteq DOMAIN mem' /\ DOMAIN mem' \subseteq DOMAIN mem \cup {x}
      /\ \A y \in DOMAIN mem : mem'[y] = mem[y]
      /\ mem' \in [DOMAIN mem' -> Hoja]
  <2>1. CASE x \in DOMAIN mem
    BY <1>1, <1>6, <2>1
  <2>2. CASE x \notin DOMAIN mem
    <3>1. mem' = [y \in DOMAIN mem \cup {x} |-> IF y = x THEN h ELSE mem[y]]
      BY <1>1, <2>2 DEF Con
    <3> HIDE DEF x
    <3> QED
      BY <1>5, <1>6, <2>2, <3>1
  <2> QED
    BY <2>1, <2>2
<1>8. DOMAIN mem' \subseteq Pids \X Int
  <2>1. x \in Pids \X Int
    BY <1>4
  <2> QED
    BY <1>6, <1>7, <2>1
<1>9. CInv'
  BY <1>1, <1>7, <1>8, MasPaginas DEF Inv
<1>10. PInv'
  <2>1. cpu' \in [Pids -> Controles] /\ \A q \in Pids \ {p} : cpu'[q] = cpu[q]
    BY <1>1, <1>3, <1>6
  <2>2. ASSUME NEW q \in Pids PROVE ProgramaBien(q)'
    <3>1. ProgramaBien(q)
      BY DEF Inv, PInv
    <3>2. Encargo(acceso[q], estado[q], cpu[q], pcb[q])'
      BY <1>1, <1>2, <2>1, <3>1 DEF ProgramaBien, Encargo
    <3> QED
      BY <1>1, <3>1, <3>2 DEF ProgramaBien
  <2> QED
    BY <1>1, <2>1, <2>2 DEF Inv, PInv
<1>11. ASSUME NEW q \in Pids PROVE Guardado(q)'
  <2>1. Guardado(q)
    BY DEF Inv, AInv
  <2>2. \A a : Escrita(q, a)' <=> Escrita(q, a)
    BY <1>1 DEF Escrita, Dir
  <2>3. ASSUME NEW a \in DOMAIN asignado[q], <<q, a[1]>> \in DOMAIN mem'
        PROVE  <<q, a[1]>> \in DOMAIN mem /\ mem'[<<q, a[1]>>] = mem[<<q, a[1]>>]
    <3>1. <<q, a[1]>> \in DOMAIN mem
      <4>1. CASE q = p
        BY <1>2, <2>1, <4>1 DEF Guardado
      <4>2. CASE q # p
        <5>1. <<q, a[1]>> # x
          BY <4>2
        <5> QED
          BY <1>7, <2>3, <5>1
      <4> QED
        BY <4>1, <4>2
    <3> QED
      BY <1>7, <3>1
  <2> QED
    BY <1>1, <1>7, <2>2, <2>3, SigueGuardado DEF Inv
<1>12. AInv'
  BY <1>1, <1>11 DEF Inv, AInv
<1> QED
  BY <1>9, <1>10, <1>12 DEF Inv

LEMMA FinalizarProcesoInv ==
  ASSUME Inv, NEW p \in Pids, FinalizarProceso(p)
  PROVE  Inv'
<1>1. /\ estado[p] = "fin" /\ K25(p) /\ estado' = [estado EXCEPT ![p] = "terminado"]
      /\ UNCHANGED <<texto, pcb, cpu, asignado, pisado>>
  BY DEF FinalizarProceso
<1>2. libera' = p /\ UNCHANGED <<mem, cache, orden, acceso, manchadas>>
  BY <1>1 DEF K25
<1>3. CInv'
  BY <1>1, K25C DEF Inv
<1>4. /\ estado' \in [Pids -> Estados] /\ estado'[p] = "terminado"
      /\ \A q \in Pids \ {p} : estado'[q] = estado[q]
  BY <1>1 DEF Inv, PInv, Estados
<1>5. ASSUME NEW q \in Pids PROVE ProgramaBien(q)'
  <2>1. ProgramaBien(q)
    BY DEF Inv, PInv
  <2>2. Encargo(acceso[q], estado[q], cpu[q], pcb[q])'
    BY <1>1, <1>2, <1>4, <2>1 DEF ProgramaBien, Encargo
  <2> QED
    BY <1>1, <2>1, <2>2 DEF ProgramaBien
<1>6. PInv'
  BY <1>1, <1>2, <1>4, <1>5 DEF Inv, PInv
<1>7. ASSUME NEW q \in Pids PROVE Guardado(q)'
  <2>1. \A a : Escrita(q, a)' <=> Escrita(q, a)
    BY <1>2 DEF Escrita, Dir
  <2>2. estado'[q] # "terminado" => estado[q] # "terminado"
    BY <1>4
  <2> QED
    BY <1>1, <1>2, <2>1, <2>2, SigueGuardado DEF Inv
<1>8. AInv'
  BY <1>1, <1>7 DEF Inv, AInv
<1> QED
  BY <1>3, <1>6, <1>8 DEF Inv

LEMMA BlancaTipo ==
  ASSUME NEW v \in Int
  PROVE  Blanca(v) \in Hoja /\ \A k \in Palabra : Blanca(v)[k + 1] = v
<1>1. Blanca(v) = [k \in 1 .. Tam \div 4 |-> v] /\ Tam \div 4 \in Nat
  <2>1. Tam \in Nat
    BY CacheOK
  <2> QED
    BY <2>1 DEF Blanca
<1>2. \A k \in Palabra : k + 1 \in 1 .. Tam \div 4
  BY <1>1 DEF Palabra
<1> QED
  BY <1>1, <1>2 DEF Hoja

LEMMA IndiceStackBien ==
  /\ IndiceStack \in Seq(Marcos) /\ Len(IndiceStack) = 1 /\ Crece(IndiceStack)
  /\ \A k \in DOMAIN IndiceStack : IndiceStack[k].retPos = 0
<1> DEFINE f == [pos |-> 0, retPos |-> 0, retVar |-> [ID |-> SinNombre, offset |-> 0, pag |-> 0, size |-> 0],
                 args |-> <<>>, vars |-> <<>>]
<1>1. f \in Marcos /\ f.args = <<>> /\ f.vars = <<>> /\ f.retPos = 0
  BY DEF Marcos, Memorias, Nombres
<1>2. IndiceStack = <<f>>
  BY DEF IndiceStack
<1> HIDE DEF f
<1>3. IndiceStack \in Seq(Marcos) /\ Len(IndiceStack) = 1 /\ DOMAIN IndiceStack = 1 .. 1 /\ IndiceStack[1] = f
  BY <1>1, <1>2
<1>4. \A k \in DOMAIN IndiceStack : IndiceStack[k] = f
  BY <1>3
<1>5. ASSUME NEW v \in Nat \X Nat, Variable(IndiceStack, v) PROVE FALSE
  <2>1. v[1] \in DOMAIN IndiceStack /\ v[2] \in DOMAIN IndiceStack[v[1]].vars
    BY <1>5 DEF Variable
  <2> QED
    BY <1>1, <1>4, <2>1
<1>6. Crece(IndiceStack)
  BY <1>1, <1>4, <1>5 DEF Crece
<1> QED
  BY <1>1, <1>3, <1>4, <1>6

LEMMA CrearPcbBien ==
  ASSUME NEW p \in Pids, NEW t \in DOMAIN Textos
  PROVE  PcbFijo(CrearPcb(p, t), t) /\ CantPag(t) \in Int
<1> DEFINE b == CrearPcb(p, t)
           n == Len(Textos[t].lineas)
           c == IndiceCodigo(t)
           e == IndiceEtiquetas(Textos[t].etiquetas)
           g == CantPag(t)
<1>1. n \in Nat
  BY TextoTipo, LenProperties
<1>2. g \in Int
  <2> HIDE DEF n
  <2>1. Largo \in Nat /\ Tam \in Nat \ {0}
    BY PilaOK, CacheOK
  <2>2. n * Largo \in Nat
    BY <1>1, <2>1
  <2>3. g = (n * Largo + Tam - 1) \div Tam
    BY DEF CantPag, n
  <2> DEFINE m == n * Largo
  <2> HIDE DEF m
  <2>4. (m + Tam - 1) \div Tam \in Int
    BY <2>1, <2>2 DEF m
  <2> QED
    BY <2>3, <2>4 DEF m
<1>3. c \in Seq(Sentencias)
  BY IndiceCodigoBien DEF CodigoBien
<1>4. e \in Seq(Palabras)
  BY EtiquetasTipo DEF EtiquetasBien
<1>5. p \in Int
  BY CacheOK
<1>6. b = [PID |-> p, PC |-> 0, cant_pag |-> g, SP |-> 0, exit_code |-> 0, in_cod |-> c, in_et |-> e,
           in_stack |-> IndiceStack]
  BY DEF CrearPcb, IndiceCodigo
<1> HIDE DEF b, c, e, g
<1>7. /\ b \in Pcbs /\ b.PC = 0 /\ b.SP = 0 /\ b.in_cod = c /\ b.in_et = e /\ b.in_stack = IndiceStack
  BY <1>2, <1>3, <1>4, <1>5, <1>6, IndiceStackBien DEF Pcbs
<1>8. Fijo(b, t)
  <2>1. b.PC \in Nat /\ b.SP + 1 = Len(b.in_stack)
    BY <1>7, IndiceStackBien
  <2>2. \A k \in DOMAIN b.in_stack : b.in_stack[k].retPos \in Nat
    BY <1>7, IndiceStackBien
  <2> QED
    BY <1>7, <2>1, <2>2 DEF Fijo, c, e
<1>9. Crece(b.in_stack)
  BY <1>7, IndiceStackBien
<1> QED
  BY <1>2, <1>7, <1>8, <1>9 DEF PcbFijo, b, g

LEMMA InitInv == Init => Inv
<1> SUFFICES ASSUME Init PROVE Inv
  OBVIOUS
<1>1. texto \in [Pids -> DOMAIN Textos]
  BY PilaOK DEF Init
<1>2. \A p \in Pids : texto[p] \in DOMAIN Textos
  BY <1>1
<1>3. \A p \in Pids : pcb[p] = CrearPcb(p, texto[p]) /\ PcbFijo(pcb[p], texto[p])
  BY <1>2, CrearPcbBien DEF Init
<1>4. pcb \in [Pids -> Pcbs]
  <2>1. pcb = [p \in Pids |-> CrearPcb(p, texto[p])]
    BY DEF Init
  <2>2. \A p \in Pids : CrearPcb(p, texto[p]) \in Pcbs
    BY <1>3 DEF PcbFijo
  <2> QED
    BY <2>1, <2>2
<1>5. /\ cache = [i \in Entradas |-> Vacia] /\ orden = <<>> /\ acceso = [p \in Pids |-> Nada]
      /\ libera = 0 /\ manchadas = {}
  BY DEF Init, CacheInit
<1>6. Nada \in Accesos /\ Nada.pc = "nada"
  <2>1. [pag |-> 0, k |-> 0] \in [pag : Int, k : Palabra]
    BY PaginaEntera, 0 \in Nat
  <2> QED
    BY <2>1 DEF Nada, Accesos
<1>7. \A p \in Pids : acceso[p] = Nada
  BY <1>5
<1>8. PInv
  <2>1. estado \in [Pids -> Estados]
    BY DEF Init, Estados
  <2>2. cpu \in [Pids -> Controles]
    <3>1. <<>> \in Seq(Tareas)
      OBVIOUS
    <3>2. Nueva \in Controles
      BY <3>1 DEF Nueva, Controles
    <3> QED
      BY <3>2 DEF Init
  <2>3. ASSUME NEW p \in Pids PROVE ProgramaBien(p)
    BY <1>3, <1>6, <1>7 DEF ProgramaBien, PcbFijo, Encargo
  <2> QED
    BY <1>1, <1>4, <1>5, <2>1, <2>2, <2>3 DEF PInv
<1> DEFINE D == UNION {PaginasCodigo(p) \cup PaginasStack(p) : p \in Pids}
<1>9. mem = [x \in D |-> Blanca(IF x \in PaginasCodigo(x[1]) THEN 100 + x[1] ELSE 0)]
  BY DEF Init
<1>10. \A p \in Pids : CantPag(texto[p]) \in Int
  BY <1>2, CrearPcbBien
<1>11. D \subseteq Pids \X Int
  <2>1. ASSUME NEW p \in Pids PROVE PaginasCodigo(p) \subseteq Pids \X Int /\ PaginasStack(p) \subseteq Pids \X Int
    <3> DEFINE n == CantPag(texto[p])
    <3>1. n \in Int
      BY <1>10
    <3>2. PaginasCodigo(p) = {<<p, g>> : g \in 0 .. n - 1}
      BY DEF PaginasCodigo
    <3>3. PaginasStack(p) = {<<p, n + g>> : g \in 0 .. PagStack - 1}
      BY DEF PaginasStack
    <3> HIDE DEF n
    <3> QED
      BY <3>1, <3>2, <3>3, PilaOK
  <2> QED
    BY <2>1
<1> HIDE DEF D
<1>12. \A x \in D : x[1] \in Nat
  BY <1>11, CacheOK
<1>13. \A x \in D : (IF x \in PaginasCodigo(x[1]) THEN 100 + x[1] ELSE 0) \in Int
  BY <1>12
<1>14. mem \in [D -> Hoja] /\ DOMAIN mem = D
  <2>1. \A x \in D : Blanca(IF x \in PaginasCodigo(x[1]) THEN 100 + x[1] ELSE 0) \in Hoja
    BY <1>13, BlancaTipo
  <2> QED
    BY <1>9, <2>1
<1>15. \A i \in Entradas : cache[i] = Vacia /\ cache[i].pid = -1
  BY <1>5 DEF Vacia
<1>16. CInv
  <2>1. MemoriaTipo
    <3>1. <<>> \in Seq(Entradas)
      OBVIOUS
    <3> QED
      BY <1>5, <1>6, <1>11, <1>14, <3>1 DEF MemoriaTipo, Entrada
  <2>2. ASSUME NEW i \in Entradas PROVE EntradaBien(i) /\ Coherente(i)
    BY <1>15 DEF EntradaBien, Coherente
  <2>3. ASSUME NEW p \in Pids PROVE CantPidEnCache(p) <= EntradasProceso
    <3>1. {i \in Entradas : cache[i].pid = p} = {}
      BY <1>15, CacheOK
    <3>2. Cardinality({}) = 0
      BY FS_EmptySet
    <3>3. CantPidEnCache(p) = 0
      BY <3>1, <3>2, Zenon DEF CantPidEnCache
    <3> QED
      BY <3>3, CacheOK
  <2>4. ASSUME NEW p \in Pids PROVE Halla(p) /\ Contesta(p)
    BY <1>6, <1>7 DEF Halla, Contesta
  <2> QED
    BY <2>1, <2>2, <2>3, <2>4 DEF CInv
<1>17. ASSUME NEW p \in Pids PROVE Guardado(p)
  <2> DEFINE C == {x[2] : x \in PaginasCodigo(p)}
             f == asignado[p]
             n == CantPag(texto[p])
  <2>1. f = [a \in C \X (0 .. Tam \div 4 - 1) |-> 100 + p]
    BY DEF Init
  <2>2. n \in Int /\ PaginasCodigo(p) = {<<p, g>> : g \in 0 .. n - 1}
    BY <1>10 DEF PaginasCodigo
  <2> HIDE DEF n
  <2>3. C \subseteq Int /\ \A g \in C : <<p, g>> \in PaginasCodigo(p)
    BY <2>2
  <2> HIDE DEF C, f
  <2>4. DOMAIN f = C \X Palabra /\ \A a \in C \X Palabra : f[a] = 100 + p
    BY <2>1 DEF Palabra
  <2>5. DOMAIN f \subseteq Int \X Palabra
    BY <2>3, <2>4
  <2>6. ASSUME NEW a \in DOMAIN f
        PROVE  <<p, a[1]>> \in DOMAIN mem /\ mem[<<p, a[1]>>][a[2] + 1] = f[a]
    <3> DEFINE x == <<p, a[1]>>
    <3>1. a[1] \in C /\ a[2] \in Palabra /\ f[a] = 100 + p
      BY <2>4
    <3>2. x \in PaginasCodigo(p) /\ x[1] = p
      BY <2>3, <3>1
    <3> HIDE DEF x
    <3>3. x \in D
      BY <3>2 DEF D
    <3>4. mem[x] = Blanca(100 + p)
      BY <1>9, <3>2, <3>3
    <3>5. 100 + p \in Int
      BY CacheOK
    <3>6. Blanca(100 + p)[a[2] + 1] = 100 + p
      BY <3>1, <3>5, BlancaTipo
    <3> QED
      BY <1>14, <3>1, <3>3, <3>4, <3>6 DEF x
  <2> QED
    BY <2>5, <2>6 DEF Guardado, f
<1>18. AInv
  <2>1. asignado = [p \in Pids |-> asignado[p]] /\ pisado = [p \in Pids |-> pisado[p]]
    BY DEF Init
  <2> QED
    BY <1>17, <2>1 DEF AInv
<1> QED
  BY <1>8, <1>16, <1>18 DEF Inv

LEMMA SinCambios == ASSUME Inv, UNCHANGED vars PROVE Inv'
<1>1. UNCHANGED <<texto, pcb, estado, cpu, asignado, pisado, mem, cache, orden, acceso, libera, roto, manchadas>>
  BY DEF vars, cacheVars
<1>2. PInv'
  BY <1>1 DEF Inv, PInv, ProgramaBien, Encargo
<1>3. MemoriaTipo'
  BY <1>1 DEF Inv, CInv, MemoriaTipo
<1>4. CInv'
  <2>1. \A i \in Entradas : EntradaBien(i)' /\ Coherente(i)'
    BY <1>1 DEF Inv, CInv, EntradaBien, Coherente, Lleva, Bajando
  <2>2. \A p \in Pids : Halla(p)' /\ Contesta(p)' /\ CantPidEnCache(p)' <= EntradasProceso
    BY <1>1 DEF Inv, CInv, Halla, Contesta, Lleva, Pagina, CantPidEnCache
  <2> QED
    BY <1>3, <2>1, <2>2 DEF CInv
<1>5. AInv'
  BY <1>1 DEF Inv, AInv, Guardado, Escrita, Dir
<1> QED
  BY <1>2, <1>4, <1>5 DEF Inv

LEMMA PasoInv == Inv /\ [Next]_vars => Inv'
<1> SUFFICES ASSUME Inv, [Next]_vars PROVE Inv'
  OBVIOUS
<1>1. CASE UNCHANGED vars
  BY <1>1, SinCambios
<1>2. CASE Hilos /\ UNCHANGED progVars
  BY <1>2, HilosInv DEF Inv
<1>3. ASSUME NEW p \in Pids, Programa(p) PROVE Inv'
  <2>1. CASE PedirLineaMemoria(p) \/ LeerLinea(p)
    BY <2>1, PedirLineaMemoriaInv, LeerLineaInv
  <2>2. CASE DefinirVariable(p) \/ ObtenerPosicionVariable(p)
    BY <2>2, DefinirVariableInv, ObtenerPosicionVariableInv
  <2>3. CASE Valor(p) \/ Dereferenciar(p) \/ Asignar(p)
    BY <2>3, ValorInv, DereferenciarInv, AsignarInv
  <2>4. CASE IrAlLabel(p) \/ LlamarConRetorno(p) \/ LlamarSinRetorno(p)
    BY <2>4, IrAlLabelInv, LlamadasInv
  <2>5. CASE Retornar(p) \/ Finalizar(p)
    BY <2>5, RetornarInv, FinalizarInv
  <2>6. CASE K19(p) \/ K90K94(p)
    BY <2>6, K19Inv, K90K94Inv
  <2>7. CASE FinDeLinea(p) \/ K07(p) \/ FinalizarProceso(p)
    BY <2>7, FinDeLineaInv, K07Inv, FinalizarProcesoInv
  <2> QED
    BY <1>3, <2>1, <2>2, <2>3, <2>4, <2>5, <2>6, <2>7 DEF Programa
<1> QED
  BY <1>1, <1>2, <1>3 DEF Next

(* Every reachable state is one of the invariant: the code and the labels of *)
(* a PCB are those of its program, an entry of the cache is its page but for *)
(* the word on its way to memory, and a word of memory is the last one its   *)
(* program stored.                                                           *)
THEOREM Invariante == Spec => []Inv
BY InitInv, PasoInv, PTL DEF Spec

-----------------------------------------------------------------------------
(* What the invariant says *)

(* Types, and the bookkeeping of the cache: no page is in two entries, the   *)
(* order of use has each entry in use once, no program has more than its     *)
(* share.                                                                    *)
THEOREM TipoSiempre == Spec => []TypeOK
<1>1. Inv => TypeOK
  <2> SUFFICES ASSUME Inv PROVE TypeOK
    OBVIOUS
  <2>1. ASSUME NEW p \in Pids
        PROVE  /\ estado[p] \in {"cpu", "listo", "fin", "terminado", "caida", "perdido"}
               /\ pcb[p].SP + 1 = Len(pcb[p].in_stack)
               /\ CantPidEnCache(p) <= EntradasProceso
    BY DEF Inv, PInv, ProgramaBien, Fijo, Estados, CInv
  <2>2. ASSUME NEW i \in Entradas, cache[i].pid # -1
        PROVE  /\ <<cache[i].pid, cache[i].pag>> \in DOMAIN mem
               /\ i \in ToSet(orden)
               /\ \A j \in Entradas \ {i} : <<cache[j].pid, cache[j].pag>> # <<cache[i].pid, cache[i].pag>>
    BY <2>2 DEF Inv, CInv, EntradaBien, Lleva
  <2> QED
    BY <2>1, <2>2 DEF TypeOK
<1> QED
  BY <1>1, Invariante, PTL

(* A PCB that leaves a CPU, at the end of a quantum or of the program, is    *)
(* read by the Kernel, and by the next CPU, as it was written.               *)
THEOREM ViajeSiempre == Spec => []ViajeEntero
<1>1. Inv => ViajeEntero
  BY PcbDe, VuelveIgual DEF ViajeEntero
<1> QED
  BY <1>1, Invariante, PTL

(* Two variables of a program, of one frame or of two, never have the same   *)
(* offset: calcular_offset answers a place no variable has.                  *)
THEOREM VariablesSiempre == Spec => []VariablesAparte
<1>1. Inv => VariablesAparte
  <2> SUFFICES ASSUME Inv PROVE VariablesAparte
    OBVIOUS
  <2> SUFFICES ASSUME NEW p \in Pids, NEW s, s = pcb[p].in_stack,
                      NEW v, v \in UNION {{<<k, j>> : j \in DOMAIN s[k].vars} : k \in DOMAIN s},
                      NEW w, w \in UNION {{<<k, j>> : j \in DOMAIN s[k].vars} : k \in DOMAIN s}, v # w
               PROVE  s[v[1]].vars[v[2]].offset # s[w[1]].vars[w[2]].offset
    BY DEF VariablesAparte
  <2>1. s \in Seq(Marcos) /\ Crece(s)
    BY PcbDe DEF PcbFijo, Pcbs
  <2>2. \A k \in DOMAIN s : k \in Nat /\ DOMAIN s[k].vars \subseteq Nat
    <3> SUFFICES ASSUME NEW k \in DOMAIN s PROVE k \in Nat /\ DOMAIN s[k].vars \subseteq Nat
      OBVIOUS
    <3>1. k \in Nat /\ s[k] \in Marcos
      BY <2>1, LenProperties
    <3>2. s[k].vars \in Seq(Memorias)
      BY <3>1 DEF Marcos
    <3> QED
      BY <3>1, <3>2, LenProperties
  <2>3. \A x \in UNION {{<<k, j>> : j \in DOMAIN s[k].vars} : k \in DOMAIN s} :
          /\ x \in Nat \X Nat /\ Variable(s, x) /\ x = <<x[1], x[2]>>
    BY <2>2 DEF Variable
  <2>4. v \in Nat \X Nat /\ Variable(s, v) /\ w \in Nat \X Nat /\ Variable(s, w)
    BY <2>3
  <2>5. Antes(v, w) \/ Antes(w, v)
    <3>1. v[1] # w[1] \/ v[2] # w[2]
      BY <2>3
    <3>2. v[1] \in Nat /\ v[2] \in Nat /\ w[1] \in Nat /\ w[2] \in Nat
      BY <2>4
    <3> QED
      BY <3>1, <3>2 DEF Antes
  <2>6. Lugar(s, v) \in Nat /\ Lugar(s, w) \in Nat /\ (Lugar(s, v) < Lugar(s, w) \/ Lugar(s, w) < Lugar(s, v))
    BY <2>1, <2>4, <2>5 DEF Crece
  <2>7. Lugar(s, v) # Lugar(s, w)
    BY <2>6
  <2> QED
    BY <2>7, Zenon DEF Lugar
<1> QED
  BY <1>1, Invariante, PTL

(* What a program stored is in its page in Memoria, whatever the cache has   *)
(* done to the entry that was written with it.                               *)
THEOREM MemoriaSiempre == Spec => []MemoriaAlDia
<1>1. Inv => MemoriaAlDia
  <2> SUFFICES ASSUME Inv, NEW p \in Pids, NEW a \in DOMAIN asignado[p] \ pisado[p],
                      <<p, a[1]>> \in DOMAIN mem
               PROVE  mem[<<p, a[1]>>][a[2] + 1] =
                        IF Escrita(p, a) THEN acceso[p].valor ELSE asignado[p][a]
    BY DEF MemoriaAlDia
  <2>1. Halla(p) /\ Contesta(p) /\ Guardado(p)
    BY DEF Inv, CInv, AInv
  <2>2. CASE Escrita(p, a)
    <3>1. acceso[p].pc = "listo" /\ acceso[p].res = "M02" /\ a = Dir(p)
      BY <2>2 DEF Escrita
    <3>2. a[1] = acceso[p].dir.pag /\ a[2] = acceso[p].dir.k /\ Pagina(p) = <<p, a[1]>>
      BY <3>1 DEF Dir, Pagina
    <3>3. ~acceso[p].sucio
      BY <2>1, <3>1 DEF Halla
    <3>4. mem[Pagina(p)][acceso[p].dir.k + 1] = acceso[p].valor
      BY <2>1, <3>1, <3>3 DEF Contesta
    <3> QED
      BY <2>2, <3>2, <3>4
  <2>3. CASE ~Escrita(p, a)
    BY <2>1, <2>3 DEF Guardado
  <2> QED
    BY <2>2, <2>3
<1> QED
  BY <1>1, Invariante, PTL

(* What Memoria answers to a read, from the cache or from the page, is what  *)
(* the program last stored there, unless it was answered from an entry that  *)
(* the cache wrote by mistake.                                               *)
THEOREM LecturasSiempre == Spec => []LeeLoAsignado
<1>1. Inv => LeeLoAsignado
  <2> SUFFICES ASSUME Inv, NEW p \in Pids, acceso[p].pc = "listo", acceso[p].op = "leer",
                      acceso[p].res = "M08", ~acceso[p].sucio, Dir(p) \in DOMAIN asignado[p] \ pisado[p]
               PROVE  acceso[p].valor = asignado[p][Dir(p)]
    BY DEF LeeLoAsignado
  <2> DEFINE a == Dir(p)
             x == <<p, a[1]>>
  <2>1. Halla(p) /\ Contesta(p) /\ Guardado(p)
    BY DEF Inv, CInv, AInv
  <2>2. a[1] = acceso[p].dir.pag /\ a[2] = acceso[p].dir.k /\ Pagina(p) = x
    BY DEF Dir, Pagina
  <2>3. Pagina(p) \in DOMAIN mem /\ mem[Pagina(p)][acceso[p].dir.k + 1] = acceso[p].valor
    BY <2>1 DEF Halla, Contesta
  <2>4. ~Escrita(p, a)
    BY DEF Escrita
  <2> HIDE DEF a
  <2>5. a \in DOMAIN asignado[p] \ pisado[p]
    BY DEF a
  <2>6. mem[x][a[2] + 1] = asignado[p][a]
    BY <2>1, <2>2, <2>3, <2>4, <2>5 DEF Guardado
  <2> QED
    BY <2>2, <2>3, <2>6 DEF a
<1> QED
  BY <1>1, Invariante, PTL
=============================================================================
