------------------------------- MODULE Lemas -------------------------------
(***************************************************************************)
(* Facts about minima, induction, sums, sequences and finite sets that the *)
(* proofs of the components share.                                         *)
(***************************************************************************)
EXTENDS Integers, Sequences, FiniteSets, SequencesExt,
        FiniteSetTheorems, SequenceTheorems, WellFoundedInduction, TLAPS

-----------------------------------------------------------------------------
(* Minimum and maximum *)

LEMMA MinEsMinimo ==
  ASSUME NEW S \in SUBSET Nat, S # {}
  PROVE  Min(S) \in S /\ \A y \in S : Min(S) <= y
<1> DEFINE R == {ij \in Nat \X Nat : ij[1] < ij[2]}
<1>1. IsWellFoundedOn(R, Nat)
  BY NatLessThanWellFounded DEF OpToRel
<1>2. PICK x \in S : \A y \in S : ~ (<<y, x>> \in R)
  BY <1>1, WFMin
<1>3. \A y \in S : x <= y
  <2> SUFFICES ASSUME NEW y \in S, y < x PROVE FALSE
    OBVIOUS
  <2>1. <<y, x>> \in Nat \X Nat
    OBVIOUS
  <2>2. <<y, x>> \in R
    BY <2>1
  <2> QED
    BY <1>2, <2>2
<1> QED
  BY <1>3 DEF Min

LEMMA MaxEsMaximo ==
  ASSUME NEW n \in Nat, NEW S \in SUBSET (0 .. n), S # {}
  PROVE  Max(S) \in S /\ \A y \in S : y <= Max(S)
<1> DEFINE D == {k \in 0 .. n : n - k \in S}
<1>1. D \in SUBSET Nat /\ D # {}
  <2>1. PICK s \in S : TRUE
    OBVIOUS
  <2>2. n - s \in D
    BY <2>1
  <2> QED
    BY <2>2
<1> HIDE DEF D
<1>2. Min(D) \in D /\ \A k \in D : Min(D) <= k
  BY <1>1, MinEsMinimo
<1>3. n - Min(D) \in S
  BY <1>2 DEF D
<1>4. \A y \in S : y <= n - Min(D)
  <2> SUFFICES ASSUME NEW y \in S PROVE y <= n - Min(D)
    OBVIOUS
  <2>1. n - y \in D
    BY DEF D
  <2>2. Min(D) <= n - y
    BY <2>1, <1>2
  <2>3. Min(D) \in Nat
    BY <1>1, <1>2
  <2>4. y \in 0 .. n
    OBVIOUS
  <2> QED
    BY <2>2, <2>3, <2>4
<1> QED
  BY <1>3, <1>4 DEF Max

-----------------------------------------------------------------------------
(* Queues: what queue_push and queue_pop do to the members *)

LEMMA ToSetElemento ==
  ASSUME NEW S, NEW q \in Seq(S)
  PROVE  /\ ToSet(q) \subseteq S
         /\ DOMAIN q = 1 .. Len(q)
         /\ \A x : x \in ToSet(q) <=> \E i \in 1 .. Len(q) : q[i] = x
         /\ \A x : x \in ToSet(q) <=> Contains(q, x)
         /\ ToSet(q) = {} <=> q = <<>>
BY DEF ToSet, Contains

LEMMA AlFinal ==
  ASSUME NEW S, NEW q \in Seq(S), NEW e \in S
  PROVE  /\ Append(q, e) \in Seq(S)
         /\ Len(Append(q, e)) = Len(q) + 1
         /\ ToSet(Append(q, e)) = ToSet(q) \cup {e}
         /\ IsInjective(q) /\ e \notin ToSet(q) => IsInjective(Append(q, e))
<1> DEFINE r == Append(q, e)
<1>1. /\ r \in Seq(S) /\ Len(r) = Len(q) + 1
      /\ Len(q) \in Nat
      /\ \A i \in 1 .. Len(q) : r[i] = q[i]
      /\ r[Len(q) + 1] = e
      /\ DOMAIN q = 1 .. Len(q) /\ DOMAIN r = 1 .. Len(q) + 1
  BY AppendProperties, LenProperties
<1> HIDE DEF r
<1>2. ToSet(r) = ToSet(q) \cup {e}
  <2>1. ASSUME NEW x \in ToSet(r) PROVE x \in ToSet(q) \cup {e}
    <3>1. PICK i \in 1 .. Len(q) + 1 : r[i] = x
      BY <1>1, <2>1 DEF ToSet
    <3> QED
      BY <1>1, <3>1 DEF ToSet
  <2>2. ASSUME NEW x \in ToSet(q) PROVE x \in ToSet(r)
    <3>1. PICK i \in 1 .. Len(q) : q[i] = x
      BY <1>1, <2>2 DEF ToSet
    <3>2. r[i] = x /\ i \in 1 .. Len(q) + 1
      BY <1>1, <3>1
    <3> QED
      BY <1>1, <3>2 DEF ToSet
  <2>3. e \in ToSet(r)
    BY <1>1 DEF ToSet
  <2> QED
    BY <2>1, <2>2, <2>3
<1>3. ASSUME IsInjective(q), e \notin ToSet(q) PROVE IsInjective(r)
  <2> SUFFICES ASSUME NEW i \in 1 .. Len(q) + 1, NEW j \in 1 .. Len(q) + 1, r[i] = r[j]
               PROVE  i = j
    BY <1>1 DEF IsInjective
  <2>1. \A k \in 1 .. Len(q) : q[k] # e
    BY <1>1, <1>3 DEF ToSet
  <2>2. \A k, l \in 1 .. Len(q) : q[k] = q[l] => k = l
    BY <1>1, <1>3 DEF IsInjective
  <2> QED
    BY <1>1, <2>1, <2>2
<1> QED
  BY <1>1, <1>2, <1>3 DEF r

LEMMA SinPrimero ==
  ASSUME NEW S, NEW q \in Seq(S), q # <<>>
  PROVE  /\ Head(q) \in S /\ Head(q) \in ToSet(q)
         /\ Tail(q) \in Seq(S)
         /\ Len(Tail(q)) = Len(q) - 1
         /\ IsInjective(q) => IsInjective(Tail(q)) /\ ToSet(Tail(q)) = ToSet(q) \ {Head(q)}
<1> DEFINE r == Tail(q)
           h == Head(q)
<1>1. /\ r \in Seq(S) /\ Len(r) = Len(q) - 1 /\ h \in S
      /\ \A i \in 1 .. Len(q) - 1 : r[i] = q[i + 1]
      /\ DOMAIN q = 1 .. Len(q) /\ DOMAIN r = 1 .. Len(q) - 1
      /\ Len(q) \in Nat \ {0}
      /\ h = q[1]
  BY HeadTailProperties, LenProperties, EmptySeq
<1> HIDE DEF r, h
<1>2. h \in ToSet(q)
  BY <1>1 DEF ToSet
<1>3. ASSUME IsInjective(q) PROVE IsInjective(r) /\ ToSet(r) = ToSet(q) \ {h}
  <2>1. \A k, l \in 1 .. Len(q) : q[k] = q[l] => k = l
    BY <1>1, <1>3 DEF IsInjective
  <2>2. IsInjective(r)
    <3> SUFFICES ASSUME NEW i \in 1 .. Len(q) - 1, NEW j \in 1 .. Len(q) - 1, r[i] = r[j]
                 PROVE  i = j
      BY <1>1 DEF IsInjective
    <3>1. q[i + 1] = q[j + 1] /\ i + 1 \in 1 .. Len(q) /\ j + 1 \in 1 .. Len(q)
      BY <1>1
    <3> QED
      BY <2>1, <3>1
  <2>3. ASSUME NEW x \in ToSet(r) PROVE x \in ToSet(q) \ {h}
    <3>1. PICK i \in 1 .. Len(q) - 1 : r[i] = x
      BY <1>1, <2>3 DEF ToSet
    <3>2. q[i + 1] = x /\ i + 1 \in 1 .. Len(q) /\ i + 1 # 1
      BY <1>1, <3>1
    <3> QED
      BY <1>1, <2>1, <3>2 DEF ToSet
  <2>4. ASSUME NEW x \in ToSet(q) \ {h} PROVE x \in ToSet(r)
    <3>1. PICK i \in 1 .. Len(q) : q[i] = x
      BY <1>1, <2>4 DEF ToSet
    <3>2. i - 1 \in 1 .. Len(q) - 1 /\ r[i - 1] = x
      BY <1>1, <2>4, <3>1
    <3> QED
      BY <1>1, <3>2 DEF ToSet
  <2> QED
    BY <2>2, <2>3, <2>4
<1> QED
  BY <1>1, <1>2, <1>3 DEF r, h

LEMMA TresDistintos ==
  ASSUME NEW a, NEW b, NEW c, a # b, a # c, b # c
  PROVE  Cardinality({a, b, c}) = 3
<1>1. IsFiniteSet({a}) /\ Cardinality({a}) = 1
  BY FS_Singleton
<1> DEFINE S == {a} \cup {b}
           T == S \cup {c}
<1>2. b \notin {a} /\ c \notin S /\ T = {a, b, c}
  OBVIOUS
<1>3. IsFiniteSet(S) /\ Cardinality(S) = Cardinality({a}) + 1
  BY <1>1, <1>2, FS_AddElement
<1> HIDE DEF S
<1>4. Cardinality(T) = Cardinality(S) + 1
  BY <1>2, <1>3, FS_AddElement
<1> HIDE DEF T
<1> QED
  BY <1>1, <1>2, <1>3, <1>4

-----------------------------------------------------------------------------
(* Lists: looking for an element, taking one out *)

(* What list_find gives, as SelectInSeq says it: the first index, or 0.     *)
LEMMA PrimeroDe ==
  ASSUME NEW n \in Nat, NEW I \in SUBSET (1 .. n),
         NEW r, r = IF I # {} THEN Min(I) ELSE 0
  PROVE  /\ r \in 0 .. n
         /\ r # 0 => r \in I
         /\ r = 0 => I = {}
<1>1. I \in SUBSET Nat
  OBVIOUS
<1>2. I # {} => Min(I) \in I
  BY <1>1, MinEsMinimo
<1>3. CASE I = {}
  BY <1>3
<1>4. CASE I # {}
  <2>1. r = Min(I)
    BY <1>4
  <2>2. r \in I /\ r \in 1 .. n
    BY <1>2, <1>4, <2>1
  <2> QED
    BY <2>2
<1> QED
  BY <1>3, <1>4

LEMMA SinElemento ==
  ASSUME NEW S, NEW q \in Seq(S), NEW i \in 1 .. Len(q)
  PROVE  /\ RemoveAt(q, i) \in Seq(S)
         /\ Len(RemoveAt(q, i)) = Len(q) - 1
         /\ \A j \in 1 .. Len(q) - 1 : RemoveAt(q, i)[j] = q[IF j < i THEN j ELSE j + 1]
<1> DEFINE a == SubSeq(q, 1, i - 1)
           b == SubSeq(q, i + 1, Len(q))
<1>1. Len(q) \in Nat /\ DOMAIN q = 1 .. Len(q) /\ \A j \in 1 .. Len(q) : q[j] \in S
  BY LenProperties, ElementOfSeq
<1>2. /\ a \in Seq(S) /\ Len(a) = i - 1
      /\ \A j \in 1 .. i - 1 : a[j] = q[j]
  <2>1. 1 \in Int /\ i - 1 \in Int /\ \A j \in 1 .. i - 1 : q[j] \in S
    BY <1>1
  <2>2. /\ a \in Seq(S) /\ Len(a) = IF 1 <= i - 1 THEN i - 1 - 1 + 1 ELSE 0
        /\ \A j \in 1 .. i - 1 - 1 + 1 : a[j] = q[1 + j - 1]
    BY <2>1, SubSeqProperties
  <2> HIDE DEF a
  <2> QED
    BY <2>2
<1>3. /\ b \in Seq(S) /\ Len(b) = Len(q) - i
      /\ \A j \in 1 .. Len(q) - i : b[j] = q[i + j]
  <2>1. i + 1 \in Int /\ Len(q) \in Int /\ \A j \in i + 1 .. Len(q) : q[j] \in S
    BY <1>1
  <2>2. /\ b \in Seq(S) /\ Len(b) = IF i + 1 <= Len(q) THEN Len(q) - (i + 1) + 1 ELSE 0
        /\ \A j \in 1 .. Len(q) - (i + 1) + 1 : b[j] = q[i + 1 + j - 1]
    BY <2>1, SubSeqProperties
  <2> HIDE DEF b
  <2>3. Len(b) = Len(q) - i
    <3>1. \A m, k \in Int :
            k <= m => (IF k + 1 <= m THEN m - (k + 1) + 1 ELSE 0) = m - k
      OBVIOUS
    <3>2. i \in Int /\ Len(q) \in Int /\ i <= Len(q)
      BY <1>1
    <3>3. Len(b) = IF i + 1 <= Len(q) THEN Len(q) - (i + 1) + 1 ELSE 0
      BY <2>2
    <3>4. (IF i + 1 <= Len(q) THEN Len(q) - (i + 1) + 1 ELSE 0) = Len(q) - i
      BY <3>1, <3>2
    <3> QED
      BY <3>3, <3>4
  <2>4. \A j \in 1 .. Len(q) - i : b[j] = q[i + j]
    <3> SUFFICES ASSUME NEW j \in 1 .. Len(q) - i PROVE b[j] = q[i + j]
      OBVIOUS
    <3>1. j \in 1 .. Len(q) - (i + 1) + 1 /\ i + 1 + j - 1 = i + j
      BY <1>1
    <3> QED
      BY <2>2, <3>1
  <2> QED
    BY <2>2, <2>3, <2>4
<1>4. RemoveAt(q, i) = a \o b
  BY DEF RemoveAt
<1> HIDE DEF a, b
<1>5. /\ a \o b \in Seq(S)
      /\ Len(a \o b) = Len(a) + Len(b)
      /\ \A j \in 1 .. Len(a) + Len(b) : (a \o b)[j] = IF j <= Len(a) THEN a[j] ELSE b[j - Len(a)]
  BY <1>2, <1>3, ConcatProperties
<1> QED
  BY <1>1, <1>2, <1>3, <1>4, <1>5

(* One element changed for two.                                             *)
DosPorUno(q, i, x, y) == SubSeq(q, 1, i - 1) \o <<x, y>> \o SubSeq(q, i + 1, Len(q))

EsDosPorUno(r, S, q, i, x, y) ==
  /\ r \in Seq(S) /\ Len(r) = Len(q) + 1
  /\ \A k \in 1 .. i - 1 : r[k] = q[k]
  /\ r[i] = x /\ r[i + 1] = y
  /\ \A k \in i + 1 .. Len(q) : r[k + 1] = q[k]

LEMMA EnDos ==
  ASSUME NEW S, NEW q \in Seq(S), NEW i \in 1 .. Len(q), NEW x \in S, NEW y \in S
  PROVE  EsDosPorUno(DosPorUno(q, i, x, y), S, q, i, x, y)
<1> DEFINE n == Len(q)
           r == DosPorUno(q, i, x, y)
           a == SubSeq(q, 1, i - 1)
           m == <<x, y>>
           b == SubSeq(q, i + 1, Len(q))
<1>1. n \in Nat /\ DOMAIN q = 1 .. n /\ \A j \in 1 .. n : q[j] \in S
  BY LenProperties, ElementOfSeq
<1>2. /\ a \in Seq(S) /\ Len(a) = i - 1
      /\ \A j \in 1 .. i - 1 : a[j] = q[j]
  <2>1. 1 \in Int /\ i - 1 \in Int /\ \A j \in 1 .. i - 1 : q[j] \in S
    BY <1>1
  <2>2. /\ a \in Seq(S) /\ Len(a) = IF 1 <= i - 1 THEN i - 1 - 1 + 1 ELSE 0
        /\ \A j \in 1 .. i - 1 - 1 + 1 : a[j] = q[1 + j - 1]
    BY <2>1, SubSeqProperties
  <2> HIDE DEF a
  <2> QED
    BY <2>2
<1>3. /\ b \in Seq(S) /\ Len(b) = n - i
      /\ \A j \in 1 .. n - i : b[j] = q[i + j]
  <2>1. i + 1 \in Int /\ n \in Int /\ \A j \in i + 1 .. n : q[j] \in S
    BY <1>1
  <2>2. /\ b \in Seq(S) /\ Len(b) = IF i + 1 <= n THEN n - (i + 1) + 1 ELSE 0
        /\ \A j \in 1 .. n - (i + 1) + 1 : b[j] = q[i + 1 + j - 1]
    BY <2>1, SubSeqProperties
  <2> HIDE DEF b, n
  <2>3. \A l, k \in Int : k <= l => (IF k + 1 <= l THEN l - (k + 1) + 1 ELSE 0) = l - k
    OBVIOUS
  <2>4. i \in Int /\ n \in Int /\ i <= n
    BY <1>1 DEF n
  <2>5. Len(b) = n - i
    BY <2>2, <2>3, <2>4
  <2>6. ASSUME NEW j \in 1 .. n - i PROVE b[j] = q[i + j]
    <3>1. j \in 1 .. n - (i + 1) + 1 /\ i + 1 + j - 1 = i + j
      BY <2>4
    <3> QED
      BY <2>2, <3>1
  <2> QED
    BY <2>2, <2>5, <2>6
<1>4. m \in Seq(S) /\ Len(m) = 2 /\ m[1] = x /\ m[2] = y
  OBVIOUS
<1> HIDE DEF a, m, b
<1> DEFINE c == a \o m
<1>5. r = c \o b
  BY DEF a, m, b, DosPorUno
<1> HIDE DEF r
<1>6. /\ c \in Seq(S) /\ Len(c) = i - 1 + 2
      /\ \A j \in 1 .. i - 1 + 2 : c[j] = IF j <= i - 1 THEN a[j] ELSE m[j - (i - 1)]
  <2>1. a \in Seq(S) /\ m \in Seq(S)
    BY <1>2, <1>4
  <2>2. /\ c \in Seq(S) /\ Len(c) = Len(a) + Len(m)
        /\ \A j \in 1 .. Len(a) + Len(m) : c[j] = IF j <= Len(a) THEN a[j] ELSE m[j - Len(a)]
    BY <2>1, ConcatProperties
  <2> HIDE DEF c
  <2> QED
    BY <1>2, <1>4, <2>2
<1> HIDE DEF c
<1>7. /\ r \in Seq(S) /\ Len(r) = Len(c) + Len(b)
      /\ \A j \in 1 .. Len(c) + Len(b) : r[j] = IF j <= Len(c) THEN c[j] ELSE b[j - Len(c)]
  BY <1>3, <1>5, <1>6, ConcatProperties
<1> HIDE DEF n
<1>8. i \in Int /\ n \in Int /\ 1 <= i /\ i <= n
  BY <1>1 DEF n
<1>9. Len(c) = i + 1 /\ Len(b) = n - i /\ Len(r) = n + 1
  BY <1>3, <1>6, <1>7, <1>8
<1>10. ASSUME NEW k \in 1 .. i - 1 PROVE r[k] = q[k]
  <2>1. k \in 1 .. i + 1 + (n - i) /\ k <= i + 1 /\ k \in 1 .. i - 1 + 2 /\ k <= i - 1
    BY <1>8
  <2> QED
    BY <1>2, <1>6, <1>7, <1>9, <2>1
<1>11. r[i] = x
  <2>1. i \in 1 .. i + 1 + (n - i) /\ i <= i + 1 /\ i \in 1 .. i - 1 + 2 /\ ~(i <= i - 1) /\ i - (i - 1) = 1
    BY <1>8
  <2> QED
    BY <1>4, <1>6, <1>7, <1>9, <2>1
<1>12. r[i + 1] = y
  <2>1. /\ i + 1 \in 1 .. i + 1 + (n - i) /\ i + 1 <= i + 1 /\ i + 1 \in 1 .. i - 1 + 2
        /\ ~(i + 1 <= i - 1) /\ i + 1 - (i - 1) = 2
    BY <1>8
  <2> QED
    BY <1>4, <1>6, <1>7, <1>9, <2>1
<1>13. ASSUME NEW k \in i + 1 .. n PROVE r[k + 1] = q[k]
  <2>1. /\ k + 1 \in 1 .. i + 1 + (n - i) /\ ~(k + 1 <= i + 1)
        /\ k + 1 - (i + 1) \in 1 .. n - i /\ i + (k + 1 - (i + 1)) = k
    BY <1>8
  <2> QED
    BY <1>3, <1>7, <1>9, <2>1
<1> QED
  <2>1. EsDosPorUno(r, S, q, i, x, y)
    BY <1>7, <1>9, <1>10, <1>11, <1>12, <1>13 DEF n, EsDosPorUno
  <2> QED
    BY <2>1 DEF r

(* As many elements on both sides of a bijection given by a function.       *)
LEMMA ConBiyeccion ==
  ASSUME NEW S, NEW T, IsFiniteSet(S), NEW f \in [S -> T],
         \A x, y \in S : f[x] = f[y] => x = y,
         \A z \in T : \E x \in S : f[x] = z
  PROVE  IsFiniteSet(T) /\ Cardinality(T) = Cardinality(S)
<1>1. f \in Bijection(S, T)
  BY DEF Bijection, Injection, Surjection, IsInjective
<1>2. ExistsBijection(S, T)
  BY <1>1 DEF ExistsBijection
<1> QED
  BY <1>2, FS_Bijection

-----------------------------------------------------------------------------
(* Induction, said of a set, and recursion and sums by it *)

LEMMA Induccion ==
  ASSUME NEW S, 0 \in S, \A n \in Nat : n \in S => n + 1 \in S
  PROVE  \A n \in Nat : n \in S
<1> DEFINE Fuera == {n \in Nat : n \notin S}
<1>1. Fuera \in SUBSET Nat
  OBVIOUS
<1>2. CASE Fuera = {}
  BY <1>2
<1>3. CASE Fuera # {}
  <2>1. PICK m \in Nat : m \notin S /\ \A y \in Fuera : m <= y
    <3>1. Min(Fuera) \in Fuera /\ \A y \in Fuera : Min(Fuera) <= y
      BY <1>1, <1>3, MinEsMinimo
    <3> QED
      BY <3>1
  <2>2. m # 0 /\ m - 1 \in Nat
    BY <2>1
  <2>3. m - 1 \notin Fuera
    BY <2>1, <2>2
  <2>4. m - 1 \in S
    BY <2>2, <2>3
  <2>5. m - 1 + 1 = m
    BY <2>1
  <2> QED
    BY <2>1, <2>2, <2>4, <2>5
<1> QED
  BY <1>2, <1>3

(* A function given by its first value and a step. *)
Recorre(f, n, T, base, paso) ==
  /\ f \in [0 .. n -> T] /\ f[0] = base
  /\ \A k \in 1 .. n : f[k] = paso[<<k, f[k - 1]>>]

LEMMA RecursionExiste ==
  ASSUME NEW T, NEW base \in T, NEW paso \in [Nat \X T -> T], NEW n \in Nat
  PROVE  \E f : Recorre(f, n, T, base, paso)
<1> DEFINE Es(f, m) == /\ f \in [0 .. m -> T] /\ f[0] = base
                       /\ \A k \in 1 .. m : f[k] = paso[<<k, f[k - 1]>>]
           S == {m \in Nat : \E f \in [0 .. m -> T] : Es(f, m)}
<1>1. 0 \in S
  <2> DEFINE f == [k \in 0 .. 0 |-> base]
  <2>1. Es(f, 0)
    OBVIOUS
  <2>2. f \in [0 .. 0 -> T]
    OBVIOUS
  <2> HIDE DEF f, Es
  <2> QED
    BY <2>1, <2>2
<1>2. ASSUME NEW m \in Nat, m \in S PROVE m + 1 \in S
  <2>1. PICK f \in [0 .. m -> T] : Es(f, m)
    BY <1>2
  <2> DEFINE g == [k \in 0 .. m + 1 |-> IF k = m + 1 THEN paso[<<m + 1, f[m]>>] ELSE f[k]]
  <2>2. f[m] \in T /\ m + 1 \in Nat
    BY <2>1
  <2>3. paso[<<m + 1, f[m]>>] \in T
    BY <2>2
  <2>4. g \in [0 .. m + 1 -> T]
    <3> SUFFICES ASSUME NEW k \in 0 .. m + 1 PROVE g[k] \in T
      OBVIOUS
    <3>1. CASE k = m + 1
      BY <3>1, <2>3
    <3>2. CASE k # m + 1
      <4>1. k \in 0 .. m
        BY <3>2
      <4> QED
        BY <4>1, <3>2
    <3> QED
      BY <3>1, <3>2
  <2>5. g[0] = base
    <3>1. 0 \in 0 .. m + 1 /\ 0 # m + 1
      OBVIOUS
    <3> QED
      BY <3>1, <2>1
  <2>6. ASSUME NEW k \in 1 .. m + 1 PROVE g[k] = paso[<<k, g[k - 1]>>]
    <3>1. k - 1 \in 0 .. m + 1 /\ k \in 0 .. m + 1 /\ k - 1 # m + 1
      OBVIOUS
    <3>2. g[k - 1] = f[k - 1]
      BY <3>1
    <3>3. CASE k = m + 1
      <4>1. k - 1 = m
        BY <3>3
      <4> QED
        BY <3>1, <3>2, <3>3, <4>1
    <3>4. CASE k # m + 1
      <4>1. k \in 1 .. m
        BY <3>4
      <4> QED
        BY <3>1, <3>2, <3>4, <4>1, <2>1
    <3> QED
      BY <3>3, <3>4
  <2> HIDE DEF g
  <2>7. Es(g, m + 1)
    BY <2>4, <2>5, <2>6
  <2> HIDE DEF Es
  <2> QED
    BY <2>4, <2>7
<1> HIDE DEF S
<1>3. n \in S
  BY <1>1, <1>2, Induccion
<1>4. PICK f \in [0 .. n -> T] : Es(f, n)
  BY <1>3 DEF S
<1>5. Recorre(f, n, T, base, paso)
  BY <1>4 DEF Recorre
<1> QED
  BY <1>5

(* f keeps the sums of the first values of ns.                              *)
Acumula(f, n, ns) ==
  /\ f \in [0 .. n -> Nat] /\ f[0] = 0
  /\ \A k \in 1 .. n : f[k] = f[k - 1] + ns[k]

LEMMA AcumulaExiste ==
  ASSUME NEW n \in Nat, NEW ns \in [1 .. n -> Nat]
  PROVE  \E f : Acumula(f, n, ns)
<1> DEFINE paso == [z \in Nat \X Nat |-> z[2] + IF z[1] \in 1 .. n THEN ns[z[1]] ELSE 0]
<1>1. paso \in [Nat \X Nat -> Nat]
  OBVIOUS
<1>2. \A k \in 1 .. n : \A x \in Nat : paso[<<k, x>>] = x + ns[k]
  OBVIOUS
<1> HIDE DEF paso
<1>3. 0 \in Nat
  OBVIOUS
<1>4. PICK f : Recorre(f, n, Nat, 0, paso)
  BY <1>1, <1>3, RecursionExiste
<1>5. ASSUME NEW k \in 1 .. n PROVE f[k] = f[k - 1] + ns[k]
  <2>1. k - 1 \in 0 .. n
    OBVIOUS
  <2>2. f[k - 1] \in Nat /\ f[k] = paso[<<k, f[k - 1]>>]
    BY <1>4, <2>1 DEF Recorre
  <2> QED
    BY <1>2, <2>2
<1> QED
  BY <1>4, <1>5 DEF Acumula, Recorre

LEMMA AcumulaUnica ==
  ASSUME NEW n \in Nat, NEW ns, NEW f, NEW g, Acumula(f, n, ns), Acumula(g, n, ns)
  PROVE  f = g
<1> DEFINE S == {k \in Nat : k <= n => f[k] = g[k]}
<1>1. 0 \in S
  BY DEF Acumula
<1>2. ASSUME NEW k \in Nat, k \in S PROVE k + 1 \in S
  <2> SUFFICES ASSUME k + 1 <= n PROVE f[k + 1] = g[k + 1]
    OBVIOUS
  <2>1. f[k] = g[k] /\ k + 1 \in 1 .. n /\ k + 1 - 1 = k
    BY <1>2
  <2> QED
    BY <2>1 DEF Acumula
<1> HIDE DEF S
<1>3. \A k \in Nat : k \in S
  BY <1>1, <1>2, Induccion
<1>4. \A k \in 0 .. n : f[k] = g[k]
  BY <1>3 DEF S
<1> QED
  BY <1>4 DEF Acumula

LEMMA AcumulaCrece ==
  ASSUME NEW n \in Nat, NEW ns \in [1 .. n -> Nat], NEW f, Acumula(f, n, ns),
         NEW i \in 0 .. n, NEW j \in 0 .. n, i <= j
  PROVE  f[i] <= f[j]
<1> DEFINE S == {k \in Nat : k <= n /\ i <= k => f[i] <= f[k]}
<1>1. 0 \in S
  BY DEF Acumula
<1>2. ASSUME NEW k \in Nat, k \in S PROVE k + 1 \in S
  <2> SUFFICES ASSUME k + 1 <= n, i <= k + 1 PROVE f[i] <= f[k + 1]
    OBVIOUS
  <2>1. CASE i = k + 1
    BY <2>1 DEF Acumula
  <2>2. CASE i <= k
    <3>1. f[i] <= f[k]
      BY <1>2, <2>2
    <3>2. k + 1 \in 1 .. n /\ k + 1 - 1 = k /\ k \in 0 .. n
      OBVIOUS
    <3>3. f[k + 1] = f[k] + ns[k + 1]
      BY <3>2 DEF Acumula
    <3>4. f[k] \in Nat /\ ns[k + 1] \in Nat /\ f[i] \in Nat
      BY <3>2 DEF Acumula
    <3> QED
      BY <3>1, <3>3, <3>4
  <2> QED
    BY <2>1, <2>2
<1> HIDE DEF S
<1>3. \A k \in Nat : k \in S
  BY <1>1, <1>2, Induccion
<1> QED
  BY <1>3 DEF S

(* Sums of two rows, one below the other.                                   *)
LEMMA AcumulaMenor ==
  ASSUME NEW n \in Nat, NEW a \in [1 .. n -> Nat], NEW b \in [1 .. n -> Nat],
         \A k \in 1 .. n : b[k] <= a[k],
         NEW f, NEW g, Acumula(f, n, a), Acumula(g, n, b)
  PROVE  g[n] <= f[n] /\ (g[n] = f[n] => b = a)
<1> DEFINE d == [k \in 1 .. n |-> a[k] - b[k]]
<1>1. d \in [1 .. n -> Nat]
  OBVIOUS
<1>2. PICK h : Acumula(h, n, d)
  BY <1>1, AcumulaExiste
<1> DEFINE s == [k \in 0 .. n |-> g[k] + h[k]]
<1>3. Acumula(s, n, a)
  <2>1. s \in [0 .. n -> Nat] /\ s[0] = 0
    BY <1>2 DEF Acumula
  <2>2. ASSUME NEW k \in 1 .. n PROVE s[k] = s[k - 1] + a[k]
    <3>1. k - 1 \in 0 .. n /\ k \in 0 .. n
      OBVIOUS
    <3>2. g[k] = g[k - 1] + b[k] /\ h[k] = h[k - 1] + d[k]
      BY <1>2 DEF Acumula
    <3>3. g[k - 1] \in Nat /\ h[k - 1] \in Nat /\ a[k] \in Nat /\ b[k] \in Nat
      BY <1>2, <3>1 DEF Acumula
    <3>4. d[k] = a[k] - b[k]
      OBVIOUS
    <3>5. s[k] = g[k] + h[k] /\ s[k - 1] = g[k - 1] + h[k - 1]
      BY <3>1
    <3> HIDE DEF d, s
    <3> QED
      BY <3>2, <3>3, <3>4, <3>5
  <2> HIDE DEF s
  <2> QED
    BY <2>1, <2>2 DEF Acumula
<1>4. s = f
  BY <1>3, AcumulaUnica
<1>5. f[n] = g[n] + h[n] /\ g[n] \in Nat /\ h[n] \in Nat
  BY <1>2, <1>4 DEF Acumula
<1>6. ASSUME g[n] = f[n], NEW k \in 1 .. n PROVE b[k] = a[k]
  <2>1. k \in 0 .. n /\ k - 1 \in 0 .. n /\ n \in 0 .. n /\ k <= n /\ k - 1 <= n
    OBVIOUS
  <2>2. h[n] = 0
    BY <1>5, <1>6
  <2> HIDE DEF d
  <2>3. h[k] <= 0 /\ h[k - 1] <= 0
    BY <1>1, <1>2, <2>1, <2>2, AcumulaCrece
  <2>4. h[k] \in Nat /\ h[k - 1] \in Nat /\ h[k] = h[k - 1] + d[k]
    BY <1>2, <2>1 DEF Acumula
  <2>5. d[k] \in Nat
    BY <1>1
  <2>6. d[k] = 0
    BY <2>3, <2>4, <2>5
  <2>7. d[k] = a[k] - b[k] /\ a[k] \in Nat /\ b[k] \in Nat
    BY DEF d
  <2> QED
    BY <2>6, <2>7
<1>7. ASSUME g[n] = f[n] PROVE b = a
  BY <1>6, <1>7
<1> QED
  BY <1>5, <1>7

(* How the sums follow a row that grows at the end, changes in one place,   *)
(* or has one place split in two.                                           *)
LEMMA AcumulaMas ==
  ASSUME NEW n \in Nat, NEW a \in [1 .. n -> Nat], NEW b \in [1 .. n + 1 -> Nat],
         \A k \in 1 .. n : b[k] = a[k],
         NEW f, Acumula(f, n, a), NEW g, Acumula(g, n + 1, b)
  PROVE  /\ \A k \in 0 .. n : g[k] = f[k]
         /\ g[n + 1] = f[n] + b[n + 1]
<1> DEFINE s == [k \in 0 .. n + 1 |-> IF k = n + 1 THEN f[n] + b[n + 1] ELSE f[k]]
<1>1. Acumula(s, n + 1, b)
  <2>1. f[n] \in Nat /\ b[n + 1] \in Nat
    BY DEF Acumula
  <2>2. s \in [0 .. n + 1 -> Nat]
    <3> SUFFICES ASSUME NEW k \in 0 .. n + 1 PROVE s[k] \in Nat
      OBVIOUS
    <3>1. CASE k = n + 1
      BY <3>1, <2>1
    <3>2. CASE k # n + 1
      <4>1. k \in 0 .. n
        BY <3>2
      <4> QED
        BY <3>2, <4>1 DEF Acumula
    <3> QED
      BY <3>1, <3>2
  <2>3. s[0] = 0
    <3>1. 0 \in 0 .. n + 1 /\ 0 # n + 1
      OBVIOUS
    <3> QED
      BY <3>1 DEF Acumula
  <2>4. ASSUME NEW k \in 1 .. n + 1 PROVE s[k] = s[k - 1] + b[k]
    <3>1. k \in 0 .. n + 1 /\ k - 1 \in 0 .. n + 1 /\ k - 1 # n + 1 /\ k - 1 \in 0 .. n
      OBVIOUS
    <3>2. s[k - 1] = f[k - 1]
      BY <3>1
    <3>3. CASE k = n + 1
      <4>1. k - 1 = n
        BY <3>3
      <4> QED
        BY <3>1, <3>2, <3>3, <4>1
    <3>4. CASE k # n + 1
      <4>1. k \in 1 .. n
        BY <3>4
      <4>2. f[k] = f[k - 1] + a[k] /\ b[k] = a[k]
        BY <4>1 DEF Acumula
      <4> QED
        BY <3>1, <3>2, <3>4, <4>2
    <3> QED
      BY <3>3, <3>4
  <2> HIDE DEF s
  <2> QED
    BY <2>2, <2>3, <2>4 DEF Acumula
<1>2. s = g
  <2> HIDE DEF s
  <2> QED
    BY <1>1, AcumulaUnica
<1>3. \A k \in 0 .. n : k \in 0 .. n + 1 /\ k # n + 1
  OBVIOUS
<1>4. n + 1 \in 0 .. n + 1
  OBVIOUS
<1> QED
  BY <1>2, <1>3, <1>4

SoloCambia(a, b, n, i) == i \in 1 .. n /\ \A k \in 1 .. n : k # i => b[k] = a[k]
Corre(f, g, a, b, n, i) == /\ \A k \in 0 .. i - 1 : g[k] = f[k]
                           /\ \A k \in i .. n : g[k] = f[k] - a[i] + b[i]

LEMMA AcumulaCambia ==
  ASSUME NEW n \in Nat, NEW a \in [1 .. n -> Nat], NEW b \in [1 .. n -> Nat],
         NEW i, SoloCambia(a, b, n, i),
         NEW f, Acumula(f, n, a), NEW g, Acumula(g, n, b)
  PROVE  Corre(f, g, a, b, n, i)
<1> USE DEF SoloCambia, Corre
<1> DEFINE s == [k \in 0 .. n |-> IF k < i THEN f[k] ELSE f[k] - a[i] + b[i]]
<1>1. \A k \in 0 .. n : f[k] \in Nat
  BY DEF Acumula
<1>2. \A k \in i .. n : f[k] >= a[i]
  <2> SUFFICES ASSUME NEW k \in i .. n PROVE f[k] >= a[i]
    OBVIOUS
  <2>1. i \in 0 .. n /\ i - 1 \in 0 .. n /\ k \in 0 .. n /\ i <= k
    OBVIOUS
  <2>2. f[i] <= f[k]
    BY <2>1, AcumulaCrece
  <2>3. f[i] = f[i - 1] + a[i]
    BY DEF Acumula
  <2> QED
    BY <1>1, <2>1, <2>2, <2>3
<1>3. Acumula(s, n, b)
  <2>1. s \in [0 .. n -> Nat]
    <3> SUFFICES ASSUME NEW k \in 0 .. n PROVE s[k] \in Nat
      OBVIOUS
    <3>1. CASE k < i
      BY <1>1, <3>1
    <3>2. CASE ~(k < i)
      <4>1. k \in i .. n
        BY <3>2
      <4>2. f[k] >= a[i] /\ f[k] \in Nat /\ a[i] \in Nat /\ b[i] \in Nat
        BY <1>1, <1>2, <4>1
      <4> QED
        BY <3>2, <4>2
    <3> QED
      BY <3>1, <3>2
  <2>2. s[0] = 0
    BY DEF Acumula
  <2>3. ASSUME NEW k \in 1 .. n PROVE s[k] = s[k - 1] + b[k]
    <3>1. k \in 0 .. n /\ k - 1 \in 0 .. n
      OBVIOUS
    <3>2. f[k] = f[k - 1] + a[k] /\ f[k] \in Nat /\ f[k - 1] \in Nat
      BY <1>1, <3>1 DEF Acumula
    <3>3. a[k] \in Nat /\ b[k] \in Nat /\ a[i] \in Nat /\ b[i] \in Nat
      OBVIOUS
    <3>4. CASE k < i
      <4>1. k - 1 < i /\ b[k] = a[k]
        BY <3>4
      <4> QED
        BY <3>1, <3>2, <3>4, <4>1
    <3>5. CASE k = i
      <4>1. k - 1 < i /\ ~(k < i)
        BY <3>5
      <4>2. s[k] = f[k] - a[k] + b[k] /\ s[k - 1] = f[k - 1]
        BY <3>1, <3>5, <4>1
      <4> HIDE DEF s
      <4> QED
        BY <3>2, <3>3, <4>2
    <3>6. CASE k > i
      <4>1. ~(k - 1 < i) /\ ~(k < i) /\ b[k] = a[k]
        BY <3>6
      <4>2. s[k] = f[k] - a[i] + b[i] /\ s[k - 1] = f[k - 1] - a[i] + b[i]
        BY <3>1, <4>1
      <4> HIDE DEF s
      <4>3. PICK x \in Nat, y \in Nat, u \in Nat, v \in Nat, w \in Nat :
              x = f[k] /\ y = f[k - 1] /\ u = a[k] /\ v = a[i] /\ w = b[i]
        BY <3>2, <3>3
      <4>4. x = y + u /\ s[k] = x - v + w /\ s[k - 1] = y - v + w /\ b[k] = u
        BY <3>2, <4>1, <4>2, <4>3
      <4> QED
        BY <4>4
    <3> QED
      BY <3>4, <3>5, <3>6
  <2> HIDE DEF s
  <2> QED
    BY <2>1, <2>2, <2>3 DEF Acumula
<1>4. s = g
  <2> HIDE DEF s
  <2> QED
    BY <1>3, AcumulaUnica
<1>5. \A k \in 0 .. i - 1 : k \in 0 .. n /\ k < i
  OBVIOUS
<1>6. \A k \in i .. n : k \in 0 .. n /\ ~(k < i)
  OBVIOUS
<1> QED
  BY <1>4, <1>5, <1>6

SoloParte(a, b, n, i) == /\ i \in 1 .. n
                         /\ \A k \in 1 .. i - 1 : b[k] = a[k]
                         /\ \A k \in i + 1 .. n : b[k + 1] = a[k]
CorreDos(f, g, a, b, n, i) == /\ \A k \in 0 .. i - 1 : g[k] = f[k]
                              /\ g[i] = f[i - 1] + b[i]
                              /\ \A k \in i .. n : g[k + 1] = f[k] - a[i] + b[i] + b[i + 1]

LEMMA AcumulaParte ==
  ASSUME NEW n \in Nat, NEW a \in [1 .. n -> Nat], NEW b \in [1 .. n + 1 -> Nat],
         NEW i, SoloParte(a, b, n, i),
         NEW f, Acumula(f, n, a), NEW g, Acumula(g, n + 1, b)
  PROVE  CorreDos(f, g, a, b, n, i)
<1> USE DEF SoloParte, CorreDos
<1> DEFINE s == [k \in 0 .. n + 1 |-> IF k < i THEN f[k] ELSE
                                      IF k = i THEN f[i - 1] + b[i] ELSE
                                      f[k - 1] - a[i] + b[i] + b[i + 1]]
<1>1. \A k \in 0 .. n : f[k] \in Nat
  BY DEF Acumula
<1>2. /\ a[i] \in Nat /\ b[i] \in Nat /\ b[i + 1] \in Nat
      /\ f[i] = f[i - 1] + a[i] /\ f[i] \in Nat /\ f[i - 1] \in Nat
  <2>1. i \in 1 .. n + 1 /\ i + 1 \in 1 .. n + 1 /\ i \in 0 .. n /\ i - 1 \in 0 .. n
    OBVIOUS
  <2> QED
    BY <1>1, <2>1 DEF Acumula
<1>3. \A k \in i .. n : f[k] >= a[i]
  <2> SUFFICES ASSUME NEW k \in i .. n PROVE f[k] >= a[i]
    OBVIOUS
  <2>1. i \in 0 .. n /\ k \in 0 .. n /\ i <= k
    OBVIOUS
  <2>2. f[i] <= f[k] /\ f[k] \in Nat
    BY <1>1, <2>1, AcumulaCrece
  <2>3. \A x, y, z, w \in Nat : x = y + z /\ x <= w => w >= z
    OBVIOUS
  <2> QED
    BY <1>2, <2>2, <2>3
<1>4. \A k \in 0 .. i - 1 : k \in 0 .. n + 1 /\ k < i /\ s[k] = f[k]
  OBVIOUS
<1>5. s[i] = f[i - 1] + b[i]
  <2>1. i \in 0 .. n + 1 /\ ~(i < i)
    OBVIOUS
  <2> QED
    BY <2>1
<1>6. \A k \in i .. n : s[k + 1] = f[k] - a[i] + b[i] + b[i + 1]
  <2> SUFFICES ASSUME NEW k \in i .. n PROVE s[k + 1] = f[k] - a[i] + b[i] + b[i + 1]
    OBVIOUS
  <2>1. k + 1 \in 0 .. n + 1 /\ ~(k + 1 < i) /\ k + 1 # i /\ k + 1 - 1 = k
    OBVIOUS
  <2> QED
    BY <2>1
<1>7. DOMAIN s = 0 .. n + 1 /\ s = [k \in 0 .. n + 1 |-> s[k]]
  OBVIOUS
<1> HIDE DEF s
<1>8. Acumula(s, n + 1, b)
  <2>1. ASSUME NEW k \in 0 .. n + 1 PROVE s[k] \in Nat
    <3>1. CASE k < i
      <4>1. k \in 0 .. i - 1 /\ k \in 0 .. n
        BY <3>1
      <4> QED
        BY <1>1, <1>4, <4>1
    <3>2. CASE k = i
      <4>1. PICK x \in Nat, y \in Nat : x = f[i - 1] /\ y = b[i]
        BY <1>2
      <4> QED
        BY <1>5, <3>2, <4>1
    <3>3. CASE k > i
      <4>1. PICK j \in i .. n : k = j + 1
        <5>1. k - 1 \in i .. n /\ k = k - 1 + 1
          BY <3>3
        <5> QED
          BY <5>1
      <4>2. s[k] = f[j] - a[i] + b[i] + b[i + 1] /\ f[j] >= a[i]
        BY <1>3, <1>6, <4>1
      <4>3. f[j] \in Nat
        <5>1. j \in 0 .. n
          OBVIOUS
        <5> QED
          BY <1>1, <5>1
      <4>4. PICK x \in Nat, y \in Nat, z \in Nat, w \in Nat :
              x = f[j] /\ y = a[i] /\ z = b[i] /\ w = b[i + 1]
        BY <1>2, <4>3
      <4>5. x >= y /\ s[k] = x - y + z + w
        BY <4>2, <4>4
      <4> QED
        BY <4>5
    <3> QED
      BY <3>1, <3>2, <3>3
  <2>2. s[0] = 0
    <3>1. 0 \in 0 .. i - 1
      OBVIOUS
    <3> QED
      BY <1>4, <3>1 DEF Acumula
  <2>3. ASSUME NEW k \in 1 .. n + 1 PROVE s[k] = s[k - 1] + b[k]
    <3>1. CASE k < i
      <4>1. k \in 0 .. i - 1 /\ k - 1 \in 0 .. i - 1 /\ k \in 1 .. i - 1 /\ k \in 1 .. n
        BY <3>1
      <4>2. f[k] = f[k - 1] + a[k]
        BY <4>1 DEF Acumula
      <4> QED
        BY <1>4, <4>1, <4>2
    <3>2. CASE k = i
      <4>1. i - 1 \in 0 .. i - 1
        OBVIOUS
      <4> QED
        BY <1>4, <1>5, <3>2, <4>1
    <3>3. CASE k = i + 1
      <4>1. i \in i .. n /\ k - 1 = i
        BY <3>3
      <4>2. s[k] = f[i] - a[i] + b[i] + b[i + 1]
        BY <1>6, <3>3, <4>1
      <4>3. s[k - 1] = f[i - 1] + b[i]
        BY <1>5, <4>1
      <4>4. PICK x \in Nat, y \in Nat, z \in Nat, w \in Nat :
              x = f[i - 1] /\ y = a[i] /\ z = b[i] /\ w = b[k]
        BY <1>2, <3>3
      <4>5. s[k] = (x + y) - y + z + w /\ s[k - 1] = x + z
        BY <1>2, <3>3, <4>2, <4>3, <4>4
      <4> QED
        BY <4>4, <4>5
    <3>4. CASE k > i + 1
      <4>1. PICK j \in i + 1 .. n : k = j + 1
        <5>1. k - 1 \in i + 1 .. n /\ k = k - 1 + 1
          BY <3>4
        <5> QED
          BY <5>1
      <4>2. j \in i .. n /\ j - 1 \in i .. n /\ j - 1 + 1 = k - 1 /\ j \in 0 .. n /\ j - 1 \in 0 .. n /\ j \in 1 .. n
        BY <4>1
      <4>3. s[k] = f[j] - a[i] + b[i] + b[i + 1]
        BY <1>6, <4>1, <4>2
      <4>4. s[k - 1] = f[j - 1] - a[i] + b[i] + b[i + 1]
        BY <1>6, <4>2
      <4>5. f[j] = f[j - 1] + a[j] /\ b[k] = a[j]
        BY <4>1, <4>2 DEF Acumula
      <4>6. f[j] \in Nat /\ f[j - 1] \in Nat /\ a[j] \in Nat
        BY <1>1, <4>2
      <4>7. PICK x \in Nat, y \in Nat, u \in Nat, v \in Nat, w \in Nat, z \in Nat :
              /\ x = f[j] /\ y = f[j - 1] /\ u = a[j]
              /\ v = a[i] /\ w = b[i] /\ z = b[i + 1]
        BY <1>2, <4>6
      <4>8. s[k] = x - v + w + z /\ s[k - 1] = y - v + w + z /\ x = y + u /\ b[k] = u
        BY <4>3, <4>4, <4>5, <4>7
      <4> QED
        BY <4>8
    <3> QED
      BY <3>1, <3>2, <3>3, <3>4
  <2> QED
    BY <1>7, <2>1, <2>2, <2>3 DEF Acumula
<1>9. s = g
  BY <1>8, AcumulaUnica
<1> QED
  BY <1>4, <1>5, <1>6, <1>9

=============================================================================
