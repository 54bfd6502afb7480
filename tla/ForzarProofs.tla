---------------------------- MODULE ForzarProofs ----------------------------
(***************************************************************************)
(* Proofs about the scheduler when it is interrupted: wherever the ends by *)
(* force, the rejections, the CPUs that leave and the changes of degree    *)
(* fall, no process is lost or doubled, every slot of the degree is        *)
(* accounted for and no process ends without a reason, for any programs,   *)
(* CPUs, degrees and number of them.                                       *)
(***************************************************************************)
EXTENDS PlanificadorForzar, PlanificadorProofs

-----------------------------------------------------------------------------
(* The inductive invariant, while the Kernel has not crashed *)

Pases == {"nada", "listas", "nuevos", "listos", "matar"}
Origenes == {"", "ejecutando", "bloqueados", "nuevos", "listos"}
SemHilos == {"nuevos", "listos", "cpus", "grado"}
Busquedas == [pc : Pases, quien : {"", "M", "N", "consola"}, pid : Pids \cup {Nadie}, i : Nat,
              mano : Pids \cup {Nadie}, preso : Pids \cup {Nadie}, de : Origenes, visto : BOOLEAN]
Gradaciones == [config : Int, diferencia : Int, perdida : Int, hiloG : {"nada", "post", "wait"}]

Tipos ==
  /\ nuevos \in Seq(Pids) /\ listos \in Seq(Pids \cup {Nadie})
  /\ ejecutando \subseteq Pids /\ bloqueados \subseteq Pids
  /\ finalizados \subseteq Pids /\ rechazados \subseteq Pids
  /\ sem \in [SemHilos -> Nat]
  /\ hiloN \in Pids \cup {Nadie}
  /\ hiloL = SinDespacho \/ hiloL.pid \in Pids
  /\ forz \in Busquedas /\ grado \in Gradaciones

(* The process found is the one sought; the one in hand will go back; and   *)
(* the thread that asked does nothing else.                                 *)
Victima ==
  /\ IF forz.de = "" THEN forz.preso = Nadie ELSE forz.preso = forz.pid
  /\ forz.pc \in {"nada", "listas"} => forz.de = ""
  /\ IF forz.pc = "nada" THEN forz.quien = "" ELSE forz.pid \in Pids
  /\ forz.mano # Nadie => Rotando
  /\ forz.quien = "N" => hiloN = forz.pid
  /\ forz.quien = "M" => hiloM.pc = "C02"

(* The lists, and what the threads have in hand, do not meet. *)
Apartes(N, L, E, B, F, R, n, l, m, x) ==
  \A p \in Pids :
    /\ p \in N => p \notin L \cup E \cup B \cup F \cup R \cup {n, l, m, x}
    /\ p \in L => p \notin E \cup B \cup F \cup R \cup {n, l, m, x}
    /\ p \in E => p \notin B \cup F \cup R \cup {n, l, m, x}
    /\ p \in B => p \notin F \cup R \cup {n, l, m, x}
    /\ p \in F => p \notin R \cup {n, l, m, x}
    /\ p \in R => p \notin {n, l, m, x}
    /\ p = n => p \notin {l, m, x}
    /\ p = l => p \notin {m, x}
    /\ p = m => p # x

(* cola_listos may hold several NULLs. *)
SinRepetidos(q) == \A i, j \in 1 .. Len(q) : q[i] = q[j] /\ q[i] # Nadie => i = j

UnSitio ==
  /\ IsInjective(nuevos) /\ SinRepetidos(listos)
  /\ Apartes(ToSet(nuevos), ToSet(listos), ejecutando, bloqueados, finalizados, rechazados,
             hiloN, hiloL.pid, forz.mano, forz.preso)

(* Pids are given in order to whatever has entered. *)
Numerados == Entrados = 1 .. Cardinality(Entrados)

(* The processes that take a slot, place by place. *)
EnManosDe == (IF forz.de = "nuevos" THEN {} ELSE {forz.preso})
             \cup (IF forz.pc = "listos" THEN {forz.mano} ELSE {})
Ocupan == (ToSet(listos) \cup ejecutando \cup bloqueados \cup {hiloN, hiloL.pid} \cup EnManosDe)
          \ {Nadie}

Debe == grado.diferencia + grado.perdida - grado.config
Saldo == sem.grado + Debe
Ranuras == Saldo + Cardinality(Ocupan) + Cardinality(rechazados) = 0

Vivo == Tipos /\ Victima /\ UnSitio /\ Numerados /\ Ranuras

(* The process in the hands of a rotation of cola_listos still counts. *)
EnVuelta == IF forz.pc = "listos" /\ forz.mano # Nadie THEN 1 ELSE 0

FichasListos ==
  /\ {"cpu", "cruce"} \cap riesgos = {} => /\ sem.listos >= Len(listos)
                                           /\ sem.listos >= Len(listos) + EnVuelta
  /\ muertas # {} => "cpu" \in riesgos

FInv == (~caido => Vivo) /\ FichasListos

-----------------------------------------------------------------------------
(* Helpers *)

(* A wait or a post of one semaphore or several. *)
LEMMA FichasTipo ==
  ASSUME NEW s \in [SemHilos -> Nat], NEW cuales
  PROVE  /\ \A k \in SemHilos :
              /\ s[k] \in Nat
              /\ Postear(s, cuales)[k] = IF k \in cuales THEN s[k] + 1 ELSE s[k]
              /\ Esperar(s, cuales)[k] = IF k \in cuales THEN s[k] - 1 ELSE s[k]
         /\ Postear(s, cuales) \in [SemHilos -> Nat]
         /\ (\A k \in cuales : s[k] > 0) => Esperar(s, cuales) \in [SemHilos -> Nat]
<1>1. DOMAIN s = SemHilos /\ \A k \in SemHilos : s[k] \in Nat
  OBVIOUS
<1>2. Postear(s, cuales) = [k \in SemHilos |-> IF k \in cuales THEN s[k] + 1 ELSE s[k]]
  BY <1>1 DEF Postear
<1>3. Esperar(s, cuales) = [k \in SemHilos |-> IF k \in cuales THEN s[k] - 1 ELSE s[k]]
  BY <1>1 DEF Esperar
<1>4. \A k \in SemHilos : s[k] + 1 \in Nat /\ (s[k] > 0 => s[k] - 1 \in Nat)
  BY <1>1
<1>5. /\ \A k \in SemHilos : /\ Postear(s, cuales)[k] = IF k \in cuales THEN s[k] + 1 ELSE s[k]
                            /\ Esperar(s, cuales)[k] = IF k \in cuales THEN s[k] - 1 ELSE s[k]
  BY <1>2, <1>3
<1>6. Postear(s, cuales) \in [SemHilos -> Nat]
  BY <1>1, <1>2, <1>4
<1>7. ASSUME \A k \in cuales : s[k] > 0 PROVE Esperar(s, cuales) \in [SemHilos -> Nat]
  <2>1. \A k \in SemHilos : (IF k \in cuales THEN s[k] - 1 ELSE s[k]) \in Nat
    BY <1>1, <1>4, <1>7
  <2> QED
    BY <1>3, <2>1
<1> QED
  BY <1>1, <1>5, <1>6, <1>7

(* What existe_pid leaves of cola_listos: the same processes in the same    *)
(* order, without the NULLs.                                                *)
LEMMA SinNulosQuita ==
  ASSUME NEW q \in Seq(Pids \cup {Nadie}), SinRepetidos(q)
  PROVE  /\ SinNulos(q) \in Seq(Pids) /\ Len(SinNulos(q)) <= Len(q)
         /\ ToSet(SinNulos(q)) = ToSet(q) \ {Nadie}
         /\ IsInjective(SinNulos(q))
<1> DEFINE n == Len(q)
           Echa(r, x) == IF x = Nadie THEN r ELSE Append(r, x)
           Es(u) == u = [k \in 0 .. Len(q) |->
                           IF k = 0 THEN <<>>
                           ELSE IF q[k] = Nadie THEN u[k - 1] ELSE Append(u[k - 1], q[k])]
           u == CHOOSE v : Es(v)
           paso == [z \in Nat \X Seq(Pids) |-> IF z[1] \in 1 .. n THEN Echa(z[2], q[z[1]]) ELSE z[2]]
<1>1. n \in Nat /\ DOMAIN q = 1 .. n /\ \A k \in 1 .. n : q[k] \in Pids \cup {Nadie}
  BY LenProperties
<1>2. ASSUME NEW r \in Seq(Pids), NEW x \in Pids \cup {Nadie} PROVE Echa(r, x) \in Seq(Pids)
  <2>1. CASE x = Nadie
    BY <2>1
  <2>2. CASE x # Nadie
    BY <2>2, AlFinal
  <2> QED
    BY <2>1, <2>2
<1>3. paso \in [Nat \X Seq(Pids) -> Seq(Pids)]
  <2> SUFFICES ASSUME NEW z \in Nat \X Seq(Pids)
               PROVE  (IF z[1] \in 1 .. n THEN Echa(z[2], q[z[1]]) ELSE z[2]) \in Seq(Pids)
    OBVIOUS
  <2>1. z[1] \in Nat /\ z[2] \in Seq(Pids)
    OBVIOUS
  <2> HIDE DEF Echa
  <2>2. CASE z[1] \in 1 .. n
    BY <1>1, <1>2, <2>1, <2>2
  <2>3. CASE z[1] \notin 1 .. n
    BY <2>1, <2>3
  <2> QED
    BY <2>2, <2>3
<1>4. \A k \in 1 .. n : \A r \in Seq(Pids) : paso[<<k, r>>] = Echa(r, q[k])
  <2> SUFFICES ASSUME NEW k \in 1 .. n, NEW r \in Seq(Pids) PROVE paso[<<k, r>>] = Echa(r, q[k])
    OBVIOUS
  <2>1. <<k, r>> \in Nat \X Seq(Pids)
    OBVIOUS
  <2> HIDE DEF Echa
  <2> QED
    BY <2>1
<1> HIDE DEF paso
<1>5. \E v : Es(v)
  <2> DEFINE T == Seq(Pids)
             vacia == <<>>
  <2>1. vacia \in T /\ paso \in [Nat \X T -> T]
    BY <1>3
  <2> HIDE DEF T, vacia
  <2>2. PICK c : Recorre(c, n, T, vacia, paso)
    BY <1>1, <2>1, RecursionExiste
  <2>3. c \in [0 .. n -> T] /\ c[0] = vacia /\ \A k \in 1 .. n : c[k] = paso[<<k, c[k - 1]>>]
    BY <2>2 DEF Recorre
  <2>4. ASSUME NEW k \in 1 .. n PROVE c[k] = Echa(c[k - 1], q[k])
    <3>1. k - 1 \in 0 .. n
      BY <1>1
    <3>2. c[k - 1] \in Seq(Pids)
      BY <2>3, <3>1 DEF T
    <3> QED
      BY <1>4, <2>3, <3>2
  <2>5. \A k \in 0 .. n : c[k] = IF k = 0 THEN <<>>
                                 ELSE IF q[k] = Nadie THEN c[k - 1] ELSE Append(c[k - 1], q[k])
    <3> SUFFICES ASSUME NEW k \in 0 .. n
                 PROVE  c[k] = IF k = 0 THEN <<>>
                               ELSE IF q[k] = Nadie THEN c[k - 1] ELSE Append(c[k - 1], q[k])
      OBVIOUS
    <3>1. CASE k = 0
      BY <2>3, <3>1 DEF vacia
    <3>2. CASE k # 0
      <4>1. k \in 1 .. n
        BY <3>2
      <4> QED
        BY <2>4, <3>2, <4>1
    <3> QED
      BY <3>1, <3>2
  <2>6. c = [k \in 0 .. n |-> c[k]]
    BY <2>3
  <2>7. Es(c)
    BY <2>5, <2>6
  <2> QED
    BY <2>7
<1>6. SinNulos(q) = u[n]
  BY DEF SinNulos
<1> HIDE DEF Es
<1>7. Es(u)
  BY <1>5
<1> HIDE DEF u
<1>8. u[0] = <<>> /\ \A k \in 1 .. n : u[k] = Echa(u[k - 1], q[k])
  <2>1. 0 \in 0 .. n /\ \A k \in 1 .. n : k \in 0 .. n /\ k # 0
    BY <1>1
  <2> QED
    BY <1>7, <2>1 DEF Es
<1> DEFINE Bien(k) == /\ u[k] \in Seq(Pids) /\ Len(u[k]) <= k /\ IsInjective(u[k])
                      /\ \A x : x \in ToSet(u[k]) <=> x # Nadie /\ \E i \in 1 .. k : q[i] = x
           S == {k \in Nat : k <= n => Bien(k)}
<1>9. 0 \in S
  <2>1. ToSet(<<>>) = {} /\ IsInjective(<<>>) /\ <<>> \in Seq(Pids) /\ Len(<<>>) = 0
    BY DEF ToSet, IsInjective
  <2>2. /\ u[0] \in Seq(Pids) /\ Len(u[0]) <= 0 /\ IsInjective(u[0])
        /\ \A x : x \notin ToSet(u[0])
    BY <1>8, <2>1
  <2>3. \A x : ~ \E i \in 1 .. 0 : q[i] = x
    OBVIOUS
  <2>4. Bien(0)
    BY <2>2, <2>3
  <2> HIDE DEF Bien
  <2> QED
    BY <2>4
<1>10. ASSUME NEW k \in Nat, k \in S PROVE k + 1 \in S
  <2> SUFFICES ASSUME k + 1 <= n PROVE Bien(k + 1)
    OBVIOUS
  <2>1. Bien(k)
    BY <1>1, <1>10
  <2>2. k + 1 \in 1 .. n /\ k + 1 - 1 = k
    BY <1>1
  <2>3. u[k + 1] = Echa(u[k], q[k + 1])
    BY <1>8, <2>2
  <2> DEFINE x == q[k + 1]
             r == u[k]
  <2>4. \A y : (\E i \in 1 .. k + 1 : q[i] = y) <=> y = x \/ \E i \in 1 .. k : q[i] = y
    OBVIOUS
  <2>5. r \in Seq(Pids) /\ Len(r) <= k /\ Len(r) \in Nat /\ IsInjective(r)
    BY <2>1, LenProperties
  <2>6. \A y : y \in ToSet(r) <=> y # Nadie /\ \E i \in 1 .. k : q[i] = y
    BY <2>1
  <2>7. u[k + 1] = Echa(r, x) /\ x \in Pids \cup {Nadie}
    BY <1>1, <2>2, <2>3
  <2>8. \A i \in 1 .. k : q[i] = x /\ x # Nadie => i = k + 1
    BY <1>1, <2>2 DEF SinRepetidos
  <2> HIDE DEF x, r
  <2>9. CASE x = Nadie
    <3>1. u[k + 1] = r
      BY <2>7, <2>9
    <3> QED
      BY <2>4, <2>5, <2>6, <2>9, <3>1
  <2>10. CASE x # Nadie
    <3>1. u[k + 1] = Append(r, x) /\ x \in Pids
      BY <2>7, <2>10
    <3>2. x \notin ToSet(r)
      BY <2>6, <2>8
    <3>3. /\ u[k + 1] \in Seq(Pids) /\ Len(u[k + 1]) = Len(r) + 1
          /\ ToSet(u[k + 1]) = ToSet(r) \cup {x} /\ IsInjective(u[k + 1])
      BY <2>5, <3>1, <3>2, AlFinal
    <3>4. Len(u[k + 1]) <= k + 1
      BY <2>5, <3>3
    <3>5. \A y : y \in ToSet(u[k + 1]) <=> y # Nadie /\ \E i \in 1 .. k + 1 : q[i] = y
      BY <2>4, <2>6, <2>10, <3>3
    <3> QED
      BY <3>3, <3>4, <3>5
  <2> QED
    BY <2>9, <2>10
<1>11. Bien(n)
  <2> HIDE DEF Bien
  <2>1. \A k \in Nat : k \in S
    <3> HIDE DEF S
    <3> QED
      BY <1>9, <1>10, Induccion
  <2> QED
    BY <1>1, <2>1
<1>12. \A x : x \in ToSet(q) <=> \E i \in 1 .. n : q[i] = x
  BY ToSetElemento
<1> QED
  BY <1>6, <1>11, <1>12

(* cola_listos, with its NULLs, after a push, a pop and a push to the front *)
LEMMA ListosAlFinal ==
  ASSUME NEW q \in Seq(Pids \cup {Nadie}), SinRepetidos(q), NEW x \in Pids \cup {Nadie},
         x = Nadie \/ x \notin ToSet(q)
  PROVE  /\ Append(q, x) \in Seq(Pids \cup {Nadie}) /\ Len(Append(q, x)) = Len(q) + 1
         /\ \A p \in Pids : p \in ToSet(Append(q, x)) <=> p \in ToSet(q) \/ p = x
         /\ SinRepetidos(Append(q, x))
<1> DEFINE r == Append(q, x)
<1>1. /\ r \in Seq(Pids \cup {Nadie}) /\ Len(r) = Len(q) + 1 /\ Len(q) \in Nat
      /\ \A i \in 1 .. Len(q) : r[i] = q[i]
      /\ r[Len(q) + 1] = x
  BY AppendProperties, LenProperties
<1>2. ToSet(r) = ToSet(q) \cup {x}
  BY AlFinal
<1>3. \A i \in 1 .. Len(q) : x = Nadie \/ q[i] # x
  BY ToSetElemento
<1> HIDE DEF r
<1>4. SinRepetidos(r)
  <2> SUFFICES ASSUME NEW i \in 1 .. Len(q) + 1, NEW j \in 1 .. Len(q) + 1,
                      r[i] = r[j], r[i] # Nadie
               PROVE  i = j
    BY <1>1 DEF SinRepetidos
  <2> QED
    BY <1>1, <1>3 DEF SinRepetidos
<1> QED
  BY <1>1, <1>2, <1>4 DEF r

LEMMA ListosPrimero ==
  ASSUME NEW q \in Seq(Pids \cup {Nadie}), SinRepetidos(q), q # <<>>
  PROVE  /\ Tail(q) \in Seq(Pids \cup {Nadie}) /\ Len(Tail(q)) = Len(q) - 1 /\ Len(q) \in Nat
         /\ Head(q) \in Pids \cup {Nadie} /\ Head(q) \in ToSet(q)
         /\ \A p \in Pids : p \in ToSet(Tail(q)) <=> p \in ToSet(q) /\ p # Head(q)
         /\ SinRepetidos(Tail(q))
<1> DEFINE r == Tail(q)
           h == Head(q)
<1>1. /\ r \in Seq(Pids \cup {Nadie}) /\ Len(r) = Len(q) - 1 /\ h \in Pids \cup {Nadie}
      /\ \A i \in 1 .. Len(q) - 1 : r[i] = q[i + 1]
      /\ Len(q) \in Nat \ {0} /\ h = q[1]
  BY HeadTailProperties, LenProperties, EmptySeq
<1>2. h \in ToSet(q)
  BY SinPrimero
<1> HIDE DEF r, h
<1>3. \A k, l \in 1 .. Len(q) : q[k] = q[l] /\ q[k] # Nadie => k = l
  BY DEF SinRepetidos
<1>4. SinRepetidos(r)
  <2> SUFFICES ASSUME NEW i \in 1 .. Len(q) - 1, NEW j \in 1 .. Len(q) - 1,
                      r[i] = r[j], r[i] # Nadie
               PROVE  i = j
    BY <1>1 DEF SinRepetidos
  <2>1. q[i + 1] = q[j + 1] /\ q[i + 1] # Nadie /\ i + 1 \in 1 .. Len(q) /\ j + 1 \in 1 .. Len(q)
    BY <1>1
  <2> QED
    BY <1>3, <2>1
<1>5. ASSUME NEW p \in Pids PROVE p \in ToSet(r) <=> p \in ToSet(q) /\ p # h
  <2>1. p # Nadie
    BY NadieAparte
  <2>2. /\ p \in ToSet(q) <=> \E i \in 1 .. Len(q) : q[i] = p
        /\ p \in ToSet(r) <=> \E i \in 1 .. Len(r) : r[i] = p
    BY <1>1, ToSetElemento
  <2>3. ASSUME p \in ToSet(r) PROVE p \in ToSet(q) /\ p # h
    <3>1. PICK i \in 1 .. Len(q) - 1 : r[i] = p
      BY <1>1, <2>2, <2>3
    <3>2. q[i + 1] = p /\ i + 1 \in 1 .. Len(q) /\ i + 1 # 1
      BY <1>1, <3>1
    <3>3. p # h
      BY <1>1, <1>3, <2>1, <3>2
    <3> QED
      BY <2>2, <3>2, <3>3
  <2>4. ASSUME p \in ToSet(q), p # h PROVE p \in ToSet(r)
    <3>1. PICK i \in 1 .. Len(q) : q[i] = p
      BY <2>2, <2>4
    <3>2. i - 1 \in 1 .. Len(q) - 1 /\ r[i - 1] = p
      BY <1>1, <2>4, <3>1
    <3> QED
      BY <1>1, <2>2, <3>2
  <2> QED
    BY <2>3, <2>4
<1> QED
  BY <1>1, <1>2, <1>4, <1>5 DEF r, h

LEMMA ListosAdelante ==
  ASSUME NEW q \in Seq(Pids \cup {Nadie}), SinRepetidos(q), NEW x \in Pids, x \notin ToSet(q)
  PROVE  /\ <<x>> \o q \in Seq(Pids \cup {Nadie}) /\ Len(<<x>> \o q) = Len(q) + 1
         /\ \A p \in Pids : p \in ToSet(<<x>> \o q) <=> p \in ToSet(q) \/ p = x
         /\ SinRepetidos(<<x>> \o q)
<1> DEFINE r == <<x>> \o q
<1>1. Len(q) \in Nat
  BY LenProperties
<1>2. /\ r \in Seq(Pids \cup {Nadie}) /\ Len(r) = Len(q) + 1
      /\ r[1] = x /\ \A i \in 2 .. Len(q) + 1 : r[i] = q[i - 1]
  BY <1>1, ConcatProperties
<1>3. \A i \in 1 .. Len(q) : q[i] # x
  BY ToSetElemento
<1> HIDE DEF r
<1>4. SinRepetidos(r)
  <2> SUFFICES ASSUME NEW i \in 1 .. Len(q) + 1, NEW j \in 1 .. Len(q) + 1,
                      r[i] = r[j], r[i] # Nadie
               PROVE  i = j
    BY <1>2 DEF SinRepetidos
  <2>1. \A k \in 1 .. Len(q) + 1 : k = 1 \/ (k - 1 \in 1 .. Len(q) /\ k \in 2 .. Len(q) + 1)
    BY <1>1
  <2>2. CASE i = 1 \/ j = 1
    BY <1>2, <1>3, <2>1, <2>2
  <2>3. CASE i # 1 /\ j # 1
    <3>1. i - 1 \in 1 .. Len(q) /\ j - 1 \in 1 .. Len(q) /\ q[i - 1] = q[j - 1] /\ q[i - 1] # Nadie
      BY <1>2, <2>1, <2>3
    <3>2. i - 1 = j - 1
      BY <3>1 DEF SinRepetidos
    <3> QED
      BY <3>2
  <2> QED
    BY <2>2, <2>3
<1>5. ASSUME NEW p \in Pids PROVE p \in ToSet(r) <=> p \in ToSet(q) \/ p = x
  <2>1. /\ p \in ToSet(q) <=> \E i \in 1 .. Len(q) : q[i] = p
        /\ p \in ToSet(r) <=> \E i \in 1 .. Len(q) + 1 : r[i] = p
    BY <1>2, ToSetElemento
  <2>2. ASSUME NEW i \in 1 .. Len(q) + 1, r[i] = p PROVE p = x \/ \E k \in 1 .. Len(q) : q[k] = p
    <3>1. CASE i = 1
      BY <1>2, <2>2, <3>1
    <3>2. CASE i # 1
      <4>1. i - 1 \in 1 .. Len(q) /\ i \in 2 .. Len(q) + 1
        BY <1>1, <3>2
      <4> QED
        BY <1>2, <2>2, <4>1
    <3> QED
      BY <3>1, <3>2
  <2>3. ASSUME NEW k \in 1 .. Len(q), q[k] = p PROVE \E i \in 1 .. Len(q) + 1 : r[i] = p
    <3>1. k + 1 \in 2 .. Len(q) + 1 /\ k + 1 \in 1 .. Len(q) + 1 /\ k + 1 - 1 = k
      BY <1>1
    <3>2. r[k + 1] = q[k + 1 - 1]
      BY <1>2, <3>1
    <3>3. r[k + 1] = p
      BY <2>3, <3>1, <3>2
    <3> QED
      BY <3>1, <3>3
  <2>4. 1 \in 1 .. Len(q) + 1
    BY <1>1
  <2> QED
    BY <1>2, <2>1, <2>2, <2>3, <2>4
<1> QED
  BY <1>2, <1>4, <1>5 DEF r

-----------------------------------------------------------------------------
(* Who is in, place by place, and who takes a slot *)

Dentro(p) ==
  \/ p \in ToSet(nuevos) \/ p \in ToSet(listos) \/ p \in ejecutando \/ p \in bloqueados
  \/ p \in finalizados \/ p \in rechazados
  \/ p = hiloN \/ p = hiloL.pid \/ p = forz.mano \/ p = forz.preso

Ocupa(p) ==
  \/ p \in ToSet(listos) \/ p \in ejecutando \/ p \in bloqueados \/ p = hiloN \/ p = hiloL.pid
  \/ forz.de # "nuevos" /\ p = forz.preso
  \/ forz.pc = "listos" /\ p = forz.mano

LEMMA CamposForzar ==
  Tipos => /\ forz.mano \in Pids \cup {Nadie} /\ forz.preso \in Pids \cup {Nadie}
           /\ forz.pid \in Pids \cup {Nadie} /\ forz.pc \in Pases /\ forz.de \in Origenes
           /\ forz.quien \in {"", "M", "N", "consola"} /\ forz.i \in Nat
           /\ hiloN \in Pids \cup {Nadie} /\ hiloL.pid \in Pids \cup {Nadie}
<1>1. Tipos => hiloN \in Pids \cup {Nadie} /\ hiloL.pid \in Pids \cup {Nadie}
  <2>1. SinDespacho.pid = Nadie
    BY DEF SinDespacho
  <2>2. Tipos => hiloN \in Pids \cup {Nadie} /\ (hiloL = SinDespacho \/ hiloL.pid \in Pids)
    BY DEF Tipos
  <2> QED
    BY <2>1, <2>2
<1> SUFFICES ASSUME NEW f \in Busquedas
             PROVE  /\ f.mano \in Pids \cup {Nadie} /\ f.preso \in Pids \cup {Nadie}
                    /\ f.pid \in Pids \cup {Nadie} /\ f.pc \in Pases /\ f.de \in Origenes
                    /\ f.quien \in {"", "M", "N", "consola"} /\ f.i \in Nat
  BY <1>1 DEF Tipos
<1> QED
  BY DEF Busquedas

(* The degree: numbers, and what a post or a wait does to them. *)
LEMMA SaldoTipo ==
  Tipos => /\ sem.grado \in Nat /\ Debe \in Int /\ Saldo \in Int /\ Saldo = sem.grado + Debe
           /\ grado.diferencia \in Int /\ grado.perdida \in Int /\ grado.config \in Int
<1> SUFFICES ASSUME Tipos
             PROVE  /\ sem.grado \in Nat /\ Debe \in Int /\ Saldo \in Int /\ Saldo = sem.grado + Debe
                    /\ grado.diferencia \in Int /\ grado.perdida \in Int /\ grado.config \in Int
  OBVIOUS
<1>1. sem.grado \in Nat
  BY DEF Tipos, SemHilos
<1>2. grado.diferencia \in Int /\ grado.perdida \in Int /\ grado.config \in Int
  BY DEF Tipos, Gradaciones
<1>3. Debe \in Int
  BY <1>2 DEF Debe
<1> QED
  BY <1>1, <1>2, <1>3 DEF Saldo

LEMMA EntradosSon ==
  Tipos => /\ Entrados \subseteq Pids /\ IsFiniteSet(Entrados) /\ Cardinality(Entrados) \in Nat
           /\ \A p \in Pids : p \in Entrados <=> Dentro(p)
<1> SUFFICES ASSUME Tipos
             PROVE  /\ Entrados \subseteq Pids /\ IsFiniteSet(Entrados)
                    /\ Cardinality(Entrados) \in Nat
                    /\ \A p \in Pids : p \in Entrados <=> Dentro(p)
  OBVIOUS
<1>1. ToSet(nuevos) \subseteq Pids /\ ToSet(listos) \subseteq Pids \cup {Nadie}
  BY ToSetElemento DEF Tipos
<1>2. /\ hiloN \in Pids \cup {Nadie} /\ hiloL.pid \in Pids \cup {Nadie}
      /\ forz.mano \in Pids \cup {Nadie} /\ forz.preso \in Pids \cup {Nadie}
      /\ ejecutando \subseteq Pids /\ bloqueados \subseteq Pids
      /\ finalizados \subseteq Pids /\ rechazados \subseteq Pids
  BY CamposForzar DEF Tipos
<1>3. Entrados \subseteq Pids
  BY <1>1, <1>2 DEF Entrados, Ingresados
<1>4. ASSUME NEW p \in Pids PROVE p \in Entrados <=> Dentro(p)
  <2>1. p # Nadie
    BY NadieAparte
  <2> QED
    BY <2>1 DEF Entrados, Ingresados, Dentro
<1>5. IsFiniteSet(Entrados)
  BY <1>3, NadieAparte, FS_Subset
<1> QED
  BY <1>3, <1>4, <1>5, FS_CardinalityType

LEMMA OcupanSon ==
  Tipos => /\ Ocupan \subseteq Pids /\ IsFiniteSet(Ocupan) /\ Cardinality(Ocupan) \in Nat
           /\ IsFiniteSet(rechazados) /\ Cardinality(rechazados) \in Nat
           /\ \A p \in Pids : p \in Ocupan <=> Ocupa(p)
<1> SUFFICES ASSUME Tipos
             PROVE  /\ Ocupan \subseteq Pids /\ IsFiniteSet(Ocupan) /\ Cardinality(Ocupan) \in Nat
                    /\ IsFiniteSet(rechazados) /\ Cardinality(rechazados) \in Nat
                    /\ \A p \in Pids : p \in Ocupan <=> Ocupa(p)
  OBVIOUS
<1>1. ToSet(listos) \subseteq Pids \cup {Nadie}
  BY ToSetElemento DEF Tipos
<1>2. /\ hiloN \in Pids \cup {Nadie} /\ hiloL.pid \in Pids \cup {Nadie}
      /\ forz.mano \in Pids \cup {Nadie} /\ forz.preso \in Pids \cup {Nadie}
      /\ ejecutando \subseteq Pids /\ bloqueados \subseteq Pids /\ rechazados \subseteq Pids
  BY CamposForzar DEF Tipos
<1>3. Ocupan \subseteq Pids
  BY <1>1, <1>2 DEF Ocupan, EnManosDe
<1>4. ASSUME NEW p \in Pids PROVE p \in Ocupan <=> Ocupa(p)
  <2>1. p # Nadie
    BY NadieAparte
  <2> QED
    BY <2>1 DEF Ocupan, EnManosDe, Ocupa
<1>5. IsFiniteSet(Ocupan) /\ IsFiniteSet(rechazados)
  BY <1>2, <1>3, NadieAparte, FS_Subset
<1> QED
  BY <1>3, <1>4, <1>5, FS_CardinalityType

(* Nobody leaves the system in a step.                                      *)
Quedan == caido' \/ Entrados \subseteq Entrados'

(* A step that moves processes from one place to another, and the numbers.  *)
LEMMA SiguenNumerados ==
  ASSUME Tipos, Tipos', Numerados, \A p \in Pids : Dentro(p)' <=> Dentro(p)
  PROVE  Numerados' /\ Quedan
<1>1. Tipos' => (/\ Entrados \subseteq Pids /\ IsFiniteSet(Entrados)
                 /\ Cardinality(Entrados) \in Nat
                 /\ \A p \in Pids : p \in Entrados <=> Dentro(p))'
  BY EntradosSon, PTL
<1>2. Entrados' \subseteq Pids /\ \A p \in Pids : p \in Entrados' <=> Dentro(p)'
  BY <1>1
<1>3. Entrados \subseteq Pids /\ \A p \in Pids : p \in Entrados <=> Dentro(p)
  BY EntradosSon
<1>4. Entrados' = Entrados
  BY <1>2, <1>3
<1> QED
  BY <1>4 DEF Numerados, Quedan

(* What a step changes of the slots. *)
LEMMA CuantosOcupan ==
  ASSUME Tipos, Tipos'
  PROVE  /\ Cardinality(Ocupan) \in Nat /\ Cardinality(Ocupan') \in Nat
         /\ Cardinality(rechazados) \in Nat /\ Cardinality(rechazados') \in Nat
         /\ (\A p \in Pids : Ocupa(p)' <=> Ocupa(p)) => Cardinality(Ocupan') = Cardinality(Ocupan)
         /\ \A x \in Pids :
              /\ ~Ocupa(x) /\ (\A p \in Pids : Ocupa(p)' <=> Ocupa(p) \/ p = x) =>
                   Cardinality(Ocupan') = Cardinality(Ocupan) + 1
              /\ Ocupa(x) /\ (\A p \in Pids : Ocupa(p)' <=> Ocupa(p) /\ p # x) =>
                   Cardinality(Ocupan') = Cardinality(Ocupan) - 1
<1>1. Tipos' => (/\ Ocupan \subseteq Pids /\ IsFiniteSet(Ocupan) /\ Cardinality(Ocupan) \in Nat
                 /\ IsFiniteSet(rechazados) /\ Cardinality(rechazados) \in Nat
                 /\ \A p \in Pids : p \in Ocupan <=> Ocupa(p))'
  BY OcupanSon, PTL
<1>2. /\ Ocupan' \subseteq Pids /\ IsFiniteSet(Ocupan')
      /\ Cardinality(Ocupan') \in Nat /\ Cardinality(rechazados') \in Nat
      /\ \A p \in Pids : p \in Ocupan' <=> Ocupa(p)'
  BY <1>1
<1>3. /\ Ocupan \subseteq Pids /\ IsFiniteSet(Ocupan)
      /\ Cardinality(Ocupan) \in Nat /\ Cardinality(rechazados) \in Nat
      /\ \A p \in Pids : p \in Ocupan <=> Ocupa(p)
  BY OcupanSon
<1>4. ASSUME \A p \in Pids : Ocupa(p)' <=> Ocupa(p) PROVE Cardinality(Ocupan') = Cardinality(Ocupan)
  <2>1. Ocupan' = Ocupan
    BY <1>2, <1>3, <1>4
  <2> QED
    BY <2>1
<1>5. ASSUME NEW x \in Pids, ~Ocupa(x), \A p \in Pids : Ocupa(p)' <=> Ocupa(p) \/ p = x
      PROVE  Cardinality(Ocupan') = Cardinality(Ocupan) + 1
  <2>1. Ocupan' = Ocupan \cup {x} /\ x \notin Ocupan
    BY <1>2, <1>3, <1>5
  <2> QED
    BY <1>3, <2>1, FS_AddElement
<1>6. ASSUME NEW x \in Pids, Ocupa(x), \A p \in Pids : Ocupa(p)' <=> Ocupa(p) /\ p # x
      PROVE  Cardinality(Ocupan') = Cardinality(Ocupan) - 1
  <2>1. Ocupan' = Ocupan \ {x} /\ x \in Ocupan
    BY <1>2, <1>3, <1>6
  <2> QED
    BY <1>3, <2>1, FS_RemoveElement
<1> QED
  BY <1>2, <1>3, <1>4, <1>5, <1>6
-----------------------------------------------------------------------------
(* The initial state *)

LEMMA InicioForzar == InitForzar => FInv
<1> SUFFICES ASSUME InitForzar PROVE FInv
  OBVIOUS
<1> USE NadieAparte
<1>1. Tipos
  <2>1. sem \in [SemHilos -> Nat]
    BY PlanificadorOK DEF InitForzar, Init, SemHilos
  <2>2. forz \in Busquedas
    BY DEF InitForzar, SinForzar, Busquedas, Pases, Origenes
  <2>3. grado \in Gradaciones
    BY PlanificadorOK DEF InitForzar, Gradaciones
  <2>4. nuevos \in Seq(Pids) /\ listos \in Seq(Pids \cup {Nadie})
    BY DEF InitForzar, Init
  <2> QED
    BY <2>1, <2>2, <2>3, <2>4 DEF InitForzar, Init, Tipos
<1>2. /\ forz.mano = Nadie /\ forz.preso = Nadie /\ forz.de = "" /\ forz.pc = "nada"
      /\ forz.quien = ""
  BY DEF InitForzar, SinForzar
<1>3. Victima
  BY <1>2 DEF Victima
<1>4. ToSet(<<>>) = {} /\ IsInjective(<<>>) /\ Len(<<>>) = 0
  BY DEF ToSet, IsInjective
<1>5. \A p \in Pids : ~Dentro(p) /\ ~Ocupa(p)
  BY <1>2, <1>4 DEF InitForzar, Init, Dentro, Ocupa, SinDespacho
<1>6. UnSitio
  <2>1. IsInjective(nuevos) /\ SinRepetidos(listos)
    BY <1>4 DEF InitForzar, Init, SinRepetidos
  <2> QED
    BY <1>5, <2>1 DEF UnSitio, Apartes, Dentro
<1>7. Entrados = {} /\ Ocupan = {} /\ rechazados = {}
  BY <1>1, <1>5, EntradosSon, OcupanSon DEF InitForzar
<1>8. Numerados
  BY <1>7, FS_EmptySet DEF Numerados
<1>9. Ranuras
  <2>1. /\ sem.grado = Grado /\ grado.config = Grado /\ grado.diferencia = 0 /\ grado.perdida = 0
        /\ Grado \in Nat
    BY PlanificadorOK DEF InitForzar, Init
  <2>2. Saldo = 0
    BY <2>1 DEF Saldo, Debe
  <2> QED
    BY <1>7, <2>2, FS_EmptySet DEF Ranuras
<1>10. FichasListos
  <2>1. sem.listos = 0 /\ Len(listos) = 0 /\ muertas = {}
    BY <1>4 DEF InitForzar, Init
  <2>2. EnVuelta = 0
    BY <1>2 DEF EnVuelta
  <2> QED
    BY <2>1, <2>2 DEF FichasListos
<1> QED
  BY <1>1, <1>3, <1>6, <1>8, <1>9, <1>10 DEF FInv, Vivo

-----------------------------------------------------------------------------
(* Steps that move no process *)

LEMMA SinMover ==
  ASSUME FInv, ~caido,
         UNCHANGED <<nuevos, listos, ejecutando, bloqueados, finalizados, rechazados, hiloN, hiloL,
                     forz>>,
         sem' \in [SemHilos -> Nat], sem'.listos = sem.listos,
         grado' \in Gradaciones,
         Saldo' = Saldo,
         riesgos \subseteq riesgos', muertas' = muertas \/ "cpu" \in riesgos',
         forz.quien = "M" => hiloM'.pc = "C02"
  PROVE  FInv' /\ Quedan
<1>1. Tipos /\ Victima /\ UnSitio /\ Numerados /\ Ranuras /\ FichasListos
  BY DEF FInv, Vivo
<1>2. Tipos'
  BY <1>1 DEF Tipos
<1>3. Victima' /\ UnSitio'
  BY <1>1 DEF Victima, UnSitio, Rotando
<1>4. \A p \in Pids : (Dentro(p)' <=> Dentro(p)) /\ (Ocupa(p)' <=> Ocupa(p))
  BY DEF Dentro, Ocupa
<1>5. Numerados' /\ Quedan
  BY <1>1, <1>2, <1>4, SiguenNumerados
<1>6. Ranuras'
  <2>1. /\ Cardinality(Ocupan') = Cardinality(Ocupan) /\ Cardinality(Ocupan) \in Nat
        /\ rechazados' = rechazados /\ Cardinality(rechazados) \in Nat
    BY <1>1, <1>2, <1>4, CuantosOcupan
  <2> QED
    BY <1>1, <2>1 DEF Ranuras
<1>7. FichasListos'
  BY <1>1 DEF FichasListos, EnVuelta
<1> QED
  BY <1>2, <1>3, <1>5, <1>6, <1>7 DEF FInv, Vivo

(* The same, when the degree is left alone too. *)
LEMMA SinMoverNada ==
  ASSUME FInv, ~caido,
         UNCHANGED <<nuevos, listos, ejecutando, bloqueados, finalizados, rechazados, hiloN, hiloL,
                     forz, sem, grado>>,
         riesgos \subseteq riesgos', muertas' = muertas \/ "cpu" \in riesgos',
         forz.quien = "M" => hiloM'.pc = "C02"
  PROVE  FInv' /\ Quedan
<1>1. /\ sem' \in [SemHilos -> Nat] /\ sem'.listos = sem.listos
      /\ grado' \in Gradaciones /\ Saldo' = Saldo
  BY DEF FInv, Vivo, Tipos, Saldo, Debe
<1> QED
  BY <1>1, SinMover

LEMMA MoverEnSelect ==
  ASSUME FInv, ~caido
  PROVE  /\ hiloM.pc = "C02" \/ forz.quien # "M"
         /\ hiloM = EnSelect => hiloM.pc = "select" /\ forz.quien # "M"
<1>1. EnSelect.pc = "select"
  BY DEF EnSelect
<1> QED
  BY <1>1 DEF FInv, Vivo, Victima

LEMMA SigueTomarFichas == FInv /\ TomarFichas => FInv' /\ Quedan
<1> SUFFICES ASSUME FInv, TomarFichas PROVE FInv' /\ Quedan
  OBVIOUS
<1>1. /\ ~caido /\ UNCHANGED <<nuevos, listos, ejecutando, bloqueados, finalizados, rechazados,
                               hiloN, hiloL, forz, sem, grado, riesgos, muertas, hiloM>>
  BY DEF TomarFichas, vars
<1> QED
  BY <1>1, SinMoverNada, MoverEnSelect

LEMMA SigueMuere == ASSUME FInv, NEW c \in Cpus, Muere(c) PROVE FInv' /\ Quedan
<1>1. /\ ~caido /\ UNCHANGED <<nuevos, listos, ejecutando, bloqueados, finalizados, rechazados,
                               hiloN, hiloL, forz, sem, grado, hiloM>>
      /\ riesgos' = riesgos \cup {"cpu"}
  BY DEF Muere, Interrumpe, vars
<1> QED
  BY <1>1, SinMoverNada, MoverEnSelect

LEMMA SigueConectarCpu == ASSUME FInv, NEW c \in Cpus, ConectarCpu(c) PROVE FInv' /\ Quedan
<1>1. /\ ~caido /\ UNCHANGED <<nuevos, listos, ejecutando, bloqueados, finalizados, rechazados,
                               hiloN, hiloL, forz, grado, hiloM, muertas, riesgos>>
      /\ sem' = Postear(sem, {"cpus"})
  BY DEF ConectarCpu, AgregarCpu, listas, nuevas
<1>2. sem \in [SemHilos -> Nat] /\ grado' \in Gradaciones
  BY <1>1 DEF FInv, Vivo, Tipos
<1>3. /\ sem' \in [SemHilos -> Nat] /\ sem'.listos = sem.listos /\ sem'.grado = sem.grado
  BY <1>1, <1>2, FichasTipo DEF SemHilos
<1>4. Saldo' = Saldo
  BY <1>1, <1>3 DEF Saldo, Debe
<1> QED
  BY <1>1, <1>2, <1>3, <1>4, SinMover, MoverEnSelect

LEMMA SigueEsperarCpus == FInv /\ EsperarCpus => FInv' /\ Quedan
<1> SUFFICES ASSUME FInv, EsperarCpus PROVE FInv' /\ Quedan
  OBVIOUS
<1>1. /\ ~caido /\ UNCHANGED <<nuevos, listos, ejecutando, bloqueados, finalizados, rechazados,
                               hiloN, hiloL, forz, grado, muertas, riesgos>>
      /\ sem' = Esperar(sem, {"cpus"}) /\ sem.cpus > (IF turno THEN 1 ELSE 0)
      /\ hiloM.pc = "sem_cpus"
  BY DEF EsperarCpus, listas, nuevas
<1>2. sem \in [SemHilos -> Nat] /\ sem.cpus > 0
  <2>1. sem \in [SemHilos -> Nat] /\ sem.cpus \in Nat
    BY <1>1 DEF FInv, Vivo, Tipos, SemHilos
  <2> QED
    BY <1>1, <2>1
<1>3. /\ sem' \in [SemHilos -> Nat] /\ sem'.listos = sem.listos
      /\ grado' \in Gradaciones /\ Saldo' = Saldo
  <2>1. sem' \in [SemHilos -> Nat]
    BY <1>1, <1>2, FichasTipo
  <2>2. sem'.listos = sem.listos /\ sem'.grado = sem.grado
    BY <1>1, <1>2, FichasTipo DEF SemHilos
  <2> QED
    BY <1>1, <2>1, <2>2 DEF FInv, Vivo, Tipos, Saldo, Debe
<1>4. forz.quien # "M"
  BY <1>1, MoverEnSelect
<1> QED
  BY <1>1, <1>3, <1>4, SinMover

LEMMA SigueCambiarGrado == ASSUME FInv, NEW g \in Grados, CambiarGrado(g) PROVE FInv' /\ Quedan
<1>1. /\ ~caido /\ UNCHANGED <<nuevos, listos, ejecutando, bloqueados, finalizados, rechazados,
                               hiloN, hiloL, forz, sem, hiloM, muertas, riesgos>>
      /\ grado' = [grado EXCEPT !.config = g, !.diferencia = g - grado.config,
                                !.perdida = @ + grado.diferencia]
  BY DEF CambiarGrado, Interrumpe, vars
<1>2. Tipos /\ grado \in Gradaciones /\ sem \in [SemHilos -> Nat]
  BY <1>1 DEF FInv, Vivo, Tipos
<1>3. /\ sem.grado \in Nat /\ g \in Int
      /\ grado.diferencia \in Int /\ grado.perdida \in Int /\ grado.config \in Int
  BY <1>2, SaldoTipo, ForzarOK
<1>4. PICK d \in Int, r \in Int : d = g - grado.config /\ r = grado.perdida + grado.diferencia
  BY <1>3
<1>5. grado' = [grado EXCEPT !.config = g, !.diferencia = d, !.perdida = r]
  BY <1>1, <1>4
<1>6. grado' \in Gradaciones /\ grado'.config = g /\ grado'.diferencia = d /\ grado'.perdida = r
  <2>1. grado \in Gradaciones /\ g \in Int
    BY <1>2, <1>3
  <2>2. grado' = [config |-> g, diferencia |-> d, perdida |-> r, hiloG |-> grado.hiloG]
    BY <1>5, <2>1 DEF Gradaciones
  <2>3. grado.hiloG \in {"nada", "post", "wait"}
    BY <2>1 DEF Gradaciones
  <2> QED
    BY <2>1, <2>2, <2>3 DEF Gradaciones
<1>7. Saldo' = Saldo
  BY <1>1, <1>3, <1>4, <1>6 DEF Saldo, Debe
<1> QED
  BY <1>1, <1>2, <1>6, <1>7, SinMover, MoverEnSelect

LEMMA SigueMirarDiferencia == FInv /\ MirarDiferencia => FInv' /\ Quedan
<1> SUFFICES ASSUME FInv, MirarDiferencia PROVE FInv' /\ Quedan
  OBVIOUS
<1>1. /\ ~caido /\ UNCHANGED <<nuevos, listos, ejecutando, bloqueados, finalizados, rechazados,
                               hiloN, hiloL, forz, sem, hiloM, muertas, riesgos>>
      /\ grado' = [grado EXCEPT !.hiloG = IF grado.diferencia > 0 THEN "post" ELSE "wait"]
  BY DEF MirarDiferencia, vars
<1>2. grado \in Gradaciones /\ sem \in [SemHilos -> Nat]
  BY <1>1 DEF FInv, Vivo, Tipos
<1>3. PICK h \in {"nada", "post", "wait"} : grado' = [grado EXCEPT !.hiloG = h]
  BY <1>1
<1>4. /\ grado' \in Gradaciones /\ grado'.config = grado.config
      /\ grado'.diferencia = grado.diferencia /\ grado'.perdida = grado.perdida
  <2>1. grado' = [config |-> grado.config, diferencia |-> grado.diferencia,
                  perdida |-> grado.perdida, hiloG |-> h]
    BY <1>2, <1>3 DEF Gradaciones
  <2>2. grado.config \in Int /\ grado.diferencia \in Int /\ grado.perdida \in Int
    BY <1>2 DEF Gradaciones
  <2> QED
    BY <2>1, <2>2 DEF Gradaciones
<1>5. Saldo' = Saldo
  BY <1>1, <1>4 DEF Saldo, Debe
<1> QED
  BY <1>1, <1>2, <1>4, <1>5, SinMover, MoverEnSelect

LEMMA SigueActualizarGrado == FInv /\ ActualizarGrado => FInv' /\ Quedan
<1> SUFFICES ASSUME FInv, ActualizarGrado PROVE FInv' /\ Quedan
  OBVIOUS
<1>1. /\ ~caido /\ UNCHANGED <<nuevos, listos, ejecutando, bloqueados, finalizados, rechazados,
                               hiloN, hiloL, forz, hiloM, muertas, riesgos>>
  BY DEF ActualizarGrado, listas
<1>2. Tipos /\ grado \in Gradaciones /\ sem \in [SemHilos -> Nat]
  BY <1>1 DEF FInv, Vivo, Tipos
<1>3. /\ sem.grado \in Nat
      /\ grado.diferencia \in Int /\ grado.perdida \in Int /\ grado.config \in Int
  BY <1>2, SaldoTipo
<1>4. PICK d \in Int : /\ sem' \in [SemHilos -> Nat] /\ sem'.listos = sem.listos
                       /\ sem'.grado = sem.grado + grado.diferencia - d
                       /\ grado' = [grado EXCEPT !.hiloG = "nada", !.diferencia = d]
  <2>1. CASE /\ grado.hiloG = "post"
             /\ sem' = Postear(sem, {"grado"})
             /\ grado' = [grado EXCEPT !.hiloG = "nada", !.diferencia = @ - 1]
    <3>1. PICK d \in Int : d = grado.diferencia - 1
      BY <1>3
    <3>2. grado' = [grado EXCEPT !.hiloG = "nada", !.diferencia = d]
      BY <2>1, <3>1
    <3>3. /\ sem' \in [SemHilos -> Nat] /\ sem'.listos = sem.listos
          /\ sem'.grado = sem.grado + 1
      BY <1>2, <2>1, FichasTipo DEF SemHilos
    <3>4. sem'.grado = sem.grado + grado.diferencia - d
      BY <1>3, <3>1, <3>3
    <3> QED
      BY <3>2, <3>3, <3>4
  <2>2. CASE /\ grado.hiloG = "wait" /\ sem.grado > 0
             /\ sem' = Esperar(sem, {"grado"})
             /\ grado' = [grado EXCEPT !.hiloG = "nada", !.diferencia = @ + 1]
    <3>1. PICK d \in Int : d = grado.diferencia + 1
      BY <1>3
    <3>2. grado' = [grado EXCEPT !.hiloG = "nada", !.diferencia = d]
      BY <2>2, <3>1
    <3>3. sem' \in [SemHilos -> Nat]
      BY <1>2, <2>2, FichasTipo
    <3>4. sem'.listos = sem.listos /\ sem'.grado = sem.grado - 1
      BY <1>2, <2>2, FichasTipo DEF SemHilos
    <3>5. sem'.grado = sem.grado + grado.diferencia - d
      BY <1>3, <3>1, <3>4
    <3> QED
      BY <3>2, <3>3, <3>4, <3>5
  <2> QED
    BY <2>1, <2>2 DEF ActualizarGrado
<1>5. /\ grado' \in Gradaciones /\ grado'.config = grado.config
      /\ grado'.diferencia = d /\ grado'.perdida = grado.perdida
  <2>1. grado' = [config |-> grado.config, diferencia |-> d,
                  perdida |-> grado.perdida, hiloG |-> "nada"]
    BY <1>2, <1>4 DEF Gradaciones
  <2> QED
    BY <1>3, <2>1 DEF Gradaciones
<1>6. Saldo' = Saldo
  BY <1>3, <1>4, <1>5 DEF Saldo, Debe
<1> QED
  BY <1>1, <1>4, <1>5, <1>6, SinMover, MoverEnSelect
LEMMA SigueEjecutar ==
  ASSUME FInv, NEW c \in Cpus, EjecutarInstruccion(c) \/ RecibirRespuesta(c)
  PROVE  FInv' /\ Quedan
<1>1. /\ ~caido /\ UNCHANGED <<nuevos, listos, ejecutando, bloqueados, finalizados, rechazados,
                               hiloN, hiloL, forz, sem, grado, hiloM, muertas, riesgos>>
  <2>1. CASE RecibirRespuesta(c)
    BY <2>1 DEF RecibirRespuesta, TerminarInstruccion, listas
  <2>2. CASE EjecutarInstruccion(c)
    <3>1. ~caido
      BY <2>2 DEF EjecutarInstruccion
    <3>2. \/ Ejecutar(c) /\ UNCHANGED nuevas
          \/ TerminarInstruccion(c, "continuar")
          \/ TerminarInstruccion(c, "P13")
      BY <2>2 DEF EjecutarInstruccion
    <3> QED
      BY <3>1, <3>2 DEF Ejecutar, TerminarInstruccion, listas, nuevas
  <2> QED
    BY <2>1, <2>2
<1> QED
  BY <1>1, SinMoverNada, MoverEnSelect

(* The Kernel follows NULL: only what is said of any state remains. *)
LEMMA SeCae ==
  ASSUME FInv, caido', UNCHANGED <<listos, forz, muertas>>, sem'.listos = sem.listos,
         riesgos \subseteq riesgos'
  PROVE  FInv' /\ Quedan
BY DEF FInv, FichasListos, EnVuelta, Quedan

-----------------------------------------------------------------------------
(* The slots, when a process takes one, leaves it or is rejected *)

LEMMA RanurasIguales ==
  ASSUME Tipos, Tipos', Ranuras, Saldo' = Saldo, rechazados' = rechazados,
         \A p \in Pids : Ocupa(p)' <=> Ocupa(p)
  PROVE  Ranuras'
<1>1. /\ Cardinality(Ocupan') = Cardinality(Ocupan) /\ Cardinality(Ocupan) \in Nat
      /\ Cardinality(rechazados) \in Nat
  BY CuantosOcupan
<1> QED
  BY <1>1 DEF Ranuras

LEMMA RanurasMenos ==
  ASSUME Tipos, Tipos', Ranuras, Saldo' = Saldo - 1, rechazados' = rechazados,
         NEW x \in Pids, ~Ocupa(x), \A p \in Pids : Ocupa(p)' <=> Ocupa(p) \/ p = x
  PROVE  Ranuras'
<1>1. /\ Cardinality(Ocupan') = Cardinality(Ocupan) + 1 /\ Cardinality(Ocupan) \in Nat
      /\ Cardinality(rechazados) \in Nat
  BY CuantosOcupan
<1>2. Saldo \in Int
  BY SaldoTipo
<1> QED
  BY <1>1, <1>2 DEF Ranuras

LEMMA RanurasMas ==
  ASSUME Tipos, Tipos', Ranuras, Saldo' = Saldo + 1, rechazados' = rechazados,
         NEW x \in Pids, Ocupa(x), \A p \in Pids : Ocupa(p)' <=> Ocupa(p) /\ p # x
  PROVE  Ranuras'
<1>1. /\ Cardinality(Ocupan') = Cardinality(Ocupan) - 1 /\ Cardinality(Ocupan) \in Nat
      /\ Cardinality(rechazados) \in Nat
  BY CuantosOcupan
<1>2. Saldo \in Int
  BY SaldoTipo
<1> QED
  BY <1>1, <1>2 DEF Ranuras

LEMMA RanurasRechazo ==
  ASSUME Tipos, Tipos', Ranuras, Saldo' = Saldo,
         NEW x \in Pids, Ocupa(x), \A p \in Pids : Ocupa(p)' <=> Ocupa(p) /\ p # x,
         x \notin rechazados, rechazados' = rechazados \cup {x}
  PROVE  Ranuras'
<1>1. /\ Cardinality(Ocupan') = Cardinality(Ocupan) - 1 /\ Cardinality(Ocupan) \in Nat
      /\ Cardinality(rechazados) \in Nat
  BY CuantosOcupan
<1>2. Cardinality(rechazados') = Cardinality(rechazados) + 1
  BY OcupanSon, FS_AddElement
<1>3. Saldo \in Int
  BY SaldoTipo
<1> QED
  BY <1>1, <1>2, <1>3 DEF Ranuras

LEMMA SaldoDeFichas ==
  ASSUME Tipos, sem' \in [SemHilos -> Nat], UNCHANGED grado
  PROVE  /\ Saldo \in Int /\ sem.grado \in Nat /\ sem'.grado \in Nat
         /\ Saldo' = Saldo + (sem'.grado - sem.grado)
         /\ sem'.grado = sem.grado => Saldo' = Saldo
<1>1. sem'.grado \in Nat
  BY DEF SemHilos
<1>2. Debe' = Debe
  BY DEF Debe
<1>3. Saldo' = sem'.grado + Debe
  BY <1>2 DEF Saldo
<1> QED
  BY <1>1, <1>3, SaldoTipo

(* A process that has only changed place. *)
LEMMA CambiaDeLugar ==
  ASSUME FInv, ~caido, Tipos', Victima', UnSitio', FichasListos',
         rechazados' = rechazados, grado' = grado, sem'.grado = sem.grado,
         \A p \in Pids : (Dentro(p)' <=> Dentro(p)) /\ (Ocupa(p)' <=> Ocupa(p))
  PROVE  FInv' /\ Quedan
<1>1. Tipos /\ Numerados /\ Ranuras
  BY DEF FInv, Vivo
<1>2. Numerados' /\ Quedan
  BY <1>1, SiguenNumerados
<1>3. sem' \in [SemHilos -> Nat]
  BY DEF Tipos
<1>4. Saldo' = Saldo
  BY <1>1, <1>3, SaldoDeFichas
<1>5. Ranuras'
  BY <1>1, <1>4, RanurasIguales
<1> QED
  BY <1>2, <1>5 DEF FInv, Vivo

-----------------------------------------------------------------------------
(* Steps of the threads that move a process *)

LEMMA SigueCargarNuevo == FInv /\ CargarNuevo => FInv' /\ Quedan
<1> SUFFICES ASSUME FInv, CargarNuevo PROVE FInv' /\ Quedan
  OBVIOUS
<1>1. riesgos \subseteq riesgos' /\ UNCHANGED <<forz, muertas, grado, rechazados>>
  BY DEF CargarNuevo, Cruce, entorno
<1>2. CASE ~(nuevos # <<>> /\ PedirMemoria)
  <2>1. caido' /\ UNCHANGED <<listos, sem>>
    BY <1>2 DEF CargarNuevo, listas
  <2> QED
    BY <1>1, <2>1, SeCae
<1>3. CASE nuevos # <<>> /\ PedirMemoria
  <2> DEFINE x == Head(nuevos)
  <2>1. /\ ~caido /\ hiloN = Nadie /\ sem.nuevos > 0 /\ sem.grado > 0
        /\ sem' = Esperar(sem, {"nuevos", "grado"})
        /\ hiloN' = x /\ nuevos' = Tail(nuevos)
        /\ UNCHANGED <<listos, ejecutando, bloqueados, finalizados, hiloL, hiloM, caido>>
    BY <1>3 DEF PedirMemoria
  <2>2. Tipos /\ Victima /\ UnSitio /\ Numerados /\ Ranuras /\ FichasListos
    BY <2>1 DEF FInv, Vivo
  <2>3. sem \in [SemHilos -> Nat] /\ nuevos \in Seq(Pids) /\ IsInjective(nuevos)
    BY <2>2 DEF Tipos, UnSitio
  <2>4. /\ x \in Pids /\ x \in ToSet(nuevos) /\ nuevos' \in Seq(Pids)
        /\ IsInjective(nuevos') /\ ToSet(nuevos') = ToSet(nuevos) \ {x}
    BY <1>3, <2>1, <2>3, SinPrimero
  <2> HIDE DEF x
  <2>5. sem' \in [SemHilos -> Nat]
    BY <2>1, <2>3, FichasTipo
  <2>6. sem'.listos = sem.listos /\ sem'.grado = sem.grado - 1
    BY <2>1, <2>3, FichasTipo DEF SemHilos
  <2>7. Tipos'
    BY <1>1, <2>1, <2>2, <2>4, <2>5 DEF Tipos
  <2>8. forz.quien # "N"
    BY <2>1, <2>2, NadieAparte DEF Victima
  <2>9. Victima'
    BY <1>1, <2>1, <2>2, <2>8 DEF Victima, Rotando
  <2>10. UnSitio'
    BY <1>1, <2>1, <2>2, <2>4, NadieAparte DEF UnSitio, Apartes
  <2>11. \A p \in Pids : (Dentro(p)' <=> Dentro(p)) /\ (Ocupa(p)' <=> Ocupa(p) \/ p = x)
    BY <1>1, <2>1, <2>4, NadieAparte DEF Dentro, Ocupa
  <2>12. ~Ocupa(x)
    BY <2>2, <2>4 DEF UnSitio, Apartes, Ocupa
  <2>13. Numerados' /\ Quedan
    BY <2>2, <2>7, <2>11, SiguenNumerados
  <2>14. Saldo' = Saldo - 1
    BY <1>1, <2>2, <2>5, <2>6, SaldoDeFichas
  <2>15. Ranuras'
    BY <1>1, <2>2, <2>4, <2>7, <2>11, <2>12, <2>14, RanurasMenos
  <2>16. FichasListos'
    BY <1>1, <2>1, <2>2, <2>6 DEF FichasListos, EnVuelta
  <2> QED
    BY <2>7, <2>9, <2>10, <2>13, <2>15, <2>16 DEF FInv, Vivo
<1> QED
  BY <1>2, <1>3

LEMMA SigueIniciarPrograma == FInv /\ IniciarPrograma => FInv' /\ Quedan
<1> SUFFICES ASSUME FInv, IniciarPrograma PROVE FInv' /\ Quedan
  OBVIOUS
<1> DEFINE x == Cardinality(Entrados) + 1
<1>1. /\ ~caido /\ x \in Pids /\ nuevos' = Append(nuevos, x)
      /\ sem' = Postear(sem, {"nuevos"}) /\ riesgos \subseteq riesgos'
      /\ UNCHANGED <<listos, ejecutando, bloqueados, finalizados, hiloN, hiloL, hiloM, caido,
                     forz, muertas, grado, rechazados>>
  BY DEF IniciarPrograma, Cruce, entorno
<1>2. Tipos /\ Victima /\ UnSitio /\ Numerados /\ Ranuras /\ FichasListos
  BY <1>1 DEF FInv, Vivo
<1>3. Cardinality(Entrados) \in Nat /\ Entrados = 1 .. Cardinality(Entrados)
  BY <1>2, EntradosSon DEF Numerados
<1>4. x \notin Entrados /\ Entrados \cup {x} = 1 .. x /\ x = Cardinality(Entrados) + 1
  BY <1>3
<1> HIDE DEF x
<1>5. ~Dentro(x)
  BY <1>1, <1>2, <1>4, EntradosSon
<1>6. sem \in [SemHilos -> Nat] /\ nuevos \in Seq(Pids) /\ IsInjective(nuevos)
  BY <1>2 DEF Tipos, UnSitio
<1>7. /\ nuevos' \in Seq(Pids) /\ ToSet(nuevos') = ToSet(nuevos) \cup {x} /\ IsInjective(nuevos')
  <2>1. x \notin ToSet(nuevos)
    BY <1>5 DEF Dentro
  <2> QED
    BY <1>1, <1>6, <2>1, AlFinal
<1>8. sem' \in [SemHilos -> Nat]
  BY <1>1, <1>6, FichasTipo
<1>9. sem'.listos = sem.listos /\ sem'.grado = sem.grado
  BY <1>1, <1>6, FichasTipo DEF SemHilos
<1>10. Tipos'
  BY <1>1, <1>2, <1>7, <1>8 DEF Tipos
<1>11. Victima'
  BY <1>1, <1>2 DEF Victima, Rotando
<1>12. UnSitio'
  BY <1>1, <1>2, <1>5, <1>7 DEF UnSitio, Apartes, Dentro
<1>13. \A p \in Pids : (Dentro(p)' <=> Dentro(p) \/ p = x) /\ (Ocupa(p)' <=> Ocupa(p))
  BY <1>1, <1>7 DEF Dentro, Ocupa
<1>14. Numerados' /\ Quedan
  <2>1. Tipos' => (/\ Entrados \subseteq Pids /\ IsFiniteSet(Entrados)
                   /\ Cardinality(Entrados) \in Nat
                   /\ \A p \in Pids : p \in Entrados <=> Dentro(p))'
    BY EntradosSon, PTL
  <2>2. Entrados' \subseteq Pids /\ \A p \in Pids : p \in Entrados' <=> Dentro(p)'
    BY <1>10, <2>1
  <2>3. /\ Entrados \subseteq Pids /\ IsFiniteSet(Entrados)
        /\ \A p \in Pids : p \in Entrados <=> Dentro(p)
    BY <1>2, EntradosSon
  <2>4. Entrados' = Entrados \cup {x}
    BY <1>1, <1>13, <2>2, <2>3
  <2>5. Cardinality(Entrados') = x
    BY <1>4, <2>3, <2>4, FS_AddElement
  <2> QED
    BY <1>4, <2>4, <2>5 DEF Numerados, Quedan
<1>15. Saldo' = Saldo
  BY <1>1, <1>2, <1>8, <1>9, SaldoDeFichas
<1>16. Ranuras'
  BY <1>1, <1>2, <1>10, <1>13, <1>15, RanurasIguales
<1>17. FichasListos'
  BY <1>1, <1>2, <1>9 DEF FichasListos, EnVuelta
<1> QED
  BY <1>10, <1>11, <1>12, <1>14, <1>16, <1>17 DEF FInv, Vivo
(* Who stops running, waiting or being loaded gets to the end of cola_listos *)
(* with a token, or nobody does and a NULL takes its place.                 *)
LEMMA PasaAListos ==
  ASSUME FInv, ~caido, NEW x \in Pids \cup {Nadie},
         x = Nadie \/ x \in ejecutando \/ x \in bloqueados \/ (x = hiloN /\ forz.quien # "N"),
         listos' = Append(listos, x),
         ejecutando' = ejecutando \ {x}, bloqueados' = bloqueados \ {x},
         hiloN' = IF hiloN = x THEN Nadie ELSE hiloN,
         UNCHANGED <<nuevos, finalizados, rechazados, hiloL, forz, grado, muertas>>,
         riesgos \subseteq riesgos',
         sem' \in [SemHilos -> Nat], sem'.grado = sem.grado,
         sem'.listos = sem.listos + 1 \/ "cpu" \in riesgos',
         forz.quien = "M" => hiloM'.pc = "C02"
  PROVE  FInv' /\ Quedan
<1>1. Tipos /\ Victima /\ UnSitio /\ FichasListos
  BY DEF FInv, Vivo
<1>2. /\ listos \in Seq(Pids \cup {Nadie}) /\ SinRepetidos(listos)
      /\ ejecutando \subseteq Pids /\ bloqueados \subseteq Pids
  BY <1>1 DEF Tipos, UnSitio
<1>3. x # Nadie => x \notin ToSet(listos) /\ x \in Pids
  BY <1>1, NadieAparte DEF UnSitio, Apartes
<1>4. /\ listos' \in Seq(Pids \cup {Nadie}) /\ Len(listos') = Len(listos) + 1
      /\ \A p \in Pids : p \in ToSet(listos') <=> p \in ToSet(listos) \/ p = x
      /\ SinRepetidos(listos')
  BY <1>2, <1>3, ListosAlFinal
<1>5. Tipos'
  BY <1>1, <1>4 DEF Tipos
<1>6. Victima'
  <2>1. forz.quien = "N" => hiloN' = hiloN
    BY <1>1, <1>2, NadieAparte DEF UnSitio, Apartes
  <2> QED
    BY <1>1, <2>1 DEF Victima, Rotando
<1>7. UnSitio'
  BY <1>1, <1>3, <1>4, NadieAparte DEF UnSitio, Apartes
<1>8. \A p \in Pids : (Dentro(p)' <=> Dentro(p)) /\ (Ocupa(p)' <=> Ocupa(p))
  BY <1>3, <1>4, NadieAparte DEF Dentro, Ocupa
<1>9. FichasListos'
  <2>1. sem.listos \in Nat
    BY <1>1 DEF Tipos, SemHilos
  <2>2. Len(listos) \in Nat /\ EnVuelta' = EnVuelta /\ EnVuelta \in Nat
    BY <1>2, LenProperties DEF EnVuelta
  <2> QED
    BY <1>1, <1>4, <2>1, <2>2 DEF FichasListos
<1> QED
  BY <1>5, <1>6, <1>7, <1>8, <1>9, CambiaDeLugar

LEMMA SigueAdmitirNuevo == FInv /\ AdmitirNuevo => FInv' /\ Quedan
<1> SUFFICES ASSUME FInv, AdmitirNuevo PROVE FInv' /\ Quedan
  OBVIOUS
<1>1. /\ ~caido /\ forz.quien # "N" /\ hiloN # Nadie /\ hiloN' = Nadie
      /\ listos' = Append(listos, hiloN) /\ sem' = Postear(sem, {"listos"})
      /\ riesgos \subseteq riesgos'
      /\ UNCHANGED <<nuevos, ejecutando, bloqueados, finalizados, rechazados, hiloL, hiloM, forz,
                     grado, muertas>>
  BY DEF AdmitirNuevo, AgregarNuevaProg, Cruce, entorno
<1>2. sem \in [SemHilos -> Nat] /\ hiloN \in Pids /\ UnSitio
  BY <1>1 DEF FInv, Vivo, Tipos
<1>3. hiloN \notin ejecutando /\ hiloN \notin bloqueados
  BY <1>2 DEF UnSitio, Apartes
<1>4. sem' \in [SemHilos -> Nat]
  BY <1>1, <1>2, FichasTipo
<1>5. sem'.listos = sem.listos + 1 /\ sem'.grado = sem.grado
  BY <1>1, <1>2, FichasTipo DEF SemHilos
<1> QED
  BY <1>1, <1>2, <1>3, <1>4, <1>5, PasaAListos, MoverEnSelect

LEMMA SigueFinalizarQuantum == FInv /\ FinalizarQuantum /\ UNCHANGED nuevas => FInv' /\ Quedan
<1> SUFFICES ASSUME FInv, FinalizarQuantum, UNCHANGED nuevas PROVE FInv' /\ Quedan
  OBVIOUS
<1> DEFINE x == Sacado
<1>1. /\ ~caido /\ hiloM.pc = "P12" /\ x = IF hiloM.pid \in ejecutando THEN hiloM.pid ELSE Nadie
      /\ ejecutando' = ejecutando \ {hiloM.pid}
      /\ listos' = Append(listos, x) /\ sem' = Postear(sem, {"listos", "cpus"})
      /\ UNCHANGED <<nuevos, bloqueados, finalizados, rechazados, hiloN, hiloL, forz,
                     grado, muertas, riesgos>>
  BY DEF FinalizarQuantum, Sacado, nuevas
<1> HIDE DEF x
<1>2. sem \in [SemHilos -> Nat] /\ ejecutando \subseteq Pids /\ bloqueados \subseteq Pids /\ UnSitio
  BY <1>1 DEF FInv, Vivo, Tipos
<1>3. sem' \in [SemHilos -> Nat]
  BY <1>1, <1>2, FichasTipo
<1>4. sem'.listos = sem.listos + 1 /\ sem'.grado = sem.grado
  BY <1>1, <1>2, FichasTipo DEF SemHilos
<1>5. /\ x \in Pids \cup {Nadie} /\ (x = Nadie \/ x \in ejecutando)
      /\ ejecutando' = ejecutando \ {x} /\ bloqueados' = bloqueados \ {x}
      /\ hiloN' = IF hiloN = x THEN Nadie ELSE hiloN
  BY <1>1, <1>2, NadieAparte DEF UnSitio, Apartes
<1>6. forz.quien # "M"
  BY <1>1, MoverEnSelect
<1> QED
  BY <1>1, <1>3, <1>4, <1>5, <1>6, PasaAListos

(* P12, P13, P14 and P15, from CPUs the Kernel knows *)
LEMMA SigueAtenderMensaje == ASSUME FInv, NEW c \in Cpus, AtenderMensaje(c) PROVE FInv' /\ Quedan
<1>1. UNCHANGED <<forz, grado, rechazados, muertas, riesgos>>
  BY DEF AtenderMensaje, nuevas
<1>2. CASE P12(c) \/ P13(c) \/ P14(c)
  <2>1. /\ ~caido /\ hiloM = EnSelect
        /\ UNCHANGED <<nuevos, listos, ejecutando, bloqueados, finalizados, hiloN, hiloL, sem>>
    BY <1>2 DEF P12, P13, P14, DevuelvePcb, Mensaje, listas
  <2> QED
    BY <1>1, <2>1, SinMoverNada, MoverEnSelect
<1>3. CASE P15(c)
  <2> DEFINE s == bandeja[c].sem
             p == IF cola[s] = <<>> THEN Nadie ELSE Head(cola[s])
  <2>1. /\ ~caido /\ hiloM = EnSelect
        /\ UNCHANGED <<nuevos, ejecutando, finalizados, hiloN, hiloL, hiloM>>
        /\ \/ UNCHANGED <<bloqueados, listos, sem>>
           \/ caido' /\ UNCHANGED <<bloqueados, listos, sem>>
           \/ /\ p \in bloqueados /\ bloqueados' = bloqueados \ {p}
              /\ listos' = Append(listos, p) /\ sem' = Postear(sem, {"listos"})
    BY <1>3 DEF P15, Mensaje
  <2> HIDE DEF p
  <2>2. CASE UNCHANGED <<bloqueados, listos, sem>>
    BY <1>1, <2>1, <2>2, SinMoverNada, MoverEnSelect
  <2>3. CASE /\ p \in bloqueados /\ bloqueados' = bloqueados \ {p}
             /\ listos' = Append(listos, p) /\ sem' = Postear(sem, {"listos"})
    <3>1. sem \in [SemHilos -> Nat] /\ bloqueados \subseteq Pids /\ UnSitio
      BY <2>1 DEF FInv, Vivo, Tipos
    <3>2. sem' \in [SemHilos -> Nat]
      BY <2>3, <3>1, FichasTipo
    <3>3. sem'.listos = sem.listos + 1 /\ sem'.grado = sem.grado
      BY <2>3, <3>1, FichasTipo DEF SemHilos
    <3>4. /\ p \in Pids /\ ejecutando' = ejecutando \ {p}
          /\ hiloN' = IF hiloN = p THEN Nadie ELSE hiloN
      BY <2>1, <2>3, <3>1 DEF UnSitio, Apartes
    <3>5. forz.quien # "M"
      BY <2>1, MoverEnSelect
    <3> QED
      BY <1>1, <2>1, <2>3, <3>2, <3>3, <3>4, <3>5, PasaAListos
  <2> QED
    BY <2>1, <2>2, <2>3
<1>4. CASE ~AtenderCpu(c)
  <2>1. caido' /\ UNCHANGED <<listos, sem>>
    BY <1>4 DEF AtenderMensaje, listas
  <2> QED
    BY <1>1, <2>1, SeCae
<1> QED
  BY <1>2, <1>3, <1>4 DEF AtenderCpu
LEMMA SigueEnviarPcb == FInv /\ EnviarPcb => FInv' /\ Quedan
<1> SUFFICES ASSUME FInv, EnviarPcb PROVE FInv' /\ Quedan
  OBVIOUS
<1> DEFINE x == IF listos = <<>> THEN Nadie ELSE Head(listos)
           resto == IF listos = <<>> THEN listos ELSE Tail(listos)
<1>1. /\ ~caido /\ hiloL = SinDespacho /\ sem.listos > 0 /\ sem.cpus > 0
      /\ listos' = resto
      /\ riesgos \subseteq riesgos' /\ (Rotando => "cruce" \in riesgos')
      /\ UNCHANGED <<nuevos, ejecutando, bloqueados, finalizados, rechazados, hiloN, hiloM, forz,
                     grado, muertas>>
      /\ \/ x = Nadie /\ sem' = Esperar(sem, {"listos"}) /\ UNCHANGED hiloL
         \/ x # Nadie /\ sem' = Esperar(sem, {"listos", "cpus"}) /\ caido'
         \/ x # Nadie /\ sem' = Esperar(sem, {"listos", "cpus"}) /\ hiloL'.pid = x
  BY DEF EnviarPcb, Despachar
<1>2. Tipos /\ Victima /\ UnSitio /\ FichasListos
  BY <1>1 DEF FInv, Vivo
<1>3. listos \in Seq(Pids \cup {Nadie}) /\ SinRepetidos(listos) /\ sem \in [SemHilos -> Nat]
  BY <1>2 DEF Tipos, UnSitio
<1>4. /\ resto \in Seq(Pids \cup {Nadie}) /\ Len(resto) \in Nat /\ Len(listos) \in Nat
      /\ Len(resto) = Len(listos) - 1 \/ Len(resto) = 0
      /\ SinRepetidos(resto) /\ x \in Pids \cup {Nadie} /\ (x # Nadie => x \in ToSet(listos))
      /\ \A p \in Pids : p \in ToSet(resto) <=> p \in ToSet(listos) /\ p # x
  <2>1. CASE listos = <<>>
    <3>1. \A p : p \notin ToSet(listos)
      BY <2>1 DEF ToSet
    <3> QED
      BY <1>3, <2>1, <3>1
  <2>2. CASE listos # <<>>
    BY <1>3, <2>2, ListosPrimero, LenProperties
  <2> QED
    BY <2>1, <2>2
<1> HIDE DEF x, resto
<1>5. sem' \in [SemHilos -> Nat]
  <2>1. sem \in [SemHilos -> Nat] /\ sem.listos > 0 /\ sem.cpus > 0
    BY <1>1, <1>3
  <2>2. CASE sem' = Esperar(sem, {"listos"})
    BY <2>1, <2>2, FichasTipo
  <2>3. CASE sem' = Esperar(sem, {"listos", "cpus"})
    BY <2>1, <2>3, FichasTipo
  <2> QED
    BY <1>1, <2>2, <2>3
<1>6. sem'.listos = sem.listos - 1 /\ sem'.grado = sem.grado /\ sem.listos \in Nat
  <2>1. sem' = Esperar(sem, {"listos"}) \/ sem' = Esperar(sem, {"listos", "cpus"})
    BY <1>1
  <2> QED
    BY <1>3, <2>1, FichasTipo DEF SemHilos
<1>7. FichasListos'
  <2>1. EnVuelta' = EnVuelta /\ EnVuelta \in Nat /\ (~Rotando => EnVuelta = 0)
    BY <1>1 DEF EnVuelta, Rotando
  <2> QED
    BY <1>1, <1>2, <1>4, <1>6, <2>1 DEF FichasListos
<1>8. CASE x = Nadie /\ UNCHANGED hiloL
  <2>1. Tipos'
    BY <1>1, <1>2, <1>4, <1>5, <1>8 DEF Tipos
  <2>2. Victima'
    BY <1>1, <1>2 DEF Victima, Rotando
  <2>3. UnSitio'
    BY <1>1, <1>2, <1>4, <1>8 DEF UnSitio, Apartes
  <2>4. \A p \in Pids : (Dentro(p)' <=> Dentro(p)) /\ (Ocupa(p)' <=> Ocupa(p))
    BY <1>1, <1>4, <1>8, NadieAparte DEF Dentro, Ocupa
  <2> QED
    BY <1>1, <1>6, <1>7, <2>1, <2>2, <2>3, <2>4, CambiaDeLugar
<1>9. CASE caido'
  BY <1>7, <1>9 DEF FInv, Quedan
<1>10. CASE x # Nadie /\ hiloL'.pid = x
  <2>1. x \in Pids /\ x \in ToSet(listos)
    BY <1>4, <1>10
  <2>2. hiloL.pid = Nadie
    BY <1>1 DEF SinDespacho
  <2>3. Tipos'
    BY <1>1, <1>2, <1>4, <1>5, <1>10, <2>1 DEF Tipos
  <2>4. Victima'
    BY <1>1, <1>2 DEF Victima, Rotando
  <2>5. UnSitio'
    BY <1>1, <1>2, <1>4, <1>10, <2>1, <2>2, NadieAparte DEF UnSitio, Apartes
  <2>6. \A p \in Pids : (Dentro(p)' <=> Dentro(p)) /\ (Ocupa(p)' <=> Ocupa(p))
    BY <1>1, <1>4, <1>10, <2>1, <2>2, NadieAparte DEF Dentro, Ocupa
  <2> QED
    BY <1>1, <1>6, <1>7, <2>3, <2>4, <2>5, <2>6, CambiaDeLugar
<1> QED
  BY <1>1, <1>8, <1>9, <1>10

(* What is in the hands of hiloL is a process. *)
LEMMA EnManosDeL ==
  Tipos /\ hiloL # SinDespacho => hiloL.pid \in Pids /\ SinDespacho.pid = Nadie
BY DEF Tipos, SinDespacho

LEMMA SigueAnotarEnvio == FInv /\ AnotarEnvio => FInv' /\ Quedan
<1> SUFFICES ASSUME FInv, AnotarEnvio PROVE FInv' /\ Quedan
  OBVIOUS
<1> DEFINE x == hiloL.pid
<1>1. /\ ~caido /\ hiloL # SinDespacho /\ hiloL' = SinDespacho
      /\ ejecutando' = ejecutando \cup {x} /\ riesgos \subseteq riesgos'
      /\ UNCHANGED <<nuevos, listos, bloqueados, finalizados, rechazados, hiloN, hiloM, forz,
                     grado, muertas, sem>>
  BY DEF AnotarEnvio, AnotarDespacho, Cruce, entorno
<1>2. Tipos /\ Victima /\ UnSitio /\ FichasListos
  BY <1>1 DEF FInv, Vivo
<1>3. x \in Pids /\ hiloL'.pid = Nadie
  BY <1>1, <1>2, EnManosDeL
<1>4. Tipos'
  BY <1>1, <1>2, <1>3 DEF Tipos
<1>5. Victima'
  BY <1>1, <1>2 DEF Victima, Rotando
<1>6. UnSitio'
  BY <1>1, <1>2, <1>3, NadieAparte DEF UnSitio, Apartes
<1>7. \A p \in Pids : (Dentro(p)' <=> Dentro(p)) /\ (Ocupa(p)' <=> Ocupa(p))
  BY <1>1, <1>3, NadieAparte DEF Dentro, Ocupa
<1>8. FichasListos'
  BY <1>1, <1>2 DEF FichasListos, EnVuelta
<1> QED
  BY <1>1, <1>4, <1>5, <1>6, <1>7, <1>8, CambiaDeLugar

LEMMA SigueEnvioFallo == FInv /\ EnvioFallo => FInv' /\ Quedan
<1> SUFFICES ASSUME FInv, EnvioFallo PROVE FInv' /\ Quedan
  OBVIOUS
<1> DEFINE x == hiloL.pid
<1>1. /\ ~caido /\ hiloL # SinDespacho /\ hiloL' = SinDespacho
      /\ listos' = <<x>> \o listos /\ sem' = Postear(sem, {"listos"})
      /\ riesgos' = riesgos \cup {"cpu"}
      /\ UNCHANGED <<nuevos, ejecutando, bloqueados, finalizados, rechazados, hiloN, hiloM, forz,
                     grado, muertas>>
  BY DEF EnvioFallo
<1>2. Tipos /\ Victima /\ UnSitio
  BY <1>1 DEF FInv, Vivo
<1>3. x \in Pids /\ hiloL'.pid = Nadie
  BY <1>1, <1>2, EnManosDeL
<1>4. /\ listos \in Seq(Pids \cup {Nadie}) /\ SinRepetidos(listos) /\ sem \in [SemHilos -> Nat]
      /\ x \notin ToSet(listos)
  BY <1>2, <1>3 DEF Tipos, UnSitio, Apartes
<1> HIDE DEF x
<1>5. /\ listos' \in Seq(Pids \cup {Nadie})
      /\ \A p \in Pids : p \in ToSet(listos') <=> p \in ToSet(listos) \/ p = x
      /\ SinRepetidos(listos')
  BY <1>1, <1>3, <1>4, ListosAdelante
<1>6. sem' \in [SemHilos -> Nat]
  BY <1>1, <1>4, FichasTipo
<1>7. sem'.grado = sem.grado
  BY <1>1, <1>4, FichasTipo DEF SemHilos
<1>8. Tipos'
  BY <1>1, <1>2, <1>5, <1>6 DEF Tipos
<1>9. Victima'
  BY <1>1, <1>2 DEF Victima, Rotando
<1>10. UnSitio'
  BY <1>1, <1>2, <1>3, <1>5, NadieAparte DEF UnSitio, Apartes, x
<1>11. \A p \in Pids : (Dentro(p)' <=> Dentro(p)) /\ (Ocupa(p)' <=> Ocupa(p))
  BY <1>1, <1>3, <1>5, NadieAparte DEF Dentro, Ocupa, x
<1>12. FichasListos'
  BY <1>1 DEF FichasListos
<1> QED
  BY <1>1, <1>7, <1>8, <1>9, <1>10, <1>11, <1>12, CambiaDeLugar

LEMMA SigueFinalizarProceso == FInv /\ FinalizarProceso /\ UNCHANGED nuevas => FInv' /\ Quedan
<1> SUFFICES ASSUME FInv, FinalizarProceso, UNCHANGED nuevas PROVE FInv' /\ Quedan
  OBVIOUS
<1> DEFINE x == hiloM.pid
<1>1. /\ ~caido /\ hiloM.pc = "P13"
      /\ UNCHANGED <<nuevos, listos, bloqueados, rechazados, hiloN, hiloL, forz, grado, muertas,
                     riesgos>>
      /\ \/ caido' /\ UNCHANGED sem
         \/ /\ x \in ejecutando /\ ejecutando' = ejecutando \ {x}
            /\ finalizados' = finalizados \cup {x} /\ sem' = Postear(sem, {"cpus", "grado"})
  BY DEF FinalizarProceso, Sacado, nuevas
<1>2. Tipos /\ Victima /\ UnSitio /\ Numerados /\ Ranuras /\ FichasListos
  BY <1>1 DEF FInv, Vivo
<1>3. CASE caido' /\ UNCHANGED sem
  BY <1>1, <1>3, SeCae
<1>4. CASE /\ x \in ejecutando /\ ejecutando' = ejecutando \ {x}
           /\ finalizados' = finalizados \cup {x} /\ sem' = Postear(sem, {"cpus", "grado"})
  <2>1. x \in Pids /\ sem \in [SemHilos -> Nat]
    BY <1>2, <1>4 DEF Tipos
  <2> HIDE DEF x
  <2>2. sem' \in [SemHilos -> Nat]
    BY <1>4, <2>1, FichasTipo
  <2>3. sem'.listos = sem.listos /\ sem'.grado = sem.grado + 1
    BY <1>4, <2>1, FichasTipo DEF SemHilos
  <2>4. Tipos'
    BY <1>1, <1>2, <1>4, <2>1, <2>2 DEF Tipos
  <2>5. forz.quien # "M"
    BY <1>1, MoverEnSelect
  <2>6. Victima'
    BY <1>1, <1>2, <2>5 DEF Victima, Rotando
  <2>7. UnSitio'
    BY <1>1, <1>2, <1>4, <2>1 DEF UnSitio, Apartes
  <2>8. \A p \in Pids : (Dentro(p)' <=> Dentro(p)) /\ (Ocupa(p)' <=> Ocupa(p) /\ p # x)
    BY <1>1, <1>2, <1>4, <2>1 DEF Dentro, Ocupa, UnSitio, Apartes
  <2>9. Ocupa(x)
    BY <1>4 DEF Ocupa
  <2>10. Numerados' /\ Quedan
    BY <1>2, <2>4, <2>8, SiguenNumerados
  <2>11. Saldo' = Saldo + 1
    BY <1>1, <1>2, <2>2, <2>3, SaldoDeFichas
  <2>12. Ranuras'
    BY <1>1, <1>2, <2>1, <2>4, <2>8, <2>9, <2>11, RanurasMas
  <2>13. FichasListos'
    BY <1>1, <1>2, <2>3 DEF FichasListos, EnVuelta
  <2> QED
    BY <2>4, <2>6, <2>7, <2>10, <2>12, <2>13 DEF FInv, Vivo
<1> QED
  BY <1>1, <1>3, <1>4

LEMMA SigueBloquearProceso == FInv /\ BloquearProceso /\ UNCHANGED nuevas => FInv' /\ Quedan
<1> SUFFICES ASSUME FInv, BloquearProceso, UNCHANGED nuevas PROVE FInv' /\ Quedan
  OBVIOUS
<1> DEFINE x == hiloM.pid
<1>1. /\ ~caido /\ hiloM.pc = "K23"
      /\ UNCHANGED <<nuevos, listos, finalizados, rechazados, hiloN, hiloL, forz, grado, muertas,
                     riesgos>>
      /\ \/ caido' /\ UNCHANGED sem
         \/ /\ Sacado # Nadie /\ ejecutando' = ejecutando \ {x}
            /\ bloqueados' = bloqueados \cup {x} /\ sem' = Postear(sem, {"cpus"})
  BY DEF BloquearProceso, nuevas
<1>2. Tipos /\ Victima /\ UnSitio /\ FichasListos
  BY <1>1 DEF FInv, Vivo
<1>3. CASE caido' /\ UNCHANGED sem
  BY <1>1, <1>3, SeCae
<1>4. CASE /\ Sacado # Nadie /\ ejecutando' = ejecutando \ {x}
           /\ bloqueados' = bloqueados \cup {x} /\ sem' = Postear(sem, {"cpus"})
  <2>1. x \in ejecutando
    BY <1>4 DEF Sacado
  <2>2. x \in Pids /\ sem \in [SemHilos -> Nat]
    BY <1>2, <2>1 DEF Tipos
  <2> HIDE DEF x
  <2>3. sem' \in [SemHilos -> Nat]
    BY <1>4, <2>2, FichasTipo
  <2>4. sem'.listos = sem.listos /\ sem'.grado = sem.grado
    BY <1>4, <2>2, FichasTipo DEF SemHilos
  <2>5. Tipos'
    BY <1>1, <1>2, <1>4, <2>2, <2>3 DEF Tipos
  <2>6. forz.quien # "M"
    BY <1>1, MoverEnSelect
  <2>7. Victima'
    BY <1>1, <1>2, <2>6 DEF Victima, Rotando
  <2>8. UnSitio'
    BY <1>1, <1>2, <1>4, <2>1, <2>2 DEF UnSitio, Apartes
  <2>9. \A p \in Pids : (Dentro(p)' <=> Dentro(p)) /\ (Ocupa(p)' <=> Ocupa(p))
    BY <1>1, <1>4, <2>1 DEF Dentro, Ocupa
  <2>10. FichasListos'
    BY <1>1, <1>2, <2>4 DEF FichasListos, EnVuelta
  <2> QED
    BY <1>1, <2>4, <2>5, <2>7, <2>8, <2>9, <2>10, CambiaDeLugar
<1> QED
  BY <1>1, <1>3, <1>4
LEMMA SigueEliminarCpu == ASSUME FInv, NEW c \in Cpus, EliminarCpu(c) PROVE FInv' /\ Quedan
<1> DEFINE x == IF program[c] = Nadie \/ Cid \notin ejecutando THEN Nadie ELSE Cid
<1>1. /\ ~caido /\ hiloM = EnSelect /\ c \in muertas
      /\ \/ UNCHANGED <<ejecutando, listos>>
         \/ ejecutando' = ejecutando \ {Cid} /\ listos' = Append(listos, x)
      /\ UNCHANGED <<nuevos, bloqueados, finalizados, sem, hiloN, hiloL, forz, grado, muertas,
                     rechazados, riesgos>>
  BY DEF EliminarCpu
<1>2. Tipos /\ UnSitio /\ FichasListos
  BY <1>1 DEF FInv, Vivo
<1>3. /\ "cpu" \in riesgos' /\ forz.quien # "M" /\ sem' \in [SemHilos -> Nat]
  BY <1>1, <1>2, MoverEnSelect DEF FichasListos, Tipos
<1>4. CASE UNCHANGED <<ejecutando, listos>>
  BY <1>1, <1>3, <1>4, SinMoverNada
<1>5. CASE ~UNCHANGED <<ejecutando, listos>>
  <2>1. /\ program[c] # Nadie /\ ejecutando' = ejecutando \ {Cid} /\ listos' = Append(listos, x)
    BY <1>1, <1>5 DEF EliminarCpu
  <2>2. x = IF Cid \in ejecutando THEN Cid ELSE Nadie
    BY <2>1
  <2> HIDE DEF x
  <2>3. ejecutando \subseteq Pids /\ bloqueados \subseteq Pids
    BY <1>2 DEF Tipos
  <2>4. /\ x \in Pids \cup {Nadie} /\ (x = Nadie \/ x \in ejecutando)
        /\ ejecutando' = ejecutando \ {x} /\ bloqueados' = bloqueados \ {x}
        /\ hiloN' = IF hiloN = x THEN Nadie ELSE hiloN
    BY <1>1, <1>2, <2>1, <2>2, <2>3, NadieAparte DEF UnSitio, Apartes
  <2> QED
    BY <1>1, <1>3, <2>1, <2>4, PasaAListos
<1> QED
  BY <1>4, <1>5

-----------------------------------------------------------------------------
(* forzar_finalizacion *)

(* It starts: nobody moves, though cola_listos may lose its NULLs. *)
LEMMA EmpiezaForzar ==
  ASSUME FInv, ~caido, NEW p \in Pids, NEW q \in {"M", "N", "consola"},
         forz = SinForzar, Forzar(q, p),
         listos' \in Seq(Pids \cup {Nadie}), SinRepetidos(listos'), Len(listos') <= Len(listos),
         \A r \in Pids : r \in ToSet(listos') <=> r \in ToSet(listos),
         UNCHANGED <<nuevos, ejecutando, bloqueados, finalizados, rechazados, hiloN, hiloL, sem,
                     grado, muertas, riesgos>>,
         q = "N" => hiloN = p, q = "M" => hiloM'.pc = "C02"
  PROVE  FInv' /\ Quedan
<1>1. Tipos /\ UnSitio /\ FichasListos
  BY DEF FInv, Vivo
<1>2. forz' = [pc |-> "listas", quien |-> q, pid |-> p, i |-> 0, mano |-> Nadie,
               preso |-> Nadie, de |-> "", visto |-> FALSE]
  BY DEF Forzar, SinForzar
<1>3. /\ forz.mano = Nadie /\ forz.preso = Nadie /\ forz.pc = "nada"
  BY DEF SinForzar
<1>4. forz' \in Busquedas
  BY <1>2 DEF Busquedas, Pases, Origenes
<1>5. Tipos'
  BY <1>1, <1>4 DEF Tipos
<1>6. Victima'
  BY <1>2 DEF Victima
<1>7. UnSitio'
  BY <1>1, <1>2, <1>3 DEF UnSitio, Apartes
<1>8. \A r \in Pids : (Dentro(r)' <=> Dentro(r)) /\ (Ocupa(r)' <=> Ocupa(r))
  BY <1>2, <1>3, NadieAparte DEF Dentro, Ocupa
<1>9. FichasListos'
  <2>1. sem.listos \in Nat
    BY <1>1 DEF Tipos, SemHilos
  <2>2. Len(listos) \in Nat /\ Len(listos') \in Nat /\ EnVuelta = 0 /\ EnVuelta' = 0
    BY <1>1, <1>2, <1>3, LenProperties DEF EnVuelta, Tipos
  <2> QED
    BY <1>1, <2>1, <2>2 DEF FichasListos
<1> QED
  BY <1>5, <1>6, <1>7, <1>8, <1>9, CambiaDeLugar

LEMMA SigueC02 == ASSUME FInv, NEW p \in Pids, C02(p) PROVE FInv' /\ Quedan
<1>1. /\ ~caido /\ forz = SinForzar /\ Forzar("M", p) /\ hiloM' = [EnSelect EXCEPT !.pc = "C02"]
      /\ UNCHANGED <<nuevos, listos, ejecutando, bloqueados, finalizados, rechazados, hiloN, hiloL,
                     sem, grado, muertas, riesgos>>
  BY DEF C02, Interrumpe, Libre, listas
<1>2. hiloM'.pc = "C02"
  BY <1>1 DEF EnSelect
<1>3. /\ listos' \in Seq(Pids \cup {Nadie}) /\ SinRepetidos(listos') /\ Len(listos') <= Len(listos)
  BY <1>1, LenProperties DEF FInv, Vivo, Tipos, UnSitio
<1> QED
  BY <1>1, <1>2, <1>3, EmpiezaForzar

LEMMA SigueConsola == ASSUME FInv, NEW p \in Pids, FinalizarProcesoConsola(p) PROVE FInv' /\ Quedan
<1>1. /\ ~caido /\ forz = SinForzar /\ Forzar("consola", p) /\ listos' = SinNulos(listos)
      /\ UNCHANGED <<nuevos, ejecutando, bloqueados, finalizados, rechazados, hiloN, hiloL,
                     sem, grado, muertas, riesgos>>
  BY DEF FinalizarProcesoConsola, ExistePid, Interrumpe, Libre
<1>2. listos \in Seq(Pids \cup {Nadie}) /\ SinRepetidos(listos)
  BY <1>1 DEF FInv, Vivo, Tipos, UnSitio
<1>3. /\ listos' \in Seq(Pids) /\ Len(listos') <= Len(listos)
      /\ ToSet(listos') = ToSet(listos) \ {Nadie} /\ IsInjective(listos')
  BY <1>1, <1>2, SinNulosQuita
<1>4. listos' \in Seq(Pids \cup {Nadie})
  BY <1>3
<1>5. SinRepetidos(listos')
  <2>1. DOMAIN listos' = 1 .. Len(listos')
    BY <1>3, LenProperties
  <2> QED
    BY <1>3, <2>1 DEF SinRepetidos, IsInjective
<1>6. \A r \in Pids : r \in ToSet(listos') <=> r \in ToSet(listos)
  BY <1>3, NadieAparte
<1> QED
  BY <1>1, <1>3, <1>4, <1>5, <1>6, EmpiezaForzar

LEMMA SigueRechazar == FInv /\ Rechazar => FInv' /\ Quedan
<1> SUFFICES ASSUME FInv, Rechazar PROVE FInv' /\ Quedan
  OBVIOUS
<1>1. /\ ~caido /\ forz = SinForzar /\ hiloN # Nadie /\ Forzar("N", hiloN)
      /\ UNCHANGED <<nuevos, listos, ejecutando, bloqueados, finalizados, rechazados, hiloN, hiloL,
                     sem, grado, muertas, riesgos>>
  BY DEF Rechazar, Interrumpe, Libre, vars
<1>2. /\ listos' \in Seq(Pids \cup {Nadie}) /\ SinRepetidos(listos') /\ Len(listos') <= Len(listos)
      /\ hiloN \in Pids
  BY <1>1, LenProperties DEF FInv, Vivo, Tipos, UnSitio
<1> QED
  BY <1>1, <1>2, EmpiezaForzar
LEMMA SigueForzarListas == FInv /\ ForzarListas => FInv' /\ Quedan
<1> SUFFICES ASSUME FInv, ForzarListas PROVE FInv' /\ Quedan
  OBVIOUS
<1> DEFINE p == forz.pid
           de == IF p \in ejecutando THEN "ejecutando"
                 ELSE IF p \in bloqueados THEN "bloqueados" ELSE ""
           x == IF de = "" THEN Nadie ELSE p
           v == de # "" \/ p \in ToSet(nuevos) \cup ToSet(listos)
<1>1. /\ ~caido /\ forz.pc = "listas"
      /\ ejecutando' = ejecutando \ {p} /\ bloqueados' = bloqueados \ {p}
      /\ forz' = [forz EXCEPT !.pc = "nuevos", !.de = de, !.preso = x, !.visto = v]
      /\ riesgos \subseteq riesgos'
      /\ UNCHANGED <<nuevos, listos, finalizados, sem, hiloN, hiloL, hiloM, grado, muertas,
                     rechazados>>
  BY DEF ForzarListas, entorno
<1>2. Tipos /\ Victima /\ UnSitio /\ FichasListos
  BY <1>1 DEF FInv, Vivo
<1>3. /\ p \in Pids /\ forz.mano = Nadie /\ forz.preso = Nadie /\ forz.de = ""
      /\ v \in BOOLEAN /\ x \in Pids \cup {Nadie} /\ de \in {"", "ejecutando", "bloqueados"}
  BY <1>1, <1>2 DEF Victima, Rotando
<1>4. /\ de = "" => x = Nadie /\ p \notin ejecutando /\ p \notin bloqueados
      /\ de # "" => x = p /\ (p \in ejecutando \/ p \in bloqueados)
  OBVIOUS
<1> HIDE DEF p, de, x, v
<1>5. /\ forz' = [pc |-> "nuevos", quien |-> forz.quien, pid |-> forz.pid, i |-> forz.i,
                  mano |-> forz.mano, preso |-> x, de |-> de, visto |-> v]
      /\ forz' \in Busquedas
  <2>1. forz \in Busquedas
    BY <1>2 DEF Tipos
  <2>2. forz' = [pc |-> "nuevos", quien |-> forz.quien, pid |-> forz.pid, i |-> forz.i,
                 mano |-> forz.mano, preso |-> x, de |-> de, visto |-> v]
    BY <1>1, <2>1 DEF Busquedas
  <2> QED
    BY <1>3, <2>1, <2>2 DEF Busquedas, Pases, Origenes
<1>6. Tipos'
  BY <1>1, <1>2, <1>5 DEF Tipos
<1>7. Victima'
  BY <1>1, <1>2, <1>3, <1>4, <1>5 DEF Victima, Rotando, p
<1>8. UnSitio'
  <2>1. forz'.preso = x /\ forz'.mano = Nadie
    BY <1>3, <1>5
  <2>2. CASE de = ""
    <3>1. x = Nadie /\ ejecutando' = ejecutando /\ bloqueados' = bloqueados
      BY <1>1, <1>4, <2>2
    <3> QED
      BY <1>1, <1>2, <1>3, <2>1, <3>1, NadieAparte DEF UnSitio
  <2>3. CASE de # ""
    <3>1. x = p /\ (p \in ejecutando \/ p \in bloqueados)
      BY <1>4, <2>3
    <3> QED
      BY <1>1, <1>2, <1>3, <2>1, <3>1, NadieAparte DEF UnSitio, Apartes
  <2> QED
    BY <2>2, <2>3
<1>9. \A r \in Pids : (Dentro(r)' <=> Dentro(r)) /\ (Ocupa(r)' <=> Ocupa(r))
  BY <1>1, <1>3, <1>4, <1>5, NadieAparte DEF Dentro, Ocupa
<1>10. FichasListos'
  <2>1. EnVuelta = 0 /\ EnVuelta' = 0
    BY <1>3, <1>5 DEF EnVuelta
  <2> QED
    BY <1>1, <1>2, <2>1 DEF FichasListos
<1> QED
  BY <1>1, <1>6, <1>7, <1>8, <1>9, <1>10, CambiaDeLugar

(* One round of either rotation: what is taken is sought or kept in hand. *)
LEMMA SigueSacar ==
  ASSUME FInv, NEW q \in {"nuevos", "listos"}, NEW sig \in {"listos", "matar"}, Sacar(q, sig)
  PROVE  FInv' /\ Quedan
<1> DEFINE s == IF q = "nuevos" THEN nuevos ELSE listos
           x == IF s = <<>> THEN Nadie ELSE Head(s)
<1>1. /\ ~caido /\ forz.pc = q /\ forz.mano = Nadie
      /\ riesgos \subseteq riesgos'
      /\ UNCHANGED <<ejecutando, bloqueados, finalizados, sem, hiloN, hiloL, hiloM, grado,
                     muertas, rechazados>>
  BY DEF Sacar, CruceDe, entorno
<1>2. Tipos /\ Victima /\ UnSitio /\ Numerados /\ Ranuras /\ FichasListos
  BY <1>1 DEF FInv, Vivo
<1>3. /\ forz \in Busquedas /\ forz.pid \in Pids /\ forz.i \in Nat /\ forz.i + 1 \in Nat
      /\ nuevos \in Seq(Pids) /\ IsInjective(nuevos)
      /\ listos \in Seq(Pids \cup {Nadie}) /\ SinRepetidos(listos)
  <2>1. forz.i \in Nat /\ forz.i + 1 \in Nat
    <3>1. forz.i \in Nat
      BY <1>2, CamposForzar
    <3> QED
      BY <3>1
  <2>2. forz.pid \in Pids
    BY <1>1, <1>2 DEF Victima
  <2> QED
    BY <1>2, <2>1, <2>2 DEF Tipos, UnSitio
<1>4. Len(listos) \in Nat /\ EnVuelta = 0 /\ sem.listos \in Nat
  BY <1>1, <1>2, <1>3, LenProperties DEF EnVuelta, Tipos, SemHilos
<1>5. CASE VueltaEntera
  <2>1. /\ UNCHANGED <<nuevos, listos>> /\ forz' = [forz EXCEPT !.pc = sig, !.i = 0]
    BY <1>5 DEF Sacar
  <2>2. forz' = [pc |-> sig, quien |-> forz.quien, pid |-> forz.pid, i |-> 0,
                 mano |-> forz.mano, preso |-> forz.preso, de |-> forz.de, visto |-> forz.visto]
    BY <1>3, <2>1 DEF Busquedas
  <2>3. forz' \in Busquedas
    BY <1>3, <2>2 DEF Busquedas, Pases
  <2>4. Tipos'
    BY <1>1, <1>2, <2>1, <2>3 DEF Tipos
  <2>5. Victima'
    BY <1>1, <1>2, <2>2 DEF Victima, Rotando
  <2>6. UnSitio'
    BY <1>1, <1>2, <2>1, <2>2 DEF UnSitio, Apartes
  <2>7. \A r \in Pids : (Dentro(r)' <=> Dentro(r)) /\ (Ocupa(r)' <=> Ocupa(r))
    BY <1>1, <2>1, <2>2, NadieAparte DEF Dentro, Ocupa
  <2>8. FichasListos'
    <3>1. EnVuelta' = 0
      BY <1>1, <2>2 DEF EnVuelta
    <3> QED
      BY <1>1, <1>2, <1>4, <2>1, <3>1 DEF FichasListos
  <2> QED
    BY <1>1, <2>4, <2>5, <2>6, <2>7, <2>8, CambiaDeLugar
<1>6. CASE ~VueltaEntera /\ x = Nadie
  <2>1. caido' /\ forz' = [forz EXCEPT !.mano = x]
        /\ listos' = IF q = "listos" /\ listos # <<>> THEN Tail(listos) ELSE listos
    BY <1>3, <1>6, NadieAparte DEF Sacar
  <2> HIDE DEF x
  <2>2. forz' = forz
    BY <1>1, <1>3, <1>6, <2>1 DEF Busquedas
  <2>3. Len(listos') <= Len(listos) /\ Len(listos') \in Nat
    <3>1. CASE listos = <<>>
      BY <1>4, <2>1, <3>1
    <3>2. CASE listos # <<>>
      <4>1. Tail(listos) \in Seq(Pids \cup {Nadie}) /\ Len(Tail(listos)) = Len(listos) - 1
        BY <1>3, <3>2, ListosPrimero
      <4>2. Len(Tail(listos)) \in Nat
        BY <4>1, LenProperties
      <4> QED
        BY <1>4, <2>1, <4>1, <4>2
    <3> QED
      BY <3>1, <3>2
  <2>4. EnVuelta' = 0
    BY <1>1, <2>2 DEF EnVuelta
  <2>5. FichasListos'
    BY <1>1, <1>2, <1>4, <2>3, <2>4 DEF FichasListos
  <2> QED
    BY <2>1, <2>5 DEF FInv, Quedan
<1>7. CASE ~VueltaEntera /\ x # Nadie
  <2>1. /\ s # <<>> /\ x = Head(s)
        /\ nuevos' = IF q = "nuevos" THEN Tail(nuevos) ELSE nuevos
        /\ listos' = IF q = "listos" THEN Tail(listos) ELSE listos
        /\ forz' = IF x = forz.pid THEN [forz EXCEPT !.i = @ + 1, !.preso = x, !.de = q]
                   ELSE [forz EXCEPT !.mano = x]
    BY <1>7 DEF Sacar
  <2>2. /\ x \in Pids /\ nuevos' \in Seq(Pids) /\ IsInjective(nuevos')
        /\ listos' \in Seq(Pids \cup {Nadie}) /\ SinRepetidos(listos') /\ Len(listos') \in Nat
        /\ q = "nuevos" => /\ x \in ToSet(nuevos) /\ ToSet(nuevos') = ToSet(nuevos) \ {x}
                           /\ listos' = listos
        /\ q = "listos" => /\ x \in ToSet(listos) /\ nuevos' = nuevos
                           /\ Len(listos') = Len(listos) - 1
                           /\ \A r \in Pids : r \in ToSet(listos') <=> r \in ToSet(listos) /\ r # x
    <3>1. CASE q = "nuevos"
      <4>1. nuevos # <<>> /\ x = Head(nuevos) /\ nuevos' = Tail(nuevos) /\ listos' = listos
        BY <2>1, <3>1
      <4> QED
        BY <1>3, <1>4, <3>1, <4>1, SinPrimero
    <3>2. CASE q = "listos"
      <4>1. listos # <<>> /\ x = Head(listos) /\ listos' = Tail(listos) /\ nuevos' = nuevos
        BY <2>1, <3>2
      <4> HIDE DEF x
      <4>2. /\ Tail(listos) \in Seq(Pids \cup {Nadie}) /\ Len(Tail(listos)) = Len(listos) - 1
            /\ x \in Pids \cup {Nadie} /\ x \in ToSet(listos)
            /\ \A p \in Pids : p \in ToSet(Tail(listos)) <=> p \in ToSet(listos) /\ p # x
            /\ SinRepetidos(Tail(listos))
        BY <1>3, <4>1, ListosPrimero
      <4>3. Len(Tail(listos)) \in Nat
        BY <4>2, LenProperties
      <4> QED
        BY <1>3, <1>7, <3>2, <4>1, <4>2, <4>3
    <3> QED
      BY <3>1, <3>2
  <2> HIDE DEF x, s
  <2>3. CASE x = forz.pid
    <3>1. forz.preso = Nadie /\ forz.de = ""
      BY <1>2, <1>3, <2>2, <2>3 DEF Victima, UnSitio, Apartes
    <3>2. PICK j \in Nat : j = forz.i + 1
      BY <1>3
    <3>3. forz' = [pc |-> forz.pc, quien |-> forz.quien, pid |-> forz.pid, i |-> j,
                   mano |-> forz.mano, preso |-> x, de |-> q, visto |-> forz.visto]
      <4>1. forz' = [forz EXCEPT !.i = j, !.preso = x, !.de = q]
        BY <2>1, <2>3, <3>2
      <4> QED
        BY <1>3, <4>1 DEF Busquedas
    <3>4. forz' \in Busquedas
      BY <1>3, <2>2, <3>3 DEF Busquedas, Origenes
    <3>5. Tipos'
      BY <1>1, <1>2, <2>2, <3>4 DEF Tipos
    <3>6. Victima'
      BY <1>1, <1>2, <2>3, <3>3 DEF Victima, Rotando
    <3>7. UnSitio'
      BY <1>1, <1>2, <2>2, <3>1, <3>3, NadieAparte DEF UnSitio, Apartes
    <3>8. \A r \in Pids : (Dentro(r)' <=> Dentro(r)) /\ (Ocupa(r)' <=> Ocupa(r))
      BY <1>1, <2>2, <3>1, <3>3, NadieAparte DEF Dentro, Ocupa
    <3>9. FichasListos'
      <4>1. EnVuelta' = 0
        BY <1>1, <3>3 DEF EnVuelta
      <4>2. Len(listos') <= Len(listos)
        BY <1>4, <2>2
      <4> QED
        BY <1>1, <1>2, <1>4, <2>2, <4>1, <4>2 DEF FichasListos
    <3> QED
      BY <1>1, <3>5, <3>6, <3>7, <3>8, <3>9, CambiaDeLugar
  <2>4. CASE x # forz.pid
    <3>1. forz' = [pc |-> forz.pc, quien |-> forz.quien, pid |-> forz.pid, i |-> forz.i,
                   mano |-> x, preso |-> forz.preso, de |-> forz.de, visto |-> forz.visto]
      BY <1>3, <2>1, <2>4 DEF Busquedas
    <3>2. forz' \in Busquedas
      BY <1>3, <2>2, <3>1 DEF Busquedas
    <3>3. Tipos'
      BY <1>1, <1>2, <2>2, <3>2 DEF Tipos
    <3>4. Victima'
      BY <1>1, <1>2, <3>1 DEF Victima, Rotando
    <3>5. UnSitio'
      BY <1>1, <1>2, <2>2, <3>1, NadieAparte DEF UnSitio, Apartes
    <3>6. \A r \in Pids : (Dentro(r)' <=> Dentro(r)) /\ (Ocupa(r)' <=> Ocupa(r))
      BY <1>1, <2>2, <3>1, NadieAparte DEF Dentro, Ocupa
    <3>7. FichasListos'
      <4>1. EnVuelta' = IF q = "listos" THEN 1 ELSE 0
        BY <1>1, <1>7, <3>1 DEF EnVuelta
      <4>2. Len(listos') + EnVuelta' = Len(listos)
        BY <1>4, <2>2, <4>1
      <4> QED
        BY <1>1, <1>2, <1>4, <2>2, <4>2 DEF FichasListos
    <3> QED
      BY <1>1, <3>3, <3>4, <3>5, <3>6, <3>7, CambiaDeLugar
  <2> QED
    BY <2>3, <2>4
<1> QED
  BY <1>5, <1>6, <1>7

LEMMA SigueDevolver == FInv /\ Devolver => FInv' /\ Quedan
<1> SUFFICES ASSUME FInv, Devolver PROVE FInv' /\ Quedan
  OBVIOUS
<1> DEFINE x == forz.mano
<1>1. /\ ~caido /\ forz.pc \in {"nuevos", "listos"} /\ x # Nadie
      /\ nuevos' = IF forz.pc = "nuevos" THEN Append(nuevos, x) ELSE nuevos
      /\ listos' = IF forz.pc = "listos" THEN Append(listos, x) ELSE listos
      /\ forz' = [forz EXCEPT !.i = @ + 1, !.mano = Nadie]
      /\ riesgos \subseteq riesgos'
      /\ UNCHANGED <<ejecutando, bloqueados, finalizados, sem, hiloN, hiloL, hiloM, grado,
                     muertas, rechazados>>
  BY DEF Devolver, Rotando, CruceDe, entorno
<1>2. Tipos /\ Victima /\ UnSitio /\ FichasListos
  BY <1>1 DEF FInv, Vivo
<1>3. /\ forz \in Busquedas /\ x \in Pids /\ forz.i \in Nat /\ forz.i + 1 \in Nat
      /\ nuevos \in Seq(Pids) /\ IsInjective(nuevos)
      /\ listos \in Seq(Pids \cup {Nadie}) /\ SinRepetidos(listos)
      /\ x \notin ToSet(nuevos) /\ x \notin ToSet(listos)
  <2>1. forz.i \in Nat /\ forz.i + 1 \in Nat
    <3>1. forz.i \in Nat
      BY <1>2, CamposForzar
    <3> QED
      BY <3>1
  <2>2. x \in Pids
    BY <1>1, <1>2, CamposForzar
  <2>3. x \notin ToSet(nuevos) /\ x \notin ToSet(listos)
    BY <1>2, <2>2 DEF UnSitio, Apartes
  <2> QED
    BY <1>2, <2>1, <2>2, <2>3 DEF Tipos, UnSitio
<1>4. PICK j \in Nat : j = forz.i + 1
  BY <1>3
<1>5. forz' = [pc |-> forz.pc, quien |-> forz.quien, pid |-> forz.pid, i |-> j,
               mano |-> Nadie, preso |-> forz.preso, de |-> forz.de, visto |-> forz.visto]
  <2>1. forz' = [forz EXCEPT !.i = j, !.mano = Nadie]
    BY <1>1, <1>4
  <2> QED
    BY <1>3, <2>1 DEF Busquedas
<1>6. forz' \in Busquedas
  BY <1>3, <1>5 DEF Busquedas
<1>7. /\ nuevos' \in Seq(Pids) /\ IsInjective(nuevos')
      /\ listos' \in Seq(Pids \cup {Nadie}) /\ SinRepetidos(listos')
      /\ forz.pc = "nuevos" => listos' = listos /\ ToSet(nuevos') = ToSet(nuevos) \cup {x}
      /\ forz.pc = "listos" => /\ nuevos' = nuevos /\ Len(listos') = Len(listos) + 1
                               /\ \A p \in Pids : p \in ToSet(listos') <=> p \in ToSet(listos) \/ p = x
  <2> HIDE DEF x
  <2>1. CASE forz.pc = "nuevos"
    BY <1>1, <1>3, <2>1, AlFinal
  <2>2. CASE forz.pc = "listos"
    BY <1>1, <1>3, <2>2, ListosAlFinal
  <2> QED
    BY <1>1, <2>1, <2>2
<1>8. Tipos'
  BY <1>1, <1>2, <1>6, <1>7 DEF Tipos
<1>9. Victima'
  BY <1>1, <1>2, <1>5 DEF Victima, Rotando
<1>10. UnSitio'
  BY <1>1, <1>2, <1>3, <1>5, <1>7, NadieAparte DEF UnSitio, Apartes
<1>11. \A r \in Pids : (Dentro(r)' <=> Dentro(r)) /\ (Ocupa(r)' <=> Ocupa(r))
  BY <1>1, <1>5, <1>7, NadieAparte DEF Dentro, Ocupa
<1>12. FichasListos'
  <2>1. EnVuelta' = 0 /\ EnVuelta = IF forz.pc = "listos" THEN 1 ELSE 0
    BY <1>1, <1>5 DEF EnVuelta
  <2>2. Len(listos') + EnVuelta' = Len(listos) + EnVuelta
    BY <1>1, <1>3, <1>7, <2>1, LenProperties
  <2>3. Len(listos') + EnVuelta' = Len(listos')
    BY <1>7, <2>1, LenProperties
  <2> QED
    BY <1>1, <1>2, <2>2, <2>3 DEF FichasListos
<1> QED
  BY <1>1, <1>8, <1>9, <1>10, <1>11, <1>12, CambiaDeLugar
-----------------------------------------------------------------------------
(* The end of forzar_finalizacion *)

(* Whose process was found is not hiloN: what that thread has in hand is in *)
(* no list.                                                                 *)
LEMMA FinDelBuscado ==
  ASSUME Tipos, Victima, UnSitio, forz.pc = "matar", Fin
  PROVE  /\ forz.pid \in Pids /\ forz.mano = Nadie
         /\ forz'.pc = "nada" /\ forz'.quien = "" /\ forz'.pid = Nadie /\ forz'.mano = Nadie
         /\ forz'.preso = Nadie /\ forz'.de = "" /\ forz' \in Busquedas
         /\ UNCHANGED <<nuevos, hiloL, muertas, grado>>
         /\ forz.quien # "N" => hiloN' = hiloN /\ rechazados' = rechazados
         /\ forz.de # "" => /\ forz.preso = forz.pid
                            /\ hiloN' = hiloN /\ rechazados' = rechazados
<1>1. forz.pid \in Pids /\ forz.mano = Nadie
  BY DEF Victima, Rotando
<1>2. /\ forz'.pc = "nada" /\ forz'.quien = "" /\ forz'.pid = Nadie /\ forz'.mano = Nadie
      /\ forz'.preso = Nadie /\ forz'.de = "" /\ forz' \in Busquedas
  BY DEF Fin, SinForzar, Busquedas, Pases, Origenes
<1>3. forz.quien # "N" => hiloN' = hiloN /\ rechazados' = rechazados
  BY DEF Fin
<1>4. forz.de # "" => forz.preso = forz.pid /\ forz.quien # "N"
  BY <1>1 DEF Victima, UnSitio, Apartes
<1>5. UNCHANGED <<nuevos, hiloL, muertas, grado>>
  BY DEF Fin
<1> QED
  BY <1>1, <1>2, <1>3, <1>4, <1>5

LEMMA SigueNoEstaba == FInv /\ NoEstaba => FInv' /\ Quedan
<1> SUFFICES ASSUME FInv, NoEstaba PROVE FInv' /\ Quedan
  OBVIOUS
<1>1. /\ ~caido /\ forz.pc = "matar" /\ forz.preso = Nadie /\ Fin
      /\ UNCHANGED <<listos, ejecutando, bloqueados, finalizados, sem, riesgos>>
  BY DEF NoEstaba
<1>2. Tipos /\ Victima /\ UnSitio /\ Numerados /\ Ranuras /\ FichasListos
  BY <1>1 DEF FInv, Vivo
<1>3. /\ forz.pid \in Pids /\ forz.mano = Nadie
      /\ forz'.pc = "nada" /\ forz'.quien = "" /\ forz'.pid = Nadie /\ forz'.mano = Nadie
      /\ forz'.preso = Nadie /\ forz'.de = "" /\ forz' \in Busquedas
      /\ UNCHANGED <<nuevos, hiloL, muertas, grado>>
      /\ forz.quien # "N" => hiloN' = hiloN /\ rechazados' = rechazados
  BY <1>1, <1>2, FinDelBuscado
<1>4. Victima'
  BY <1>3 DEF Victima
<1>5. FichasListos'
  <2>1. EnVuelta' = 0 /\ EnVuelta = 0
    BY <1>1, <1>3 DEF EnVuelta
  <2> QED
    BY <1>1, <1>2, <1>3, <2>1 DEF FichasListos
<1>6. CASE forz.quien # "N"
  <2>1. hiloN' = hiloN /\ rechazados' = rechazados
    BY <1>3, <1>6
  <2>2. Tipos'
    BY <1>1, <1>2, <1>3, <2>1 DEF Tipos
  <2>3. UnSitio'
    BY <1>1, <1>2, <1>3, <2>1 DEF UnSitio
  <2>4. \A r \in Pids : (Dentro(r)' <=> Dentro(r)) /\ (Ocupa(r)' <=> Ocupa(r))
    BY <1>1, <1>3, <2>1, NadieAparte DEF Dentro, Ocupa
  <2> QED
    BY <1>1, <1>3, <1>4, <1>5, <2>1, <2>2, <2>3, <2>4, CambiaDeLugar
<1>7. CASE forz.quien = "N"
  <2> DEFINE x == forz.pid
  <2>1. x \in Pids /\ hiloN = x /\ hiloN' = Nadie /\ rechazados' = rechazados \cup {x}
    BY <1>1, <1>2, <1>3, <1>7 DEF Victima, Fin
  <2> HIDE DEF x
  <2>2. Tipos'
    BY <1>1, <1>2, <1>3, <2>1 DEF Tipos
  <2>3. UnSitio'
    BY <1>1, <1>2, <1>3, <2>1, NadieAparte DEF UnSitio, Apartes
  <2>4. \A r \in Pids : Dentro(r)' <=> Dentro(r)
    BY <1>1, <1>3, <2>1, NadieAparte DEF Dentro
  <2>5. Ocupa(x) /\ x \notin rechazados
    BY <1>2, <2>1 DEF Ocupa, UnSitio, Apartes
  <2>6. \A r \in Pids : Ocupa(r)' <=> Ocupa(r) /\ r # x
    BY <1>1, <1>2, <1>3, <2>1, NadieAparte DEF Ocupa, UnSitio, Apartes
  <2>7. Numerados' /\ Quedan
    BY <1>2, <2>2, <2>4, SiguenNumerados
  <2>8. Saldo' = Saldo
    BY <1>1, <1>3 DEF Saldo, Debe
  <2>9. Ranuras'
    BY <1>2, <2>1, <2>2, <2>5, <2>6, <2>8, RanurasRechazo
  <2> QED
    BY <1>4, <1>5, <2>2, <2>3, <2>7, <2>9 DEF FInv, Vivo
<1> QED
  BY <1>6, <1>7

LEMMA SiguePedirPcbError == FInv /\ PedirPcbError => FInv' /\ Quedan
<1> SUFFICES ASSUME FInv, PedirPcbError PROVE FInv' /\ Quedan
  OBVIOUS
<1>1. /\ ~caido /\ forz.pc = "matar" /\ forz.de = "ejecutando"
      /\ UNCHANGED <<listos, bloqueados, finalizados, sem>>
      /\ \/ caido' /\ UNCHANGED nuevas
         \/ Fin /\ ejecutando' = ejecutando \cup {forz.pid} /\ riesgos \subseteq riesgos'
  BY DEF PedirPcbError
<1>2. CASE caido' /\ UNCHANGED nuevas
  BY <1>1, <1>2, SeCae DEF nuevas
<1>3. CASE Fin /\ ejecutando' = ejecutando \cup {forz.pid} /\ riesgos \subseteq riesgos'
  <2> DEFINE x == forz.pid
  <2>1. Tipos /\ Victima /\ UnSitio /\ FichasListos
    BY <1>1 DEF FInv, Vivo
  <2>2. /\ x \in Pids /\ forz.mano = Nadie
        /\ forz'.pc = "nada" /\ forz'.quien = "" /\ forz'.pid = Nadie /\ forz'.mano = Nadie
        /\ forz'.preso = Nadie /\ forz'.de = "" /\ forz' \in Busquedas
        /\ UNCHANGED <<nuevos, hiloL, muertas, grado>>
        /\ forz.preso = x /\ hiloN' = hiloN /\ rechazados' = rechazados
        /\ ejecutando' = ejecutando \cup {x}
    BY <1>1, <1>3, <2>1, FinDelBuscado
  <2> HIDE DEF x
  <2>3. Tipos'
    BY <1>1, <2>1, <2>2 DEF Tipos
  <2>4. Victima'
    BY <2>2 DEF Victima
  <2>5. UnSitio'
    BY <1>1, <2>1, <2>2, NadieAparte DEF UnSitio, Apartes
  <2>6. \A r \in Pids : (Dentro(r)' <=> Dentro(r)) /\ (Ocupa(r)' <=> Ocupa(r))
    BY <1>1, <2>2, NadieAparte DEF Dentro, Ocupa
  <2>7. FichasListos'
    <3>1. EnVuelta' = 0 /\ EnVuelta = 0
      BY <1>1, <2>2 DEF EnVuelta
    <3> QED
      BY <1>1, <1>3, <2>1, <2>2, <3>1 DEF FichasListos
  <2> QED
    BY <1>1, <2>2, <2>3, <2>4, <2>5, <2>6, <2>7, CambiaDeLugar
<1> QED
  BY <1>1, <1>2, <1>3

LEMMA SigueTerminar == FInv /\ Terminar => FInv' /\ Quedan
<1> SUFFICES ASSUME FInv, Terminar PROVE FInv' /\ Quedan
  OBVIOUS
<1> DEFINE x == forz.pid
<1>1. /\ ~caido /\ forz.pc = "matar" /\ forz.de \in {"bloqueados", "listos"} /\ Fin
      /\ finalizados' = finalizados \cup {x} /\ sem' = Postear(sem, {"grado"})
      /\ UNCHANGED <<listos, ejecutando, bloqueados, riesgos>>
  BY DEF Terminar
<1>2. Tipos /\ Victima /\ UnSitio /\ Numerados /\ Ranuras /\ FichasListos
  BY <1>1 DEF FInv, Vivo
<1>3. /\ x \in Pids /\ forz.mano = Nadie
      /\ forz'.pc = "nada" /\ forz'.quien = "" /\ forz'.pid = Nadie /\ forz'.mano = Nadie
      /\ forz'.preso = Nadie /\ forz'.de = "" /\ forz' \in Busquedas
      /\ UNCHANGED <<nuevos, hiloL, muertas, grado>>
      /\ forz.preso = x /\ hiloN' = hiloN /\ rechazados' = rechazados
  BY <1>1, <1>2, FinDelBuscado
<1> HIDE DEF x
<1>4. sem \in [SemHilos -> Nat]
  BY <1>2 DEF Tipos
<1>5. sem' \in [SemHilos -> Nat]
  BY <1>1, <1>4, FichasTipo
<1>6. sem'.listos = sem.listos /\ sem'.grado = sem.grado + 1
  BY <1>1, <1>4, FichasTipo DEF SemHilos
<1>7. Tipos'
  BY <1>1, <1>2, <1>3, <1>5 DEF Tipos
<1>8. Victima'
  BY <1>3 DEF Victima
<1>9. UnSitio'
  BY <1>1, <1>2, <1>3, NadieAparte DEF UnSitio, Apartes
<1>10. \A r \in Pids : Dentro(r)' <=> Dentro(r)
  BY <1>1, <1>3, NadieAparte DEF Dentro
<1>11. Ocupa(x)
  BY <1>1, <1>3 DEF Ocupa
<1>12. \A r \in Pids : Ocupa(r)' <=> Ocupa(r) /\ r # x
  BY <1>1, <1>2, <1>3, NadieAparte DEF Ocupa, UnSitio, Apartes
<1>13. Numerados' /\ Quedan
  BY <1>2, <1>7, <1>10, SiguenNumerados
<1>14. Saldo' = Saldo + 1
  <2>1. grado' = grado
    BY <1>3
  <2>2. Saldo' = Saldo + (sem'.grado - sem.grado) /\ sem.grado \in Nat /\ Saldo \in Int
    BY <1>2, <1>5, <2>1, SaldoDeFichas
  <2> QED
    BY <1>6, <2>2
<1>15. Ranuras'
  BY <1>2, <1>3, <1>7, <1>11, <1>12, <1>14, RanurasMas
<1>16. FichasListos'
  <2>1. EnVuelta' = 0 /\ EnVuelta = 0
    BY <1>1, <1>3 DEF EnVuelta
  <2> QED
    BY <1>1, <1>2, <1>3, <1>6, <2>1 DEF FichasListos
<1> QED
  BY <1>7, <1>8, <1>9, <1>13, <1>15, <1>16 DEF FInv, Vivo

LEMMA SigueTerminarNuevo == FInv /\ TerminarNuevo => FInv' /\ Quedan
<1> SUFFICES ASSUME FInv, TerminarNuevo PROVE FInv' /\ Quedan
  OBVIOUS
<1>1. caido' /\ UNCHANGED <<listos, forz, muertas, sem, riesgos>>
  BY DEF TerminarNuevo, listas, nuevas
<1> QED
  BY <1>1, SeCae

-----------------------------------------------------------------------------
LEMMA PasoForzar == FInv /\ [NextForzar]_<<vars, nuevas>> => FInv' /\ Quedan
<1> SUFFICES ASSUME FInv, [NextForzar]_<<vars, nuevas>> PROVE FInv' /\ Quedan
  OBVIOUS
<1>1. CASE UNCHANGED <<vars, nuevas>>
  <2>1. UNCHANGED <<nuevos, listos, ejecutando, bloqueados, finalizados, rechazados, hiloN, hiloL,
                    hiloM, forz, sem, grado, riesgos, muertas, caido>>
    BY <1>1 DEF vars, nuevas
  <2>2. CASE caido
    BY <2>1, <2>2, SeCae
  <2>3. CASE ~caido
    BY <2>1, <2>3, SinMoverNada, MoverEnSelect
  <2> QED
    BY <2>2, <2>3
<1>2. CASE IniciarPrograma \/ CargarNuevo \/ AdmitirNuevo
  BY <1>2, SigueIniciarPrograma, SigueCargarNuevo, SigueAdmitirNuevo
<1>3. CASE TomarFichas \/ EnviarPcb \/ AnotarEnvio \/ EnvioFallo
  BY <1>3, SigueTomarFichas, SigueEnviarPcb, SigueAnotarEnvio, SigueEnvioFallo
<1>4. CASE SeguirMensaje
  BY <1>4, SigueFinalizarQuantum, SigueFinalizarProceso, SigueBloquearProceso
  DEF SeguirMensaje, SeguirM
<1>5. CASE \E p \in Pids : C02(p) \/ FinalizarProcesoConsola(p)
  BY <1>5, SigueC02, SigueConsola
<1>6. CASE ForzarFinalizacion
  <2>1. CASE SacarNuevo \/ SacarListo
    BY <2>1, SigueSacar DEF SacarNuevo, SacarListo
  <2> QED
    BY <1>6, <2>1, SigueForzarListas, SigueDevolver, SigueNoEstaba, SiguePedirPcbError,
       SigueTerminar, SigueTerminarNuevo DEF ForzarFinalizacion
<1>7. CASE \E c \in Cpus : \/ ConectarCpu(c) \/ AtenderMensaje(c) \/ EjecutarInstruccion(c)
                           \/ RecibirRespuesta(c) \/ Muere(c) \/ EliminarCpu(c)
  <2>1. PICK c \in Cpus : \/ ConectarCpu(c) \/ AtenderMensaje(c)
                          \/ (EjecutarInstruccion(c) \/ RecibirRespuesta(c))
                          \/ Muere(c) \/ EliminarCpu(c)
    BY <1>7
  <2> QED
    BY <2>1, SigueConectarCpu, SigueAtenderMensaje, SigueEjecutar, SigueMuere, SigueEliminarCpu
<1>8. CASE Rechazar \/ EsperarCpus \/ MirarDiferencia \/ ActualizarGrado
  BY <1>8, SigueRechazar, SigueEsperarCpus, SigueMirarDiferencia, SigueActualizarGrado
<1>9. CASE \E g \in Grados : CambiarGrado(g)
  BY <1>9, SigueCambiarGrado
<1> QED
  BY <1>1, <1>2, <1>3, <1>4, <1>5, <1>6, <1>7, <1>8, <1>9 DEF NextForzar

LEMMA InvarianteForzar == SpecForzar => []FInv
<1> QED
  BY InicioForzar, PasoForzar, PTL DEF SpecForzar

(* Whatever step comes, and wherever it falls among the rotations of a      *)
(* kill, a process that was in a list or in the hands of a thread is still  *)
(* in one after it.                                                         *)
THEOREM NadieSale == SpecForzar => Permanecen
<1>1. FInv /\ [NextForzar]_<<vars, nuevas>> => [Quedan]_<<vars, nuevas>>
  BY PasoForzar
<1> QED
  BY <1>1, InvarianteForzar, PTL DEF SpecForzar, Permanecen, Quedan

(* Wherever the ends by force, the rejections and the changes of degree     *)
(* fall, every slot of the degree is free, taken by a process or counted    *)
(* among those lost.                                                        *)
THEOREM RanurasExactas == SpecForzar => []GradoDesviado
<1>1. FInv => GradoDesviado
  <2> SUFFICES ASSUME FInv, ~caido
               PROVE  sem.grado + Cardinality((EnSistema \cup EnManosDe) \ {Nadie})
                      + Cardinality(rechazados) + grado.diferencia + grado.perdida = grado.config
    BY DEF GradoDesviado, EnManosDe
  <2>1. Tipos /\ UnSitio /\ Ranuras
    BY DEF FInv, Vivo
  <2>2. (EnSistema \cup EnManosDe) \ {Nadie} = Ocupan
    <3>1. ToSet(listos) \subseteq Pids \cup {Nadie}
      BY <2>1, ToSetElemento DEF Tipos
    <3>2. hiloN \in Pids \cup {Nadie} /\ hiloL.pid \in Pids \cup {Nadie}
      BY <2>1, CamposForzar
    <3>3. /\ ejecutando \subseteq Pids /\ bloqueados \subseteq Pids
          /\ \A p \in Pids : p \in ToSet(nuevos) \cup finalizados =>
               p \notin ToSet(listos) \cup ejecutando \cup bloqueados \cup {hiloN, hiloL.pid}
      BY <2>1 DEF Tipos, UnSitio, Apartes
    <3> QED
      BY <3>1, <3>2, <3>3, NadieAparte DEF EnSistema, Ingresados, Ocupan
  <2>3. /\ sem.grado \in Nat /\ Debe \in Int /\ Saldo = sem.grado + Debe
        /\ grado.diferencia \in Int /\ grado.perdida \in Int /\ grado.config \in Int
    BY <2>1, SaldoTipo
  <2>4. Cardinality(Ocupan) \in Nat /\ Cardinality(rechazados) \in Nat
    BY <2>1, OcupanSon
  <2>5. Saldo + Cardinality(Ocupan) + Cardinality(rechazados) = 0
    BY <2>1 DEF Ranuras
  <2> QED
    BY <2>2, <2>3, <2>4, <2>5 DEF Debe
<1> QED
  BY <1>1, InvarianteForzar, PTL
-----------------------------------------------------------------------------
(* What the CPUs have, while none of them has left.                         *)

Sanas == ~caido /\ "cpu" \notin riesgos

Maquina == [fase : {"libre", "corre", "espera", "OK", "K23"}, pid : Pids \cup {Nadie}, pc : Nat,
            inst : Nat]
Carta == [cod : Mensajes, pid : Pids \cup {Nadie}, pc : Nat, sem : Sems \cup {Nadie}]

PcbsBien == pcb \in [Pids -> [pid : Pids, pc : Nat]] /\ \A p \in Pids : pcb[p].pid = p

TiposCpu ==
  /\ cpus \in Seq(Cpus) /\ ejec \in [Cpus -> BOOLEAN]
  /\ program \in [Cpus -> Pids \cup {Nadie}] /\ PcbsBien
  /\ cpu \in [Cpus -> Maquina] /\ bandeja \in [Cpus -> Carta]

(* What a CPU is at, and the message of it that the Kernel has not read *)
EnFase ==
  \A c \in Cpus :
    /\ cpu[c].fase = "libre" <=> cpu[c].pid = Nadie
    /\ bandeja[c].pid = Nadie <=> bandeja[c].cod \in {"nada", "P14", "P15"}
    /\ bandeja[c].cod \in {"P12", "P13", "P16"} => cpu[c].fase = "libre"
    /\ cpu[c].fase = "espera" <=> bandeja[c].cod \in {"P14", "P15"}

(* The CPU holds the PCB of p, or has sent it back. *)
Tiene(c, p) == cpu[c].pid = p \/ bandeja[c].pid = p

(* What a CPU has is what the Kernel has noted, or is about to. *)
Anotadas ==
  /\ \A c \in Cpus, p \in Pids : Tiene(c, p) =>
       (ejec[c] /\ program[c] = p) \/ (hiloL.pid = p /\ hiloL.cpu = c)
  /\ hiloL # SinDespacho => /\ hiloL.cpu \in Cpus /\ ~ejec[hiloL.cpu]
                            /\ Tiene(hiloL.cpu, hiloL.pid)
  /\ hiloM.pc = "K23" => /\ hiloM.cpu \in Cpus /\ ejec[hiloM.cpu]
                         /\ hiloM.pid \in Pids /\ program[hiloM.cpu] = hiloM.pid
                         /\ \/ cpu[hiloM.cpu].fase = "K23"
                            \/ bandeja[hiloM.cpu].cod \in {"P12", "P13", "P16"}

(* list_ejecutando, and who forzar_finalizacion has taken from it *)
Corriendo == ejecutando \cup (IF forz.de = "ejecutando" THEN {forz.preso} ELSE {})

(* Who runs is on a CPU, until the console of the Kernel ends one of them.  *)
Seguidos == IF "consola" \in riesgos THEN {} ELSE Corriendo
DevueltoA(p) == hiloM.pc \in {"P12", "P13"} /\ hiloM.pid = p
ConCpu == \A p \in Seguidos : (\E c \in Cpus : Tiene(c, p)) \/ DevueltoA(p)

(* Otherwise only hiloM takes one that runs, at the request of a console. *)
Buscado ==
  /\ forz.pc # "nada" => forz.quien # ""
  /\ forz.de = "ejecutando" => forz.quien = "M" \/ "consola" \in riesgos

Capa == TiposCpu /\ EnFase /\ Anotadas /\ ConCpu /\ Buscado
CInv == Sanas => Capa

LEMMA InicioCapa == InitForzar => CInv
<1> SUFFICES ASSUME InitForzar PROVE Capa
  BY DEF CInv
<1> USE NadieAparte
<1>1. /\ ejecutando = {} /\ forz.de = "" /\ forz.pc = "nada" /\ hiloL = SinDespacho
      /\ hiloM.pc = "select"
      /\ cpu = [c \in Cpus |-> Ocioso] /\ bandeja = [c \in Cpus |-> Vacia]
      /\ pcb = [p \in Pids |-> [pid |-> p, pc |-> 0]]
      /\ ejec = [c \in Cpus |-> FALSE] /\ program = [c \in Cpus |-> Nadie] /\ cpus = <<>>
  BY DEF InitForzar, Init, SinForzar, EnSelect
<1>2. /\ Ocioso \in Maquina /\ Ocioso.fase = "libre" /\ Ocioso.pid = Nadie
      /\ Vacia \in Carta /\ Vacia.cod = "nada" /\ Vacia.pid = Nadie
  BY DEF Ocioso, Vacia, Maquina, Carta, Mensajes
<1>3. \A c \in Cpus : cpu[c] = Ocioso /\ bandeja[c] = Vacia
  BY <1>1
<1>4. PcbsBien
  BY <1>1 DEF PcbsBien
<1>5. TiposCpu
  <2>1. cpus \in Seq(Cpus)
    <3>1. <<>> \in Seq(Cpus)
      OBVIOUS
    <3> QED
      BY <1>1, <3>1
  <2>2. ejec \in [Cpus -> BOOLEAN] /\ program \in [Cpus -> Pids \cup {Nadie}]
    BY <1>1
  <2>3. cpu \in [Cpus -> Maquina] /\ bandeja \in [Cpus -> Carta]
    BY <1>1, <1>2
  <2> QED
    BY <1>4, <2>1, <2>2, <2>3 DEF TiposCpu
<1>6. EnFase
  BY <1>2, <1>3 DEF EnFase
<1>7. Anotadas
  BY <1>1, <1>2, <1>3 DEF Anotadas, Tiene
<1>8. ConCpu /\ Buscado
  BY <1>1 DEF ConCpu, Buscado, Seguidos, Corriendo
<1> QED
  BY <1>5, <1>6, <1>7, <1>8 DEF Capa

(* Steps that leave the CPUs alone *)
LEMMA SigueSinCpu ==
  ASSUME Capa, cpus' \in Seq(Cpus), PcbsBien',
         UNCHANGED <<ejec, program, cpu, bandeja, hiloL>>,
         Seguidos' \subseteq Seguidos, Buscado',
         hiloM' = hiloM \/ /\ hiloM'.pc \notin {"P12", "P13", "K23"}
                           /\ \A p \in Seguidos' : ~DevueltoA(p)
  PROVE  Capa'
<1>1. \A c, p : Tiene(c, p)' <=> Tiene(c, p)
  BY DEF Tiene
<1>2. TiposCpu' /\ EnFase'
  BY DEF Capa, TiposCpu, EnFase
<1>3. Anotadas'
  BY <1>1 DEF Capa, Anotadas
<1>4. ConCpu'
  <2>1. CASE hiloM' = hiloM
    BY <1>1, <2>1 DEF Capa, ConCpu, DevueltoA
  <2>2. CASE \A p \in Seguidos' : ~DevueltoA(p)
    BY <1>1, <2>2 DEF Capa, ConCpu
  <2> QED
    BY <2>1, <2>2
<1> QED
  BY <1>2, <1>3, <1>4 DEF Capa

(* One CPU goes on, and keeps or sends back the PCB it has. *)
LEMMA SigueUnaCpu ==
  ASSUME Capa, NEW c \in Cpus, NEW f \in Maquina, NEW m \in Carta, Deja(c, f, m),
         UNCHANGED <<cpus, ejec, program, pcb, hiloL, hiloM, ejecutando, forz>>,
         riesgos \subseteq riesgos', \A p \in Pids : f.pid = p \/ m.pid = p <=> Tiene(c, p),
         f.fase = "libre" <=> f.pid = Nadie,
         m.pid = Nadie <=> m.cod \in {"nada", "P14", "P15"},
         m.cod \in {"P12", "P13", "P16"} => f.fase = "libre",
         f.fase = "espera" <=> m.cod \in {"P14", "P15"},
         Seguidos \subseteq Pids, hiloL # SinDespacho => hiloL.pid \in Pids,
         hiloM.pc = "K23" /\ hiloM.cpu = c => m.cod \in {"P12", "P13", "P16"}
  PROVE  Capa'
<1>1. TiposCpu /\ EnFase /\ Anotadas /\ ConCpu /\ Buscado
  BY DEF Capa
<1>2. /\ cpu'[c] = f /\ bandeja'[c] = m
      /\ \A d \in Cpus \ {c} : cpu'[d] = cpu[d] /\ bandeja'[d] = bandeja[d]
      /\ cpu' \in [Cpus -> Maquina] /\ bandeja' \in [Cpus -> Carta]
  BY <1>1 DEF TiposCpu, Deja
<1>3. \A d \in Cpus, p \in Pids : Tiene(d, p)' <=> Tiene(d, p)
  BY <1>2 DEF Tiene
<1>4. TiposCpu'
  BY <1>1, <1>2 DEF TiposCpu, PcbsBien
<1>5. EnFase'
  <2> SUFFICES ASSUME NEW d \in Cpus
               PROVE  /\ cpu'[d].fase = "libre" <=> cpu'[d].pid = Nadie
                      /\ bandeja'[d].pid = Nadie <=> bandeja'[d].cod \in {"nada", "P14", "P15"}
                      /\ bandeja'[d].cod \in {"P12", "P13", "P16"} => cpu'[d].fase = "libre"
                      /\ cpu'[d].fase = "espera" <=> bandeja'[d].cod \in {"P14", "P15"}
    BY DEF EnFase
  <2>1. CASE d = c
    BY <1>2, <2>1
  <2>2. CASE d # c
    BY <1>1, <1>2, <2>2 DEF EnFase
  <2> QED
    BY <2>1, <2>2
<1>6. Anotadas'
  <2>1. \A d \in Cpus, p \in Pids : Tiene(d, p)' =>
          (ejec'[d] /\ program'[d] = p) \/ (hiloL'.pid = p /\ hiloL'.cpu = d)
    BY <1>1, <1>3 DEF Anotadas
  <2>2. hiloL' # SinDespacho => /\ hiloL'.cpu \in Cpus /\ ~ejec'[hiloL'.cpu]
                                /\ Tiene(hiloL.cpu, hiloL.pid)'
    BY <1>1, <1>3 DEF Anotadas
  <2>3. hiloM.pc = "K23" => \/ cpu'[hiloM.cpu].fase = "K23"
                            \/ bandeja'[hiloM.cpu].cod \in {"P12", "P13", "P16"}
    BY <1>1, <1>2 DEF Anotadas
  <2> QED
    BY <1>1, <2>1, <2>2, <2>3 DEF Anotadas
<1>7. ConCpu'
  <2>1. Seguidos' \subseteq Seguidos
    BY DEF Seguidos, Corriendo
  <2> QED
    BY <1>1, <1>3, <2>1 DEF ConCpu, DevueltoA
<1> QED
  BY <1>1, <1>4, <1>5, <1>6, <1>7 DEF Capa, Buscado

(* What FInv says that these steps need *)
LEMMA QuienCorre ==
  ASSUME FInv, ~caido
  PROVE  /\ Corriendo \subseteq Pids /\ Seguidos \subseteq Pids
         /\ hiloL # SinDespacho => hiloL.pid \in Pids
         /\ hiloL = SinDespacho => hiloL.pid = Nadie
         /\ "cpu" \notin riesgos => muertas = {}
<1>1. Tipos /\ Victima /\ FichasListos
  BY DEF FInv, Vivo
<1>2. Corriendo \subseteq Pids /\ Seguidos \subseteq Pids
  <2>1. forz.de = "ejecutando" => forz.preso \in Pids
    BY <1>1 DEF Victima
  <2> QED
    BY <1>1, <2>1 DEF Seguidos, Corriendo, Tipos
<1> QED
  BY <1>1, <1>2 DEF Tipos, FichasListos, SinDespacho

(* A step does nothing once the Kernel has crashed, and forgets no danger. *)
LEMMA SoloVivo == NextForzar => ~caido /\ riesgos \subseteq riesgos'
<1>1. IniciarPrograma \/ CargarNuevo \/ AdmitirNuevo => ~caido /\ riesgos \subseteq riesgos'
  BY DEF IniciarPrograma, CargarNuevo, PedirMemoria, AdmitirNuevo, AgregarNuevaProg, Cruce
<1>2. TomarFichas \/ EnviarPcb \/ AnotarEnvio \/ EnvioFallo => ~caido /\ riesgos \subseteq riesgos'
  BY DEF TomarFichas, EnviarPcb, Despachar, AnotarEnvio, AnotarDespacho, EnvioFallo, Cruce
<1>3. SeguirMensaje => ~caido /\ riesgos \subseteq riesgos'
  BY DEF SeguirMensaje, SeguirM, FinalizarQuantum, FinalizarProceso, BloquearProceso, nuevas
<1>4. ASSUME NEW p \in Pids, C02(p) \/ FinalizarProcesoConsola(p)
      PROVE  ~caido /\ riesgos \subseteq riesgos'
  BY <1>4 DEF C02, FinalizarProcesoConsola, Interrumpe
<1>5. Rechazar \/ EsperarCpus \/ MirarDiferencia \/ ActualizarGrado => ~caido /\ riesgos \subseteq riesgos'
  BY DEF Rechazar, Interrumpe, EsperarCpus, MirarDiferencia, ActualizarGrado, nuevas
<1>6. ForzarFinalizacion => ~caido /\ riesgos \subseteq riesgos'
  <2>1. ForzarListas \/ Devolver \/ SacarNuevo \/ SacarListo => ~caido /\ riesgos \subseteq riesgos'
    BY DEF ForzarListas, Devolver, SacarNuevo, SacarListo, Sacar, CruceDe
  <2>2. NoEstaba \/ Terminar \/ TerminarNuevo => ~caido /\ riesgos \subseteq riesgos'
    BY DEF NoEstaba, Terminar, TerminarNuevo, nuevas
  <2>3. PedirPcbError => ~caido /\ riesgos \subseteq riesgos'
    BY DEF PedirPcbError, nuevas
  <2> QED
    BY <2>1, <2>2, <2>3 DEF ForzarFinalizacion
<1>7. ASSUME NEW c \in Cpus, ConectarCpu(c) \/ Muere(c) \/ EliminarCpu(c)
      PROVE  ~caido /\ riesgos \subseteq riesgos'
  BY <1>7 DEF ConectarCpu, AgregarCpu, Muere, Interrumpe, EliminarCpu, nuevas
<1>8. ASSUME NEW c \in Cpus, AtenderMensaje(c) PROVE ~caido /\ riesgos \subseteq riesgos'
  BY <1>8 DEF AtenderMensaje, AtenderCpu, P12, P13, P14, P15, DevuelvePcb, Mensaje, nuevas
<1>9. ASSUME NEW c \in Cpus, EjecutarInstruccion(c) \/ RecibirRespuesta(c)
      PROVE  ~caido /\ riesgos \subseteq riesgos'
  BY <1>9 DEF EjecutarInstruccion, RecibirRespuesta, TerminarInstruccion, nuevas
<1>10. ASSUME NEW g \in Grados, CambiarGrado(g) PROVE ~caido /\ riesgos \subseteq riesgos'
  BY <1>10 DEF CambiarGrado, Interrumpe
<1> QED
  BY <1>1, <1>2, <1>3, <1>4, <1>5, <1>6, <1>7, <1>8, <1>9, <1>10 DEF NextForzar

LEMMA CapaSinMover ==
  ASSUME FInv, Capa, riesgos \subseteq riesgos',
         \/ IniciarPrograma \/ CargarNuevo \/ AdmitirNuevo \/ TomarFichas \/ EsperarCpus
         \/ MirarDiferencia \/ ActualizarGrado \/ Rechazar
         \/ \E g \in Grados : CambiarGrado(g)
         \/ \E p \in Pids : C02(p) \/ FinalizarProcesoConsola(p)
         \/ \E c \in Cpus : ConectarCpu(c)
  PROVE  Capa'
<1>1. TiposCpu /\ EnFase /\ Anotadas /\ ConCpu /\ Buscado
  BY DEF Capa
<1>2. cpus \in Seq(Cpus) /\ PcbsBien
  BY <1>1 DEF TiposCpu
<1>3. CASE IniciarPrograma \/ CargarNuevo \/ TomarFichas
  <2>1. UNCHANGED <<cpus, pcb, ejec, program, cpu, bandeja, hiloL, hiloM, ejecutando, forz>>
    BY <1>3 DEF IniciarPrograma, CargarNuevo, PedirMemoria, TomarFichas, listas, vars
  <2> QED
    BY <1>1, <1>2, <2>1, SigueSinCpu DEF Seguidos, Corriendo, Buscado, PcbsBien
<1>4. CASE AdmitirNuevo
  <2>1. /\ ~caido /\ hiloN # Nadie /\ pcb' = [pcb EXCEPT ![hiloN] = [pid |-> hiloN, pc |-> 0]]
        /\ UNCHANGED <<cpus, ejec, program, cpu, bandeja, hiloL, hiloM, ejecutando, forz>>
    BY <1>4 DEF AdmitirNuevo, AgregarNuevaProg
  <2>2. hiloN \in Pids
    BY <2>1 DEF FInv, Vivo, Tipos
  <2>3. PcbsBien'
    BY <1>2, <2>1, <2>2 DEF PcbsBien
  <2> QED
    BY <1>1, <1>2, <2>1, <2>3, SigueSinCpu DEF Seguidos, Corriendo, Buscado
<1>5. CASE EsperarCpus
  <2>1. /\ hiloM.pc = "sem_cpus" /\ hiloM' = EnSelect
        /\ UNCHANGED <<cpus, pcb, ejec, program, cpu, bandeja, hiloL, ejecutando, forz>>
    BY <1>5 DEF EsperarCpus, listas, nuevas
  <2>2. hiloM'.pc \notin {"P12", "P13", "K23"} /\ \A p \in Seguidos' : ~DevueltoA(p)
    BY <2>1 DEF EnSelect, DevueltoA
  <2> QED
    BY <1>1, <1>2, <2>1, <2>2, SigueSinCpu DEF Seguidos, Corriendo, Buscado, PcbsBien
<1>6. CASE MirarDiferencia \/ ActualizarGrado \/ \E g \in Grados : CambiarGrado(g)
  <2>1. UNCHANGED <<cpus, pcb, ejec, program, cpu, bandeja, hiloL, hiloM, ejecutando, forz>>
    BY <1>6 DEF MirarDiferencia, ActualizarGrado, CambiarGrado, listas, vars
  <2> QED
    BY <1>1, <1>2, <2>1, SigueSinCpu DEF Seguidos, Corriendo, Buscado, PcbsBien
<1>7. CASE Rechazar \/ \E p \in Pids : C02(p) \/ FinalizarProcesoConsola(p)
  <2>1. PICK q \in {"M", "N", "consola"} : forz = SinForzar /\ \E p : Forzar(q, p)
    BY <1>7 DEF Rechazar, C02, FinalizarProcesoConsola, Libre
  <2>2. UNCHANGED <<cpus, pcb, ejec, program, cpu, bandeja, hiloL, ejecutando>>
    BY <1>7 DEF Rechazar, C02, FinalizarProcesoConsola, listas, vars
  <2>3. hiloM' = hiloM \/ (hiloM = EnSelect /\ hiloM' = [EnSelect EXCEPT !.pc = "C02"])
    BY <1>7 DEF Rechazar, C02, FinalizarProcesoConsola, vars
  <2>4. hiloM' = hiloM \/ /\ hiloM'.pc \notin {"P12", "P13", "K23"}
                          /\ \A r \in Seguidos' : ~DevueltoA(r)
    BY <2>3 DEF EnSelect, DevueltoA
  <2>5. forz.de = "" /\ forz'.de = "" /\ forz'.quien = q
    BY <2>1 DEF SinForzar, Forzar
  <2> QED
    BY <1>1, <1>2, <2>2, <2>4, <2>5, SigueSinCpu DEF Seguidos, Corriendo, Buscado, PcbsBien
<1>8. CASE \E c \in Cpus : ConectarCpu(c)
  <2>1. PICK c \in Cpus : ConectarCpu(c)
    BY <1>8
  <2>2. /\ cpus' = Append(cpus, c)
        /\ UNCHANGED <<pcb, ejec, program, cpu, bandeja, hiloL, hiloM, ejecutando, forz>>
    BY <2>1 DEF ConectarCpu, AgregarCpu, listas, nuevas
  <2>3. cpus' \in Seq(Cpus)
    BY <1>2, <2>2
  <2> QED
    BY <1>1, <1>2, <2>2, <2>3, SigueSinCpu DEF Seguidos, Corriendo, Buscado, PcbsBien
<1> QED
  BY <1>3, <1>4, <1>5, <1>6, <1>7, <1>8

LEMMA CapaForzar ==
  ASSUME FInv, Capa, Sanas, Sanas', riesgos \subseteq riesgos', ForzarFinalizacion
  PROVE  Capa'
<1>1. TiposCpu /\ EnFase /\ Anotadas /\ ConCpu /\ Buscado /\ ~caido
  BY DEF Capa, Sanas
<1>2. cpus \in Seq(Cpus) /\ PcbsBien
  BY <1>1 DEF TiposCpu
<1>3. Tipos /\ Victima /\ UnSitio
  BY <1>1 DEF FInv, Vivo
<1>4. forz \in Busquedas
  BY <1>3 DEF Tipos
<1>5. CASE ForzarListas
  <2> DEFINE p == forz.pid
             de == IF p \in ejecutando THEN "ejecutando"
                   ELSE IF p \in bloqueados THEN "bloqueados" ELSE ""
             x == IF de = "" THEN Nadie ELSE p
  <2>1. /\ forz.pc = "listas" /\ ejecutando' = ejecutando \ {p}
        /\ forz'.pc = "nuevos" /\ forz'.quien = forz.quien /\ forz'.de = de /\ forz'.preso = x
        /\ forz.quien = "consola" /\ de = "ejecutando" => "consola" \in riesgos'
        /\ UNCHANGED <<cpus, pcb, ejec, program, cpu, bandeja, hiloL, hiloM>>
    BY <1>4, <1>5 DEF ForzarListas, Busquedas
  <2>2. p \in Pids /\ forz.quien # ""
    BY <1>1, <1>3, <2>1 DEF Victima, Buscado
  <2>3. de = "ejecutando" => p \in ejecutando
    OBVIOUS
  <2> HIDE DEF de
  <2>4. Seguidos' \subseteq Seguidos
    BY <2>1, <2>3 DEF Seguidos, Corriendo
  <2>5. de = "ejecutando" => forz.quien = "M" \/ "consola" \in riesgos'
    <3>1. de = "ejecutando" => forz.quien # "N"
      BY <1>3, <2>2, <2>3 DEF Victima, UnSitio, Apartes
    <3>2. forz.quien \in {"", "M", "N", "consola"}
      BY <1>3, CamposForzar
    <3> QED
      BY <2>1, <2>2, <3>1, <3>2
  <2>6. Buscado'
    BY <2>1, <2>2, <2>5 DEF Buscado
  <2> QED
    BY <1>1, <1>2, <2>1, <2>4, <2>6, SigueSinCpu DEF PcbsBien
<1>6. CASE \E q \in {"nuevos", "listos"}, sig \in {"listos", "matar"} : Sacar(q, sig)
  <2>1. PICK q \in {"nuevos", "listos"}, sig \in {"listos", "matar"} : Sacar(q, sig)
    BY <1>6
  <2>2. /\ forz.pc = q
        /\ UNCHANGED <<cpus, pcb, ejec, program, cpu, bandeja, hiloL, hiloM, ejecutando>>
    BY <2>1 DEF Sacar
  <2>3. /\ forz'.quien = forz.quien
        /\ \/ forz'.de = forz.de /\ forz'.preso = forz.preso
           \/ forz'.de = q
    BY <1>4, <2>1 DEF Sacar, Busquedas
  <2>4. Buscado'
    BY <1>1, <2>2, <2>3 DEF Buscado
  <2>5. Seguidos' \subseteq Seguidos
    BY <2>2, <2>3 DEF Seguidos, Corriendo
  <2> QED
    BY <1>1, <1>2, <2>2, <2>4, <2>5, SigueSinCpu DEF PcbsBien
<1>7. CASE Devolver
  <2>1. /\ forz'.de = forz.de /\ forz'.preso = forz.preso /\ forz'.quien = forz.quien
        /\ forz'.pc = forz.pc
        /\ UNCHANGED <<cpus, pcb, ejec, program, cpu, bandeja, hiloL, hiloM, ejecutando>>
    BY <1>4, <1>7 DEF Devolver, Busquedas
  <2> QED
    BY <1>1, <1>2, <2>1, SigueSinCpu DEF Seguidos, Corriendo, Buscado, PcbsBien
<1>8. CASE Fin /\ forz.pc = "matar" /\ ejecutando' \subseteq Corriendo
  <2>1. /\ forz'.de = "" /\ forz'.pc = "nada"
        /\ UNCHANGED <<cpus, pcb, ejec, program, cpu, bandeja, hiloL>>
    BY <1>8 DEF Fin, SinForzar
  <2>2. hiloM' = hiloM \/ (hiloM' = EnSelect /\ hiloM.pc = "C02")
    BY <1>3, <1>8 DEF Fin, Victima
  <2>3. hiloM' = hiloM \/ /\ hiloM'.pc \notin {"P12", "P13", "K23"}
                          /\ \A r \in Seguidos' : ~DevueltoA(r)
    BY <2>2 DEF EnSelect, DevueltoA
  <2>4. Seguidos' \subseteq Seguidos /\ Buscado'
    BY <1>8, <2>1 DEF Seguidos, Corriendo, Buscado
  <2> QED
    BY <1>1, <1>2, <2>1, <2>3, <2>4, SigueSinCpu DEF PcbsBien
<1>9. CASE NoEstaba \/ Terminar
  BY <1>8, <1>9 DEF NoEstaba, Terminar, Seguidos, Corriendo
<1>10. CASE PedirPcbError
  <2>1. forz.de = "ejecutando" /\ forz.pc = "matar" /\ Fin /\ ejecutando' = ejecutando \cup {forz.pid}
    BY <1>10 DEF PedirPcbError, Sanas
  <2>2. forz.preso = forz.pid
    BY <1>3, <2>1 DEF Victima
  <2> QED
    BY <1>8, <2>1, <2>2 DEF Seguidos, Corriendo
<1>11. CASE TerminarNuevo
  BY <1>11 DEF TerminarNuevo, Sanas
<1> QED
  BY <1>5, <1>6, <1>7, <1>9, <1>10, <1>11 DEF ForzarFinalizacion, SacarNuevo, SacarListo

LEMMA LibreEs ==
  ASSUME cpus \in Seq(Cpus), CpuLibre # Nadie
  PROVE  CpuLibre \in Cpus /\ ~ejec[CpuLibre]
<1> DEFINE D == {i \in DOMAIN cpus : ~ejec[cpus[i]]}
<1>1. DOMAIN cpus = 1 .. Len(cpus) /\ \A i \in DOMAIN cpus : cpus[i] \in Cpus
  BY LenProperties, ElementOfSeq
<1>2. D # {} /\ CpuLibre = cpus[Min(D)]
  BY DEF CpuLibre
<1>3. D \in SUBSET Nat
  BY <1>1
<1>4. Min(D) \in D
  <2> HIDE DEF D
  <2> QED
    BY <1>2, <1>3, MinEsMinimo
<1>5. Min(D) \in DOMAIN cpus /\ ~ejec[cpus[Min(D)]]
  BY <1>4
<1> QED
  BY <1>1, <1>2, <1>5

(* A CPU that is not noted as busy has nothing. *)
LEMMA NadaTiene ==
  ASSUME Capa, NEW c \in Cpus, ~ejec[c], hiloL.pid = Nadie
  PROVE  /\ cpu[c].pid = Nadie /\ cpu[c].fase = "libre"
         /\ bandeja[c].pid = Nadie /\ bandeja[c].cod = "nada"
<1>1. TiposCpu /\ EnFase /\ Anotadas
  BY DEF Capa
<1>2. \A p \in Pids : ~Tiene(c, p)
  BY <1>1, NadieAparte DEF Anotadas
<1>3. /\ cpu[c].pid \in Pids \cup {Nadie} /\ bandeja[c].pid \in Pids \cup {Nadie}
      /\ bandeja[c].cod \in Mensajes
  <2>1. cpu[c] \in Maquina /\ bandeja[c] \in Carta
    BY <1>1 DEF TiposCpu
  <2> QED
    BY <2>1 DEF Maquina, Carta
<1>4. cpu[c].pid = Nadie /\ bandeja[c].pid = Nadie
  BY <1>2, <1>3 DEF Tiene
<1>5. /\ cpu[c].fase = "libre" /\ bandeja[c].cod \in {"nada", "P14", "P15"}
      /\ bandeja[c].cod \notin {"P14", "P15"}
  BY <1>1, <1>4 DEF EnFase
<1> QED
  BY <1>4, <1>5

LEMMA CapaEnviarPcb ==
  ASSUME FInv, Capa, Sanas, Sanas', riesgos \subseteq riesgos', EnviarPcb
  PROVE  Capa'
<1> DEFINE p == IF listos = <<>> THEN Nadie ELSE Head(listos)
           c == CpuLibre
           f == [fase |-> "corre", pid |-> pcb[p].pid, pc |-> pcb[p].pc, inst |-> 0]
<1>1. TiposCpu /\ EnFase /\ Anotadas /\ ConCpu /\ Buscado /\ ~caido /\ ~caido'
  BY DEF Capa, Sanas
<1>2. /\ hiloL = SinDespacho
      /\ UNCHANGED <<cpus, pcb, ejec, program, bandeja, hiloM, ejecutando, forz>>
      /\ \/ UNCHANGED <<hiloL, cpu>>
         \/ /\ p # Nadie /\ c # Nadie /\ hiloL' = [pid |-> p, cpu |-> c]
            /\ cpu' = [cpu EXCEPT ![c] = f]
  BY <1>1 DEF EnviarPcb, Despachar
<1>3. cpus \in Seq(Cpus) /\ PcbsBien
  BY <1>1 DEF TiposCpu
<1>4. CASE UNCHANGED <<hiloL, cpu>>
  BY <1>1, <1>2, <1>3, <1>4, SigueSinCpu DEF Seguidos, Corriendo, Buscado, PcbsBien
<1>5. CASE /\ p # Nadie /\ c # Nadie /\ hiloL' = [pid |-> p, cpu |-> c]
           /\ cpu' = [cpu EXCEPT ![c] = f]
  <2>1. p \in Pids
    <3>1. listos \in Seq(Pids \cup {Nadie}) /\ SinRepetidos(listos)
      BY <1>1 DEF FInv, Vivo, Tipos, UnSitio
    <3>2. listos # <<>> /\ p = Head(listos)
      BY <1>5
    <3> QED
      BY <1>5, <3>1, <3>2, ListosPrimero
  <2>2. c \in Cpus /\ ~ejec[c]
    BY <1>3, <1>5, LibreEs
  <2>3. hiloL.pid = Nadie
    BY <1>2 DEF SinDespacho
  <2>4. cpu[c].pid = Nadie /\ bandeja[c].pid = Nadie /\ bandeja[c].cod = "nada"
    BY <2>2, <2>3, NadaTiene
  <2>5. f \in Maquina /\ f.fase = "corre" /\ f.pid = p
    BY <1>3, <2>1 DEF PcbsBien, Maquina
  <2> HIDE DEF p, c, f
  <2>6. /\ cpu' \in [Cpus -> Maquina] /\ cpu'[c] = f
        /\ \A d \in Cpus \ {c} : cpu'[d] = cpu[d]
    BY <1>1, <1>5, <2>2, <2>5 DEF TiposCpu
  <2>7. /\ hiloL'.pid = p /\ hiloL'.cpu = c
    BY <1>5
  <2>8. TiposCpu'
    BY <1>1, <1>2, <2>6 DEF TiposCpu, PcbsBien
  <2>9. EnFase'
    BY <1>1, <1>2, <2>1, <2>4, <2>5, <2>6, NadieAparte DEF EnFase
  <2>10. \A d \in Cpus, q \in Pids : Tiene(d, q)' <=> Tiene(d, q) \/ (d = c /\ q = p)
    BY <1>2, <2>4, <2>5, <2>6, NadieAparte DEF Tiene
  <2>11. Anotadas'
    <3>1. \A d \in Cpus, q \in Pids : Tiene(d, q)' =>
            (ejec'[d] /\ program'[d] = q) \/ (hiloL'.pid = q /\ hiloL'.cpu = d)
      BY <1>1, <1>2, <2>3, <2>7, <2>10, NadieAparte DEF Anotadas
    <3>2. hiloL'.cpu \in Cpus /\ ~ejec'[hiloL'.cpu] /\ Tiene(hiloL.cpu, hiloL.pid)'
      BY <1>2, <2>2, <2>5, <2>6, <2>7 DEF Tiene
    <3>3. hiloM.pc = "K23" => hiloM.cpu # c /\ hiloM.cpu \in Cpus
      BY <1>1, <2>2 DEF Anotadas
    <3> QED
      BY <1>1, <1>2, <2>6, <3>1, <3>2, <3>3 DEF Anotadas
  <2>12. ConCpu'
    <3>1. Seguidos' \subseteq Seguidos /\ Seguidos \subseteq Pids
      BY <1>1, <1>2, QuienCorre DEF Seguidos, Corriendo
    <3> QED
      BY <1>1, <1>2, <2>10, <3>1 DEF ConCpu, DevueltoA
  <2> QED
    BY <1>1, <1>2, <2>8, <2>9, <2>11, <2>12 DEF Capa, Buscado
<1> QED
  BY <1>2, <1>4, <1>5

LEMMA CapaAnotarEnvio ==
  ASSUME FInv, Capa, Sanas, riesgos \subseteq riesgos', AnotarEnvio
  PROVE  Capa'
<1> DEFINE p == hiloL.pid
           c == hiloL.cpu
<1>1. TiposCpu /\ EnFase /\ Anotadas /\ ConCpu /\ Buscado /\ ~caido
  BY DEF Capa, Sanas
<1>2. /\ hiloL # SinDespacho /\ hiloL' = SinDespacho
      /\ ejecutando' = ejecutando \cup {p}
      /\ ejec' = [ejec EXCEPT ![c] = TRUE] /\ program' = [program EXCEPT ![c] = p]
      /\ UNCHANGED <<cpus, pcb, cpu, bandeja, hiloM, forz>>
  BY DEF AnotarEnvio, AnotarDespacho
<1>3. p \in Pids /\ c \in Cpus /\ ~ejec[c] /\ Tiene(c, p)
  BY <1>1, <1>2, QuienCorre DEF Anotadas
<1>4. /\ ejec' \in [Cpus -> BOOLEAN] /\ program' \in [Cpus -> Pids \cup {Nadie}]
      /\ ejec'[c] /\ program'[c] = p
      /\ \A d \in Cpus \ {c} : ejec'[d] = ejec[d] /\ program'[d] = program[d]
  BY <1>1, <1>2, <1>3 DEF TiposCpu
<1>5. \A d, q : Tiene(d, q)' <=> Tiene(d, q)
  BY <1>2 DEF Tiene
<1>6. TiposCpu' /\ EnFase'
  BY <1>1, <1>2, <1>4 DEF TiposCpu, EnFase, PcbsBien
<1>7. Anotadas'
  <2>1. \A d \in Cpus, q \in Pids : Tiene(d, q)' => ejec'[d] /\ program'[d] = q
    BY <1>1, <1>3, <1>4, <1>5 DEF Anotadas
  <2>2. hiloM.pc = "K23" => hiloM.cpu # c
    BY <1>1, <1>3 DEF Anotadas
  <2> QED
    BY <1>1, <1>2, <1>4, <2>1, <2>2 DEF Anotadas
<1>8. ConCpu'
  <2>1. Seguidos' \subseteq Seguidos \cup {p}
    BY <1>2 DEF Seguidos, Corriendo
  <2> QED
    BY <1>1, <1>2, <1>3, <1>5, <2>1 DEF ConCpu, DevueltoA
<1> QED
  BY <1>1, <1>2, <1>6, <1>7, <1>8 DEF Capa, Buscado

(* The message is read: nothing is left of it. *)
LEMMA CartaLeida ==
  ASSUME TiposCpu, NEW c \in Cpus, Leido(c)
  PROVE  /\ bandeja' \in [Cpus -> Carta] /\ bandeja'[c] = Vacia
         /\ Vacia \in Carta /\ Vacia.pid = Nadie /\ Vacia.cod = "nada"
         /\ \A d \in Cpus \ {c} : bandeja'[d] = bandeja[d]
<1>1. Vacia \in Carta /\ Vacia.pid = Nadie /\ Vacia.cod = "nada"
  BY DEF Vacia, Carta, Mensajes
<1> QED
  BY <1>1 DEF Leido, TiposCpu

(* What the Kernel reads that is a PCB is that of the program it had noted. *)
LEMMA CartaDelPrograma ==
  ASSUME Capa, NEW c \in Cpus, bandeja[c].cod \in {"P12", "P13", "P16"}, hiloL.cpu # c
  PROVE  /\ bandeja[c].pid \in Pids /\ program[c] = bandeja[c].pid /\ bandeja[c].pc \in Nat
         /\ ejec[c] /\ cpu[c].pid = Nadie
<1>1. TiposCpu /\ EnFase /\ Anotadas
  BY DEF Capa
<1>2. bandeja[c] \in Carta
  BY <1>1 DEF TiposCpu
<1>3. bandeja[c].pid # Nadie /\ cpu[c].pid = Nadie
  BY <1>1 DEF EnFase
<1>4. bandeja[c].pid \in Pids /\ bandeja[c].pc \in Nat
  BY <1>2, <1>3 DEF Carta
<1> QED
  BY <1>1, <1>3, <1>4 DEF Anotadas, Tiene

LEMMA CapaDevuelve ==
  ASSUME FInv, Capa, Sanas, NEW c \in Cpus, NEW cod \in {"P12", "P13"}, DevuelvePcb(c, cod),
         UNCHANGED nuevas
  PROVE  Capa'
<1> DEFINE p == bandeja[c].pid
           r == [pid |-> p, pc |-> bandeja[c].pc]
<1>1. TiposCpu /\ EnFase /\ Anotadas /\ ConCpu /\ Buscado /\ ~caido
  BY DEF Capa, Sanas
<1>2. /\ hiloM = EnSelect /\ bandeja[c].cod = cod /\ hiloL.cpu # c
      /\ pcb' = [pcb EXCEPT ![program[c]] = r] /\ ejec' = [ejec EXCEPT ![c] = FALSE]
      /\ hiloM' = [pc |-> cod, cpu |-> c, pid |-> p, sem |-> Nadie] /\ Leido(c)
      /\ UNCHANGED <<cpus, program, cpu, hiloL, ejecutando, forz, riesgos>>
  BY DEF DevuelvePcb, Mensaje, listas, nuevas
<1>3. p \in Pids /\ program[c] = p /\ r.pid = p /\ r \in [pid : Pids, pc : Nat] /\ cpu[c].pid = Nadie
  BY <1>2, CartaDelPrograma
<1>4. /\ bandeja' \in [Cpus -> Carta] /\ bandeja'[c].pid = Nadie /\ bandeja'[c].cod = "nada"
      /\ \A d \in Cpus \ {c} : bandeja'[d] = bandeja[d]
  BY <1>1, <1>2, CartaLeida
<1> HIDE DEF r, p
<1>5. PcbsBien'
  BY <1>1, <1>2, <1>3 DEF TiposCpu, PcbsBien
<1>6. /\ ejec' \in [Cpus -> BOOLEAN] /\ ~ejec'[c]
      /\ \A d \in Cpus \ {c} : ejec'[d] = ejec[d]
  BY <1>1, <1>2 DEF TiposCpu
<1>7. TiposCpu'
  BY <1>1, <1>2, <1>4, <1>5, <1>6 DEF TiposCpu
<1>8. EnFase'
  <2>1. cpu[c].fase = "libre" /\ cpu[c].fase # "espera"
    BY <1>1, <1>2 DEF EnFase
  <2> QED
    BY <1>1, <1>2, <1>4, <2>1 DEF EnFase
<1>9. \A d \in Cpus, q \in Pids : Tiene(d, q)' <=> Tiene(d, q) /\ d # c
  BY <1>2, <1>3, <1>4, NadieAparte DEF Tiene
<1>10. /\ hiloM'.pc = cod /\ hiloM'.pid = p /\ hiloM.pc = "select"
  BY <1>2 DEF EnSelect
<1>11. Anotadas'
  <2>1. \A d \in Cpus, q \in Pids : Tiene(d, q)' =>
          (ejec'[d] /\ program'[d] = q) \/ (hiloL'.pid = q /\ hiloL'.cpu = d)
    BY <1>1, <1>2, <1>6, <1>9 DEF Anotadas
  <2>2. hiloL' # SinDespacho => /\ hiloL'.cpu \in Cpus /\ ~ejec'[hiloL'.cpu]
                                /\ Tiene(hiloL.cpu, hiloL.pid)'
    <3>1. hiloL # SinDespacho => hiloL.pid \in Pids
      BY <1>1, QuienCorre
    <3>2. hiloL # SinDespacho => Tiene(hiloL.cpu, hiloL.pid)'
      BY <1>1, <1>2, <1>9, <3>1 DEF Anotadas
    <3> QED
      BY <1>1, <1>2, <1>6, <3>2 DEF Anotadas
  <2> QED
    BY <1>10, <2>1, <2>2 DEF Anotadas
<1>12. ConCpu'
  <2>1. Seguidos' \subseteq Seguidos /\ Seguidos \subseteq Pids
    BY <1>1, <1>2, QuienCorre DEF Seguidos, Corriendo
  <2>2. ASSUME NEW q \in Seguidos PROVE (\E d \in Cpus : Tiene(d, q)') \/ DevueltoA(q)'
    <3>1. PICK d \in Cpus : Tiene(d, q)
      BY <1>1, <1>10 DEF ConCpu, DevueltoA
    <3>2. CASE d = c
      <4>1. q = p
        BY <1>3, <2>1, <3>1, <3>2, NadieAparte DEF Tiene, p
      <4> QED
        BY <1>10, <4>1 DEF DevueltoA
    <3>3. CASE d # c
      BY <1>9, <2>1, <3>1, <3>3
    <3> QED
      BY <3>2, <3>3
  <2> QED
    BY <2>1, <2>2 DEF ConCpu
<1> QED
  BY <1>1, <1>2, <1>7, <1>8, <1>11, <1>12 DEF Capa, Buscado

(* sem_wait_ and sem_signal answer: the CPU keeps its process. *)
LEMMA CapaContesta ==
  ASSUME FInv, Capa, Sanas, Sanas', NEW c \in Cpus, program[c] # Nadie, P14(c) \/ P15(c),
         UNCHANGED nuevas
  PROVE  Capa'
<1>1. TiposCpu /\ EnFase /\ Anotadas /\ ConCpu /\ Buscado /\ ~caido
  BY DEF Capa, Sanas
<1>2. /\ hiloM = EnSelect /\ hiloL.cpu # c /\ bandeja[c].cod \in {"P14", "P15"} /\ Leido(c)
      /\ UNCHANGED <<cpus, ejec, program, pcb, hiloL, ejecutando, forz, riesgos>>
      /\ \/ Pasa(c, "OK") /\ UNCHANGED hiloM
         \/ /\ Pasa(c, "K23")
            /\ hiloM'.pc = "K23" /\ hiloM'.cpu = c /\ hiloM'.pid = program[c]
  BY DEF P14, P15, Mensaje, Pasa, listas, nuevas
<1>3. PICK f \in {"OK", "K23"} :
        /\ Pasa(c, f)
        /\ f = "OK" => UNCHANGED hiloM
        /\ f = "K23" => (hiloM'.pc = "K23" /\ hiloM'.cpu = c /\ hiloM'.pid = program[c])
  BY <1>2
<1>4. /\ bandeja' \in [Cpus -> Carta] /\ bandeja'[c].pid = Nadie /\ bandeja'[c].cod = "nada"
      /\ \A d \in Cpus \ {c} : bandeja'[d] = bandeja[d]
  BY <1>1, <1>2, CartaLeida
<1>5. /\ cpu[c] \in Maquina /\ cpu[c].fase = "espera" /\ cpu[c].pid \in Pids
      /\ bandeja[c].pid = Nadie
  <2>1. cpu[c] \in Maquina
    BY <1>1 DEF TiposCpu
  <2>2. cpu[c].fase = "espera" /\ bandeja[c].pid = Nadie
    BY <1>1, <1>2 DEF EnFase
  <2>3. cpu[c].pid # Nadie
    BY <1>1, <2>2 DEF EnFase
  <2> QED
    BY <2>1, <2>2, <2>3 DEF Maquina
<1>6. /\ cpu' \in [Cpus -> Maquina] /\ cpu'[c].fase = f /\ cpu'[c].pid = cpu[c].pid
      /\ \A d \in Cpus \ {c} : cpu'[d] = cpu[d]
  <2> DEFINE v == [fase |-> f, pid |-> cpu[c].pid, pc |-> cpu[c].pc, inst |-> cpu[c].inst]
  <2>1. v \in Maquina /\ v.fase = f /\ v.pid = cpu[c].pid
    BY <1>5 DEF Maquina
  <2>2. [cpu[c] EXCEPT !.fase = f] = v
    BY <1>5 DEF Maquina
  <2> HIDE DEF v
  <2>3. cpu' = [cpu EXCEPT ![c] = v]
    <3>1. cpu' = [cpu EXCEPT ![c] = [cpu[c] EXCEPT !.fase = f]]
      BY <1>3 DEF Pasa
    <3> QED
      BY <2>2, <3>1
  <2> QED
    BY <1>1, <2>1, <2>3 DEF TiposCpu
<1>7. ejec[c] /\ program[c] = cpu[c].pid
  BY <1>1, <1>2, <1>5 DEF Anotadas, Tiene
<1>8. TiposCpu'
  BY <1>1, <1>2, <1>4, <1>6 DEF TiposCpu, PcbsBien
<1>9. EnFase'
  BY <1>1, <1>4, <1>5, <1>6, NadieAparte DEF EnFase
<1>10. \A d \in Cpus, q \in Pids : Tiene(d, q)' <=> Tiene(d, q)
  BY <1>4, <1>5, <1>6, NadieAparte DEF Tiene
<1>11. hiloM.pc = "select"
  BY <1>2 DEF EnSelect
<1>12. Anotadas'
  <2>1. \A d \in Cpus, q \in Pids : Tiene(d, q)' =>
          (ejec'[d] /\ program'[d] = q) \/ (hiloL'.pid = q /\ hiloL'.cpu = d)
    BY <1>1, <1>2, <1>10 DEF Anotadas
  <2>2. hiloL' # SinDespacho => /\ hiloL'.cpu \in Cpus /\ ~ejec'[hiloL'.cpu]
                                /\ Tiene(hiloL.cpu, hiloL.pid)'
    <3>1. hiloL # SinDespacho => hiloL.pid \in Pids
      BY <1>1, QuienCorre
    <3> QED
      BY <1>1, <1>2, <1>10, <3>1 DEF Anotadas
  <2>3. hiloM'.pc = "K23" => /\ hiloM'.cpu \in Cpus /\ ejec'[hiloM'.cpu]
                             /\ hiloM'.pid \in Pids /\ program'[hiloM'.cpu] = hiloM'.pid
                             /\ cpu'[hiloM'.cpu].fase = "K23"
    <3>1. CASE f = "OK"
      BY <1>3, <1>11, <3>1
    <3>2. CASE f = "K23"
      BY <1>2, <1>3, <1>5, <1>6, <1>7, <3>2
    <3> QED
      BY <3>1, <3>2
  <2> QED
    BY <2>1, <2>2, <2>3 DEF Anotadas
<1>13. ConCpu'
  <2>1. Seguidos' \subseteq Seguidos /\ Seguidos \subseteq Pids
    BY <1>1, <1>2, QuienCorre DEF Seguidos, Corriendo
  <2>2. \A q : ~DevueltoA(q)
    BY <1>11 DEF DevueltoA
  <2> QED
    BY <1>1, <1>10, <2>1, <2>2 DEF ConCpu
<1> QED
  BY <1>1, <1>2, <1>8, <1>9, <1>12, <1>13 DEF Capa, Buscado

LEMMA CapaAtender ==
  ASSUME FInv, Capa, Sanas, Sanas', NEW c \in Cpus, AtenderMensaje(c)
  PROVE  Capa'
<1>1. UNCHANGED nuevas /\ ~caido'
  BY DEF AtenderMensaje, Sanas
<1>2. program[c] # Nadie /\ AtenderCpu(c)
  BY <1>1 DEF AtenderMensaje
<1> QED
  BY <1>1, <1>2, CapaDevuelve, CapaContesta DEF AtenderCpu, P12, P13

(* hiloM goes on with what it has read. *)
LEMMA CapaFinalizar ==
  ASSUME FInv, Capa, Sanas, Sanas', FinalizarQuantum \/ FinalizarProceso, UNCHANGED nuevas
  PROVE  Capa'
<1>1. TiposCpu /\ Buscado /\ ~caido /\ ~caido'
  BY DEF Capa, Sanas
<1>2. /\ hiloM.pc \in {"P12", "P13"} /\ hiloM' = EnSelect
      /\ ejecutando' = ejecutando \ {hiloM.pid}
      /\ UNCHANGED <<cpus, ejec, program, pcb, cpu, bandeja, hiloL, forz, riesgos>>
  BY <1>1 DEF FinalizarQuantum, FinalizarProceso, nuevas
<1>3. forz.de = "ejecutando" => "consola" \in riesgos
  <2>1. forz.quien # "M"
    BY <1>1, <1>2, MoverEnSelect
  <2> QED
    BY <1>1, <2>1 DEF Buscado
<1>4. Seguidos' \subseteq Seguidos /\ \A p \in Seguidos' : ~DevueltoA(p)
  BY <1>2, <1>3 DEF Seguidos, Corriendo, DevueltoA
<1>5. hiloM'.pc \notin {"P12", "P13", "K23"}
  BY <1>2 DEF EnSelect
<1> QED
  BY <1>1, <1>2, <1>4, <1>5, SigueSinCpu DEF TiposCpu, PcbsBien, Buscado

LEMMA CapaBloquear ==
  ASSUME FInv, Capa, Sanas, Sanas', BloquearProceso, UNCHANGED nuevas
  PROVE  Capa'
<1> DEFINE c == hiloM.cpu
           p == hiloM.pid
<1>1. TiposCpu /\ EnFase /\ Anotadas /\ ConCpu /\ Buscado /\ ~caido /\ ~caido'
  BY DEF Capa, Sanas
<1>2. /\ hiloM.pc = "K23" /\ bandeja[c].cod # "nada" /\ pcb' = PcbTrasK23 /\ Leido(c)
      /\ ejecutando' = ejecutando \ {p} /\ ejec' = [ejec EXCEPT ![c] = FALSE]
      /\ hiloM' = EnSelect
      /\ UNCHANGED <<cpus, program, cpu, hiloL, forz, riesgos>>
  BY <1>1 DEF BloquearProceso, nuevas
<1>3. c \in Cpus /\ ejec[c] /\ p \in Pids /\ program[c] = p
  BY <1>1, <1>2 DEF Anotadas
<1>4. bandeja[c].cod \in {"P12", "P13", "P16"} /\ cpu[c].fase = "libre"
  <2>1. bandeja[c].cod \in Mensajes
    BY <1>1, <1>3 DEF TiposCpu, Carta
  <2>2. cpu[c].fase = "K23" \/ bandeja[c].cod \in {"P12", "P13", "P16"}
    BY <1>1, <1>2 DEF Anotadas
  <2>3. bandeja[c].cod \in {"P12", "P13", "P16"} => cpu[c].fase = "libre"
    BY <1>1, <1>3 DEF EnFase
  <2>4. bandeja[c].cod \in {"P14", "P15"} => cpu[c].fase = "espera"
    BY <1>1, <1>3 DEF EnFase
  <2> QED
    BY <1>2, <2>1, <2>2, <2>3, <2>4 DEF Mensajes
<1>5. hiloL.cpu # c
  <2>1. hiloL # SinDespacho => hiloL.cpu # c
    BY <1>1, <1>3 DEF Anotadas
  <2>2. hiloL = SinDespacho => hiloL.cpu = Nadie
    BY DEF SinDespacho
  <2> QED
    BY <1>3, <2>1, <2>2, NadieAparte
<1>6. bandeja[c].pid = p /\ bandeja[c].pc \in Nat /\ cpu[c].pid = Nadie
  BY <1>3, <1>4, <1>5, CartaDelPrograma
<1>7. /\ bandeja' \in [Cpus -> Carta] /\ bandeja'[c].pid = Nadie /\ bandeja'[c].cod = "nada"
      /\ \A d \in Cpus \ {c} : bandeja'[d] = bandeja[d]
  BY <1>1, <1>2, <1>3, CartaLeida
<1>8. PcbsBien'
  <2> DEFINE r == [pid |-> p, pc |-> bandeja[c].pc]
  <2>1. r \in [pid : Pids, pc : Nat] /\ r.pid = p
    BY <1>3, <1>6
  <2>2. pcb' = pcb \/ pcb' = [pcb EXCEPT ![p] = r]
    BY <1>2, <1>6 DEF PcbTrasK23
  <2> HIDE DEF r, p
  <2> QED
    BY <1>1, <1>3, <2>1, <2>2 DEF TiposCpu, PcbsBien
<1> HIDE DEF c, p
<1>9. /\ ejec' \in [Cpus -> BOOLEAN] /\ ~ejec'[c]
      /\ \A d \in Cpus \ {c} : ejec'[d] = ejec[d]
  BY <1>1, <1>2, <1>3 DEF TiposCpu
<1>10. TiposCpu'
  BY <1>1, <1>2, <1>7, <1>8, <1>9 DEF TiposCpu
<1>11. EnFase'
  BY <1>1, <1>2, <1>3, <1>4, <1>7 DEF EnFase
<1>12. \A d \in Cpus, q \in Pids : Tiene(d, q)' <=> Tiene(d, q) /\ d # c
  BY <1>2, <1>6, <1>7, NadieAparte DEF Tiene
<1>13. hiloM'.pc = "select"
  BY <1>2 DEF EnSelect
<1>14. Anotadas'
  <2>1. \A d \in Cpus, q \in Pids : Tiene(d, q)' =>
          (ejec'[d] /\ program'[d] = q) \/ (hiloL'.pid = q /\ hiloL'.cpu = d)
    BY <1>1, <1>2, <1>9, <1>12 DEF Anotadas
  <2>2. hiloL' # SinDespacho => /\ hiloL'.cpu \in Cpus /\ ~ejec'[hiloL'.cpu]
                                /\ Tiene(hiloL.cpu, hiloL.pid)'
    <3>1. hiloL # SinDespacho => hiloL.pid \in Pids
      BY <1>1, QuienCorre
    <3>2. hiloL # SinDespacho => Tiene(hiloL.cpu, hiloL.pid)'
      BY <1>1, <1>2, <1>5, <1>12, <3>1 DEF Anotadas
    <3> QED
      BY <1>1, <1>2, <1>5, <1>9, <3>2 DEF Anotadas
  <2> QED
    BY <1>13, <2>1, <2>2 DEF Anotadas
<1>15. ConCpu'
  <2>1. forz.quien # "M"
    BY <1>1, <1>2, MoverEnSelect
  <2>2. Seguidos' \subseteq Seguidos \ {p} /\ Seguidos \subseteq Pids
    BY <1>1, <1>2, <2>1, QuienCorre DEF Seguidos, Corriendo, Buscado
  <2>3. ASSUME NEW q \in Seguidos, q # p PROVE \E d \in Cpus : Tiene(d, q)'
    <3>1. PICK d \in Cpus : Tiene(d, q)
      BY <1>1, <1>2, <2>3 DEF ConCpu, DevueltoA
    <3>2. d # c
      BY <1>6, <2>2, <2>3, <3>1, NadieAparte DEF Tiene
    <3> QED
      BY <1>12, <2>2, <3>1, <3>2
  <2> QED
    BY <2>2, <2>3 DEF ConCpu
<1> QED
  BY <1>1, <1>2, <1>10, <1>11, <1>14, <1>15 DEF Capa, Buscado

(* A CPU runs an instruction: it goes on with its process, or hands it over *)
(* with the message.                                                        *)
LEMMA CapaInstruccion ==
  ASSUME FInv, Capa, Sanas, NEW c \in Cpus, NEW accion \in {"continuar", "P13", "P16"},
         Instruccion(c, accion), cpu[c].fase \in {"corre", "OK", "K23"},
         cpu[c].fase = "K23" => accion # "continuar",
         UNCHANGED <<cpus, ejec, program, pcb, hiloL, hiloM, ejecutando, forz>>,
         riesgos \subseteq riesgos'
  PROVE  Capa'
<1> DEFINE hechas == cpu[c].inst + 1
           cod == IF Algoritmo = "RR" /\ hechas = Quantum THEN "P12" ELSE accion
<1>1. TiposCpu /\ EnFase /\ Anotadas
  BY DEF Capa
<1>2. /\ Seguidos \subseteq Pids
      /\ hiloL # SinDespacho => hiloL.pid \in Pids
  BY QuienCorre DEF Sanas
<1>3. cpu[c] \in Maquina /\ bandeja[c] \in Carta
  BY <1>1 DEF TiposCpu
<1>4. bandeja[c].cod = "nada" /\ bandeja[c].pid = Nadie /\ cpu[c].pid # Nadie
  <2>1. bandeja[c].cod \in Mensajes
    BY <1>3 DEF Carta
  <2> QED
    BY <1>1, <2>1 DEF EnFase, Mensajes
<1>5. cpu[c].pid \in Pids /\ cpu[c].pc \in Nat /\ cpu[c].inst \in Nat
  BY <1>3, <1>4 DEF Maquina
<1>6. \A q \in Pids : Tiene(c, q) <=> cpu[c].pid = q
  BY <1>4, NadieAparte DEF Tiene
<1>7. CASE cod = "continuar"
  <2> DEFINE f == [fase |-> "corre", pid |-> cpu[c].pid, pc |-> cpu[c].pc + 1, inst |-> hechas]
  <2>1. cpu[c].fase # "K23"
    BY <1>7
  <2>2. cpu' = [cpu EXCEPT ![c] = f] /\ bandeja' = bandeja
    BY <1>7 DEF Instruccion
  <2>3. Deja(c, f, bandeja[c])
    BY <1>1, <2>2 DEF Deja, TiposCpu
  <2>4. f \in Maquina /\ f.fase = "corre" /\ f.pid = cpu[c].pid
    BY <1>5 DEF Maquina
  <2>5. ~ (hiloM.pc = "K23" /\ hiloM.cpu = c)
    BY <1>1, <1>4, <2>1 DEF Anotadas
  <2>6. \A q \in Pids : f.pid = q \/ bandeja[c].pid = q <=> Tiene(c, q)
    BY <1>4, <1>6, <2>4, NadieAparte
  <2> HIDE DEF f
  <2> QED
    BY <1>2, <1>3, <1>4, <2>3, <2>4, <2>5, <2>6, SigueUnaCpu
<1>8. CASE cod # "continuar"
  <2> DEFINE m == [cod |-> cod, pid |-> cpu[c].pid, pc |-> cpu[c].pc + 1, sem |-> Nadie]
  <2>1. Deja(c, Ocioso, m)
    BY <1>8 DEF Instruccion, Deja
  <2>2. cod \in {"P12", "P13", "P16"}
    BY <1>8
  <2> HIDE DEF cod
  <2>3. /\ m \in Carta /\ m.cod = cod /\ m.pid = cpu[c].pid
        /\ Ocioso \in Maquina /\ Ocioso.fase = "libre" /\ Ocioso.pid = Nadie
    BY <1>5, <2>2 DEF Ocioso, Mensajes, Maquina, Carta
  <2>4. \A q \in Pids : Ocioso.pid = q \/ m.pid = q <=> Tiene(c, q)
    BY <1>6, <2>3, NadieAparte
  <2> HIDE DEF m
  <2> QED
    BY <1>2, <1>4, <2>1, <2>2, <2>3, <2>4, SigueUnaCpu
<1> QED
  BY <1>7, <1>8

(* It asks the Kernel for a semaphore, and keeps its process. *)
LEMMA CapaPedir ==
  ASSUME FInv, Capa, Sanas, NEW c \in Cpus, NEW cod \in {"P14", "P15"}, NEW s \in Sems,
         Pedir(c, cod, s), cpu[c].fase = "corre",
         UNCHANGED <<cpus, ejec, program, pcb, hiloL, hiloM, ejecutando, forz>>,
         riesgos \subseteq riesgos'
  PROVE  Capa'
<1> DEFINE f == [fase |-> "espera", pid |-> cpu[c].pid, pc |-> cpu[c].pc, inst |-> cpu[c].inst]
           m == [cod |-> cod, pid |-> Nadie, pc |-> 0, sem |-> s]
<1>1. TiposCpu /\ EnFase /\ Anotadas
  BY DEF Capa
<1>2. /\ Seguidos \subseteq Pids
      /\ hiloL # SinDespacho => hiloL.pid \in Pids
  BY QuienCorre DEF Sanas
<1>3. cpu[c] \in Maquina /\ bandeja[c] \in Carta
  BY <1>1 DEF TiposCpu
<1>4. bandeja[c].cod = "nada" /\ bandeja[c].pid = Nadie /\ cpu[c].pid # Nadie
  <2>1. bandeja[c].cod \in Mensajes
    BY <1>3 DEF Carta
  <2> QED
    BY <1>1, <2>1 DEF EnFase, Mensajes
<1>5. [cpu[c] EXCEPT !.fase = "espera"] = f
  BY <1>3 DEF Maquina
<1>6. Deja(c, f, m)
  <2>1. cpu' = [cpu EXCEPT ![c] = [cpu[c] EXCEPT !.fase = "espera"]]
    BY DEF Pedir
  <2>2. bandeja' = [bandeja EXCEPT ![c] = m]
    BY DEF Pedir
  <2> HIDE DEF f, m
  <2> QED
    BY <1>5, <2>1, <2>2 DEF Deja
<1>7. f \in Maquina /\ f.fase = "espera" /\ f.pid = cpu[c].pid
  BY <1>3 DEF Maquina
<1>8. m \in Carta /\ m.cod = cod /\ m.pid = Nadie
  BY DEF Carta, Mensajes
<1>9. ~ (hiloM.pc = "K23" /\ hiloM.cpu = c)
  BY <1>1, <1>4 DEF Anotadas
<1>10. \A q \in Pids : f.pid = q \/ m.pid = q <=> Tiene(c, q)
  BY <1>4, <1>7, <1>8, NadieAparte DEF Tiene
<1> HIDE DEF f, m
<1> QED
  BY <1>2, <1>4, <1>6, <1>7, <1>8, <1>9, <1>10, SigueUnaCpu

LEMMA CapaEjecutar ==
  ASSUME FInv, Capa, Sanas, NEW c \in Cpus, EjecutarInstruccion(c) \/ RecibirRespuesta(c)
  PROVE  Capa'
<1>1. ASSUME NEW accion \in {"continuar", "P13", "P16"}, TerminarInstruccion(c, accion),
             cpu[c].fase \in {"corre", "OK", "K23"}, cpu[c].fase = "K23" => accion # "continuar"
      PROVE  Capa'
  <2> DEFINE a == IF k21[c].antes + k21[c].despues > 0 THEN "P13" ELSE accion
  <2>1. /\ Instruccion(c, a) /\ a \in {"continuar", "P13", "P16"}
        /\ cpu[c].fase = "K23" => a # "continuar"
    BY <1>1 DEF TerminarInstruccion
  <2>2. UNCHANGED <<cpus, ejec, program, pcb, hiloL, hiloM, ejecutando, forz, riesgos>>
    BY <1>1 DEF TerminarInstruccion, listas
  <2> HIDE DEF a
  <2> QED
    BY <1>1, <2>1, <2>2, CapaInstruccion
<1>2. CASE RecibirRespuesta(c)
  BY <1>1, <1>2 DEF RecibirRespuesta
<1>3. CASE EjecutarInstruccion(c)
  <2> SUFFICES ASSUME NEW i, i = Guion[cpu[c].pid][cpu[c].pc + 1] PROVE Capa'
    OBVIOUS
  <2>1. /\ cpu[c].fase = "corre" /\ cpu[c].pc < Len(Guion[cpu[c].pid])
        /\ \/ i.op \in {"wait", "signal"} /\ Ejecutar(c) /\ UNCHANGED nuevas
           \/ i.op = "otra" /\ TerminarInstruccion(c, "continuar")
           \/ i.op = "fin"  /\ TerminarInstruccion(c, "P13")
    BY <1>3 DEF EjecutarInstruccion
  <2>2. CASE i.op \in {"wait", "signal"} /\ Ejecutar(c) /\ UNCHANGED nuevas
    <3>1. /\ \/ i.op = "wait" /\ Pedir(c, "P14", i.sem)
             \/ i.op = "signal" /\ Pedir(c, "P15", i.sem)
          /\ UNCHANGED <<cpus, ejec, program, pcb, hiloL, hiloM, ejecutando, forz, riesgos>>
      BY <2>2 DEF Ejecutar, listas, nuevas
    <3>2. cpu[c].pid \in Pids /\ cpu[c].pc \in Nat
      <4>1. cpu[c] \in Maquina /\ cpu[c].pid # Nadie
        BY <2>1 DEF Capa, TiposCpu, EnFase
      <4> QED
        BY <4>1 DEF Maquina
    <3>3. i \in Instrucciones
      <4>1. Guion[cpu[c].pid] \in Seq(Instrucciones)
        BY <3>2, PlanificadorOK
      <4> QED
        BY <2>1, <3>2, <4>1, ElementOfSeq, LenProperties
    <3>4. i.sem \in Sems
      BY <2>2, <3>3 DEF Instrucciones
    <3> QED
      BY <2>1, <3>1, <3>4, CapaPedir
  <2> QED
    BY <1>1, <2>1, <2>2
<1> QED
  BY <1>2, <1>3

LEMMA PasoCapa == FInv /\ CInv /\ [NextForzar]_<<vars, nuevas>> => CInv'
<1> SUFFICES ASSUME FInv, CInv, [NextForzar]_<<vars, nuevas>>, Sanas' PROVE Capa'
  BY DEF CInv
<1>1. CASE UNCHANGED <<vars, nuevas>>
  <2>1. UNCHANGED <<cpus, ejec, program, pcb, cpu, bandeja, hiloL, hiloM, ejecutando, forz, caido,
                    riesgos>>
    BY <1>1 DEF vars, nuevas, listas
  <2>2. Capa
    BY <2>1 DEF CInv, Sanas
  <2>3. Seguidos' \subseteq Seguidos /\ Buscado' /\ cpus' \in Seq(Cpus) /\ PcbsBien'
    BY <2>1, <2>2 DEF Seguidos, Corriendo, Capa, Buscado, TiposCpu, PcbsBien
  <2> QED
    BY <2>1, <2>2, <2>3, SigueSinCpu
<1>2. CASE NextForzar
  <2>1. ~caido /\ riesgos \subseteq riesgos'
    BY <1>2, SoloVivo
  <2>2. Sanas /\ Capa /\ muertas = {}
    <3>1. Sanas
      BY <2>1 DEF Sanas
    <3> QED
      BY <3>1, QuienCorre DEF CInv, Sanas
  <2>3. ~EnvioFallo
    BY DEF EnvioFallo, Sanas
  <2>4. \A c \in Cpus : ~Muere(c) /\ ~EliminarCpu(c)
    BY <2>2 DEF Muere, EliminarCpu, Sanas
  <2>5. CASE \/ IniciarPrograma \/ CargarNuevo \/ AdmitirNuevo \/ TomarFichas \/ EsperarCpus
             \/ MirarDiferencia \/ ActualizarGrado \/ Rechazar
             \/ \E g \in Grados : CambiarGrado(g)
             \/ \E p \in Pids : C02(p) \/ FinalizarProcesoConsola(p)
             \/ \E c \in Cpus : ConectarCpu(c)
    BY <2>1, <2>2, <2>5, CapaSinMover
  <2>6. CASE EnviarPcb \/ AnotarEnvio
    BY <2>1, <2>2, <2>6, CapaEnviarPcb, CapaAnotarEnvio
  <2>7. CASE SeguirMensaje
    BY <2>2, <2>7, CapaFinalizar, CapaBloquear DEF SeguirMensaje, SeguirM
  <2>8. CASE ForzarFinalizacion
    BY <2>1, <2>2, <2>8, CapaForzar
  <2>9. CASE \E c \in Cpus : AtenderMensaje(c) \/ EjecutarInstruccion(c) \/ RecibirRespuesta(c)
    BY <2>2, <2>9, CapaAtender, CapaEjecutar
  <2>10. \/ EnviarPcb \/ AnotarEnvio \/ SeguirMensaje \/ ForzarFinalizacion
         \/ IniciarPrograma \/ CargarNuevo \/ AdmitirNuevo \/ TomarFichas \/ EsperarCpus
         \/ MirarDiferencia \/ ActualizarGrado \/ Rechazar
         \/ \E g \in Grados : CambiarGrado(g)
         \/ \E p \in Pids : C02(p) \/ FinalizarProcesoConsola(p)
         \/ \E c \in Cpus : ConectarCpu(c)
         \/ \E c \in Cpus : AtenderMensaje(c) \/ EjecutarInstruccion(c) \/ RecibirRespuesta(c)
    BY <1>2, <2>3, <2>4, Zenon DEF NextForzar
  <2> QED
    BY <2>5, <2>6, <2>7, <2>8, <2>9, <2>10
<1> QED
  BY <1>1, <1>2

LEMMA InvarianteCapa == SpecForzar => []CInv
<1>1. InitForzar => CInv
  BY InicioCapa
<1>2. FInv /\ CInv /\ [NextForzar]_<<vars, nuevas>> => CInv'
  BY PasoCapa
<1> QED
  BY <1>1, <1>2, InvarianteForzar, PTL DEF SpecForzar
-----------------------------------------------------------------------------
(* Where a process is *)

(* How many times a process is in a queue that may hold NULLs as well. *)
LEMMA VecesEnListos ==
  ASSUME NEW q \in Seq(Pids \cup {Nadie}), SinRepetidos(q), NEW p, p # Nadie
  PROVE  Cardinality({i \in DOMAIN q : q[i] = p}) = IF p \in ToSet(q) THEN 1 ELSE 0
<1>1. DOMAIN q = 1 .. Len(q)
  BY LenProperties
<1>2. CASE p \in ToSet(q)
  <2>1. PICK k \in DOMAIN q : q[k] = p
    BY <1>2 DEF ToSet
  <2>2. {i \in DOMAIN q : q[i] = p} = {k}
    BY <1>1, <2>1 DEF SinRepetidos
  <2> QED
    BY <1>2, <2>2, FS_Singleton
<1>3. CASE p \notin ToSet(q)
  <2>1. {i \in DOMAIN q : q[i] = p} = {}
    BY <1>3 DEF ToSet
  <2> QED
    BY <1>3, <2>1, FS_EmptySet
<1> QED
  BY <1>2, <1>3

(* The lists and hands that are not queues, as Lugares counts them *)
EnConjunto(p, k) == p \in <<ejecutando, bloqueados, finalizados, rechazados, {hiloN},
                            {hiloL.pid}, {forz.mano}, {forz.preso}>>[k]

LEMMA ConjuntosEs ==
  ASSUME NEW p
  PROVE  /\ EnConjunto(p, 1) <=> p \in ejecutando
         /\ EnConjunto(p, 2) <=> p \in bloqueados
         /\ EnConjunto(p, 3) <=> p \in finalizados
         /\ EnConjunto(p, 4) <=> p \in rechazados
         /\ EnConjunto(p, 5) <=> p = hiloN
         /\ EnConjunto(p, 6) <=> p = hiloL.pid
         /\ EnConjunto(p, 7) <=> p = forz.mano
         /\ EnConjunto(p, 8) <=> p = forz.preso
BY DEF EnConjunto

(* A process of the Kernel is in one place, and in one only. *)
LEMMA UnLugarCadaUno == ASSUME FInv, ~caido, NEW p \in Entrados PROVE Lugares(p) = 1
<1> DEFINE L == {k \in 1 .. 8 : EnConjunto(p, k)}
           enNuevos == {i \in DOMAIN nuevos : nuevos[i] = p}
           enListos == {i \in DOMAIN listos : listos[i] = p}
           enOtro == \/ p \in ejecutando \/ p \in bloqueados \/ p \in finalizados
                     \/ p \in rechazados \/ p = hiloN \/ p = hiloL.pid
                     \/ p = forz.mano \/ p = forz.preso
<1>1. Tipos /\ UnSitio
  BY DEF FInv, Vivo
<1>2. p \in Pids /\ p # Nadie /\ Dentro(p)
  BY <1>1, EntradosSon, NadieAparte
<1>3. Cardinality(enNuevos) = IF p \in ToSet(nuevos) THEN 1 ELSE 0
  BY <1>1, VecesEs DEF Tipos, UnSitio
<1>4. Cardinality(enListos) = IF p \in ToSet(listos) THEN 1 ELSE 0
  BY <1>1, <1>2, VecesEnListos DEF Tipos, UnSitio
<1>5. \/ p \in ToSet(nuevos) /\ p \notin ToSet(listos) /\ ~enOtro
      \/ p \notin ToSet(nuevos) /\ p \in ToSet(listos) /\ ~enOtro
      \/ p \notin ToSet(nuevos) /\ p \notin ToSet(listos) /\ enOtro
  BY <1>1, <1>2 DEF UnSitio, Apartes, Dentro
<1>6. CASE ~enOtro
  <2>1. L = {}
    <3>1. \A k \in 1 .. 8 : k = 1 \/ k = 2 \/ k = 3 \/ k = 4 \/ k = 5 \/ k = 6 \/ k = 7 \/ k = 8
      OBVIOUS
    <3> QED
      BY <1>6, <3>1, ConjuntosEs
  <2>2. Cardinality(L) = 0
    BY <2>1, FS_EmptySet
  <2> HIDE DEF L, enNuevos, enListos
  <2>3. Cardinality(enNuevos) + Cardinality(enListos) + Cardinality(L) = 1
    BY <1>3, <1>4, <1>5, <1>6, <2>2
  <2> QED
    BY <2>3 DEF Lugares, L, enNuevos, enListos, EnConjunto
<1>7. CASE enOtro
  <2>1. \E k \in 1 .. 8 : L = {k}
    <3>1. PICK k \in 1 .. 8 : EnConjunto(p, k)
      BY <1>7, ConjuntosEs
    <3>2. \A j \in 1 .. 8 : EnConjunto(p, j) => j = k
      <4>1. \A j \in 1 .. 8 : j = 1 \/ j = 2 \/ j = 3 \/ j = 4 \/ j = 5 \/ j = 6 \/ j = 7 \/ j = 8
        OBVIOUS
      <4> QED
        BY <1>1, <1>2, <3>1, <4>1, ConjuntosEs DEF UnSitio, Apartes
    <3> QED
      BY <3>1, <3>2
  <2>2. Cardinality(L) = 1
    BY <2>1, FS_Singleton
  <2> HIDE DEF L, enNuevos, enListos
  <2>3. Cardinality(enNuevos) + Cardinality(enListos) + Cardinality(L) = 1
    BY <1>3, <1>4, <1>5, <1>7, <2>2
  <2> QED
    BY <2>3 DEF Lugares, L, enNuevos, enListos, EnConjunto
<1> QED
  BY <1>6, <1>7

(* Wherever the ends by force, the rejections and the changes of degree     *)
(* fall, a process is in one list or in the hands of one thread; unless a   *)
(* CPU left or a rotation of a queue crossed another thread, the ready ones *)
(* have their tokens; and unless a CPU left or the console of the Kernel    *)
(* ended one that was running, who runs is on a CPU or being given back.    *)
THEOREM NingunoPerdido == SpecForzar => []SinPerdidos
<1>1. FInv /\ CInv => SinPerdidos
  <2> SUFFICES ASSUME FInv, CInv PROVE SinPerdidos
    OBVIOUS
  <2>1. \A p \in Entrados : ~caido => Lugares(p) = 1
    BY UnLugarCadaUno
  <2>2. "cpu" \notin riesgos /\ "cruce" \notin riesgos => sem.listos >= Len(listos)
    <3>1. "cpu" \notin riesgos /\ "cruce" \notin riesgos => {"cpu", "cruce"} \cap riesgos = {}
      OBVIOUS
    <3> QED
      BY <3>1 DEF FInv, FichasListos
  <2>3. ASSUME {"cpu", "consola"} \cap riesgos = {}, ~caido, NEW p \in ejecutando
        PROVE  CpusDe(p) # {} \/ (hiloM.pc \in {"P12", "P13"} /\ hiloM.pid = p)
    <3>1. Capa
      BY <2>3 DEF CInv, Sanas
    <3>2. (\E c \in Cpus : Tiene(c, p)) \/ DevueltoA(p)
      BY <2>3, <3>1 DEF Capa, ConCpu, Seguidos, Corriendo
    <3> QED
      BY <3>2 DEF Tiene, DevueltoA, CpusDe
  <2> QED
    BY <2>1, <2>2, <2>3 DEF SinPerdidos
<1> QED
  BY <1>1, InvarianteForzar, InvarianteCapa, PTL

-----------------------------------------------------------------------------
(* A rotation that nobody crosses finds whom it looks for                    *)

(* How many the rotation has still to take out *)
Restan == controlador - forz.i - (IF forz.mano # Nadie THEN 1 ELSE 0)
AlAlcance(q, n) == \E k \in 1 .. Len(q) : k <= n /\ q[k] = forz.pid
SinEncontrar == forz.visto /\ forz.preso = Nadie /\ "cruce" \notin riesgos

Vistos ==
  /\ controlador \in Nat
  /\ forz.pc = "listas" => forz.i = 0
  /\ SinEncontrar /\ forz.pc = "nuevos" => \/ AlAlcance(nuevos, Restan)
                                           \/ forz.pid \in ToSet(listos)
  /\ SinEncontrar /\ forz.pc = "listos" => AlAlcance(listos, Restan)
  /\ SinEncontrar => forz.pc # "matar"

(* What is put at the end of a queue changes nothing for the rotation. *)
LEMMA AlcanceAlFinal ==
  ASSUME NEW S, NEW q \in Seq(S), NEW e \in S, NEW n, NEW p,
         \E k \in 1 .. Len(q) : k <= n /\ q[k] = p
  PROVE  \E k \in 1 .. Len(Append(q, e)) : k <= n /\ Append(q, e)[k] = p
<1>1. PICK k \in 1 .. Len(q) : k <= n /\ q[k] = p
  OBVIOUS
<1>2. Len(q) \in Nat /\ Len(Append(q, e)) = Len(q) + 1 /\ Append(q, e)[k] = q[k]
  BY AppendProperties, LenProperties
<1> QED
  BY <1>1, <1>2

LEMMA SigueVistos ==
  ASSUME FInv, ~caido, Vistos, riesgos \subseteq riesgos', controlador' \in Nat, forz' = forz,
         \/ "cruce" \in riesgos'
         \/ ~Rotando
         \/ /\ controlador' = controlador /\ nuevos' = nuevos
            /\ listos' = listos \/ \E e \in Pids \cup {Nadie} : listos' = Append(listos, e)
  PROVE  Vistos'
<1>1. listos \in Seq(Pids \cup {Nadie})
  BY DEF FInv, Vivo, Tipos
<1>2. SinEncontrar' => SinEncontrar
  BY DEF SinEncontrar
<1>3. CASE "cruce" \in riesgos'
  BY <1>3 DEF Vistos, SinEncontrar
<1>4. CASE ~Rotando
  BY <1>2, <1>4 DEF Vistos, Rotando
<1>5. CASE /\ controlador' = controlador /\ nuevos' = nuevos
           /\ listos' = listos \/ \E e \in Pids \cup {Nadie} : listos' = Append(listos, e)
  <2>1. CASE listos' = listos
    BY <1>2, <1>5, <2>1 DEF Vistos, Restan, AlAlcance
  <2>2. ASSUME NEW e \in Pids \cup {Nadie}, listos' = Append(listos, e) PROVE Vistos'
    <3>1. ToSet(listos') = ToSet(listos) \cup {e}
      BY <1>1, <2>2, AlFinal
    <3>2. Restan' = Restan
      BY <1>5 DEF Restan
    <3>3. AlAlcance(listos, Restan) => AlAlcance(listos', Restan)
      BY <1>1, <2>2, AlcanceAlFinal DEF AlAlcance
    <3>4. AlAlcance(listos', Restan) => AlAlcance(listos, Restan)'
      BY <3>2 DEF AlAlcance
    <3>5. AlAlcance(nuevos, Restan) => AlAlcance(nuevos, Restan)'
      BY <1>5, <3>2 DEF AlAlcance
    <3> QED
      BY <1>2, <3>1, <3>3, <3>4, <3>5 DEF Vistos
  <2> QED
    BY <1>5, <2>1, <2>2
<1> QED
  BY <1>3, <1>4, <1>5

LEMMA VistosForzarListas == ASSUME FInv, Vistos, ForzarListas PROVE Vistos'
<1> DEFINE p == forz.pid
           de == IF p \in ejecutando THEN "ejecutando"
                 ELSE IF p \in bloqueados THEN "bloqueados" ELSE ""
           x == IF de = "" THEN Nadie ELSE p
           v == de # "" \/ p \in ToSet(nuevos) \cup ToSet(listos)
<1>1. /\ ~caido /\ forz.pc = "listas" /\ controlador' = Len(nuevos)
      /\ forz' = [forz EXCEPT !.pc = "nuevos", !.de = de, !.preso = x, !.visto = v]
      /\ UNCHANGED <<nuevos, listos>>
  BY DEF ForzarListas
<1>2. Tipos /\ Victima
  BY <1>1 DEF FInv, Vivo
<1>3. /\ forz \in Busquedas /\ p \in Pids /\ forz.mano = Nadie /\ forz.i = 0
      /\ nuevos \in Seq(Pids) /\ Len(nuevos) \in Nat
  BY <1>1, <1>2, LenProperties DEF Victima, Rotando, Tipos, Vistos
<1>4. v /\ x = Nadie => p \in ToSet(nuevos) \/ p \in ToSet(listos)
  BY <1>3, NadieAparte
<1> HIDE DEF de, x, v
<1>5. /\ forz'.pc = "nuevos" /\ forz'.pid = p /\ forz'.i = 0 /\ forz'.mano = Nadie
      /\ forz'.preso = x /\ forz'.visto = v
  BY <1>1, <1>3 DEF Busquedas
<1>6. Restan' = Len(nuevos)
  BY <1>1, <1>3, <1>5 DEF Restan
<1>7. p \in ToSet(nuevos) => AlAlcance(nuevos, Restan)'
  <2>1. p \in ToSet(nuevos) => \E k \in 1 .. Len(nuevos) : nuevos[k] = p
    BY <1>3, ToSetElemento
  <2> QED
    BY <1>1, <1>3, <1>5, <1>6, <2>1 DEF AlAlcance
<1> QED
  BY <1>1, <1>3, <1>4, <1>5, <1>7 DEF Vistos, SinEncontrar

LEMMA VistosSacar ==
  ASSUME FInv, Vistos, ~caido', riesgos \subseteq riesgos', SacarNuevo \/ SacarListo
  PROVE  Vistos'
<1>1. PICK q \in {"nuevos", "listos"}, sig \in {"listos", "matar"} :
        Sacar(q, sig) /\ (IF q = "nuevos" THEN sig = "listos" ELSE sig = "matar")
  BY DEF SacarNuevo, SacarListo
<1> DEFINE s == IF q = "nuevos" THEN nuevos ELSE listos
           x == IF s = <<>> THEN Nadie ELSE Head(s)
<1>2. ~caido /\ forz.pc = q /\ forz.mano = Nadie
  BY <1>1 DEF Sacar
<1>3. Tipos /\ Victima
  BY <1>2 DEF FInv, Vivo
<1>4. /\ forz \in Busquedas /\ forz.pid \in Pids /\ forz.i \in Nat /\ controlador \in Nat
      /\ nuevos \in Seq(Pids) /\ listos \in Seq(Pids \cup {Nadie})
      /\ Len(nuevos) \in Nat /\ Len(listos) \in Nat
  BY <1>2, <1>3, CamposForzar, LenProperties DEF Victima, Tipos, Vistos
<1>5. Restan = controlador - forz.i
  BY <1>2, <1>4 DEF Restan
<1>6. CASE forz.i >= controlador
  <2>1. /\ UNCHANGED <<nuevos, listos>> /\ forz' = [forz EXCEPT !.pc = sig, !.i = 0]
        /\ controlador' = IF q = "nuevos" THEN Len(listos) ELSE controlador
    BY <1>1, <1>6 DEF Sacar, VueltaEntera
  <2>2. /\ forz'.pc = sig /\ forz'.i = 0 /\ forz'.mano = Nadie /\ forz'.pid = forz.pid
        /\ forz'.preso = forz.preso /\ forz'.visto = forz.visto
    BY <1>2, <1>4, <2>1 DEF Busquedas
  <2>3. SinEncontrar' => SinEncontrar
    BY <2>2 DEF SinEncontrar
  <2>4. ~AlAlcance(nuevos, Restan) /\ ~AlAlcance(listos, Restan)
    BY <1>4, <1>5, <1>6 DEF AlAlcance
  <2>5. CASE q = "nuevos"
    <3>1. forz.pid \in ToSet(listos) => AlAlcance(listos, Restan)'
      <4>1. forz.pid \in ToSet(listos) => \E k \in 1 .. Len(listos) : listos[k] = forz.pid
        BY <1>4, ToSetElemento
      <4>2. Restan' = Len(listos)
        BY <1>4, <2>1, <2>2, <2>5 DEF Restan
      <4> QED
        BY <1>4, <2>1, <2>2, <4>1, <4>2 DEF AlAlcance
    <3> QED
      BY <1>1, <1>2, <1>4, <2>1, <2>2, <2>3, <2>4, <2>5, <3>1 DEF Vistos
  <2>6. CASE q = "listos"
    BY <1>2, <1>4, <2>1, <2>2, <2>3, <2>4, <2>6 DEF Vistos
  <2> QED
    BY <2>5, <2>6
<1>7. CASE ~ (forz.i >= controlador)
  <2>1. x # Nadie /\ s # <<>>
    BY <1>1, <1>7 DEF Sacar, VueltaEntera
  <2>2. /\ controlador' = controlador
        /\ nuevos' = IF q = "nuevos" THEN Tail(s) ELSE nuevos
        /\ listos' = IF q = "listos" THEN Tail(s) ELSE listos
        /\ forz' = IF x = forz.pid THEN [forz EXCEPT !.i = @ + 1, !.preso = x, !.de = q]
                   ELSE [forz EXCEPT !.mano = x]
    BY <1>1, <1>7, <2>1 DEF Sacar, VueltaEntera
  <2>3. s \in Seq(Pids \cup {Nadie})
    BY <1>4
  <2>4. /\ Tail(s) \in Seq(Pids \cup {Nadie}) /\ Len(Tail(s)) = Len(s) - 1
        /\ \A k \in 1 .. Len(s) - 1 : Tail(s)[k] = s[k + 1]
        /\ x = s[1] /\ Len(s) \in Nat
    BY <2>1, <2>3, HeadTailProperties, LenProperties
  <2>5. q = "nuevos" => s = nuevos /\ nuevos' = Tail(s) /\ listos' = listos
    BY <2>2
  <2>6. q = "listos" => s = listos /\ listos' = Tail(s)
    BY <2>2
  <2> HIDE DEF s, x
  <2>7. CASE x = forz.pid
    <3>1. forz'.preso = x /\ forz'.pc = q
      BY <1>2, <1>4, <2>2, <2>7 DEF Busquedas
    <3> QED
      BY <1>4, <2>1, <2>2, <3>1 DEF Vistos, SinEncontrar
  <2>8. CASE x # forz.pid
    <3>1. /\ forz'.mano = x /\ forz'.pc = q /\ forz'.i = forz.i /\ forz'.pid = forz.pid
          /\ forz'.preso = forz.preso /\ forz'.visto = forz.visto
      BY <1>2, <1>4, <2>2, <2>8 DEF Busquedas
    <3>2. SinEncontrar' => SinEncontrar
      BY <3>1 DEF SinEncontrar
    <3>3. Restan' = Restan - 1 /\ Restan \in Int
      BY <1>4, <1>5, <2>1, <2>2, <3>1 DEF Restan
    <3>4. (\E k \in 1 .. Len(s) : k <= Restan /\ s[k] = forz.pid)
            => \E k \in 1 .. Len(Tail(s)) : k <= Restan - 1 /\ Tail(s)[k] = forz.pid
      <4> SUFFICES ASSUME NEW k \in 1 .. Len(s), k <= Restan, s[k] = forz.pid
                   PROVE  \E j \in 1 .. Len(Tail(s)) : j <= Restan - 1 /\ Tail(s)[j] = forz.pid
        OBVIOUS
      <4>1. k # 1
        BY <2>4, <2>8
      <4>2. k - 1 \in 1 .. Len(s) - 1 /\ k - 1 <= Restan - 1 /\ (k - 1) + 1 = k
        BY <2>4, <3>3, <4>1
      <4> QED
        BY <2>4, <4>2
    <3>5. CASE q = "nuevos"
      <4>1. AlAlcance(nuevos, Restan) => AlAlcance(nuevos, Restan)'
        BY <2>5, <3>1, <3>3, <3>4, <3>5 DEF AlAlcance
      <4> QED
        BY <1>2, <1>4, <2>2, <2>5, <3>1, <3>2, <3>5, <4>1 DEF Vistos
    <3>6. CASE q = "listos"
      <4>1. AlAlcance(listos, Restan) => AlAlcance(listos, Restan)'
        BY <2>6, <3>1, <3>3, <3>4, <3>6 DEF AlAlcance
      <4> QED
        BY <1>2, <1>4, <2>2, <3>1, <3>2, <3>6, <4>1 DEF Vistos
    <3> QED
      BY <3>5, <3>6
  <2> QED
    BY <2>7, <2>8
<1> QED
  BY <1>6, <1>7

LEMMA VistosDevolver ==
  ASSUME FInv, Vistos, riesgos \subseteq riesgos', Devolver
  PROVE  Vistos'
<1> DEFINE x == forz.mano
<1>1. /\ ~caido /\ Rotando /\ x # Nadie
      /\ nuevos' = IF forz.pc = "nuevos" THEN Append(nuevos, x) ELSE nuevos
      /\ listos' = IF forz.pc = "listos" THEN Append(listos, x) ELSE listos
      /\ forz' = [forz EXCEPT !.i = @ + 1, !.mano = Nadie]
      /\ controlador' = controlador
  BY DEF Devolver
<1>2. Tipos /\ Victima
  BY <1>1 DEF FInv, Vivo
<1>3. /\ forz \in Busquedas /\ forz.i \in Nat /\ controlador \in Nat /\ x \in Pids
      /\ nuevos \in Seq(Pids) /\ listos \in Seq(Pids \cup {Nadie})
  BY <1>1, <1>2, CamposForzar DEF Tipos, Vistos
<1>4. /\ forz'.mano = Nadie /\ forz'.pc = forz.pc /\ forz'.i = forz.i + 1
      /\ forz'.pid = forz.pid /\ forz'.preso = forz.preso /\ forz'.visto = forz.visto
  BY <1>1, <1>3 DEF Busquedas
<1>5. SinEncontrar' => SinEncontrar
  BY <1>4 DEF SinEncontrar
<1>6. Restan' = Restan
  BY <1>1, <1>3, <1>4 DEF Restan
<1>7. CASE forz.pc = "nuevos"
  <2>1. AlAlcance(nuevos, Restan) => AlAlcance(nuevos', Restan)
    BY <1>1, <1>3, <1>7, AlcanceAlFinal DEF AlAlcance
  <2>2. AlAlcance(nuevos', Restan) => AlAlcance(nuevos, Restan)'
    BY <1>4, <1>6 DEF AlAlcance
  <2> QED
    BY <1>1, <1>3, <1>4, <1>5, <1>7, <2>1, <2>2 DEF Vistos
<1>8. CASE forz.pc = "listos"
  <2>1. AlAlcance(listos, Restan) => AlAlcance(listos', Restan)
    BY <1>1, <1>3, <1>8, AlcanceAlFinal DEF AlAlcance
  <2>2. AlAlcance(listos', Restan) => AlAlcance(listos, Restan)'
    BY <1>4, <1>6 DEF AlAlcance
  <2> QED
    BY <1>1, <1>3, <1>4, <1>5, <1>8, <2>1, <2>2 DEF Vistos
<1> QED
  BY <1>1, <1>7, <1>8 DEF Rotando
(* Steps that leave forzar_finalizacion where it is *)
LEMMA VistosSinMover ==
  ASSUME FInv, Sanas, Sanas', Vistos, riesgos \subseteq riesgos',
         \/ IniciarPrograma \/ CargarNuevo \/ AdmitirNuevo \/ TomarFichas \/ EnviarPcb
         \/ AnotarEnvio \/ SeguirMensaje \/ EsperarCpus \/ MirarDiferencia \/ ActualizarGrado
         \/ \E g \in Grados : CambiarGrado(g)
         \/ \E c \in Cpus : \/ ConectarCpu(c) \/ AtenderMensaje(c)
                            \/ EjecutarInstruccion(c) \/ RecibirRespuesta(c)
  PROVE  Vistos'
<1>1. ~caido /\ ~caido' /\ controlador \in Nat
  BY DEF Sanas, Vistos
<1>2. CASE IniciarPrograma \/ CargarNuevo \/ AdmitirNuevo \/ AnotarEnvio
  <2>1. controlador' \in Nat /\ forz' = forz /\ ("cruce" \in riesgos' \/ ~Rotando)
    BY <1>1, <1>2 DEF IniciarPrograma, CargarNuevo, AdmitirNuevo, AnotarEnvio, Cruce
  <2> QED
    BY <1>1, <2>1, SigueVistos
<1>3. CASE EnviarPcb
  <2>1. controlador' \in Nat /\ forz' = forz /\ ("cruce" \in riesgos' \/ ~Rotando)
    BY <1>1, <1>3 DEF EnviarPcb
  <2> QED
    BY <1>1, <2>1, SigueVistos
<1>4. CASE SeguirMensaje
  <2>1. UNCHANGED <<controlador, forz>> /\ nuevos' = nuevos
    BY <1>4 DEF SeguirMensaje, SeguirM, FinalizarQuantum, FinalizarProceso, BloquearProceso, nuevas
  <2>2. listos' = listos \/ listos' = Append(listos, Sacado)
    BY <1>4 DEF SeguirMensaje, SeguirM, FinalizarQuantum, FinalizarProceso, BloquearProceso
  <2>3. Sacado \in Pids \cup {Nadie}
    BY <1>1 DEF Sacado, FInv, Vivo, Tipos
  <2> QED
    BY <1>1, <2>1, <2>2, <2>3, SigueVistos
<1>5. CASE \E c \in Cpus : AtenderMensaje(c)
  <2>1. PICK c \in Cpus : AtenderMensaje(c)
    BY <1>5
  <2>2. UNCHANGED <<controlador, forz>> /\ AtenderCpu(c)
    BY <1>1, <2>1 DEF AtenderMensaje, nuevas
  <2>3. CASE P12(c) \/ P13(c) \/ P14(c)
    BY <1>1, <2>2, <2>3, SigueVistos DEF P12, P13, P14, DevuelvePcb, listas
  <2>4. CASE P15(c)
    <3>1. /\ nuevos' = nuevos
          /\ listos' = listos \/ \E e \in bloqueados : listos' = Append(listos, e)
      BY <2>4 DEF P15
    <3>2. bloqueados \subseteq Pids
      BY <1>1 DEF FInv, Vivo, Tipos
    <3> QED
      BY <1>1, <2>2, <3>1, <3>2, SigueVistos
  <2> QED
    BY <2>2, <2>3, <2>4 DEF AtenderCpu
<1>6. CASE TomarFichas \/ EsperarCpus \/ MirarDiferencia \/ ActualizarGrado
           \/ \E g \in Grados : CambiarGrado(g)
  <2>1. UNCHANGED <<controlador, forz, nuevos, listos>>
    BY <1>6 DEF TomarFichas, EsperarCpus, MirarDiferencia, ActualizarGrado, CambiarGrado, vars,
                nuevas, listas
  <2> QED
    BY <1>1, <2>1, SigueVistos
<1>7. CASE \E c \in Cpus : ConectarCpu(c) \/ EjecutarInstruccion(c) \/ RecibirRespuesta(c)
  <2>1. PICK c \in Cpus : ConectarCpu(c) \/ EjecutarInstruccion(c) \/ RecibirRespuesta(c)
    BY <1>7
  <2>2. UNCHANGED <<controlador, forz, nuevos, listos>>
    BY <2>1 DEF ConectarCpu, AgregarCpu, EjecutarInstruccion, Ejecutar, RecibirRespuesta,
                TerminarInstruccion, nuevas, listas
  <2> QED
    BY <1>1, <2>2, SigueVistos
<1> QED
  BY <1>2, <1>3, <1>4, <1>5, <1>6, <1>7

(* How forzar_finalizacion ends, for whom it looked for *)
LEMMA FinEs ==
  ASSUME ~caido', NoEstaba \/ PedirPcbError \/ Terminar
  PROVE  Fin /\ forz' = SinForzar /\ controlador' = controlador
<1>1. Fin
  <2>1. CASE NoEstaba \/ Terminar
    BY <2>1 DEF NoEstaba, Terminar
  <2>2. CASE PedirPcbError
    BY <2>2 DEF PedirPcbError
  <2> QED
    BY <2>1, <2>2
<1> QED
  BY <1>1 DEF Fin

(* And those of forzar_finalizacion *)
LEMMA VistosForzar ==
  ASSUME FInv, Sanas, Sanas', Vistos, riesgos \subseteq riesgos',
         ForzarFinalizacion \/ Rechazar \/ \E p \in Pids : C02(p) \/ FinalizarProcesoConsola(p)
  PROVE  Vistos'
<1>1. ~caido /\ ~caido' /\ controlador \in Nat
  BY DEF Sanas, Vistos
<1>2. CASE Rechazar \/ \E p \in Pids : C02(p) \/ FinalizarProcesoConsola(p)
  <2>1. \E q, p : Forzar(q, p)
    BY <1>2 DEF Rechazar, C02, FinalizarProcesoConsola
  <2>2. forz'.pc = "listas" /\ forz'.visto = FALSE /\ forz'.i = 0
    BY <2>1 DEF Forzar, SinForzar
  <2>3. controlador' \in Nat
    <3>1. controlador' = controlador \/ controlador' = 0
      BY <1>2 DEF Rechazar, C02, FinalizarProcesoConsola
    <3> QED
      BY <1>1, <3>1
  <2> QED
    BY <2>2, <2>3 DEF Vistos, SinEncontrar
<1>3. CASE NoEstaba \/ PedirPcbError \/ Terminar
  <2>1. forz' = SinForzar /\ controlador' = controlador
    BY <1>1, <1>3, FinEs
  <2>2. forz'.pc = "nada" /\ forz'.visto = FALSE
    BY <2>1 DEF SinForzar
  <2> QED
    BY <1>1, <2>1, <2>2 DEF Vistos, SinEncontrar
<1>4. CASE TerminarNuevo
  BY <1>1, <1>4 DEF TerminarNuevo
<1> QED
  BY <1>1, <1>2, <1>3, <1>4, VistosForzarListas, VistosSacar, VistosDevolver DEF ForzarFinalizacion
-----------------------------------------------------------------------------
(* What the K21 and the last messages say of the process they are about      *)

(* The PCB of a process that runs is on one CPU, or comes back to hiloM.    *)
Suyos ==
  /\ \A c \in Cpus, p \in Pids : Tiene(c, p) => p \in Corriendo \/ hiloL.pid = p
  /\ \A c, d \in Cpus, p \in Pids : Tiene(c, p) /\ Tiene(d, p) => c = d
  /\ \A p \in Pids : DevueltoA(p) => p \in Corriendo /\ \A c \in Cpus : ~Tiene(c, p)

(* Who gets a K21 was ended, or is not whom it was meant for. *)
Pedido(p) == p \in matados \/ "otro" \in riesgos
Avisos ==
  /\ k21 \in [Cpus -> [antes : Nat, despues : Nat]] /\ matados \subseteq Pids
  /\ \A c \in Cpus : k21[c] # SinK21 => Pedido(cpu[c].pid)

(* Who ends was asked to, or got to the last instruction. *)
Acabados ==
  /\ \A c \in Cpus : bandeja[c].cod = "P13" =>
       Pedido(bandeja[c].pid) \/ bandeja[c].pc = Len(Guion[bandeja[c].pid])
  /\ \A p \in Pids : hiloM.pc = "P13" /\ hiloM.pid = p => Pedido(p) \/ pcb[p].pc = Len(Guion[p])
  /\ \A p \in finalizados : Pedido(p) \/ pcb[p].pc = Len(Guion[p])

(* Who was ended by force has gone, is on its way, or is known to escape. *)
Escapa(p) == \E e \in escapes : e[1] = p
EnCamino(p) ==
  \/ \E c \in Cpus : \/ cpu[c].pid = p /\ k21[c] # SinK21
                     \/ bandeja[c].pid = p /\ bandeja[c].cod = "P13"
  \/ hiloM.pc = "P13" /\ hiloM.pid = p
Muertos ==
  /\ \A p \in matados : p \in finalizados \cup rechazados \/ Escapa(p) \/ EnCamino(p)
  /\ hiloM.pc = "K23" /\ bandeja[hiloM.cpu].cod = "P13" => Escapa(bandeja[hiloM.cpu].pid)

Finales == Suyos /\ Avisos /\ Acabados /\ Muertos

LEMMA InicioFinales == InitForzar => Finales
<1> SUFFICES ASSUME InitForzar PROVE Finales
  OBVIOUS
<1> USE NadieAparte
<1>1. /\ hiloM.pc = "select" /\ finalizados = {} /\ matados = {}
      /\ \A c \in Cpus : cpu[c] = Ocioso /\ bandeja[c] = Vacia
      /\ k21 = [c \in Cpus |-> SinK21]
  BY DEF InitForzar, Init, EnSelect
<1>2. Ocioso.pid = Nadie /\ Vacia.pid = Nadie /\ Vacia.cod = "nada"
  BY DEF Ocioso, Vacia
<1>3. k21 \in [Cpus -> [antes : Nat, despues : Nat]] /\ \A c \in Cpus : k21[c] = SinK21
  <2>1. SinK21 \in [antes : Nat, despues : Nat]
    BY DEF SinK21
  <2> QED
    BY <1>1, <2>1
<1>4. \A c \in Cpus, p \in Pids : ~Tiene(c, p)
  BY <1>1, <1>2 DEF Tiene
<1>5. Suyos
  BY <1>1, <1>4 DEF Suyos, DevueltoA
<1>6. Avisos
  BY <1>1, <1>3 DEF Avisos
<1>7. Acabados
  BY <1>1, <1>2 DEF Acabados
<1>8. Muertos
  BY <1>1 DEF Muertos
<1> QED
  BY <1>5, <1>6, <1>7, <1>8 DEF Finales

(* Steps that leave alone what the CPUs have and who has ended *)
LEMMA FinalesQuietos ==
  ASSUME Finales, UNCHANGED <<cpu, bandeja, hiloL, k21, matados, finalizados, rechazados, escapes>>,
         riesgos \subseteq riesgos', Corriendo \subseteq Corriendo',
         hiloM' = hiloM \/ (hiloM.pc \notin {"P12", "P13", "K23"} /\ hiloM'.pc \notin {"P12", "P13", "K23"}),
         \A p \in Pids : p \in finalizados \/ DevueltoA(p) => pcb'[p] = pcb[p],
         finalizados \subseteq Pids
  PROVE  Finales'
<1>1. Suyos /\ Avisos /\ Acabados /\ Muertos
  BY DEF Finales
<1>2. \A c, p : Tiene(c, p)' <=> Tiene(c, p)
  BY DEF Tiene
<1>3. /\ \A p : DevueltoA(p)' <=> DevueltoA(p)
      /\ \A p : hiloM'.pc = "P13" /\ hiloM'.pid = p <=> hiloM.pc = "P13" /\ hiloM.pid = p
      /\ hiloM'.pc = "K23" => hiloM.pc = "K23" /\ hiloM'.cpu = hiloM.cpu
  BY DEF DevueltoA
<1>4. \A p : Pedido(p) => Pedido(p)'
  BY DEF Pedido
<1>5. Suyos'
  BY <1>1, <1>2, <1>3 DEF Suyos
<1>6. Avisos'
  BY <1>1, <1>4 DEF Avisos
<1>7. Acabados'
  <2>1. \A c \in Cpus : bandeja'[c].cod = "P13" =>
           Pedido(bandeja[c].pid)' \/ bandeja'[c].pc = Len(Guion[bandeja'[c].pid])
    BY <1>1, <1>4 DEF Acabados
  <2>2. \A p \in Pids : hiloM'.pc = "P13" /\ hiloM'.pid = p => Pedido(p)' \/ pcb'[p].pc = Len(Guion[p])
    BY <1>1, <1>3, <1>4 DEF Acabados, DevueltoA
  <2>3. \A p \in finalizados' : Pedido(p)' \/ pcb'[p].pc = Len(Guion[p])
    BY <1>1, <1>4 DEF Acabados
  <2> QED
    BY <2>1, <2>2, <2>3 DEF Acabados
<1>8. Muertos'
  <2>1. \A p : EnCamino(p) => EnCamino(p)'
    BY <1>3 DEF EnCamino
  <2>2. \A p : Escapa(p) <=> Escapa(p)'
    BY DEF Escapa
  <2>3. \A p \in matados' : p \in finalizados' \cup rechazados' \/ Escapa(p)' \/ EnCamino(p)'
    BY <1>1, <2>1, <2>2 DEF Muertos
  <2>4. hiloM'.pc = "K23" /\ bandeja'[hiloM'.cpu].cod = "P13" => Escapa(bandeja[hiloM.cpu].pid)'
    BY <1>1, <1>3, <2>2 DEF Muertos
  <2> QED
    BY <2>3, <2>4 DEF Muertos
<1> QED
  BY <1>5, <1>6, <1>7, <1>8 DEF Finales
LEMMA FinalesSinMover ==
  ASSUME FInv, Capa, Finales, Sanas, Sanas', riesgos \subseteq riesgos',
         \/ IniciarPrograma \/ CargarNuevo \/ AdmitirNuevo \/ TomarFichas \/ EsperarCpus
         \/ MirarDiferencia \/ ActualizarGrado \/ Rechazar
         \/ \E g \in Grados : CambiarGrado(g)
         \/ \E p \in Pids : C02(p) \/ FinalizarProcesoConsola(p)
         \/ \E c \in Cpus : ConectarCpu(c)
  PROVE  Finales'
<1>1. ~caido /\ Tipos /\ Victima /\ UnSitio
  BY DEF Sanas, FInv, Vivo
<1>2. finalizados \subseteq Pids
  BY <1>1 DEF Tipos
<1>3. CASE \/ IniciarPrograma \/ CargarNuevo \/ TomarFichas \/ MirarDiferencia \/ ActualizarGrado
           \/ \E g \in Grados : CambiarGrado(g)
           \/ \E c \in Cpus : ConectarCpu(c)
  <2>1. UNCHANGED <<cpu, bandeja, hiloL, hiloM, pcb, ejecutando, forz, k21, matados, finalizados,
                    rechazados, escapes>>
    BY <1>3 DEF IniciarPrograma, CargarNuevo, PedirMemoria, TomarFichas, MirarDiferencia,
                ActualizarGrado, CambiarGrado, ConectarCpu, AgregarCpu, entorno, nuevas, listas, vars
  <2> QED
    BY <1>2, <2>1, FinalesQuietos DEF Corriendo
<1>4. CASE AdmitirNuevo
  <2>1. /\ hiloN # Nadie /\ pcb' = [pcb EXCEPT ![hiloN] = [pid |-> hiloN, pc |-> 0]]
        /\ UNCHANGED <<cpu, bandeja, hiloL, hiloM, ejecutando, forz, k21, matados, finalizados,
                       rechazados, escapes>>
    BY <1>4 DEF AdmitirNuevo, AgregarNuevaProg, entorno
  <2>2. hiloN \in Pids
    BY <1>1, <2>1 DEF Tipos
  <2>3. hiloN \notin finalizados /\ hiloN \notin Corriendo
    BY <1>1, <2>2 DEF UnSitio, Apartes, Corriendo
  <2>4. ~DevueltoA(hiloN)
    BY <2>2, <2>3 DEF Finales, Suyos
  <2>5. \A p \in Pids : p # hiloN => pcb'[p] = pcb[p]
    BY <2>1 DEF Capa, TiposCpu, PcbsBien
  <2> QED
    BY <1>2, <2>1, <2>3, <2>4, <2>5, FinalesQuietos DEF Corriendo
<1>5. CASE EsperarCpus
  <2>1. /\ hiloM.pc = "sem_cpus" /\ hiloM' = EnSelect
        /\ UNCHANGED <<cpu, bandeja, hiloL, pcb, ejecutando, forz, k21, matados, finalizados,
                       rechazados, escapes>>
    BY <1>5 DEF EsperarCpus, listas, nuevas
  <2>2. hiloM.pc \notin {"P12", "P13", "K23"} /\ hiloM'.pc \notin {"P12", "P13", "K23"}
    BY <2>1 DEF EnSelect
  <2> QED
    BY <1>2, <2>1, <2>2, FinalesQuietos DEF Corriendo
<1>6. CASE Rechazar \/ \E p \in Pids : C02(p) \/ FinalizarProcesoConsola(p)
  <2>1. UNCHANGED <<cpu, bandeja, hiloL, pcb, ejecutando, k21, matados, finalizados, rechazados,
                    escapes>>
    BY <1>6 DEF Rechazar, C02, FinalizarProcesoConsola, listas, vars
  <2>2. forz = SinForzar
    BY <1>6 DEF Rechazar, C02, FinalizarProcesoConsola, Libre
  <2>3. hiloM' = hiloM \/ (hiloM = EnSelect /\ hiloM' = [EnSelect EXCEPT !.pc = "C02"])
    BY <1>6 DEF Rechazar, C02, FinalizarProcesoConsola, vars
  <2>4. hiloM' = hiloM \/ (hiloM.pc \notin {"P12", "P13", "K23"} /\ hiloM'.pc \notin {"P12", "P13", "K23"})
    BY <2>3 DEF EnSelect
  <2>5. Corriendo \subseteq Corriendo'
    BY <2>1, <2>2 DEF Corriendo, SinForzar
  <2> QED
    BY <1>2, <2>1, <2>4, <2>5, FinalesQuietos
<1> QED
  BY <1>3, <1>4, <1>5, <1>6

(* The search moves no process that has reached a CPU but the one it looks for. *)
LEMMA FinalesBusca ==
  ASSUME FInv, Finales, Sanas, Sanas', riesgos \subseteq riesgos',
         ForzarListas \/ SacarNuevo \/ SacarListo \/ Devolver
  PROVE  Finales'
<1>1. ~caido /\ Tipos /\ Victima /\ UnSitio
  BY DEF Sanas, FInv, Vivo
<1>2. finalizados \subseteq Pids /\ forz \in Busquedas
  BY <1>1 DEF Tipos
<1>3. UNCHANGED <<cpu, bandeja, hiloL, hiloM, pcb, k21, matados, finalizados, rechazados, escapes>>
  BY DEF ForzarListas, SacarNuevo, SacarListo, Sacar, Devolver, entorno
<1>4. Corriendo \subseteq Corriendo'
  <2>1. CASE ForzarListas
    <3> DEFINE p == forz.pid
               de == IF p \in ejecutando THEN "ejecutando"
                     ELSE IF p \in bloqueados THEN "bloqueados" ELSE ""
               x == IF de = "" THEN Nadie ELSE p
    <3>1. /\ forz.pc = "listas" /\ ejecutando' = ejecutando \ {p}
          /\ forz'.de = de /\ forz'.preso = x
      BY <1>2, <2>1 DEF ForzarListas, Busquedas
    <3>2. forz.de = ""
      BY <1>1, <3>1 DEF Victima
    <3> QED
      BY <3>1, <3>2 DEF Corriendo
  <2>2. CASE \E q \in {"nuevos", "listos"}, sig \in {"listos", "matar"} : Sacar(q, sig)
    <3>1. PICK q \in {"nuevos", "listos"}, sig \in {"listos", "matar"} : Sacar(q, sig)
      BY <2>2
    <3> DEFINE s == IF q = "nuevos" THEN nuevos ELSE listos
               x == IF s = <<>> THEN Nadie ELSE Head(s)
    <3>2. /\ forz.pc = q /\ ejecutando' = ejecutando
          /\ \/ forz' = [forz EXCEPT !.pc = sig, !.i = 0]
             \/ forz' = [forz EXCEPT !.i = @ + 1, !.preso = x, !.de = q] /\ x = forz.pid
             \/ forz' = [forz EXCEPT !.mano = x]
      BY <3>1 DEF Sacar
    <3>3. forz.pid \in Pids
      BY <1>1, <3>2 DEF Victima
    <3>4. x = forz.pid => x \in ToSet(nuevos) \/ x \in ToSet(listos)
      <4>1. nuevos \in Seq(Pids \cup {Nadie}) /\ listos \in Seq(Pids \cup {Nadie})
        BY <1>1 DEF Tipos
      <4>2. s \in Seq(Pids \cup {Nadie}) /\ (s = nuevos \/ s = listos)
        BY <4>1
      <4>3. s # <<>> => Head(s) \in ToSet(s)
        BY <4>2, SinPrimero
      <4> QED
        BY <3>3, <4>2, <4>3, NadieAparte
    <3>5. forz.de = "ejecutando" => x # forz.pid
      BY <1>1, <3>3, <3>4, <3>2 DEF Victima, UnSitio, Apartes
    <3> HIDE DEF x
    <3>6. forz.de = "ejecutando" => forz'.de = "ejecutando" /\ forz'.preso = forz.preso
      BY <1>2, <3>2, <3>5 DEF Busquedas
    <3> QED
      BY <3>2, <3>6 DEF Corriendo
  <2>3. CASE Devolver
    <3>1. ejecutando' = ejecutando /\ forz' = [forz EXCEPT !.i = @ + 1, !.mano = Nadie]
      BY <2>3 DEF Devolver
    <3>2. forz'.de = forz.de /\ forz'.preso = forz.preso
      BY <1>2, <3>1 DEF Busquedas
    <3> QED
      BY <3>1, <3>2 DEF Corriendo
  <2> QED
    BY <2>1, <2>2, <2>3 DEF SacarNuevo, SacarListo
<1> QED
  BY <1>2, <1>3, <1>4, FinalesQuietos
(* A CPU gets a process that nobody else has, and a K21 left in it was not *)
(* for that process.                                                        *)
LEMMA FinalesEnviar ==
  ASSUME FInv, Capa, Finales, Sanas, Sanas', riesgos \subseteq riesgos', EnviarPcb
  PROVE  Finales'
<1> DEFINE p == IF listos = <<>> THEN Nadie ELSE Head(listos)
           c == CpuLibre
           f == [fase |-> "corre", pid |-> pcb[p].pid, pc |-> pcb[p].pc, inst |-> 0]
<1>1. ~caido /\ ~caido' /\ Tipos /\ UnSitio /\ TiposCpu /\ finalizados \subseteq Pids
  BY DEF Sanas, FInv, Vivo, Capa, Tipos
<1>2. /\ hiloL = SinDespacho
      /\ UNCHANGED <<pcb, bandeja, hiloM, ejecutando, forz, k21, matados, finalizados, rechazados,
                     escapes>>
      /\ \/ UNCHANGED <<hiloL, cpu>>
         \/ /\ p # Nadie /\ c # Nadie /\ hiloL' = [pid |-> p, cpu |-> c]
            /\ cpu' = [cpu EXCEPT ![c] = f]
  BY <1>1 DEF EnviarPcb, Despachar
<1>3. CASE UNCHANGED <<hiloL, cpu>>
  BY <1>1, <1>2, <1>3, FinalesQuietos DEF Corriendo
<1>4. CASE /\ p # Nadie /\ c # Nadie /\ hiloL' = [pid |-> p, cpu |-> c]
           /\ cpu' = [cpu EXCEPT ![c] = f]
  <2>1. p \in Pids /\ p \in ToSet(listos)
    <3>1. listos \in Seq(Pids \cup {Nadie}) /\ SinRepetidos(listos)
      BY <1>1 DEF Tipos, UnSitio
    <3>2. listos # <<>> /\ p = Head(listos)
      BY <1>4
    <3> QED
      BY <1>4, <3>1, <3>2, ListosPrimero, SinPrimero
  <2>2. c \in Cpus /\ ~ejec[c]
    BY <1>1, <1>4, LibreEs DEF TiposCpu
  <2>3. hiloL.pid = Nadie
    BY <1>2 DEF SinDespacho
  <2>4. cpu[c].pid = Nadie /\ bandeja[c].pid = Nadie /\ bandeja[c].cod = "nada"
    BY <2>2, <2>3, NadaTiene
  <2>5. f.pid = p
    BY <1>1, <2>1 DEF TiposCpu, PcbsBien
  <2>6. p \notin Corriendo
    BY <1>1, <2>1 DEF UnSitio, Apartes, Corriendo
  <2> HIDE DEF p, c, f
  <2>7. cpu'[c] = f /\ \A d \in Cpus \ {c} : cpu'[d] = cpu[d]
    BY <1>1, <1>4, <2>2 DEF TiposCpu
  <2>8. hiloL'.pid = p
    BY <1>4
  <2>9. \A d \in Cpus, q \in Pids : Tiene(d, q)' <=> Tiene(d, q) \/ (d = c /\ q = p)
    BY <1>2, <2>1, <2>4, <2>5, <2>7, NadieAparte DEF Tiene
  <2>10. Corriendo' = Corriendo /\ (\A q : DevueltoA(q)' <=> DevueltoA(q))
    BY <1>2 DEF Corriendo, DevueltoA
  <2>11. Suyos /\ Avisos /\ Acabados /\ Muertos
    BY DEF Finales
  <2>12. \A d \in Cpus : ~Tiene(d, p)
    BY <2>1, <2>3, <2>6, <2>11, NadieAparte DEF Suyos
  <2>13. Suyos'
    <3>1. \A d \in Cpus, q \in Pids : Tiene(d, q)' => q \in Corriendo' \/ hiloL'.pid = q
      BY <2>3, <2>8, <2>9, <2>10, <2>11, NadieAparte DEF Suyos
    <3>2. \A d, e \in Cpus, q \in Pids : Tiene(d, q)' /\ Tiene(e, q)' => d = e
      BY <2>9, <2>11, <2>12 DEF Suyos
    <3>3. \A q \in Pids : DevueltoA(q)' => q \in Corriendo' /\ \A d \in Cpus : ~Tiene(d, q)'
      BY <2>6, <2>9, <2>10, <2>11 DEF Suyos
    <3> QED
      BY <3>1, <3>2, <3>3 DEF Suyos
  <2>14. \A q : Pedido(q) => Pedido(q)'
    BY <1>2 DEF Pedido
  <2>15. Avisos'
    <3>1. ASSUME NEW d \in Cpus, k21[d] # SinK21 PROVE Pedido(cpu[d].pid)'
      <4>1. CASE d = c
        <5>1. Pedido(Nadie)
          BY <2>2, <2>4, <2>11, <3>1, <4>1 DEF Avisos
        <5>2. "otro" \in riesgos
          BY <2>11, <5>1, NadieAparte DEF Pedido, Avisos
        <5> QED
          BY <5>2 DEF Pedido
      <4>2. CASE d # c
        BY <2>7, <2>11, <2>14, <3>1, <4>2 DEF Avisos
      <4> QED
        BY <4>1, <4>2
    <3> QED
      BY <1>2, <2>11, <3>1 DEF Avisos
  <2>16. Acabados'
    BY <1>2, <2>11, <2>14 DEF Acabados
  <2>17. Muertos'
    <3>1. \A q \in Pids : EnCamino(q) => EnCamino(q)'
      BY <1>2, <2>4, <2>7, NadieAparte DEF EnCamino
    <3>2. \A q : Escapa(q) <=> Escapa(q)'
      BY <1>2 DEF Escapa
    <3>3. matados \subseteq Pids
      BY <2>11 DEF Avisos
    <3>4. \A q \in matados' : q \in finalizados' \cup rechazados' \/ Escapa(q)' \/ EnCamino(q)'
      BY <1>2, <2>11, <3>1, <3>2, <3>3 DEF Muertos
    <3>5. hiloM'.pc = "K23" /\ bandeja'[hiloM'.cpu].cod = "P13" => Escapa(bandeja[hiloM.cpu].pid)'
      BY <1>2, <2>11, <3>2 DEF Muertos
    <3> QED
      BY <1>2, <3>4, <3>5 DEF Muertos
  <2> QED
    BY <2>13, <2>15, <2>16, <2>17 DEF Finales
<1> QED
  BY <1>2, <1>3, <1>4

LEMMA FinalesAnotar ==
  ASSUME FInv, Capa, Finales, Sanas, riesgos \subseteq riesgos', AnotarEnvio
  PROVE  Finales'
<1> DEFINE p == hiloL.pid
<1>1. /\ hiloL' = SinDespacho /\ ejecutando' = ejecutando \cup {p}
      /\ UNCHANGED <<pcb, cpu, bandeja, hiloM, forz, k21, matados, finalizados, rechazados, escapes>>
  BY DEF AnotarEnvio, AnotarDespacho, entorno
<1>2. Suyos /\ Avisos /\ Acabados /\ Muertos
  BY DEF Finales
<1>3. /\ \A c, q : Tiene(c, q)' <=> Tiene(c, q)
      /\ \A q : DevueltoA(q)' <=> DevueltoA(q)
      /\ Corriendo' = Corriendo \cup {p}
  BY <1>1 DEF Tiene, DevueltoA, Corriendo
<1>4. Suyos'
  BY <1>2, <1>3 DEF Suyos
<1>5. \A q : Pedido(q) => Pedido(q)'
  BY <1>1 DEF Pedido
<1>6. Avisos'
  BY <1>1, <1>2, <1>5 DEF Avisos
<1>7. Acabados'
  BY <1>1, <1>2, <1>5 DEF Acabados
<1>8. Muertos'
  BY <1>1, <1>2 DEF Muertos, EnCamino, Escapa
<1> QED
  BY <1>4, <1>6, <1>7, <1>8 DEF Finales
(* hiloM goes on: who came back leaves list_ejecutando, and has no CPU. *)
LEMMA FinalesFinalizar ==
  ASSUME FInv, Finales, Sanas, Sanas', FinalizarQuantum \/ FinalizarProceso, UNCHANGED nuevas
  PROVE  Finales'
<1> DEFINE p == hiloM.pid
<1>1. ~caido /\ ~caido' /\ Suyos /\ Avisos /\ Acabados /\ Muertos
  BY DEF Sanas, Finales
<1>2. /\ hiloM.pc \in {"P12", "P13"} /\ hiloM' = EnSelect /\ ejecutando' = ejecutando \ {p}
      /\ \/ hiloM.pc = "P12" /\ finalizados' = finalizados
         \/ hiloM.pc = "P13" /\ finalizados' = finalizados \cup {p} /\ Sacado # Nadie
      /\ UNCHANGED <<pcb, cpu, bandeja, hiloL, forz, riesgos, k21, matados, rechazados, escapes>>
  BY <1>1 DEF FinalizarQuantum, FinalizarProceso, nuevas
<1>3. hiloM.pc = "P13" => p \in Pids
  BY <1>1, <1>2 DEF Sacado, FInv, Vivo, Tipos
<1>4. hiloM'.pc = "select"
  BY <1>2 DEF EnSelect
<1>5. /\ \A c, q : Tiene(c, q)' <=> Tiene(c, q)
      /\ \A q : Pedido(q)' <=> Pedido(q)
      /\ \A q : Escapa(q)' <=> Escapa(q)
      /\ Corriendo \ {p} \subseteq Corriendo'
  BY <1>2 DEF Tiene, Pedido, Escapa, Corriendo
<1>6. Suyos'
  <2>1. \A q \in Pids : ~DevueltoA(q)'
    BY <1>4 DEF DevueltoA
  <2>2. \A q \in Pids : q = p => \A c \in Cpus : ~Tiene(c, q)
    BY <1>1, <1>2 DEF Suyos, DevueltoA
  <2> QED
    BY <1>1, <1>2, <1>5, <2>1, <2>2 DEF Suyos
<1>7. Avisos'
  BY <1>1, <1>2, <1>5 DEF Avisos
<1>8. Acabados'
  BY <1>1, <1>2, <1>3, <1>4, <1>5 DEF Acabados
<1>9. Muertos'
  <2>1. ASSUME NEW q \in matados
        PROVE  q \in finalizados' \cup rechazados' \/ Escapa(q)' \/ EnCamino(q)'
    BY <1>1, <1>2, <1>5 DEF Muertos, EnCamino
  <2> QED
    BY <1>2, <1>4, <2>1 DEF Muertos
<1> QED
  BY <1>6, <1>7, <1>8, <1>9 DEF Finales

(* It blocks who waits: a P13 read here is known to escape. *)
LEMMA FinalesBloquear ==
  ASSUME FInv, Capa, Finales, Sanas, Sanas', BloquearProceso, UNCHANGED nuevas
  PROVE  Finales'
<1> DEFINE c == hiloM.cpu
           p == hiloM.pid
<1>1. /\ ~caido /\ ~caido' /\ Suyos /\ Avisos /\ Acabados /\ Muertos
      /\ TiposCpu /\ EnFase /\ Anotadas /\ UnSitio /\ Tipos
  BY DEF Sanas, Finales, Capa, FInv, Vivo
<1>2. /\ hiloM.pc = "K23" /\ bandeja[c].cod # "nada" /\ pcb' = PcbTrasK23 /\ Leido(c)
      /\ Sacado # Nadie /\ ejecutando' = ejecutando \ {p} /\ hiloM' = EnSelect
      /\ UNCHANGED <<cpu, hiloL, forz, riesgos, finalizados, k21, matados, rechazados, escapes>>
  BY <1>1 DEF BloquearProceso, nuevas
<1>3. c \in Cpus /\ ejec[c] /\ p \in Pids /\ program[c] = p /\ p \in ejecutando
  BY <1>1, <1>2 DEF Anotadas, Sacado
<1>4. bandeja[c].cod \in {"P12", "P13", "P16"}
  <2>1. bandeja[c].cod \in Mensajes
    BY <1>1, <1>3 DEF TiposCpu, Carta
  <2>2. cpu[c].fase = "K23" \/ bandeja[c].cod \in {"P12", "P13", "P16"}
    BY <1>1, <1>2 DEF Anotadas
  <2>3. bandeja[c].cod \in {"P14", "P15"} => cpu[c].fase = "espera"
    BY <1>1, <1>3 DEF EnFase
  <2> QED
    BY <1>2, <2>1, <2>2, <2>3 DEF Mensajes
<1>5. hiloL.cpu # c
  <2>1. hiloL # SinDespacho => hiloL.cpu # c
    BY <1>1, <1>3 DEF Anotadas
  <2>2. hiloL = SinDespacho => hiloL.cpu = Nadie
    BY DEF SinDespacho
  <2> QED
    BY <1>3, <2>1, <2>2, NadieAparte
<1>6. bandeja[c].pid = p /\ cpu[c].pid = Nadie /\ Tiene(c, p)
  BY <1>3, <1>4, <1>5, CartaDelPrograma DEF Tiene
<1>7. /\ bandeja'[c].pid = Nadie /\ bandeja'[c].cod = "nada"
      /\ \A d \in Cpus \ {c} : bandeja'[d] = bandeja[d]
  BY <1>1, <1>2, <1>3, CartaLeida
<1>8. \A q \in Pids : q # p => pcb'[q] = pcb[q]
  <2> DEFINE r == [pid |-> bandeja[c].pid, pc |-> bandeja[c].pc]
  <2>1. pcb' = pcb \/ pcb' = [pcb EXCEPT ![p] = r]
    BY <1>2 DEF PcbTrasK23
  <2> HIDE DEF r, p
  <2> QED
    BY <1>1, <2>1 DEF TiposCpu, PcbsBien
<1>9. p \notin finalizados
  BY <1>1, <1>3 DEF UnSitio, Apartes
<1>10. Escapa(p) \/ bandeja[c].cod # "P13"
  BY <1>1, <1>2, <1>6 DEF Muertos
<1> HIDE DEF c, p
<1>11. hiloM'.pc = "select"
  BY <1>2 DEF EnSelect
<1>12. \A d \in Cpus, q \in Pids : Tiene(d, q)' <=> Tiene(d, q) /\ d # c
  BY <1>2, <1>3, <1>6, <1>7, NadieAparte DEF Tiene
<1>13. /\ \A q : Pedido(q)' <=> Pedido(q)
       /\ \A q : Escapa(q)' <=> Escapa(q)
       /\ Corriendo \ {p} \subseteq Corriendo'
  BY <1>2 DEF Pedido, Escapa, Corriendo
<1>14. Suyos'
  <2>1. \A q \in Pids : ~DevueltoA(q)'
    BY <1>11 DEF DevueltoA
  <2>2. \A d \in Cpus, q \in Pids : q = p => ~Tiene(d, q)'
    BY <1>1, <1>3, <1>6, <1>12 DEF Suyos
  <2> QED
    BY <1>1, <1>2, <1>3, <1>12, <1>13, <2>1, <2>2 DEF Suyos
<1>15. Avisos'
  BY <1>1, <1>2, <1>13 DEF Avisos
<1>16. Acabados'
  <2>1. \A d \in Cpus : bandeja'[d].cod = "P13" =>
           Pedido(bandeja[d].pid)' \/ bandeja'[d].pc = Len(Guion[bandeja'[d].pid])
    BY <1>1, <1>7, <1>13 DEF Acabados
  <2>2. \A d \in Cpus : bandeja'[d].cod = "P13" => bandeja'[d] = bandeja[d]
    BY <1>7
  <2>3. \A q \in finalizados' : Pedido(q)' \/ pcb'[q].pc = Len(Guion[q])
    BY <1>1, <1>2, <1>8, <1>9, <1>13 DEF Acabados, Tipos
  <2> QED
    BY <1>11, <2>1, <2>2, <2>3 DEF Acabados
<1>17. Muertos'
  <2>1. ASSUME NEW q \in matados
        PROVE  q \in finalizados' \cup rechazados' \/ Escapa(q)' \/ EnCamino(q)'
    <3>1. q \in finalizados \cup rechazados \/ Escapa(q) \/ EnCamino(q)
      BY <1>1 DEF Muertos
    <3>2. EnCamino(q) => EnCamino(q)' \/ Escapa(q)
      BY <1>2, <1>3, <1>6, <1>7, <1>10 DEF EnCamino
    <3> QED
      BY <1>2, <1>13, <3>1, <3>2
  <2> QED
    BY <1>2, <1>11, <2>1 DEF Muertos
<1> QED
  BY <1>14, <1>15, <1>16, <1>17 DEF Finales
(* The end of forzar_finalizacion *)
LEMMA FinalesFin ==
  ASSUME Finales, UNCHANGED <<cpu, bandeja, hiloL, pcb>>,
         riesgos \subseteq riesgos', escapes \subseteq escapes', Corriendo \subseteq Corriendo',
         hiloM' = hiloM \/ (hiloM.pc \notin {"P12", "P13", "K23"} /\ hiloM'.pc \notin {"P12", "P13", "K23"}),
         finalizados \subseteq finalizados', rechazados \subseteq rechazados',
         matados \subseteq matados', matados' \subseteq Pids,
         k21' \in [Cpus -> [antes : Nat, despues : Nat]],
         \A c \in Cpus : k21[c] # SinK21 => k21'[c] # SinK21,
         \A c \in Cpus : k21'[c] # SinK21 => k21[c] # SinK21 \/ Pedido(cpu[c].pid)',
         \A p \in finalizados' : p \in finalizados \cup matados',
         \A p \in matados' : \/ p \in matados
                             \/ p \in finalizados' \cup rechazados' \/ Escapa(p)' \/ EnCamino(p)'
  PROVE  Finales'
<1>1. Suyos /\ Avisos /\ Acabados /\ Muertos
  BY DEF Finales
<1>2. \A c, p : Tiene(c, p)' <=> Tiene(c, p)
  BY DEF Tiene
<1>3. /\ \A p : DevueltoA(p)' <=> DevueltoA(p)
      /\ \A p : hiloM'.pc = "P13" /\ hiloM'.pid = p <=> hiloM.pc = "P13" /\ hiloM.pid = p
      /\ hiloM'.pc = "K23" => hiloM.pc = "K23" /\ hiloM'.cpu = hiloM.cpu
  BY DEF DevueltoA
<1>4. (\A p : Pedido(p) => Pedido(p)') /\ \A p : Escapa(p) => Escapa(p)'
  BY DEF Pedido, Escapa
<1>5. Suyos'
  BY <1>1, <1>2, <1>3 DEF Suyos
<1>6. Avisos'
  BY <1>1, <1>4 DEF Avisos
<1>7. Acabados'
  <2>1. \A c \in Cpus : bandeja'[c].cod = "P13" =>
           Pedido(bandeja[c].pid)' \/ bandeja'[c].pc = Len(Guion[bandeja'[c].pid])
    BY <1>1, <1>4 DEF Acabados
  <2>2. \A p \in Pids : hiloM'.pc = "P13" /\ hiloM'.pid = p => Pedido(p)' \/ pcb'[p].pc = Len(Guion[p])
    BY <1>1, <1>3, <1>4 DEF Acabados
  <2>3. \A p \in finalizados' : Pedido(p)' \/ pcb'[p].pc = Len(Guion[p])
    BY <1>1, <1>4 DEF Acabados, Pedido
  <2> QED
    BY <2>1, <2>2, <2>3 DEF Acabados
<1>8. Muertos'
  <2>1. \A p : EnCamino(p) => EnCamino(p)'
    BY <1>3 DEF EnCamino
  <2>2. \A p \in matados' : p \in finalizados' \cup rechazados' \/ Escapa(p)' \/ EnCamino(p)'
    BY <1>1, <1>4, <2>1 DEF Muertos
  <2>3. hiloM'.pc = "K23" /\ bandeja'[hiloM'.cpu].cod = "P13" => Escapa(bandeja[hiloM.cpu].pid)'
    BY <1>1, <1>3, <1>4 DEF Muertos
  <2> QED
    BY <2>2, <2>3 DEF Muertos
<1> QED
  BY <1>5, <1>6, <1>7, <1>8 DEF Finales
(* What the end of any of them leaves alone *)
LEMMA FinDeja ==
  ASSUME FInv, Capa, Finales, Sanas, Fin, forz.pc = "matar"
  PROVE  /\ UNCHANGED <<cpu, bandeja, hiloL, pcb>> /\ forz.pid \in Pids
         /\ hiloM' = hiloM \/ (hiloM.pc \notin {"P12", "P13", "K23"} /\ hiloM'.pc \notin {"P12", "P13", "K23"})
         /\ rechazados \subseteq rechazados' /\ matados \subseteq matados' /\ matados' \subseteq Pids
         /\ matados' \subseteq matados \cup {forz.pid}
         /\ forz.de # "" => forz.pid \in matados' /\ forz.preso = forz.pid
         /\ forz.de = "" => forz.preso = Nadie
<1>1. ~caido /\ Tipos /\ Victima /\ UnSitio /\ matados \subseteq Pids
  BY DEF Sanas, FInv, Vivo, Finales, Avisos
<1>2. forz.pid \in Pids
  BY <1>1 DEF Victima
<1>3. UNCHANGED <<cpu, bandeja, hiloL, pcb>>
  BY DEF Fin
<1>4. hiloM' = hiloM \/ (hiloM.pc \notin {"P12", "P13", "K23"} /\ hiloM'.pc \notin {"P12", "P13", "K23"})
  BY <1>1 DEF Fin, Victima, EnSelect
<1>5. /\ rechazados \subseteq rechazados' /\ matados \subseteq matados' /\ matados' \subseteq Pids
      /\ matados' \subseteq matados \cup {forz.pid}
      /\ forz.quien # "N" => forz.pid \in matados'
  BY <1>1, <1>2 DEF Fin
<1>6. forz.de # "" => forz.preso = forz.pid /\ forz.quien # "N"
  BY <1>1, <1>2 DEF Victima, UnSitio, Apartes
<1>7. forz.de = "" => forz.preso = Nadie
  BY <1>1 DEF Victima
<1> QED
  BY <1>2, <1>3, <1>4, <1>5, <1>6, <1>7

(* Who was seen, and was not found, was in somebody's hands.                *)
LEMMA FinalesNoEstaba ==
  ASSUME FInv, Capa, Vistos, Finales, Sanas, NoEstaba
  PROVE  Finales'
<1> DEFINE p == forz.pid
<1>1. /\ forz.pc = "matar" /\ forz.preso = Nadie /\ Fin
      /\ escapes' = IF forz.visto /\ "cruce" \notin riesgos THEN escapes
                    ELSE escapes \cup {<<p, "enManos">>}
      /\ UNCHANGED <<ejecutando, finalizados, k21, riesgos>>
  BY DEF NoEstaba
<1>2. escapes' = escapes \cup {<<p, "enManos">>}
  BY <1>1 DEF Vistos, SinEncontrar
<1>3. \A q : q = p => Escapa(q)'
  <2>1. <<p, "enManos">>[1] = p /\ <<p, "enManos">> \in escapes'
    BY <1>2
  <2> QED
    BY <2>1 DEF Escapa
<1>4. Corriendo \subseteq Corriendo'
  <2>1. forz.de # "ejecutando"
    BY <1>1, FinDeja, NadieAparte
  <2> QED
    BY <1>1, <2>1 DEF Corriendo
<1>5. k21' \in [Cpus -> [antes : Nat, despues : Nat]]
  BY <1>1 DEF Finales, Avisos
<1> QED
  BY <1>1, <1>2, <1>3, <1>4, <1>5, FinDeja, FinalesFin

LEMMA FinalesTerminar ==
  ASSUME FInv, Capa, Finales, Sanas, Terminar
  PROVE  Finales'
<1>1. /\ forz.pc = "matar" /\ forz.de \in {"bloqueados", "listos"} /\ Fin
      /\ finalizados' = finalizados \cup {forz.pid}
      /\ UNCHANGED <<ejecutando, escapes, k21, riesgos>>
  BY DEF Terminar
<1>2. forz.pid \in matados' /\ matados' \subseteq matados \cup {forz.pid}
  BY <1>1, FinDeja
<1>3. Corriendo \subseteq Corriendo'
  BY <1>1 DEF Corriendo
<1>4. k21' \in [Cpus -> [antes : Nat, despues : Nat]]
  BY <1>1 DEF Finales, Avisos
<1>5. \A p \in finalizados' : p \in finalizados \cup matados'
  BY <1>1, <1>2
<1>6. \A p \in matados' : p \in matados \/ p \in finalizados'
  BY <1>1, <1>2
<1> QED
  BY <1>1, <1>3, <1>4, <1>5, <1>6, FinDeja, FinalesFin

(* The K21 goes to the CPU of the process, or it is known that it does not. *)
LEMMA FinalesPedir ==
  ASSUME FInv, Capa, Finales, Sanas, Sanas', PedirPcbError
  PROVE  Finales'
<1> DEFINE p == forz.pid
           k == SelectInSeq(cpus, LAMBDA d : program[d] \in {p, Nadie})
           c == cpus[k]
<1>1. /\ forz.pc = "matar" /\ forz.de = "ejecutando" /\ k # 0 /\ Fin
      /\ k21' = CASE cpu[c].fase = "libre"  -> k21
                  [] cpu[c].fase = "espera" -> [k21 EXCEPT ![c].antes = @ + 1]
                  [] OTHER                  -> [k21 EXCEPT ![c].despues = @ + 1]
      /\ escapes' = IF cpu[c].pid = p THEN escapes ELSE escapes \cup {<<p, "otraCpu">>}
      /\ riesgos' = IF cpu[c].pid \in {p, Nadie} THEN riesgos ELSE riesgos \cup {"otro"}
      /\ ejecutando' = ejecutando \cup {p} /\ finalizados' = finalizados
  BY DEF PedirPcbError, Sanas
<1>2. c \in Cpus
  <2> DEFINE I == {i \in 1 .. Len(cpus) : program[cpus[i]] \in {p, Nadie}}
  <2>1. I # {} /\ k = Min(I)
    BY <1>1 DEF SelectInSeq
  <2>2. cpus \in Seq(Cpus) /\ Len(cpus) \in Nat
    BY LenProperties DEF Capa, TiposCpu
  <2>3. I \in SUBSET Nat /\ I \subseteq 1 .. Len(cpus)
    BY <2>2
  <2> HIDE DEF I, k
  <2>4. k \in I
    BY <2>1, <2>3, MinEsMinimo
  <2> QED
    BY <2>2, <2>3, <2>4, ElementOfSeq
<1> HIDE DEF k, c
<1>3. /\ p \in matados' /\ forz.preso = p /\ p \in Pids
      /\ matados' \subseteq matados \cup {p} /\ cpu' = cpu
  BY <1>1, FinDeja
<1>4. /\ k21 \in [Cpus -> [antes : Nat, despues : Nat]]
      /\ cpu[c].fase = "libre" <=> cpu[c].pid = Nadie
  BY <1>2 DEF Finales, Avisos, Capa, EnFase
<1>5. /\ k21' \in [Cpus -> [antes : Nat, despues : Nat]]
      /\ \A d \in Cpus \ {c} : k21'[d] = k21[d]
      /\ cpu[c].fase = "libre" => k21' = k21
      /\ cpu[c].fase # "libre" => k21'[c] # SinK21
  <2>1. CASE cpu[c].fase = "libre"
    BY <1>1, <1>4, <2>1
  <2>2. CASE cpu[c].fase = "espera"
    <3> DEFINE v == [antes |-> k21[c].antes + 1, despues |-> k21[c].despues]
    <3>1. k21' = [k21 EXCEPT ![c] = v] /\ v \in [antes : Nat, despues : Nat] /\ v # SinK21
      <4>1. k21' = [k21 EXCEPT ![c] = [k21[c] EXCEPT !.antes = k21[c].antes + 1]]
        BY <1>1, <2>2
      <4>2. [k21[c] EXCEPT !.antes = k21[c].antes + 1] = v
        BY <1>2, <1>4
      <4>3. v \in [antes : Nat, despues : Nat] /\ v.antes # 0
        BY <1>2, <1>4
      <4> HIDE DEF v
      <4>4. v # SinK21
        BY <4>3 DEF SinK21
      <4> QED
        BY <4>1, <4>2, <4>3, <4>4
    <3> HIDE DEF v
    <3> QED
      BY <1>2, <1>4, <2>2, <3>1
  <2>3. CASE cpu[c].fase \notin {"libre", "espera"}
    <3> DEFINE v == [antes |-> k21[c].antes, despues |-> k21[c].despues + 1]
    <3>1. k21' = [k21 EXCEPT ![c] = v] /\ v \in [antes : Nat, despues : Nat] /\ v # SinK21
      <4>1. k21' = [k21 EXCEPT ![c] = [k21[c] EXCEPT !.despues = k21[c].despues + 1]]
        BY <1>1, <2>3
      <4>2. [k21[c] EXCEPT !.despues = k21[c].despues + 1] = v
        BY <1>2, <1>4
      <4>3. v \in [antes : Nat, despues : Nat] /\ v.despues # 0
        BY <1>2, <1>4
      <4> HIDE DEF v
      <4>4. v # SinK21
        BY <4>3 DEF SinK21
      <4> QED
        BY <4>1, <4>2, <4>3, <4>4
    <3> HIDE DEF v
    <3> QED
      BY <1>2, <1>4, <2>3, <3>1
  <2> QED
    BY <2>1, <2>2, <2>3
<1>6. \A d \in Cpus : k21[d] # SinK21 => k21'[d] # SinK21
  BY <1>5
<1>7. \A d \in Cpus : k21'[d] # SinK21 => k21[d] # SinK21 \/ Pedido(cpu[d].pid)'
  <2>1. cpu[c].fase # "libre" => Pedido(cpu[c].pid) \/ cpu[c].pid = p \/ "otro" \in riesgos'
    BY <1>1, <1>4
  <2>2. ASSUME NEW d \in Cpus, d = c, cpu[c].fase # "libre" PROVE Pedido(cpu[d].pid)'
    BY <1>1, <1>3, <1>4, <2>2 DEF Pedido
  <2> QED
    BY <1>5, <2>2
<1>8. \A q \in matados' : q \in matados \/ Escapa(q)' \/ EnCamino(q)'
  <2>1. CASE cpu[c].pid = p
    <3>1. cpu[c].fase # "libre"
      BY <1>3, <1>4, <2>1, NadieAparte
    <3>2. cpu'[c].pid = p /\ k21'[c] # SinK21
      BY <1>3, <1>5, <2>1, <3>1
    <3> QED
      BY <1>2, <1>3, <3>2 DEF EnCamino
  <2>2. CASE cpu[c].pid # p
    <3>1. <<p, "otraCpu">>[1] = p /\ <<p, "otraCpu">> \in escapes'
      BY <1>1, <2>2
    <3> QED
      BY <1>3, <3>1 DEF Escapa
  <2> QED
    BY <2>1, <2>2
<1>9. Corriendo \subseteq Corriendo'
  BY <1>1, <1>3 DEF Corriendo
<1>10. riesgos \subseteq riesgos' /\ escapes \subseteq escapes'
  BY <1>1
<1>11. \A q \in finalizados' : q \in finalizados \cup matados'
  BY <1>1
<1> QED
  BY <1>1, <1>5, <1>6, <1>7, <1>8, <1>9, <1>10, <1>11, FinDeja, FinalesFin
(* The PCB comes back: who ends is who the message says, with its reason.   *)
LEMMA FinalesDevuelve ==
  ASSUME FInv, Capa, Finales, Sanas, NEW c \in Cpus, NEW cod \in {"P12", "P13"},
         DevuelvePcb(c, cod), UNCHANGED nuevas
  PROVE  Finales'
<1> DEFINE p == bandeja[c].pid
           r == [pid |-> p, pc |-> bandeja[c].pc]
<1>1. /\ ~caido /\ Suyos /\ Avisos /\ Acabados /\ Muertos /\ TiposCpu /\ Anotadas
      /\ UnSitio /\ finalizados \subseteq Pids
  BY DEF Sanas, Finales, Capa, FInv, Vivo, Tipos
<1>2. /\ hiloM = EnSelect /\ bandeja[c].cod = cod /\ hiloL.cpu # c
      /\ pcb' = [pcb EXCEPT ![program[c]] = r]
      /\ hiloM' = [pc |-> cod, cpu |-> c, pid |-> p, sem |-> Nadie] /\ Leido(c)
      /\ UNCHANGED <<cpu, hiloL, ejecutando, forz, riesgos, finalizados, k21, matados, rechazados,
                     escapes>>
  BY DEF DevuelvePcb, Mensaje, listas, nuevas
<1>3. p \in Pids /\ program[c] = p /\ cpu[c].pid = Nadie /\ Tiene(c, p)
  BY <1>2, CartaDelPrograma DEF Tiene
<1>4. /\ bandeja'[c].pid = Nadie /\ bandeja'[c].cod = "nada"
      /\ \A d \in Cpus \ {c} : bandeja'[d] = bandeja[d]
  BY <1>1, <1>2, CartaLeida
<1>5. hiloL.pid # p
  <2>1. hiloL # SinDespacho => Tiene(hiloL.cpu, hiloL.pid) /\ hiloL.cpu \in Cpus
    BY <1>1 DEF Anotadas
  <2>2. hiloL = SinDespacho => hiloL.pid = Nadie
    BY DEF SinDespacho
  <2> QED
    BY <1>1, <1>2, <1>3, <2>1, <2>2, NadieAparte DEF Suyos
<1>6. p \in Corriendo /\ p \notin finalizados
  <2>1. p \in Corriendo
    BY <1>1, <1>3, <1>5 DEF Suyos
  <2> QED
    BY <1>1, <1>3, <2>1 DEF UnSitio, Apartes, Corriendo
<1>7. pcb'[p].pc = bandeja[c].pc /\ \A q \in Pids : q # p => pcb'[q] = pcb[q]
  <2>1. r.pc = bandeja[c].pc
    OBVIOUS
  <2> HIDE DEF r, p
  <2> QED
    BY <1>1, <1>2, <1>3, <2>1 DEF TiposCpu, PcbsBien
<1>8. hiloM'.pc = cod /\ hiloM'.pid = p /\ hiloM.pc = "select"
  BY <1>2 DEF EnSelect
<1>9. cod = "P13" => Pedido(p) \/ bandeja[c].pc = Len(Guion[p])
  BY <1>1, <1>2 DEF Acabados
<1>10. bandeja[c].pid = p
  OBVIOUS
<1> HIDE DEF p, r
<1>11. \A d \in Cpus, q \in Pids : Tiene(d, q)' <=> Tiene(d, q) /\ d # c
  BY <1>2, <1>3, <1>4, <1>10, NadieAparte DEF Tiene
<1>12. /\ \A q : Pedido(q)' <=> Pedido(q)
       /\ \A q : Escapa(q)' <=> Escapa(q)
       /\ Corriendo' = Corriendo
  BY <1>2 DEF Pedido, Escapa, Corriendo
<1>13. Suyos'
  <2>1. \A q \in Pids : DevueltoA(q)' => q = p
    BY <1>8 DEF DevueltoA
  <2>2. \A d \in Cpus, q \in Pids : q = p => ~Tiene(d, q)'
    BY <1>1, <1>3, <1>11 DEF Suyos
  <2> QED
    BY <1>1, <1>2, <1>6, <1>11, <1>12, <2>1, <2>2 DEF Suyos
<1>14. Avisos'
  BY <1>1, <1>2, <1>12 DEF Avisos
<1>15. Acabados'
  <2>1. \A d \in Cpus : bandeja'[d].cod = "P13" =>
           Pedido(bandeja[d].pid)' \/ bandeja'[d].pc = Len(Guion[bandeja'[d].pid])
    <3>1. \A d \in Cpus : bandeja'[d].cod = "P13" => bandeja'[d] = bandeja[d]
      BY <1>4
    <3>2. \A d \in Cpus : bandeja[d].cod = "P13" =>
            Pedido(bandeja[d].pid) \/ bandeja[d].pc = Len(Guion[bandeja[d].pid])
      BY <1>1 DEF Acabados
    <3> QED
      BY <1>12, <3>1, <3>2
  <2>2. \A q \in Pids : hiloM'.pc = "P13" /\ hiloM'.pid = q => Pedido(q)' \/ pcb'[q].pc = Len(Guion[q])
    BY <1>7, <1>8, <1>9, <1>12
  <2>3. \A q \in finalizados' : Pedido(q)' \/ pcb'[q].pc = Len(Guion[q])
    BY <1>1, <1>2, <1>6, <1>7, <1>12 DEF Acabados
  <2> QED
    BY <2>1, <2>2, <2>3 DEF Acabados
<1>16. Muertos'
  <2>1. ASSUME NEW q \in matados
        PROVE  q \in finalizados' \cup rechazados' \/ Escapa(q)' \/ EnCamino(q)'
    <3>1. q \in finalizados \cup rechazados \/ Escapa(q) \/ EnCamino(q)
      BY <1>1 DEF Muertos
    <3>2. EnCamino(q) => EnCamino(q)'
      BY <1>2, <1>4, <1>8, <1>10 DEF EnCamino
    <3> QED
      BY <1>2, <1>12, <3>1, <3>2
  <2> QED
    BY <1>2, <1>8, <2>1 DEF Muertos
<1> QED
  BY <1>13, <1>14, <1>15, <1>16 DEF Finales

(* A wait or a signal is answered: the CPU keeps its process. *)
LEMMA FinalesContesta ==
  ASSUME FInv, Capa, Finales, Sanas, NEW c \in Cpus, P14(c) \/ P15(c), UNCHANGED nuevas
  PROVE  Finales'
<1>1. /\ Suyos /\ Avisos /\ Acabados /\ Muertos /\ TiposCpu /\ EnFase
  BY DEF Sanas, Finales, Capa
<1>2. /\ hiloM = EnSelect /\ bandeja[c].cod \in {"P14", "P15"} /\ Leido(c)
      /\ UNCHANGED <<pcb, hiloL, ejecutando, forz, riesgos, finalizados, k21, matados, rechazados,
                     escapes>>
      /\ \/ Pasa(c, "OK") /\ UNCHANGED hiloM
         \/ Pasa(c, "K23") /\ hiloM'.pc = "K23" /\ hiloM'.cpu = c
  BY DEF P14, P15, Mensaje, Pasa, listas, nuevas
<1>3. PICK f \in {"OK", "K23"} : Pasa(c, f)
  BY <1>2
<1>4. /\ bandeja'[c].pid = Nadie /\ bandeja'[c].cod = "nada" /\ bandeja[c].pid = Nadie
      /\ \A d \in Cpus \ {c} : bandeja'[d] = bandeja[d]
  BY <1>1, <1>2, CartaLeida DEF EnFase
<1>5. \A d \in Cpus : cpu'[d].pid = cpu[d].pid
  <2>1. cpu[c] \in Maquina /\ cpu \in [Cpus -> Maquina]
    BY <1>1 DEF TiposCpu
  <2>2. [cpu[c] EXCEPT !.fase = f].pid = cpu[c].pid
    BY <2>1 DEF Maquina
  <2>3. cpu' = [cpu EXCEPT ![c] = [cpu[c] EXCEPT !.fase = f]]
    BY <1>3 DEF Pasa
  <2> QED
    BY <2>1, <2>2, <2>3
<1>6. hiloM.pc = "select" /\ hiloM'.pc \in {"select", "K23"} /\ (hiloM'.pc = "K23" => hiloM'.cpu = c)
  BY <1>2 DEF EnSelect
<1>7. \A d \in Cpus, q \in Pids : Tiene(d, q)' <=> Tiene(d, q)
  BY <1>4, <1>5, NadieAparte DEF Tiene
<1>8. /\ \A q : Pedido(q)' <=> Pedido(q)
      /\ \A q : Escapa(q)' <=> Escapa(q)
      /\ Corriendo' = Corriendo
      /\ \A q : ~DevueltoA(q)'
  BY <1>2, <1>6 DEF Pedido, Escapa, Corriendo, DevueltoA
<1>9. Suyos'
  BY <1>1, <1>2, <1>7, <1>8 DEF Suyos
<1>10. Avisos'
  BY <1>1, <1>2, <1>5, <1>8 DEF Avisos
<1>11. Acabados'
  <2>1. \A d \in Cpus : bandeja'[d].cod = "P13" =>
           Pedido(bandeja[d].pid)' \/ bandeja'[d].pc = Len(Guion[bandeja'[d].pid])
    <3>1. \A d \in Cpus : bandeja'[d].cod = "P13" => bandeja'[d] = bandeja[d]
      BY <1>4
    <3>2. \A d \in Cpus : bandeja[d].cod = "P13" =>
            Pedido(bandeja[d].pid) \/ bandeja[d].pc = Len(Guion[bandeja[d].pid])
      BY <1>1 DEF Acabados
    <3> QED
      BY <1>8, <3>1, <3>2
  <2> QED
    BY <1>1, <1>2, <1>6, <1>8, <2>1 DEF Acabados
<1>12. Muertos'
  <2>1. \A q \in Pids : EnCamino(q) => EnCamino(q)'
    BY <1>2, <1>4, <1>5, <1>6, NadieAparte DEF EnCamino
  <2>2. matados \subseteq Pids
    BY <1>1 DEF Avisos
  <2>3. \A q \in matados' : q \in finalizados' \cup rechazados' \/ Escapa(q)' \/ EnCamino(q)'
    BY <1>1, <1>2, <1>8, <2>1, <2>2 DEF Muertos
  <2> QED
    BY <1>4, <1>6, <2>3 DEF Muertos
<1> QED
  BY <1>9, <1>10, <1>11, <1>12 DEF Finales
(* One CPU goes on, and what it says or leaves unread tells for whom it was. *)
LEMMA FinalesUnaCpu ==
  ASSUME Capa, Finales, NEW c \in Cpus, NEW f \in Maquina, NEW m \in Carta, Deja(c, f, m),
         UNCHANGED <<pcb, hiloL, hiloM, ejecutando, forz, riesgos, matados, finalizados, rechazados>>,
         escapes \subseteq escapes', k21' \in [Cpus -> [antes : Nat, despues : Nat]],
         \A d \in Cpus \ {c} : k21'[d] = k21[d],
         k21'[c] # SinK21 => k21[c] # SinK21 /\ f.pid = cpu[c].pid,
         \A p \in Pids : f.pid = p \/ m.pid = p <=> Tiene(c, p),
         bandeja[c].cod = "nada", cpu[c].pid \in Pids,
         m.cod = "P13" => Pedido(m.pid) \/ m.pc = Len(Guion[m.pid]),
         k21[c] # SinK21 => \/ \E e \in escapes' : e[1] = cpu[c].pid
                            \/ k21'[c] # SinK21 /\ f.pid = cpu[c].pid
                            \/ m.pid = cpu[c].pid /\ m.cod = "P13",
         hiloM.pc = "K23" /\ hiloM.cpu = c /\ m.cod = "P13" => \E e \in escapes' : e[1] = m.pid
  PROVE  Finales'
<1>1. Suyos /\ Avisos /\ Acabados /\ Muertos /\ TiposCpu /\ Anotadas
  BY DEF Finales, Capa
<1>2. /\ cpu'[c] = f /\ bandeja'[c] = m
      /\ \A d \in Cpus \ {c} : cpu'[d] = cpu[d] /\ bandeja'[d] = bandeja[d]
  BY <1>1 DEF TiposCpu, Deja
<1>3. \A d \in Cpus, p \in Pids : Tiene(d, p)' <=> Tiene(d, p)
  BY <1>2 DEF Tiene
<1>4. /\ \A q : Pedido(q)' <=> Pedido(q)
      /\ \A q : Escapa(q) => Escapa(q)'
      /\ Corriendo' = Corriendo
      /\ \A q : DevueltoA(q)' <=> DevueltoA(q)
  BY DEF Pedido, Escapa, Corriendo, DevueltoA
<1>5. Suyos'
  BY <1>1, <1>3, <1>4 DEF Suyos
<1>6. Avisos'
  <2>1. ASSUME NEW d \in Cpus, k21'[d] # SinK21 PROVE Pedido(cpu'[d].pid)
    <3>1. cpu'[d].pid = cpu[d].pid /\ k21[d] # SinK21
      BY <1>2, <2>1
    <3> QED
      BY <1>1, <3>1 DEF Avisos
  <2> QED
    BY <1>1, <1>4, <2>1 DEF Avisos
<1>7. Acabados'
  <2>1. ASSUME NEW d \in Cpus, bandeja'[d].cod = "P13"
        PROVE  Pedido(bandeja'[d].pid) \/ bandeja'[d].pc = Len(Guion[bandeja'[d].pid])
    <3>1. CASE d = c
      BY <1>2, <2>1, <3>1
    <3>2. CASE d # c
      <4>1. bandeja'[d] = bandeja[d]
        BY <1>2, <3>2
      <4> QED
        BY <1>1, <2>1, <4>1 DEF Acabados
    <3> QED
      BY <3>1, <3>2
  <2> QED
    BY <1>1, <1>4, <2>1 DEF Acabados
<1>8. Muertos'
  <2>1. ASSUME NEW q \in matados
        PROVE  q \in finalizados' \cup rechazados' \/ Escapa(q)' \/ EnCamino(q)'
    <3>1. q \in finalizados \cup rechazados \/ Escapa(q) \/ EnCamino(q)
      BY <1>1 DEF Muertos
    <3>2. ASSUME NEW d \in Cpus, \/ cpu[d].pid = q /\ k21[d] # SinK21
                                 \/ bandeja[d].pid = q /\ bandeja[d].cod = "P13"
          PROVE  Escapa(q)' \/ EnCamino(q)'
      <4>1. CASE d = c
        <5>1. cpu[c].pid = q /\ k21[c] # SinK21
          BY <3>2, <4>1
        <5> QED
          BY <1>2, <5>1 DEF Escapa, EnCamino
      <4>2. CASE d # c
        BY <1>2, <3>2, <4>2 DEF EnCamino
      <4> QED
        BY <4>1, <4>2
    <3>3. hiloM.pc = "P13" /\ hiloM.pid = q => EnCamino(q)'
      BY DEF EnCamino
    <3> QED
      BY <1>4, <3>1, <3>2, <3>3 DEF EnCamino
  <2>2. hiloM'.pc = "K23" /\ bandeja'[hiloM'.cpu].cod = "P13" =>
          \E e \in escapes' : e[1] = bandeja'[hiloM'.cpu].pid
    <3> SUFFICES ASSUME hiloM.pc = "K23", bandeja'[hiloM.cpu].cod = "P13"
                 PROVE  \E e \in escapes' : e[1] = bandeja'[hiloM.cpu].pid
      OBVIOUS
    <3>1. hiloM.cpu \in Cpus
      BY <1>1 DEF Anotadas
    <3>2. CASE hiloM.cpu = c
      BY <1>2, <3>2
    <3>3. CASE hiloM.cpu # c
      <4>1. bandeja'[hiloM.cpu] = bandeja[hiloM.cpu]
        BY <1>2, <3>1, <3>3
      <4> QED
        BY <1>1, <4>1 DEF Muertos, Escapa
    <3> QED
      BY <3>2, <3>3
  <2> QED
    BY <2>1, <2>2 DEF Muertos, Escapa
<1> QED
  BY <1>5, <1>6, <1>7, <1>8 DEF Finales
(* The end of an instruction: a K21 in the socket ends the process, unless  *)
(* the quantum or a wait that blocks comes first.                           *)
LEMMA FinalesInstruccion ==
  ASSUME FInv, Capa, Finales, Sanas, NEW c \in Cpus, NEW accion \in {"continuar", "P13", "P16"},
         TerminarInstruccion(c, accion), cpu[c].fase \in {"corre", "OK", "K23"},
         cpu[c].fase = "K23" => accion = "P16",
         accion = "P13" => cpu[c].pc + 1 = Len(Guion[cpu[c].pid])
  PROVE  Finales'
<1> DEFINE quedan == k21[c].antes + k21[c].despues
           a == IF quedan > 0 THEN "P13" ELSE accion
           hechas == cpu[c].inst + 1
           cod == IF Algoritmo = "RR" /\ hechas = Quantum THEN "P12" ELSE a
           m == [cod |-> cod, pid |-> cpu[c].pid, pc |-> cpu[c].pc + 1, sem |-> Nadie]
           f == [fase |-> "corre", pid |-> cpu[c].pid, pc |-> cpu[c].pc + 1, inst |-> hechas]
<1>1. TiposCpu /\ EnFase /\ Anotadas /\ Avisos
  BY DEF Capa, Finales
<1>2. /\ Instruccion(c, a) /\ k21' = [k21 EXCEPT ![c] = SinK21]
      /\ escapes' = IF quedan > 0 /\ (cod = "P12" \/ cpu[c].fase = "K23")
                    THEN escapes \cup {<<cpu[c].pid, "quantum">>} ELSE escapes
      /\ UNCHANGED <<pcb, hiloL, hiloM, ejecutando, forz, riesgos, matados, finalizados, rechazados>>
  BY DEF TerminarInstruccion, listas
<1>3. cpu[c] \in Maquina /\ bandeja[c] \in Carta /\ bandeja \in [Cpus -> Carta]
  BY <1>1 DEF TiposCpu
<1>4. bandeja[c].cod = "nada" /\ bandeja[c].pid = Nadie /\ cpu[c].pid # Nadie
  <2>1. bandeja[c].cod \in Mensajes
    BY <1>3 DEF Carta
  <2> QED
    BY <1>1, <2>1 DEF EnFase, Mensajes
<1>5. cpu[c].pid \in Pids /\ cpu[c].pc \in Nat /\ cpu[c].inst \in Nat
  BY <1>3, <1>4 DEF Maquina
<1>6. \A q \in Pids : Tiene(c, q) <=> cpu[c].pid = q
  BY <1>4, NadieAparte DEF Tiene
<1>7. /\ k21' \in [Cpus -> [antes : Nat, despues : Nat]] /\ k21'[c] = SinK21
      /\ \A d \in Cpus \ {c} : k21'[d] = k21[d]
  <2>1. SinK21 \in [antes : Nat, despues : Nat]
    BY DEF SinK21
  <2> QED
    BY <1>1, <1>2, <2>1 DEF Avisos
<1>8. k21[c] # SinK21 => quedan > 0
  <2>1. k21[c] \in [antes : Nat, despues : Nat]
    BY <1>1 DEF Avisos
  <2>2. k21[c] = [antes |-> k21[c].antes, despues |-> k21[c].despues]
    BY <2>1
  <2> QED
    BY <2>1, <2>2 DEF SinK21
<1>9. quedan > 0 => Pedido(cpu[c].pid)
  <2>1. quedan > 0 => k21[c] # SinK21
    BY DEF SinK21
  <2> QED
    BY <1>1, <2>1 DEF Avisos
<1>10. \A e \in {<<cpu[c].pid, "quantum">>} : e[1] = cpu[c].pid
  OBVIOUS
<1>11. escapes \subseteq escapes'
  BY <1>2
<1>12. quedan > 0 /\ (cod = "P12" \/ cpu[c].fase = "K23") => \E e \in escapes' : e[1] = cpu[c].pid
  BY <1>2, <1>10
<1>13. CASE cod = "continuar"
  <2>1. ~(quedan > 0)
    BY <1>13
  <2>2. cpu' = [cpu EXCEPT ![c] = f] /\ bandeja' = bandeja
    BY <1>2, <1>13 DEF Instruccion
  <2>3. Deja(c, f, bandeja[c])
    BY <1>3, <2>2 DEF Deja
  <2>4. f \in Maquina /\ f.pid = cpu[c].pid
    BY <1>5 DEF Maquina
  <2>5. \A q \in Pids : f.pid = q \/ bandeja[c].pid = q <=> Tiene(c, q)
    BY <1>4, <1>6, <2>4, NadieAparte
  <2> HIDE DEF f, cod, quedan
  <2> QED
    BY <1>2, <1>3, <1>4, <1>5, <1>7, <1>8, <1>11, <2>1, <2>3, <2>4, <2>5, FinalesUnaCpu
<1>14. CASE cod # "continuar"
  <2>1. Deja(c, Ocioso, m)
    BY <1>2, <1>14 DEF Instruccion, Deja
  <2>2. /\ cod \in {"P12", "P13", "P16"}
        /\ quedan > 0 => cod \in {"P12", "P13"}
        /\ cod = "P13" => quedan > 0 \/ accion = "P13"
    BY <1>14
  <2>3. m \in Carta /\ m.cod = cod /\ m.pid = cpu[c].pid /\ m.pc = cpu[c].pc + 1
    <3> HIDE DEF cod
    <3> QED
      BY <1>5, <2>2 DEF Mensajes, Carta
  <2> HIDE DEF cod, quedan, m
  <2>4. Ocioso \in Maquina /\ Ocioso.pid = Nadie
    BY DEF Ocioso, Maquina
  <2>5. \A q \in Pids : Ocioso.pid = q \/ m.pid = q <=> Tiene(c, q)
    BY <1>6, <2>3, <2>4, NadieAparte
  <2>6. m.cod = "P13" => Pedido(m.pid) \/ m.pc = Len(Guion[m.pid])
    BY <1>9, <2>2, <2>3
  <2>7. k21[c] # SinK21 => (\E e \in escapes' : e[1] = cpu[c].pid) \/ (m.pid = cpu[c].pid /\ m.cod = "P13")
    BY <1>8, <1>12, <2>2, <2>3
  <2>8. hiloM.pc = "K23" /\ hiloM.cpu = c /\ m.cod = "P13" => \E e \in escapes' : e[1] = m.pid
    <3>1. hiloM.pc = "K23" /\ hiloM.cpu = c => cpu[c].fase = "K23"
      BY <1>1, <1>4 DEF Anotadas
    <3> QED
      BY <1>12, <2>2, <2>3, <3>1
  <2> QED
    BY <1>2, <1>4, <1>5, <1>7, <1>11, <2>1, <2>3, <2>4, <2>5, <2>6, <2>7, <2>8, FinalesUnaCpu
<1> QED
  BY <1>13, <1>14

(* It asks for a semaphore, and leaves its K21 for later. *)
LEMMA FinalesPedirSemaforo ==
  ASSUME FInv, Capa, Finales, Sanas, NEW c \in Cpus, NEW cod \in {"P14", "P15"}, NEW s \in Sems,
         Pedir(c, cod, s), cpu[c].fase = "corre",
         UNCHANGED <<pcb, hiloL, hiloM, ejecutando, forz, riesgos, matados, finalizados, rechazados,
                     escapes, k21>>
  PROVE  Finales'
<1> DEFINE f == [fase |-> "espera", pid |-> cpu[c].pid, pc |-> cpu[c].pc, inst |-> cpu[c].inst]
           m == [cod |-> cod, pid |-> Nadie, pc |-> 0, sem |-> s]
<1>1. TiposCpu /\ EnFase /\ Anotadas /\ Avisos
  BY DEF Capa, Finales
<1>2. cpu[c] \in Maquina /\ bandeja[c] \in Carta
  BY <1>1 DEF TiposCpu
<1>3. bandeja[c].cod = "nada" /\ bandeja[c].pid = Nadie /\ cpu[c].pid \in Pids
  <2>1. bandeja[c].cod \in Mensajes
    BY <1>2 DEF Carta
  <2>2. cpu[c].pid # Nadie
    BY <1>1 DEF EnFase
  <2> QED
    BY <1>1, <1>2, <2>1, <2>2 DEF EnFase, Mensajes, Maquina
<1>4. [cpu[c] EXCEPT !.fase = "espera"] = f
  BY <1>2 DEF Maquina
<1>5. Deja(c, f, m)
  <2>1. cpu' = [cpu EXCEPT ![c] = [cpu[c] EXCEPT !.fase = "espera"]]
    BY DEF Pedir
  <2>2. bandeja' = [bandeja EXCEPT ![c] = m]
    BY DEF Pedir
  <2> HIDE DEF f, m
  <2> QED
    BY <1>4, <2>1, <2>2 DEF Deja
<1>6. f \in Maquina /\ f.pid = cpu[c].pid
  BY <1>2 DEF Maquina
<1>7. m \in Carta /\ m.cod # "P13" /\ m.pid = Nadie
  BY DEF Carta, Mensajes
<1>8. \A q \in Pids : f.pid = q \/ m.pid = q <=> Tiene(c, q)
  BY <1>3, <1>6, <1>7, NadieAparte DEF Tiene
<1>9. k21' \in [Cpus -> [antes : Nat, despues : Nat]]
  BY <1>1 DEF Avisos
<1> HIDE DEF f, m
<1> QED
  BY <1>3, <1>5, <1>6, <1>7, <1>8, <1>9, FinalesUnaCpu

(* The parser gives a program its final instruction as the last one. *)
FinAlFinal == \A p \in Pids : \A k \in 1 .. Len(Guion[p]) : Guion[p][k].op = "fin" => k = Len(Guion[p])

LEMMA FinalesEjecutar ==
  ASSUME FinAlFinal, FInv, Capa, Finales, Sanas, NEW c \in Cpus,
         EjecutarInstruccion(c) \/ RecibirRespuesta(c)
  PROVE  Finales'
<1>1. CASE RecibirRespuesta(c)
  BY <1>1, FinalesInstruccion DEF RecibirRespuesta
<1>2. CASE EjecutarInstruccion(c)
  <2> SUFFICES ASSUME NEW i, i = Guion[cpu[c].pid][cpu[c].pc + 1] PROVE Finales'
    OBVIOUS
  <2>1. /\ cpu[c].fase = "corre" /\ cpu[c].pc < Len(Guion[cpu[c].pid])
        /\ \/ i.op \in {"wait", "signal"} /\ Ejecutar(c) /\ UNCHANGED nuevas
           \/ i.op = "otra" /\ TerminarInstruccion(c, "continuar")
           \/ i.op = "fin"  /\ TerminarInstruccion(c, "P13")
    BY <1>2 DEF EjecutarInstruccion
  <2>2. cpu[c].pid \in Pids /\ cpu[c].pc \in Nat
    <3>1. cpu[c] \in Maquina /\ cpu[c].pid # Nadie
      BY <2>1 DEF Capa, TiposCpu, EnFase
    <3> QED
      BY <3>1 DEF Maquina
  <2>3. Guion[cpu[c].pid] \in Seq(Instrucciones) /\ Len(Guion[cpu[c].pid]) \in Nat
    <3>1. Guion[cpu[c].pid] \in Seq(Instrucciones)
      BY <2>2, PlanificadorOK
    <3> QED
      BY <3>1, LenProperties
  <2>4. CASE i.op \in {"wait", "signal"} /\ Ejecutar(c) /\ UNCHANGED nuevas
    <3>1. /\ \/ i.op = "wait" /\ Pedir(c, "P14", i.sem)
             \/ i.op = "signal" /\ Pedir(c, "P15", i.sem)
          /\ UNCHANGED <<pcb, hiloL, hiloM, ejecutando, forz, riesgos, matados, finalizados,
                         rechazados, escapes, k21>>
      BY <2>4 DEF Ejecutar, listas, nuevas
    <3>2. i \in Instrucciones
      BY <2>1, <2>2, <2>3, ElementOfSeq
    <3>3. i.sem \in Sems
      BY <2>4, <3>2 DEF Instrucciones
    <3> QED
      BY <2>1, <3>1, <3>3, FinalesPedirSemaforo
  <2>5. CASE i.op = "otra" /\ TerminarInstruccion(c, "continuar")
    BY <2>1, <2>5, FinalesInstruccion
  <2>6. CASE i.op = "fin" /\ TerminarInstruccion(c, "P13")
    <3>1. cpu[c].pc + 1 = Len(Guion[cpu[c].pid])
      BY <2>1, <2>2, <2>3, <2>6 DEF FinAlFinal
    <3> QED
      BY <2>1, <2>6, <3>1, FinalesInstruccion
  <2> QED
    BY <2>1, <2>4, <2>5, <2>6
<1> QED
  BY <1>1, <1>2
MInv == Sanas => Vistos /\ Finales

LEMMA InicioMuere == InitForzar => MInv
<1> SUFFICES ASSUME InitForzar PROVE Vistos /\ Finales
  BY DEF MInv
<1>1. controlador = 0 /\ forz = SinForzar
  BY DEF InitForzar
<1>2. forz.pc = "nada" /\ forz.visto = FALSE
  BY <1>1 DEF SinForzar
<1> QED
  BY <1>1, <1>2, InicioFinales DEF Vistos, SinEncontrar

LEMMA PasoMuere == FinAlFinal /\ FInv /\ CInv /\ MInv /\ [NextForzar]_<<vars, nuevas>> => MInv'
<1> SUFFICES ASSUME FinAlFinal, FInv, CInv, MInv, [NextForzar]_<<vars, nuevas>>, Sanas'
             PROVE  Vistos' /\ Finales'
  BY DEF MInv
<1>1. CASE UNCHANGED <<vars, nuevas>>
  <2>1. UNCHANGED <<nuevos, listos, ejecutando, pcb, cpu, bandeja, hiloL, hiloM, caido, forz,
                    controlador, k21, riesgos, matados, finalizados, rechazados, escapes>>
    BY <1>1 DEF vars, nuevas, listas
  <2>2. Vistos /\ Finales /\ finalizados \subseteq Pids
    BY <2>1 DEF MInv, Sanas, FInv, Vivo, Tipos
  <2>3. Vistos'
    BY <2>1, <2>2 DEF Vistos, SinEncontrar, AlAlcance, Restan
  <2>4. Finales'
    BY <2>1, <2>2, FinalesQuietos DEF Corriendo
  <2> QED
    BY <2>3, <2>4
<1>2. CASE NextForzar
  <2>1. ~caido /\ riesgos \subseteq riesgos'
    BY <1>2, SoloVivo
  <2>2. Sanas /\ Capa /\ Vistos /\ Finales /\ muertas = {}
    <3>1. Sanas
      BY <2>1 DEF Sanas
    <3> QED
      BY <3>1, QuienCorre DEF CInv, MInv, Sanas
  <2>3. ~EnvioFallo
    BY DEF EnvioFallo, Sanas
  <2>4. \A c \in Cpus : ~Muere(c) /\ ~EliminarCpu(c)
    BY <2>2 DEF Muere, EliminarCpu, Sanas
  <2>5. CASE \/ IniciarPrograma \/ CargarNuevo \/ AdmitirNuevo \/ TomarFichas \/ EsperarCpus
             \/ MirarDiferencia \/ ActualizarGrado \/ Rechazar
             \/ \E g \in Grados : CambiarGrado(g)
             \/ \E p \in Pids : C02(p) \/ FinalizarProcesoConsola(p)
             \/ \E c \in Cpus : ConectarCpu(c)
    <3>1. Vistos'
      BY <2>1, <2>2, <2>5, VistosSinMover, VistosForzar
    <3> QED
      BY <2>1, <2>2, <2>5, <3>1, FinalesSinMover
  <2>6. CASE EnviarPcb \/ AnotarEnvio
    BY <2>1, <2>2, <2>6, VistosSinMover, FinalesEnviar, FinalesAnotar
  <2>7. CASE SeguirMensaje
    <3>1. UNCHANGED nuevas /\ (FinalizarQuantum \/ FinalizarProceso \/ BloquearProceso)
      BY <2>7 DEF SeguirMensaje, SeguirM
    <3>2. Finales'
      BY <2>2, <3>1, FinalesFinalizar, FinalesBloquear
    <3> QED
      BY <2>1, <2>2, <2>7, <3>2, VistosSinMover
  <2>8. CASE ForzarFinalizacion
    <3>1. Vistos'
      BY <2>1, <2>2, <2>8, VistosForzar
    <3>2. ~TerminarNuevo
      BY DEF TerminarNuevo, Sanas
    <3>3. Finales'
      BY <2>1, <2>2, <2>8, <3>2, FinalesBusca, FinalesNoEstaba, FinalesTerminar, FinalesPedir
         DEF ForzarFinalizacion
    <3> QED
      BY <3>1, <3>3
  <2>9. CASE \E c \in Cpus : AtenderMensaje(c) \/ EjecutarInstruccion(c) \/ RecibirRespuesta(c)
    <3>1. Vistos'
      BY <2>1, <2>2, <2>9, VistosSinMover
    <3>2. PICK c \in Cpus : AtenderMensaje(c) \/ EjecutarInstruccion(c) \/ RecibirRespuesta(c)
      BY <2>9
    <3>3. CASE AtenderMensaje(c)
      <4>1. UNCHANGED nuevas /\ AtenderCpu(c)
        BY <3>3 DEF AtenderMensaje, Sanas
      <4> QED
        BY <2>2, <3>1, <4>1, FinalesDevuelve, FinalesContesta DEF AtenderCpu, P12, P13
    <3>4. CASE EjecutarInstruccion(c) \/ RecibirRespuesta(c)
      BY <2>2, <3>1, <3>4, FinalesEjecutar
    <3> QED
      BY <3>2, <3>3, <3>4
  <2>10. \/ EnviarPcb \/ AnotarEnvio \/ SeguirMensaje \/ ForzarFinalizacion
         \/ IniciarPrograma \/ CargarNuevo \/ AdmitirNuevo \/ TomarFichas \/ EsperarCpus
         \/ MirarDiferencia \/ ActualizarGrado \/ Rechazar
         \/ \E g \in Grados : CambiarGrado(g)
         \/ \E p \in Pids : C02(p) \/ FinalizarProcesoConsola(p)
         \/ \E c \in Cpus : ConectarCpu(c)
         \/ \E c \in Cpus : AtenderMensaje(c) \/ EjecutarInstruccion(c) \/ RecibirRespuesta(c)
    BY <1>2, <2>3, <2>4, Zenon DEF NextForzar
  <2> QED
    BY <2>5, <2>6, <2>7, <2>8, <2>9, <2>10
<1> QED
  BY <1>1, <1>2

(* Of programs that finish where they end: wherever the ends by force, the  *)
(* rejections and the changes of degree fall, until a CPU leaves, who was   *)
(* ended by force has gone, is about to, or slipped away in one of the ways *)
(* noted in escapes; and who has finished was asked to, got to its last     *)
(* instruction, or ran where the K21 of another went.                       *)
THEOREM MuertesConMotivo == ASSUME FinAlFinal PROVE SpecForzar => []MuerePorque
<1>1. InitForzar => MInv
  BY InicioMuere
<1>2. FInv /\ CInv /\ MInv /\ [NextForzar]_<<vars, nuevas>> => MInv'
  BY PasoMuere
<1>3. MInv => MuerePorque
  BY DEF MInv, Sanas, Finales, Muertos, Escapa, EnCamino, Acabados, Pedido, MuerePorque
<1> QED
  BY <1>1, <1>2, <1>3, InvarianteForzar, InvarianteCapa, PTL DEF SpecForzar
=============================================================================
