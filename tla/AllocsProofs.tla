----------------------------- MODULE AllocsProofs -----------------------------
(* What is proved of Allocs for every page size, quota, set of sizes and   *)
(* number of pages.                                                        *)
EXTENDS Allocs, FiniteSetTheorems, SequenceTheorems, WellFoundedInduction, TLAPS

-----------------------------------------------------------------------------
(* Induction over the positions of a list, by the least counterexample.    *)

LEMMA MenorNatural ==
  ASSUME NEW T, T \subseteq Nat, T # {}
  PROVE  \E m \in T : \A k \in T : m <= k
<1> DEFINE R == OpToRel(<, Nat)
<1>1. IsWellFoundedOn(R, Nat)
  BY NatLessThanWellFounded
<1>2. \A m, k \in Nat : <<k, m>> \in R <=> k < m
  BY DEF OpToRel
<1> HIDE DEF R
<1>3. PICK m \in T : \A k \in T : ~(<<k, m>> \in R)
  BY <1>1, WFMin
<1>4. ASSUME NEW k \in T PROVE m <= k
  <2>1. m \in Nat /\ k \in Nat /\ ~(<<k, m>> \in R)
    BY <1>3
  <2>2. ~(k < m)
    BY <1>2, <2>1
  <2> QED
    BY <2>1, <2>2
<1> QED
  BY <1>4

LEMMA Induccion ==
  ASSUME NEW n \in Nat, NEW P, 0 \in P,
         \A k \in 1..n : k - 1 \in P => k \in P
  PROVE  \A k \in 0..n : k \in P
<1> DEFINE T == {k \in 0..n : k \notin P}
<1>1. SUFFICES ASSUME T # {} PROVE FALSE
  OBVIOUS
<1>2. T \subseteq Nat
  OBVIOUS
<1> HIDE DEF T
<1>3. PICK m \in T : \A k \in T : m <= k
  BY <1>1, <1>2, MenorNatural
<1>4. m \in 0..n /\ m \notin P
  BY DEF T
<1>5. m # 0 /\ m - 1 \in 0..n /\ m - 1 < m
  BY <1>4
<1>6. m - 1 \notin T
  BY <1>3, <1>4, <1>5
<1>7. m - 1 \in P
  BY <1>5, <1>6 DEF T
<1> QED
  BY <1>4, <1>5, <1>7

LEMMA MayorNatural ==
  ASSUME NEW n \in Nat, NEW T, T \subseteq 0..n, T # {}
  PROVE  Max(T) \in T /\ \A k \in T : k <= Max(T)
<1> DEFINE U == {n - k : k \in T}
<1>1. U \subseteq Nat /\ U # {}
  <2>1. \A k \in T : n - k \in Nat
    OBVIOUS
  <2> QED
    BY <2>1
<1>2. PICK u \in U : \A k \in U : u <= k
  <2> HIDE DEF U
  <2> QED BY <1>1, MenorNatural
<1>3. PICK m \in T : u = n - m
  OBVIOUS
<1>4. \A k \in T : m >= k
  <2> SUFFICES ASSUME NEW k \in T PROVE m >= k
    OBVIOUS
  <2>1. n - m <= n - k
    BY <1>2, <1>3
  <2>2. m \in Int /\ k \in Int
    OBVIOUS
  <2> QED
    BY <2>1, <2>2
<1>5. Max(T) \in T /\ \A k \in T : Max(T) >= k
  BY <1>4 DEF Max
<1>6. \A k \in T : k \in Int
  OBVIOUS
<1> QED
  BY <1>5, <1>6

(* A search in a list answers the first position that passes it, or 0.     *)
LEMMA MenorDeUnaBusqueda ==
  ASSUME NEW n \in Nat, NEW T, T \subseteq 1..n, T # {}
  PROVE  Min(T) \in T /\ \A k \in T : Min(T) <= k
<1>1. T \subseteq Nat
  OBVIOUS
<1>2. PICK m \in T : \A k \in T : m <= k
  BY <1>1, MenorNatural
<1> QED
  BY <1>2 DEF Min

-----------------------------------------------------------------------------
(* What a list of allocs takes                                             *)

AllocInt == [direccion : Int, tamanio_data : Nat, isFree : BOOLEAN]
AllocNat == [direccion : Nat, tamanio_data : Nat, isFree : BOOLEAN]

EsSuma(l, f) == /\ f \in [0..Len(l) -> Int] /\ f[0] = 0
                /\ \A n \in 1..Len(l) : f[n] = f[n - 1] + Bruto(l[n])

(* Any running sum of the list ends in Ocupado: what is known of the sum   *)
(* is shown by exhibiting one.                                             *)
LEMMA OcupadoEs ==
  ASSUME NEW l, l \in Seq(AllocInt), NEW f, EsSuma(l, f)
  PROVE  Ocupado(l) = f[Len(l)]
<1> DEFINE G(g) == [n \in 0..Len(l) |-> IF n = 0 THEN 0 ELSE g[n - 1] + Bruto(l[n])]
           h == CHOOSE g : g = G(g)
<1>1. f = G(f)
  BY DEF EsSuma
<1>2. h = G(h)
  BY <1>1
<1>3. \A n \in 0..Len(l) : h[n] = IF n = 0 THEN 0 ELSE h[n - 1] + Bruto(l[n])
  <2>1. \A g : \A n \in 0..Len(l) : G(g)[n] = IF n = 0 THEN 0 ELSE g[n - 1] + Bruto(l[n])
    OBVIOUS
  <2> QED
    BY <1>2, <2>1
<1>4. Ocupado(l) = h[Len(l)]
  BY DEF Ocupado
<1> HIDE DEF h, G
<1> DEFINE P == {n \in 0..Len(l) : h[n] = f[n]}
<1>5. 0 \in P
  BY <1>3 DEF EsSuma
<1>6. \A k \in 1..Len(l) : k - 1 \in P => k \in P
  BY <1>3 DEF EsSuma
<1>7. Len(l) \in Nat
  OBVIOUS
<1> HIDE DEF P
<1>8. Len(l) \in P
  BY <1>5, <1>6, <1>7, Induccion
<1> QED
  BY <1>4, <1>8 DEF P

LEMMA HaySuma ==
  ASSUME NEW l, l \in Seq(AllocInt)
  PROVE  \E f : EsSuma(l, f)
<1> DEFINE Hasta(n, f) == /\ f \in [0..n -> Int] /\ f[0] = 0
                          /\ \A k \in 1..n : f[k] = f[k - 1] + Bruto(l[k])
           P == {n \in 0..Len(l) : \E f : Hasta(n, f)}
<1>1. Len(l) \in Nat
  OBVIOUS
<1>2. 0 \in P
  <2>1. Hasta(0, [k \in 0..0 |-> 0])
    OBVIOUS
  <2> HIDE DEF Hasta
  <2>2. \E f : Hasta(0, f)
    BY <2>1
  <2> QED
    BY <1>1, <2>2
<1>3. ASSUME NEW k \in 1..Len(l), k - 1 \in P PROVE k \in P
  <2>1. PICK f : Hasta(k - 1, f)
    BY <1>3
  <2> DEFINE g == [n \in 0..k |-> IF n = k THEN f[k - 1] + Bruto(l[k]) ELSE f[n]]
  <2>2. Bruto(l[k]) \in Int
    <3>1. l[k] \in AllocInt
      OBVIOUS
    <3> QED
      BY <3>1 DEF Bruto, META, AllocInt
  <2>3. f[k - 1] \in Int
    BY <2>1
  <2>4. g \in [0..k -> Int] /\ g[0] = 0
    BY <2>1, <2>2, <2>3
  <2>5. \A n \in 1..k : g[n] = g[n - 1] + Bruto(l[n])
    BY <2>1
  <2>6. Hasta(k, g)
    <3> HIDE DEF g
    <3> QED BY <2>4, <2>5
  <2> HIDE DEF g, Hasta
  <2> QED
    BY <2>6
<1> HIDE DEF P
<1>4. Len(l) \in P
  BY <1>1, <1>2, <1>3, Induccion
<1> QED
  BY <1>4 DEF P, EsSuma

LEMMA OcupadoTipo ==
  ASSUME NEW l, l \in Seq(AllocInt) PROVE Ocupado(l) \in Int
  BY HaySuma, OcupadoEs DEF EsSuma

LEMMA OcupadoAgrega ==
  ASSUME NEW l, l \in Seq(AllocInt), NEW a \in AllocInt
  PROVE  Ocupado(Append(l, a)) = Ocupado(l) + Bruto(a)
<1>1. PICK f : EsSuma(l, f)
  BY HaySuma
<1> DEFINE m == Append(l, a)
           g == [n \in 0..Len(m) |-> IF n = Len(m) THEN f[Len(l)] + Bruto(a) ELSE f[n]]
<1>2. /\ m \in Seq(AllocInt) /\ Len(m) = Len(l) + 1 /\ Len(l) \in Nat
      /\ m[Len(m)] = a /\ \A n \in 1..Len(l) : m[n] = l[n]
  OBVIOUS
<1>3. Bruto(a) \in Int /\ f[Len(l)] \in Int
  BY <1>1, <1>2 DEF Bruto, META, AllocInt, EsSuma
<1> HIDE DEF m
<1>4. g \in [0..Len(m) -> Int] /\ g[0] = 0 /\ g[Len(m)] = f[Len(l)] + Bruto(a)
  BY <1>1, <1>2, <1>3 DEF EsSuma
<1>5. \A n \in 1..Len(m) : g[n] = g[n - 1] + Bruto(m[n])
  BY <1>1, <1>2 DEF EsSuma
<1>6. EsSuma(m, g)
  <2> HIDE DEF g
  <2> QED BY <1>4, <1>5 DEF EsSuma
<1> QED
  BY <1>1, <1>2, <1>4, <1>6, OcupadoEs DEF m

-----------------------------------------------------------------------------
(* Lists that tile the space                                               *)

(* Embaldosado and LibresSeparados, as said of any list.                   *)
Baldosas(l, n) ==
  /\ l # <<>> => l[1].direccion = 0
  /\ \A i \in DOMAIN l :
       Fin(l[i]) = IF i = Len(l) THEN Ocupado(l) ELSE l[i + 1].direccion
  /\ Ocupado(l) <= n * TAM
Separados(l) == \A i \in 1..(Len(l) - 1) : ~(l[i].isFree /\ l[i + 1].isFree)

(* Each begins where the one before it ends.                               *)
Seguidos(l) == /\ l # <<>> => l[1].direccion = 0
               /\ \A i \in 1..(Len(l) - 1) : Fin(l[i]) = l[i + 1].direccion
Final(l) == IF l = <<>> THEN 0 ELSE Fin(l[Len(l)])

LEMMA FinEntero ==
  ASSUME NEW a \in AllocInt
  PROVE  /\ Fin(a) \in Int /\ Bruto(a) \in Nat /\ Dato(a) \in Int
         /\ Fin(a) = a.direccion + Bruto(a) /\ Bruto(a) = a.tamanio_data + 9
         /\ Dato(a) = a.direccion + 9 /\ Fin(a) = Dato(a) + a.tamanio_data
         /\ a.direccion \in Int /\ a.tamanio_data \in Nat /\ a.isFree \in BOOLEAN
         /\ META = 9
  BY DEF Fin, Bruto, Dato, META, AllocInt

(* The sum of a tiled list telescopes.                                     *)
LEMMA Telescopio ==
  ASSUME NEW l, l \in Seq(AllocInt), Seguidos(l)
  PROVE  Ocupado(l) = Final(l)
<1> DEFINE f == [n \in 0..Len(l) |-> IF n = 0 THEN 0 ELSE Fin(l[n])]
<1>1. \A n \in 1..Len(l) : l[n] \in AllocInt /\ Fin(l[n]) \in Int
  BY FinEntero
<1>2. Len(l) \in Nat /\ (l = <<>> <=> Len(l) = 0)
  OBVIOUS
<1>3. f \in [0..Len(l) -> Int] /\ f[0] = 0
  BY <1>1, <1>2
<1>4. ASSUME NEW n \in 1..Len(l) PROVE f[n] = f[n - 1] + Bruto(l[n])
  <2>1. l[n] \in AllocInt /\ Fin(l[n]) = l[n].direccion + Bruto(l[n])
    BY <1>1, FinEntero
  <2>2. l[n].direccion = f[n - 1]
    <3>1. CASE n = 1
      BY <3>1, <1>2 DEF Seguidos
    <3>2. CASE n # 1
      <4>1. n - 1 \in 1..(Len(l) - 1)
        BY <3>2, <1>2
      <4>2. Fin(l[n - 1]) = l[n].direccion
        BY <4>1, <1>2 DEF Seguidos
      <4> QED
        BY <4>1, <4>2, <1>2
    <3> QED
      BY <3>1, <3>2
  <2> QED
    BY <2>1, <2>2, <1>2
<1>5. EsSuma(l, f)
  <2> HIDE DEF f
  <2> QED BY <1>3, <1>4 DEF EsSuma
<1>6. Ocupado(l) = f[Len(l)]
  <2> HIDE DEF f
  <2> QED BY <1>5, OcupadoEs
<1> QED
  BY <1>2, <1>6 DEF Final

LEMMA FinalEntero ==
  ASSUME NEW l, l \in Seq(AllocInt) PROVE Final(l) \in Int
<1>1. CASE l = <<>>
  BY <1>1 DEF Final
<1>2. CASE l # <<>>
  <2>1. Len(l) \in 1..Len(l)
    BY <1>2
  <2>2. l[Len(l)] \in AllocInt
    BY <2>1
  <2> QED
    BY <1>2, <2>2, FinEntero DEF Final
<1> QED
  BY <1>1, <1>2

LEMMA BaldosasEs ==
  ASSUME NEW l, l \in Seq(AllocInt), NEW n
  PROVE  Baldosas(l, n) <=> Seguidos(l) /\ Final(l) <= n * TAM
<1>0. Len(l) \in Nat
  OBVIOUS
<1>1. DOMAIN l = 1..Len(l) /\ (l = <<>> <=> Len(l) = 0)
  OBVIOUS
<1>2. ASSUME Baldosas(l, n) PROVE Seguidos(l) /\ Final(l) <= n * TAM
  <2>1. Seguidos(l)
    <3>1. ASSUME NEW i \in 1..(Len(l) - 1) PROVE Fin(l[i]) = l[i + 1].direccion
      <4>1. i \in 1..Len(l) /\ i # Len(l)
        BY <1>0
      <4>2. i \in DOMAIN l
        BY <4>1, <1>1
      <4> QED
        BY <4>1, <4>2, <1>2 DEF Baldosas
    <3> QED
      BY <3>1, <1>2 DEF Seguidos, Baldosas
  <2> QED
    BY <2>1, <1>2, Telescopio DEF Baldosas
<1>3. ASSUME Seguidos(l), Final(l) <= n * TAM PROVE Baldosas(l, n)
  <2>1. Ocupado(l) = Final(l)
    BY <1>3, Telescopio
  <2>2. ASSUME NEW i \in DOMAIN l
        PROVE  Fin(l[i]) = IF i = Len(l) THEN Ocupado(l) ELSE l[i + 1].direccion
    <3>1. CASE i = Len(l)
      BY <3>1, <2>1, <1>1 DEF Final
    <3>2. CASE i # Len(l)
      <4>1. i \in 1..(Len(l) - 1)
        BY <3>2, <1>0, <1>1
      <4> QED
        BY <4>1, <3>2, <1>3 DEF Seguidos
    <3> QED
      BY <3>1, <3>2
  <2> QED
    BY <2>1, <2>2, <1>3 DEF Seguidos, Baldosas
<1> QED
  BY <1>2, <1>3

(* Of two allocs of a tiled list the first ends before the second begins.  *)
LEMMA Ordenados ==
  ASSUME NEW l, l \in Seq(AllocInt), Seguidos(l)
  PROVE  \A j \in 1..Len(l) : /\ l[j].direccion >= 0
                             /\ \A i \in 1..(j - 1) : Fin(l[i]) <= l[j].direccion
<1> DEFINE P == {0} \cup {j \in 1..Len(l) :
                   /\ l[j].direccion >= 0
                   /\ \A i \in 1..(j - 1) : Fin(l[i]) <= l[j].direccion}
<1>1. Len(l) \in Nat /\ \A i \in 1..Len(l) : l[i] \in AllocInt
  OBVIOUS
<1>2. ASSUME NEW j \in 1..Len(l), j - 1 \in P PROVE j \in P
  <2>1. CASE j = 1
    BY <2>1, <1>1 DEF Seguidos
  <2>2. CASE j # 1
    <3>1. j - 1 \in 1..(Len(l) - 1) /\ j - 1 \in 1..Len(l) /\ j - 1 # 0
      BY <2>2, <1>1
    <3>2. Fin(l[j - 1]) = l[j].direccion
      BY <3>1, <1>1 DEF Seguidos
    <3>3. /\ l[j - 1].direccion >= 0
          /\ \A i \in 1..(j - 2) : Fin(l[i]) <= l[j - 1].direccion
      BY <1>2, <3>1
    <3>4. /\ l[j - 1].direccion \in Int /\ l[j].direccion \in Int
          /\ l[j - 1].direccion <= Fin(l[j - 1])
      <4>1. l[j - 1] \in AllocInt /\ l[j] \in AllocInt
        BY <3>1, <1>1
      <4>2. l[j - 1].direccion \in Int /\ l[j].direccion \in Int
        BY <4>1, FinEntero
      <4>3. /\ Fin(l[j - 1]) = l[j - 1].direccion + Bruto(l[j - 1])
            /\ Bruto(l[j - 1]) \in Nat
        BY <4>1, FinEntero
      <4> QED
        BY <4>2, <4>3
    <3>5. ASSUME NEW i \in 1..(j - 1) PROVE Fin(l[i]) <= l[j].direccion
      <4>1. CASE i = j - 1
        BY <4>1, <3>2, <3>4
      <4>2. CASE i # j - 1
        <5>1. i \in 1..(j - 2) /\ i \in 1..Len(l)
          BY <4>2, <1>1
        <5>2. Fin(l[i]) \in Int
          BY <5>1, <1>1, FinEntero
        <5> QED
          BY <5>1, <5>2, <3>2, <3>3, <3>4
      <4> QED
        BY <4>1, <4>2
    <3>6. l[j].direccion >= 0
      BY <3>2, <3>3, <3>4
    <3> QED
      BY <3>5, <3>6
  <2> QED
    BY <2>1, <2>2
<1>3. 0 \in P
  OBVIOUS
<1> HIDE DEF P
<1>4. \A k \in 0..Len(l) : k \in P
  BY <1>1, <1>2, <1>3, Induccion
<1> QED
  BY <1>4 DEF P

(* No alloc of a tiled list ends after the last.                           *)
LEMMA HastaElFinal ==
  ASSUME NEW l, l \in Seq(AllocInt), Seguidos(l), NEW i \in 1..Len(l)
  PROVE  Fin(l[i]) <= Final(l)
<1>1. Len(l) \in Nat /\ l # <<>> /\ Len(l) \in 1..Len(l)
  OBVIOUS
<1>2. l[i] \in AllocInt /\ l[Len(l)] \in AllocInt
  BY <1>1
<1>3. CASE i = Len(l)
  BY <1>1, <1>2, <1>3, FinEntero DEF Final
<1>4. CASE i # Len(l)
  <2>1. i \in 1..(Len(l) - 1)
    BY <1>4, <1>1
  <2>2. Fin(l[i]) <= l[Len(l)].direccion
    BY <1>1, <2>1, Ordenados
  <2> QED
    BY <2>2, <1>1, <1>2, FinEntero DEF Final
<1> QED
  BY <1>3, <1>4

LEMMA LugaresDeLista ==
  ASSUME NEW S, NEW l, l \in Seq(S)
  PROVE  /\ Len(l) \in Nat /\ DOMAIN l = 1..Len(l)
         /\ (l = <<>> <=> Len(l) = 0)
         /\ \A i \in 1..Len(l) : l[i] \in S
  OBVIOUS

LEMMA UnoODos ==
  ASSUME NEW n \in Nat, n >= 1 PROVE n = 1 \/ n >= 2
  OBVIOUS

LEMMA DosOMas ==
  ASSUME NEW n \in Nat, n >= 1, n # 1, NEW p, p = n + 1
  PROVE  p \in 3..p /\ p - 1 = n
  OBVIOUS

(* A list that is not empty takes at least the header of one.              *)
LEMMA OcupadoCota ==
  ASSUME NEW l, l \in Seq(AllocInt), l # <<>>
  PROVE  Ocupado(l) >= META /\ Ocupado(l) \in Int
<1>1. PICK f : EsSuma(l, f)
  BY HaySuma
<1> DEFINE P == {0} \cup {n \in 1..Len(l) : f[n] >= META}
<1>2. Len(l) \in Nat /\ Len(l) \in 0..Len(l) /\ Len(l) # 0
  OBVIOUS
<1>3. ASSUME NEW k \in 1..Len(l), k - 1 \in P PROVE k \in P
  <2>1. f[k] = f[k - 1] + Bruto(l[k]) /\ f[0] = 0
    BY <1>1 DEF EsSuma
  <2>2. l[k] \in AllocInt
    OBVIOUS
  <2>3. Bruto(l[k]) >= META /\ Bruto(l[k]) \in Int /\ META = 9
    <3>1. Bruto(l[k]) = l[k].tamanio_data + 9 /\ l[k].tamanio_data \in Nat /\ META = 9
      BY <2>2, FinEntero
    <3> QED
      BY <3>1
  <2>4. k - 1 \in 0..Len(l)
    BY <1>2
  <2>5. f[k - 1] \in Int
    BY <2>4, <1>1 DEF EsSuma
  <2>6. k - 1 = 0 \/ f[k - 1] >= META
    BY <1>3
  <2> QED
    BY <2>1, <2>3, <2>5, <2>6
<1>4. 0 \in P
  OBVIOUS
<1> HIDE DEF P
<1>5. Len(l) \in P
  BY <1>2, <1>3, <1>4, Induccion
<1>6. f[Len(l)] >= META
  BY <1>2, <1>5 DEF P
<1>7. Ocupado(l) = f[Len(l)]
  BY <1>1, OcupadoEs
<1>8. Ocupado(l) \in Int
  BY OcupadoTipo
<1> QED
  BY <1>6, <1>7, <1>8

(* A stretch of a tiled list takes from its first address to its end.      *)
LEMMA OcupadoTramo ==
  ASSUME NEW l, l \in Seq(AllocInt), Seguidos(l),
         NEW i \in 1..Len(l), NEW j \in 1..Len(l), i <= j
  PROVE  Ocupado(SubSeq(l, i, j)) = Fin(l[j]) - l[i].direccion
<1> DEFINE s == SubSeq(l, i, j)
           f == [n \in 0..Len(s) |-> IF n = 0 THEN 0 ELSE Fin(l[i + n - 1]) - l[i].direccion]
<1>1. Len(l) \in Nat /\ i \in Nat /\ j \in Nat
  OBVIOUS
<1>2. /\ s \in Seq(AllocInt) /\ Len(s) = j - i + 1
      /\ \A n \in 1..Len(s) : s[n] = l[i + n - 1]
  BY <1>1
<1> HIDE DEF s
<1>3. \A n \in 1..Len(l) : /\ Fin(l[n]) \in Int /\ l[n].direccion \in Int
                           /\ Bruto(l[n]) \in Int
                           /\ Fin(l[n]) = l[n].direccion + Bruto(l[n])
  <2> SUFFICES ASSUME NEW n \in 1..Len(l)
               PROVE  /\ Fin(l[n]) \in Int /\ l[n].direccion \in Int
                      /\ Bruto(l[n]) \in Int
                      /\ Fin(l[n]) = l[n].direccion + Bruto(l[n])
    OBVIOUS
  <2>1. l[n] \in AllocInt
    OBVIOUS
  <2> QED
    BY <2>1, FinEntero
<1>4. \A n \in 1..Len(s) : i + n - 1 \in 1..Len(l)
  BY <1>1, <1>2
<1>5. f \in [0..Len(s) -> Int] /\ f[0] = 0
  <2>1. \A n \in 1..Len(s) : Fin(l[i + n - 1]) - l[i].direccion \in Int
    <3> TAKE n \in 1..Len(s)
    <3>1. i + n - 1 \in 1..Len(l)
      BY <1>4
    <3>2. Fin(l[i + n - 1]) \in Int /\ l[i].direccion \in Int
      BY <3>1, <1>3
    <3> QED
      BY <3>2
  <2>2. Len(s) \in Nat
    BY <1>1, <1>2
  <2> QED
    BY <2>1, <2>2
<1>6. ASSUME NEW n \in 1..Len(s) PROVE f[n] = f[n - 1] + Bruto(s[n])
  <2>1. /\ f[n] = Fin(l[i + n - 1]) - l[i].direccion /\ s[n] = l[i + n - 1]
        /\ n \in Int /\ i + n - 1 \in 1..Len(l)
    BY <1>2, <1>4
  <2>2. CASE n = 1
    <3>1. i + n - 1 = i
      BY <2>2, <1>1
    <3>2. f[n - 1] = 0
      BY <2>2, <1>5
    <3> QED
      BY <3>1, <3>2, <2>1, <1>3
  <2>3. CASE n # 1
    <3>1. n - 1 \in 1..Len(s) /\ n - 1 # 0
      BY <2>3, <1>1, <1>2
    <3>2. f[n - 1] = Fin(l[i + n - 2]) - l[i].direccion
      <4>1. f[n - 1] = Fin(l[i + (n - 1) - 1]) - l[i].direccion
        BY <3>1
      <4>2. i + (n - 1) - 1 = i + n - 2
        BY <1>1
      <4> QED
        BY <4>1, <4>2
    <3>3. i + n - 2 \in 1..(Len(l) - 1) /\ (i + n - 2) + 1 = i + n - 1
      BY <2>1, <2>3, <1>1, <1>2
    <3>4. Fin(l[i + n - 2]) = l[i + n - 1].direccion
      BY <3>3 DEF Seguidos
    <3>5. Fin(l[i + n - 1]) = l[i + n - 1].direccion + Bruto(l[i + n - 1])
      BY <2>1, <1>3
    <3>6. l[i].direccion \in Int /\ l[i + n - 1].direccion \in Int /\ Bruto(l[i + n - 1]) \in Int
      BY <2>1, <1>3
    <3> HIDE DEF f
    <3> QED
      BY <2>1, <3>2, <3>4, <3>5, <3>6
  <2> QED
    BY <2>2, <2>3
<1>7. EsSuma(s, f)
  <2> HIDE DEF f
  <2> QED BY <1>5, <1>6 DEF EsSuma
<1>8. Ocupado(s) = f[Len(s)]
  <2> HIDE DEF f
  <2> QED BY <1>2, <1>7, OcupadoEs
<1>9. Len(s) \in 1..Len(s) /\ i + Len(s) - 1 = j
  BY <1>1, <1>2
<1> QED
  BY <1>8, <1>9 DEF s

LEMMA SeguidosAgrega ==
  ASSUME NEW l, l \in Seq(AllocInt), Seguidos(l), NEW t \in Nat, NEW b \in BOOLEAN,
         NEW m, m = Append(l, Alloc(Final(l), t, b))
  PROVE  /\ m \in Seq(AllocInt) /\ Seguidos(m) /\ Final(m) = Final(l) + t + META
<1> DEFINE a == Alloc(Final(l), t, b)
<1>1. a \in AllocInt /\ a.direccion = Final(l) /\ a.tamanio_data = t
  BY FinalEntero DEF Alloc, AllocInt
<1> HIDE DEF a
<1>2. Len(l) \in Nat /\ (l = <<>> <=> Len(l) = 0)
  OBVIOUS
<1>3. /\ m \in Seq(AllocInt) /\ Len(m) = Len(l) + 1 /\ m[Len(l) + 1] = a /\ m # <<>>
      /\ \A i \in 1..Len(l) : m[i] = l[i]
  BY <1>1 DEF a
<1>4. m[1].direccion = 0
  <2>1. CASE l = <<>>
    BY <2>1, <1>1, <1>2, <1>3 DEF Final
  <2>2. CASE l # <<>>
    BY <2>2, <1>2, <1>3 DEF Seguidos
  <2> QED
    BY <2>1, <2>2
<1>5. ASSUME NEW i \in 1..(Len(m) - 1) PROVE Fin(m[i]) = m[i + 1].direccion
  <2>0. i \in 1..Len(l) /\ m[i] = l[i] /\ l # <<>>
    BY <1>2, <1>3
  <2>1. CASE i = Len(l)
    BY <2>0, <2>1, <1>1, <1>3 DEF Final
  <2>2. CASE i # Len(l)
    <3>1. i \in 1..(Len(l) - 1) /\ i + 1 \in 1..Len(l)
      BY <2>0, <2>2, <1>2
    <3> QED
      BY <3>1, <2>0, <1>3 DEF Seguidos
  <2> QED
    BY <2>1, <2>2
<1>6. Final(m) = Fin(a)
  BY <1>3 DEF Final
<1>7. Fin(a) = Final(l) + t + META
  BY <1>1, FinalEntero DEF Fin, Bruto, META
<1> QED
  BY <1>3, <1>4, <1>5, <1>6, <1>7 DEF Seguidos

LEMMA SeguidosIguales ==
  ASSUME NEW l, l \in Seq(AllocInt), NEW m, m \in Seq(AllocInt), Len(m) = Len(l), Seguidos(l),
         \A i \in 1..Len(l) : /\ m[i].direccion = l[i].direccion
                              /\ m[i].tamanio_data = l[i].tamanio_data
  PROVE  Seguidos(m) /\ Final(m) = Final(l)
<1>1. Len(l) \in Nat /\ (l = <<>> <=> Len(l) = 0) /\ (m = <<>> <=> Len(m) = 0)
  OBVIOUS
<1>2. \A i \in 1..Len(l) : Fin(m[i]) = Fin(l[i])
  BY DEF Fin, Bruto
<1>3. Final(m) = Final(l)
  BY <1>1, <1>2 DEF Final
<1>4. m # <<>> => m[1].direccion = 0
  BY <1>1 DEF Seguidos
<1>5. ASSUME NEW i \in 1..(Len(l) - 1) PROVE Fin(m[i]) = m[i + 1].direccion
  <2>1. i \in 1..Len(l) /\ i + 1 \in 1..Len(l)
    BY <1>1
  <2> QED
    BY <2>1, <1>2 DEF Seguidos
<1> QED
  BY <1>3, <1>4, <1>5 DEF Seguidos

-----------------------------------------------------------------------------
(* The three changes of the list: a split, a union, the removal of a page  *)

Positivos(l) == \A i \in DOMAIN l : l[i].direccion >= 0

ParteDe(l, k, t) ==
  InsertAt([l EXCEPT ![k] = Alloc(l[k].direccion, t, FALSE)], 2,
           Alloc(l[k].direccion + t + META, l[k].tamanio_data - t - META, TRUE))

EsParte(m, l, k, t) ==
  /\ m \in Seq(AllocInt) /\ Len(m) = Len(l) + 1
  /\ m[1] = IF k = 1 THEN Alloc(l[1].direccion, t, FALSE) ELSE l[1]
  /\ m[2] = Alloc(l[k].direccion + t + META, l[k].tamanio_data - t - META, TRUE)
  /\ \A i \in 3..Len(m) :
       m[i] = IF i - 1 = k THEN Alloc(l[k].direccion, t, FALSE) ELSE l[i - 1]
  /\ Positivos(l) => Positivos(m)

LEMMA TresPartes ==
  ASSUME NEW S, NEW a, a \in Seq(S), NEW b, b \in Seq(S), NEW c, c \in Seq(S),
         NEW m, m = a \o b \o c
  PROVE  /\ m \in Seq(S) /\ Len(m) = Len(a) + Len(b) + Len(c)
         /\ \A i \in 1..Len(m) :
              m[i] = IF i <= Len(a) THEN a[i]
                     ELSE IF i <= Len(a) + Len(b) THEN b[i - Len(a)]
                     ELSE c[i - (Len(a) + Len(b))]
<1> DEFINE d == a \o b
<1>0. Len(a) \in Nat /\ Len(b) \in Nat /\ Len(c) \in Nat
  OBVIOUS
<1>1. /\ d \in Seq(S) /\ Len(d) = Len(a) + Len(b)
      /\ \A i \in 1..(Len(a) + Len(b)) : d[i] = IF i <= Len(a) THEN a[i] ELSE b[i - Len(a)]
  BY ConcatProperties
<1>2. m = d \o c
  OBVIOUS
<1> HIDE DEF d
<1>3. /\ m \in Seq(S) /\ Len(m) = Len(d) + Len(c)
      /\ \A i \in 1..(Len(d) + Len(c)) : m[i] = IF i <= Len(d) THEN d[i] ELSE c[i - Len(d)]
  <2>1. /\ d \o c \in Seq(S) /\ Len(d \o c) = Len(d) + Len(c)
        /\ \A i \in 1..(Len(d) + Len(c)) :
             (d \o c)[i] = IF i <= Len(d) THEN d[i] ELSE c[i - Len(d)]
    <3>1. d \in Seq(S)
      BY <1>1
    <3> QED
      BY ONLY <3>1, c \in Seq(S), ConcatProperties
  <2> QED
    BY ONLY <1>2, <2>1
<1>4. ASSUME NEW i \in 1..Len(m)
      PROVE  m[i] = IF i <= Len(a) THEN a[i]
                    ELSE IF i <= Len(a) + Len(b) THEN b[i - Len(a)]
                    ELSE c[i - (Len(a) + Len(b))]
  <2>1. m[i] = IF i <= Len(d) THEN d[i] ELSE c[i - Len(d)]
    BY <1>3
  <2>2. CASE i <= Len(d)
    <3>1. i \in 1..(Len(a) + Len(b))
      BY <2>2, <1>0, <1>1, <1>3
    <3> QED
      BY <3>1, <2>1, <2>2, <1>0, <1>1
  <2>3. CASE ~(i <= Len(d))
    <3>1. ~(i <= Len(a)) /\ ~(i <= Len(a) + Len(b))
      BY <2>3, <1>0, <1>1, <1>3
    <3> QED
      BY <3>1, <2>1, <2>3, <1>1
  <2> QED
    BY <2>2, <2>3
<1> QED
  BY <1>0, <1>1, <1>3, <1>4

LEMMA InsertarSegundo ==
  ASSUME NEW S, NEW s, s \in Seq(S), Len(s) >= 1, NEW e \in S,
         NEW m, m = InsertAt(s, 2, e)
  PROVE  /\ m \in Seq(S) /\ Len(m) = Len(s) + 1
         /\ m[1] = s[1] /\ m[2] = e /\ \A i \in 3..Len(m) : m[i] = s[i - 1]
<1> DEFINE a == SubSeq(s, 1, 1)
           b == SubSeq(s, 2, Len(s))
           c == <<e>>
<1>0. Len(s) \in Nat /\ Len(s) >= 1 /\ \A i \in 1..Len(s) : s[i] \in S
  OBVIOUS
<1>1. m = a \o c \o b
  BY DEF InsertAt
<1>2. a \in Seq(S) /\ Len(a) = 1 /\ a[1] = s[1]
  BY <1>0
<1>3. /\ b \in Seq(S) /\ Len(b) = Len(s) - 1
      /\ \A i \in 1..(Len(s) - 1) : b[i] = s[i + 1]
  <2>1. /\ b \in Seq(S) /\ Len(b) = IF 2 <= Len(s) THEN Len(s) - 2 + 1 ELSE 0
        /\ \A i \in 1..(Len(s) - 2 + 1) : b[i] = s[2 + i - 1]
    <3>1. \A i \in 2..Len(s) : s[i] \in S
      BY <1>0
    <3> QED
      BY <1>0, <3>1, SubSeqProperties
  <2> HIDE DEF b
  <2>2. ASSUME NEW i \in 1..(Len(s) - 1) PROVE b[i] = s[i + 1]
    <3>1. i \in 1..(Len(s) - 2 + 1) /\ 2 + i - 1 = i + 1
      BY <1>0
    <3> QED
      BY <2>1, <3>1
  <2>3. Len(b) = Len(s) - 1
    <3>1. Len(b) = IF 2 <= Len(s) THEN Len(s) - 2 + 1 ELSE 0
      BY <2>1
    <3>2. Len(s) \in Nat /\ Len(s) >= 1
      BY <1>0
    <3>3. CASE Len(s) = 1
      BY ONLY <3>1, <3>3
    <3>4. CASE Len(s) >= 2
      BY ONLY <3>1, <3>2, <3>4
    <3>5. Len(s) = 1 \/ Len(s) >= 2
      BY ONLY <3>2, UnoODos
    <3> QED
      BY <3>3, <3>4, <3>5, Zenon
  <2> QED
    BY <2>1, <2>2, <2>3
<1>4. c \in Seq(S) /\ Len(c) = 1 /\ c[1] = e
  OBVIOUS
<1> HIDE DEF a, b, c
<1>5. /\ m \in Seq(S) /\ Len(m) = Len(a) + Len(c) + Len(b)
      /\ \A i \in 1..Len(m) :
           m[i] = IF i <= Len(a) THEN a[i]
                  ELSE IF i <= Len(a) + Len(c) THEN c[i - Len(a)]
                  ELSE b[i - (Len(a) + Len(c))]
  <2>1. a \in Seq(S) /\ b \in Seq(S) /\ c \in Seq(S)
    BY <1>2, <1>3, <1>4
  <2> QED
    BY ONLY <1>1, <2>1, TresPartes
<1>6. Len(m) = Len(s) + 1
  BY <1>0, <1>2, <1>3, <1>4, <1>5
<1>7. m[1] = s[1] /\ m[2] = e
  <2>1. 1 \in 1..Len(m) /\ 2 \in 1..Len(m)
    BY <1>0, <1>6
  <2> QED
    BY <2>1, <1>2, <1>4, <1>5
<1>8. ASSUME NEW i \in 3..Len(m) PROVE m[i] = s[i - 1]
  <2>1. /\ i \in 1..Len(m) /\ ~(i <= 1) /\ ~(i <= 1 + 1) /\ i - (1 + 1) = i - 2
        /\ i - 2 \in 1..(Len(s) - 1) /\ (i - 2) + 1 = i - 1
    BY <1>0, <1>6
  <2>2. m[i] = b[i - 2]
    BY <2>1, <1>2, <1>4, <1>5
  <2> QED
    BY <2>1, <2>2, <1>3
<1> QED
  BY <1>5, <1>6, <1>7, <1>8

(* A split leaves an alloc of each size, wherever the first one is.        *)
LEMMA ParteTipos ==
  ASSUME NEW l, l \in Seq(AllocInt), NEW k \in 1..Len(l), NEW t \in Nat,
         l[k].tamanio_data - t > META, NEW m, m = ParteDe(l, k, t)
  PROVE  EsParte(m, l, k, t)
<1> DEFINE a == Alloc(l[k].direccion, t, FALSE)
           e == Alloc(l[k].direccion + t + META, l[k].tamanio_data - t - META, TRUE)
           s == [l EXCEPT ![k] = a]
<1>1. l[k] \in AllocInt /\ Len(l) \in Nat /\ Len(l) >= 1
  OBVIOUS
<1>2. /\ a \in AllocInt /\ e \in AllocInt
      /\ a.direccion = l[k].direccion /\ e.direccion = l[k].direccion + t + META
  BY <1>1 DEF Alloc, AllocInt, META
<1> HIDE DEF a, e
<1>3. /\ s \in Seq(AllocInt) /\ Len(s) = Len(l)
      /\ \A i \in 1..Len(l) : s[i] = IF i = k THEN a ELSE l[i]
  BY <1>2
<1>4. m = InsertAt(s, 2, e)
  BY DEF ParteDe, a, e
<1> HIDE DEF s
<1>5. /\ m \in Seq(AllocInt) /\ Len(m) = Len(l) + 1
      /\ m[1] = s[1] /\ m[2] = e /\ \A i \in 3..Len(m) : m[i] = s[i - 1]
  <2>1. s \in Seq(AllocInt) /\ Len(s) >= 1 /\ e \in AllocInt
    BY <1>1, <1>2, <1>3
  <2>2. Len(m) = Len(s) + 1 /\ m \in Seq(AllocInt)
    BY ONLY <1>4, <2>1, InsertarSegundo
  <2>3. m[1] = s[1] /\ m[2] = e /\ \A i \in 3..Len(m) : m[i] = s[i - 1]
    BY ONLY <1>4, <2>1, InsertarSegundo
  <2> QED
    BY <1>3, <2>2, <2>3
<1>6. \A i \in 3..Len(m) : i - 1 \in 1..Len(l)
  BY <1>1, <1>5
<1>7. ASSUME Positivos(l) PROVE Positivos(m)
  <2>1. \A i \in 1..Len(l) : s[i].direccion >= 0
    BY <1>2, <1>3, <1>7 DEF Positivos
  <2>2. e.direccion >= 0
    <3>1. l[k].direccion >= 0 /\ l[k].direccion \in Int
      BY <1>1, <1>7, FinEntero DEF Positivos
    <3> QED
      BY <1>2, <3>1 DEF META
  <2>3. ASSUME NEW i \in 1..Len(m) PROVE m[i].direccion >= 0
    <3>1. CASE i = 1
      BY <3>1, <2>1, <1>1, <1>5
    <3>2. CASE i = 2
      BY <3>2, <2>2, <1>5
    <3>3. CASE i > 2
      <4>1. i \in 3..Len(m)
        BY <3>3
      <4> QED
        BY <4>1, <2>1, <1>5, <1>6
    <3> QED
      BY <3>1, <3>2, <3>3
  <2>4. DOMAIN m = 1..Len(m)
    BY <1>5
  <2> QED
    BY <2>3, <2>4 DEF Positivos
<1>8. s[1] = IF k = 1 THEN Alloc(l[1].direccion, t, FALSE) ELSE l[1]
  <2>1. 1 \in 1..Len(l)
    BY <1>1
  <2>2. s[1] = IF 1 = k THEN a ELSE l[1]
    BY <1>3, <2>1
  <2> QED
    BY <2>2 DEF a
<1>9. \A i \in 3..Len(m) :
        m[i] = IF i - 1 = k THEN Alloc(l[k].direccion, t, FALSE) ELSE l[i - 1]
  BY <1>3, <1>5, <1>6 DEF a
<1> QED
  BY <1>5, <1>7, <1>8, <1>9 DEF e, EsParte

(* A split of the first alloc keeps the list tiled: its remainder goes to  *)
(* the second position, which is its place.                                *)
LEMMA ParteSeguidos ==
  ASSUME NEW l, l \in Seq(AllocInt), 1 \in 1..Len(l), NEW t \in Nat,
         l[1].tamanio_data - t > META, NEW m, m = ParteDe(l, 1, t), Seguidos(l)
  PROVE  /\ Seguidos(m) /\ Final(m) = Final(l)
         /\ Separados(l) /\ l[1].isFree => Separados(m)
<1>0. Len(l) \in Nat /\ Len(l) >= 1 /\ l # <<>> /\ l[1] \in AllocInt
  OBVIOUS
<1>1. /\ m \in Seq(AllocInt) /\ Len(m) = Len(l) + 1
      /\ m[1] = Alloc(l[1].direccion, t, FALSE)
      /\ m[2] = Alloc(l[1].direccion + t + META, l[1].tamanio_data - t - META, TRUE)
      /\ \A i \in 3..Len(m) : m[i] = l[i - 1]
  <2>1. \A i \in 3..Len(m) : i - 1 # 1
    OBVIOUS
  <2>2. EsParte(m, l, 1, t)
    BY ParteTipos
  <2>3. /\ m \in Seq(AllocInt) /\ Len(m) = Len(l) + 1
        /\ m[1] = Alloc(l[1].direccion, t, FALSE)
        /\ m[2] = Alloc(l[1].direccion + t + META, l[1].tamanio_data - t - META, TRUE)
    BY <2>2 DEF EsParte
  <2>4. \A i \in 3..Len(m) :
          m[i] = IF i - 1 = 1 THEN Alloc(l[1].direccion, t, FALSE) ELSE l[i - 1]
    BY <2>2 DEF EsParte
  <2>5. \A i \in 3..Len(m) : m[i] = l[i - 1]
    BY <2>1, <2>4
  <2> QED
    BY <2>3, <2>5
<1>2. /\ m[1].direccion = l[1].direccion /\ ~m[1].isFree
      /\ m[2].direccion = l[1].direccion + t + META
      /\ Fin(m[1]) = l[1].direccion + t + META
      /\ Fin(m[2]) = (l[1].direccion + t + META) + (l[1].tamanio_data - t - META) + META
  <2>1. /\ m[1].direccion = l[1].direccion /\ m[1].tamanio_data = t /\ ~m[1].isFree
    BY <1>1 DEF Alloc
  <2>2. /\ m[2].direccion = l[1].direccion + t + META
        /\ m[2].tamanio_data = l[1].tamanio_data - t - META
    BY <1>1 DEF Alloc
  <2>3. l[1].direccion \in Int /\ l[1].tamanio_data \in Int /\ META = 9
    BY <1>0, FinEntero
  <2>4. Fin(m[1]) = l[1].direccion + (t + META)
    BY <2>1 DEF Fin, Bruto
  <2>5. Fin(m[2]) = (l[1].direccion + t + META) + ((l[1].tamanio_data - t - META) + META)
    BY <2>2 DEF Fin, Bruto
  <2>6. Fin(m[1]) = l[1].direccion + t + META
    BY ONLY <2>3, <2>4, t \in Nat
  <2>7. Fin(m[2]) = (l[1].direccion + t + META) + (l[1].tamanio_data - t - META) + META
    BY ONLY <2>3, <2>5, t \in Nat
  <2> QED
    BY <2>1, <2>2, <2>6, <2>7
<1>3. Fin(m[1]) = m[2].direccion /\ Fin(m[2]) = Fin(l[1])
  <2>1. /\ l[1].direccion \in Int /\ l[1].tamanio_data \in Int /\ META = 9
        /\ Fin(l[1]) = l[1].direccion + Bruto(l[1]) /\ Bruto(l[1]) = l[1].tamanio_data + 9
    BY <1>0, FinEntero
  <2>2. Fin(m[1]) = m[2].direccion
    BY <1>2
  <2>3. Fin(m[2]) = l[1].direccion + (l[1].tamanio_data + META)
    <3>1. Fin(m[2]) = (l[1].direccion + t + META) + (l[1].tamanio_data - t - META) + META
      BY <1>2
    <3> QED
      BY ONLY <3>1, <2>1, t \in Nat
  <2> QED
    BY <2>1, <2>2, <2>3
<1>4. ASSUME NEW i \in 1..(Len(m) - 1) PROVE Fin(m[i]) = m[i + 1].direccion
  <2>1. CASE i = 1
    BY <2>1, <1>3
  <2>2. CASE i = 2
    <3>1. 3 \in 3..Len(m) /\ 1 \in 1..(Len(l) - 1)
      <4>1. Len(m) = Len(l) + 1 /\ Len(l) \in Nat /\ i \in 1..(Len(m) - 1)
        BY <1>0, <1>1
      <4>2. Len(l) >= 2
        BY ONLY <4>1, <2>2
      <4> QED
        BY ONLY <4>1, <4>2
    <3>2. m[3] = l[2]
      <4>1. m[3] = l[3 - 1]
        BY <3>1, <1>1
      <4> QED
        BY <4>1
    <3>3. Fin(l[1]) = l[2].direccion
      BY <3>1 DEF Seguidos
    <3> QED
      BY <3>2, <3>3, <2>2, <1>3
  <2>3. CASE i > 2
    <3>1. i \in 3..Len(m) /\ i + 1 \in 3..Len(m) /\ i - 1 \in 1..(Len(l) - 1)
      BY <2>3, <1>0, <1>1
    <3>2. m[i] = l[i - 1] /\ m[i + 1] = l[i]
      BY <3>1, <1>1
    <3>3. Fin(l[i - 1]) = l[(i - 1) + 1].direccion
      BY <3>1 DEF Seguidos
    <3> QED
      BY <3>2, <3>3
  <2> QED
    BY <2>1, <2>2, <2>3
<1>5. m # <<>> /\ m[1].direccion = 0
  BY <1>0, <1>1, <1>2 DEF Seguidos
<1>6. Final(m) = Final(l)
  <2>1. CASE Len(l) = 1
    BY <2>1, <1>0, <1>1, <1>3, <1>5 DEF Final
  <2>2. CASE Len(l) # 1
    <3>1. Len(m) \in 3..Len(m) /\ Len(m) - 1 = Len(l)
      <4>1. Len(m) = Len(l) + 1 /\ Len(l) \in Nat /\ Len(l) >= 1
        BY <1>0, <1>1
      <4> QED
        BY ONLY <2>2, <4>1, DosOMas
    <3>2. m[Len(m)] = l[Len(l)]
      BY <3>1, <1>1
    <3> QED
      BY <3>2, <1>0, <1>5 DEF Final
  <2> QED
    BY <2>1, <2>2
<1>7. ASSUME Separados(l), l[1].isFree PROVE Separados(m)
  <2>1. ASSUME NEW i \in 1..(Len(m) - 1), m[i].isFree, m[i + 1].isFree PROVE FALSE
    <3>1. CASE i = 1
      BY <3>1, <2>1, <1>2
    <3>2. CASE i = 2
      <4>1. 3 \in 3..Len(m) /\ 1 \in 1..(Len(l) - 1)
        BY <3>2, <1>0, <1>1
      <4>2. m[3] = l[2]
        BY <4>1, <1>1
      <4> QED
        BY <4>1, <4>2, <3>2, <2>1, <1>7 DEF Separados
    <3>3. CASE i > 2
      <4>1. i \in 3..Len(m) /\ i + 1 \in 3..Len(m) /\ i - 1 \in 1..(Len(l) - 1)
        BY <3>3, <1>0, <1>1
      <4>2. m[i] = l[i - 1] /\ m[i + 1] = l[(i - 1) + 1]
        BY <4>1, <1>1
      <4> QED
        BY <4>1, <4>2, <2>1, <1>7 DEF Separados
    <3> QED
      BY <3>1, <3>2, <3>3
  <2> QED
    BY <2>1 DEF Separados
<1> QED
  BY <1>4, <1>5, <1>6, <1>7 DEF Seguidos

LEMMA TramoDeLista ==
  ASSUME NEW S, NEW l, l \in Seq(S), NEW p \in Nat, NEW q \in Nat,
         p >= 1, q <= Len(l), p <= q + 1, NEW s, s = SubSeq(l, p, q)
  PROVE  /\ s \in Seq(S) /\ Len(s) = q + 1 - p
         /\ \A n \in 1..(q + 1 - p) : s[n] = l[p + n - 1]
<1>1. Len(l) \in Nat /\ \A n \in 1..Len(l) : l[n] \in S
  OBVIOUS
<1>2. \A n \in p..q : l[n] \in S
  <2> TAKE n \in p..q
  <2>1. n \in 1..Len(l)
    BY <1>1
  <2> QED
    BY <2>1, <1>1
<1>3. /\ s \in Seq(S) /\ Len(s) = IF p <= q THEN q - p + 1 ELSE 0
      /\ \A n \in 1..(q - p + 1) : s[n] = l[p + n - 1]
  <2>1. /\ SubSeq(l, p, q) \in Seq(S)
        /\ Len(SubSeq(l, p, q)) = IF p <= q THEN q - p + 1 ELSE 0
        /\ \A n \in 1..(q - p + 1) : SubSeq(l, p, q)[n] = l[p + n - 1]
    <3>1. p \in Int /\ q \in Int
      OBVIOUS
    <3> QED
      BY ONLY <3>1, <1>2, SubSeqProperties
  <2> QED
    BY ONLY <2>1, s = SubSeq(l, p, q)
<1>4. q - p + 1 = q + 1 - p /\ (~(p <= q) => q + 1 - p = 0)
  OBVIOUS
<1> QED
  BY <1>3, <1>4

UnidoDe(l, i, j) ==
  SubSeq(l, 1, i - 1)
    \o <<Alloc(l[i].direccion, Ocupado(SubSeq(l, i, j)) - META, TRUE)>>
    \o SubSeq(l, j + 1, Len(l))

EsUnido(m, l, i, j) ==
  /\ m \in Seq(AllocInt) /\ Len(m) = Len(l) - (j - i) /\ i \in 1..Len(m)
  /\ m[i] = Alloc(l[i].direccion, Ocupado(SubSeq(l, i, j)) - META, TRUE)
  /\ \A n \in 1..(i - 1) : m[n] = l[n]
  /\ \A n \in (i + 1)..Len(m) : m[n] = l[n + (j - i)]

LEMMA UnidoEs ==
  ASSUME NEW l, l \in Seq(AllocInt), NEW i \in 1..Len(l), NEW j \in 1..Len(l), i <= j,
         NEW m, m = UnidoDe(l, i, j)
  PROVE  EsUnido(m, l, i, j)
<1> DEFINE a == SubSeq(l, 1, i - 1)
           e == Alloc(l[i].direccion, Ocupado(SubSeq(l, i, j)) - META, TRUE)
           b == <<e>>
           c == SubSeq(l, j + 1, Len(l))
<1>0. Len(l) \in Nat /\ i \in Nat /\ j \in Nat /\ i - 1 \in Nat /\ j + 1 \in Nat /\ 1 \in Nat
  OBVIOUS
<1>1. a \in Seq(AllocInt) /\ Len(a) = i - 1 /\ \A n \in 1..(i - 1) : a[n] = l[n]
  <2>1. /\ a \in Seq(AllocInt) /\ Len(a) = (i - 1) + 1 - 1
        /\ \A n \in 1..((i - 1) + 1 - 1) : a[n] = l[1 + n - 1]
    <3>1. i - 1 <= Len(l) /\ 1 <= (i - 1) + 1
      BY <1>0
    <3> HIDE DEF a
    <3>2. a = SubSeq(l, 1, i - 1)
      BY DEF a
    <3> QED
      BY <3>1, <3>2, <1>0, TramoDeLista
  <2>2. (i - 1) + 1 - 1 = i - 1 /\ \A n \in 1..(i - 1) : 1 + n - 1 = n
    BY <1>0
  <2> QED
    BY <2>1, <2>2
<1>2. c \in Seq(AllocInt) /\ Len(c) = Len(l) - j /\ \A n \in 1..(Len(l) - j) : c[n] = l[j + n]
  <2>1. /\ c \in Seq(AllocInt) /\ Len(c) = Len(l) + 1 - (j + 1)
        /\ \A n \in 1..(Len(l) + 1 - (j + 1)) : c[n] = l[(j + 1) + n - 1]
    <3>1. j + 1 >= 1 /\ j + 1 <= Len(l) + 1 /\ Len(l) <= Len(l)
      BY <1>0
    <3> HIDE DEF c
    <3>2. c = SubSeq(l, j + 1, Len(l))
      BY DEF c
    <3> QED
      BY <3>1, <3>2, <1>0, TramoDeLista
  <2>2. Len(l) + 1 - (j + 1) = Len(l) - j /\ \A n \in 1..(Len(l) - j) : (j + 1) + n - 1 = j + n
    BY <1>0
  <2> QED
    BY <2>1, <2>2
<1>3. e \in AllocInt
  <2> DEFINE s == SubSeq(l, i, j)
  <2>1. s \in Seq(AllocInt) /\ Len(s) = j + 1 - i
    <3>1. i >= 1 /\ j <= Len(l) /\ i <= j + 1
      BY <1>0
    <3> HIDE DEF s
    <3>2. s = SubSeq(l, i, j)
      BY DEF s
    <3> QED
      BY <3>1, <3>2, <1>0, TramoDeLista
  <2>2. s # <<>>
    BY <1>0, <2>1
  <2>3. Ocupado(s) >= META /\ Ocupado(s) \in Int
    <3> HIDE DEF s
    <3> QED BY <2>1, <2>2, OcupadoCota
  <2> HIDE DEF s
  <2>4. Ocupado(s) - META \in Nat
    BY <2>3 DEF META
  <2>5. l[i].direccion \in Int
    <3>1. l[i] \in AllocInt
      OBVIOUS
    <3> QED
      BY <3>1, FinEntero
  <2> QED
    BY <2>4, <2>5 DEF Alloc, AllocInt, s
<1> HIDE DEF a, c, e
<1>4. b \in Seq(AllocInt) /\ Len(b) = 1 /\ b[1] = e
  BY <1>3
<1>5. m = a \o b \o c
  BY DEF UnidoDe, a, c, e
<1> HIDE DEF b
<1>6. /\ m \in Seq(AllocInt) /\ Len(m) = Len(a) + Len(b) + Len(c)
      /\ \A n \in 1..Len(m) :
           m[n] = IF n <= Len(a) THEN a[n]
                  ELSE IF n <= Len(a) + Len(b) THEN b[n - Len(a)]
                  ELSE c[n - (Len(a) + Len(b))]
  <2>1. a \in Seq(AllocInt) /\ b \in Seq(AllocInt) /\ c \in Seq(AllocInt)
    BY <1>1, <1>2, <1>4
  <2> QED
    BY ONLY <1>5, <2>1, TresPartes
<1>7. Len(m) = Len(l) - (j - i) /\ i \in 1..Len(m)
  <2>1. Len(m) = (i - 1) + 1 + (Len(l) - j)
    BY <1>1, <1>2, <1>4, <1>6
  <2>2. Len(m) = Len(l) - (j - i)
    BY <2>1, <1>0
  <2> QED
    BY <2>2, <1>0
<1>8. m[i] = e
  <2>1. ~(i <= i - 1) /\ i <= (i - 1) + 1 /\ i - (i - 1) = 1
    BY <1>0
  <2>2. m[i] = b[i - (i - 1)]
    BY <2>1, <1>1, <1>4, <1>6, <1>7
  <2> QED
    BY <2>1, <2>2, <1>4
<1>9. ASSUME NEW n \in 1..(i - 1) PROVE m[n] = l[n]
  <2>1. n \in 1..Len(m) /\ n <= i - 1
    BY <1>0, <1>7
  <2> QED
    BY <2>1, <1>1, <1>6
<1>10. ASSUME NEW n \in (i + 1)..Len(m) PROVE m[n] = l[n + (j - i)]
  <2>1. n \in 1..Len(m) /\ ~(n <= i - 1) /\ ~(n <= (i - 1) + 1)
    BY <1>0
  <2>2. n - ((i - 1) + 1) \in 1..(Len(l) - j) /\ j + (n - ((i - 1) + 1)) = n + (j - i)
    BY <1>0, <1>7
  <2>3. m[n] = c[n - ((i - 1) + 1)]
    BY <2>1, <1>1, <1>4, <1>6
  <2>4. c[n - ((i - 1) + 1)] = l[j + (n - ((i - 1) + 1))]
    BY <2>2, <1>2
  <2> QED
    BY <2>2, <2>3, <2>4
<1> QED
  BY <1>6, <1>7, <1>8, <1>9, <1>10 DEF EsUnido, e

LEMMA UnidoPositivos ==
  ASSUME NEW l, l \in Seq(AllocInt), NEW i \in 1..Len(l), NEW j \in 1..Len(l), i <= j,
         NEW m, EsUnido(m, l, i, j), Positivos(l)
  PROVE  Positivos(m)
<1>0. /\ Len(l) \in Nat /\ i \in Nat /\ j \in Nat /\ j <= Len(l)
      /\ m \in Seq(AllocInt) /\ Len(m) = Len(l) - (j - i) /\ i \in 1..Len(m)
  BY DEF EsUnido
<1>1. \A n \in 1..Len(l) : l[n].direccion >= 0
  BY DEF Positivos
<1>2. ASSUME NEW n \in 1..Len(m) PROVE m[n].direccion >= 0
  <2>1. CASE n = i
    BY <2>1, <1>1 DEF EsUnido, Alloc
  <2>2. CASE n < i
    <3>1. n \in 1..(i - 1) /\ n \in 1..Len(l)
      BY <2>2, <1>0
    <3> QED
      BY <3>1, <1>1 DEF EsUnido
  <2>3. CASE n > i
    <3>1. n \in (i + 1)..Len(m) /\ n + (j - i) \in 1..Len(l)
      BY <2>3, <1>0
    <3> QED
      BY <3>1, <1>1 DEF EsUnido
  <2> QED
    BY <2>1, <2>2, <2>3, <1>0
<1>3. DOMAIN m = 1..Len(m)
  BY <1>0
<1> QED
  BY <1>2, <1>3 DEF Positivos

(* The union of neighbours takes exactly their place.                      *)
LEMMA UnidoSeguidos ==
  ASSUME NEW l, l \in Seq(AllocInt), NEW i \in 1..Len(l), NEW j \in 1..Len(l), i <= j,
         NEW m, EsUnido(m, l, i, j), Seguidos(l)
  PROVE  Seguidos(m) /\ Final(m) = Final(l)
<1>0. /\ Len(l) \in Nat /\ i \in Nat /\ j \in Nat /\ j <= Len(l) /\ i >= 1 /\ j >= 1
      /\ m \in Seq(AllocInt) /\ Len(m) = Len(l) - (j - i) /\ i \in 1..Len(m)
  BY DEF EsUnido
<1>1. m[i].direccion = l[i].direccion /\ Fin(m[i]) = Fin(l[j])
  <2>1. /\ m[i].direccion = l[i].direccion
        /\ m[i].tamanio_data = Ocupado(SubSeq(l, i, j)) - META
    BY DEF EsUnido, Alloc
  <2>2. Ocupado(SubSeq(l, i, j)) = Fin(l[j]) - l[i].direccion
    BY OcupadoTramo
  <2>3. l[j] \in AllocInt /\ l[i] \in AllocInt
    OBVIOUS
  <2>4. Fin(l[j]) \in Int /\ l[i].direccion \in Int /\ META = 9
    BY <2>3, FinEntero
  <2>5. Fin(m[i]) = l[i].direccion + ((Fin(l[j]) - l[i].direccion - META) + META)
    BY <2>1, <2>2 DEF Fin, Bruto
  <2>6. Fin(m[i]) = Fin(l[j])
    BY ONLY <2>4, <2>5
  <2> QED
    BY <2>1, <2>6
<1>2. \A n \in 1..(i - 1) : m[n] = l[n]
  BY DEF EsUnido
<1>3. \A n \in (i + 1)..Len(m) : m[n] = l[n + (j - i)]
  BY DEF EsUnido
<1>4. \A n \in 1..(Len(l) - 1) : Fin(l[n]) = l[n + 1].direccion
  BY DEF Seguidos
<1>5. ASSUME NEW n \in 1..(Len(m) - 1) PROVE Fin(m[n]) = m[n + 1].direccion
  <2>1. CASE n + 1 < i
    <3>1. n \in 1..(i - 1) /\ n + 1 \in 1..(i - 1) /\ n \in 1..(Len(l) - 1)
      BY <2>1, <1>0
    <3> QED
      BY <3>1, <1>2, <1>4
  <2>2. CASE n + 1 = i
    <3>1. n \in 1..(i - 1) /\ n \in 1..(Len(l) - 1)
      BY <2>2, <1>0
    <3> QED
      BY <3>1, <2>2, <1>1, <1>2, <1>4
  <2>3. CASE n = i
    <3>1. n + 1 \in (i + 1)..Len(m) /\ j \in 1..(Len(l) - 1) /\ (n + 1) + (j - i) = j + 1
      BY <2>3, <1>0
    <3>2. m[n + 1] = l[j + 1]
      BY <3>1, <1>3
    <3> QED
      BY <3>1, <3>2, <2>3, <1>1, <1>4
  <2>4. CASE n > i
    <3>1. /\ n \in (i + 1)..Len(m) /\ n + 1 \in (i + 1)..Len(m)
          /\ n + (j - i) \in 1..(Len(l) - 1) /\ (n + 1) + (j - i) = (n + (j - i)) + 1
      BY <2>4, <1>0
    <3>2. m[n] = l[n + (j - i)] /\ m[n + 1] = l[(n + (j - i)) + 1]
      BY <3>1, <1>3
    <3> QED
      BY <3>1, <3>2, <1>4
  <2>5. n + 1 < i \/ n + 1 = i \/ n = i \/ n > i
    <3>1. n \in Nat
      OBVIOUS
    <3> QED
      BY ONLY <3>1, <1>0
  <2> QED
    BY <2>1, <2>2, <2>3, <2>4, <2>5
<1>6. m[1].direccion = 0
  <2>1. l[1].direccion = 0
    BY DEF Seguidos
  <2>2. CASE i = 1
    BY <2>1, <2>2, <1>1
  <2>3. CASE i # 1
    <3>1. 1 \in 1..(i - 1)
      BY <2>3, <1>0
    <3> QED
      BY <3>1, <2>1, <1>2
  <2> QED
    BY <2>2, <2>3
<1>7. Final(m) = Final(l)
  <2>0. m # <<>> /\ l # <<>>
    BY <1>0
  <2>1. CASE i = Len(m)
    <3>1. j = Len(l)
      BY <2>1, <1>0
    <3> QED
      BY <3>1, <2>0, <2>1, <1>1 DEF Final
  <2>2. CASE i # Len(m)
    <3>1. Len(m) \in (i + 1)..Len(m) /\ Len(m) + (j - i) = Len(l)
      BY <2>2, <1>0
    <3>2. m[Len(m)] = l[Len(l)]
      BY <3>1, <1>3
    <3> QED
      BY <3>2, <2>0 DEF Final
  <2> QED
    BY <2>1, <2>2
<1> QED
  BY <1>5, <1>6, <1>7 DEF Seguidos

LEMMA CorridosTras ==
  ASSUME NEW p \in Nat, NEW i \in Nat, NEW j \in Nat, i <= j, NEW q, q = p - (j - i),
         NEW n \in 1..(q - 1)
  PROVE  /\ n = i => n + 1 \in (i + 1)..q /\ j < p /\ (n + 1) + (j - i) = j + 1
         /\ n > i => /\ n \in (i + 1)..q /\ n + 1 \in (i + 1)..q
                     /\ n + (j - i) \in 1..(p - 1) /\ (n + 1) + (j - i) = (n + (j - i)) + 1
  OBVIOUS

(* What is taken in is all that was free around: nothing free is left      *)
(* beside the union.                                                       *)
LEMMA UnidoSeparados ==
  ASSUME NEW l, l \in Seq(AllocInt), NEW k \in 1..Len(l), ~l[k].isFree,
         NEW i, i = HastaIzq(l, k), NEW j, j = HastaDer(l, k),
         NEW m, EsUnido(m, l, i, j), Separados(l)
  PROVE  Separados(m)
<1>0. /\ Len(l) \in Nat /\ k \in Nat /\ k >= 1 /\ k <= Len(l)
      /\ m \in Seq(AllocInt) /\ Len(m) = Len(l) - (j - i) /\ i \in 1..Len(m)
  BY DEF EsUnido
<1>i. \/ i = k - 1 /\ k > 1 /\ l[k - 1].isFree
      \/ i = k /\ (k = 1 \/ ~l[k - 1].isFree)
  BY <1>0 DEF HastaIzq
<1>j. \/ j = k + 1 /\ k < Len(l) /\ l[k + 1].isFree
      \/ j = k /\ (k = Len(l) \/ ~l[k + 1].isFree)
  <2>1. CASE k < Len(l)
    BY <2>1 DEF HastaDer
  <2>2. CASE k = Len(l)
    <3>1. ~(k < Len(l))
      BY <2>2, <1>0
    <3> QED
      BY <3>1, <2>2 DEF HastaDer
  <2> QED
    BY <2>1, <2>2, <1>0
<1>1. \A n \in 1..(i - 1) : m[n] = l[n]
  BY DEF EsUnido
<1>2. \A n \in (i + 1)..Len(m) : m[n] = l[n + (j - i)]
  BY DEF EsUnido
<1>3. \A n \in 1..(Len(l) - 1) : ~(l[n].isFree /\ l[n + 1].isFree)
  BY DEF Separados
<1>4. i > 1 => ~l[i - 1].isFree
  <2>1. CASE i = k - 1 /\ k > 1 /\ l[k - 1].isFree
    <3>1. ASSUME i > 1 PROVE i - 1 \in 1..(Len(l) - 1) /\ (i - 1) + 1 = k - 1
      BY <2>1, <3>1, <1>0
    <3> QED
      BY <3>1, <2>1, <1>3
  <2>2. CASE i = k /\ (k = 1 \/ ~l[k - 1].isFree)
    BY <2>2
  <2> QED
    BY <2>1, <2>2, <1>i
<1>5. j < Len(l) => ~l[j + 1].isFree
  <2>1. CASE j = k + 1 /\ k < Len(l) /\ l[k + 1].isFree
    <3>1. ASSUME j < Len(l) PROVE j \in 1..(Len(l) - 1)
      BY <2>1, <3>1, <1>0
    <3> QED
      BY <3>1, <2>1, <1>3
  <2>2. CASE j = k /\ (k = Len(l) \/ ~l[k + 1].isFree)
    BY <2>2, <1>0
  <2> QED
    BY <2>1, <2>2, <1>j
<1>6. i \in Nat /\ j \in Nat /\ i <= j /\ j <= Len(l) /\ i >= 1
  BY <1>0, <1>i, <1>j
<1>8. ASSUME NEW n \in 1..(Len(m) - 1)
      PROVE  /\ n = i => n + 1 \in (i + 1)..Len(m) /\ j < Len(l) /\ (n + 1) + (j - i) = j + 1
             /\ n > i => /\ n \in (i + 1)..Len(m) /\ n + 1 \in (i + 1)..Len(m)
                         /\ n + (j - i) \in 1..(Len(l) - 1)
                         /\ (n + 1) + (j - i) = (n + (j - i)) + 1
  <2>1. /\ Len(l) \in Nat /\ i \in Nat /\ j \in Nat /\ i <= j
        /\ Len(m) = Len(l) - (j - i) /\ n \in 1..(Len(m) - 1)
    BY <1>0, <1>6
  <2> QED
    BY ONLY <2>1, CorridosTras
<1>7. ASSUME NEW n \in 1..(Len(m) - 1), m[n].isFree, m[n + 1].isFree PROVE FALSE
  <2>1. CASE n + 1 < i
    <3>1. n \in 1..(i - 1) /\ n + 1 \in 1..(i - 1) /\ n \in 1..(Len(l) - 1)
      BY <2>1, <1>0, <1>6
    <3> QED
      BY <3>1, <1>1, <1>3, <1>7
  <2>2. CASE n + 1 = i
    <3>1. n \in 1..(i - 1) /\ n = i - 1 /\ i > 1
      BY <2>2, <1>6
    <3> QED
      BY <3>1, <1>1, <1>4, <1>7
  <2>3. CASE n = i
    <3>1. n + 1 \in (i + 1)..Len(m) /\ j < Len(l) /\ (n + 1) + (j - i) = j + 1
      BY <2>3, <1>8
    <3>2. m[n + 1] = l[j + 1]
      BY <3>1, <1>2
    <3> QED
      BY <3>1, <3>2, <1>5, <1>7
  <2>4. CASE n > i
    <3>1. /\ n \in (i + 1)..Len(m) /\ n + 1 \in (i + 1)..Len(m)
          /\ n + (j - i) \in 1..(Len(l) - 1) /\ (n + 1) + (j - i) = (n + (j - i)) + 1
      BY <2>4, <1>8
    <3>2. m[n] = l[n + (j - i)] /\ m[n + 1] = l[(n + (j - i)) + 1]
      BY <3>1, <1>2
    <3> QED
      BY <3>1, <3>2, <1>3, <1>7
  <2>5. n + 1 < i \/ n + 1 = i \/ n = i \/ n > i
    <3>1. n \in Nat
      OBVIOUS
    <3> QED
      BY ONLY <3>1, <1>6
  <2> QED
    BY <2>1, <2>2, <2>3, <2>4, <2>5
<1> QED
  BY <1>7 DEF Separados

(* What the removal of a page leaves, by exhibiting the lists it goes      *)
(* through.                                                                *)
EsResto(l, f) ==
  /\ f \in [0..Len(l) -> Seq(AllocInt)] /\ f[0] = <<>>
  /\ \A n \in 1..Len(l) :
       f[n] = IF EnPagina0(l[n]) THEN f[n - 1] ELSE Append(f[n - 1], l[n])

LEMMA QuedanEs ==
  ASSUME NEW l, l \in Seq(AllocInt), NEW f, EsResto(l, f)
  PROVE  Quedan(l) = f[Len(l)]
<1> DEFINE G(g) == [n \in 0..Len(l) |->
                      IF n = 0 THEN <<>>
                      ELSE IF EnPagina0(l[n]) THEN g[n - 1] ELSE Append(g[n - 1], l[n])]
           h == CHOOSE g : g = G(g)
<1>0. Len(l) \in Nat
  OBVIOUS
<1>1. f = G(f)
  <2>1. ASSUME NEW n \in 0..Len(l) PROVE f[n] = G(f)[n]
    <3>1. G(f)[n] = IF n = 0 THEN <<>>
                    ELSE IF EnPagina0(l[n]) THEN f[n - 1] ELSE Append(f[n - 1], l[n])
      OBVIOUS
    <3>2. n = 0 \/ n \in 1..Len(l)
      BY <1>0
    <3> QED
      BY <3>1, <3>2 DEF EsResto
  <2>2. f = [n \in 0..Len(l) |-> f[n]]
    BY DEF EsResto
  <2> QED
    BY <2>1, <2>2
<1>2. h = G(h)
  BY <1>1
<1>3. \A n \in 0..Len(l) :
        h[n] = IF n = 0 THEN <<>>
               ELSE IF EnPagina0(l[n]) THEN h[n - 1] ELSE Append(h[n - 1], l[n])
  <2>1. \A g : \A n \in 0..Len(l) :
          G(g)[n] = IF n = 0 THEN <<>>
                    ELSE IF EnPagina0(l[n]) THEN g[n - 1] ELSE Append(g[n - 1], l[n])
    OBVIOUS
  <2> QED
    BY <1>2, <2>1
<1>4. Quedan(l) = h[Len(l)]
  BY DEF Quedan
<1> HIDE DEF h, G
<1> DEFINE P == {n \in 0..Len(l) : h[n] = f[n]}
<1>5. 0 \in P
  BY <1>0, <1>3 DEF EsResto
<1>6. ASSUME NEW k \in 1..Len(l), k - 1 \in P PROVE k \in P
  <2>1. k \in 0..Len(l) /\ k # 0 /\ h[k - 1] = f[k - 1]
    BY <1>0, <1>6
  <2>2. h[k] = IF EnPagina0(l[k]) THEN h[k - 1] ELSE Append(h[k - 1], l[k])
    BY <2>1, <1>3
  <2>3. f[k] = IF EnPagina0(l[k]) THEN f[k - 1] ELSE Append(f[k - 1], l[k])
    BY DEF EsResto
  <2> QED
    BY <2>1, <2>2, <2>3
<1> HIDE DEF P
<1>8. Len(l) \in P
  BY <1>0, <1>5, <1>6, Induccion
<1> QED
  BY <1>4, <1>8 DEF P

LEMMA HayResto ==
  ASSUME NEW l, l \in Seq(AllocInt)
  PROVE  \E f : EsResto(l, f)
<1> DEFINE Hasta(n, f) ==
             /\ f \in [0..n -> Seq(AllocInt)] /\ f[0] = <<>>
             /\ \A k \in 1..n :
                  f[k] = IF EnPagina0(l[k]) THEN f[k - 1] ELSE Append(f[k - 1], l[k])
           P == {n \in 0..Len(l) : \E f : Hasta(n, f)}
<1>1. Len(l) \in Nat
  OBVIOUS
<1>2. 0 \in P
  <2>1. Hasta(0, [k \in 0..0 |-> <<>>])
    OBVIOUS
  <2> HIDE DEF Hasta
  <2>2. \E f : Hasta(0, f)
    BY <2>1
  <2> QED
    BY <1>1, <2>2
<1>3. ASSUME NEW k \in 1..Len(l), k - 1 \in P PROVE k \in P
  <2>1. PICK f : Hasta(k - 1, f)
    BY <1>3
  <2> DEFINE x == IF EnPagina0(l[k]) THEN f[k - 1] ELSE Append(f[k - 1], l[k])
             g == [n \in 0..k |-> IF n = k THEN x ELSE f[n]]
  <2>2. x \in Seq(AllocInt)
    <3>1. l[k] \in AllocInt
      OBVIOUS
    <3>2. k - 1 \in 0..(k - 1)
      BY <1>1
    <3>3. f[k - 1] \in Seq(AllocInt)
      BY <2>1, <3>2
    <3> QED
      BY <3>1, <3>3
  <2> HIDE DEF x
  <2>3. \A n \in 0..k : n # k => n \in 0..(k - 1)
    OBVIOUS
  <2>4. g \in [0..k -> Seq(AllocInt)] /\ g[0] = <<>> /\ g[k] = x
        /\ \A n \in 0..(k - 1) : g[n] = f[n]
    <3>1. \A n \in 0..(k - 1) : f[n] \in Seq(AllocInt)
      BY <2>1
    <3>2. 0 \in 0..(k - 1) /\ \A n \in 0..(k - 1) : n \in 0..k /\ n # k
      BY <1>1
    <3>3. k \in 0..k
      BY <1>1
    <3>4. \A n \in 0..(k - 1) : g[n] = f[n]
      BY <3>2
    <3>5. g[k] = x
      BY <3>3
    <3>6. g \in [0..k -> Seq(AllocInt)]
      BY <2>2, <2>3, <3>1
    <3> QED
      BY <2>1, <3>2, <3>4, <3>5, <3>6
  <2> HIDE DEF g
  <2>5. ASSUME NEW n \in 1..k
        PROVE  g[n] = IF EnPagina0(l[n]) THEN g[n - 1] ELSE Append(g[n - 1], l[n])
    <3>1. n - 1 \in 0..(k - 1)
      OBVIOUS
    <3>2. g[n - 1] = f[n - 1]
      BY <2>4, <3>1
    <3>3. CASE n = k
      BY <3>2, <3>3, <2>4 DEF x
    <3>4. CASE n # k
      <4>1. n \in 1..(k - 1) /\ n \in 0..(k - 1)
        BY <3>4
      <4>2. f[n] = IF EnPagina0(l[n]) THEN f[n - 1] ELSE Append(f[n - 1], l[n])
        BY <2>1, <4>1
      <4> QED
        BY <4>1, <4>2, <3>2, <2>4
    <3> QED
      BY <3>3, <3>4
  <2>6. Hasta(k, g)
    BY <2>4, <2>5
  <2> HIDE DEF Hasta
  <2> QED
    BY <2>6
<1> HIDE DEF P
<1>4. Len(l) \in P
  BY <1>1, <1>2, <1>3, Induccion
<1> QED
  BY <1>4 DEF P, EsResto

LEMMA QuedanTipo ==
  ASSUME NEW l, l \in Seq(AllocInt) PROVE Quedan(l) \in Seq(AllocInt)
<1>1. PICK f : EsResto(l, f)
  BY HayResto
<1>2. Len(l) \in 0..Len(l)
  OBVIOUS
<1>3. f[Len(l)] \in Seq(AllocInt)
  BY <1>1, <1>2 DEF EsResto
<1> QED
  BY <1>1, <1>3, QuedanEs

LEMMA BajadoEs ==
  ASSUME NEW a \in AllocInt, NEW x \in Int
  PROVE  /\ Bajado(a, x) \in AllocInt
         /\ Bajado(a, x).direccion = a.direccion - x
         /\ Bajado(a, x).tamanio_data = a.tamanio_data
         /\ Bajado(a, x).isFree = a.isFree
<1>1. a = [direccion |-> a.direccion, tamanio_data |-> a.tamanio_data, isFree |-> a.isFree]
  BY DEF AllocInt
<1>2. Bajado(a, x) = [direccion |-> a.direccion - x, tamanio_data |-> a.tamanio_data,
                      isFree |-> a.isFree]
  BY <1>1 DEF Bajado
<1>3. a.direccion - x \in Int /\ a.tamanio_data \in Nat /\ a.isFree \in BOOLEAN
  BY DEF AllocInt
<1> QED
  BY <1>2, <1>3 DEF AllocInt

LEMMA CompactadosTipo ==
  ASSUME NEW l, l \in Seq(AllocInt), DePagina0(l) # {}
  PROVE  Compactados(l) \in Seq(AllocInt)
<1> DEFINE van == DePagina0(l)
           q == Quedan(l)
           c == [i \in DOMAIN q |-> IF i < Cardinality(van) THEN q[i]
                                    ELSE Bajado(q[i], Bruto(l[Max(van)]))]
<1>1. Len(l) \in Nat /\ van \subseteq 0..Len(l) /\ van \subseteq 1..Len(l)
  BY DEF DePagina0
<1>2. Max(van) \in van
  <2> HIDE DEF van
  <2>1. van # {}
    BY DEF van
  <2> QED
    BY <1>1, <2>1, MayorNatural
<1>3. Bruto(l[Max(van)]) \in Int
  <2> HIDE DEF van
  <2>1. Max(van) \in 1..Len(l)
    BY <1>1, <1>2
  <2>2. \A i \in 1..Len(l) : l[i] \in AllocInt
    OBVIOUS
  <2>3. l[Max(van)] \in AllocInt
    BY <2>1, <2>2
  <2> QED
    BY <2>3, FinEntero
<1>4. q \in Seq(AllocInt)
  BY QuedanTipo
<1> DEFINE x == Bruto(l[Max(van)])
<1>5. Compactados(l) = c
  BY DEF Compactados
<1> HIDE DEF q, x
<1>6. \A a \in AllocInt : Bajado(a, x) \in AllocInt
  BY <1>3, BajadoEs DEF x
<1>7. \A i \in 1..Len(q) : c[i] \in AllocInt
  BY <1>4, <1>6 DEF x
<1>8. c = [i \in 1..Len(q) |-> c[i]] /\ Len(q) \in Nat
  BY <1>4
<1> HIDE DEF c
<1>9. c \in Seq(AllocInt)
  BY <1>7, <1>8
<1> QED
  BY <1>5, <1>9

(* Of a tiled list only the first alloc begins in page 0 when all that do  *)
(* are free: the second would be its neighbour.                            *)
LEMMA SoloElPrimero ==
  ASSUME NEW l, l \in Seq(AllocInt), Seguidos(l), Separados(l), Pagina0Libre(l)
  PROVE  DePagina0(l) = {1} /\ 1 \in 1..Len(l) /\ l[1].isFree /\ l[1].direccion = 0
<1>1. Len(l) \in Nat /\ DOMAIN l = 1..Len(l) /\ \A n \in 1..Len(l) : l[n] \in AllocInt
  OBVIOUS
<1>2. PICK j \in 1..Len(l) : j \in DePagina0(l)
  BY <1>1 DEF Pagina0Libre, DePagina0
<1>3. 1 \in 1..Len(l) /\ l # <<>>
  BY <1>1, <1>2
<1>4. l[1].direccion = 0
  BY <1>3 DEF Seguidos
<1>5. 1 \in DePagina0(l)
  BY <1>1, <1>3, <1>4, AllocsAssumption DEF DePagina0, EnPagina0
<1>6. l[1].isFree
  BY <1>5 DEF Pagina0Libre
<1>7. ASSUME NEW n \in DePagina0(l), n # 1 PROVE FALSE
  <2>1. n \in 1..Len(l) /\ l[n].direccion < TAM /\ l[n] \in AllocInt
    BY <1>1 DEF DePagina0, EnPagina0
  <2>2. 2 \in 1..Len(l) /\ 1 \in 1..(Len(l) - 1) /\ n >= 2 /\ n \in Nat
    BY <1>1, <1>7, <2>1
  <2>3. l[2].direccion <= l[n].direccion
    <3>1. CASE n = 2
      BY <3>1, <2>1, FinEntero
    <3>2. CASE n > 2
      <4>1. 2 \in 1..(n - 1)
        BY <3>2, <2>2
      <4>2. Fin(l[2]) <= l[n].direccion
        BY <4>1, <2>1, Ordenados
      <4>3. /\ Fin(l[2]) = l[2].direccion + Bruto(l[2]) /\ Bruto(l[2]) \in Nat
            /\ l[2].direccion \in Int /\ l[n].direccion \in Int
        BY <1>1, <2>1, <2>2, FinEntero
      <4> QED
        BY ONLY <4>2, <4>3
    <3>3. n = 2 \/ n > 2
      BY ONLY <2>2
    <3> QED
      BY <3>1, <3>2, <3>3
  <2>4. l[2].direccion < TAM
    <3>1. l[2].direccion \in Int /\ l[n].direccion \in Int /\ TAM \in Int
      BY <1>1, <2>1, <2>2, FinEntero, AllocsAssumption
    <3> QED
      BY ONLY <3>1, <2>1, <2>3
  <2>5. 2 \in DePagina0(l)
    BY <1>1, <2>2, <2>4 DEF DePagina0, EnPagina0
  <2>6. l[2].isFree
    BY <2>5 DEF Pagina0Libre
  <2>7. ~(l[1].isFree /\ l[1 + 1].isFree)
    BY <2>2 DEF Separados
  <2> QED
    BY <1>6, <2>6, <2>7
<1> QED
  BY <1>3, <1>4, <1>5, <1>6, <1>7

LEMMA QuedanSinElPrimero ==
  ASSUME NEW l, l \in Seq(AllocInt), DePagina0(l) = {1}
  PROVE  /\ Quedan(l) \in Seq(AllocInt) /\ Len(Quedan(l)) = Len(l) - 1
         /\ \A k \in 1..(Len(l) - 1) : Quedan(l)[k] = l[k + 1]
<1>1. PICK f : EsResto(l, f)
  BY HayResto
<1>2. Len(l) \in Nat /\ DOMAIN l = 1..Len(l) /\ \A n \in 1..Len(l) : l[n] \in AllocInt
  OBVIOUS
<1>3. 1 \in 1..Len(l)
  BY <1>2 DEF DePagina0
<1>4. \A n \in 1..Len(l) : EnPagina0(l[n]) <=> n = 1
  BY <1>2 DEF DePagina0
<1> DEFINE Sigue1(n) == /\ Len(f[n]) = n - 1
                        /\ \A k \in 1..(n - 1) : f[n][k] = l[k + 1]
           P == {0} \cup {n \in 1..Len(l) : Sigue1(n)}
<1>5. ASSUME NEW n \in 1..Len(l), n - 1 \in P PROVE n \in P
  <2>0. n \in Nat /\ n >= 1
    OBVIOUS
  <2>1. f[n] = IF EnPagina0(l[n]) THEN f[n - 1] ELSE Append(f[n - 1], l[n])
    BY <1>1 DEF EsResto
  <2>2. CASE n = 1
    <3>1. f[1] = f[1 - 1]
      BY <2>1, <2>2, <1>4
    <3>2. f[1] = <<>>
      BY <3>1, <1>1 DEF EsResto
    <3> QED
      BY <3>2, <2>2
  <2>3. CASE n # 1
    <3>1. /\ n - 1 \in 1..Len(l) /\ n - 1 \in 0..Len(l) /\ n - 1 # 0
          /\ n - 1 \in Nat /\ (n - 1) - 1 \in Nat /\ ((n - 1) - 1) + 1 = n - 1
      BY <2>0, <2>3, <1>2
    <3> DEFINE g == f[n - 1]
    <3>2. g \in Seq(AllocInt)
      BY <3>1, <1>1 DEF EsResto
    <3>3. Sigue1(n - 1)
      BY <3>1, <1>5
    <3>4. f[n] = Append(g, l[n])
      BY <2>1, <2>3, <1>4
    <3>5. Len(g) = (n - 1) - 1 /\ \A k \in 1..((n - 1) - 1) : g[k] = l[k + 1]
      BY <3>3
    <3> HIDE DEF g, P
    <3>6. Len(Append(g, l[n])) = Len(g) + 1
          /\ Append(g, l[n])[Len(g) + 1] = l[n]
          /\ \A k \in 1..Len(g) : Append(g, l[n])[k] = g[k]
      <4>1. l[n] \in AllocInt
        BY <1>2
      <4> QED
        BY <3>2, <4>1
    <3>7. Len(f[n]) = n - 1
      <4>1. Len(f[n]) = ((n - 1) - 1) + 1
        BY <3>4, <3>5, <3>6
      <4> QED
        BY <3>1, <4>1
    <3>8. ASSUME NEW k \in 1..(n - 1) PROVE f[n][k] = l[k + 1]
      <4>1. CASE k = n - 1
        <5>1. f[n][k] = l[n]
          <6>1. Len(g) + 1 = n - 1
            BY <3>1, <3>5
          <6> QED
            BY <6>1, <4>1, <3>4, <3>6
        <5>2. k + 1 = n
          BY <4>1, <2>0
        <5> QED
          BY <5>1, <5>2
      <4>2. CASE k # n - 1
        <5>1. k \in 1..((n - 1) - 1)
          BY <4>2, <2>0
        <5>2. f[n][k] = g[k]
          BY <5>1, <3>4, <3>5, <3>6
        <5> QED
          BY <5>1, <5>2, <3>5
      <4> QED
        BY <4>1, <4>2
    <3> QED
      BY <3>7, <3>8 DEF P
  <2> QED
    BY <2>2, <2>3
<1>6. 0 \in P
  OBVIOUS
<1>7. Len(l) \in 0..Len(l) /\ Len(l) # 0
  BY <1>2, <1>3
<1> HIDE DEF P
<1>8. Len(l) \in P
  BY <1>2, <1>5, <1>6, <1>7, Induccion
<1>9. Sigue1(Len(l))
  BY <1>7, <1>8 DEF P
<1>10. Quedan(l) = f[Len(l)]
  BY <1>1, QuedanEs
<1> QED
  BY <1>9, <1>10, QuedanTipo

EsCompactado(c, l) ==
  /\ c \in Seq(AllocInt) /\ Len(c) = Len(l) - 1
  /\ \A i \in 1..(Len(l) - 1) : /\ c[i].direccion = l[i + 1].direccion - Bruto(l[1])
                                /\ c[i].tamanio_data = l[i + 1].tamanio_data
                                /\ c[i].isFree = l[i + 1].isFree

LEMMA CompactadosEs ==
  ASSUME NEW l, l \in Seq(AllocInt), DePagina0(l) = {1}, NEW c, c = Compactados(l)
  PROVE  EsCompactado(c, l)
<1> DEFINE q == Quedan(l)
<1>1. Len(l) \in Nat /\ DOMAIN l = 1..Len(l) /\ \A n \in 1..Len(l) : l[n] \in AllocInt
  OBVIOUS
<1>2. 1 \in 1..Len(l)
  BY <1>1 DEF DePagina0
<1>3. /\ q \in Seq(AllocInt) /\ Len(q) = Len(l) - 1
      /\ \A k \in 1..(Len(l) - 1) : q[k] = l[k + 1]
  BY QuedanSinElPrimero
<1>4. Max({1}) = 1
  BY DEF Max
<1>5. Cardinality({1}) = 1
  BY FS_Singleton
<1>6. DOMAIN q = 1..(Len(l) - 1)
  <2> HIDE DEF q
  <2> QED BY <1>3
<1>7. c = [i \in 1..(Len(l) - 1) |-> IF i < 1 THEN q[i] ELSE Bajado(q[i], Bruto(l[1]))]
  BY <1>4, <1>5, <1>6 DEF Compactados
<1>8. \A i \in 1..(Len(l) - 1) : c[i] = Bajado(l[i + 1], Bruto(l[1]))
  <2> HIDE DEF q
  <2> TAKE i \in 1..(Len(l) - 1)
  <2>1. ~(i < 1)
    OBVIOUS
  <2>2. c[i] = IF i < 1 THEN q[i] ELSE Bajado(q[i], Bruto(l[1]))
    BY <1>7
  <2> QED
    BY <2>1, <2>2, <1>3
<1>9. Bruto(l[1]) \in Int
  BY <1>1, <1>2, FinEntero
<1>10. \A i \in 1..(Len(l) - 1) : l[i + 1] \in AllocInt
  <2> TAKE i \in 1..(Len(l) - 1)
  <2>1. i + 1 \in 1..Len(l)
    BY <1>1
  <2> QED
    BY <2>1, <1>1
<1>11. ASSUME NEW i \in 1..(Len(l) - 1)
       PROVE  /\ c[i] \in AllocInt
              /\ c[i].direccion = l[i + 1].direccion - Bruto(l[1])
              /\ c[i].tamanio_data = l[i + 1].tamanio_data
              /\ c[i].isFree = l[i + 1].isFree
  <2>1. c[i] = Bajado(l[i + 1], Bruto(l[1])) /\ l[i + 1] \in AllocInt
    BY <1>8, <1>10
  <2>2. /\ Bajado(l[i + 1], Bruto(l[1])) \in AllocInt
        /\ Bajado(l[i + 1], Bruto(l[1])).direccion = l[i + 1].direccion - Bruto(l[1])
        /\ Bajado(l[i + 1], Bruto(l[1])).tamanio_data = l[i + 1].tamanio_data
        /\ Bajado(l[i + 1], Bruto(l[1])).isFree = l[i + 1].isFree
    <3>1. l[i + 1] \in AllocInt
      BY <2>1
    <3> QED
      BY ONLY <3>1, <1>9, BajadoEs
  <2> QED
    BY ONLY <2>1, <2>2
<1>12. c \in Seq(AllocInt) /\ Len(c) = Len(l) - 1
  <2>1. c = [i \in 1..(Len(l) - 1) |-> c[i]]
    BY <1>7
  <2>2. Len(l) - 1 \in Nat
    BY <1>1, <1>2
  <2> QED
    BY <2>1, <2>2, <1>11
<1> QED
  BY <1>11, <1>12 DEF EsCompactado

(* The page that goes takes one free alloc of at least its size with it,   *)
(* or the whole list: the rest comes down to address 0, still tiled, and   *)
(* ends inside the pages that remain.                                      *)
LEMMA CompactadosSeguidos ==
  ASSUME NEW l, l \in Seq(AllocInt), Seguidos(l), DePagina0(l) = {1},
         NEW c, EsCompactado(c, l), NEW n \in Nat, n > 0, Final(l) <= n * TAM
  PROVE  Seguidos(c) /\ Final(c) <= (n - 1) * TAM /\ Positivos(c)
<1>1. Len(l) \in Nat /\ DOMAIN l = 1..Len(l) /\ \A i \in 1..Len(l) : l[i] \in AllocInt
  OBVIOUS
<1>2. 1 \in 1..Len(l) /\ l # <<>>
  BY <1>1 DEF DePagina0
<1>3. /\ c \in Seq(AllocInt) /\ Len(c) = Len(l) - 1
      /\ \A i \in 1..(Len(l) - 1) : /\ c[i].direccion = l[i + 1].direccion - Bruto(l[1])
                                    /\ c[i].tamanio_data = l[i + 1].tamanio_data
  BY DEF EsCompactado
<1>4. \A i \in 1..(Len(l) - 1) : i + 1 \in 1..Len(l)
  BY <1>1
<1>5. l[1].direccion = 0 /\ Fin(l[1]) = Bruto(l[1]) /\ Bruto(l[1]) \in Int /\ Bruto(l[1]) \in Nat
  <2>1. l[1].direccion = 0
    BY <1>2 DEF Seguidos
  <2>2. Fin(l[1]) = l[1].direccion + Bruto(l[1]) /\ Bruto(l[1]) \in Nat
    BY <1>1, <1>2, FinEntero
  <2> QED
    BY <2>1, <2>2
<1>6. ASSUME NEW i \in 1..(Len(l) - 1)
      PROVE  Fin(c[i]) = Fin(l[i + 1]) - Bruto(l[1]) /\ Fin(l[i + 1]) \in Int
  <2>1. c[i].direccion = l[i + 1].direccion - Bruto(l[1]) /\ c[i].tamanio_data = l[i + 1].tamanio_data
    BY <1>3
  <2>2. l[i + 1] \in AllocInt
    BY <1>1, <1>4
  <2>3. l[i + 1].direccion \in Int /\ l[i + 1].tamanio_data \in Nat
    BY <2>2, FinEntero
  <2>4. /\ Fin(c[i]) = (l[i + 1].direccion - Bruto(l[1])) + (l[i + 1].tamanio_data + 9)
        /\ Fin(l[i + 1]) = l[i + 1].direccion + (l[i + 1].tamanio_data + 9)
    BY <2>1 DEF Fin, Bruto, META
  <2> QED
    BY ONLY <2>3, <2>4, <1>5
<1>7. ASSUME NEW i \in 1..(Len(c) - 1) PROVE Fin(c[i]) = c[i + 1].direccion
  <2>1. /\ i \in 1..(Len(l) - 1) /\ i + 1 \in 1..(Len(l) - 1)
        /\ Len(l) \in Nat
    BY <1>1, <1>3
  <2>2. Fin(c[i]) = Fin(l[i + 1]) - Bruto(l[1])
    BY <2>1, <1>6
  <2>3. c[i + 1].direccion = l[(i + 1) + 1].direccion - Bruto(l[1])
    BY <2>1, <1>3
  <2>4. Fin(l[i + 1]) = l[(i + 1) + 1].direccion
    BY <2>1 DEF Seguidos
  <2> QED
    BY <2>2, <2>3, <2>4
<1>8. ASSUME c # <<>> PROVE /\ 1 \in 1..(Len(l) - 1) /\ Len(c) \in 1..(Len(l) - 1)
                             /\ Len(c) + 1 = Len(l)
  <2>1. Len(c) \in Nat /\ Len(c) # 0
    BY <1>3, <1>8
  <2> QED
    BY <2>1, <1>1, <1>3
<1>9. ASSUME c # <<>> PROVE c[1].direccion = 0
  <2>1. 1 \in 1..(Len(l) - 1)
    BY <1>8, <1>9
  <2>2. Fin(l[1]) = l[1 + 1].direccion
    BY <2>1 DEF Seguidos
  <2>3. c[1].direccion = l[1 + 1].direccion - Bruto(l[1])
    BY <2>1, <1>3
  <2> QED
    BY <2>2, <2>3, <1>5
<1>10. Seguidos(c)
  BY <1>7, <1>9 DEF Seguidos
<1>11. Final(c) <= (n - 1) * TAM
  <2>0. TAM \in Nat /\ n * TAM \in Nat /\ (n - 1) * TAM = n * TAM - TAM /\ (n - 1) * TAM \in Nat
    BY AllocsAssumption
  <2>1. CASE c = <<>>
    BY <2>0, <2>1 DEF Final
  <2>2. CASE c # <<>>
    <3>1. 1 \in 1..(Len(l) - 1) /\ Len(c) \in 1..(Len(l) - 1) /\ Len(c) + 1 = Len(l)
      BY <2>2, <1>8
    <3>2. Final(c) = Final(l) - Bruto(l[1])
      BY <2>2, <3>1, <1>2, <1>6 DEF Final
    <3>3. Bruto(l[1]) >= TAM
      <4>1. 1 + 1 \in DOMAIN l /\ 1 + 1 # 1
        BY <3>1, <1>1, <1>4
      <4>2. ~(l[1 + 1].direccion < TAM)
        BY <4>1 DEF DePagina0, EnPagina0
      <4>3. Fin(l[1]) = l[1 + 1].direccion
        BY <3>1 DEF Seguidos
      <4> QED
        BY <4>2, <4>3, <1>5, <2>0
    <3>4. Final(l) \in Int
      BY FinalEntero
    <3> QED
      BY ONLY <3>2, <3>3, <3>4, <2>0, <1>5, Final(l) <= n * TAM
  <2> QED
    BY <2>1, <2>2
<1>12. Positivos(c)
  <2>1. DOMAIN c = 1..Len(c)
    BY <1>3
  <2>2. c \in Seq(AllocInt)
    BY <1>3
  <2> QED
    BY <2>1, <2>2, <1>10, Ordenados DEF Positivos
<1> QED
  BY <1>10, <1>11, <1>12

LEMMA CompactadosSeparados ==
  ASSUME NEW l, l \in Seq(AllocInt), NEW c, EsCompactado(c, l), Separados(l)
  PROVE  Separados(c)
<1>1. Len(l) \in Nat /\ Len(c) = Len(l) - 1
  BY DEF EsCompactado
<1>2. \A i \in 1..(Len(l) - 1) : c[i].isFree = l[i + 1].isFree
  BY DEF EsCompactado
<1>3. ASSUME NEW i \in 1..(Len(c) - 1) PROVE ~(c[i].isFree /\ c[i + 1].isFree)
  <2>1. i \in 1..(Len(l) - 1) /\ i + 1 \in 1..(Len(l) - 1)
    BY <1>1
  <2>2. ~(l[i + 1].isFree /\ l[(i + 1) + 1].isFree)
    BY <2>1 DEF Separados
  <2> QED
    BY <2>1, <2>2, <1>2
<1> QED
  BY <1>3 DEF Separados

-----------------------------------------------------------------------------
(* Pages of bytes                                                          *)

LEMMA Division ==
  ASSUME NEW x \in Int, NEW b \in Nat, b > 0
  PROVE  /\ x \div b \in Int /\ x % b \in Nat /\ x % b < b
         /\ x = b * (x \div b) + (x % b)
  OBVIOUS

LEMMA Cociente ==
  ASSUME NEW b \in Nat, b > 0, NEW p \in Int, NEW q \in Int, p * b < (q + 1) * b
  PROVE  p <= q
<1> SUFFICES ASSUME p > q PROVE FALSE
  OBVIOUS
<1>1. p - (q + 1) \in Nat
  OBVIOUS
<1>2. (p - (q + 1)) * b >= 0
  <2>1. \A u, v \in Nat : u * v >= 0
    OBVIOUS
  <2> QED
    BY <1>1, <2>1
<1>3. (p - (q + 1)) * b = p * b - (q + 1) * b
  OBVIOUS
<1>4. p * b \in Int /\ (q + 1) * b \in Int
  OBVIOUS
<1> QED
  BY ONLY <1>2, <1>3, <1>4, p * b < (q + 1) * b

(* The pages asked for are the ones that fit what is missing, no less and  *)
(* not one more.                                                           *)
LEMMA CantidadJusta ==
  ASSUME NEW libre \in Int, NEW t \in Nat, libre < t + META
  PROVE  LET n == Cantidad(libre, t) IN
         /\ n \in Nat /\ n >= 1
         /\ n * TAM >= t + META - libre /\ n * TAM < t + META - libre + TAM
<1> DEFINE x == t + META - libre
           q == x \div TAM
           r == x % TAM
           n == Cantidad(libre, t)
<1>1. x \in Int /\ x > 0
  BY DEF META
<1>2. TAM \in Nat /\ TAM > 0
  BY AllocsAssumption
<1> HIDE DEF x
<1>3. q \in Int /\ r \in Nat /\ r < TAM /\ x = TAM * q + r
  BY <1>1, <1>2, Division
<1>4. n = IF r = 0 THEN q ELSE q + 1
  BY DEF Cantidad, x
<1> HIDE DEF q, r, n
<1>5. q >= 0
  <2> SUFFICES ASSUME q < 0 PROVE FALSE
    BY <1>3
  <2>1. -1 - q \in Nat
    BY <1>3
  <2>2. \A u, v \in Nat : u * v >= 0
    OBVIOUS
  <2>3. TAM * (-1 - q) >= 0
    BY <1>2, <2>1, <2>2
  <2>4. TAM * (-1 - q) = -TAM - TAM * q
    BY <1>2, <1>3
  <2>5. TAM * q \in Int
    BY <1>2, <1>3
  <2> QED
    BY ONLY <1>1, <1>2, <1>3, <2>3, <2>4, <2>5
<1>6. TAM * q \in Int /\ q * TAM = TAM * q /\ (q + 1) * TAM = TAM * q + TAM
  BY <1>2, <1>3
<1>7. CASE r = 0
  <2>1. n = q /\ x = TAM * q
    BY <1>3, <1>4, <1>6, <1>7
  <2>2. q # 0
    BY <1>1, <1>2, <2>1
  <2>3. n \in Nat /\ n >= 1
    BY <1>3, <1>5, <2>1, <2>2
  <2>4. n * TAM >= x /\ n * TAM < x + TAM
    BY <1>1, <1>2, <1>6, <2>1
  <2> QED
    BY <2>3, <2>4 DEF n, x
<1>8. CASE r # 0
  <2>1. n = q + 1 /\ r > 0
    BY <1>3, <1>4, <1>8
  <2>2. n \in Nat /\ n >= 1
    BY <1>3, <1>5, <2>1
  <2>3. n * TAM = TAM * q + TAM
    BY <1>6, <2>1
  <2>4. n * TAM >= x /\ n * TAM < x + TAM
    BY ONLY <2>3, <2>1, <1>3, <1>2, <1>6
  <2> QED
    BY <2>2, <2>4 DEF n, x
<1> QED
  BY <1>7, <1>8

LEMMA EnCociente ==
  ASSUME NEW x \in Int, NEW b \in Nat, b > 0, NEW q \in Int
  PROVE  (x \div b = q) <=> (q * b <= x /\ x < q * b + b)
<1> DEFINE p == x \div b
           r == x % b
<1>1. p \in Int /\ r \in Nat /\ r < b /\ x = b * p + r
  BY Division
<1> HIDE DEF p, r
<1>2. b * p = p * b /\ p * b \in Int /\ q * b \in Int /\ r \in Int
  BY <1>1
<1>3. ASSUME p = q PROVE q * b <= x /\ x < q * b + b
  <2>1. q * b = p * b
    BY <1>3
  <2> QED
    BY ONLY <2>1, <1>1, <1>2
<1>4. ASSUME q * b <= x, x < q * b + b PROVE p = q
  <2>1. (q + 1) * b = q * b + b /\ (p + 1) * b = p * b + b
    BY <1>1
  <2>2. p * b < (q + 1) * b
    BY ONLY <1>1, <1>2, <1>4, <2>1, b \in Nat, x \in Int
  <2>3. q * b < (p + 1) * b
    BY ONLY <1>1, <1>2, <1>4, <2>1, b \in Nat, x \in Int
  <2>4. p <= q
    BY <1>1, <2>2, Cociente
  <2>5. q <= p
    BY <1>1, <2>3, Cociente
  <2> QED
    BY <1>1, <2>4, <2>5
<1> QED
  BY <1>3, <1>4 DEF p

(* A copy that touches one page or two takes every byte from its place.    *)
LEMMA FuenteFiel ==
  ASSUME NEW d \in Int, NEW t \in Nat, PaginaDe(d, t - 1) <= PaginaDe(d, 0) + 1,
         NEW i \in 0..(t - 1)
  PROVE  Fuente(d, t, i) = i
<1> DEFINE p0 == PaginaDe(d, 0)
           b == (p0 + 1) * TAM - d
<1>1. TAM \in Nat /\ TAM > 0
  BY AllocsAssumption
<1>2. p0 \in Int
  BY <1>1, Division DEF PaginaDe
<1>3. p0 * TAM <= d /\ d < p0 * TAM + TAM
  <2>1. d \div TAM = p0
    <3>1. d + 0 = d
      OBVIOUS
    <3> QED
      BY <3>1 DEF PaginaDe
  <2> HIDE DEF p0
  <2> QED
    BY <1>1, <1>2, <2>1, EnCociente
<1> HIDE DEF p0
<1>4. p0 * TAM \in Int /\ (p0 + 1) * TAM = p0 * TAM + TAM /\ (p0 - 1) * TAM = p0 * TAM - TAM
  BY <1>1, <1>2
<1>5. b \in Nat /\ b >= 1 /\ b = p0 * TAM + TAM - d
  BY <1>1, <1>3, <1>4
<1> HIDE DEF b
<1>6. ASSUME NEW k \in 0..(t - 1)
      PROVE  /\ PaginaDe(d, k) = p0 <=> k < b
             /\ PaginaDe(d, k) = p0 + 1 <=> k >= b
             /\ PaginaDe(d, k) # p0 - 1
  <2>1. d + k \in Int
    OBVIOUS
  <2>2. PaginaDe(d, k) = p0 <=> p0 * TAM <= d + k /\ d + k < p0 * TAM + TAM
    BY <1>1, <1>2, <2>1, EnCociente DEF PaginaDe
  <2>3. PaginaDe(d, k) = p0 <=> k < b
    <3>1. k \in Nat
      OBVIOUS
    <3>2. (p0 * TAM <= d + k /\ d + k < p0 * TAM + TAM) <=> k < b
      <4> DEFINE z == p0 * TAM
      <4>1. z \in Int /\ z <= d /\ b = z + TAM - d
        BY <1>3, <1>4, <1>5
      <4> HIDE DEF z
      <4>2. (z <= d + k /\ d + k < z + TAM) <=> k < b
        BY ONLY <3>1, <4>1, <1>1, d \in Int
      <4> QED
        BY <4>2 DEF z
    <3> QED
      BY ONLY <2>2, <3>2, Zenon
  <2>4. PaginaDe(d, k) <= p0 + 1
    <3> DEFINE u == PaginaDe(d, k)
               v == PaginaDe(d, t - 1)
    <3>1. t - 1 \in Int /\ d + (t - 1) \in Int /\ d + k <= d + (t - 1)
      OBVIOUS
    <3>2. u \in Int /\ v \in Int
      BY <1>1, <2>1, <3>1, Division DEF PaginaDe
    <3>3. u * TAM <= d + k /\ d + (t - 1) < v * TAM + TAM
      <4>1. (d + k) \div TAM = u /\ (d + (t - 1)) \div TAM = v
        BY DEF PaginaDe
      <4> HIDE DEF u, v
      <4>2. u * TAM <= d + k
        BY <1>1, <2>1, <3>2, <4>1, EnCociente
      <4>3. d + (t - 1) < v * TAM + TAM
        BY <1>1, <3>1, <3>2, <4>1, EnCociente
      <4> QED
        BY <4>2, <4>3
    <3>4. v <= p0 + 1
      BY DEF p0
    <3> HIDE DEF u, v
    <3>5. (v + 1) * TAM = v * TAM + TAM /\ u * TAM \in Int /\ v * TAM \in Int
      BY <1>1, <3>2
    <3>6. u * TAM < (v + 1) * TAM
      BY ONLY <3>3, <3>5, <3>1, <2>1, <1>1
    <3>7. u <= v
      BY <1>1, <3>2, <3>6, Cociente
    <3> QED
      BY ONLY <3>2, <3>4, <3>7, <1>2 DEF u
  <2>5. PaginaDe(d, k) >= p0
    <3> DEFINE u == PaginaDe(d, k)
    <3>1. u \in Int
      BY <1>1, <2>1, Division DEF PaginaDe
    <3>2. d + k < u * TAM + TAM
      <4>1. (d + k) \div TAM = u
        BY DEF PaginaDe
      <4> HIDE DEF u
      <4> QED
        BY <1>1, <2>1, <3>1, <4>1, EnCociente
    <3> HIDE DEF u
    <3>3. (u + 1) * TAM = u * TAM + TAM /\ u * TAM \in Int
      BY <1>1, <3>1
    <3>4. p0 * TAM < (u + 1) * TAM
      <4>1. k \in Nat
        OBVIOUS
      <4> QED
        BY ONLY <3>2, <3>3, <4>1, <1>1, <1>3, <1>4, d \in Int
    <3>5. p0 <= u
      BY <1>1, <1>2, <3>1, <3>4, Cociente
    <3> QED
      BY <3>1, <3>5, <1>2 DEF u
  <2>6. PaginaDe(d, k) \in Int
    BY <1>1, <2>1, Division DEF PaginaDe
  <2>7. PaginaDe(d, k) = p0 \/ PaginaDe(d, k) = p0 + 1
    BY ONLY <2>4, <2>5, <2>6, <1>2
  <2>8. k \in Nat
    OBVIOUS
  <2> QED
    BY ONLY <2>3, <2>7, <2>8, <1>2, <1>5
<1>7. CASE i < b
  <2>1. PaginaDe(d, i) = p0
    BY <1>6, <1>7
  <2>2. Trozo(d, t, p0 - 1) = {}
    BY <1>6 DEF Trozo
  <2>3. Min(Trozo(d, t, p0)) = 0
    <3>1. 0 \in Trozo(d, t, p0) /\ \A k \in Trozo(d, t, p0) : 0 <= k
      <4>1. 0 \in 0..(t - 1)
        OBVIOUS
      <4>2. PaginaDe(d, 0) = p0
        BY DEF p0
      <4> QED
        BY <4>1, <4>2 DEF Trozo
    <3>2. Trozo(d, t, p0) \subseteq 0..(t - 1)
      BY DEF Trozo
    <3>3. \A k \in Trozo(d, t, p0) : k <= 0 => k = 0
      BY <3>2
    <3>4. PICK x : x = Min(Trozo(d, t, p0))
      OBVIOUS
    <3>5. x \in Trozo(d, t, p0) /\ \A k \in Trozo(d, t, p0) : x <= k
      BY <3>1, <3>4 DEF Min
    <3> QED
      BY <3>1, <3>3, <3>4, <3>5
  <2>4. SizeAnterior(d, t, p0) = 0
    BY <2>2, FS_EmptySet DEF SizeAnterior
  <2> QED
    BY <2>1, <2>3, <2>4 DEF Fuente
<1>8. CASE i >= b
  <2>0. i \in Nat /\ b <= t - 1 /\ b \in 0..(t - 1) /\ (p0 + 1) - 1 = p0
    BY <1>2, <1>5, <1>8
  <2>1. PaginaDe(d, i) = p0 + 1
    BY <1>6, <1>8
  <2>2. Trozo(d, t, p0) = 0..(b - 1)
    <3>1. ASSUME NEW k \in 0..(t - 1) PROVE PaginaDe(d, k) = p0 <=> k \in 0..(b - 1)
      <4>1. k \in Nat /\ (k < b <=> k \in 0..(b - 1))
        BY <1>5
      <4> QED
        BY <4>1, <1>6
    <3>2. 0..(b - 1) \subseteq 0..(t - 1)
      BY <2>0, <1>5
    <3> QED
      BY <3>1, <3>2 DEF Trozo
  <2>3. SizeAnterior(d, t, p0 + 1) = b
    <3>1. Cardinality(0..(b - 1)) = b
      <4>1. 0 \in Int /\ b - 1 \in Int
        BY <1>5
      <4>2. Cardinality(0..(b - 1)) = IF 0 > b - 1 THEN 0 ELSE (b - 1) - 0 + 1
        BY ONLY <4>1, FS_Interval
      <4> QED
        BY <4>2, <1>5
    <3> QED
      BY <2>0, <2>2, <3>1 DEF SizeAnterior
  <2>4. Min(Trozo(d, t, p0 + 1)) = b
    <3>1. \A k \in 0..(t - 1) : k \in Trozo(d, t, p0 + 1) <=> k >= b
      BY <1>6 DEF Trozo
    <3>2. Trozo(d, t, p0 + 1) \subseteq 0..(t - 1)
      BY DEF Trozo
    <3>3. b \in Trozo(d, t, p0 + 1) /\ \A k \in Trozo(d, t, p0 + 1) : b <= k /\ k \in Int
      BY <2>0, <3>1, <3>2, <1>5
    <3>4. PICK x : x = Min(Trozo(d, t, p0 + 1))
      OBVIOUS
    <3>5. x \in Trozo(d, t, p0 + 1) /\ \A k \in Trozo(d, t, p0 + 1) : x <= k
      BY <3>3, <3>4 DEF Min
    <3>6. x <= b /\ b <= x /\ x \in Int
      BY <3>3, <3>5
    <3> QED
      BY ONLY <3>4, <3>6, <1>5
  <2> QED
    BY ONLY <2>0, <2>1, <2>3, <2>4, <1>5 DEF Fuente
<1>9. i < b \/ i >= b
  BY <1>5
<1> QED
  BY <1>7, <1>8, <1>9

-----------------------------------------------------------------------------
(* Searches                                                                *)

LEMMA ConteniendoEs ==
  ASSUME NEW l, l \in Seq(AllocInt), NEW d
  PROVE  /\ Conteniendo(l, d) # 0 => /\ Conteniendo(l, d) \in 1..Len(l)
                                     /\ Contiene(l[Conteniendo(l, d)], d)
         /\ (\E i \in 1..Len(l) : Contiene(l[i], d)) => Conteniendo(l, d) # 0
<1> DEFINE I == {i \in 1..Len(l) : Contiene(l[i], d)}
<1>1. Conteniendo(l, d) = IF I # {} THEN Min(I) ELSE 0
  BY DEF Conteniendo, SelectInSeq
<1>2. Len(l) \in Nat /\ I \subseteq 1..Len(l)
  OBVIOUS
<1>3. \A i \in I : Contiene(l[i], d)
  OBVIOUS
<1>4. (\E i \in 1..Len(l) : Contiene(l[i], d)) => I # {}
  OBVIOUS
<1> HIDE DEF I
<1>5. CASE I = {}
  BY <1>1, <1>4, <1>5
<1>6. CASE I # {}
  <2>1. Min(I) \in I
    BY <1>2, <1>6, MenorDeUnaBusqueda
  <2>2. Min(I) \in 1..Len(l)
    BY <2>1, <1>2
  <2>3. Contiene(l[Min(I)], d)
    BY <2>1, <1>3
  <2>4. Min(I) # 0
    BY <2>2
  <2>5. Conteniendo(l, d) = Min(I)
    BY <1>1, <1>6
  <2> QED
    BY <2>2, <2>3, <2>4, <2>5
<1> QED
  BY <1>5, <1>6

LEMMA LibreParaEs ==
  ASSUME NEW t, allocs \in Seq(AllocInt), LibrePara(t) # 0
  PROVE  LET k == LibrePara(t) IN
         k \in 1..Len(allocs) /\ allocs[k].isFree /\ allocs[k].tamanio_data >= t
<1> DEFINE I == {i \in 1..Len(allocs) : allocs[i].isFree /\ allocs[i].tamanio_data >= t}
<1>1. LibrePara(t) = IF I # {} THEN Min(I) ELSE 0
  BY DEF LibrePara, SelectInSeq
<1>2. Len(allocs) \in Nat /\ I \subseteq 1..Len(allocs)
  OBVIOUS
<1>3. \A i \in I : allocs[i].isFree /\ allocs[i].tamanio_data >= t
  OBVIOUS
<1> HIDE DEF I
<1>5. Min(I) \in I
  BY <1>1, <1>2, MenorDeUnaBusqueda
<1> QED
  BY <1>1, <1>2, <1>3, <1>5

LEMMA EmpezandoEs ==
  ASSUME NEW d, allocs \in Seq(AllocInt), Empezando(d) # 0
  PROVE  Empezando(d) \in 1..Len(allocs)
<1> DEFINE I == {i \in 1..Len(allocs) : Dato(allocs[i]) = d}
<1>1. Empezando(d) = IF I # {} THEN Min(I) ELSE 0
  BY DEF Empezando, SelectInSeq
<1>2. Len(allocs) \in Nat /\ I \subseteq 1..Len(allocs)
  OBVIOUS
<1> HIDE DEF I
<1>5. Min(I) \in I
  BY <1>1, <1>2, MenorDeUnaBusqueda
<1> QED
  BY <1>1, <1>2, <1>5

LEMMA Alrededor ==
  ASSUME NEW l, l \in Seq(AllocInt), NEW k \in 1..Len(l)
  PROVE  /\ HastaIzq(l, k) \in 1..Len(l) /\ HastaDer(l, k) \in 1..Len(l)
         /\ HastaIzq(l, k) <= HastaDer(l, k)
<1>1. Len(l) \in Nat /\ k \in Nat /\ 1 <= k /\ k <= Len(l)
  OBVIOUS
<1>2. HastaIzq(l, k) = k \/ (HastaIzq(l, k) = k - 1 /\ k > 1)
  BY DEF HastaIzq
<1>3. HastaDer(l, k) = k \/ (HastaDer(l, k) = k + 1 /\ k < Len(l))
  BY DEF HastaDer
<1>4. HastaIzq(l, k) \in 1..Len(l) /\ HastaIzq(l, k) <= k
  BY <1>1, <1>2
<1>5. HastaDer(l, k) \in 1..Len(l) /\ k <= HastaDer(l, k)
  BY <1>1, <1>3
<1> QED
  BY <1>1, <1>4, <1>5

LEMMA Escritos ==
  ASSUME NEW l, NEW ks, NEW n
  PROVE  /\ Persistidos(l, ks, n) \in {"indefinido", "vivo", "caido"}
         /\ (\A k \in ks : ConPagina(l, k, n)) => Persistidos(l, ks, n) # "caido"
  BY DEF Persistidos

(* What a tiled list and its pages satisfy.                                *)
EnOrden(l, n) == Seguidos(l) /\ Final(l) <= n * TAM /\ Separados(l)

LEMMA OrdenEs ==
  ASSUME allocs \in Seq(AllocInt)
  PROVE  Embaldosado /\ LibresSeparados <=> (~desordenado => EnOrden(allocs, paginas))
  BY BaldosasEs DEF Embaldosado, LibresSeparados, EnOrden, Baldosas, Separados

LEMMA ConPaginaEnOrden ==
  ASSUME NEW l, l \in Seq(AllocInt), NEW n \in Nat, Seguidos(l), Final(l) <= n * TAM,
         NEW k \in 1..Len(l)
  PROVE  ConPagina(l, k, n)
<1>1. Fin(l[k]) <= Final(l)
  BY HastaElFinal
<1>2. Final(l) \in Int
  BY FinalEntero
<1>3. l[k] \in AllocInt
  OBVIOUS
<1>4. /\ l[k].direccion \in Int /\ l[k].tamanio_data \in Nat
      /\ Fin(l[k]) = l[k].direccion + Bruto(l[k]) /\ Bruto(l[k]) = l[k].tamanio_data + 9
      /\ META = 9
  BY <1>3, FinEntero
<1>5. n * TAM \in Int
  BY AllocsAssumption
<1>6. l[k].direccion + META <= n * TAM
  BY ONLY <1>1, <1>2, <1>4, <1>5, Final(l) <= n * TAM
<1> QED
  BY <1>6 DEF ConPagina

-----------------------------------------------------------------------------
(* The inductive invariant                                                 *)

IInv == TypeOK /\ Embaldosado /\ LibresSeparados

LEMMA TiposDeAllocs ==
  ASSUME TypeOK
  PROVE  /\ allocs \in Seq(AllocInt) /\ paginas \in 0..MaxPaginas /\ paginas \in Nat
         /\ desordenado \in BOOLEAN /\ existe \in BOOLEAN
         /\ estado = "vivo" => Positivos(allocs)
  BY AllocsAssumption DEF TypeOK, AllocInt, Positivos

LEMMA OrdenTras ==
  ASSUME allocs' \in Seq(AllocInt), desordenado' \in BOOLEAN,
         ~desordenado' => EnOrden(allocs', paginas')
  PROVE  Embaldosado' /\ LibresSeparados'
<1>1. PICK l, n, b : l = allocs' /\ n = paginas' /\ b = desordenado'
  OBVIOUS
<1>2. l \in Seq(AllocInt)
  BY <1>1
<1>3. b \/ (Baldosas(l, n) /\ Separados(l))
  <2>1. b \/ EnOrden(l, n)
    BY <1>1
  <2> QED
    BY <2>1, <1>2, BaldosasEs DEF EnOrden
<1> QED
  BY <1>1, <1>3 DEF Embaldosado, LibresSeparados, Baldosas, Separados

(* An answered allocation, of an alloc that has bytes.                     *)
LEMMA AsignadoTipos ==
  ASSUME TypeOK, existe', desordenado' \in BOOLEAN,
         NEW l, l \in Seq(AllocInt), Positivos(l), NEW ks, NEW n, n \in 0..MaxPaginas,
         NEW d, d \in Nat, Asignado(l, ks, n, d)
  PROVE  TypeOK'
<1>1. allocs' = l /\ paginas' = n /\ colgante' = colgante /\ respuesta' = Respuesta("EXITO", d)
  BY DEF Asignado
<1>2. \E m : estado' = Persistidos(l, m, n)
  BY DEF Asignado
<1>3. estado' \in Estados /\ estado' # "desbordado"
  BY <1>2, Escritos DEF Estados
<1>4. respuesta' \in [status : Status, direccion : Nat]
  BY <1>1 DEF Respuesta, Status
<1>5. colgante' \in BOOLEAN /\ existe' \in BOOLEAN
  BY <1>1 DEF TypeOK
<1> QED
  BY <1>1, <1>3, <1>4, <1>5 DEF TypeOK, AllocInt, Positivos

LEMMA AsignadoSinCaer ==
  ASSUME NEW l, l \in Seq(AllocInt), NEW ks, ks \subseteq 1..Len(l), NEW n, n \in Nat,
         Seguidos(l), Final(l) <= n * TAM,
         NEW d, Asignado(l, ks, n, d), NEW k \in 1..Len(l), Contiene(l[k], d)
  PROVE  estado' # "caido"
<1>1. Conteniendo(l, d) \in 1..Len(l)
  BY ConteniendoEs
<1>2. \A i \in 1..Len(l) : ConPagina(l, i, n)
  BY ConPaginaEnOrden
<1>3. \A i \in ks \union {Conteniendo(l, d)} : ConPagina(l, i, n)
  BY <1>1, <1>2
<1>4. estado' = Persistidos(l, ks \union {Conteniendo(l, d)}, n)
  BY DEF Asignado
<1> QED
  BY <1>3, <1>4, Escritos

LEMMA ContieneSuDato ==
  ASSUME NEW a \in AllocInt, a.tamanio_data > 0 PROVE Contiene(a, Dato(a))
<1>1. /\ Fin(a) = Dato(a) + a.tamanio_data /\ Dato(a) \in Int /\ a.tamanio_data \in Nat
  BY FinEntero
<1> QED
  BY ONLY <1>1, a.tamanio_data > 0 DEF Contiene

LEMMA FinalPositivo ==
  ASSUME NEW l, l \in Seq(AllocInt), Positivos(l) PROVE Final(l) \in Nat
<1>1. CASE l = <<>>
  BY <1>1 DEF Final
<1>2. CASE l # <<>>
  <2>1. Len(l) \in 1..Len(l) /\ DOMAIN l = 1..Len(l)
    BY <1>2
  <2>2. l[Len(l)] \in AllocInt /\ l[Len(l)].direccion >= 0
    BY <2>1 DEF Positivos
  <2>3. /\ Fin(l[Len(l)]) = l[Len(l)].direccion + Bruto(l[Len(l)])
        /\ Bruto(l[Len(l)]) \in Nat /\ l[Len(l)].direccion \in Int
    BY <2>2, FinEntero
  <2>4. Fin(l[Len(l)]) \in Nat
    BY ONLY <2>2, <2>3
  <2> QED
    BY <1>2, <2>4 DEF Final
<1> QED
  BY <1>1, <1>2

LEMMA SeparadosAgrega ==
  ASSUME NEW l, l \in Seq(AllocInt), NEW a \in AllocInt, ~a.isFree, Separados(l),
         NEW m, m = Append(l, a)
  PROVE  Separados(m)
<1>1. /\ Len(l) \in Nat /\ Len(m) = Len(l) + 1 /\ m[Len(l) + 1] = a
      /\ \A i \in 1..Len(l) : m[i] = l[i]
  OBVIOUS
<1>2. ASSUME NEW i \in 1..(Len(m) - 1) PROVE ~(m[i].isFree /\ m[i + 1].isFree)
  <2>1. CASE i = Len(l)
    BY <2>1, <1>1
  <2>2. CASE i # Len(l)
    <3>1. i \in 1..(Len(l) - 1) /\ i \in 1..Len(l) /\ i + 1 \in 1..Len(l)
      BY <2>2, <1>1
    <3> QED
      BY <3>1, <1>1 DEF Separados
  <2> QED
    BY <2>1, <2>2
<1> QED
  BY <1>2 DEF Separados

LEMMA PositivosAgrega ==
  ASSUME NEW l, l \in Seq(AllocInt), NEW a \in AllocInt, a.direccion >= 0, Positivos(l),
         NEW m, m = Append(l, a)
  PROVE  Positivos(m)
<1>1. /\ Len(l) \in Nat /\ Len(m) = Len(l) + 1 /\ m[Len(l) + 1] = a
      /\ DOMAIN m = 1..(Len(l) + 1) /\ \A i \in 1..Len(l) : m[i] = l[i]
  OBVIOUS
<1>2. ASSUME NEW i \in 1..(Len(l) + 1) PROVE m[i].direccion >= 0
  <2>1. CASE i = Len(l) + 1
    BY <2>1, <1>1
  <2>2. CASE i # Len(l) + 1
    <3>1. i \in 1..Len(l)
      BY <2>2, <1>1
    <3> QED
      BY <3>1, <1>1 DEF Positivos
  <2> QED
    BY <2>1, <2>2
<1> QED
  BY <1>1, <1>2 DEF Positivos

(* An alloc after the last, where the pages have room for it.              *)
LEMMA EnEspacioPaso ==
  ASSUME IInv, Sigue, existe', NEW t \in Tamanios, NEW n, n \in 0..MaxPaginas,
         EnEspacio(n, t), ~desordenado => Ocupado(allocs) + t + META <= n * TAM
  PROVE  IInv' /\ CabeceraEnPaginas'
<1>0. t \in Nat /\ n \in Nat /\ META = 9
  BY AllocsAssumption DEF META
<1>1. /\ TypeOK /\ allocs \in Seq(AllocInt) /\ Positivos(allocs) /\ desordenado \in BOOLEAN
      /\ ~desordenado => EnOrden(allocs, paginas)
  BY TiposDeAllocs, OrdenEs DEF IInv, Sigue
<1> DEFINE f == Final(allocs)
           a == Alloc(f, t, FALSE)
           m == Append(allocs, a)
<1>2. f \in Nat
  BY <1>1, FinalPositivo
<1>3. AlFinal = f
  BY DEF AlFinal, Final, Last
<1>4. Asignado(m, {}, n, f + META) /\ desordenado' = desordenado
  BY <1>3 DEF EnEspacio
<1>5. /\ a \in AllocInt /\ ~a.isFree /\ a.direccion = f /\ a.direccion >= 0
      /\ a.tamanio_data = t
  <2> HIDE DEF f
  <2> QED BY <1>0, <1>2 DEF Alloc, AllocInt
<1> HIDE DEF a, f
<1>6. /\ m \in Seq(AllocInt) /\ Len(m) \in 1..Len(m) /\ m[Len(m)] = a
  BY <1>1, <1>5
<1>7. Positivos(m)
  BY <1>1, <1>5, PositivosAgrega
<1>8. allocs' = m /\ paginas' = n
  BY <1>4 DEF Asignado
<1>9. ASSUME ~desordenado PROVE EnOrden(m, n)
  <2>1. Seguidos(allocs) /\ Separados(allocs)
    BY <1>1, <1>9 DEF EnOrden
  <2>2. Seguidos(m) /\ Final(m) = Final(allocs) + t + META
    <3>1. m = Append(allocs, Alloc(Final(allocs), t, FALSE))
      BY DEF a, f
    <3> HIDE DEF m
    <3> QED
      BY <1>0, <1>1, <2>1, <3>1, SeguidosAgrega
  <2>3. Separados(m)
    BY <1>1, <1>5, <2>1, SeparadosAgrega
  <2>4. Ocupado(allocs) = Final(allocs)
    BY <1>1, <2>1, Telescopio
  <2>5. Final(m) <= n * TAM
    BY <1>9, <2>2, <2>4
  <2> HIDE DEF m
  <2> QED
    BY <2>2, <2>3, <2>5 DEF EnOrden
<1> HIDE DEF m
<1>10. TypeOK'
  <2>1. f + META \in Nat
    BY <1>0, <1>2
  <2>2. desordenado' \in BOOLEAN
    BY <1>1, <1>4
  <2> QED
    BY <1>1, <1>4, <1>6, <1>7, <2>1, <2>2, AsignadoTipos
<1>11. Embaldosado' /\ LibresSeparados'
  BY <1>1, <1>4, <1>6, <1>8, <1>9, OrdenTras
<1>12. ASSUME ~desordenado, 0 \notin Tamanios PROVE estado' # "caido"
  <2>1. Seguidos(m) /\ Final(m) <= n * TAM
    BY <1>9, <1>12 DEF EnOrden
  <2>2. t > 0
    BY <1>0, <1>12
  <2>3. Contiene(m[Len(m)], f + META)
    <3>1. Contiene(a, Dato(a))
      BY <1>5, <2>2, ContieneSuDato
    <3> QED
      BY <3>1, <1>5, <1>6 DEF Dato
  <2>4. {} \subseteq 1..Len(m)
    OBVIOUS
  <2> QED
    BY <1>0, <1>4, <1>6, <2>1, <2>3, <2>4, AsignadoSinCaer
<1> QED
  BY <1>4, <1>10, <1>11, <1>12 DEF IInv, CabeceraEnPaginas

EsEnUso(m, l) ==
  /\ m \in Seq(AllocInt) /\ Len(m) = Len(l)
  /\ \A i \in 1..Len(l) : /\ m[i].direccion = l[i].direccion
                          /\ m[i].tamanio_data = l[i].tamanio_data
  /\ Positivos(l) => Positivos(m)
  /\ Separados(l) => Separados(m)

LEMMA EnUso ==
  ASSUME NEW l, l \in Seq(AllocInt), NEW k \in 1..Len(l), NEW m,
         m = [l EXCEPT ![k].isFree = FALSE]
  PROVE  EsEnUso(m, l)
<1> DEFINE a == [l[k] EXCEPT !.isFree = FALSE]
<1>1. Len(l) \in Nat /\ DOMAIN l = 1..Len(l) /\ l[k] \in AllocInt
  OBVIOUS
<1>2. /\ a \in AllocInt /\ a.direccion = l[k].direccion
      /\ a.tamanio_data = l[k].tamanio_data /\ ~a.isFree
  BY <1>1 DEF AllocInt
<1>3. m = [l EXCEPT ![k] = a]
  OBVIOUS
<1> HIDE DEF a
<1>4. m \in Seq(AllocInt) /\ Len(m) = Len(l) /\ DOMAIN m = 1..Len(l)
  <2> DEFINE s == [l EXCEPT ![k] = a]
  <2>1. s \in Seq(AllocInt) /\ Len(s) = Len(l)
    BY <1>2
  <2>2. m = s
    BY <1>3
  <2>3. DOMAIN s = 1..Len(s)
    BY <2>1
  <2> HIDE DEF s
  <2>4. Len(m) = Len(l) /\ DOMAIN m = 1..Len(l) /\ m \in Seq(AllocInt)
    BY ONLY <2>1, <2>2, <2>3
  <2> QED
    BY <2>4
<1>5. \A i \in 1..Len(l) : m[i] = IF i = k THEN a ELSE l[i]
  BY <1>1, <1>3
<1>6. \A i \in 1..Len(l) : /\ m[i].direccion = l[i].direccion
                           /\ m[i].tamanio_data = l[i].tamanio_data
                           /\ m[i].isFree => l[i].isFree
  BY <1>2, <1>5
<1>7. Positivos(l) => Positivos(m)
  BY <1>1, <1>4, <1>6 DEF Positivos
<1>8. ASSUME Separados(l), NEW i \in 1..(Len(m) - 1) PROVE ~(m[i].isFree /\ m[i + 1].isFree)
  <2>1. i \in 1..Len(l) /\ i + 1 \in 1..Len(l) /\ i \in 1..(Len(l) - 1)
    BY <1>1, <1>4
  <2>2. ~(l[i].isFree /\ l[i + 1].isFree)
    BY <2>1, <1>8 DEF Separados
  <2> QED
    BY <2>1, <2>2, <1>6
<1>9. Separados(l) => Separados(m)
  BY <1>8 DEF Separados
<1> QED
  BY <1>4, <1>6, <1>7, <1>9 DEF EsEnUso

LEMMA DatoNatural ==
  ASSUME NEW l, l \in Seq(AllocInt), Positivos(l), NEW k \in 1..Len(l)
  PROVE  Dato(l[k]) \in Nat
<1>1. l[k] \in AllocInt /\ l[k].direccion >= 0
  BY DEF Positivos
<1>2. Dato(l[k]) = l[k].direccion + 9 /\ l[k].direccion \in Int
  BY <1>1, FinEntero
<1> QED
  BY ONLY <1>1, <1>2

LEMMA EnHeapLibrePaso ==
  ASSUME IInv, Sigue, existe', NEW t \in Tamanios, EnHeapLibre(t)
  PROVE  IInv' /\ CabeceraEnPaginas' /\ paginas' = paginas
<1> DEFINE k == LibrePara(t)
<1>0. t \in Nat /\ META = 9 /\ (0 \notin Tamanios => t > 0)
  BY AllocsAssumption DEF META
<1>1. /\ TypeOK /\ allocs \in Seq(AllocInt) /\ Positivos(allocs) /\ desordenado \in BOOLEAN
      /\ paginas \in 0..MaxPaginas /\ paginas \in Nat
      /\ ~desordenado => EnOrden(allocs, paginas)
  BY TiposDeAllocs, OrdenEs DEF IInv, Sigue
<1>2. /\ k \in 1..Len(allocs) /\ allocs[k].isFree /\ allocs[k].tamanio_data >= t
  <2>1. k # 0
    BY DEF EnHeapLibre
  <2> QED
    BY <1>1, <2>1, LibreParaEs
<1> DEFINE d == Dato(allocs[k])
<1>3. d \in Nat
  BY <1>1, <1>2, DatoNatural
<1>4. \/ /\ SeParte(k, t) /\ Asignado(Partido(k, t), {2}, paginas, d)
         /\ desordenado' = (desordenado \/ k # 1)
      \/ /\ Asignado([allocs EXCEPT ![k].isFree = FALSE], {}, paginas, d)
         /\ desordenado' = desordenado
  BY DEF EnHeapLibre
<1>5. allocs[k] \in AllocInt
  BY <1>1, <1>2
<1> HIDE DEF k
<1>6. CASE /\ SeParte(k, t) /\ Asignado(Partido(k, t), {2}, paginas, d)
           /\ desordenado' = (desordenado \/ k # 1)
  <2> DEFINE m == ParteDe(allocs, k, t)
  <2>1. Asignado(m, {2}, paginas, d)
    BY <1>6 DEF Partido, ParteDe
  <2>2. allocs[k].tamanio_data - t > META
    BY <1>6 DEF SeParte
  <2> HIDE DEF d
  <2>3. EsParte(m, allocs, k, t)
    <3>1. PICK w : w = m
      OBVIOUS
    <3> HIDE DEF m
    <3>2. w = ParteDe(allocs, k, t)
      BY <3>1 DEF m
    <3> QED
      BY <1>0, <1>1, <1>2, <2>2, <3>1, <3>2, ParteTipos
  <2>4. /\ m \in Seq(AllocInt) /\ Len(m) = Len(allocs) + 1 /\ Positivos(m)
        /\ k = 1 => m[1] = Alloc(allocs[1].direccion, t, FALSE)
    <3> HIDE DEF m
    <3> QED BY <1>1, <2>3 DEF EsParte
  <2>5. allocs' = m /\ paginas' = paginas
    BY <2>1 DEF Asignado
  <2>6. ASSUME ~desordenado' PROVE k = 1 /\ EnOrden(m, paginas)
    <3>1. k = 1 /\ EnOrden(allocs, paginas)
      BY <1>1, <1>6, <2>6
    <3>2. PICK w : w = m
      OBVIOUS
    <3>3. w = ParteDe(allocs, 1, t)
      BY <3>1, <3>2
    <3> HIDE DEF m
    <3>4. Seguidos(w) /\ Final(w) = Final(allocs) /\ Separados(w)
      <4>1. /\ Seguidos(allocs) /\ Separados(allocs) /\ allocs[1].isFree
            /\ 1 \in 1..Len(allocs) /\ allocs[1].tamanio_data - t > META
        BY <3>1, <1>2, <2>2 DEF EnOrden
      <4> QED
        BY <1>0, <1>1, <3>3, <4>1, ParteSeguidos
    <3> QED
      BY <3>1, <3>2, <3>4 DEF EnOrden
  <2> HIDE DEF m
  <2>7. TypeOK'
    <3>1. desordenado' \in BOOLEAN
      BY <1>1, <1>6
    <3> QED
      BY <1>1, <1>3, <2>1, <2>4, <3>1, AsignadoTipos
  <2>8. Embaldosado' /\ LibresSeparados'
    <3>1. desordenado' \in BOOLEAN
      BY <1>1, <1>6
    <3> QED
      BY <2>4, <2>5, <2>6, <3>1, OrdenTras
  <2>9. ASSUME ~desordenado', 0 \notin Tamanios PROVE estado' # "caido"
    <3>1. k = 1 /\ Seguidos(m) /\ Final(m) <= paginas * TAM
      BY <2>6, <2>9 DEF EnOrden
    <3>2. {2} \subseteq 1..Len(m) /\ 1 \in 1..Len(m)
      BY <1>1, <1>2, <2>4
    <3>3. Contiene(m[1], d)
      <4>1. m[1] \in AllocInt /\ m[1].tamanio_data > 0
        BY <1>0, <2>4, <2>9, <3>1, <3>2 DEF Alloc
      <4>2. Dato(m[1]) = d
        BY <2>4, <3>1 DEF Dato, Alloc, d
      <4> QED
        BY <4>1, <4>2, ContieneSuDato
    <3> QED
      BY <1>1, <2>1, <2>4, <3>1, <3>2, <3>3, AsignadoSinCaer
  <2> QED
    BY <2>5, <2>7, <2>8, <2>9 DEF IInv, CabeceraEnPaginas
<1>7. CASE /\ Asignado([allocs EXCEPT ![k].isFree = FALSE], {}, paginas, d)
           /\ desordenado' = desordenado
  <2> DEFINE m == [allocs EXCEPT ![k].isFree = FALSE]
  <2>1. Asignado(m, {}, paginas, d)
    BY <1>7
  <2> HIDE DEF d
  <2>2. PICK w : w = m
    OBVIOUS
  <2>3. w = [allocs EXCEPT ![k].isFree = FALSE]
    BY <2>2
  <2> HIDE DEF m
  <2>4. /\ w \in Seq(AllocInt) /\ Len(w) = Len(allocs)
        /\ \A i \in 1..Len(allocs) : /\ w[i].direccion = allocs[i].direccion
                                     /\ w[i].tamanio_data = allocs[i].tamanio_data
        /\ Positivos(w) /\ (Separados(allocs) => Separados(w))
    <3>1. allocs \in Seq(AllocInt) /\ k \in 1..Len(allocs)
      BY <1>1, <1>2
    <3>2. EsEnUso(w, allocs)
      BY <2>3, <3>1, EnUso
    <3> QED
      BY <1>1, <3>2 DEF EsEnUso
  <2>5. allocs' = w /\ paginas' = paginas
    BY <2>1, <2>2 DEF Asignado
  <2>6. ASSUME ~desordenado' PROVE EnOrden(w, paginas)
    <3>1. EnOrden(allocs, paginas)
      BY <1>1, <1>7, <2>6
    <3>2. Seguidos(w) /\ Final(w) = Final(allocs)
      BY <1>1, <2>4, <3>1, SeguidosIguales DEF EnOrden
    <3> QED
      BY <2>4, <3>1, <3>2 DEF EnOrden
  <2>7. TypeOK'
    BY <1>1, <1>3, <1>7, <2>1, <2>2, <2>4, AsignadoTipos
  <2>8. Embaldosado' /\ LibresSeparados'
    BY <1>1, <1>7, <2>4, <2>5, <2>6, OrdenTras
  <2>9. ASSUME ~desordenado', 0 \notin Tamanios PROVE estado' # "caido"
    <3>1. Seguidos(w) /\ Final(w) <= paginas * TAM
      BY <2>6, <2>9 DEF EnOrden
    <3>2. {} \subseteq 1..Len(w) /\ k \in 1..Len(w)
      BY <1>2, <2>4
    <3>3. Contiene(w[k], d)
      <4>1. w[k] \in AllocInt /\ w[k].direccion = allocs[k].direccion
            /\ w[k].tamanio_data = allocs[k].tamanio_data
        BY <1>2, <2>4, <3>2
      <4>2. w[k].tamanio_data > 0
        <5>1. allocs[k].tamanio_data \in Nat
          BY <1>5, FinEntero
        <5> QED
          BY <1>0, <1>2, <2>9, <4>1, <5>1
      <4>3. Dato(w[k]) = d
        BY <4>1 DEF Dato, d
      <4> QED
        BY <4>1, <4>2, <4>3, ContieneSuDato
    <3> QED
      BY <1>1, <2>1, <2>2, <2>4, <3>1, <3>2, <3>3, AsignadoSinCaer
  <2> QED
    BY <2>5, <2>7, <2>8, <2>9 DEF IInv, CabeceraEnPaginas
<1> QED
  BY <1>4, <1>6, <1>7

(* A refused request, or a step of no call, leaves the heap as it was.     *)
LEMMA SinCambiosPaso ==
  ASSUME IInv, CabeceraEnPaginas,
         UNCHANGED <<estado, existe, paginas, colgante, allocs, desordenado>>,
         respuesta' \in [status : Status, direccion : Nat]
  PROVE  IInv' /\ CabeceraEnPaginas' /\ paginas' = paginas
<1>1. TypeOK'
  BY DEF IInv, TypeOK
<1>2. Embaldosado' /\ LibresSeparados'
  BY DEF IInv, Embaldosado, LibresSeparados
<1>3. CabeceraEnPaginas'
  BY DEF CabeceraEnPaginas
<1> QED
  BY <1>1, <1>2, <1>3 DEF IInv

LEMMA RespuestaTipo ==
  ASSUME NEW s \in Status, NEW d \in Nat
  PROVE  Respuesta(s, d) \in [status : Status, direccion : Nat]
  BY DEF Respuesta

LEMMA SinEspacioPaso ==
  ASSUME IInv, CabeceraEnPaginas, SinEspacio, UNCHANGED existe
  PROVE  IInv' /\ CabeceraEnPaginas' /\ paginas' = paginas
<1>1. respuesta' \in [status : Status, direccion : Nat]
  BY RespuestaTipo DEF SinEspacio, Status
<1> QED
  BY <1>1, SinCambiosPaso DEF SinEspacio

LEMMA InvalidaPaso ==
  ASSUME IInv, CabeceraEnPaginas, Invalida, UNCHANGED existe
  PROVE  IInv' /\ CabeceraEnPaginas' /\ paginas' = paginas
<1>1. respuesta' \in [status : Status, direccion : Nat]
  BY RespuestaTipo DEF Invalida, Status
<1> QED
  BY <1>1, SinCambiosPaso DEF Invalida

LEMMA LibreEntero ==
  ASSUME TypeOK
  PROVE  /\ Libre \in Int /\ Ocupado(allocs) \in Int /\ paginas * TAM \in Nat
         /\ Libre = paginas * TAM - Ocupado(allocs)
<1>1. Ocupado(allocs) \in Int
  BY TiposDeAllocs, OcupadoTipo
<1>2. paginas * TAM \in Nat
  <2>1. \A u, v \in Nat : u * v \in Nat
    OBVIOUS
  <2> QED
    BY <2>1, TiposDeAllocs, AllocsAssumption
<1> QED
  BY <1>1, <1>2 DEF Libre

(* The step that gets pages: those that the alloc needs and not one more.  *)
Justas == /\ Ocupado(allocs') <= paginas' * TAM
          /\ paginas' * TAM < Ocupado(allocs') + TAM

LEMMA EspacioEn ==
  ASSUME TypeOK, Sigue, NEW t \in Nat, NEW n, EnEspacio(n, t)
  PROVE  paginas' = n /\ Ocupado(allocs') = Ocupado(allocs) + t + META
<1>1. allocs \in Seq(AllocInt) /\ Positivos(allocs)
  BY TiposDeAllocs DEF Sigue
<1> DEFINE a == Alloc(AlFinal, t, FALSE)
<1>2. AlFinal \in Nat
  <2>1. AlFinal = Final(allocs)
    BY DEF AlFinal, Final, Last
  <2> QED
    BY <1>1, <2>1, FinalPositivo
<1>3. a \in AllocInt /\ Bruto(a) = t + META
  BY <1>2 DEF Alloc, AllocInt, Bruto
<1>4. allocs' = Append(allocs, a) /\ paginas' = n
  BY DEF EnEspacio, Asignado
<1> HIDE DEF a
<1>5. Ocupado(Append(allocs, a)) = Ocupado(allocs) + Bruto(a)
  BY <1>1, <1>3, OcupadoAgrega
<1>6. Ocupado(allocs) \in Int /\ META = 9
  BY LibreEntero DEF META
<1> QED
  BY <1>3, <1>4, <1>5, <1>6

LEMMA EnPaginasNuevasPaso ==
  ASSUME IInv, CabeceraEnPaginas, Sigue, NEW t \in Tamanios, NEW r,
         EnPaginasNuevas(t, r), Libre < t + META, existe' = (existe \/ CheckSizeSwamp(r))
  PROVE  /\ IInv' /\ CabeceraEnPaginas'
         /\ paginas' > paginas => Justas
         /\ (paginas' > paginas /\ BajoElLimite(t) /\ TIPO_ASIGNACION = "FIJA") =>
              paginas' <= MARCOS_POR_CARPINCHO
<1> DEFINE c == Cantidad(Libre, t)
           n == paginas + c
<1>0. /\ t \in Nat /\ TAM \in Nat /\ TAM > 0 /\ META = 9
      /\ MARCOS_POR_CARPINCHO \in Nat /\ MaxPaginas \in Nat
  BY AllocsAssumption DEF META
<1>1. /\ TypeOK /\ paginas \in Nat /\ existe \in BOOLEAN
  BY TiposDeAllocs DEF IInv
<1>2. /\ Libre \in Int /\ Ocupado(allocs) \in Int /\ paginas * TAM \in Nat
      /\ Libre = paginas * TAM - Ocupado(allocs)
  BY <1>1, LibreEntero
<1>3. /\ c \in Nat /\ c >= 1
      /\ c * TAM >= t + META - Libre /\ c * TAM < t + META - Libre + TAM
  BY <1>0, <1>2, CantidadJusta
<1> HIDE DEF c
<1>4. /\ n \in Nat /\ n * TAM = paginas * TAM + c * TAM /\ c * TAM \in Nat
      /\ n * TAM \in Nat
  BY <1>0, <1>1, <1>3
<1>5. CASE CheckSizeSwamp(r)
  <2>1. n <= MaxPaginas /\ EnEspacio(n, t)
    BY <1>5 DEF EnPaginasNuevas, c
  <2>2. paginas' = n /\ Ocupado(allocs') = Ocupado(allocs) + t + META
    BY <1>0, <1>1, <2>1, EspacioEn
  <2>3. /\ Ocupado(allocs) + t + META <= n * TAM
        /\ n * TAM < (Ocupado(allocs) + t + META) + TAM
    BY ONLY <1>0, <1>2, <1>3, <1>4
  <2>4. n \in 0..MaxPaginas
    BY <1>0, <1>4, <2>1
  <2> HIDE DEF n
  <2>5. IInv' /\ CabeceraEnPaginas'
    BY <1>5, <2>1, <2>3, <2>4, EnEspacioPaso
  <2>6. Justas
    BY <2>2, <2>3 DEF Justas
  <2>7. ASSUME BajoElLimite(t), TIPO_ASIGNACION = "FIJA" PROVE n <= MARCOS_POR_CARPINCHO
    <3> DEFINE M == MARCOS_POR_CARPINCHO
    <3>1. (M - paginas) * TAM + Libre >= t + META
      BY <2>7 DEF BajoElLimite
    <3>2. /\ (M - paginas) * TAM = M * TAM - paginas * TAM
          /\ (M + 1) * TAM = M * TAM + TAM /\ M * TAM \in Int
      BY <1>0, <1>1
    <3>3. n * TAM < (M + 1) * TAM
      <4> DEFINE x == M * TAM
                 y == paginas * TAM
                 z == c * TAM
                 u == n * TAM
      <4>1. /\ x \in Int /\ y \in Int /\ z \in Int /\ u = y + z
            /\ (x - y) + Libre >= t + META
            /\ z < t + META - Libre + TAM
        BY <1>2, <1>3, <1>4, <3>1, <3>2
      <4> HIDE DEF x, y, z, u
      <4>2. u < x + TAM
        BY ONLY <4>1, <1>0, <1>2
      <4> QED
        BY <4>2, <3>2 DEF u, x
    <3>4. n \in Int /\ M \in Int
      BY <1>0, <1>4
    <3> QED
      BY <1>0, <3>3, <3>4, Cociente
  <2> QED
    BY <2>2, <2>5, <2>6, <2>7
<1>6. CASE ~CheckSizeSwamp(r)
  <2>1. SinEspacio /\ existe' = existe
    BY <1>1, <1>6 DEF EnPaginasNuevas
  <2>2. IInv' /\ CabeceraEnPaginas' /\ paginas' = paginas
    BY <2>1, SinEspacioPaso
  <2> QED
    BY <1>1, <2>2
<1> QED
  BY <1>5, <1>6

(* The removal of page 0, when all the allocs that begin in it are free.   *)
LEMMA CompactarPaso ==
  ASSUME TypeOK, existe, existe' = existe, NEW l, l \in Seq(AllocInt), Positivos(l),
         ~desordenado => EnOrden(l, paginas),
         Compactar(l), desordenado' = desordenado, respuesta' = Respuesta("EXITO", 0)
  PROVE  IInv' /\ CabeceraEnPaginas' /\ ~(paginas' > paginas)
<1>0. /\ paginas \in Nat /\ paginas \in 0..MaxPaginas /\ MaxPaginas \in Nat
      /\ desordenado \in BOOLEAN /\ colgante \in BOOLEAN /\ TAM \in Nat
  BY TiposDeAllocs, AllocsAssumption DEF TypeOK
<1>1. respuesta' \in [status : Status, direccion : Nat]
  BY RespuestaTipo DEF Status
<1>2. CASE paginas > 0 /\ Pagina0Libre(l)
  <2> DEFINE c == Compactados(l)
  <2>1. /\ allocs' = c /\ paginas' = paginas - 1 /\ colgante' = (paginas > 1)
        /\ estado' \in {"desbordado", "vivo", "indefinido"}
        /\ estado' # "desbordado" => ~Desborda(c)
    <3>1. /\ allocs' = c /\ paginas' = paginas - 1 /\ colgante' = (paginas > 1)
          /\ estado' \in CASE Desborda(c) -> {"desbordado"}
                           [] ~Desborda(c) /\ paginas = 1 -> {"vivo", "indefinido"}
                           [] ~Desborda(c) /\ paginas > 1 /\ Pagina0Libre(c) -> {"indefinido"}
                           [] OTHER -> {"vivo"}
      BY <1>2 DEF Compactar
    <3> HIDE DEF c
    <3>2. CASE Desborda(c)
      BY <3>1, <3>2
    <3>3. CASE ~Desborda(c)
      BY <3>1, <3>3
    <3> QED
      BY <3>1, <3>2, <3>3
  <2>2. c \in Seq(AllocInt)
    BY <1>2, CompactadosTipo DEF Pagina0Libre
  <2>3. ASSUME ~desordenado PROVE EnOrden(c, paginas - 1)
    <3>1. Seguidos(l) /\ Final(l) <= paginas * TAM /\ Separados(l)
      BY <2>3 DEF EnOrden
    <3>2. DePagina0(l) = {1}
      BY <1>2, <3>1, SoloElPrimero
    <3>3. PICK w : w = c
      OBVIOUS
    <3>4. w = Compactados(l)
      BY <3>3
    <3> HIDE DEF c
    <3>5. EsCompactado(w, l)
      BY <3>2, <3>4, CompactadosEs
    <3>6. Seguidos(w) /\ Final(w) <= (paginas - 1) * TAM
      BY <1>0, <1>2, <3>1, <3>2, <3>5, CompactadosSeguidos
    <3>7. Separados(w)
      BY <3>1, <3>5, CompactadosSeparados
    <3> QED
      BY <3>3, <3>6, <3>7 DEF EnOrden
  <2> HIDE DEF c
  <2>4. estado' # "desbordado" => \A i \in DOMAIN c : c[i].direccion >= 0
    <3>1. \A i \in DOMAIN c : c[i].direccion \in Int
      <4> TAKE i \in DOMAIN c
      <4>1. c[i] \in AllocInt
        BY <2>2
      <4> QED
        BY <4>1, FinEntero
    <3> QED
      BY <2>1, <3>1 DEF Desborda
  <2>5. TypeOK'
    <3>1. paginas' \in 0..MaxPaginas /\ colgante' \in BOOLEAN
      BY <1>0, <1>2, <2>1
    <3>2. estado' \in Estados
      BY <2>1 DEF Estados
    <3> QED
      BY <1>0, <1>1, <2>1, <2>2, <2>4, <3>1, <3>2 DEF TypeOK, AllocInt
  <2>6. Embaldosado' /\ LibresSeparados'
    BY <1>0, <2>1, <2>2, <2>3, OrdenTras
  <2> QED
    BY <1>0, <2>1, <2>5, <2>6 DEF IInv, CabeceraEnPaginas
<1>3. CASE ~(paginas > 0 /\ Pagina0Libre(l))
  <2>1. allocs' = l /\ estado' = "vivo" /\ paginas' = paginas /\ colgante' = colgante
    BY <1>3 DEF Compactar
  <2>2. TypeOK'
    BY <1>0, <1>1, <2>1 DEF TypeOK, AllocInt, Estados, Positivos
  <2>3. Embaldosado' /\ LibresSeparados'
    BY <1>0, <2>1, OrdenTras
  <2> QED
    BY <1>0, <2>1, <2>2, <2>3 DEF IInv, CabeceraEnPaginas
<1> QED
  BY <1>2, <1>3

LEMMA LiberarAllocPaso ==
  ASSUME IInv, Sigue, existe, existe' = existe,
         NEW k, k \in 1..Len(allocs), ~allocs[k].isFree, LiberarAlloc(k)
  PROVE  IInv' /\ CabeceraEnPaginas' /\ ~(paginas' > paginas)
<1> DEFINE i == HastaIzq(allocs, k)
           j == HastaDer(allocs, k)
           l == Unido(allocs, k)
<1>1. /\ TypeOK /\ allocs \in Seq(AllocInt) /\ Positivos(allocs) /\ desordenado \in BOOLEAN
      /\ paginas \in 0..MaxPaginas /\ paginas \in Nat
      /\ ~desordenado => EnOrden(allocs, paginas)
  BY TiposDeAllocs, OrdenEs DEF IInv, Sigue
<1>2. i \in 1..Len(allocs) /\ j \in 1..Len(allocs) /\ i <= j
  BY <1>1, Alrededor
<1>3. PICK m : m = l
  OBVIOUS
<1>4. m = UnidoDe(allocs, i, j)
  BY <1>3 DEF Unido, UnidoDe
<1>5. PICK p, q : p = i /\ q = j
  OBVIOUS
<1> HIDE DEF l, i, j
<1>6. EsUnido(m, allocs, p, q)
  BY <1>1, <1>2, <1>4, <1>5, UnidoEs
<1>7. m \in Seq(AllocInt) /\ p \in 1..Len(m)
  BY <1>6 DEF EsUnido
<1>8. Positivos(m)
  BY <1>1, <1>2, <1>5, <1>6, UnidoPositivos
<1>9. ASSUME ~desordenado PROVE EnOrden(m, paginas)
  <2>1. Seguidos(allocs) /\ Final(allocs) <= paginas * TAM /\ Separados(allocs)
    BY <1>1, <1>9 DEF EnOrden
  <2>2. Seguidos(m) /\ Final(m) = Final(allocs)
    BY <1>1, <1>2, <1>5, <1>6, <2>1, UnidoSeguidos
  <2>3. p = HastaIzq(allocs, k) /\ q = HastaDer(allocs, k)
    BY <1>5 DEF i, j
  <2>4. Separados(m)
    BY <1>1, <1>6, <2>1, <2>3, UnidoSeparados
  <2> QED
    BY <2>1, <2>2, <2>4 DEF EnOrden
<1>10. /\ respuesta' = Respuesta("EXITO", 0) /\ desordenado' = desordenado
       /\ \/ Compactar(m)
          \/ /\ Persistidos(m, {p}, paginas) # "vivo"
             /\ estado' = Persistidos(m, {p}, paginas)
             /\ allocs' = m /\ paginas' = paginas /\ colgante' = colgante
  BY <1>3, <1>5 DEF LiberarAlloc, l, i
<1>11. CASE Compactar(m)
  BY <1>1, <1>7, <1>8, <1>9, <1>10, <1>11, CompactarPaso
<1>12. CASE /\ estado' = Persistidos(m, {p}, paginas)
            /\ allocs' = m /\ paginas' = paginas /\ colgante' = colgante
  <2>1. estado' \in {"indefinido", "vivo", "caido"}
    BY <1>12, Escritos
  <2>2. respuesta' \in [status : Status, direccion : Nat]
    BY <1>10, RespuestaTipo DEF Status
  <2>3. TypeOK'
    BY <1>1, <1>7, <1>8, <1>10, <1>12, <2>1, <2>2 DEF TypeOK, AllocInt, Estados, Positivos
  <2>4. Embaldosado' /\ LibresSeparados'
    BY <1>1, <1>7, <1>9, <1>10, <1>12, OrdenTras
  <2>5. ASSUME ~desordenado PROVE estado' # "caido"
    <3>1. Seguidos(m) /\ Final(m) <= paginas * TAM
      BY <1>9, <2>5 DEF EnOrden
    <3>2. ConPagina(m, p, paginas)
      BY <1>1, <1>7, <3>1, ConPaginaEnOrden
    <3> QED
      BY <1>12, <3>2, Escritos
  <2> QED
    BY <1>1, <1>10, <1>12, <2>3, <2>4, <2>5 DEF IInv, CabeceraEnPaginas
<1> QED
  BY <1>10, <1>11, <1>12

LEMMA MemFreePaso ==
  ASSUME IInv, CabeceraEnPaginas, NEW d, MemFree(d)
  PROVE  IInv' /\ CabeceraEnPaginas' /\ ~(paginas' > paginas)
<1> DEFINE k == Empezando(d)
<1>1. allocs \in Seq(AllocInt) /\ paginas \in Nat
  BY TiposDeAllocs DEF IInv
<1>2. CASE existe /\ k # 0 /\ ~allocs[k].isFree /\ LiberarAlloc(k)
  <2>1. k \in 1..Len(allocs)
    BY <1>1, <1>2, EmpezandoEs
  <2>2. Sigue /\ existe' = existe
    BY DEF MemFree
  <2> HIDE DEF k
  <2> QED
    BY <1>2, <2>1, <2>2, LiberarAllocPaso
<1>3. CASE Invalida
  <2>1. existe' = existe
    BY DEF MemFree
  <2> QED
    BY <1>1, <1>3, <2>1, InvalidaPaso
<1> QED
  BY <1>2, <1>3 DEF MemFree

(* An access finds an alloc, so there are pages for it.                    *)
LEMMA AccedidoPaso ==
  ASSUME IInv, Sigue, existe' = existe, NEW d, NEW t \in Tamanios, Valido(d, t), Accedido(d, t),
         d \in Int
  PROVE  IInv' /\ CabeceraEnPaginas' /\ ~(paginas' > paginas)
<1>0. t \in Nat
  BY AllocsAssumption
<1>1. /\ TypeOK /\ allocs \in Seq(AllocInt) /\ desordenado \in BOOLEAN
      /\ paginas \in Nat
      /\ ~desordenado => EnOrden(allocs, paginas)
  BY TiposDeAllocs, OrdenEs DEF IInv
<1>2. /\ estado' \in {"caido", "indefinido", "vivo"}
      /\ estado' = "caido" => t > 0 /\ paginas = 0
      /\ respuesta' = Respuesta("EXITO", 0)
      /\ paginas' = paginas /\ colgante' = colgante /\ allocs' = allocs
      /\ desordenado' = desordenado
  BY DEF Accedido
<1>3. respuesta' \in [status : Status, direccion : Nat]
  BY <1>2, RespuestaTipo DEF Status
<1>4. TypeOK'
  BY <1>1, <1>2, <1>3 DEF TypeOK, Estados, Sigue
<1>5. Embaldosado' /\ LibresSeparados'
  BY <1>2 DEF IInv, Embaldosado, LibresSeparados
<1>6. ASSUME ~desordenado PROVE estado' # "caido"
  <2> SUFFICES ASSUME t > 0, paginas = 0 PROVE FALSE
    BY <1>2
  <2>1. Accesible(d + 0)
    BY <1>0 DEF Valido
  <2>2. PICK k \in 1..Len(allocs) : TRUE
    <3>1. Conteniendo(allocs, d + 0) # 0
      BY <2>1 DEF Accesible
    <3> QED
      BY <1>1, <3>1, ConteniendoEs
  <2>3. Seguidos(allocs) /\ Final(allocs) <= 0
    BY <1>1, <1>6, AllocsAssumption DEF EnOrden
  <2>4. allocs # <<>>
    BY <1>1, <2>2
  <2>5. Ocupado(allocs) >= META /\ Ocupado(allocs) \in Int
    BY <1>1, <2>4, OcupadoCota
  <2>6. Ocupado(allocs) = Final(allocs)
    BY <1>1, <2>3, Telescopio
  <2> QED
    BY <2>3, <2>5, <2>6 DEF META
<1> QED
  BY <1>1, <1>2, <1>4, <1>5, <1>6 DEF IInv, CabeceraEnPaginas

LEMMA MemReadPaso ==
  ASSUME IInv, CabeceraEnPaginas, NEW d \in Int, NEW t \in Tamanios, MemRead(d, t)
  PROVE  IInv' /\ CabeceraEnPaginas' /\ ~(paginas' > paginas)
<1>1. paginas \in Nat /\ Sigue /\ existe' = existe
  BY TiposDeAllocs DEF IInv, MemRead
<1>2. CASE Valido(d, t) /\ Accedido(d, t)
  BY <1>1, <1>2, AccedidoPaso
<1>3. CASE Invalida
  BY <1>1, <1>3, InvalidaPaso
<1> QED
  BY <1>2, <1>3 DEF MemRead

LEMMA MemWritePaso ==
  ASSUME IInv, CabeceraEnPaginas, NEW d \in Int, NEW t \in Tamanios, MemWrite(d, t)
  PROVE  IInv' /\ CabeceraEnPaginas' /\ ~(paginas' > paginas)
<1>1. paginas \in Nat /\ Sigue /\ existe' = existe /\ t \in Nat
  BY TiposDeAllocs, AllocsAssumption DEF IInv, MemWrite
<1>2. CASE Valido(d, t) /\ Accedido(d, t)
  BY <1>1, <1>2, AccedidoPaso
<1>3. CASE Invalida
  BY <1>1, <1>3, InvalidaPaso
<1>4. CASE /\ Valido(d, t) /\ Conteniendo(allocs, d) = 0 /\ estado' = "caido"
           /\ UNCHANGED <<paginas, colgante, allocs, desordenado, respuesta>>
  <2>1. TypeOK'
    BY <1>1, <1>4 DEF IInv, TypeOK, Estados, Sigue
  <2>2. Embaldosado' /\ LibresSeparados'
    BY <1>4 DEF IInv, Embaldosado, LibresSeparados
  <2>3. ASSUME 0 \notin Tamanios PROVE FALSE
    <3>1. t > 0
      BY <1>1, <2>3
    <3>2. Accesible(d + 0)
      BY <1>1, <1>4, <3>1 DEF Valido
    <3>3. d + 0 = d
      OBVIOUS
    <3> QED
      BY <1>4, <3>2, <3>3 DEF Accesible
  <2> QED
    BY <1>1, <1>4, <2>1, <2>2, <2>3 DEF IInv, CabeceraEnPaginas
<1> QED
  BY <1>2, <1>3, <1>4 DEF MemWrite

LEMMA VacioEnOrden ==
  /\ <<>> \in Seq(AllocInt) /\ EnOrden(<<>>, 0)
<1>1. Seguidos(<<>>) /\ Separados(<<>>)
  BY DEF Seguidos, Separados
<1>2. Final(<<>>) <= 0 * TAM
  BY AllocsAssumption DEF Final
<1> QED
  BY <1>1, <1>2 DEF EnOrden

LEMMA MemFinPaso ==
  ASSUME IInv, CabeceraEnPaginas, MemFin
  PROVE  IInv' /\ CabeceraEnPaginas' /\ ~(paginas' > paginas)
<1>1. /\ paginas \in Nat /\ Sigue /\ existe' = FALSE /\ TypeOK /\ 0 \in 0..MaxPaginas
  BY TiposDeAllocs, AllocsAssumption DEF IInv, MemFin
<1>2. CASE Cerrado
  <2>1. /\ paginas' = 0 /\ colgante' = FALSE /\ allocs' = <<>> /\ desordenado' = FALSE
        /\ estado' \in {"indefinido", "vivo"} /\ respuesta' = Respuesta("EXITO", 0)
    BY <1>2 DEF Cerrado
  <2>2. respuesta' \in [status : Status, direccion : Nat]
    BY <2>1, RespuestaTipo DEF Status
  <2>4. allocs' \in Seq(AllocInt) /\ EnOrden(allocs', paginas')
    BY <2>1, VacioEnOrden
  <2>3. TypeOK'
    <3>1. estado' \in Estados /\ estado' # "desbordado"
      BY <2>1 DEF Estados
    <3>2. existe' \in BOOLEAN /\ colgante' \in BOOLEAN /\ desordenado' \in BOOLEAN
      BY <1>1, <2>1
    <3>3. allocs' \in Seq([direccion : Int, tamanio_data : Nat, isFree : BOOLEAN])
      BY <2>4 DEF AllocInt
    <3>4. paginas' \in 0..MaxPaginas
      BY <1>1, <2>1
    <3> QED
      BY <2>1, <2>2, <3>1, <3>2, <3>3, <3>4 DEF TypeOK
  <2>5. Embaldosado' /\ LibresSeparados'
    BY <2>1, <2>4, OrdenTras
  <2> QED
    BY <1>1, <2>1, <2>3, <2>5 DEF IInv, CabeceraEnPaginas
<1>3. CASE ~existe /\ Invalida
  <2>1. existe' = existe
    BY <1>1, <1>3 DEF TypeOK
  <2> QED
    BY <1>1, <1>3, <2>1, InvalidaPaso
<1> QED
  BY <1>2, <1>3 DEF MemFin

-----------------------------------------------------------------------------
(* The theorems                                                            *)

LEMMA AllocsInicio == Init => IInv /\ CabeceraEnPaginas
<1> SUFFICES ASSUME Init PROVE IInv /\ CabeceraEnPaginas
  OBVIOUS
<1>1. /\ allocs = <<>> /\ paginas = 0 /\ desordenado = FALSE /\ estado = "vivo"
      /\ existe = FALSE /\ colgante = FALSE /\ respuesta = Respuesta("EXITO", 0)
  BY DEF Init
<1>2. allocs \in Seq(AllocInt) /\ EnOrden(allocs, paginas)
  BY <1>1, VacioEnOrden
<1>3. Embaldosado /\ LibresSeparados
  BY <1>2, OrdenEs
<1>4. respuesta \in [status : Status, direccion : Nat]
  BY <1>1, RespuestaTipo DEF Status
<1>5. TypeOK
  <2>1. 0 \in 0..MaxPaginas
    BY AllocsAssumption
  <2>2. estado \in Estados
    BY <1>1 DEF Estados
  <2>3. \A i \in DOMAIN allocs : allocs[i].direccion >= 0
    BY <1>1
  <2> QED
    BY <1>1, <1>2, <1>4, <2>1, <2>2, <2>3 DEF TypeOK, AllocInt
<1> QED
  BY <1>1, <1>3, <1>5 DEF IInv, CabeceraEnPaginas

Crece ==
  paginas' > paginas =>
    /\ Justas
    /\ TIPO_ASIGNACION = "FIJA" /\ existe => paginas' <= MARCOS_POR_CARPINCHO

LEMMA AllocsPaso ==
  IInv /\ CabeceraEnPaginas /\ [Next]_vars => IInv' /\ CabeceraEnPaginas' /\ Crece
<1> SUFFICES ASSUME IInv, CabeceraEnPaginas, [Next]_vars
             PROVE  IInv' /\ CabeceraEnPaginas' /\ Crece
  OBVIOUS
<1>0. /\ TypeOK /\ paginas \in Nat /\ allocs \in Seq(AllocInt) /\ existe \in BOOLEAN
      /\ Libre \in Int
  BY TiposDeAllocs, LibreEntero DEF IInv
<1>1. \A t \in Tamanios : t + META \in Int
  BY AllocsAssumption DEF META
<1>2. ASSUME NEW t \in Tamanios, MemAllocHeap(t) PROVE IInv' /\ CabeceraEnPaginas' /\ Crece
  <2>1. Sigue /\ existe' /\ EnHeapLibre(t)
    BY <1>2 DEF MemAllocHeap
  <2>2. IInv' /\ CabeceraEnPaginas' /\ paginas' = paginas
    BY <2>1, EnHeapLibrePaso
  <2> QED
    BY <1>0, <2>2 DEF Crece
<1>3. ASSUME NEW t \in Tamanios, MemAllocPagina(t) PROVE IInv' /\ CabeceraEnPaginas' /\ Crece
  <2>1. Sigue /\ existe' /\ EnEspacio(paginas, t) /\ Libre >= t + META
    BY <1>3 DEF MemAllocPagina, HayLugar
  <2>2. paginas \in 0..MaxPaginas
    BY <1>0, TiposDeAllocs
  <2>3. Ocupado(allocs) + t + META <= paginas * TAM
    <3>1. /\ Ocupado(allocs) \in Int /\ paginas * TAM \in Nat
          /\ Libre = paginas * TAM - Ocupado(allocs)
      BY <1>0, LibreEntero
    <3>2. t \in Int /\ META \in Int
      BY AllocsAssumption DEF META
    <3> QED
      BY ONLY <2>1, <3>1, <3>2
  <2>4. IInv' /\ CabeceraEnPaginas'
    BY <2>1, <2>2, <2>3, EnEspacioPaso
  <2>5. paginas' = paginas
    BY <2>1 DEF EnEspacio, Asignado
  <2> QED
    BY <1>0, <2>4, <2>5 DEF Crece
<1>4. ASSUME NEW t \in Tamanios, NEW r \in {-1, 1}, MemAllocSolicitar(t, r)
      PROVE  IInv' /\ CabeceraEnPaginas' /\ Crece
  <2>1. Sigue /\ existe /\ existe' = existe /\ ~HayLugar(t)
    BY <1>4 DEF MemAllocSolicitar
  <2>2. CASE BajoElLimite(t) /\ EnPaginasNuevas(t, r)
    <3>1. Libre < t + META
      BY <1>0, <1>1, <2>1 DEF HayLugar
    <3>2. existe' = (existe \/ CheckSizeSwamp(r))
      BY <1>0, <2>1
    <3> QED
      BY <2>1, <2>2, <3>1, <3>2, EnPaginasNuevasPaso DEF Crece
  <2>3. CASE SinEspacio
    <3>1. IInv' /\ CabeceraEnPaginas' /\ paginas' = paginas
      BY <2>1, <2>3, SinEspacioPaso
    <3> QED
      BY <1>0, <3>1 DEF Crece
  <2> QED
    BY <1>4, <2>2, <2>3 DEF MemAllocSolicitar
<1>5. ASSUME NEW t \in Tamanios, NEW r \in {-1, 1}, MemAllocPrimero(t, r)
      PROVE  IInv' /\ CabeceraEnPaginas' /\ Crece
  <2>1. Sigue /\ ~existe /\ EnPaginasNuevas(t, r) /\ existe' = CheckSizeSwamp(r)
    BY <1>5 DEF MemAllocPrimero
  <2>2. Libre < t + META
    <3>1. paginas = 0 /\ allocs = <<>>
      BY <1>0, <2>1 DEF TypeOK
    <3>2. Ocupado(allocs) = 0
      BY <3>1, VacioEnOrden, Telescopio DEF EnOrden, Final
    <3>3. Libre = 0
      BY <3>1, <3>2, AllocsAssumption DEF Libre
    <3>4. t \in Nat
      BY AllocsAssumption
    <3> QED
      BY <3>3, <3>4 DEF META
  <2>3. existe' = (existe \/ CheckSizeSwamp(r))
    BY <1>0, <2>1 DEF CheckSizeSwamp
  <2>4. IInv' /\ CabeceraEnPaginas' /\ (paginas' > paginas => Justas)
    BY <2>1, <2>2, <2>3, EnPaginasNuevasPaso
  <2> QED
    BY <2>1, <2>4 DEF Crece
<1>6. ASSUME NEW d \in Direcciones PROVE d \in Int
  <2>1. \A i \in DOMAIN allocs : Dato(allocs[i]) \in Int
    <3> TAKE i \in DOMAIN allocs
    <3>1. allocs[i] \in AllocInt
      BY <1>0
    <3> QED
      BY <3>1, FinEntero
  <2> QED
    BY <2>1 DEF Direcciones
<1>7. ASSUME NEW d \in Direcciones, MemFree(d) PROVE IInv' /\ CabeceraEnPaginas' /\ Crece
  BY <1>7, MemFreePaso DEF Crece
<1>8. ASSUME NEW d \in Direcciones, NEW t \in Tamanios, MemRead(d, t)
      PROVE  IInv' /\ CabeceraEnPaginas' /\ Crece
  BY <1>6, <1>8, MemReadPaso DEF Crece
<1>9. ASSUME NEW d \in Direcciones, NEW t \in Tamanios, MemWrite(d, t)
      PROVE  IInv' /\ CabeceraEnPaginas' /\ Crece
  BY <1>6, <1>9, MemWritePaso DEF Crece
<1>10. CASE MemFin
  BY <1>10, MemFinPaso DEF Crece
<1>11. CASE UNCHANGED vars
  <2>1. UNCHANGED <<estado, existe, paginas, colgante, allocs, desordenado, respuesta>>
    BY <1>11 DEF vars
  <2>2. respuesta' \in [status : Status, direccion : Nat]
    BY <1>0, <2>1 DEF TypeOK
  <2>3. IInv' /\ CabeceraEnPaginas' /\ paginas' = paginas
    BY <2>1, <2>2, SinCambiosPaso
  <2> QED
    BY <1>0, <2>3 DEF Crece
<1> QED
  BY <1>2, <1>3, <1>4, <1>5, <1>7, <1>8, <1>9, <1>10, <1>11 DEF Next

LEMMA AllocsInvariante == Spec => [](IInv /\ CabeceraEnPaginas)
<1>1. Init => IInv /\ CabeceraEnPaginas
  BY AllocsInicio
<1>2. IInv /\ CabeceraEnPaginas /\ [Next]_vars => (IInv /\ CabeceraEnPaginas)'
  BY AllocsPaso
<1> QED
  BY <1>1, <1>2, PTL DEF Spec

(* The types of the state of the heap, and that no alloc has an address     *)
(* below 0 while the memory works: every header is written at an address   *)
(* of the carpincho.                                                       *)
THEOREM AllocsTipos == Spec => []TypeOK
<1>1. IInv /\ CabeceraEnPaginas => TypeOK
  BY DEF IInv
<1> QED
  BY <1>1, AllocsInvariante, PTL

(* The allocs tile the space from address 0 on and end inside the pages,   *)
(* through splits, unions and page removals, whatever the page size, as    *)
(* long as only the first alloc of the list has been split.                *)
THEOREM AllocsEmbaldosado == Spec => []Embaldosado
<1>1. IInv /\ CabeceraEnPaginas => Embaldosado
  BY DEF IInv
<1> QED
  BY <1>1, AllocsInvariante, PTL

(* memory_memfree leaves no two neighbours free, which is why a page       *)
(* removal takes exactly one alloc.                                        *)
THEOREM AllocsLibresSeparados == Spec => []LibresSeparados
<1>1. IInv /\ CabeceraEnPaginas => LibresSeparados
  BY DEF IInv
<1> QED
  BY <1>1, AllocsInvariante, PTL

(* No header is ever written outside the pages and no access finds the     *)
(* carpincho without any: the null page of get_page is never followed,     *)
(* unless a request of size 0 is made or the list is out of order.         *)
THEOREM AllocsCabecera == Spec => []CabeceraEnPaginas
BY AllocsInvariante, PTL

(* calcular_cantidad_paginas_necesaria gives the pages an alloc needs and  *)
(* not one more, even where the list is out of order.                      *)
THEOREM AllocsPaginasJustas == Spec => PaginasJustas
<1>1. /\ IInv /\ CabeceraEnPaginas /\ [Next]_vars =>
         [paginas' > paginas => /\ Ocupado(allocs') <= paginas' * TAM
                                /\ paginas' * TAM < Ocupado(allocs') + TAM]_vars
  BY AllocsPaso DEF Crece, Justas
<1> QED
  BY <1>1, AllocsInvariante, PTL DEF Spec, PaginasJustas

(* check_alloc keeps a carpincho that has pages inside the quota of FIJA,  *)
(* for every quota, page size and size asked for.                          *)
THEOREM AllocsCupo == Spec => CupoDePaginas
<1>1. IInv /\ CabeceraEnPaginas /\ [Next]_vars =>
        [TIPO_ASIGNACION = "FIJA" /\ existe /\ paginas' > paginas =>
           paginas' <= MARCOS_POR_CARPINCHO]_vars
  BY AllocsPaso DEF Crece
<1> QED
  BY <1>1, AllocsInvariante, PTL DEF Spec, CupoDePaginas

(* The copies of memory_memread, memory_memwrite and                       *)
(* escribir_heap_memoria_fisica take every byte from its place when they   *)
(* touch at most two pages, as every header of 9 bytes does.               *)
THEOREM AllocsCopiaFiel == Spec => []CopiaFiel
<1>1. TypeOK => CopiaFiel
  <2> SUFFICES ASSUME TypeOK PROVE CopiaFiel
    OBVIOUS
  <2>0. /\ allocs \in Seq(AllocInt)
        /\ \A i \in DOMAIN allocs : Dato(allocs[i]) \in Int /\ allocs[i].direccion \in Int
    <3>1. allocs \in Seq(AllocInt)
      BY TiposDeAllocs
    <3>2. ASSUME NEW i \in DOMAIN allocs
          PROVE  Dato(allocs[i]) \in Int /\ allocs[i].direccion \in Int
      <4>1. allocs[i] \in AllocInt
        BY <3>1
      <4> QED
        BY <4>1, FinEntero
    <3> QED
      BY <3>1, <3>2
  <2>1. ASSUME NEW d \in Direcciones, NEW t \in Tamanios,
               PaginaDe(d, t - 1) <= PaginaDe(d, 0) + 1, NEW i \in 0..(t - 1)
        PROVE  Fuente(d, t, i) = i
    <3>1. d \in Int
      BY <2>0 DEF Direcciones
    <3>2. t \in Nat
      BY AllocsAssumption
    <3> QED
      BY <2>1, <3>1, <3>2, FuenteFiel
  <2>2. ASSUME NEW k \in DOMAIN allocs, NEW i \in 0..(META - 1)
        PROVE  Fuente(allocs[k].direccion, META, i) = i
    <3> DEFINE d == allocs[k].direccion
               u == PaginaDe(d, META - 1)
               v == PaginaDe(d, 0)
    <3>1. d \in Int /\ META \in Nat /\ META = 9 /\ TAM \in Nat /\ TAM > 9
      BY <2>0, AllocsAssumption DEF META
    <3>2. u <= v + 1
      <4> HIDE DEF d
      <4>1. u = (d + 8) \div TAM /\ v = (d + 0) \div TAM
        BY <3>1 DEF PaginaDe
      <4>2. u \in Int /\ v \in Int /\ d + 8 \in Int /\ d + 0 \in Int
        BY <3>1, <4>1, Division
      <4> HIDE DEF u, v
      <4>3. u * TAM <= d + 8
        BY <3>1, <4>1, <4>2, EnCociente
      <4>4. d + 0 < v * TAM + TAM
        BY <3>1, <4>1, <4>2, EnCociente
      <4>5. /\ ((v + 1) + 1) * TAM = v * TAM + TAM + TAM
            /\ v * TAM \in Int /\ u * TAM \in Int
        BY <3>1, <4>2
      <4>6. u * TAM < ((v + 1) + 1) * TAM
        BY ONLY <3>1, <4>2, <4>3, <4>4, <4>5
      <4>7. v + 1 \in Int
        BY <4>2
      <4> QED
        BY <3>1, <4>2, <4>6, <4>7, Cociente
    <3> HIDE DEF d
    <3>3. Fuente(d, META, i) = i
      BY <3>1, <3>2, FuenteFiel
    <3> QED
      BY <3>3 DEF d
  <2> QED
    BY <2>1, <2>2 DEF CopiaFiel
<1> QED
  BY <1>1, AllocsTipos, PTL

(* No two allocs share a byte until an alloc other than the first of the   *)
(* list is split: the overlaps that memory_memalloc can produce need that  *)
(* split, whose remainder list_get_index_alloc lists out of place.         *)
THEOREM AllocsSinSolapes == Spec => [](~desordenado => SinSolapes)
<1>1. IInv /\ CabeceraEnPaginas => (~desordenado => SinSolapes)
  <2> SUFFICES ASSUME IInv, ~desordenado,
                      NEW i \in DOMAIN allocs, NEW j \in DOMAIN allocs, i < j
               PROVE  Fin(allocs[i]) <= allocs[j].direccion
    BY DEF SinSolapes
  <2>1. allocs \in Seq(AllocInt)
    BY TiposDeAllocs DEF IInv
  <2>2. Seguidos(allocs)
    BY <2>1, OrdenEs DEF IInv, EnOrden
  <2>3. i \in 1..(j - 1) /\ j \in 1..Len(allocs)
    BY <2>1
  <2> QED
    BY <2>1, <2>2, <2>3, Ordenados
<1> QED
  BY <1>1, AllocsInvariante, PTL

=============================================================================
